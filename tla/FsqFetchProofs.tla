--------------------------- MODULE FsqFetchProofs ---------------------------
(***************************************************************************)
(* What MCFsqFetch checks on three check-ins, proved for any number of     *)
(* them and any page size, buffer, clock and number of interrupted runs.   *)
(*                                                                         *)
(* The argument has two halves.  Paging: the place of a check-in in the    *)
(* listing only ever grows while a run downloads (unless one is deleted),  *)
(* so what lies before the offset is stored or in the current page, and    *)
(* an empty page means that everything lies before the offset.  Buffer:    *)
(* what a run did not see was posted during it, at most MaxLag before its  *)
(* start, and what it stored is at most MaxRun after its start.            *)
(***************************************************************************)
EXTENDS FsqFetch, FiniteSetTheorems, TLAPS

(***************************************************************************)
(* The listing and its pages.                                              *)
(***************************************************************************)

\* No two check-ins are posted with the same createdAt.
Distinct ==
    \A c, d \in Checkin : posted[c] > 0 /\ posted[c] = posted[d] => c = d

\* A check-in's place is a number, and smaller than the length of the listing
\* when it is listed.
LEMMA RankType ==
    ASSUME IsFiniteSet(Checkin), NEW c
    PROVE  /\ IsFiniteSet(Listing)
           /\ Cardinality(Listing) \in Nat
           /\ IsFiniteSet(Newer(c))
           /\ Rank(c) \in Nat
  <1>1. Listing \in SUBSET Checkin
    BY DEF Listing, Live
  <1>2. Newer(c) \in SUBSET Listing
    BY DEF Newer
  <1>3. IsFiniteSet(Listing)
    BY <1>1, FS_Subset
  <1>4. IsFiniteSet(Newer(c))
    BY <1>2, <1>3, FS_Subset
  <1> QED BY <1>3, <1>4, FS_CardinalityType DEF Rank

LEMMA RankBelowLength ==
    ASSUME IsFiniteSet(Checkin), posted \in [Checkin -> Nat],
           NEW c \in Listing
    PROVE  Rank(c) < Cardinality(Listing)
  <1>1. Newer(c) \in SUBSET Listing
    BY DEF Newer
  <1>2. c \notin Newer(c)
    BY DEF Newer, Listing, Live
  <1>3. Newer(c) # Listing
    BY <1>2
  <1>4. /\ Cardinality(Newer(c)) <= Cardinality(Listing)
        /\ Cardinality(Newer(c)) # Cardinality(Listing)
    BY <1>1, <1>3, RankType, FS_Subset
  <1> QED BY <1>4, RankType DEF Rank

\* No two listed check-ins have the same place.
LEMMA RankInjective ==
    ASSUME IsFiniteSet(Checkin), posted \in [Checkin -> Nat], Distinct,
           NEW c \in Listing, NEW d \in Listing, Rank(c) = Rank(d)
    PROVE  c = d
  <1>1. /\ c \in Checkin /\ d \in Checkin
        /\ posted[c] \in Nat /\ posted[d] \in Nat
        /\ posted[c] > 0 /\ posted[d] > 0
    BY DEF Listing, Live
  <1>2. ASSUME NEW x \in Listing, NEW y \in Listing, posted[x] > posted[y]
        PROVE  Rank(x) # Rank(y)
    <2>1. /\ x \in Checkin /\ y \in Checkin
          /\ posted[x] \in Nat /\ posted[y] \in Nat
      BY DEF Listing, Live
    <2>2. \A z \in Listing : posted[z] \in Nat
      BY DEF Listing, Live
    <2>3. Newer(x) \in SUBSET Newer(y)
      BY <1>2, <2>1, <2>2 DEF Newer
    <2>4. x \in Newer(y) /\ x \notin Newer(x)
      BY <1>2, <2>1 DEF Newer
    <2>5. Cardinality(Newer(x)) # Cardinality(Newer(y))
      BY <2>3, <2>4, RankType, FS_Subset
    <2> QED BY <2>5 DEF Rank
  <1>3. ~(posted[c] > posted[d]) /\ ~(posted[d] > posted[c])
    BY <1>2
  <1>4. posted[c] = posted[d]
    BY <1>1, <1>3
  <1> QED BY <1>1, <1>4 DEF Distinct

\* A page has no more items than were asked for.
LEMMA PageSize ==
    ASSUME IsFiniteSet(Checkin), posted \in [Checkin -> Nat], Distinct,
           fetched \in Nat, Limit \in Nat \ {0}
    PROVE  /\ IsFiniteSet(Page)
           /\ Cardinality(Page) \in Nat
           /\ Cardinality(Page) <= Limit
  <1> DEFINE T == fetched .. (fetched + Limit - 1)
             f == [c \in Page |-> Rank(c)]
  <1>1. \A c \in Page : c \in Listing /\ Rank(c) \in T
    BY RankType DEF Page
  <1>2. \A c, d \in Page : f[c] = f[d] => c = d
    BY <1>1, RankInjective
  <1>3. f \in Injection(Page, T)
    BY <1>1, <1>2 DEF Injection, IsInjective
  <1>4. IsFiniteSet(T) /\ Cardinality(T) = Limit
    <2>1. fetched \in Int /\ fetched + Limit - 1 \in Int
      OBVIOUS
    <2>2. ~(fetched > fetched + Limit - 1)
      OBVIOUS
    <2>3. (fetched + Limit - 1) - fetched + 1 = Limit
      OBVIOUS
    <2> QED BY <2>1, <2>2, <2>3, FS_Interval
  <1>5. IsFiniteSet(Page) /\ Cardinality(Page) <= Cardinality(T)
    <2> HIDE DEF f, T
    <2> QED BY <1>3, <1>4, FS_Injection
  <1> QED BY <1>4, <1>5, FS_CardinalityType

\* A page without items is past the end: every listed check-in is before it.
LEMMA EmptyPageIsLast ==
    ASSUME IsFiniteSet(Checkin), posted \in [Checkin -> Nat], Distinct,
           fetched \in Nat, Limit \in Nat \ {0}, Page = {},
           NEW c \in Listing
    PROVE  Rank(c) < fetched
  <1> DEFINE n == Cardinality(Listing)
             T == 0 .. (n - 1)
             f == [d \in Listing |-> Rank(d)]
  <1>1. n \in Nat
    BY RankType
  <1>2. \A d \in Listing : Rank(d) \in T
    BY <1>1, RankType, RankBelowLength
  <1>3. \A d, e \in Listing : f[d] = f[e] => d = e
    BY RankInjective
  <1>4. f \in Injection(Listing, T)
    BY <1>2, <1>3 DEF Injection, IsInjective
  <1>5. n # 0
    <2>1. IsFiniteSet(Listing)
      BY RankType
    <2> QED BY <2>1, FS_EmptySet
  <1>6. IsFiniteSet(T) /\ Cardinality(T) = n
    <2>1. 0 \in Int /\ n - 1 \in Int /\ ~(0 > n - 1) /\ (n - 1) - 0 + 1 = n
      BY <1>1, <1>5
    <2> QED BY <2>1, FS_Interval
  <1>7. f \in Surjection(Listing, T)
    <2>1. Cardinality(Listing) = Cardinality(T)
      BY <1>6
    <2> HIDE DEF f, T
    <2> QED BY <1>4, <1>6, <2>1, FS_Injection
  <1>8. SUFFICES ASSUME ~(Rank(c) < fetched) PROVE FALSE
    OBVIOUS
  <1>9. fetched \in T
    BY <1>1, <1>2, <1>8
  <1>10. PICK d \in Listing : f[d] = fetched
    BY <1>7, <1>9 DEF Surjection
  <1>11. d \in Page
    BY <1>10 DEF Page
  <1> QED BY <1>11

(***************************************************************************)
(* The inductive invariant, in named parts.                                *)
(***************************************************************************)

\* A run only ever deals with check-ins that were posted.
Known == \A c \in owed \union stored \union batch : posted[c] > 0

\* What Foursquare had at the start of a run is still there while the run
\* downloads, unless something was deleted.
OwedListed == Downloading /\ ~shrunk => owed \subseteq Live

\* What was owed at the start, is asked for, and is before the offset has a
\* row or is an item of the page that is being stored.
Covered ==
    Downloading /\ ~shrunk
        => \A c \in owed :
              posted[c] > since /\ Rank(c) < fetched => c \in stored \union batch

PagingInv == TypeOK /\ Distinct /\ Known /\ OwedListed /\ Covered /\ RunCovers

-----------------------------------------------------------------------------
LEMMA InitPaging == FsqFetchAssumption /\ Init => PagingInv
  <1> SUFFICES ASSUME FsqFetchAssumption, Init PROVE PagingInv
    OBVIOUS
  <1>1. TypeOK
    <2>1. posted \in [Checkin -> Nat]
      BY DEF Init
    <2>2. faults \in 0..MaxFaults
      BY DEF Init, FsqFetchAssumption
    <2>3. (pc = "upsert") = (batch # {})
      BY DEF Init
    <2>4. /\ clock \in Nat /\ since \in Int /\ fetched \in Nat /\ startedAt \in Nat
          /\ pc \in {"idle", "fetch", "upsert", "denormalise"}
      BY DEF Init
    <2>5. /\ deleted \subseteq Checkin /\ stored \subseteq Checkin
          /\ batch \subseteq Checkin /\ owed \subseteq Checkin
      BY DEF Init
    <2>6. shrunk \in BOOLEAN /\ gap \in BOOLEAN
      BY DEF Init
    <2> QED BY <2>1, <2>2, <2>3, <2>4, <2>5, <2>6 DEF TypeOK
  <1>2. Distinct
    BY DEF Init, Distinct
  <1>3. Known /\ OwedListed /\ Covered /\ RunCovers
    BY DEF Init, Known, OwedListed, Covered, RunCovers, Downloading
  <1> QED BY <1>1, <1>2, <1>3 DEF PagingInv

\* The type invariant is inductive, with Distinct, which bounds a page.
LEMMA StepType ==
    ASSUME FsqFetchAssumption, TypeOK, Distinct, [Next]_vars
    PROVE  TypeOK' /\ Distinct'
  <1> USE DEF FsqFetchAssumption
  <1>1. CASE Tick
    BY <1>1 DEF Tick, TypeOK, Distinct, remoteVars, runVars, histVars
  <1>2. ASSUME NEW c \in Checkin, Post(c) PROVE TypeOK' /\ Distinct'
    <2>1. PICK t \in (clock - MaxLag)..clock :
             t > 0 /\ (\A d \in Checkin : posted[d] # t)
               /\ posted' = [posted EXCEPT ![c] = t]
      BY <1>2 DEF Post
    <2>2. clock \in Int /\ MaxLag \in Int /\ t \in Nat
      BY <2>1 DEF TypeOK
    <2>3. posted' \in [Checkin -> Nat]
      BY <2>1, <2>2 DEF TypeOK
    <2>4. TypeOK'
      BY <1>2, <2>3 DEF Post, TypeOK, runVars, histVars
    <2>5. Distinct'
      BY <2>1, <2>2 DEF TypeOK, Distinct
    <2> QED BY <2>4, <2>5
  <1>3. ASSUME NEW c \in Deletable, Delete(c) PROVE TypeOK' /\ Distinct'
    BY <1>3 DEF Delete, TypeOK, Distinct, runVars, Live
  <1>4. CASE StartRun
    <2>1. PICK t \in {posted[c] : c \in stored} \union {0} : since' = Since(t)
      BY <1>4 DEF StartRun
    <2>2. since' \in Int
      BY <2>1 DEF Since, TypeOK
    <2> QED BY <1>4, <2>2 DEF StartRun, TypeOK, Distinct, remoteVars, Live
  <1>5. CASE FetchPage
    <2>1. Cardinality(Page) \in Nat
      BY PageSize DEF TypeOK
    <2>2. Page \subseteq Checkin /\ Page # {}
      BY <1>5 DEF FetchPage, IsLastPage, Page, Listing, Live
    <2> QED BY <1>5, <2>1, <2>2
            DEF FetchPage, NextOffset, TypeOK, Distinct, remoteVars, histVars
  <1>6. CASE FetchEnd
    BY <1>6 DEF FetchEnd, TypeOK, Distinct, remoteVars, histVars
  <1>7. CASE Upsert
    BY <1>7 DEF Upsert, TypeOK, Distinct, remoteVars, histVars
  <1>8. CASE FinishRun
    BY <1>8 DEF FinishRun, TypeOK, Distinct, remoteVars
  <1>9. CASE StopRun
    BY <1>9 DEF StopRun, TypeOK, Distinct, remoteVars
  <1>10. CASE UNCHANGED vars
    BY <1>10 DEF vars, remoteVars, runVars, histVars, TypeOK, Distinct
  <1> QED BY <1>1, <1>2, <1>3, <1>4, <1>5, <1>6, <1>7, <1>8, <1>9, <1>10 DEF Next

\* Nothing that happens at Foursquare, short of a deletion, moves a check-in
\* towards the start of the listing of a run.
LEMMA RankGrows ==
    ASSUME FsqFetchAssumption, TypeOK, NEW c \in Checkin, Post(c),
           NEW d \in Checkin, posted[d] > 0
    PROVE  posted'[d] = posted[d] /\ Rank(d) <= Rank(d)'
  <1>1. PICK t \in (clock - MaxLag)..clock :
           t > 0 /\ posted' = [posted EXCEPT ![c] = t]
    BY DEF Post
  <1>2. c # d /\ posted[c] = 0
    BY DEF Post, TypeOK
  <1>3. posted'[d] = posted[d]
    BY <1>1, <1>2 DEF TypeOK
  <1>4. Newer(d) \in SUBSET Newer(d)'
    <2>1. ASSUME NEW e \in Newer(d) PROVE e \in Newer(d)'
      <3>1. /\ e \in Checkin /\ e \notin deleted
            /\ posted[e] > 0 /\ posted[e] > since /\ posted[e] > posted[d]
        BY <2>1 DEF Newer, Listing, Live
      <3>2. posted'[e] = posted[e]
        BY <1>1, <1>2, <3>1 DEF TypeOK
      <3>3. deleted' = deleted /\ since' = since
        BY DEF Post, runVars
      <3>4. posted'[e] > 0 /\ posted'[e] > since' /\ posted'[e] > posted'[d]
        BY <1>3, <3>1, <3>2, <3>3
      <3>5. e \in Live'
        BY <3>1, <3>3, <3>4 DEF Live
      <3>6. e \in Listing'
        BY <3>4, <3>5 DEF Listing
      <3> QED BY <3>4, <3>6 DEF Newer
    <2> QED BY <2>1
  <1>5. IsFiniteSet(Newer(d)') /\ IsFiniteSet(Newer(d))
    <2>1. Newer(d)' \in SUBSET Checkin
      BY DEF Newer, Listing, Live
    <2>2. IsFiniteSet(Newer(d)')
      BY <2>1, FS_Subset DEF FsqFetchAssumption
    <2> QED BY <1>4, <2>2, FS_Subset
  <1>6. Cardinality(Newer(d)) <= Cardinality(Newer(d)')
    BY <1>4, <1>5, FS_Subset
  <1> QED BY <1>3, <1>6 DEF Rank

LEMMA StepPaging ==
    ASSUME FsqFetchAssumption, PagingInv, [Next]_vars
    PROVE  PagingInv'
  <1> USE DEF FsqFetchAssumption, PagingInv
  <1>0. TypeOK' /\ Distinct'
    BY StepType
  <1> SUFFICES Known' /\ OwedListed' /\ Covered' /\ RunCovers'
    BY <1>0
  <1>1. CASE Tick
    <2>1. UNCHANGED <<posted, deleted, stored, pc, since, fetched, batch, owed, shrunk>>
      BY <1>1 DEF Tick, remoteVars, runVars, histVars
    <2> QED BY <2>1 DEF Known, OwedListed, Covered, RunCovers, Downloading, Live,
                        Rank, Newer, Listing
  <1>2. ASSUME NEW c \in Checkin, Post(c)
        PROVE  Known' /\ OwedListed' /\ Covered' /\ RunCovers'
    <2>1. UNCHANGED <<deleted, stored, pc, since, fetched, batch, owed, shrunk>>
      BY <1>2 DEF Post, runVars, histVars
    <2>2. \A d \in Checkin : posted[d] > 0
             => posted'[d] = posted[d] /\ Rank(d) <= Rank(d)'
      BY <1>2, RankGrows
    <2>3. Known' /\ OwedListed'
      BY <2>1, <2>2 DEF Known, OwedListed, Downloading, Live, TypeOK
    <2>4. Covered'
      <3> SUFFICES ASSUME Downloading, ~shrunk, NEW d \in owed,
                          posted'[d] > since, Rank(d)' < fetched
                   PROVE  d \in stored \union batch
        BY <2>1 DEF Covered, Downloading
      <3>1. d \in Checkin /\ posted[d] > 0
        BY DEF Known, TypeOK
      <3>2. posted[d] > since /\ Rank(d) <= Rank(d)'
        BY <2>2, <3>1
      <3>3. Rank(d) \in Nat /\ Rank(d)' \in Nat
        <4>1. Rank(d) \in Nat
          BY RankType
        <4>2. IsFiniteSet(Newer(d)')
          <5>1. Newer(d)' \in SUBSET Checkin
            BY DEF Newer, Listing, Live
          <5> QED BY <5>1, FS_Subset
        <4>3. Rank(d)' \in Nat
          BY <4>2, FS_CardinalityType DEF Rank
        <4> QED BY <4>1, <4>3
      <3>4. Rank(d) < fetched
        BY <3>2, <3>3 DEF TypeOK
      <3> QED BY <3>2, <3>4 DEF Covered
    <2>5. RunCovers'
      <3> SUFFICES ASSUME pc = "denormalise", ~shrunk, NEW d \in owed,
                          posted'[d] > since
                   PROVE  d \in stored
        BY <2>1 DEF RunCovers
      <3>1. d \in Checkin /\ posted[d] > 0
        BY DEF Known, TypeOK
      <3> QED BY <2>2, <3>1 DEF RunCovers
    <2> QED BY <2>3, <2>4, <2>5
  <1>3. ASSUME NEW c \in Deletable, Delete(c)
        PROVE  Known' /\ OwedListed' /\ Covered' /\ RunCovers'
    <2>1. UNCHANGED <<posted, stored, pc, since, fetched, batch, owed>>
      BY <1>3 DEF Delete, runVars
    <2>2. shrunk' = (shrunk \/ Downloading)
      BY <1>3 DEF Delete
    <2>3. ~(Downloading' /\ ~shrunk')
      BY <2>1, <2>2 DEF Downloading
    <2>4. OwedListed' /\ Covered'
      BY <2>3 DEF OwedListed, Covered
    <2>5. Known'
      BY <2>1 DEF Known
    <2>6. RunCovers'
      BY <2>1, <2>2 DEF RunCovers
    <2> QED BY <2>4, <2>5, <2>6
  <1>4. CASE StartRun
    <2>1. /\ UNCHANGED <<posted, deleted, stored, batch>>
          /\ pc' = "fetch" /\ fetched' = 0 /\ owed' = Live
      BY <1>4 DEF StartRun, remoteVars
    <2>2. Known' /\ OwedListed'
      BY <2>1 DEF Known, OwedListed, Live
    <2>3. RunCovers'
      BY <2>1 DEF RunCovers
    <2>4. ASSUME NEW c \in Checkin PROVE ~(Rank(c)' < fetched')
      <3>1. Newer(c)' \in SUBSET Checkin
        BY DEF Newer, Listing, Live
      <3>2. Rank(c)' \in Nat
        BY <3>1, FS_Subset, FS_CardinalityType DEF Rank
      <3> QED BY <2>1, <3>2
    <2>5. Covered'
      BY <2>1, <2>4 DEF Covered, Live
    <2> QED BY <2>2, <2>3, <2>5
  <1>5. CASE FetchPage
    <2>1. /\ UNCHANGED <<posted, deleted, stored, since, owed, shrunk>>
          /\ pc = "fetch" /\ pc' = "upsert" /\ batch' = Page
          /\ fetched' = fetched + Cardinality(Page)
      BY <1>5 DEF FetchPage, NextOffset, remoteVars, histVars
    <2>2. Known'
      BY <2>1 DEF Known, Page, Listing, Live
    <2>3. OwedListed' /\ RunCovers'
      BY <2>1 DEF OwedListed, RunCovers, Downloading, Live
    <2>4. Covered'
      <3> SUFFICES ASSUME ~shrunk, NEW c \in owed, posted[c] > since,
                          Rank(c) < fetched + Cardinality(Page)
                   PROVE  c \in stored \union Page
        BY <2>1 DEF Covered, Rank, Newer, Listing, Live
      <3>1. Downloading /\ batch = {}
        BY <2>1 DEF Downloading, TypeOK
      <3>2. c \in Listing
        BY <3>1 DEF OwedListed, Listing
      <3>3. CASE Rank(c) < fetched
        BY <3>1, <3>3 DEF Covered
      <3>4. CASE ~(Rank(c) < fetched)
        <4>1. Cardinality(Page) \in Nat /\ Cardinality(Page) <= Limit
          BY PageSize DEF TypeOK
        <4>2. Rank(c) \in Nat
          BY RankType
        <4>3. fetched <= Rank(c) /\ Rank(c) < fetched + Limit
          BY <3>4, <4>1, <4>2 DEF TypeOK
        <4> QED BY <3>2, <4>3 DEF Page
      <3> QED BY <3>3, <3>4
    <2> QED BY <2>2, <2>3, <2>4
  <1>6. CASE FetchEnd
    <2>1. /\ UNCHANGED <<posted, deleted, stored, since, fetched, batch, owed, shrunk>>
          /\ pc = "fetch" /\ pc' = "denormalise" /\ Page = {}
      BY <1>6 DEF FetchEnd, IsLastPage, remoteVars, histVars
    <2>2. Known' /\ OwedListed' /\ Covered'
      BY <2>1 DEF Known, OwedListed, Covered, Downloading
    <2>3. RunCovers'
      <3> SUFFICES ASSUME ~shrunk, NEW c \in owed, posted[c] > since
                   PROVE  c \in stored
        BY <2>1 DEF RunCovers
      <3>1. Downloading /\ batch = {}
        BY <2>1 DEF Downloading, TypeOK
      <3>2. c \in Listing
        BY <3>1 DEF OwedListed, Listing
      <3>3. Rank(c) < fetched
        BY <2>1, <3>2, EmptyPageIsLast DEF TypeOK
      <3> QED BY <3>1, <3>3 DEF Covered
    <2> QED BY <2>2, <2>3
  <1>7. CASE Upsert
    <2>1. PICK c \in batch : /\ stored' = stored \union {c}
                             /\ batch' = batch \ {c}
                             /\ pc' = IF batch = {c} THEN "fetch" ELSE "upsert"
      BY <1>7 DEF Upsert
    <2>2. /\ UNCHANGED <<posted, deleted, since, fetched, owed, shrunk>>
          /\ pc = "upsert"
      BY <1>7 DEF Upsert, remoteVars, histVars
    <2>3. stored' \union batch' = stored \union batch
      BY <2>1
    <2>4. Known' /\ RunCovers'
      BY <2>1, <2>2, <2>3 DEF Known, RunCovers
    <2>5. OwedListed'
      BY <2>1, <2>2 DEF OwedListed, Downloading, Live
    <2>6. Covered'
      BY <2>2, <2>3 DEF Covered, Downloading, Rank, Newer, Listing, Live
    <2> QED BY <2>4, <2>5, <2>6
  <1>8. CASE FinishRun
    <2>1. UNCHANGED <<posted, stored, batch, owed>> /\ pc' = "idle"
      BY <1>8 DEF FinishRun, remoteVars
    <2> QED BY <2>1 DEF Known, OwedListed, Covered, RunCovers, Downloading
  <1>9. CASE StopRun
    <2>1. UNCHANGED <<posted, stored, owed>> /\ batch' = {} /\ pc' = "idle"
      BY <1>9 DEF StopRun, remoteVars
    <2> QED BY <2>1 DEF Known, OwedListed, Covered, RunCovers, Downloading
  <1>10. CASE UNCHANGED vars
    <2>1. UNCHANGED <<posted, deleted, stored, pc, since, fetched, batch, owed, shrunk>>
      BY <1>10 DEF vars, remoteVars, runVars, histVars
    <2> QED BY <2>1 DEF Known, OwedListed, Covered, RunCovers, Downloading, Live,
                        Rank, Newer, Listing
  <1> QED BY <1>1, <1>2, <1>3, <1>4, <1>5, <1>6, <1>7, <1>8, <1>9, <1>10 DEF Next

-----------------------------------------------------------------------------
\* In every state of the sync the variables have their types, and a run is in
\* its batch handler exactly while items of its page are left: fetchCheckins
\* returns on a page without items, and the handler stores all of a page.
THEOREM TypeCorrect == SafetySpec => []TypeOK
  <1>1. FsqFetchAssumption /\ Init => PagingInv
    BY InitPaging
  <1>2. FsqFetchAssumption /\ PagingInv /\ [Next]_vars => PagingInv'
    BY StepPaging
  <1>3. PagingInv => TypeOK
    BY DEF PagingInv
  <1> QED BY <1>1, <1>2, <1>3, FsqFetchAssumption, PTL DEF SafetySpec

\* However many pages a download has, whatever is posted to Foursquare while it
\* runs, and however often earlier runs were interrupted: when fetchCheckins
\* returns, every check-in that was listed when it started has a row, unless
\* one was deleted under it.
THEOREM PagingCovers == SafetySpec => []RunCovers
  <1>1. FsqFetchAssumption /\ Init => PagingInv
    BY InitPaging
  <1>2. FsqFetchAssumption /\ PagingInv /\ [Next]_vars => PagingInv'
    BY StepPaging
  <1>3. PagingInv => RunCovers
    BY DEF PagingInv
  <1> QED BY <1>1, <1>2, <1>3, FsqFetchAssumption, PTL DEF SafetySpec

(***************************************************************************)
(* The buffer.                                                             *)
(***************************************************************************)

\* Nothing is posted in the future, and a download is over within MaxRun.
Timely ==
    /\ \A c \in Checkin : posted[c] <= clock
    /\ startedAt <= clock
    /\ Downloading => clock <= startedAt + MaxRun

\* A run leaves the newest stored time at most MaxRun after its start...
NewestIsRecent ==
    pc # "idle" => \A d \in stored : posted[d] <= startedAt + MaxRun

\* ... and what it was not offered is at most MaxLag older than its start.
UnseenIsLate ==
    pc # "idle" => \A c \in Live \ owed : posted[c] >= startedAt - MaxLag

\* A run that follows no interrupted one asks for everything without a row.
Asked ==
    pc # "idle" /\ ~gap => \A c \in (owed \intersect Live) \ stored : posted[c] > since

BufferInv == /\ Timely /\ NewestIsRecent /\ UnseenIsLate
             /\ Asked /\ NothingMissed /\ BufferSuffices

-----------------------------------------------------------------------------
LEMMA InitBuffer == FsqFetchAssumption /\ Init => BufferInv
  <1> SUFFICES ASSUME FsqFetchAssumption, Init PROVE BufferInv
    OBVIOUS
  <1>1. Timely
    BY DEF Init, Timely, Downloading
  <1>2. NewestIsRecent /\ UnseenIsLate /\ Asked /\ NothingMissed
    BY DEF Init, NewestIsRecent, UnseenIsLate, Asked, NothingMissed
  <1>3. BufferSuffices
    BY DEF Init, BufferSuffices
  <1> QED BY <1>1, <1>2, <1>3 DEF BufferInv

\* The end of a run, complete or not: the next one asks for what is missing.
LEMMA RunLeavesNoGap ==
    ASSUME FsqFetchAssumption, PagingInv, BufferInv, pc # "idle", ~gap,
           ~((Downloading \/ shrunk) /\ WatermarkMoved)
    PROVE  \A c \in Live \ stored, d \in stored : posted[c] > posted[d] - Window
  <1> SUFFICES ASSUME NEW c \in Live \ stored, NEW d \in stored
               PROVE  posted[c] > posted[d] - Window
    OBVIOUS
  <1>1. /\ c \in Checkin /\ d \in Checkin
        /\ posted[c] \in Nat /\ posted[d] \in Nat
        /\ startedAt \in Nat /\ since \in Int
    BY DEF PagingInv, TypeOK, Live
  <1>2. MaxLag \in Nat /\ MaxRun \in Nat /\ Window \in Nat /\ MaxLag + MaxRun < Window
    BY DEF FsqFetchAssumption
  <1>3. posted[d] <= startedAt + MaxRun
    BY DEF BufferInv, NewestIsRecent
  <1>4. CASE c \notin owed
    <2>1. posted[c] >= startedAt - MaxLag
      BY <1>4 DEF BufferInv, UnseenIsLate
    <2> QED BY <1>1, <1>2, <1>3, <2>1
  <1>5. CASE c \in owed
    <2>1. posted[c] > since
      BY <1>5 DEF BufferInv, Asked
    <2>2. pc = "denormalise" \/ Downloading
      BY DEF PagingInv, TypeOK, Downloading
    <2>3. Downloading \/ shrunk
      BY <1>5, <2>2 DEF BufferInv, NothingMissed
    <2>4. ~(posted[d] - Window > since)
      BY <2>3 DEF WatermarkMoved
    <2> QED BY <1>1, <1>2, <2>1, <2>4
  <1> QED BY <1>4, <1>5

LEMMA StepBuffer ==
    ASSUME FsqFetchAssumption, PagingInv, PagingInv', BufferInv, [Next]_vars
    PROVE  BufferInv'
  <1>0. /\ TypeOK /\ TypeOK'
        /\ MaxLag \in Nat /\ MaxRun \in Nat /\ Window \in Nat
        /\ MaxLag + MaxRun < Window
    BY DEF PagingInv, FsqFetchAssumption
  <1>1. CASE Tick
    <2>1. /\ UNCHANGED <<posted, deleted, stored, pc, since, owed, startedAt, shrunk, gap>>
          /\ clock' = clock + 1
          /\ Downloading => clock < startedAt + MaxRun
      BY <1>1 DEF Tick, remoteVars, runVars, histVars
    <2>2. \A c \in Checkin : posted[c] \in Nat
      BY <1>0 DEF TypeOK
    <2>3. Timely'
      BY <1>0, <2>1, <2>2 DEF BufferInv, Timely, Downloading, TypeOK
    <2>4. NewestIsRecent' /\ UnseenIsLate' /\ Asked'
      BY <2>1 DEF BufferInv, NewestIsRecent, UnseenIsLate, Asked, Live
    <2>5. NothingMissed' /\ BufferSuffices'
      BY <2>1 DEF BufferInv, NothingMissed, BufferSuffices, Live
    <2> QED BY <2>3, <2>4, <2>5 DEF BufferInv
  <1>2. ASSUME NEW c \in Checkin, Post(c) PROVE BufferInv'
    <2>1. PICK t \in (clock - MaxLag)..clock :
             t > 0 /\ posted' = [posted EXCEPT ![c] = t]
      BY <1>2 DEF Post
    <2>2. /\ UNCHANGED <<clock, deleted, stored, pc, since, owed, startedAt, shrunk, gap>>
          /\ posted[c] = 0
      BY <1>2 DEF Post, runVars, histVars
    <2>3. t \in Nat /\ clock \in Nat /\ startedAt \in Nat /\ t <= clock /\ t >= clock - MaxLag
      BY <1>0, <2>1 DEF TypeOK
    <2>4. posted'[c] = t /\ (\A d \in Checkin \ {c} : posted'[d] = posted[d])
      BY <1>0, <2>1 DEF TypeOK
    <2>5. c \notin owed \union stored \union batch
      BY <2>2 DEF PagingInv, Known
    <2>6. \A d \in owed \union stored : d \in Checkin /\ d # c /\ posted'[d] = posted[d]
      BY <1>0, <2>4, <2>5 DEF TypeOK
    <2>7. \A d \in Live' : d = c \/ (d \in Live /\ posted'[d] = posted[d])
      BY <2>2, <2>4 DEF Live
    <2>8. Timely'
      BY <2>2, <2>3, <2>4 DEF BufferInv, Timely, Downloading
    <2>9. NewestIsRecent'
      BY <2>2, <2>6 DEF BufferInv, NewestIsRecent
    <2>10. UnseenIsLate'
      <3> SUFFICES ASSUME pc # "idle", NEW d \in Live' \ owed
                   PROVE  posted'[d] >= startedAt - MaxLag
        BY <2>2 DEF UnseenIsLate
      <3>1. CASE d = c
        BY <1>0, <2>3, <2>4, <3>1 DEF BufferInv, Timely
      <3>2. CASE d # c
        BY <2>7, <3>2 DEF BufferInv, UnseenIsLate
      <3> QED BY <3>1, <3>2
    <2>11. Asked' /\ NothingMissed'
      BY <2>2, <2>5, <2>6, <2>7 DEF BufferInv, Asked, NothingMissed
    <2>12. BufferSuffices'
      <3> SUFFICES ASSUME pc = "idle", ~gap, NEW e \in Live' \ stored, NEW d \in stored
                   PROVE  posted'[e] > posted'[d] - Window
        BY <2>2 DEF BufferSuffices
      <3>1. d \in Checkin /\ posted'[d] = posted[d]
        BY <2>6
      <3>2. CASE e = c
        <4>1. posted[d] \in Nat /\ posted[d] <= clock
          BY <1>0, <3>1 DEF TypeOK, BufferInv, Timely
        <4> QED BY <1>0, <2>3, <2>4, <3>1, <3>2, <4>1
      <3>3. CASE e # c
        BY <2>7, <3>1, <3>3 DEF BufferInv, BufferSuffices
      <3> QED BY <3>2, <3>3
    <2> QED BY <2>8, <2>9, <2>10, <2>11, <2>12 DEF BufferInv
  <1>3. ASSUME NEW c \in Deletable, Delete(c) PROVE BufferInv'
    <2>1. /\ UNCHANGED <<clock, posted, stored, pc, since, owed, startedAt, gap>>
          /\ deleted' = deleted \union {c}
          /\ shrunk' = (shrunk \/ Downloading)
      BY <1>3 DEF Delete, runVars
    <2>2. Live' \subseteq Live
      BY <2>1 DEF Live
    <2>3. Timely' /\ NewestIsRecent'
      BY <2>1 DEF BufferInv, Timely, NewestIsRecent, Downloading
    <2>4. UnseenIsLate' /\ Asked'
      BY <2>1, <2>2 DEF BufferInv, UnseenIsLate, Asked
    <2>5. NothingMissed'
      BY <2>1 DEF BufferInv, NothingMissed
    <2>6. BufferSuffices'
      BY <2>1, <2>2 DEF BufferInv, BufferSuffices
    <2> QED BY <2>3, <2>4, <2>5, <2>6 DEF BufferInv
  <1>4. CASE StartRun
    <2>1. /\ UNCHANGED <<clock, posted, deleted, stored, gap>>
          /\ pc = "idle" /\ pc' = "fetch" /\ owed' = Live /\ startedAt' = clock
      BY <1>4 DEF StartRun, remoteVars
    <2>2. PICK t : Last4sqCheckinTime(t) /\ since' = Since(t)
      BY <1>4 DEF StartRun
    <2>3. clock \in Nat /\ stored \subseteq Checkin
      BY <1>0 DEF TypeOK
    <2>4. Timely' /\ NewestIsRecent'
      <3>1. \A c \in Checkin : posted[c] \in Nat /\ posted[c] <= clock
        BY <1>0 DEF TypeOK, BufferInv, Timely
      <3>2. clock <= clock + MaxRun /\ \A c \in Checkin : posted[c] <= clock + MaxRun
        BY <1>0, <2>3, <3>1
      <3>3. Timely'
        BY <2>1, <2>3, <3>1, <3>2 DEF Timely
      <3> QED BY <2>1, <2>3, <3>2, <3>3 DEF NewestIsRecent
    <2>5. UnseenIsLate' /\ NothingMissed' /\ BufferSuffices'
      BY <2>1 DEF UnseenIsLate, NothingMissed, BufferSuffices, Live
    <2>6. Asked'
      <3> SUFFICES ASSUME ~gap, NEW c \in Live \ stored PROVE posted[c] > since'
        BY <2>1 DEF Asked, Live
      <3>1. posted[c] > 0
        BY DEF Live
      <3>2. CASE stored = {}
        <4>1. t = 0
          BY <2>2, <3>2 DEF Last4sqCheckinTime
        <4> QED BY <2>2, <3>1, <4>1 DEF Since
      <3>3. CASE stored # {}
        <4>1. PICK d \in stored : t = posted[d]
          BY <2>2, <3>3 DEF Last4sqCheckinTime
        <4>2. posted[d] > 0 /\ posted[d] \in Nat
          BY <1>0, <2>3 DEF PagingInv, Known, TypeOK
        <4>3. since' = posted[d] - Window
          BY <2>2, <4>1, <4>2 DEF Since
        <4> QED BY <2>1, <4>3 DEF BufferInv, BufferSuffices
      <3> QED BY <3>2, <3>3
    <2> QED BY <2>4, <2>5, <2>6 DEF BufferInv
  <1>5. CASE FetchPage
    <2>1. /\ UNCHANGED <<clock, posted, deleted, stored, since, owed, startedAt, gap, shrunk>>
          /\ pc = "fetch" /\ pc' = "upsert"
      BY <1>5 DEF FetchPage, remoteVars, histVars
    <2> QED BY <2>1 DEF BufferInv, Timely, NewestIsRecent, UnseenIsLate, Asked,
                        NothingMissed, BufferSuffices, Downloading, Live
  <1>6. CASE FetchEnd
    <2>1. /\ UNCHANGED <<clock, posted, deleted, stored, since, owed, startedAt, gap, shrunk>>
          /\ pc = "fetch" /\ pc' = "denormalise"
      BY <1>6 DEF FetchEnd, remoteVars, histVars
    <2>2. Timely' /\ NewestIsRecent' /\ UnseenIsLate' /\ Asked' /\ BufferSuffices'
      BY <2>1 DEF BufferInv, Timely, NewestIsRecent, UnseenIsLate, Asked,
                  BufferSuffices, Downloading, Live
    <2>3. NothingMissed'
      <3> SUFFICES ASSUME ~gap, ~shrunk, NEW c \in owed PROVE c \in stored
        BY <2>1 DEF NothingMissed
      <3>1. c \in Live
        BY <2>1 DEF PagingInv, OwedListed, Downloading
      <3>2. c \in stored \/ posted[c] > since
        BY <2>1, <3>1 DEF BufferInv, Asked
      <3> QED BY <2>1, <3>2 DEF PagingInv, RunCovers
    <2> QED BY <2>2, <2>3 DEF BufferInv
  <1>7. CASE Upsert
    <2>1. PICK c \in batch : /\ stored' = stored \union {c}
                             /\ pc' = IF batch = {c} THEN "fetch" ELSE "upsert"
      BY <1>7 DEF Upsert
    <2>2. /\ UNCHANGED <<clock, posted, deleted, since, owed, startedAt, gap, shrunk>>
          /\ pc = "upsert"
      BY <1>7 DEF Upsert, remoteVars, histVars
    <2>3. Timely'
      BY <2>1, <2>2 DEF BufferInv, Timely, Downloading
    <2>4. NewestIsRecent'
      <3>1. c \in Checkin /\ posted[c] \in Nat /\ clock \in Nat /\ startedAt \in Nat
        BY <1>0 DEF TypeOK
      <3>2. posted[c] <= clock /\ clock <= startedAt + MaxRun
        BY <2>2, <3>1 DEF BufferInv, Timely, Downloading
      <3>3. posted[c] <= startedAt + MaxRun
        BY <1>0, <3>1, <3>2
      <3> QED BY <2>1, <2>2, <3>3 DEF BufferInv, NewestIsRecent
    <2>5. UnseenIsLate' /\ Asked' /\ NothingMissed' /\ BufferSuffices'
      BY <2>1, <2>2 DEF BufferInv, UnseenIsLate, Asked, NothingMissed,
                        BufferSuffices, Live
    <2> QED BY <2>3, <2>4, <2>5 DEF BufferInv
  <1>8. CASE FinishRun
    <2>1. /\ UNCHANGED <<clock, posted, deleted, stored, startedAt>>
          /\ pc = "denormalise" /\ pc' = "idle"
          /\ gap' = (gap \/ (shrunk /\ WatermarkMoved))
      BY <1>8 DEF FinishRun, remoteVars
    <2>2. Timely' /\ NewestIsRecent' /\ UnseenIsLate' /\ Asked' /\ NothingMissed'
      BY <2>1 DEF BufferInv, Timely, NewestIsRecent, UnseenIsLate, Asked,
                  NothingMissed, Downloading
    <2>3. BufferSuffices'
      BY <2>1, RunLeavesNoGap DEF BufferSuffices, Live, Downloading
    <2> QED BY <2>2, <2>3 DEF BufferInv
  <1>9. CASE StopRun
    <2>1. /\ UNCHANGED <<clock, posted, deleted, stored, startedAt>>
          /\ pc # "idle" /\ pc' = "idle"
          /\ gap' = (gap \/ ((Downloading \/ shrunk) /\ WatermarkMoved))
      BY <1>9 DEF StopRun, remoteVars
    <2>2. Timely' /\ NewestIsRecent' /\ UnseenIsLate' /\ Asked' /\ NothingMissed'
      BY <2>1 DEF BufferInv, Timely, NewestIsRecent, UnseenIsLate, Asked,
                  NothingMissed, Downloading
    <2>3. BufferSuffices'
      BY <2>1, RunLeavesNoGap DEF BufferSuffices, Live
    <2> QED BY <2>2, <2>3 DEF BufferInv
  <1>10. CASE UNCHANGED vars
    <2>1. UNCHANGED <<clock, posted, deleted, stored, pc, since, owed, startedAt, gap, shrunk>>
      BY <1>10 DEF vars, remoteVars, runVars, histVars
    <2> QED BY <2>1 DEF BufferInv, Timely, NewestIsRecent, UnseenIsLate, Asked,
                        NothingMissed, BufferSuffices, Downloading, Live
  <1> QED BY <1>1, <1>2, <1>3, <1>4, <1>5, <1>6, <1>7, <1>8, <1>9, <1>10 DEF Next

-----------------------------------------------------------------------------
LEMMA SyncInvariant == SafetySpec => [](PagingInv /\ BufferInv)
  <1>1. FsqFetchAssumption /\ Init => PagingInv /\ BufferInv
    BY InitPaging, InitBuffer
  <1>2. FsqFetchAssumption /\ (PagingInv /\ BufferInv) /\ [Next]_vars
          => (PagingInv /\ BufferInv)'
    BY StepPaging, StepBuffer
  <1> QED BY <1>1, <1>2, FsqFetchAssumption, PTL DEF SafetySpec

\* For any buffer longer than the lateness of a check-in plus the length of a
\* download, the newest stored time less the buffer is a safe place for the
\* next run to start, as long as no run moved that time and missed its last
\* page.
THEOREM BufferIsEnough == SafetySpec => []BufferSuffices
  <1>1. BufferInv => BufferSuffices
    BY DEF BufferInv
  <1> QED BY <1>1, SyncInvariant, PTL

\* Under the same proviso a download that returns has left nothing behind of
\* what Foursquare had when it started, old or new.
THEOREM CompleteDownload == SafetySpec => []NothingMissed
  <1>1. BufferInv => NothingMissed
    BY DEF BufferInv
  <1> QED BY <1>1, SyncInvariant, PTL

(***************************************************************************)
(* The download implements the mirror.  Only two steps need an argument:   *)
(* a new check-in was not there before, and a run that returns nil has     *)
(* everything it owes.                                                     *)
(***************************************************************************)

\* The history grows by a check-in that is posted; one that was deleted already
\* would not be seen.
LEMMA LivePosted ==
    ASSUME TypeOK, NEW c \in Checkin, Post(c)
    PROVE  \/ Live' = Live
           \/ c \notin Live /\ Live' = Live \union {c}
  <1>1. posted[c] = 0 /\ deleted' = deleted
    BY DEF Post
  <1>2. PICK t \in (clock - MaxLag)..clock :
            t > 0 /\ posted' = [posted EXCEPT ![c] = t]
    BY DEF Post
  <1>3. posted'[c] > 0 /\ \A d \in Checkin \ {c} : posted'[d] = posted[d]
    BY <1>2 DEF TypeOK
  <1>4. CASE c \in deleted
    BY <1>1, <1>3, <1>4 DEF Live
  <1>5. CASE c \notin deleted
    BY <1>1, <1>3, <1>5 DEF Live
  <1> QED BY <1>4, <1>5

LEMMA StepMirror ==
    ASSUME TypeOK, NothingMissed', [Next]_vars
    PROVE  [Sync!Next]_(Sync!vars)
  <1> USE DEF Sync!vars
  <1>0. /\ TypeOK
        /\ pc \in {"idle", "fetch", "upsert", "denormalise"}
        /\ pc = "idle" => Phase = "idle"
        /\ pc = "denormalise" => Phase = "complete"
        /\ pc \in {"fetch", "upsert"} => Phase = "copying"
        /\ Phase = "idle" => pc = "idle"
        /\ pc' = "idle" => Phase' = "idle"
        /\ pc' = "denormalise" => Phase' = "complete"
        /\ pc' \in {"fetch", "upsert"} => Phase' = "copying"
        /\ UNCHANGED pc => UNCHANGED Phase
    BY DEF TypeOK, Phase, Downloading
  <1>1. CASE Tick
    BY <1>0, <1>1 DEF Tick, Live, remoteVars, runVars, histVars
  <1>2. ASSUME NEW c \in Checkin, Post(c)
        PROVE  [Sync!Next]_(Sync!vars)
    <2>1. UNCHANGED <<stored, batch, pc, owed, shrunk, gap>>
      BY <1>2 DEF Post, runVars, histVars
    <2>2. CASE Live' = Live
      BY <1>0, <2>1, <2>2
    <2>3. CASE c \notin Live /\ Live' = Live \union {c}
      <3>1. Sync!Grow(c)
        BY <1>0, <2>1, <2>3 DEF Sync!Grow
      <3> QED BY <3>1 DEF Sync!Next
    <2> QED BY <1>0, <1>2, <2>2, <2>3, LivePosted
  <1>3. ASSUME NEW c \in Deletable, Delete(c)
        PROVE  [Sync!Next]_(Sync!vars)
    <2>1. /\ c \in Live /\ Live' = Live \ {c}
          /\ shrunk' = (shrunk \/ Downloading)
          /\ UNCHANGED <<stored, batch, pc, owed, gap>>
      BY <1>3 DEF Delete, Live, runVars
    <2>2. c \in Checkin
      BY <2>1 DEF Live
    <2>3. shrunk' \in {shrunk, shrunk \/ Phase # "idle"}
      BY <1>0, <2>1 DEF Downloading, TypeOK
    <2>4. Sync!Shrink(c)
      BY <1>0, <2>1, <2>3 DEF Sync!Shrink
    <2> QED BY <2>2, <2>4 DEF Sync!Next
  <1>4. CASE StartRun
    <2>1. /\ pc = "idle" /\ pc' = "fetch" /\ owed' = Live /\ shrunk' = FALSE
          /\ UNCHANGED <<posted, deleted, stored, batch, gap>>
      BY <1>4 DEF StartRun, remoteVars
    <2>2. Sync!Begin
      BY <1>0, <2>1 DEF Sync!Begin, Live
    <2> QED BY <2>2 DEF Sync!Next
  <1>5. CASE FetchPage
    <2>1. /\ pc = "fetch" /\ pc' = "upsert" /\ batch' = Page
          /\ UNCHANGED <<posted, deleted, stored, owed, shrunk, gap>>
      BY <1>5 DEF FetchPage, remoteVars, histVars
    <2>2. batch = {} /\ Page \subseteq Live
      BY <1>0, <2>1 DEF TypeOK, Page, Listing
    <2>3. Sync!Read
      BY <1>0, <2>1, <2>2 DEF Sync!Read, Live
    <2> QED BY <2>3 DEF Sync!Next
  <1>6. CASE FetchEnd
    <2>1. /\ pc = "fetch" /\ pc' = "denormalise"
          /\ UNCHANGED <<posted, deleted, stored, batch, owed, shrunk, gap>>
      BY <1>6 DEF FetchEnd, remoteVars, histVars
    <2>2. batch = {} /\ (~shrunk /\ ~gap => owed \subseteq stored)
      BY <1>0, <2>1 DEF TypeOK, NothingMissed
    <2>3. Sync!Complete
      BY <1>0, <2>1, <2>2 DEF Sync!Complete, Live
    <2> QED BY <2>3 DEF Sync!Next
  <1>7. CASE Upsert
    <2>1. PICK c \in batch : /\ stored' = stored \union {c}
                             /\ batch' = batch \ {c}
                             /\ pc' = IF batch = {c} THEN "fetch" ELSE "upsert"
      BY <1>7 DEF Upsert
    <2>2. /\ UNCHANGED <<posted, deleted, owed, shrunk, gap>>
          /\ pc = "upsert"
      BY <1>7 DEF Upsert, remoteVars, histVars
    <2>3. c \in Checkin
      BY <1>0 DEF TypeOK
    <2>4. UNCHANGED Phase
      BY <1>0, <2>1, <2>2
    <2>5. Sync!Store(c)
      BY <2>1, <2>2, <2>4 DEF Sync!Store, Live
    <2> QED BY <2>3, <2>5 DEF Sync!Next
  <1>8. CASE FinishRun
    <2>1. /\ pc = "denormalise" /\ pc' = "idle"
          /\ UNCHANGED <<posted, deleted, stored, batch, owed, shrunk>>
          /\ gap' = (gap \/ (shrunk /\ WatermarkMoved))
      BY <1>8 DEF FinishRun, remoteVars
    <2>2. gap' \in {gap, gap \/ shrunk}
      BY <1>0, <2>1 DEF TypeOK
    <2>3. Sync!End
      BY <1>0, <2>1, <2>2 DEF Sync!End, Live
    <2> QED BY <2>3 DEF Sync!Next
  <1>9. CASE StopRun
    <2>1. /\ pc # "idle" /\ pc' = "idle" /\ batch' = {}
          /\ UNCHANGED <<posted, deleted, stored, owed, shrunk>>
          /\ gap' = (gap \/ ((Downloading \/ shrunk) /\ WatermarkMoved))
      BY <1>9 DEF StopRun, remoteVars
    <2>2. gap' \in {gap, TRUE}
      BY <1>0, <2>1 DEF TypeOK
    <2>3. Sync!Fail
      BY <1>0, <2>1, <2>2 DEF Sync!Fail, Live
    <2> QED BY <2>3 DEF Sync!Next
  <1>10. CASE UNCHANGED vars
    BY <1>0, <1>10 DEF vars, Live, remoteVars, runVars, histVars
  <1> QED BY <1>1, <1>2, <1>3, <1>4, <1>5, <1>6, <1>7, <1>8, <1>9, <1>10 DEF Next

\* Every behaviour of the download is one of the abstract mirror, so whatever
\* is proved of that holds of the code's paging, buffer and restarts.
THEOREM DownloadImplementsMirror == SafetySpec => ImplementsMirror
  <1>1. Init => Sync!Init
    <2> SUFFICES ASSUME Init PROVE Sync!Init
      OBVIOUS
    <2>1. Phase = "idle"
      BY DEF Init, Phase, Downloading
    <2>2. Live = {}
      BY DEF Init, Live
    <2> QED BY <2>1, <2>2 DEF Init, Sync!Init
  <1>2. TypeOK /\ NothingMissed' /\ [Next]_vars => [Sync!Next]_(Sync!vars)
    BY StepMirror
  <1> QED BY <1>1, <1>2, TypeCorrect, CompleteDownload, PTL
          DEF SafetySpec, ImplementsMirror, Sync!Spec

=============================================================================
