--------------------------- MODULE FsqStoreProofs ---------------------------
(***************************************************************************)
(* What MCFsqStore checks of storing as invariants, proved for any number  *)
(* of servers and invocations, check-ins, people, venues and faults.       *)
(*                                                                         *)
(* A run knows what it has not done yet by the rows its query has still to *)
(* return.  RunInv says that of one run: what it was to do is done, or the *)
(* row is in snap.  Other runs cannot undo it, because the database only   *)
(* grows (DbGrows): no row, link or name is taken away, and no venue_id is *)
(* set back to null.  That it is also up to date (MatchesRaw) is only so   *)
(* while nobody else writes.                                               *)
(***************************************************************************)
EXTENDS FsqStore, FiniteSetTheorems, SequenceTheorems, NaturalsInduction, TLAPS

Names == 1..(MaxEdits + 1)
ItemOf(c) == [venue : Venue, names : [With[c] -> Names]]
AnyItem == UNION {ItemOf(c) : c \in Checkin}
Row == [id : Checkin, raw : AnyItem]
Ref == [venue : Venue, id : Proc \union {NoId}]

\* A name has been changed once for every edit, at most.
RemoteType ==
    /\ at \in Seq(Venue)
    /\ Len(at) <= N
    /\ name \in [Person -> Names]
    /\ edits \in 0..MaxEdits
    /\ \A x \in Person : name[x] <= edits + 1

DbType ==
    /\ order \in Seq(Checkin)
    /\ Len(order) = Cardinality(Stored)
    /\ DOMAIN raw = Stored
    /\ \A c \in Stored : raw[c] \in ItemOf(c)
    /\ venueRef \in [Stored -> Ref]
    /\ venueId \in [Venue -> Proc \union {NoId}]
    /\ people \in [Person -> 0..(MaxEdits + 1)]
    /\ links \subseteq Checkin \X Person

ProcType ==
    /\ pc \in [Proc -> {"idle", "upsert", "link", "venues", "select", "venue", "checkin"}]
    /\ DOMAIN batch = Proc
    /\ DOMAIN snap = Proc
    /\ vid \in [Proc -> Proc \union {NoId}]
    /\ stale \in [Proc -> BOOLEAN]
    /\ todo \in [Proc -> SUBSET Checkin]
    /\ alone \in [Proc -> BOOLEAN]
    /\ ran \subseteq Cli
    /\ faults \in 0..MaxFaults

\* Row c is still to be returned by p's query.
ToCome(p, c) == \E i \in DOMAIN snap[p] : snap[p][i].id = c

\* The rows a run has in hand are as they were stored.
RunType(p) ==
    /\ DOMAIN batch[p] \subseteq Checkin
    /\ \A c \in DOMAIN batch[p] : batch[p][c] \in ItemOf(c)
    /\ snap[p] \in Seq(Row)
    /\ \A i \in DOMAIN snap[p] : /\ snap[p][i].id \in Stored
                                 /\ snap[p][i].raw \in ItemOf(snap[p][i].id)
    /\ todo[p] \subseteq Stored
    /\ pc[p] \in {"venue", "checkin"} => snap[p] # <<>> /\ vid[p] # NoId

\* The rows of the run's Sync4sqUsers are linked once it is through.
Linked(p) ==
    /\ pc[p] = "link" => \A c \in todo[p] : ToCome(p, c)
    /\ pc[p] \in {"venues", "select", "venue", "checkin"} =>
           \A c \in todo[p] : \A x \in With[c] : <<c, x>> \in links /\ people[x] # 0

\* They have a venue, or their turn in Sync4sqVenues is still to come.
HaveVenue(p) ==
    pc[p] \in {"select", "venue", "checkin"} =>
        \A c \in todo[p] : venueRef[c].id # NoId \/ ToCome(p, c)

\* When nobody else writes, every row has the venue of its raw item by then.
MatchesRaw(p) ==
    alone[p] /\ pc[p] \in {"select", "venue", "checkin"} =>
        /\ \A i \in DOMAIN snap[p] : snap[p][i].raw = raw[snap[p][i].id]
        /\ \A c \in Stored : \/ venueRef[c].venue = raw[c].venue /\ venueRef[c].id # NoId
                             \/ ToCome(p, c)

RunInv(p) == RunType(p) /\ Linked(p) /\ HaveVenue(p) /\ MatchesRaw(p)

Inv ==
    /\ RemoteType
    /\ DbType
    /\ ProcType
    /\ ReferencesResolve
    /\ \A p \in Proc : RunInv(p)
-----------------------------------------------------------------------------
(***************************************************************************)
(* Items, rows and names.                                                  *)
(***************************************************************************)

\* A nonempty set of numbers up to n has a greatest one, and Max is it.
LEMMA MaxType ==
    ASSUME NEW n \in Nat, NEW S \in SUBSET (1..n), S # {}
    PROVE  Max(S) \in S
  <1> DEFINE R == OpToRel(<, Nat)
             L == {n - i : i \in S}
  <1>1. IsWellFoundedOn(R, Nat)
    BY NatLessThanWellFounded
  <1>2. \A x, y \in Nat : <<x, y>> \in R <=> x < y
    BY DEF OpToRel
  <1>3. L \in SUBSET Nat /\ L # {} /\ \A i \in S : n - i \in L
    <2>1. \A i \in S : n - i \in Nat
      OBVIOUS
    <2>2. L \in SUBSET Nat
      BY <2>1
    <2> QED BY <2>2
  <1> HIDE DEF R
  <1>4. PICK x \in L : \A y \in L : ~ (<<y, x>> \in R)
    <2> HIDE DEF L
    <2> QED BY <1>1, <1>3, WFMin
  <1>5. PICK m \in S : x = n - m
    BY <1>4
  <1> HIDE DEF L
  <1>6. \A i \in S : m >= i
    <2> TAKE i \in S
    <2>1. n - i \in L /\ n - i \in Nat /\ x \in Nat
      BY <1>3, <1>4
    <2>2. ~ (n - i < x)
      BY <1>2, <1>4, <2>1
    <2> QED BY <1>5, <2>2
  <1>7. Max(S) = CHOOSE z \in S : \A y \in S : z >= y
    BY DEF Max
  <1> QED BY <1>6, <1>7

LEMMA Constants ==
    /\ N \in Nat \ {0} /\ MaxEdits \in Nat
    /\ IsFiniteSet(Checkin)
    /\ \A c \in Checkin : With[c] \subseteq Person
    /\ NoId \notin Proc
    /\ Cli \subseteq Proc
    /\ NoRef \in Ref /\ NoRef.id = NoId
    /\ \A n \in Names : n \in 0..(MaxEdits + 1) /\ n # 0
  <1>1. N \in Nat \ {0} /\ MaxEdits \in Nat
    BY FsqStoreAssumption DEF FsqStoreAssumption
  <1>2. IsFiniteSet(Checkin)
    BY <1>1, FS_Interval DEF Checkin
  <1>3. \A c \in Checkin : With[c] \subseteq Person
    BY FsqStoreAssumption DEF FsqStoreAssumption
  <1>4. NoId \notin Proc /\ Cli \subseteq Proc
    BY FsqStoreAssumption DEF FsqStoreAssumption, Proc
  <1>5. (CHOOSE v \in Venue : TRUE) \in Venue
    BY FsqStoreAssumption DEF FsqStoreAssumption
  <1>6. NoRef \in Ref /\ NoRef.id = NoId
    BY <1>5 DEF NoRef, Ref
  <1>7. \A n \in Names : n \in 0..(MaxEdits + 1) /\ n # 0
    BY <1>1 DEF Names
  <1> QED BY <1>1, <1>2, <1>3, <1>4, <1>6, <1>7

\* An item has its check-in's people, with the names they have now.
LEMMA ItemType ==
    ASSUME RemoteType, NEW c \in 1..Len(at)
    PROVE  c \in Checkin /\ Item(c) \in ItemOf(c)
  <1>1. c \in Checkin /\ at[c] \in Venue
    BY Constants DEF RemoteType, Checkin
  <1>2. [x \in With[c] |-> name[x]] \in [With[c] -> Names]
    BY <1>1, Constants DEF RemoteType
  <1> QED BY <1>1, <1>2 DEF Item, ItemOf

\* What an item of check-in c is made of.
LEMMA ItemParts ==
    ASSUME NEW c, NEW r \in ItemOf(c)
    PROVE  /\ r.venue \in Venue
           /\ DOMAIN r.names = With[c]
           /\ \A x \in With[c] : r.names[x] \in Names
  BY DEF ItemOf

LEMMA StoredType ==
    ASSUME order \in Seq(Checkin)
    PROVE  /\ Len(order) \in Nat
           /\ DOMAIN order = 1..Len(order)
           /\ Stored \subseteq Checkin
           /\ IsFiniteSet(Stored)
           /\ \A i \in DOMAIN order : order[i] \in Stored
           /\ \A c \in Stored : \E i \in DOMAIN order : order[i] = c
  <1>1. Len(order) \in Nat /\ DOMAIN order = 1..Len(order) /\ Stored \subseteq Checkin
    BY DEF Stored
  <1>2. IsFiniteSet(Stored)
    BY <1>1, Constants, FS_Subset
  <1> QED BY <1>1, <1>2 DEF Stored

\* The query of a Sync step returns every row once, as it is.
LEMMA AllRowsType ==
    ASSUME DbType
    PROVE  /\ AllRows \in Seq(Row)
           /\ DOMAIN AllRows = DOMAIN order
           /\ \A i \in DOMAIN AllRows : /\ AllRows[i].id \in Stored
                                        /\ AllRows[i].raw = raw[AllRows[i].id]
                                        /\ AllRows[i].raw \in ItemOf(AllRows[i].id)
           /\ \A c \in Stored : \E i \in DOMAIN AllRows : AllRows[i].id = c
  <1>1. /\ Len(order) \in Nat /\ DOMAIN order = 1..Len(order) /\ Stored \subseteq Checkin
        /\ \A i \in DOMAIN order : order[i] \in Stored
        /\ \A c \in Stored : \E i \in DOMAIN order : order[i] = c
    BY StoredType DEF DbType
  <1>2. DOMAIN AllRows = 1..Len(order)
    BY <1>1 DEF AllRows
  <1>3. \A i \in 1..Len(order) : /\ AllRows[i] = [id |-> order[i], raw |-> raw[order[i]]]
                                /\ AllRows[i].id = order[i]
                                /\ AllRows[i].raw = raw[order[i]]
    BY <1>1 DEF AllRows
  <1>4. ASSUME NEW i \in 1..Len(order)
        PROVE  AllRows[i] \in Row
    <2>1. order[i] \in Checkin /\ raw[order[i]] \in ItemOf(order[i])
      BY <1>1 DEF DbType
    <2>2. raw[order[i]] \in AnyItem
      BY <2>1 DEF AnyItem
    <2>3. [id |-> order[i], raw |-> raw[order[i]]] \in Row
      BY <2>1, <2>2 DEF Row
    <2> QED BY <1>3, <2>3
  <1>5. AllRows \in [1..Len(order) -> Row]
    BY <1>1, <1>4 DEF AllRows
  <1>6. AllRows \in Seq(Row)
    BY <1>1, <1>5
  <1> QED BY <1>1, <1>2, <1>3, <1>6 DEF DbType

\* The rows left after the first are the others.
LEMMA RowsAfterFirst ==
    ASSUME NEW t \in Seq(Row), t # <<>>
    PROVE  /\ Head(t) = t[1] /\ 1 \in DOMAIN t
           /\ Tail(t) \in Seq(Row)
           /\ \A i \in DOMAIN Tail(t) : i + 1 \in DOMAIN t /\ Tail(t)[i] = t[i + 1]
           /\ \A i \in DOMAIN t : i = 1 \/ (i - 1 \in DOMAIN Tail(t) /\ Tail(t)[i - 1] = t[i])
  <1>1. Len(t) \in Nat \ {0} /\ DOMAIN t = 1..Len(t) /\ Head(t) = t[1]
    OBVIOUS
  <1>2. /\ Tail(t) \in Seq(Row) /\ Len(Tail(t)) = Len(t) - 1
        /\ \A i \in 1..(Len(t) - 1) : Tail(t)[i] = t[i + 1]
    BY HeadTailProperties
  <1>3. DOMAIN Tail(t) = 1..(Len(t) - 1)
    BY <1>2
  <1>4. \A i \in DOMAIN t : i = 1 \/ i - 1 \in 1..(Len(t) - 1)
    BY <1>1
  <1>5. \A i \in 1..(Len(t) - 1) : i + 1 \in DOMAIN t
    BY <1>1
  <1>6. \A i \in DOMAIN t : i = 1 \/ (i - 1 \in DOMAIN Tail(t) /\ Tail(t)[i - 1] = t[i])
    <2> TAKE i \in DOMAIN t
    <2>1. CASE i # 1
      <3>1. i \in Nat /\ i - 1 \in 1..(Len(t) - 1)
        BY <1>1, <1>4, <2>1
      <3>2. Tail(t)[i - 1] = t[(i - 1) + 1]
        BY <1>2, <3>1
      <3>3. (i - 1) + 1 = i
        BY <3>1
      <3> QED BY <1>3, <3>1, <3>2, <3>3
    <2> QED BY <2>1
  <1> QED BY <1>1, <1>2, <1>3, <1>5, <1>6

-----------------------------------------------------------------------------
(***************************************************************************)
(* What a step of one run leaves true of the others.                       *)
(***************************************************************************)

\* Nothing is taken out of the database.
DbGrows ==
    /\ Stored \subseteq Stored'
    /\ links \subseteq links'
    /\ \A x \in Person : people[x] # 0 => people'[x] # 0
    /\ \A c \in Stored : venueRef[c].id # NoId => venueRef'[c].id # NoId

\* p's own variables stay, and so do the rows unless p is no longer alone.
Untouched(p) ==
    /\ pc'[p] = pc[p]
    /\ batch'[p] = batch[p]
    /\ snap'[p] = snap[p]
    /\ vid'[p] = vid[p]
    /\ todo'[p] = todo[p]
    /\ alone'[p] /\ pc[p] # "idle" => alone[p] /\ UNCHANGED <<order, raw, venueRef>>

LEMMA UntouchedInv ==
    ASSUME NEW p \in Proc, ProcType, RunInv(p), DbGrows, Untouched(p)
    PROVE  RunInv(p)'
  <1>1. \A c : ToCome(p, c) => ToCome(p, c)'
    BY DEF ToCome, Untouched
  <1>2. RunType(p)'
    BY DEF RunInv, RunType, DbGrows, Untouched
  <1>3. \A c \in todo[p] : c \in Checkin /\ c \in Stored
    BY DEF RunInv, RunType, ProcType
  <1>4. Linked(p)'
    <2>1. \A c \in todo[p] : \A x \in With[c] : x \in Person
      BY <1>3, Constants
    <2>2. \A c \in todo[p] : \A x \in With[c] :
              <<c, x>> \in links /\ people[x] # 0 => <<c, x>> \in links' /\ people'[x] # 0
      BY <2>1 DEF DbGrows
    <2> QED BY <1>1, <2>2 DEF RunInv, Linked, Untouched
  <1>5. HaveVenue(p)'
    BY <1>1, <1>3 DEF RunInv, HaveVenue, DbGrows, Untouched
  <1>6. MatchesRaw(p)'
    <2> SUFFICES ASSUME alone'[p], pc'[p] \in {"select", "venue", "checkin"}
                 PROVE  /\ \A i \in DOMAIN snap'[p] : snap'[p][i].raw = raw'[snap'[p][i].id]
                        /\ \A c \in Stored' : \/ /\ venueRef'[c].venue = raw'[c].venue
                                                 /\ venueRef'[c].id # NoId
                                              \/ ToCome(p, c)'
      BY DEF MatchesRaw
    <2>1. alone[p] /\ UNCHANGED <<order, raw, venueRef>>
      BY DEF Untouched
    <2>2. Stored' = Stored
      BY <2>1 DEF Stored
    <2> QED BY <1>1, <2>1, <2>2 DEF RunInv, MatchesRaw, Untouched
  <1> QED BY <1>2, <1>4, <1>5, <1>6 DEF RunInv

\* Steps that leave the database as it is.
LEMMA DbStays ==
    ASSUME DbType, ReferencesResolve, UNCHANGED dbVars
    PROVE  DbType' /\ ReferencesResolve' /\ DbGrows
  <1>1. UNCHANGED <<order, raw, venueRef, venueId, people, links>>
    BY DEF dbVars, checkinVars, derivedVars
  <1>2. Stored' = Stored
    BY <1>1 DEF Stored
  <1>3. DbType'
    BY <1>1, <1>2 DEF DbType
  <1>4. ReferencesResolve'
    BY <1>1, <1>2 DEF ReferencesResolve
  <1>5. DbGrows
    BY <1>1, <1>2 DEF DbGrows
  <1> QED BY <1>3, <1>4, <1>5

LEMMA RemoteStays ==
    ASSUME RemoteType, UNCHANGED remoteVars
    PROVE  RemoteType'
  BY DEF RemoteType, remoteVars

\* A statement of p makes every other run one that is not alone.
LEMMA WroteType ==
    ASSUME ProcType, NEW p \in Proc, Wrote(p)
    PROVE  /\ stale' \in [Proc -> BOOLEAN]
           /\ alone' \in [Proc -> BOOLEAN]
           /\ todo' = todo
           /\ \A q \in Proc \ {p} : alone'[q] => pc[q] = "idle"
           /\ alone'[p] => alone[p]
  <1>1. stale' \in [Proc -> BOOLEAN] /\ todo' = todo
    BY DEF Wrote, ProcType
  <1>2. /\ alone' \in [Proc -> BOOLEAN]
        /\ \A q \in Proc \ {p} : alone'[q] => pc[q] = "idle"
        /\ alone'[p] => alone[p]
    BY DEF Wrote, ProcType
  <1> QED BY <1>1, <1>2

\* What a step of the others is to one of them.
LEMMA OthersUntouched ==
    ASSUME ProcType, NEW p \in Proc, NEW q \in Proc \ {p},
           pc'[q] = pc[q], batch'[q] = batch[q], snap'[q] = snap[q], vid'[q] = vid[q],
           \/ Wrote(p)
           \/ UNCHANGED dbVars /\ alone'[q] = alone[q] /\ todo'[q] = todo[q]
    PROVE  Untouched(q)
  <1>1. CASE Wrote(p)
    BY <1>1, WroteType DEF Untouched
  <1>2. CASE UNCHANGED dbVars /\ alone'[q] = alone[q] /\ todo'[q] = todo[q]
    BY <1>2 DEF Untouched, dbVars, checkinVars, derivedVars
  <1> QED BY <1>1, <1>2

-----------------------------------------------------------------------------
LEMMA InitInv == Init => Inv
  <1> SUFFICES ASSUME Init PROVE Inv
    OBVIOUS
  <1>1. RemoteType
    <2>1. 1 \in Names /\ 0 \in 0..MaxEdits /\ 0 <= N
      BY Constants DEF Names
    <2>2. at \in Seq(Venue) /\ Len(at) = 0
      BY DEF Init
    <2>3. name \in [Person -> Names] /\ edits = 0 /\ \A x \in Person : name[x] = 1
      BY <2>1 DEF Init
    <2> QED BY <2>1, <2>2, <2>3 DEF RemoteType
  <1>2. DbType
    <2>1. Stored = {} /\ order \in Seq(Checkin) /\ Len(order) = 0
      BY DEF Init, Stored
    <2>2. Cardinality(Stored) = 0
      BY <2>1, FS_EmptySet
    <2>3. DOMAIN raw = {} /\ venueRef \in [Stored -> Ref]
      BY <2>1 DEF Init
    <2>4. /\ venueId \in [Venue -> Proc \union {NoId}]
          /\ people \in [Person -> 0..(MaxEdits + 1)]
          /\ links = {}
      BY Constants DEF Init
    <2> QED BY <2>1, <2>2, <2>3, <2>4 DEF DbType
  <1>3. ProcType
    BY Constants, FsqStoreAssumption DEF FsqStoreAssumption, Init, ProcType
  <1>4. ReferencesResolve
    BY DEF Init, ReferencesResolve, Stored
  <1>5. ASSUME NEW p \in Proc
        PROVE  RunInv(p)
    <2>1. /\ pc[p] = "idle" /\ batch[p] = <<>> /\ snap[p] = <<>> /\ todo[p] = {}
      BY DEF Init
    <2>2. RunType(p)
      BY <2>1 DEF RunType
    <2> QED BY <2>1, <2>2 DEF RunInv, Linked, HaveVenue, MatchesRaw
  <1> QED BY <1>1, <1>2, <1>3, <1>4, <1>5 DEF Inv

(***************************************************************************)
(* Foursquare changes, and no run does anything.                           *)
(***************************************************************************)
LEMMA RemoteInv ==
    ASSUME Inv,
           \/ \E v \in Venue : Post(v)
           \/ \E x \in Person : Rename(x)
           \/ \E c \in DOMAIN at, v \in Venue : Move(c, v)
           \/ UNCHANGED vars
    PROVE  Inv'
  <1>1. /\ UNCHANGED <<pc, batch, snap, vid, stale, alone, todo, ran, faults>>
        /\ UNCHANGED dbVars
    BY DEF Post, Rename, Move, vars, runVars, seenVars
  <1>2. RemoteType'
    <2>1. ASSUME NEW v \in Venue, Post(v)
          PROVE  RemoteType'
      <3>1. at' \in Seq(Venue) /\ Len(at') = Len(at) + 1 /\ Len(at) \in Nat
        BY <2>1, AppendProperties DEF Post, Inv, RemoteType
      <3>2. Len(at') <= N
        BY <2>1, <3>1, Constants DEF Post
      <3> QED BY <2>1, <3>1, <3>2 DEF Post, Inv, RemoteType
    <2>2. ASSUME NEW x \in Person, Rename(x)
          PROVE  RemoteType'
      <3>1. /\ edits' = edits + 1 /\ edits < MaxEdits /\ edits \in Nat
            /\ name' = [name EXCEPT ![x] = name[x] + 1] /\ at' = at
        BY <2>2, Constants DEF Rename, Inv, RemoteType
      <3>2. name[x] + 1 \in Names /\ name[x] + 1 <= edits' + 1
        BY <3>1, Constants DEF Inv, RemoteType, Names
      <3>3. name' \in [Person -> Names]
        BY <3>1, <3>2 DEF Inv, RemoteType
      <3>4. \A y \in Person : name'[y] <= edits' + 1
        <4> TAKE y \in Person
        <4>1. name[y] \in Int /\ name[y] <= edits + 1
          BY Constants DEF Inv, RemoteType, Names
        <4>2. CASE y = x
          BY <3>1, <3>2, <4>2 DEF Inv, RemoteType
        <4>3. CASE y # x
          BY <3>1, <4>1, <4>3 DEF Inv, RemoteType
        <4> QED BY <4>2, <4>3
      <3>5. edits' \in 0..MaxEdits
        BY <3>1, Constants
      <3> QED BY <3>1, <3>3, <3>4, <3>5 DEF Inv, RemoteType
    <2>3. ASSUME NEW c \in DOMAIN at, NEW v \in Venue, Move(c, v)
          PROVE  RemoteType'
      <3>1. /\ edits' = edits + 1 /\ edits < MaxEdits /\ edits \in Nat
            /\ at' = [at EXCEPT ![c] = v] /\ name' = name
        BY <2>3, Constants DEF Move, Inv, RemoteType
      <3>2. at' \in Seq(Venue) /\ Len(at') = Len(at)
        BY <3>1, ExceptSeq DEF Inv, RemoteType
      <3>3. \A y \in Person : name[y] <= edits' + 1
        <4> TAKE y \in Person
        <4>1. name[y] \in Int /\ name[y] <= edits + 1
          BY Constants DEF Inv, RemoteType, Names
        <4> QED BY <3>1, <4>1
      <3>4. edits' \in 0..MaxEdits
        BY <3>1, Constants
      <3> QED BY <3>1, <3>2, <3>3, <3>4 DEF Inv, RemoteType
    <2>4. CASE UNCHANGED vars
      BY <2>4, RemoteStays DEF vars, Inv
    <2> QED BY <2>1, <2>2, <2>3, <2>4
  <1>3. DbType' /\ ReferencesResolve' /\ DbGrows
    BY <1>1, DbStays DEF Inv
  <1>4. ProcType'
    BY <1>1 DEF Inv, ProcType
  <1>5. ASSUME NEW p \in Proc
        PROVE  RunInv(p)'
    <2>1. Untouched(p)
      BY <1>1 DEF Untouched, dbVars, checkinVars, derivedVars
    <2> QED BY <1>3, <2>1, UntouchedInv DEF Inv
  <1> QED BY <1>2, <1>3, <1>4, <1>5 DEF Inv

(***************************************************************************)
(* The steps of a run.  Each proof says what the step makes of the         *)
(* database and of its own run; the others are untouched.                  *)
(***************************************************************************)

\* An invariant of the whole from its parts.
LEMMA StepInv ==
    ASSUME Inv, NEW p \in Proc,
           UNCHANGED remoteVars, DbType', ProcType', ReferencesResolve', DbGrows, RunInv(p)',
           \A q \in Proc \ {p} : Untouched(q)
    PROVE  Inv'
  <1>1. RemoteType'
    BY RemoteStays DEF Inv
  <1>2. \A q \in Proc : RunInv(q)'
    BY UntouchedInv DEF Inv
  <1> QED BY <1>1, <1>2 DEF Inv

\* A run is over, whatever it was doing: it has nothing left.
LEMMA EndRunInv ==
    ASSUME Inv, NEW p \in Proc,
           UsersBusy(p) \/ VenueRefused(p) \/ FinishRun(p) \/ StopRun(p)
    PROVE  Inv'
  <1>1. EndRun(p) /\ UNCHANGED remoteVars /\ UNCHANGED dbVars /\ UNCHANGED ran
    BY DEF UsersBusy, VenueRefused, FinishRun, StopRun
  <1>2. faults' \in 0..MaxFaults
    BY FsqStoreAssumption
       DEF FsqStoreAssumption, UsersBusy, VenueRefused, FinishRun, StopRun, Inv, ProcType
  <1>3. /\ pc'[p] = "idle" /\ batch'[p] = <<>> /\ snap'[p] = <<>> /\ todo'[p] = {}
        /\ \A q \in Proc \ {p} : /\ pc'[q] = pc[q] /\ batch'[q] = batch[q]
                                 /\ snap'[q] = snap[q] /\ vid'[q] = vid[q]
                                 /\ alone'[q] = alone[q] /\ todo'[q] = todo[q]
    BY <1>1 DEF EndRun, Goto, Inv, ProcType
  <1>4. DbType' /\ ReferencesResolve' /\ DbGrows
    BY <1>1, DbStays DEF Inv
  <1>5. ProcType'
    BY <1>1, <1>2 DEF EndRun, Goto, Inv, ProcType
  <1>6. RunInv(p)'
    <2>1. RunType(p)'
      BY <1>3 DEF RunType
    <2> QED BY <1>3, <2>1 DEF RunInv, Linked, HaveVenue, MatchesRaw
  <1>7. \A q \in Proc \ {p} : Untouched(q)
    BY <1>1, <1>3, OthersUntouched DEF Inv
  <1> QED BY <1>1, <1>4, <1>5, <1>6, <1>7, StepInv

LEMMA StartRunInv ==
    ASSUME Inv, NEW p \in Proc, StartRun(p)
    PROVE  Inv'
  <1>1. PICK k \in 1..N : batch' = [batch EXCEPT ![p] = [c \in k..Len(at) |-> Item(c)]]
    BY DEF StartRun
  <1>2. /\ pc[p] = "idle" /\ pc' = [pc EXCEPT ![p] = "upsert"]
        /\ ran' = ran \union ({p} \intersect Cli)
        /\ UNCHANGED <<snap, vid, stale, alone, todo, faults>>
        /\ UNCHANGED remoteVars /\ UNCHANGED dbVars
    BY DEF StartRun, Goto, seenVars
  <1>3. DbType' /\ ReferencesResolve' /\ DbGrows
    BY <1>2, DbStays DEF Inv
  <1>4. ProcType'
    BY <1>1, <1>2 DEF Inv, ProcType
  <1>5. /\ pc'[p] = "upsert" /\ batch'[p] = [c \in k..Len(at) |-> Item(c)]
        /\ \A q \in Proc \ {p} : pc'[q] = pc[q] /\ batch'[q] = batch[q]
    BY <1>1, <1>2 DEF Inv, ProcType
  <1>6. RunInv(p)'
    <2>1. k..Len(at) \subseteq 1..Len(at)
      BY Constants DEF Inv, RemoteType
    <2>2. /\ DOMAIN batch'[p] \subseteq Checkin
          /\ \A c \in DOMAIN batch'[p] : batch'[p][c] \in ItemOf(c)
      BY <1>5, <2>1, ItemType DEF Inv
    <2>3. Stored' = Stored
      BY <1>2 DEF dbVars, checkinVars, Stored
    <2>4. RunType(p)'
      BY <1>2, <1>5, <2>2, <2>3 DEF Inv, RunInv, RunType
    <2> QED BY <1>5, <2>4 DEF RunInv, Linked, HaveVenue, MatchesRaw
  <1>7. \A q \in Proc \ {p} : Untouched(q)
    BY <1>2, <1>5, OthersUntouched DEF Inv
  <1> QED BY <1>2, <1>3, <1>4, <1>6, <1>7, StepInv

\* An item is stored: its row keeps its place and its venue, or is a new one.
LEMMA UpsertInv ==
    ASSUME Inv, NEW p \in Proc, Upsert(p)
    PROVE  Inv'
  <1> DEFINE c == Max(DOMAIN batch[p])
             rest == DOMAIN batch[p] \ {c}
  <1>1. /\ pc[p] = "upsert" /\ DOMAIN batch[p] # {}
        /\ order' = RowsAfterUpsert(c)
        /\ raw' = [d \in DOMAIN raw \union {c} |-> IF d = c THEN batch[p][c] ELSE raw[d]]
        /\ batch' = [batch EXCEPT ![p] = [d \in rest |-> batch[p][d]]]
        /\ venueRef' = [d \in DOMAIN raw \union {c} |->
                           IF d \in DOMAIN raw THEN venueRef[d] ELSE NoRef]
        /\ Wrote(p)
        /\ UNCHANGED <<venueId, people, links, pc, snap, vid, ran, faults>>
        /\ UNCHANGED remoteVars
    BY DEF Upsert
  <1>2. c \in DOMAIN batch[p] /\ c \in Checkin /\ batch[p][c] \in ItemOf(c)
    <2>1. DOMAIN batch[p] \subseteq Checkin /\ \A d \in DOMAIN batch[p] : batch[p][d] \in ItemOf(d)
      BY DEF Inv, RunInv, RunType
    <2>2. c \in DOMAIN batch[p]
      BY <1>1, <2>1, MaxType, Constants DEF Checkin
    <2> QED BY <2>1, <2>2
  <1> HIDE DEF c
  <1>3. /\ DbType /\ DOMAIN raw = Stored /\ IsFiniteSet(Stored)
        /\ Len(order) \in Nat /\ DOMAIN order = 1..Len(order)
        /\ \A i \in DOMAIN order : order[i] \in Stored
        /\ \A d \in Stored : \E i \in DOMAIN order : order[i] = d
    BY StoredType DEF Inv, DbType
  <1>4. /\ order' \in Seq(Checkin)
        /\ Stored' = Stored \union {c}
        /\ Len(order') = Cardinality(Stored')
    <2>1. CASE c \in Stored
      <3>1. order' = order
        BY <1>1, <2>1 DEF RowsAfterUpsert
      <3>2. Stored' = Stored
        BY <3>1 DEF Stored
      <3> QED BY <1>3, <2>1, <3>1, <3>2 DEF DbType
    <2>2. CASE c \notin Stored
      <3>1. order' = Append(order, c)
        BY <1>1, <2>2 DEF RowsAfterUpsert
      <3>2. /\ order' \in Seq(Checkin) /\ Len(order') = Len(order) + 1
            /\ \A i \in 1..Len(order) : order'[i] = order[i]
            /\ order'[Len(order) + 1] = c
        BY <1>2, <1>3, <3>1, AppendProperties DEF DbType
      <3>3. DOMAIN order' = 1..(Len(order) + 1)
        BY <1>3, <3>2
      <3>4. Stored' = Stored \union {c}
        <4>1. Stored' = {order'[i] : i \in 1..(Len(order) + 1)}
          BY <3>3 DEF Stored
        <4>2. 1..(Len(order) + 1) = (1..Len(order)) \union {Len(order) + 1}
          BY <1>3
        <4>3. Stored = {order[i] : i \in 1..Len(order)}
          BY <1>3 DEF Stored
        <4> QED BY <3>2, <4>1, <4>2, <4>3
      <3>5. Cardinality(Stored') = Cardinality(Stored) + 1
        BY <1>3, <2>2, <3>4, FS_AddElement
      <3> QED BY <1>3, <3>2, <3>4, <3>5 DEF DbType
    <2> QED BY <2>1, <2>2
  <1>5. /\ DOMAIN raw' = Stored'
        /\ raw'[c] = batch[p][c]
        /\ \A d \in Stored \ {c} : raw'[d] = raw[d]
    BY <1>1, <1>3, <1>4
  <1>6. /\ DOMAIN venueRef' = Stored'
        /\ \A d \in Stored : venueRef'[d] = venueRef[d]
        /\ c \notin Stored => venueRef'[c] = NoRef
        /\ venueRef' \in [Stored' -> Ref]
    <2>1. /\ DOMAIN venueRef' = Stored'
          /\ \A d \in Stored : venueRef'[d] = venueRef[d]
          /\ c \notin Stored => venueRef'[c] = NoRef
      BY <1>1, <1>3, <1>4
    <2>2. \A d \in Stored' : venueRef'[d] \in Ref
      BY <1>3, <1>4, <2>1, Constants DEF DbType
    <2>3. venueRef' = [d \in Stored' |-> venueRef'[d]]
      BY <1>1, <1>3, <1>4, <2>1
    <2> QED BY <2>1, <2>2, <2>3
  <1>7. DbType'
    <2>1. \A d \in Stored' : raw'[d] \in ItemOf(d)
      BY <1>2, <1>3, <1>4, <1>5 DEF DbType
    <2> QED BY <1>1, <1>3, <1>4, <1>5, <1>6, <2>1 DEF DbType
  <1>8. ReferencesResolve'
    BY <1>1, <1>4, <1>6, Constants DEF Inv, ReferencesResolve
  <1>9. DbGrows
    BY <1>1, <1>4, <1>6 DEF DbGrows
  <1>10. /\ stale' \in [Proc -> BOOLEAN] /\ alone' \in [Proc -> BOOLEAN] /\ todo' = todo
    BY <1>1, WroteType DEF Inv
  <1>11. ProcType'
    BY <1>1, <1>10 DEF Inv, ProcType
  <1>12. /\ batch'[p] = [d \in rest |-> batch[p][d]]
         /\ \A q \in Proc \ {p} : batch'[q] = batch[q]
    BY <1>1 DEF Inv, ProcType
  <1>13. RunInv(p)'
    <2>1. /\ DOMAIN batch'[p] \subseteq Checkin
          /\ \A d \in DOMAIN batch'[p] : batch'[p][d] \in ItemOf(d)
      BY <1>12 DEF Inv, RunInv, RunType
    <2>2. RunType(p)'
      BY <1>1, <1>4, <1>10, <2>1 DEF Inv, RunInv, RunType
    <2> QED BY <1>1, <2>2 DEF RunInv, Linked, HaveVenue, MatchesRaw
  <1>14. \A q \in Proc \ {p} : Untouched(q)
    BY <1>1, <1>12, OthersUntouched DEF Inv
  <1> QED BY <1>1, <1>7, <1>8, <1>9, <1>11, <1>13, <1>14, StepInv

\* The two queries: the run has all rows in hand, as they are stored.
LEMMA QueryInv ==
    ASSUME Inv, NEW p \in Proc, UsersBegin(p) \/ VenuesBegin(p)
    PROVE  Inv'
  <1>1. /\ snap' = [snap EXCEPT ![p] = AllRows]
        /\ pc[p] \in {"upsert", "venues"}
        /\ \/ pc[p] = "upsert" /\ pc' = [pc EXCEPT ![p] = "link"]
              /\ todo' = [todo EXCEPT ![p] = Stored]
              /\ stale' = [stale EXCEPT ![p] = FALSE]
           \/ pc[p] = "venues" /\ pc' = [pc EXCEPT ![p] = "select"]
              /\ todo' = todo /\ stale' = stale
        /\ UNCHANGED <<batch, vid, alone, ran, faults>>
        /\ UNCHANGED remoteVars /\ UNCHANGED dbVars
    BY DEF UsersBegin, VenuesBegin, VenueRows, Goto, seenVars
  <1>2. DbType' /\ ReferencesResolve' /\ DbGrows
    BY <1>1, DbStays DEF Inv
  <1>3. DbType /\ Stored \subseteq Checkin
    BY StoredType DEF Inv, DbType
  <1>4. ProcType'
    <2>1. todo' \in [Proc -> SUBSET Checkin] /\ stale' \in [Proc -> BOOLEAN]
      BY <1>1, <1>3 DEF Inv, ProcType
    <2> QED BY <1>1, <2>1 DEF Inv, ProcType
  <1>5. /\ snap'[p] = AllRows
        /\ \/ pc[p] = "upsert" /\ pc'[p] = "link" /\ todo'[p] = Stored
           \/ pc[p] = "venues" /\ pc'[p] = "select" /\ todo'[p] = todo[p]
        /\ \A q \in Proc \ {p} : pc'[q] = pc[q] /\ snap'[q] = snap[q] /\ todo'[q] = todo[q]
    BY <1>1 DEF Inv, ProcType
  <1>6. UNCHANGED <<order, raw, venueRef, venueId, people, links>> /\ Stored' = Stored
    BY <1>1 DEF dbVars, checkinVars, derivedVars, Stored
  <1>7. /\ AllRows \in Seq(Row)
        /\ \A i \in DOMAIN AllRows : /\ AllRows[i].id \in Stored
                                     /\ AllRows[i].raw = raw[AllRows[i].id]
                                     /\ AllRows[i].raw \in ItemOf(AllRows[i].id)
        /\ \A c \in Stored : \E i \in DOMAIN AllRows : AllRows[i].id = c
    BY <1>3, AllRowsType
  <1> HIDE DEF AllRows
  <1>8. \A c \in Stored : ToCome(p, c)'
    BY <1>5, <1>7 DEF ToCome
  <1>9. RunInv(p)'
    <2>1. todo'[p] \subseteq Stored
      BY <1>5 DEF Inv, RunInv, RunType
    <2>2. RunType(p)'
      BY <1>1, <1>5, <1>6, <1>7, <2>1 DEF Inv, RunInv, RunType
    <2>3. Linked(p)'
      BY <1>5, <1>6, <1>8, <2>1 DEF Inv, RunInv, Linked
    <2>4. HaveVenue(p)'
      BY <1>8, <2>1 DEF HaveVenue
    <2>5. MatchesRaw(p)'
      BY <1>5, <1>6, <1>7, <1>8 DEF MatchesRaw
    <2> QED BY <2>2, <2>3, <2>4, <2>5 DEF RunInv
  <1>10. \A q \in Proc \ {p} : Untouched(q)
    BY <1>1, <1>5, OthersUntouched DEF Inv
  <1> QED BY <1>1, <1>2, <1>4, <1>9, <1>10, StepInv

\* The pairs that are linked are the people of the rows in hand.
LEMMA LinksType ==
    ASSUME Inv, NEW p \in Proc, pc[p] = "link"
    PROVE  /\ LinksOf(snap[p]) \subseteq Checkin \X Person
           /\ \A c \in todo[p] : \A x \in With[c] :
                  <<c, x>> \in LinksOf(snap[p]) /\ Naming(snap[p], x) # {}
  <1>1. /\ snap[p] \in Seq(Row)
        /\ \A i \in DOMAIN snap[p] : /\ snap[p][i].id \in Stored
                                     /\ snap[p][i].raw \in ItemOf(snap[p][i].id)
        /\ \A c \in todo[p] : \E i \in DOMAIN snap[p] : snap[p][i].id = c
    BY DEF Inv, RunInv, RunType, Linked, ToCome
  <1>2. Stored \subseteq Checkin
    BY StoredType DEF Inv, DbType
  <1>3. \A i \in DOMAIN snap[p] : DOMAIN snap[p][i].raw.names = With[snap[p][i].id]
    BY <1>1, ItemParts
  <1>4. LinksOf(snap[p]) \subseteq Checkin \X Person
    <2>1. \A i \in DOMAIN snap[p] :
              {snap[p][i].id} \X DOMAIN snap[p][i].raw.names \subseteq Checkin \X Person
      BY <1>1, <1>2, <1>3, Constants
    <2> QED BY <2>1 DEF LinksOf
  <1>5. ASSUME NEW c \in todo[p], NEW x \in With[c]
        PROVE  <<c, x>> \in LinksOf(snap[p]) /\ Naming(snap[p], x) # {}
    <2>1. PICK i \in DOMAIN snap[p] : snap[p][i].id = c
      BY <1>1
    <2>2. x \in DOMAIN snap[p][i].raw.names
      BY <1>3, <2>1
    <2>3. <<c, x>> \in {snap[p][i].id} \X DOMAIN snap[p][i].raw.names
      BY <2>1, <2>2
    <2>4. <<c, x>> \in LinksOf(snap[p])
      BY <2>3 DEF LinksOf
    <2>5. i \in Naming(snap[p], x)
      BY <2>2 DEF Naming
    <2> QED BY <2>4, <2>5
  <1> QED BY <1>4, <1>5

\* A person has a name afterwards who is named by a row, or had one before.
LEMMA NameAfterType ==
    ASSUME Inv, NEW p \in Proc, pc[p] = "link", NEW x \in Person
    PROVE  /\ NameAfter(snap[p], x) \in 0..(MaxEdits + 1)
           /\ Naming(snap[p], x) # {} \/ people[x] # 0 => NameAfter(snap[p], x) # 0
  <1>1. CASE Naming(snap[p], x) = {}
    <2>1. NameAfter(snap[p], x) = people[x]
      BY <1>1 DEF NameAfter
    <2> QED BY <1>1, <2>1 DEF Inv, DbType
  <1>2. CASE Naming(snap[p], x) # {}
    <2> DEFINE i == Max(Naming(snap[p], x))
    <2>1. /\ snap[p] \in Seq(Row)
          /\ \A j \in DOMAIN snap[p] : snap[p][j].raw \in ItemOf(snap[p][j].id)
      BY DEF Inv, RunInv, RunType
    <2>2. i \in Naming(snap[p], x)
      <3>1. Len(snap[p]) \in Nat /\ DOMAIN snap[p] = 1..Len(snap[p])
        BY <2>1
      <3>2. Naming(snap[p], x) \in SUBSET (1..Len(snap[p]))
        BY <3>1 DEF Naming
      <3> QED BY <1>2, <3>1, <3>2, MaxType
    <2>3. NameAfter(snap[p], x) = snap[p][i].raw.names[x]
      BY <1>2 DEF NameAfter
    <2> HIDE DEF i
    <2>4. i \in DOMAIN snap[p] /\ x \in DOMAIN snap[p][i].raw.names
      BY <2>2 DEF Naming
    <2>5. snap[p][i].raw.names[x] \in Names
      BY <2>1, <2>4, ItemParts
    <2> QED BY <2>3, <2>5, Constants
  <1> QED BY <1>1, <1>2

\* Sync4sqUsers commits, or has nothing to write: all its rows are linked.
LEMMA UsersInv ==
    ASSUME Inv, NEW p \in Proc, UsersCommit(p) \/ UsersNothingToDo(p)
    PROVE  Inv'
  <1>1. /\ pc[p] = "link" /\ pc' = [pc EXCEPT ![p] = "venues"]
        /\ snap' = [snap EXCEPT ![p] = <<>>]
        /\ UNCHANGED <<batch, vid, ran, faults, order, raw, venueRef, venueId>>
        /\ UNCHANGED remoteVars
        /\ \/ /\ people' = [x \in Person |-> NameAfter(snap[p], x)]
              /\ links' = links \union LinksOf(snap[p])
              /\ Wrote(p)
           \/ /\ LinksOf(snap[p]) = {} /\ UNCHANGED <<people, links>>
              /\ UNCHANGED dbVars
              /\ UNCHANGED <<stale, alone, todo>>
    BY DEF UsersCommit, UsersNothingToDo, Goto, dbVars, checkinVars, derivedVars, seenVars
  <1>2. Stored' = Stored
    BY <1>1 DEF Stored
  <1>3. /\ people' \in [Person -> 0..(MaxEdits + 1)]
        /\ \A x \in Person : people[x] # 0 => people'[x] # 0
    <2>1. CASE people' = people
      BY <2>1 DEF Inv, DbType
    <2>2. CASE people' = [x \in Person |-> NameAfter(snap[p], x)]
      <3>1. \A x \in Person : /\ NameAfter(snap[p], x) \in 0..(MaxEdits + 1)
                              /\ people[x] # 0 => NameAfter(snap[p], x) # 0
        BY <1>1, NameAfterType
      <3> QED BY <2>2, <3>1
    <2> QED BY <1>1, <2>1, <2>2
  <1>4. links' \subseteq Checkin \X Person /\ links \subseteq links'
    BY <1>1, LinksType DEF Inv, DbType
  <1>5. DbType'
    BY <1>1, <1>2, <1>3, <1>4 DEF Inv, DbType
  <1>6. ReferencesResolve'
    BY <1>1, <1>2 DEF Inv, ReferencesResolve
  <1>7. DbGrows
    BY <1>1, <1>2, <1>3, <1>4 DEF DbGrows
  <1>8. stale' \in [Proc -> BOOLEAN] /\ alone' \in [Proc -> BOOLEAN] /\ todo' = todo
    BY <1>1, WroteType DEF Inv, ProcType
  <1>9. ProcType'
    BY <1>1, <1>8 DEF Inv, ProcType
  <1>10. /\ pc'[p] = "venues" /\ snap'[p] = <<>>
         /\ \A q \in Proc \ {p} : pc'[q] = pc[q] /\ snap'[q] = snap[q]
    BY <1>1 DEF Inv, ProcType
  <1>11. ASSUME NEW c \in todo[p], NEW x \in With[c]
         PROVE  <<c, x>> \in links' /\ people'[x] # 0
    <2>1. <<c, x>> \in LinksOf(snap[p]) /\ Naming(snap[p], x) # {}
      BY <1>1, LinksType
    <2>2. x \in Person
      BY Constants DEF Inv, ProcType
    <2>3. NameAfter(snap[p], x) # 0
      BY <1>1, <2>1, <2>2, NameAfterType
    <2> QED BY <1>1, <2>1, <2>2, <2>3
  <1>12. RunInv(p)'
    <2>1. RunType(p)'
      BY <1>1, <1>2, <1>8, <1>10 DEF Inv, RunInv, RunType
    <2>2. Linked(p)'
      BY <1>8, <1>10, <1>11 DEF Linked
    <2> QED BY <1>10, <2>1, <2>2 DEF RunInv, HaveVenue, MatchesRaw
  <1>13. \A q \in Proc \ {p} : Untouched(q)
    BY <1>1, <1>10, OthersUntouched DEF Inv
  <1> QED BY <1>1, <1>5, <1>6, <1>7, <1>9, <1>12, <1>13, StepInv

\* A row's venue is looked up.
LEMMA VenueSelectInv ==
    ASSUME Inv, NEW p \in Proc, VenueSelect(p)
    PROVE  Inv'
  <1> DEFINE v == Head(snap[p]).raw.venue
  <1>1. /\ pc[p] = "select" /\ pc' = [pc EXCEPT ![p] = "venue"]
        /\ snap[p] # <<>>
        /\ vid' = [vid EXCEPT ![p] = VenueIdFor(p, v)]
        /\ UNCHANGED <<batch, snap, stale, alone, todo, ran, faults>>
        /\ UNCHANGED remoteVars /\ UNCHANGED dbVars
    BY DEF VenueSelect, Goto, seenVars
  <1>2. v \in Venue
    <2>1. Head(snap[p]) = snap[p][1] /\ 1 \in DOMAIN snap[p]
      BY <1>1, RowsAfterFirst DEF Inv, RunInv, RunType
    <2>2. snap[p][1].raw \in ItemOf(snap[p][1].id)
      BY <2>1 DEF Inv, RunInv, RunType
    <2> QED BY <2>1, <2>2, ItemParts
  <1> HIDE DEF v
  <1>3. VenueIdFor(p, v) \in Proc
    BY <1>2 DEF VenueIdFor, Inv, DbType
  <1>4. DbType' /\ ReferencesResolve' /\ DbGrows
    BY <1>1, DbStays DEF Inv
  <1>5. ProcType'
    BY <1>1, <1>3 DEF Inv, ProcType
  <1>6. /\ pc'[p] = "venue" /\ vid'[p] # NoId
        /\ \A q \in Proc \ {p} : pc'[q] = pc[q] /\ vid'[q] = vid[q]
    BY <1>1, <1>3, Constants DEF Inv, ProcType
  <1>7. UNCHANGED <<order, raw, venueRef, venueId, people, links>> /\ Stored' = Stored
    BY <1>1 DEF dbVars, checkinVars, derivedVars, Stored
  <1>8. \A c : ToCome(p, c)' = ToCome(p, c)
    BY <1>1 DEF ToCome
  <1>9. RunInv(p)'
    <2>1. RunType(p)'
      BY <1>1, <1>6, <1>7 DEF Inv, RunInv, RunType
    <2>2. Linked(p)'
      BY <1>1, <1>6, <1>7 DEF Inv, RunInv, Linked
    <2>3. HaveVenue(p)'
      BY <1>1, <1>6, <1>7, <1>8 DEF Inv, RunInv, HaveVenue
    <2>4. MatchesRaw(p)'
      BY <1>1, <1>6, <1>7, <1>8 DEF Inv, RunInv, MatchesRaw
    <2> QED BY <2>1, <2>2, <2>3, <2>4 DEF RunInv
  <1>10. \A q \in Proc \ {p} : Untouched(q)
    BY <1>1, <1>6, OthersUntouched DEF Inv
  <1> QED BY <1>1, <1>4, <1>5, <1>9, <1>10, StepInv

\* The venue is inserted, unless it is there: an id that was given stays, and
\* with it every reference to it.
LEMMA VenueUpsertInv ==
    ASSUME Inv, NEW p \in Proc, VenueUpsert(p)
    PROVE  Inv'
  <1> DEFINE v == Head(snap[p]).raw.venue
  <1>1. /\ pc[p] = "venue" /\ pc' = [pc EXCEPT ![p] = "checkin"]
        /\ venueId' = [venueId EXCEPT ![v] = IF @ = NoId THEN vid[p] ELSE @]
        /\ Wrote(p)
        /\ UNCHANGED <<order, raw, venueRef, people, links, batch, snap, vid, ran, faults>>
        /\ UNCHANGED remoteVars
    BY DEF VenueUpsert, Goto, checkinVars
  <1> HIDE DEF v
  <1>2. Stored' = Stored
    BY <1>1 DEF Stored
  <1>3. /\ venueId' \in [Venue -> Proc \union {NoId}]
        /\ \A w \in Venue : venueId[w] # NoId => venueId'[w] = venueId[w]
    <2>1. vid[p] \in Proc \union {NoId} /\ venueId \in [Venue -> Proc \union {NoId}]
      BY DEF Inv, ProcType, DbType
    <2>2. CASE venueId[v] = NoId
      <3>1. venueId' = [venueId EXCEPT ![v] = vid[p]]
        BY <1>1, <2>2
      <3> QED BY <2>1, <2>2, <3>1
    <2>3. CASE venueId[v] # NoId
      <3>1. venueId' = [venueId EXCEPT ![v] = venueId[v]]
        BY <1>1, <2>3
      <3> QED BY <2>1, <3>1
    <2> QED BY <2>2, <2>3
  <1>4. DbType'
    BY <1>1, <1>2, <1>3 DEF Inv, DbType
  <1>5. ReferencesResolve'
    <2>1. \A c \in Stored : venueRef[c].venue \in Venue
      BY DEF Inv, DbType, Ref
    <2> QED BY <1>1, <1>2, <1>3, <2>1 DEF Inv, ReferencesResolve
  <1>6. DbGrows
    BY <1>1, <1>2 DEF DbGrows
  <1>7. stale' \in [Proc -> BOOLEAN] /\ alone' \in [Proc -> BOOLEAN] /\ todo' = todo
    BY <1>1, WroteType DEF Inv
  <1>8. ProcType'
    BY <1>1, <1>7 DEF Inv, ProcType
  <1>9. pc'[p] = "checkin" /\ \A q \in Proc \ {p} : pc'[q] = pc[q]
    BY <1>1 DEF Inv, ProcType
  <1>10. alone'[p] => alone[p]
    BY <1>1, WroteType DEF Inv
  <1>11. \A c : ToCome(p, c)' = ToCome(p, c)
    BY <1>1 DEF ToCome
  <1>12. RunInv(p)'
    <2>1. RunType(p)'
      BY <1>1, <1>2, <1>7, <1>9 DEF Inv, RunInv, RunType
    <2>2. Linked(p)'
      BY <1>1, <1>7, <1>9 DEF Inv, RunInv, Linked
    <2>3. HaveVenue(p)'
      BY <1>1, <1>7, <1>9, <1>11 DEF Inv, RunInv, HaveVenue
    <2>4. MatchesRaw(p)'
      BY <1>1, <1>2, <1>9, <1>10, <1>11 DEF Inv, RunInv, MatchesRaw
    <2> QED BY <2>1, <2>2, <2>3, <2>4 DEF RunInv
  <1>13. \A q \in Proc \ {p} : Untouched(q)
    BY <1>1, <1>9, OthersUntouched DEF Inv
  <1> QED BY <1>1, <1>4, <1>5, <1>6, <1>8, <1>12, <1>13, StepInv

\* The row gets its venue, which the foreign key has been asked for.
LEMMA VenueUpdateInv ==
    ASSUME Inv, NEW p \in Proc, VenueUpdate(p)
    PROVE  Inv'
  <1> DEFINE v == Head(snap[p]).raw.venue
             c == Head(snap[p]).id
             t == Tail(snap[p])
             ref == [venue |-> v, id |-> vid[p]]
  <1>1. /\ pc[p] = "checkin" /\ pc' = [pc EXCEPT ![p] = "select"]
        /\ venueId[v] = vid[p]
        /\ venueRef' = [venueRef EXCEPT ![c] = ref]
        /\ snap' = [snap EXCEPT ![p] = t]
        /\ vid' = [vid EXCEPT ![p] = NoId]
        /\ Wrote(p)
        /\ UNCHANGED <<order, raw, venueId, people, links, batch, ran, faults>>
        /\ UNCHANGED remoteVars
    BY DEF VenueUpdate, ForeignKeyHolds, Goto, checkinVars
  <1>2. snap[p] \in Seq(Row) /\ snap[p] # <<>> /\ vid[p] \in Proc /\ vid[p] # NoId
    BY <1>1 DEF Inv, RunInv, RunType, ProcType
  <1>3. /\ Head(snap[p]) = snap[p][1] /\ 1 \in DOMAIN snap[p]
        /\ t \in Seq(Row)
        /\ \A i \in DOMAIN t : i + 1 \in DOMAIN snap[p] /\ t[i] = snap[p][i + 1]
        /\ \A i \in DOMAIN snap[p] : i = 1 \/ (i - 1 \in DOMAIN t /\ t[i - 1] = snap[p][i])
    BY <1>2, RowsAfterFirst
  <1>4. c \in Stored /\ v \in Venue
    BY <1>3, ItemParts DEF Inv, RunInv, RunType
  <1>5. ref \in Ref /\ ref.venue = v /\ ref.id = vid[p]
    BY <1>2, <1>4 DEF Ref
  <1>6. c = snap[p][1].id /\ v = snap[p][1].raw.venue
    BY <1>3
  <1> HIDE DEF v, c, t, ref
  <1>7. Stored' = Stored
    BY <1>1 DEF Stored
  <1>8. /\ venueRef' \in [Stored' -> Ref]
        /\ venueRef'[c] = ref
        /\ \A d \in Stored \ {c} : venueRef'[d] = venueRef[d]
    BY <1>1, <1>4, <1>5, <1>7 DEF Inv, DbType
  <1>9. DbType'
    BY <1>1, <1>7, <1>8 DEF Inv, DbType
  <1>10. ReferencesResolve'
    BY <1>1, <1>5, <1>7, <1>8 DEF Inv, ReferencesResolve
  <1>11. DbGrows
    BY <1>1, <1>2, <1>5, <1>7, <1>8 DEF DbGrows
  <1>12. stale' \in [Proc -> BOOLEAN] /\ alone' \in [Proc -> BOOLEAN] /\ todo' = todo
    BY <1>1, WroteType DEF Inv
  <1>13. ProcType'
    BY <1>1, <1>12 DEF Inv, ProcType
  <1>14. /\ pc'[p] = "select" /\ snap'[p] = t
         /\ \A q \in Proc \ {p} : pc'[q] = pc[q] /\ snap'[q] = snap[q] /\ vid'[q] = vid[q]
    BY <1>1 DEF Inv, ProcType
  <1>15. alone'[p] => alone[p]
    BY <1>1, WroteType DEF Inv
  \* Every other row that was to come is still to come.
  <1>16. \A d : ToCome(p, d) => d = c \/ ToCome(p, d)'
    <2> SUFFICES ASSUME NEW d, NEW i \in DOMAIN snap[p], snap[p][i].id = d
                 PROVE  d = c \/ \E j \in DOMAIN t : t[j].id = d
      BY <1>14 DEF ToCome
    <2> QED BY <1>3, <1>6
  <1>17. RunInv(p)'
    <2>1. RunType(p)'
      <3>1. \A i \in DOMAIN t : t[i].id \in Stored /\ t[i].raw \in ItemOf(t[i].id)
        BY <1>3 DEF Inv, RunInv, RunType
      <3>2. /\ DOMAIN batch[p] \subseteq Checkin
            /\ \A d \in DOMAIN batch[p] : batch[p][d] \in ItemOf(d)
            /\ todo[p] \subseteq Stored
        BY DEF Inv, RunInv, RunType
      <3>3. pc'[p] = "select" /\ snap'[p] = t /\ t \in Seq(Row)
        BY <1>3, <1>14
      <3>4. batch' = batch /\ todo' = todo
        BY <1>1, <1>12
      <3> QED BY <1>7, <3>1, <3>2, <3>3, <3>4 DEF RunType
    <2>2. Linked(p)'
      BY <1>1, <1>12, <1>14 DEF Inv, RunInv, Linked
    <2>3. HaveVenue(p)'
      <3> SUFFICES ASSUME NEW d \in todo[p]
                   PROVE  venueRef'[d].id # NoId \/ ToCome(p, d)'
        BY <1>12 DEF HaveVenue
      <3>1. d \in Stored
        BY DEF Inv, RunInv, RunType
      <3>2. venueRef[d].id # NoId \/ ToCome(p, d)
        BY <1>1 DEF Inv, RunInv, HaveVenue
      <3> QED BY <1>2, <1>5, <1>8, <1>16, <3>1, <3>2
    <2>4. MatchesRaw(p)'
      <3> SUFFICES ASSUME alone[p]
                   PROVE  /\ \A i \in DOMAIN t : t[i].raw = raw[t[i].id]
                          /\ \A d \in Stored : \/ /\ venueRef'[d].venue = raw[d].venue
                                                  /\ venueRef'[d].id # NoId
                                               \/ ToCome(p, d)'
        BY <1>1, <1>7, <1>14, <1>15 DEF MatchesRaw
      <3>1. /\ \A i \in DOMAIN snap[p] : snap[p][i].raw = raw[snap[p][i].id]
            /\ \A d \in Stored : \/ venueRef[d].venue = raw[d].venue /\ venueRef[d].id # NoId
                                 \/ ToCome(p, d)
        BY <1>1 DEF Inv, RunInv, MatchesRaw
      <3>2. \A i \in DOMAIN t : t[i].raw = raw[t[i].id]
        BY <1>3, <3>1
      <3>3. v = raw[c].venue
        BY <1>3, <1>6, <3>1
      <3>4. ASSUME NEW d \in Stored
            PROVE  \/ venueRef'[d].venue = raw[d].venue /\ venueRef'[d].id # NoId
                   \/ ToCome(p, d)'
        <4>1. CASE d = c
          BY <1>2, <1>5, <1>8, <3>3, <4>1
        <4>2. CASE d # c
          BY <1>8, <1>16, <3>1, <4>2
        <4> QED BY <4>1, <4>2
      <3> QED BY <3>2, <3>4
    <2> QED BY <2>1, <2>2, <2>3, <2>4 DEF RunInv
  <1>18. \A q \in Proc \ {p} : Untouched(q)
    BY <1>1, <1>14, OthersUntouched DEF Inv
  <1> QED BY <1>1, <1>9, <1>10, <1>11, <1>13, <1>17, <1>18, StepInv

LEMMA Invariant == SafetySpec => []Inv
  <1>1. Inv /\ [Next]_vars => Inv'
    <2> SUFFICES ASSUME Inv, [Next]_vars PROVE Inv'
      OBVIOUS
    <2>1. ASSUME NEW p \in Proc, StartRun(p) \/ Continue(p) \/ StopRun(p)
          PROVE  Inv'
      BY <2>1, StartRunInv, UpsertInv, QueryInv, UsersInv, VenueSelectInv, VenueUpsertInv,
         VenueUpdateInv, EndRunInv DEF Continue
    <2> QED BY <2>1, RemoteInv DEF Next
  <1> QED BY <1>1, InitInv, PTL DEF SafetySpec

-----------------------------------------------------------------------------
\* The variables have their types; in particular every check-in has at most one
\* row, which has its raw item, and a run has only stored rows in hand.
THEOREM TypeCorrect == SafetySpec => []TypeOK
  <1>1. Inv => TypeOK
    <2> SUFFICES ASSUME Inv PROVE TypeOK
      OBVIOUS
    <2>1. \A c \in Stored : /\ raw[c].venue \in Venue
                            /\ raw[c].names \in [With[c] -> 1..(MaxEdits + 1)]
      BY DEF Inv, DbType, ItemOf, Names
    <2>2. \A p \in Proc : /\ DOMAIN batch[p] \subseteq Checkin
                          /\ \A i \in DOMAIN snap[p] : snap[p][i].id \in Stored
      BY DEF Inv, RunInv, RunType
    <2> QED BY <2>1, <2>2 DEF Inv, RemoteType, DbType, ProcType, TypeOK, Names, Ref
  <1> QED BY <1>1, Invariant, PTL

\* No row refers to a venue that is not there under that id, however the runs
\* interleave: a lookup that is out of date is refused by the foreign key.
THEOREM VenuesAreThere == SafetySpec => []ReferencesResolve
  <1>1. Inv => ReferencesResolve
    BY DEF Inv
  <1> QED BY <1>1, Invariant, PTL

\* A run that gets to its end has given every row there was its venue and its
\* people, whatever other runs did meanwhile.
THEOREM CompleteRunDenormalises == SafetySpec => []RunDenormalises
  <1>1. Inv => RunDenormalises
    <2> SUFFICES ASSUME Inv, NEW p \in Proc, Complete(p), NEW c \in todo[p]
                 PROVE  \E s \in GetCheckins : s.id = c /\ With[c] \subseteq s.with
      BY DEF RunDenormalises
    <2> DEFINE with == {x \in Person : <<c, x>> \in links /\ people[x] # 0}
               s == [id |-> c, venue |-> venueRef[c].venue, with |-> with]
    <2>1. pc[p] = "select" /\ snap[p] = <<>>
      BY DEF Complete
    <2>2. c \in Stored /\ c \in Checkin
      BY DEF Inv, RunInv, RunType, ProcType
    <2>3. ~ToCome(p, c)
      BY <2>1 DEF ToCome
    <2>4. venueRef[c].id # NoId
      BY <2>1, <2>3 DEF Inv, RunInv, HaveVenue
    <2>5. venueId[venueRef[c].venue] = venueRef[c].id
      BY <2>2, <2>4 DEF Inv, ReferencesResolve
    <2>6. s \in GetCheckins
      BY <2>2, <2>4, <2>5 DEF GetCheckins
    <2>7. With[c] \subseteq with
      BY <2>1, <2>2, Constants DEF Inv, RunInv, Linked
    <2> QED BY <2>6, <2>7
  <1> QED BY <1>1, Invariant, PTL

\* When nothing else wrote, it has also given every row the venue of its raw item.
THEOREM CompleteRunMatchesRaw == SafetySpec => []RunMatchesRaw
  <1>1. Inv => RunMatchesRaw
    <2> SUFFICES ASSUME Inv, NEW p \in Proc, Complete(p), alone[p], NEW c \in Stored
                 PROVE  venueRef[c] = [venue |-> raw[c].venue, id |-> venueId[raw[c].venue]]
      BY DEF RunMatchesRaw
    <2>1. pc[p] = "select" /\ snap[p] = <<>>
      BY DEF Complete
    <2>2. ~ToCome(p, c)
      BY <2>1 DEF ToCome
    <2>3. venueRef[c].venue = raw[c].venue /\ venueRef[c].id # NoId
      BY <2>1, <2>2 DEF Inv, RunInv, MatchesRaw
    <2>4. venueRef[c].id = venueId[raw[c].venue]
      BY <2>3 DEF Inv, ReferencesResolve
    <2>5. venueRef[c] \in Ref
      BY DEF Inv, DbType
    <2> QED BY <2>3, <2>4, <2>5 DEF Ref
  <1> QED BY <1>1, Invariant, PTL

=============================================================================
