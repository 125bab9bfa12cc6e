---------------------------- MODULE TripitProofs ----------------------------
(***************************************************************************)
(* What MCTripit checks of the TripIt sync, but for its end, proved for    *)
(* any days, page size, changes and faults.                                *)
(*                                                                         *)
(* The argument is about the trips on the pages a run has fetched: those   *)
(* of a rank below Frontier.  Trips are added at the front and behind it,  *)
(* which only raises the rank of the others; so, if none was deleted, a    *)
(* trip below the frontier has been fetched (CoversFetched), and a past    *)
(* trip that has not been is behind all that have (NoHoleFetched).  A run  *)
(* ends when the frontier is past the last trip, or past the one it knows. *)
(***************************************************************************)
EXTENDS Tripit, FiniteSetTheorems, NaturalsInduction, TLAPS

\* What the run has fetched or found.
Fetched == stored \union batch

\* The ranks of the pages that were fetched are below this one.
Frontier == (page - 1) * PageSize

\* The run has what it was to get: it is after the last page, or stops.
Settled == pc \in {"upsert", "complete"} /\ (AfterLastPage \/ stop)

\* Days pass, the tables have past trips only, and a page is behind the last one
\* by no more than what was deleted.
Shape ==
    /\ past \subseteq 1..(today - 1)
    /\ stored \subseteq 1..(today - 1)
    /\ batch \subseteq 1..(today - 1)
    /\ batch # {} => pc = "upsert"
    /\ latest = 0 \/ latest \in stored
    /\ maxPages <= PageCount + changes
    /\ page <= PageCount + changes + 1
    /\ pc = "fetch" => page <= PageCount + changes /\ ~stop
    /\ pc = "complete" => batch = {} /\ Settled

\* What was past when the run started: all of it below the frontier is fetched;
\* a page leaves nothing out above any of its trips; and at the end nothing is
\* missing, or nothing later than the trip that was known.
CoversFetched ==
    pc # "idle" /\ ~shrunk =>
        /\ owed \subseteq past
        /\ \A t \in owed : Rank(t) < Frontier => t \in Fetched
        /\ pc = "upsert" => \A v \in batch, t \in owed : v < t => t \in Fetched
        /\ Settled => \A t \in owed : latest < t \/ ~stop => t \in Fetched

\* What the run knew of is stored, up to the trip it remembers.
KnownBefore ==
    pc # "idle" /\ ~gap => \A t \in past : t < latest => t \in stored

\* The same for holes: what is missing, later than the trip that was known and
\* earlier than one that was fetched, is behind the frontier, and is not missing
\* at the end.
NoHoleFetched ==
    pc # "idle" /\ ~shrunk /\ ~gap =>
        \A t \in past, u \in Fetched :
            latest < t /\ t < u =>
                /\ Rank(t) < Frontier => t \in Fetched
                /\ pc = "upsert" => \A v \in batch : v < t => t \in Fetched
                /\ Settled => t \in Fetched

Inv == TypeOK /\ Shape /\ CoversFetched /\ KnownBefore /\ NoHoleFetched /\ NoHole
(***************************************************************************)
(* Days, ranks and pages.                                                  *)
(***************************************************************************)

\* A nonempty set of numbers has a least one.
LEMMA Least ==
    ASSUME NEW S \in SUBSET Nat, S # {}
    PROVE  \E x \in S : \A y \in S : x <= y
  <1> DEFINE R == OpToRel(<, Nat)
  <1>1. IsWellFoundedOn(R, Nat)
    BY NatLessThanWellFounded
  <1>2. \A x, y \in Nat : <<x, y>> \in R <=> x < y
    BY DEF OpToRel
  <1> HIDE DEF R
  <1>3. PICK x \in S : \A y \in S : ~ (<<y, x>> \in R)
    BY <1>1, WFMin
  <1>4. \A y \in S : x <= y
    <2> TAKE y \in S
    <2>1. x \in Nat /\ y \in Nat
      OBVIOUS
    <2>2. ~ (y < x)
      BY <1>2, <1>3, <2>1
    <2> QED BY <2>1, <2>2
  <1> QED BY <1>4

\* A nonempty set of days has a last one, and Max is it.
LEMMA MaxIsLast ==
    ASSUME NEW S \in SUBSET Trip, S # {}
    PROVE  Max(S) \in S /\ \A t \in S : t <= Max(S)
  <1> DEFINE L == {LastDay - t : t \in S}
  <1>1. L \in SUBSET Nat /\ L # {}
    BY TripitAssumption DEF TripitAssumption, Trip
  <1>2. PICK x \in L : \A y \in L : x <= y
    BY <1>1, Least
  <1>3. PICK m \in S : x = LastDay - m
    BY <1>2
  <1>4. \A t \in S : m >= t
    <2> TAKE t \in S
    <2>1. LastDay - t \in L
      OBVIOUS
    <2>2. LastDay - m <= LastDay - t
      BY <1>2, <1>3, <2>1
    <2> QED BY <2>2, TripitAssumption DEF TripitAssumption, Trip
  <1>5. Max(S) = CHOOSE z \in S : \A y \in S : z >= y
    BY DEF Max
  <1>6. Max(S) \in S /\ \A t \in S : Max(S) >= t
    BY <1>3, <1>4, <1>5
  <1>7. S \subseteq Int
    BY TripitAssumption DEF TripitAssumption, Trip
  <1> QED BY <1>6, <1>7

\* The stored trip that ended last, 0 if there is none.
LEMMA LatestType ==
    ASSUME stored \subseteq Trip
    PROVE  /\ LatestTripitID \in 0..LastDay
           /\ LatestTripitID = 0 \/ LatestTripitID \in stored
           /\ \A t \in stored : t <= LatestTripitID
  <1>1. CASE stored = {}
    <2>1. LatestTripitID = 0
      BY <1>1 DEF LatestTripitID
    <2> QED BY <1>1, <2>1, TripitAssumption DEF TripitAssumption
  <1>2. CASE stored # {}
    <2>1. Max(stored) \in stored /\ \A t \in stored : t <= Max(stored)
      BY <1>2, MaxIsLast
    <2>2. LatestTripitID = Max(stored)
      BY <1>2 DEF LatestTripitID
    <2>3. LatestTripitID \in 1..LastDay
      BY <2>1, <2>2 DEF Trip
    <2> QED BY <2>1, <2>2, <2>3, TripitAssumption DEF TripitAssumption
  <1> QED BY <1>1, <1>2

Later(S, t) == {u \in S : u > t}

\* The rank of a trip in a list of past trips.
LEMMA RankType ==
    ASSUME NEW S \in SUBSET Trip
    PROVE  /\ IsFiniteSet(S) /\ Cardinality(S) \in Nat
           /\ \A t : /\ IsFiniteSet(Later(S, t))
                    /\ Cardinality(Later(S, t)) \in Nat
                    /\ Cardinality(Later(S, t)) <= Cardinality(S)
  <1>1. IsFiniteSet(Trip)
    BY FS_Interval, TripitAssumption DEF TripitAssumption, Trip
  <1>2. IsFiniteSet(S) /\ Cardinality(S) \in Nat
    BY <1>1, FS_Subset, FS_CardinalityType
  <1>3. ASSUME NEW t
        PROVE  /\ IsFiniteSet(Later(S, t))
               /\ Cardinality(Later(S, t)) \in Nat
               /\ Cardinality(Later(S, t)) <= Cardinality(S)
    <2>1. Later(S, t) \in SUBSET S
      BY DEF Later
    <2> QED BY <1>2, <2>1, FS_Subset, FS_CardinalityType
  <1> QED BY <1>2, <1>3

\* A later trip has a smaller rank.
LEMMA RankOrder ==
    ASSUME NEW S \in SUBSET Trip, NEW t \in Trip, NEW u \in S, t < u
    PROVE  Cardinality(Later(S, u)) < Cardinality(Later(S, t))
  <1>1. \A v \in Trip : v \in Int
    BY TripitAssumption DEF TripitAssumption, Trip
  <1>2. Later(S, u) \subseteq Later(S, t) /\ u \in Later(S, t) /\ u \notin Later(S, u)
    BY <1>1 DEF Later
  <1>3. /\ Cardinality(Later(S, u)) <= Cardinality(Later(S, t))
        /\ Cardinality(Later(S, u)) # Cardinality(Later(S, t))
    BY <1>2, RankType, FS_Subset
  <1> QED BY <1>3, RankType

\* A trip of the list has a rank below its length.
LEMMA RankInList ==
    ASSUME NEW S \in SUBSET Trip, NEW t \in S
    PROVE  Cardinality(Later(S, t)) < Cardinality(S)
  <1>1. Later(S, t) \in SUBSET S /\ t \notin Later(S, t)
    BY TripitAssumption DEF TripitAssumption, Later, Trip
  <1>2. /\ Cardinality(Later(S, t)) <= Cardinality(S)
        /\ Cardinality(Later(S, t)) # Cardinality(S)
    BY <1>1, RankType, FS_Subset
  <1> QED BY <1>2, RankType

\* Trips that are added do not lower a rank.
LEMMA RankGrows ==
    ASSUME NEW S \in SUBSET Trip, NEW T \in SUBSET Trip, S \subseteq T, NEW t
    PROVE  Cardinality(Later(S, t)) <= Cardinality(Later(T, t))
  <1>1. Later(S, t) \in SUBSET Later(T, t)
    BY DEF Later
  <1> QED BY <1>1, RankType, FS_Subset

\* The number of pages of a list of n trips.
Pages(n) == Max({1, (n + PageSize - 1) \div PageSize})

LEMMA Product ==
    ASSUME NEW a \in Int, NEW b \in Int, NEW p \in Nat, a <= b
    PROVE  a * p <= b * p
  OBVIOUS

LEMMA DivBounds ==
    ASSUME NEW a \in Nat, NEW b \in Nat \ {0}
    PROVE  /\ a \div b \in Nat
           /\ (a \div b) * b <= a
           /\ a < (a \div b + 1) * b
  OBVIOUS

\* There is a page, the pages hold the list, and there are no more of them than
\* that takes.
LEMMA PagesType ==
    ASSUME NEW n \in Nat
    PROVE  /\ Pages(n) \in Nat \ {0}
           /\ n <= Pages(n) * PageSize
           /\ \A q \in Nat \ {0} : n <= q * PageSize => Pages(n) <= q
  <1> DEFINE d == (n + PageSize - 1) \div PageSize
  <1>1. PageSize \in Nat \ {0} /\ n + PageSize - 1 \in Nat
    BY TripitAssumption DEF TripitAssumption
  <1>2. d \in Nat /\ d * PageSize <= n + PageSize - 1 /\ n + PageSize - 1 < (d + 1) * PageSize
    BY <1>1, DivBounds
  <1>3. (d + 1) * PageSize = d * PageSize + PageSize
    BY <1>1, <1>2
  <1>4. d * PageSize \in Nat /\ n <= d * PageSize
    BY <1>1, <1>2, <1>3
  <1>5. Pages(n) = CHOOSE x \in {1, d} : \A y \in {1, d} : x >= y
    BY DEF Pages, Max
  <1> HIDE DEF d
  <1>6. Pages(n) \in {1, d} /\ Pages(n) >= 1 /\ Pages(n) >= d
    <2>1. \E x \in {1, d} : \A y \in {1, d} : x >= y
      <3>1. CASE d >= 1
        BY <1>2, <3>1
      <3>2. CASE ~(d >= 1)
        BY <1>2, <3>2
      <3> QED BY <3>1, <3>2
    <2>2. Pages(n) \in {1, d} /\ \A y \in {1, d} : Pages(n) >= y
      BY <1>5, <2>1
    <2> QED BY <2>2
  <1>7. Pages(n) \in Nat \ {0}
    BY <1>2, <1>6
  <1>8. n <= Pages(n) * PageSize
    <2>1. d * PageSize <= Pages(n) * PageSize
      BY <1>1, <1>2, <1>6, <1>7, Product
    <2> QED BY <1>1, <1>4, <1>7, <2>1
  <1>9. ASSUME NEW q \in Nat \ {0}, n <= q * PageSize
        PROVE  Pages(n) <= q
    <2>1. CASE d <= q
      BY <1>2, <1>6, <2>1
    <2>2. CASE q + 1 <= d
      <3>1. (q + 1) * PageSize <= d * PageSize
        BY <1>1, <1>2, <2>2, Product
      <3>2. (q + 1) * PageSize = q * PageSize + PageSize
        BY <1>1
      <3>3. q * PageSize \in Nat
        BY <1>1
      <3> QED BY <1>1, <1>2, <1>4, <1>9, <3>1, <3>2, <3>3
    <2> QED BY <1>2, <2>1, <2>2
  <1> QED BY <1>7, <1>8, <1>9

\* More trips do not make fewer pages, one trip less makes one page less at most,
\* and there are no more pages than trips.
LEMMA PagesSteps ==
    ASSUME NEW n \in Nat
    PROVE  /\ \A m \in 0..n : Pages(m) <= Pages(n)
           /\ Pages(n + 1) <= Pages(n) + 1
           /\ Pages(n) <= n + 1
  <1>1. PageSize \in Nat \ {0}
    BY TripitAssumption DEF TripitAssumption
  <1>2. Pages(n) \in Nat \ {0} /\ n <= Pages(n) * PageSize /\ Pages(n) * PageSize \in Nat
    BY <1>1, PagesType
  <1>3. ASSUME NEW m \in 0..n
        PROVE  Pages(m) <= Pages(n)
    <2>1. m \in Nat /\ m <= Pages(n) * PageSize
      BY <1>2
    <2> QED BY <1>2, <2>1, PagesType
  <1>4. Pages(n + 1) <= Pages(n) + 1
    <2>1. (Pages(n) + 1) * PageSize = Pages(n) * PageSize + PageSize
      BY <1>1, <1>2
    <2>2. n + 1 \in Nat /\ n + 1 <= (Pages(n) + 1) * PageSize /\ Pages(n) + 1 \in Nat \ {0}
      BY <1>1, <1>2, <2>1
    <2> QED BY <2>2, PagesType
  <1>5. Pages(n) <= n + 1
    <2>1. (n + 1) * 1 <= (n + 1) * PageSize
      BY <1>1
    <2>2. n <= (n + 1) * PageSize /\ n + 1 \in Nat \ {0}
      BY <1>1, <2>1
    <2> QED BY <2>2, PagesType
  <1> QED BY <1>3, <1>4, <1>5

\* What these say of the list as it is.
LEMMA PageCountType ==
    ASSUME past \subseteq Trip
    PROVE  /\ PageCount = Pages(Cardinality(past))
           /\ PageCount \in 1..(LastDay + 1)
           /\ Cardinality(past) <= PageCount * PageSize
           /\ Cardinality(past) \in Nat
           /\ IsFiniteSet(past)
  <1>1. IsFiniteSet(Trip) /\ Cardinality(Trip) = LastDay
    BY FS_Interval, TripitAssumption DEF TripitAssumption, Trip
  <1>2. Cardinality(past) \in Nat /\ Cardinality(past) <= LastDay /\ IsFiniteSet(past)
    BY <1>1, RankType, FS_Subset
  <1>3. PageCount = Pages(Cardinality(past))
    BY DEF PageCount, Pages
  <1>4. /\ Pages(Cardinality(past)) \in Nat \ {0}
        /\ Cardinality(past) <= Pages(Cardinality(past)) * PageSize
        /\ Pages(Cardinality(past)) <= Cardinality(past) + 1
    BY <1>2, PagesType, PagesSteps
  <1> QED BY <1>2, <1>3, <1>4, TripitAssumption DEF TripitAssumption

\* A page holds the trips whose ranks are from one frontier to the next.
LEMMA PageRanks ==
    ASSUME past \subseteq Trip, NEW k \in Nat \ {0}
    PROVE  /\ \A t : Rank(t) = Cardinality(Later(past, t))
           /\ \A t : Rank(t) \in Nat
           /\ (k - 1) * PageSize \in Nat
           /\ k * PageSize = (k - 1) * PageSize + PageSize
           /\ \A t \in past : t \in PageOf(k)
                              <=> (k - 1) * PageSize <= Rank(t) /\ Rank(t) < k * PageSize
           /\ PageOf(k) \subseteq past
  <1>1. \A t : Rank(t) = Cardinality(Later(past, t))
    BY DEF Rank, Later
  <1>2. k - 1 \in Nat /\ PageSize \in Nat
    BY TripitAssumption DEF TripitAssumption
  <1>3. (k - 1) * PageSize \in Nat /\ k * PageSize = (k - 1) * PageSize + PageSize
    BY <1>2
  <1> QED BY <1>1, <1>3, RankType DEF PageOf

-----------------------------------------------------------------------------
(***************************************************************************)
(* What becomes of ranks and pages when the list changes.                  *)
(***************************************************************************)

LEMMA ListStays ==
    ASSUME past' = past
    PROVE  /\ PageCount' = PageCount
           /\ \A t : Rank(t)' = Rank(t)
  BY DEF PageCount, Rank

LEMMA ListGrows ==
    ASSUME past \subseteq Trip, past' \subseteq Trip, past \subseteq past'
    PROVE  /\ PageCount \in Nat /\ PageCount' \in Nat /\ PageCount <= PageCount'
           /\ \A t : /\ Rank(t) \in Nat /\ Rank(t)' \in Nat
                    /\ Rank(t) <= Rank(t)'
  <1>1. /\ IsFiniteSet(past) /\ Cardinality(past) \in Nat
        /\ IsFiniteSet(past') /\ Cardinality(past') \in Nat
        /\ Cardinality(past) <= Cardinality(past')
    BY RankType, FS_Subset
  <1>2. PageCount = Pages(Cardinality(past)) /\ PageCount' = Pages(Cardinality(past'))
    BY DEF PageCount, Pages
  <1>3. PageCount \in Nat /\ PageCount' \in Nat /\ PageCount <= PageCount'
    BY <1>1, <1>2, PagesType, PagesSteps
  <1>4. ASSUME NEW t
        PROVE  Rank(t) \in Nat /\ Rank(t)' \in Nat /\ Rank(t) <= Rank(t)'
    <2>1. Rank(t) = Cardinality(Later(past, t)) /\ Rank(t)' = Cardinality(Later(past', t))
      BY DEF Rank, Later
    <2> QED BY <2>1, RankType, RankGrows
  <1> QED BY <1>3, <1>4

LEMMA ListShrinks ==
    ASSUME past \subseteq Trip, NEW t \in past, past' = past \ {t}
    PROVE  PageCount \in Nat /\ PageCount' \in Nat \ {0} /\ PageCount <= PageCount' + 1
  <1>1. /\ IsFiniteSet(past') /\ Cardinality(past') \in Nat
        /\ Cardinality(past) \in Nat
        /\ Cardinality(past') = Cardinality(past) - 1
    BY RankType, FS_RemoveElement, FS_CardinalityType
  <1>2. PageCount = Pages(Cardinality(past)) /\ PageCount' = Pages(Cardinality(past'))
    BY DEF PageCount, Pages
  <1>3. Cardinality(past) = Cardinality(past') + 1
    BY <1>1
  <1> QED BY <1>1, <1>2, <1>3, PagesType, PagesSteps

-----------------------------------------------------------------------------
LEMMA InitInv == Init => Inv
  <1> SUFFICES ASSUME Init PROVE Inv
    OBVIOUS
  <1>1. past = {} /\ PageCount \in 1..(LastDay + 1)
    BY PageCountType DEF Init
  <1>2. TypeOK
    <2>1. /\ today \in 1..(LastDay + 1) /\ page \in 1..(PageCount + MaxLate + 1)
          /\ maxPages \in 1..(LastDay + 1) /\ latest \in 0..LastDay
          /\ faults \in 0..MaxFaults /\ changes \in 0..MaxLate
      BY <1>1, TripitAssumption DEF TripitAssumption, Init
    <2> QED BY <2>1 DEF Init, TypeOK
  <1>3. Shape
    BY <1>1 DEF Init, Shape
  <1>4. CoversFetched /\ KnownBefore /\ NoHoleFetched /\ NoHole
    BY DEF Init, CoversFetched, KnownBefore, NoHoleFetched, NoHole
  <1> QED BY <1>2, <1>3, <1>4 DEF Inv

\* The numbers of a state.
LEMMA Numbers ==
    ASSUME Inv
    PROVE  /\ LastDay \in Nat /\ PageSize \in Nat \ {0} /\ MaxLate \in Nat
           /\ today \in Nat \ {0} /\ page \in Nat \ {0} /\ maxPages \in Nat
           /\ changes \in Nat /\ changes <= MaxLate
           /\ latest \in Nat /\ latest < today /\ today <= LastDay + 1
           /\ PageCount \in Nat \ {0} /\ PageCount <= LastDay + 1
           /\ Frontier \in Nat
           /\ Fetched \subseteq Trip
           /\ \A t \in Fetched : t < today
           /\ \A t \in Trip : t \in Nat \ {0} /\ t <= LastDay
           /\ \A t : Rank(t) \in Nat
  <1>1. /\ LastDay \in Nat /\ PageSize \in Nat \ {0} /\ MaxLate \in Nat
        /\ \A t \in Trip : t \in Nat \ {0} /\ t <= LastDay
    BY TripitAssumption DEF TripitAssumption, Trip
  <1>2. PageCount \in 1..(LastDay + 1)
    BY PageCountType DEF Inv, TypeOK
  <1>3. /\ today \in 1..(LastDay + 1) /\ page \in 1..(PageCount + MaxLate + 1)
        /\ maxPages \in 1..(LastDay + 1)
        /\ changes \in 0..MaxLate /\ latest \in 0..LastDay
        /\ stored \subseteq Trip /\ batch \subseteq Trip
    BY DEF Inv, TypeOK
  <1>4. page \in Nat \ {0} /\ today \in Nat \ {0} /\ changes \in Nat /\ latest \in Nat
    BY <1>1, <1>2, <1>3
  <1>5. Frontier \in Nat
    BY <1>1, <1>4, PageRanks DEF Frontier, Inv, TypeOK
  <1>6. \A t \in Fetched : t < today
    BY <1>4 DEF Inv, Shape, Fetched
  <1>7. latest < today
    BY <1>4 DEF Inv, Shape
  <1>8. \A t : Rank(t) \in Nat
    BY ListStays, RankType DEF Inv, TypeOK, Rank, Later
  <1> QED BY <1>1, <1>2, <1>3, <1>4, <1>5, <1>6, <1>7, <1>8 DEF Fetched

(***************************************************************************)
(* Time and the owner.                                                     *)
(***************************************************************************)

LEMMA DayInv ==
    ASSUME Inv, Day
    PROVE  Inv'
  <1>1. /\ today <= LastDay /\ today' = today + 1
        /\ past' = past \/ past' = past \union {today}
        /\ UNCHANGED <<stored, pc, fetchAll, latest, page, maxPages, batch, stop, faults,
                       owed, changes, shrunk, gap>>
    BY DEF Day, runVars
  <1>2. past \subseteq Trip /\ past' \subseteq Trip /\ past \subseteq past'
    <2>1. today \in Trip /\ past \subseteq Trip
      BY <1>1, Numbers DEF Inv, TypeOK, Trip
    <2> QED BY <1>1, <2>1
  <1>3. /\ PageCount \in Nat /\ PageCount' \in Nat /\ PageCount <= PageCount'
        /\ \A t : /\ Rank(t) \in Nat /\ Rank(t)' \in Nat
                 /\ Rank(t) <= Rank(t)'
    BY <1>2, ListGrows
  <1>4. Frontier' = Frontier /\ Fetched' = Fetched /\ Settled' = Settled
        /\ LatestTripitID' = LatestTripitID
    BY <1>1 DEF Frontier, Fetched, Settled, AfterLastPage, LatestTripitID
  <1>5. TypeOK'
    <2>1. today' \in 1..(LastDay + 1)
      BY <1>1, Numbers
    <2>2. page' \in 1..(PageCount' + MaxLate + 1)
      BY <1>1, <1>3, Numbers DEF Inv, TypeOK
    <2> QED BY <1>1, <1>2, <2>1, <2>2 DEF Inv, TypeOK
  <1>6. Shape'
    <2>1. /\ past' \subseteq 1..(today' - 1) /\ stored \subseteq 1..(today' - 1)
          /\ batch \subseteq 1..(today' - 1)
      <3>1. today' - 1 = today /\ today \in 1..today
        BY <1>1, Numbers
      <3>2. 1..(today - 1) \subseteq 1..today
        BY Numbers
      <3>3. past \subseteq 1..today /\ stored \subseteq 1..today /\ batch \subseteq 1..today
        BY <3>2 DEF Inv, Shape
      <3> QED BY <1>1, <3>1, <3>3
    <2>2. /\ maxPages <= PageCount' + changes /\ page <= PageCount' + changes + 1
          /\ pc = "fetch" => page <= PageCount' + changes /\ ~stop
      BY <1>3, Numbers DEF Inv, Shape
    <2> QED BY <1>1, <1>4, <2>1, <2>2 DEF Inv, Shape
  <1>7. CoversFetched'
    <2>1. \A t \in owed : Rank(t)' < Frontier => Rank(t) < Frontier
      BY <1>3, Numbers
    <2> QED BY <1>1, <1>2, <1>4, <2>1 DEF Inv, CoversFetched
  \* The trip that is past now is later than all the others.
  <1>8. \A t \in past' \ past : t = today
    BY <1>1
  <1>9. KnownBefore'
    <2>1. ~ (today < latest)
      BY Numbers
    <2> QED BY <1>1, <1>8, <2>1 DEF Inv, KnownBefore
  <1>10. NoHoleFetched'
    <2>1. \A u \in Fetched : ~ (today < u)
      BY Numbers
    <2>2. \A t \in past : Rank(t)' < Frontier => Rank(t) < Frontier
      BY <1>3, Numbers
    <2> QED BY <1>1, <1>4, <1>8, <2>1, <2>2 DEF Inv, NoHoleFetched
  <1>11. NoHole'
    <2>1. ~ (today < LatestTripitID)
      BY LatestType, Numbers DEF Inv, TypeOK, Fetched
    <2> QED BY <1>1, <1>4, <1>8, <2>1 DEF Inv, NoHole
  <1> QED BY <1>5, <1>6, <1>7, <1>9, <1>10, <1>11 DEF Inv

LEMMA EnterLateInv ==
    ASSUME Inv, NEW t \in Trip, EnterLate(t)
    PROVE  Inv'
  <1>1. /\ t < today /\ changes < MaxLate /\ past' = past \union {t}
        /\ changes' = changes + 1
        /\ gap' \in BOOLEAN
        /\ ~gap' => ~gap /\ pc = "idle" /\ ~ (t < LatestTripitID)
        /\ UNCHANGED <<today, stored, pc, fetchAll, latest, page, maxPages, batch, stop,
                       faults, owed, shrunk>>
    BY DEF EnterLate, runVars
  <1>2. past \subseteq Trip /\ past' \subseteq Trip /\ past \subseteq past'
    BY <1>1 DEF Inv, TypeOK
  <1>3. /\ PageCount \in Nat /\ PageCount' \in Nat /\ PageCount <= PageCount'
        /\ \A u : /\ Rank(u) \in Nat /\ Rank(u)' \in Nat
                 /\ Rank(u) <= Rank(u)'
    BY <1>2, ListGrows
  <1>4. Frontier' = Frontier /\ Fetched' = Fetched /\ Settled' = Settled
        /\ LatestTripitID' = LatestTripitID
    BY <1>1 DEF Frontier, Fetched, Settled, AfterLastPage, LatestTripitID
  <1>5. TypeOK'
    <2>1. changes' \in 0..MaxLate
      BY <1>1, Numbers
    <2>2. page' \in 1..(PageCount' + MaxLate + 1)
      BY <1>1, <1>3, Numbers DEF Inv, TypeOK
    <2> QED BY <1>1, <1>2, <2>1, <2>2 DEF Inv, TypeOK
  <1>6. Shape'
    <2>1. past' \subseteq 1..(today - 1)
      <3>1. t \in 1..(today - 1)
        BY <1>1, Numbers
      <3> QED BY <1>1, <3>1 DEF Inv, Shape
    <2>2. /\ maxPages <= PageCount' + changes' /\ page <= PageCount' + changes' + 1
          /\ pc = "fetch" => page <= PageCount' + changes' /\ ~stop
      BY <1>1, <1>3, Numbers DEF Inv, Shape
    <2> QED BY <1>1, <1>4, <2>1, <2>2 DEF Inv, Shape
  <1>7. CoversFetched'
    <2>1. \A u \in owed : Rank(u)' < Frontier => Rank(u) < Frontier
      BY <1>3, Numbers
    <2> QED BY <1>1, <1>2, <1>4, <2>1 DEF Inv, CoversFetched
  <1>8. KnownBefore' /\ NoHoleFetched'
    BY <1>1 DEF KnownBefore, NoHoleFetched
  <1>9. NoHole'
    BY <1>1, <1>4 DEF Inv, NoHole
  <1> QED BY <1>5, <1>6, <1>7, <1>8, <1>9 DEF Inv

LEMMA DeleteInv ==
    ASSUME Inv, NEW t \in Trip, Delete(t)
    PROVE  Inv'
  <1>1. /\ changes < MaxLate /\ t \in past /\ past' = past \ {t}
        /\ changes' = changes + 1
        /\ shrunk' \in BOOLEAN
        /\ pc # "idle" => shrunk'
        /\ UNCHANGED <<today, stored, pc, fetchAll, latest, page, maxPages, batch, stop,
                       faults, owed, gap>>
    BY DEF Delete, runVars
  <1>2. past \subseteq Trip /\ past' \subseteq Trip
    BY <1>1 DEF Inv, TypeOK
  <1>3. PageCount \in Nat /\ PageCount' \in Nat \ {0} /\ PageCount <= PageCount' + 1
    BY <1>1, <1>2, ListShrinks
  <1>4. Settled' = Settled /\ LatestTripitID' = LatestTripitID
    BY <1>1 DEF Settled, AfterLastPage, LatestTripitID
  <1>5. Shape'
    <2>1. PageCount + changes <= PageCount' + changes'
      <3> DEFINE old == PageCount
                 now == PageCount'
      <3>1. changes \in Nat /\ changes' = changes + 1
        BY <1>1, Numbers
      <3>2. old \in Nat /\ now \in Nat /\ old <= now + 1
        BY <1>3
      <3> HIDE DEF old, now
      <3>3. old + changes <= now + changes'
        BY <3>1, <3>2
      <3> QED BY <3>3 DEF old, now
    <2>2. PageCount' + changes' \in Int /\ PageCount + changes \in Int
      BY <1>1, <1>3, Numbers
    <2>3. /\ maxPages <= PageCount' + changes' /\ page <= PageCount' + changes' + 1
          /\ pc = "fetch" => page <= PageCount' + changes' /\ ~stop
      BY <2>1, <2>2, Numbers DEF Inv, Shape
    <2>4. past' \subseteq 1..(today - 1)
      BY <1>1 DEF Inv, Shape
    <2> QED BY <1>1, <1>4, <2>3, <2>4 DEF Inv, Shape
  <1>6. TypeOK'
    <2>1. changes' \in 0..MaxLate
      BY <1>1, Numbers
    <2>2. page' \in 1..(PageCount' + MaxLate + 1)
      <3>1. page <= PageCount' + changes' + 1
        BY <1>1, <1>5 DEF Shape
      <3> QED BY <1>1, <1>3, <2>1, <3>1, Numbers
    <2> QED BY <1>1, <1>2, <2>1, <2>2 DEF Inv, TypeOK
  <1>7. CoversFetched' /\ NoHoleFetched'
    BY <1>1 DEF CoversFetched, NoHoleFetched
  <1>8. KnownBefore' /\ NoHole'
    BY <1>1, <1>4 DEF Inv, KnownBefore, NoHole
  <1> QED BY <1>5, <1>6, <1>7, <1>8 DEF Inv

(***************************************************************************)
(* The run.                                                                *)
(***************************************************************************)

LEMMA StartRunInv ==
    ASSUME Inv, StartRun
    PROVE  Inv'
  <1>1. /\ pc = "idle" /\ pc' = "fetch" /\ fetchAll' \in BOOLEAN
        /\ latest' = LatestTripitID /\ page' = 1 /\ stop' = FALSE
        /\ owed' = past /\ shrunk' = FALSE
        /\ UNCHANGED <<today, past, stored, maxPages, batch, faults, changes, gap>>
    BY DEF StartRun, remoteVars
  <1>2. /\ PageCount' = PageCount
        /\ \A t : Rank(t)' = Rank(t)
    BY <1>1, ListStays
  <1>3. /\ latest' \in 0..LastDay
        /\ latest' = 0 \/ latest' \in stored
        /\ \A t \in stored : t <= latest'
    BY <1>1, LatestType DEF Inv, TypeOK
  <1>4. batch = {} /\ Fetched' = stored
    BY <1>1 DEF Inv, Shape, Fetched
  <1>5. Frontier' = 0 /\ ~Settled'
    BY <1>1, Numbers DEF Frontier, Settled
  <1>6. TypeOK'
    <2>1. page' \in 1..(PageCount' + MaxLate + 1)
      BY <1>1, <1>2, Numbers
    <2> QED BY <1>1, <1>3, <2>1 DEF Inv, TypeOK
  <1>7. Shape'
    <2>1. /\ maxPages <= PageCount' + changes
          /\ page' <= PageCount' + changes + 1
          /\ page' <= PageCount' + changes
      BY <1>1, <1>2, Numbers DEF Inv, Shape
    <2> QED BY <1>1, <1>3, <1>4, <2>1 DEF Inv, Shape
  <1>8. CoversFetched'
    <2>1. \A t : ~ (Rank(t)' < 0)
      BY <1>2, Numbers
    <2> QED BY <1>1, <1>5, <2>1 DEF CoversFetched
  <1>9. KnownBefore'
    BY <1>1 DEF Inv, NoHole, KnownBefore
  <1>10. NoHoleFetched'
    <2>1. ASSUME NEW t \in past, NEW u \in stored, latest' < t, t < u
          PROVE  FALSE
      <3>1. t \in Int /\ u \in Int /\ latest' \in Int /\ u <= latest'
        BY <1>3, Numbers DEF Inv, TypeOK
      <3> QED BY <2>1, <3>1
    <2> QED BY <1>1, <1>4, <2>1 DEF NoHoleFetched
  <1>11. NoHole'
    BY <1>1 DEF NoHole
  <1> QED BY <1>6, <1>7, <1>8, <1>9, <1>10, <1>11 DEF Inv

\* A page is fetched: the frontier moves behind it.
LEMMA FetchPageInv ==
    ASSUME Inv, FetchPage
    PROVE  Inv'
  <1>1. /\ pc = "fetch" /\ pc' = "upsert"
        /\ batch' = PageOf(page) /\ maxPages' = PageCount /\ page' = page + 1
        /\ UNCHANGED <<today, past, stored, fetchAll, latest, stop, faults, owed, changes,
                       shrunk, gap>>
    BY DEF FetchPage, NextPage, remoteVars
  <1>2. /\ PageCount' = PageCount
        /\ \A t : Rank(t)' = Rank(t)
    BY <1>1, ListStays
  <1>3. past \subseteq Trip /\ page \in Nat \ {0}
    BY Numbers DEF Inv, TypeOK
  <1>4. /\ batch' \subseteq past
        /\ \A t \in past : t \in batch' <=> Frontier <= Rank(t) /\ Rank(t) < Frontier'
        /\ Frontier \in Nat /\ Frontier' \in Nat /\ Frontier' = page * PageSize
    <2>1. Frontier = (page - 1) * PageSize /\ Frontier' = page * PageSize
      BY <1>1, <1>3 DEF Frontier
    <2>2. /\ (page - 1) * PageSize \in Nat
          /\ page * PageSize = (page - 1) * PageSize + PageSize
          /\ \A t \in past : t \in PageOf(page)
                <=> (page - 1) * PageSize <= Rank(t) /\ Rank(t) < page * PageSize
          /\ PageOf(page) \subseteq past
      BY <1>3, PageRanks
    <2>3. PageSize \in Nat
      BY Numbers
    <2>4. Frontier' \in Nat
      BY <2>1, <2>2, <2>3
    <2> QED BY <1>1, <2>1, <2>2, <2>4
  <1>5. Fetched = stored /\ Fetched' = stored \union batch'
    BY <1>1 DEF Inv, Shape, Fetched
  <1>6. ~stop /\ page <= PageCount + changes
    BY <1>1 DEF Inv, Shape
  \* A trip of the page has a rank below the frontier, and so has a later one.
  <1>7. ASSUME NEW v \in batch', NEW t \in past, v < t
        PROVE  Rank(t) < Frontier'
    <2>1. Rank(v) < Frontier'
      BY <1>4
    <2>2. Rank(t) < Rank(v)
      BY <1>3, <1>4, <1>7, RankOrder, PageRanks
    <2> QED BY <1>4, <2>1, <2>2, Numbers
  \* After the last page every past trip has.
  <1>8. ASSUME Settled', NEW t \in past
        PROVE  Rank(t) < Frontier'
    <2>1. page + 1 > PageCount
      BY <1>1, <1>6, <1>8 DEF Settled, AfterLastPage
    <2>2. PageCount <= page
      BY <1>3, <2>1, Numbers
    <2>3. PageCount * PageSize <= page * PageSize
      BY <1>3, <2>2, Product, Numbers
    <2>4. Cardinality(past) <= PageCount * PageSize /\ Cardinality(past) \in Nat
      BY <1>3, PageCountType
    <2>5. Rank(t) < Cardinality(past)
      BY <1>3, RankInList, PageRanks
    <2>6. PageCount * PageSize \in Nat
      BY Numbers
    <2> QED BY <1>4, <2>3, <2>4, <2>5, <2>6, Numbers
  <1>9. TypeOK'
    <2>1. page' \in 1..(PageCount' + MaxLate + 1)
      BY <1>1, <1>2, <1>6, Numbers
    <2>2. maxPages' \in 1..(LastDay + 1)
      BY <1>1, Numbers
    <2>3. batch' \subseteq Trip
      BY <1>3, <1>4
    <2> QED BY <1>1, <2>1, <2>2, <2>3 DEF Inv, TypeOK
  <1>10. Shape'
    <2>1. /\ maxPages' <= PageCount' + changes
          /\ page' <= PageCount' + changes + 1
      BY <1>1, <1>2, <1>6, Numbers
    <2>2. batch' \subseteq 1..(today - 1)
      BY <1>4 DEF Inv, Shape
    <2> QED BY <1>1, <2>1, <2>2 DEF Inv, Shape
  <1>11. CoversFetched'
    <2> SUFFICES ASSUME ~shrunk
                 PROVE  /\ owed \subseteq past
                        /\ \A t \in owed : Rank(t) < Frontier' => t \in Fetched'
                        /\ \A v \in batch', t \in owed : v < t => t \in Fetched'
                        /\ Settled' => \A t \in owed : t \in Fetched'
      BY <1>1, <1>2 DEF CoversFetched
    <2>1. owed \subseteq past
      BY <1>1 DEF Inv, CoversFetched
    <2>2. ASSUME NEW t \in owed, Rank(t) < Frontier'
          PROVE  t \in Fetched'
      <3>1. CASE Rank(t) < Frontier
        BY <1>1, <1>5, <3>1 DEF Inv, CoversFetched
      <3>2. CASE Frontier <= Rank(t)
        BY <1>4, <1>5, <2>1, <2>2, <3>2
      <3> QED BY <1>4, <3>1, <3>2, Numbers
    <2> QED BY <1>7, <1>8, <2>1, <2>2
  <1>12. KnownBefore'
    BY <1>1 DEF Inv, KnownBefore
  <1>13. NoHoleFetched'
    <2> SUFFICES ASSUME ~shrunk, ~gap, NEW t \in past, NEW u \in Fetched', latest < t, t < u
                 PROVE  /\ Rank(t) < Frontier' => t \in Fetched'
                        /\ \A v \in batch' : v < t => t \in Fetched'
                        /\ Settled' => t \in Fetched'
      BY <1>1, <1>2 DEF NoHoleFetched
    <2>1. ASSUME Rank(t) < Frontier'
          PROVE  t \in Fetched'
      <3>1. CASE Frontier <= Rank(t)
        BY <1>4, <1>5, <2>1, <3>1
      <3>2. CASE Rank(t) < Frontier /\ u \in stored
        BY <1>1, <1>5, <3>2 DEF Inv, NoHoleFetched
      <3>3. CASE Rank(t) < Frontier /\ u \in batch'
        \* u is on this page: a trip before it is not on an earlier one.
        <4>1. Rank(u) < Rank(t)
          BY <1>3, <1>4, <3>3, RankOrder, PageRanks
        <4>2. Frontier <= Rank(u)
          BY <1>4, <3>3
        <4> QED BY <1>4, <3>3, <4>1, <4>2, Numbers
      <3> QED BY <1>4, <1>5, <3>1, <3>2, <3>3, Numbers
    <2> QED BY <1>7, <1>8, <2>1
  <1>14. NoHole'
    BY <1>1 DEF NoHole
  <1> QED BY <1>9, <1>10, <1>11, <1>12, <1>13, <1>14 DEF Inv

\* Storing a trip of the page does not change what was fetched.
LEMMA UpsertInv ==
    ASSUME Inv, Upsert
    PROVE  Inv'
  <1> DEFINE t == Max(batch)
  <1>1. /\ pc = "upsert" /\ batch # {}
        /\ stop' = (stop \/ Hits(t))
        /\ stored' = stored \union {t} /\ batch' = batch \ {t}
        /\ UNCHANGED <<today, past, pc, fetchAll, latest, page, maxPages, faults, owed,
                       changes, shrunk, gap>>
    BY DEF Upsert, remoteVars
  <1>2. t \in batch /\ batch \subseteq Trip
    BY <1>1, MaxIsLast DEF Inv, TypeOK
  <1> HIDE DEF t
  <1>3. /\ PageCount' = PageCount
        /\ \A u : Rank(u)' = Rank(u)
    BY <1>1, ListStays
  <1>4. Frontier' = Frontier /\ Fetched' = Fetched /\ (AfterLastPage' = AfterLastPage)
    BY <1>1, <1>2 DEF Frontier, Fetched, AfterLastPage
  <1>5. Hits(t) => ~fetchAll /\ latest = t
    BY DEF Hits
  <1>6. TypeOK'
    <2>1. stop' \in BOOLEAN /\ (stop' => ~fetchAll /\ latest \in stored')
      BY <1>1, <1>5 DEF Inv, TypeOK
    <2>2. page' \in 1..(PageCount' + MaxLate + 1)
      BY <1>1, <1>3 DEF Inv, TypeOK
    <2> QED BY <1>1, <1>2, <2>1, <2>2 DEF Inv, TypeOK
  <1>7. Shape'
    BY <1>1, <1>2, <1>3 DEF Inv, Shape
  \* The run settles here only when it stops here, at the trip that it knew.
  <1>8. Settled' /\ ~Settled => latest = t
    BY <1>1, <1>4, <1>5 DEF Settled
  <1>9. Settled /\ ~stop => AfterLastPage
    BY DEF Settled
  <1>10. CoversFetched'
    <2> SUFFICES ASSUME ~shrunk
                 PROVE  /\ owed \subseteq past
                        /\ \A u \in owed : Rank(u) < Frontier => u \in Fetched
                        /\ \A v \in batch', u \in owed : v < u => u \in Fetched
                        /\ Settled' => \A u \in owed : latest < u \/ ~stop' => u \in Fetched
      BY <1>1, <1>3, <1>4 DEF CoversFetched
    <2>1. /\ owed \subseteq past
          /\ \A u \in owed : Rank(u) < Frontier => u \in Fetched
          /\ \A v \in batch, u \in owed : v < u => u \in Fetched
          /\ Settled => \A u \in owed : latest < u \/ ~stop => u \in Fetched
      BY <1>1 DEF Inv, CoversFetched
    <2>2. ASSUME Settled', NEW u \in owed, latest < u \/ ~stop'
          PROVE  u \in Fetched
      <3>1. CASE Settled
        BY <1>1, <2>1, <2>2, <3>1
      <3>2. CASE ~Settled
        <4>1. latest = t /\ stop'
          BY <1>1, <1>4, <1>8, <2>2, <3>2 DEF Settled
        <4> QED BY <1>2, <2>1, <2>2, <4>1
      <3> QED BY <3>1, <3>2
    <2> QED BY <1>1, <2>1, <2>2
  <1>11. KnownBefore'
    BY <1>1 DEF Inv, KnownBefore
  <1>12. NoHoleFetched'
    <2> SUFFICES ASSUME ~shrunk, ~gap, NEW u \in past, NEW w \in Fetched, latest < u, u < w
                 PROVE  /\ Rank(u) < Frontier => u \in Fetched
                        /\ \A v \in batch' : v < u => u \in Fetched
                        /\ Settled' => u \in Fetched
      BY <1>1, <1>3, <1>4 DEF NoHoleFetched
    <2>1. /\ Rank(u) < Frontier => u \in Fetched
          /\ \A v \in batch : v < u => u \in Fetched
          /\ Settled => u \in Fetched
      BY <1>1 DEF Inv, NoHoleFetched
    <2> QED BY <1>1, <1>2, <1>8, <2>1
  <1>13. NoHole'
    BY <1>1 DEF NoHole
  <1> QED BY <1>6, <1>7, <1>10, <1>11, <1>12, <1>13 DEF Inv

\* A page is done, the last one or one before it.
LEMMA PageDoneInv ==
    ASSUME Inv, PageDone \/ LastPageDone
    PROVE  Inv'
  <1>1. /\ pc = "upsert" /\ batch = {}
        /\ pc' \in {"fetch", "complete"}
        /\ pc' = "complete" <=> AfterLastPage \/ stop
        /\ UNCHANGED <<today, past, stored, fetchAll, latest, page, maxPages, batch, stop,
                       faults, owed, changes, shrunk, gap>>
    BY DEF PageDone, LastPageDone, remoteVars, runVars
  <1>2. /\ PageCount' = PageCount
        /\ \A u : Rank(u)' = Rank(u)
    BY <1>1, ListStays
  <1>3. /\ Frontier' = Frontier /\ Fetched' = Fetched
        /\ (AfterLastPage' = AfterLastPage) /\ (Settled' = Settled)
    BY <1>1 DEF Frontier, Fetched, Settled, AfterLastPage
  <1>4. TypeOK'
    BY <1>1, <1>2 DEF Inv, TypeOK
  <1>5. Shape'
    <2>1. pc' = "fetch" => page <= PageCount + changes /\ ~stop
      BY <1>1, Numbers DEF AfterLastPage, Inv, Shape
    <2>2. pc' = "complete" => Settled
      BY <1>1 DEF Settled
    <2> QED BY <1>1, <1>2, <1>3, <2>1, <2>2 DEF Inv, Shape
  <1>6. CoversFetched'
    BY <1>1, <1>2, <1>3 DEF Inv, CoversFetched
  <1>7. KnownBefore' /\ NoHole'
    BY <1>1 DEF Inv, KnownBefore, NoHole
  <1>8. NoHoleFetched'
    BY <1>1, <1>2, <1>3 DEF Inv, NoHoleFetched
  <1> QED BY <1>4, <1>5, <1>6, <1>7, <1>8 DEF Inv

\* A run is over.  When it has stored nothing that is later than what it knew of,
\* there is no hole because there was none; when it has, it must be complete.
LEMMA RunOverInv ==
    ASSUME Inv, FinishRun \/ StopRun
    PROVE  Inv'
  <1>1. /\ pc # "idle" /\ pc' = "idle" /\ batch' = {}
        /\ gap' \in BOOLEAN
        /\ ~gap' => ~gap /\ (~Advanced \/ (~shrunk /\ pc = "complete"))
        /\ UNCHANGED <<today, past, stored, fetchAll, latest, page, maxPages, stop, owed,
                       changes, shrunk>>
    <2>1. CASE FinishRun
      <3>1. batch = {}
        BY <2>1 DEF FinishRun, Inv, Shape
      <3> QED BY <2>1, <3>1 DEF FinishRun, remoteVars, runVars, Inv, TypeOK
    <2>2. CASE StopRun
      <3>1. gap' = (gap \/ ((shrunk \/ pc # "complete") /\ Advanced))
        BY <2>2 DEF StopRun
      <3>2. gap' \in BOOLEAN
        BY <3>1 DEF Inv, TypeOK
      <3>3. ~gap' => ~gap /\ (~Advanced \/ (~shrunk /\ pc = "complete"))
        BY <3>1, Zenon
      <3> QED BY <2>2, <3>2, <3>3 DEF StopRun, remoteVars
    <2> QED BY <2>1, <2>2
  <1>2. faults' \in 0..MaxFaults
    BY TripitAssumption DEF TripitAssumption, FinishRun, StopRun, Inv, TypeOK
  <1>3. PageCount' = PageCount
    BY <1>1, ListStays
  <1>4. TypeOK'
    BY <1>1, <1>2, <1>3 DEF Inv, TypeOK
  <1>5. Shape'
    BY <1>1, <1>3 DEF Inv, Shape
  <1>6. CoversFetched' /\ KnownBefore' /\ NoHoleFetched'
    BY <1>1 DEF CoversFetched, KnownBefore, NoHoleFetched
  <1>7. NoHole'
    <2> SUFFICES ASSUME ~gap', NEW t \in past, t < LatestTripitID
                 PROVE  t \in stored
      BY <1>1 DEF NoHole, LatestTripitID
    <2>1. /\ t \in Nat \ {0} /\ latest \in Nat /\ LatestTripitID \in Nat
          /\ LatestTripitID = 0 \/ LatestTripitID \in stored
          /\ \A u \in stored : u <= LatestTripitID
      BY LatestType, Numbers DEF Inv, TypeOK
    <2>2. latest = 0 \/ latest \in stored
      BY DEF Inv, Shape
    <2>3. CASE t < latest
      BY <1>1, <2>3 DEF Inv, KnownBefore
    <2>4. CASE t = latest
      BY <2>1, <2>2, <2>4
    <2>5. CASE latest < t
      <3>1. Advanced
        BY <2>1, <2>5 DEF Advanced
      <3>2. pc = "complete" /\ ~shrunk /\ ~gap
        BY <1>1, <3>1
      <3>3. Settled /\ Fetched = stored
        BY <3>2 DEF Inv, Shape, Fetched
      <3>4. LatestTripitID \in Fetched
        BY <2>1, <3>3
      <3> QED BY <2>5, <3>2, <3>3, <3>4 DEF Inv, NoHoleFetched
    <2> QED BY <2>1, <2>3, <2>4, <2>5
  <1> QED BY <1>4, <1>5, <1>6, <1>7 DEF Inv

LEMMA StutterInv ==
    ASSUME Inv, UNCHANGED vars
    PROVE  Inv'
  <1>1. UNCHANGED <<today, past, stored, pc, fetchAll, latest, page, maxPages, batch, stop,
                    faults, owed, changes, shrunk, gap>>
    BY DEF vars, remoteVars, runVars
  <1>2. /\ PageCount' = PageCount
        /\ \A u : Rank(u)' = Rank(u)
    BY <1>1, ListStays
  <1>3. /\ Frontier' = Frontier /\ Fetched' = Fetched
        /\ (Settled' = Settled) /\ LatestTripitID' = LatestTripitID
    BY <1>1 DEF Frontier, Fetched, Settled, AfterLastPage, LatestTripitID
  <1>4. TypeOK' /\ Shape'
    BY <1>1, <1>2, <1>3 DEF Inv, TypeOK, Shape
  <1>5. CoversFetched' /\ KnownBefore'
    BY <1>1, <1>2, <1>3 DEF Inv, CoversFetched, KnownBefore
  <1>6. NoHoleFetched' /\ NoHole'
    BY <1>1, <1>2, <1>3 DEF Inv, NoHoleFetched, NoHole
  <1> QED BY <1>4, <1>5, <1>6 DEF Inv

LEMMA Invariant == SafetySpec => []Inv
  <1>1. Inv /\ [Next]_vars => Inv'
    BY DayInv, EnterLateInv, DeleteInv, StartRunInv, FetchPageInv, UpsertInv, PageDoneInv,
       RunOverInv, StutterInv DEF Next
  <1> QED BY <1>1, InitInv, PTL DEF SafetySpec

-----------------------------------------------------------------------------
\* The variables have their types, a run only stops early because of a stored
\* trip, and fetches no page behind the last but for those that were deleted.
THEOREM TypeCorrect == SafetySpec => []TypeOK
  <1>1. Inv => TypeOK
    BY DEF Inv
  <1> QED BY <1>1, Invariant, PTL

\* A complete run has every past trip there was when it started, also when it
\* stopped at the one it knew, unless there may have been a hole before.
THEOREM CompleteRun == SafetySpec => []RunCovers
  <1>1. Inv => RunCovers
    <2> SUFFICES ASSUME Inv, pc = "complete", ~gap, ~shrunk, NEW t \in owed \intersect past
                 PROVE  t \in stored
      BY DEF RunCovers
    <2>1. batch = {} /\ Settled /\ Fetched = stored
      BY DEF Inv, Shape, Fetched
    <2>2. latest = 0 \/ latest \in stored
      BY DEF Inv, Shape
    <2>3. t \in Nat \ {0} /\ latest \in Nat
      BY Numbers DEF Inv, TypeOK
    <2>4. CASE t < latest
      BY <2>4 DEF Inv, KnownBefore
    <2>5. CASE t = latest
      BY <2>2, <2>3, <2>5
    <2>6. CASE latest < t
      BY <2>1, <2>6 DEF Inv, CoversFetched
    <2> QED BY <2>3, <2>4, <2>5, <2>6
  <1> QED BY <1>1, Invariant, PTL

\* With -fetch-all a complete run has them whatever was stored before.
THEOREM CompleteFetchAll == SafetySpec => []FetchAllCovers
  <1>1. Inv => FetchAllCovers
    <2> SUFFICES ASSUME Inv, pc = "complete", fetchAll, ~shrunk
                 PROVE  owed \subseteq stored
      BY DEF FetchAllCovers
    <2>1. batch = {} /\ Settled /\ Fetched = stored /\ ~stop
      BY DEF Inv, TypeOK, Shape, Fetched
    <2> QED BY <2>1 DEF Inv, CoversFetched
  <1> QED BY <1>1, Invariant, PTL

\* Between runs, what is older than the stored trip that ended last is stored.
THEOREM StoredHasNoHole == SafetySpec => []NoHole
  <1>1. Inv => NoHole
    BY DEF Inv
  <1> QED BY <1>1, Invariant, PTL

-----------------------------------------------------------------------------
(***************************************************************************)
(* The sync implements the mirror.                                         *)
(***************************************************************************)

LEMMA StepMirror ==
    ASSUME Inv, Inv', RunCovers', [Next]_vars
    PROVE  [Sync!Next]_(Sync!vars)
  <1> USE DEF Sync!vars
  <1>0. /\ TypeOK
        /\ pc \in {"idle", "fetch", "upsert", "complete"}
        /\ pc = "idle" => Phase = "idle"
        /\ pc = "complete" => Phase = "complete"
        /\ pc \in {"fetch", "upsert"} => Phase = "copying"
        /\ pc' = "idle" => Phase' = "idle"
        /\ pc' = "complete" => Phase' = "complete"
        /\ pc' \in {"fetch", "upsert"} => Phase' = "copying"
        /\ UNCHANGED pc => UNCHANGED Phase
    BY DEF Inv, TypeOK, Phase
  <1>1. CASE Day
    <2>1. /\ past' = past \/ past' = past \union {today}
          /\ UNCHANGED <<stored, batch, pc, owed, shrunk, gap>>
      BY <1>1 DEF Day, runVars
    <2>2. today \in Trip /\ today \notin past
      BY <1>1, Numbers DEF Day, Inv, Shape, Trip
    <2>3. CASE past' = past
      BY <1>0, <2>1, <2>3
    <2>4. CASE past' = past \union {today}
      <3>1. Sync!Grow(today)
        BY <1>0, <2>1, <2>2, <2>4 DEF Sync!Grow
      <3> QED BY <2>2, <3>1 DEF Sync!Next
    <2> QED BY <2>1, <2>3, <2>4
  <1>2. ASSUME NEW t \in Trip, EnterLate(t)
        PROVE  [Sync!Next]_(Sync!vars)
    <2>1. /\ t \notin past /\ past' = past \union {t}
          /\ UNCHANGED <<stored, batch, pc, owed, shrunk>>
      BY <1>2 DEF EnterLate, runVars
    <2>2. gap' \in {gap, gap \/ TRUE}
      BY <1>2 DEF EnterLate, Inv, TypeOK
    <2>3. Sync!Grow(t)
      BY <1>0, <2>1, <2>2 DEF Sync!Grow
    <2> QED BY <2>3 DEF Sync!Next
  <1>3. ASSUME NEW t \in Trip, Delete(t)
        PROVE  [Sync!Next]_(Sync!vars)
    <2>1. /\ t \in past /\ past' = past \ {t}
          /\ UNCHANGED <<stored, batch, pc, owed, gap>>
      BY <1>3 DEF Delete, runVars
    <2>2. shrunk' = (shrunk \/ pc # "idle")
      BY <1>3 DEF Delete
    <2>3. pc # "idle" <=> Phase # "idle"
      BY <1>0
    <2>4. shrunk' \in {shrunk, shrunk \/ Phase # "idle"}
      BY <2>2, <2>3 DEF Inv, TypeOK
    <2>5. Sync!Shrink(t)
      BY <1>0, <2>1, <2>4 DEF Sync!Shrink
    <2> QED BY <2>5 DEF Sync!Next
  <1>4. CASE StartRun
    <2>1. /\ pc = "idle" /\ pc' = "fetch" /\ owed' = past /\ shrunk' = FALSE
          /\ UNCHANGED <<past, stored, batch, gap>>
      BY <1>4 DEF StartRun, remoteVars
    <2>2. Sync!Begin
      BY <1>0, <2>1 DEF Sync!Begin
    <2> QED BY <2>2 DEF Sync!Next
  <1>5. CASE FetchPage
    <2>1. /\ pc = "fetch" /\ pc' = "upsert" /\ batch' = PageOf(page)
          /\ UNCHANGED <<past, stored, owed, shrunk, gap>>
      BY <1>5 DEF FetchPage, remoteVars
    <2>2. batch = {} /\ PageOf(page) \in SUBSET past
      BY <2>1 DEF Inv, Shape, PageOf
    <2>3. Sync!Read
      BY <1>0, <2>1, <2>2 DEF Sync!Read
    <2> QED BY <2>3 DEF Sync!Next
  <1>6. CASE Upsert
    <2> DEFINE t == Max(batch)
    <2>1. /\ batch # {} /\ stored' = stored \union {t} /\ batch' = batch \ {t}
          /\ UNCHANGED <<past, pc, owed, shrunk, gap>>
      BY <1>6 DEF Upsert, remoteVars
    <2>2. t \in batch /\ t \in Trip
      BY <2>1, MaxIsLast DEF Inv, TypeOK
    <2> HIDE DEF t
    <2>3. Sync!Store(t)
      BY <1>0, <2>1, <2>2 DEF Sync!Store
    <2> QED BY <2>2, <2>3 DEF Sync!Next
  <1>7. CASE PageDone
    BY <1>0, <1>7 DEF PageDone, remoteVars, runVars
  <1>8. CASE LastPageDone
    <2>1. /\ pc = "upsert" /\ pc' = "complete" /\ batch = {}
          /\ UNCHANGED <<past, stored, batch, owed, shrunk, gap>>
      BY <1>8 DEF LastPageDone, remoteVars, runVars
    <2>2. ~shrunk => owed \subseteq past
      BY <2>1 DEF Inv, CoversFetched
    <2>3. ~shrunk /\ ~gap => owed \subseteq stored
      BY <2>1, <2>2 DEF RunCovers
    <2>4. Sync!Complete
      BY <1>0, <2>1, <2>3 DEF Sync!Complete
    <2> QED BY <2>4 DEF Sync!Next
  <1>9. CASE FinishRun
    <2>1. /\ pc = "complete" /\ pc' = "idle"
          /\ gap' = (gap \/ (shrunk /\ Advanced))
          /\ UNCHANGED <<past, stored, batch, owed, shrunk>>
      BY <1>9 DEF FinishRun, remoteVars, runVars
    <2>2. gap' \in {gap, gap \/ shrunk}
      BY <2>1 DEF Inv, TypeOK
    <2>3. Sync!End
      BY <1>0, <2>1, <2>2 DEF Sync!End
    <2> QED BY <2>3 DEF Sync!Next
  <1>10. CASE StopRun
    <2>1. /\ pc # "idle" /\ pc' = "idle" /\ batch' = {}
          /\ UNCHANGED <<past, stored, owed, shrunk>>
      BY <1>10 DEF StopRun, remoteVars
    <2>2. gap' \in {gap, TRUE}
      BY <1>10 DEF StopRun, Inv, TypeOK
    <2>3. Sync!Fail
      BY <1>0, <2>1, <2>2 DEF Sync!Fail
    <2> QED BY <2>3 DEF Sync!Next
  <1>11. CASE UNCHANGED vars
    BY <1>0, <1>11 DEF vars, remoteVars, runVars
  <1> QED BY <1>1, <1>2, <1>3, <1>4, <1>5, <1>6, <1>7, <1>8, <1>9, <1>10, <1>11 DEF Next

\* The sync implements the mirror: what TripIt, the database and the history
\* variables do is what Mirror allows for, in particular that run returns nil.
THEOREM SyncImplementsMirror == SafetySpec => ImplementsMirror
  <1>1. Init => Sync!Init
    BY DEF Init, Sync!Init, Phase
  <1>2. Inv /\ Inv' /\ RunCovers' /\ [Next]_vars => [Sync!Next]_(Sync!vars)
    BY StepMirror
  <1> QED BY <1>1, <1>2, Invariant, CompleteRun, PTL
          DEF SafetySpec, ImplementsMirror, Sync!Spec

=============================================================================
