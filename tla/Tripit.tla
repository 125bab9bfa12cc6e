------------------------------- MODULE Tripit --------------------------------
(***************************************************************************)
(* The TripIt sync: tripitSyncCommand.run (main_tripitimport.go), with     *)
(* LatestTripitID and UpsertTripitTrip (sql_trips.go), against the owner's *)
(* list of past trips, which changes while the sync pages through it.      *)
(*                                                                         *)
(* A run remembers the stored trip that ended last.  It fetches the past   *)
(* trips page by page, latest first, stores all of a page, and stops after *)
(* the page with the trip it remembers, or after the last page.  With      *)
(* -fetch-all (tripitsync only) it goes through all pages.                 *)
(*                                                                         *)
(* A trip is its end date, a day; no two trips end on one day.             *)
(***************************************************************************)
EXTENDS Integers, FiniteSets, FiniteSetsExt

CONSTANTS
    LastDay,     \* bound: the days there are
    PageSize,    \* 5 in the code
    MaxFaults,   \* bound: how many runs stop before their end
    MaxLate      \* bound: trips that are entered late, or deleted

ASSUME TripitAssumption ==
    /\ LastDay \in Nat
    /\ PageSize \in Nat \ {0}
    /\ MaxFaults \in Nat
    /\ MaxLate \in Nat

VARIABLES
    today,       \* trips that end before today are past
    past,        \* TripIt: the past trips
    stored,      \* database: the trips that have a row
    pc,          \* where the run is
    fetchAll,    \* the run's flag
    latest,      \* latestTripID, 0 for none
    page,        \* the page the run fetches next
    maxPages,    \* MaxPage of the run's last response
    batch,       \* trips of the current page not upserted yet
    stop,        \* stopFetch
    faults,
    \* What follows only records history; the code has no such state.
    owed,        \* the past trips when the run started
    changes,     \* how many trips were entered late or deleted
    shrunk,      \* a trip was deleted while this run was fetching
    gap          \* the stored trips may have a hole in them

remoteVars == <<today, past>>
runVars == <<fetchAll, latest, page, maxPages, batch, stop>>
vars == <<remoteVars, stored, pc, runVars, faults, owed, changes, shrunk, gap>>

Trip == 1..LastDay

-----------------------------------------------------------------------------
(* TripIt, as the filters of run see it.                                   *)

Rank(t) == Cardinality({u \in past : u > t})

\* Pages are counted from 1; a list without trips has one page.
PageOf(k) == {t \in past : (k - 1) * PageSize <= Rank(t) /\ Rank(t) < k * PageSize}
PageCount == Max({1, (Cardinality(past) + PageSize - 1) \div PageSize})

-----------------------------------------------------------------------------
\* LatestTripitID: order by end_date desc, the first row.
LatestTripitID == IF stored = {} THEN 0 ELSE Max(stored)

\* Mutant: -fetch-all stops at a known trip as well.
HitsAnyway(t) == latest # 0 /\ t = latest

Hits(t) == ~fetchAll /\ latest # 0 /\ t = latest

\* Mutant: the last page is left out.
BeforeLastPage == page >= maxPages

\* fetchPage is the page after the one that was fetched.
AfterLastPage == page > maxPages

\* Mutants: a page is left out; or the page number is never advanced.
PageAfterNext(k) == k + 2
StaysOnPage(k) == k

NextPage(k) == k + 1

\* The run has stored a trip that is later than the one it remembered.
Advanced == LatestTripitID > latest

-----------------------------------------------------------------------------
Init ==
    /\ today = 1
    /\ past = {}
    /\ stored = {}
    /\ pc = "idle"
    /\ fetchAll = FALSE
    /\ latest = 0
    /\ page = 1
    /\ maxPages = 1
    /\ batch = {}
    /\ stop = FALSE
    /\ faults = 0
    /\ owed = {}
    /\ changes = 0
    /\ shrunk = FALSE
    /\ gap = FALSE

(* A day is over; a trip ended on it, or none did.                         *)
Day ==
    /\ today <= LastDay
    /\ today' = today + 1
    /\ past' \in {past, past \union {today}}
    /\ UNCHANGED <<stored, pc, runVars, faults, owed, changes, shrunk, gap>>

(* The owner enters a trip after it is over.                               *)
EnterLate(t) ==
    /\ changes < MaxLate
    /\ t < today
    /\ t \notin past
    /\ past' = past \union {t}
    /\ changes' = changes + 1
    /\ gap' = (gap \/ t < LatestTripitID \/ pc # "idle")
    /\ UNCHANGED <<today, stored, pc, runVars, faults, owed, shrunk>>

(* The owner deletes a past trip.                                          *)
Delete(t) ==
    /\ changes < MaxLate
    /\ t \in past
    /\ past' = past \ {t}
    /\ changes' = changes + 1
    /\ shrunk' = (shrunk \/ pc # "idle")
    /\ UNCHANGED <<today, stored, pc, runVars, faults, owed, gap>>

(* A run starts.                                                           *)
StartRun ==
    /\ pc = "idle"
    /\ fetchAll' \in BOOLEAN
    /\ latest' = LatestTripitID
    /\ page' = 1
    /\ stop' = FALSE
    /\ pc' = "fetch"
    /\ owed' = past
    /\ shrunk' = FALSE
    /\ UNCHANGED <<remoteVars, stored, maxPages, batch, faults, changes, gap>>

(* A page is fetched.                                                      *)
FetchPage ==
    /\ pc = "fetch"
    /\ batch' = PageOf(page)
    /\ maxPages' = PageCount
    /\ page' = NextPage(page)
    /\ pc' = "upsert"
    /\ UNCHANGED <<remoteVars, stored, fetchAll, latest, stop, faults, owed, changes,
                   shrunk, gap>>

(* A trip of the page is stored, also one at which the run is to stop.     *)
Upsert ==
    /\ pc = "upsert"
    /\ batch # {}
    /\ LET t == Max(batch)
       IN /\ stop' = (stop \/ Hits(t))
          /\ stored' = stored \union {t}
          /\ batch' = batch \ {t}
    /\ UNCHANGED <<remoteVars, pc, fetchAll, latest, page, maxPages, faults, owed,
                   changes, shrunk, gap>>

(* The page is stored, and there is a next one.                            *)
PageDone ==
    /\ pc = "upsert"
    /\ batch = {}
    /\ ~(AfterLastPage \/ stop)
    /\ pc' = "fetch"
    /\ UNCHANGED <<remoteVars, stored, runVars, faults, owed, changes, shrunk, gap>>

(* It was the last, or the trip the run remembered was on it.              *)
LastPageDone ==
    /\ pc = "upsert"
    /\ batch = {}
    /\ AfterLastPage \/ stop
    /\ pc' = "complete"
    /\ UNCHANGED <<remoteVars, stored, runVars, faults, owed, changes, shrunk, gap>>

FinishRun ==
    /\ pc = "complete"
    /\ pc' = "idle"
    /\ gap' = (gap \/ (shrunk /\ Advanced))
    /\ UNCHANGED <<remoteVars, stored, runVars, faults, owed, changes, shrunk>>

(* The run returns an error - TripIt's, or one of the database - or the    *)
(* process ends.                                                           *)
StopRun ==
    /\ pc # "idle"
    /\ faults < MaxFaults
    /\ faults' = faults + 1
    /\ pc' = "idle"
    /\ batch' = {}
    /\ gap' = (gap \/ ((shrunk \/ pc # "complete") /\ Advanced))
    /\ UNCHANGED <<remoteVars, stored, fetchAll, latest, page, maxPages, stop, owed,
                   changes, shrunk>>

Next ==
    \/ Day
    \/ \E t \in Trip : EnterLate(t) \/ Delete(t)
    \/ StartRun
    \/ FetchPage
    \/ Upsert
    \/ PageDone
    \/ LastPageDone
    \/ FinishRun
    \/ StopRun

(***************************************************************************)
(* The sync loop of serve starts runs for ever, and TripIt answers them.   *)
(***************************************************************************)
Fairness ==
    /\ WF_vars(StartRun)
    /\ WF_vars(FetchPage)
    /\ WF_vars(Upsert)
    /\ WF_vars(PageDone)
    /\ WF_vars(LastPageDone)
    /\ WF_vars(FinishRun)

SafetySpec == Init /\ [][Next]_vars
Spec == SafetySpec /\ Fairness

-----------------------------------------------------------------------------
(* Properties.                                                             *)

\* The variables have their types, a run only stops early because of a trip it
\* remembers, and pages are counted from 1 to one past the last.
TypeOK ==
    /\ today \in 1..(LastDay + 1)
    /\ past \subseteq Trip
    /\ stored \subseteq Trip
    /\ pc \in {"idle", "fetch", "upsert", "complete"}
    /\ fetchAll \in BOOLEAN
    /\ latest \in 0..LastDay
    /\ page \in 1..(PageCount + MaxLate + 1)
    /\ maxPages \in 1..(LastDay + 1)
    /\ batch \subseteq Trip
    /\ stop \in BOOLEAN
    /\ faults \in 0..MaxFaults
    /\ owed \subseteq Trip
    /\ changes \in 0..MaxLate
    /\ shrunk \in BOOLEAN
    /\ gap \in BOOLEAN
    /\ stop => ~fetchAll /\ latest \in stored

\* A run that gets to its end has every past trip there was when it started,
\* although it stops at the first one it knows: unless a trip was entered late,
\* or an earlier run stored later trips and did not get to the older ones.
RunCovers ==
    pc = "complete" /\ ~gap /\ ~shrunk => owed \intersect past \subseteq stored

\* With -fetch-all that needs no proviso but the last: nothing was deleted
\* while the run was fetching.
FetchAllCovers ==
    pc = "complete" /\ fetchAll /\ ~shrunk => owed \subseteq stored

\* Between runs, what is older than the stored trip that ended last is stored.
NoHole ==
    pc = "idle" /\ ~gap => \A t \in past : t < LatestTripitID => t \in stored

\* Every run comes to an end although trips are added while it pages.
RunEnds == pc # "idle" ~> pc = "idle"

\* The flag's text says what a run without it fetches: "not just ones not
\* already fetched" (main.go:485).  The code stops before some of those.
RunFetchesNew == pc = "complete" /\ ~shrunk => owed \subseteq stored

-----------------------------------------------------------------------------
Phase == IF pc \in {"idle", "complete"} THEN pc ELSE "copying"

\* The sync as the abstract specification sees it.
Sync ==
    INSTANCE Mirror WITH
        Item <- Trip, LateLoses <- TRUE,
        history <- past, copy <- stored, page <- batch, phase <- Phase,
        owed <- owed, torn <- shrunk, lost <- gap

\* The sync implements a mirror of the list: run returns nil only when nothing
\* is missing, but here a trip entered late may be lost.
ImplementsMirror == Sync!Spec
=============================================================================
