------------------------------ MODULE FsqFetch ------------------------------
(***************************************************************************)
(* The download half of the Foursquare sync: fsqSyncCommand.run and        *)
(* fetchCheckins (main_4sqimport.go) against the owner's check-in history  *)
(* at Foursquare, which keeps changing while the sync pages through it.    *)
(*                                                                         *)
(* A run reads the newest check-in time in the database, backs it off by   *)
(* 24 hours, and fetches everything later than that, newest first, in      *)
(* pages addressed by offset.  It stores each check-in as it goes, so the  *)
(* newest time in the database - the only thing the next run knows about   *)
(* this one - moves as soon as the first page is stored.                   *)
(*                                                                         *)
(* Time is in abstract ticks.  A check-in's createdAt is a positive tick,  *)
(* and 0 is "not posted".  What is stored here is the set of rows of the   *)
(* checkins table; what a row contains is the subject of FsqStore.         *)
(***************************************************************************)
EXTENDS Integers, FiniteSets

CONSTANTS
    Checkin,     \* the check-ins the owner may ever post
    Deletable,   \* those the owner may also delete again at Foursquare
    Limit,       \* the page size: 50 in the code
    Window,      \* the buffer a run re-reads: 24 hours in the code
    MaxLag,      \* how long after its createdAt a check-in can still appear
    MaxRun,      \* the longest a run's download takes
    MaxClock,    \* bound: the last tick of the clock
    MaxFaults    \* bound: how many runs stop before their end

(***************************************************************************)
(* The buffer must be longer than a late check-in and a slow download put  *)
(* together.  The code picks 24 hours for it; nothing in the code bounds   *)
(* the download, whose calls are retried for ever.                         *)
(***************************************************************************)
ASSUME FsqFetchAssumption ==
    /\ IsFiniteSet(Checkin)
    /\ Deletable \subseteq Checkin
    /\ Limit \in Nat \ {0}
    /\ Window \in Nat
    /\ MaxLag \in Nat
    /\ MaxRun \in Nat
    /\ MaxLag + MaxRun < Window
    /\ MaxClock \in Nat
    /\ MaxFaults \in Nat

VARIABLES
    clock,       \* the time
    posted,      \* Foursquare: createdAt of every check-in, 0 when not posted
    deleted,     \* Foursquare: the check-ins that were deleted again
    stored,      \* database: the check-ins that have a row
    pc,          \* where the run is
    since,       \* the run's afterTimestamp; 0 or less asks for everything
    fetched,     \* the run's offset into the listing
    batch,       \* items of the current page not upserted yet
    faults,      \* how many runs have stopped before their end
    \* What follows only records history; the code has no such state.
    owed,        \* the check-ins Foursquare had when this run started
    startedAt,   \* when this run started
    shrunk,      \* a check-in was deleted while this run was downloading
    gap          \* a run moved the newest time without reaching its last page

remoteVars == <<posted, deleted>>
runVars == <<pc, since, fetched, batch>>
histVars == <<owed, startedAt, shrunk, gap>>
vars == <<clock, remoteVars, stored, runVars, faults, histVars>>

-----------------------------------------------------------------------------
(* Foursquare, as the query of fetchCheckins sees it.                      *)

Live == {c \in Checkin : posted[c] > 0} \ deleted

\* afterTimestamp restricts the listing to what is later than since.
Listing == {c \in Live : posted[c] > since}

\* sort=newestfirst: an item's place is the number of newer items.
Newer(c) == {d \in Listing : posted[d] > posted[c]}
Rank(c) == Cardinality(Newer(c))

\* offset and limit cut a page out of the listing.
Page == {c \in Listing : fetched <= Rank(c) /\ Rank(c) < fetched + Limit}

-----------------------------------------------------------------------------
(* Last4sqCheckinTime: t is the newest stored time, 0 for an empty table.  *)
Last4sqCheckinTime(t) ==
    IF stored = {} THEN t = 0
    ELSE /\ \E c \in stored : t = posted[c]
         /\ \A c \in stored : posted[c] <= t

\* Mutant of Since: no buffer.
SinceUnbuffered(t) == t

\* The buffer is only taken off a time that is there.
Since(t) == IF t = 0 THEN 0 ELSE t - Window

\* Mutants of IsLastPage: never; or on any page that is not full.
NeverLastPage(page) == FALSE
ShortPageIsLast(page) == Cardinality(page) < Limit

\* The download ends on the first page without items.
IsLastPage(page) == page = {}

\* Mutants of NextOffset: one too far, or no advance at all.
NextOffsetSkipsOne(page) == fetched + Cardinality(page) + 1
NextOffsetStays(page) == fetched

NextOffset(page) == fetched + Cardinality(page)

\* The newest stored time is later than the one this run started from, so the
\* next run will not ask again for what this one did not get to.
WatermarkMoved == \E d \in stored : posted[d] - Window > since

-----------------------------------------------------------------------------
Init ==
    /\ clock = 1
    /\ posted = [c \in Checkin |-> 0]
    /\ deleted = {}
    /\ stored = {}
    /\ pc = "idle"
    /\ since = 0
    /\ fetched = 0
    /\ batch = {}
    /\ faults = 0
    /\ owed = {}
    /\ startedAt = 0
    /\ shrunk = FALSE
    /\ gap = FALSE

Downloading == pc \in {"fetch", "upsert"}

(* Time passes; a download is over within MaxRun.                          *)
Tick ==
    /\ clock < MaxClock
    /\ Downloading => clock < startedAt + MaxRun
    /\ clock' = clock + 1
    /\ UNCHANGED <<remoteVars, stored, runVars, faults, histVars>>

(* The owner checks in.  It may reach Foursquare up to MaxLag after its    *)
(* createdAt, and no two check-ins of one person have the same createdAt.  *)
Post(c) ==
    /\ posted[c] = 0
    /\ \E t \in (clock - MaxLag)..clock :
        /\ t > 0
        /\ \A d \in Checkin : posted[d] # t
        /\ posted' = [posted EXCEPT ![c] = t]
    /\ UNCHANGED <<clock, deleted, stored, runVars, faults, histVars>>

(* The owner deletes a check-in at Foursquare.  Everything older moves up  *)
(* one place in the listing.                                               *)
Delete(c) ==
    /\ c \in Live
    /\ deleted' = deleted \union {c}
    /\ shrunk' = (shrunk \/ Downloading)
    /\ UNCHANGED <<clock, posted, stored, runVars, faults, owed, startedAt, gap>>

(* run: the newest stored time, less the buffer, is where the fetch starts *)
StartRun ==
    /\ pc = "idle"
    /\ \E t \in {posted[c] : c \in stored} \union {0} :
        /\ Last4sqCheckinTime(t)
        /\ since' = Since(t)
    /\ pc' = "fetch"
    /\ fetched' = 0
    /\ owed' = Live
    /\ startedAt' = clock
    /\ shrunk' = FALSE
    /\ UNCHANGED <<clock, remoteVars, stored, batch, faults, gap>>

(* One turn of the loop of fetchCheckins: the first answer that is not an  *)
(* error (the call is retried until there is one), with items in it.  The  *)
(* offset is next read after the page is stored, so it is advanced here.   *)
FetchPage ==
    /\ pc = "fetch"
    /\ ~IsLastPage(Page)
    /\ batch' = Page
    /\ fetched' = NextOffset(Page)
    /\ pc' = "upsert"
    /\ UNCHANGED <<clock, remoteVars, stored, since, faults, histVars>>

(* The turn of the loop that gets no items: fetchCheckins returns.         *)
FetchEnd ==
    /\ pc = "fetch"
    /\ IsLastPage(Page)
    /\ pc' = "denormalise"
    /\ UNCHANGED <<clock, remoteVars, stored, since, fetched, batch, faults, histVars>>

(* The batch handler stores the items of a page in the page's order.       *)
Upsert ==
    /\ pc = "upsert"
    /\ \E c \in batch :
        /\ \A d \in batch : posted[d] <= posted[c]
        /\ stored' = stored \union {c}
        /\ batch' = batch \ {c}
        /\ pc' = IF batch = {c} THEN "fetch" ELSE "upsert"
    /\ UNCHANGED <<clock, remoteVars, since, fetched, faults, histVars>>

(* Sync4sqUsers and Sync4sqVenues succeed and the run returns nil.         *)
FinishRun ==
    /\ pc = "denormalise"
    /\ pc' = "idle"
    /\ gap' = (gap \/ (shrunk /\ WatermarkMoved))
    /\ UNCHANGED <<clock, remoteVars, stored, since, fetched, batch, faults,
                   owed, startedAt, shrunk>>

(* The run stops before its end: an answer or an item that does not decode *)
(* an error of an upsert, of Sync4sqUsers or Sync4sqVenues, or the process *)
(* is killed.  What was stored stays; everything else was local to run.    *)
StopRun ==
    /\ pc # "idle"
    /\ faults < MaxFaults
    /\ faults' = faults + 1
    /\ pc' = "idle"
    /\ batch' = {}
    /\ gap' = (gap \/ ((Downloading \/ shrunk) /\ WatermarkMoved))
    /\ UNCHANGED <<clock, remoteVars, stored, since, fetched, owed, startedAt, shrunk>>

Next ==
    \/ Tick
    \/ \E c \in Checkin : Post(c)
    \/ \E c \in Deletable : Delete(c)
    \/ StartRun
    \/ FetchPage
    \/ FetchEnd
    \/ Upsert
    \/ FinishRun
    \/ StopRun

(***************************************************************************)
(* The sync loop of serve starts a run every interval; Foursquare answers  *)
(* every call in the end; the database executes what it is given.  Nothing *)
(* obliges the owner to post or delete, or a run to fail.                  *)
(***************************************************************************)
Fairness ==
    /\ WF_vars(StartRun)
    /\ WF_vars(FetchPage)
    /\ WF_vars(FetchEnd)
    /\ WF_vars(Upsert)
    /\ WF_vars(FinishRun)

SafetySpec == Init /\ [][Next]_vars
Spec == SafetySpec /\ Fairness

-----------------------------------------------------------------------------
(* Properties.                                                             *)

\* The variables have their types, and a run is storing a page exactly while
\* items of the page are left: a page without items never reaches the handler.
TypeOK ==
    /\ clock \in Nat
    /\ posted \in [Checkin -> Nat]
    /\ deleted \subseteq Checkin
    /\ stored \subseteq Checkin
    /\ pc \in {"idle", "fetch", "upsert", "denormalise"}
    /\ since \in Int
    /\ fetched \in Nat
    /\ batch \subseteq Checkin
    /\ faults \in 0..MaxFaults
    /\ owed \subseteq Checkin
    /\ startedAt \in Nat
    /\ shrunk \in BOOLEAN
    /\ gap \in BOOLEAN
    /\ (pc = "upsert") = (batch # {})

\* Offset paging over a listing that grows under the run loses nothing: when
\* the download ends, every check-in that was there when it started and is
\* later than the run's start time has a row, unless one was deleted meanwhile.
RunCovers ==
    pc = "denormalise" /\ ~shrunk
        => \A c \in owed : posted[c] > since => c \in stored

\* The 24 hours are enough: between runs, everything at Foursquare that has no
\* row yet is late enough for the next run to ask for it, as long as no run
\* moved the newest stored time and then failed to reach its last page.
BufferSuffices ==
    pc = "idle" /\ ~gap
        => \A c \in Live \ stored, d \in stored : posted[c] > posted[d] - Window

\* A run that follows only complete ones leaves no check-in behind that was at
\* Foursquare when it started, however old that check-in is.
NothingMissed ==
    pc = "denormalise" /\ ~gap /\ ~shrunk => owed \subseteq stored

\* What the comment in run says of the buffer, "to avoid missing checkins"
\* (main_4sqimport.go:69): a completed download has everything there was.
\* The code does not keep it after a run that was interrupted.
CompletedRunMissesNothing ==
    pc = "denormalise" /\ ~shrunk => owed \subseteq stored

\* A check-in posted at Foursquare ends up in the database, unless it is
\* deleted there, or an interrupted run has left a gap.
PostedIsStored ==
    \A c \in Checkin :
        posted[c] > 0 ~> (c \in stored \/ c \in deleted \/ gap)

\* Every run comes to an end although its listing can grow while it pages.
RunEnds == pc # "idle" ~> pc = "idle"

-----------------------------------------------------------------------------
Phase ==
    CASE pc = "idle" -> "idle"
      [] pc = "denormalise" -> "complete"
      [] Downloading -> "copying"

\* The download as the abstract specification sees it.
Sync ==
    INSTANCE Mirror WITH
        Item <- Checkin, LateLoses <- FALSE,
        history <- Live, copy <- stored, page <- batch, phase <- Phase,
        owed <- owed, torn <- shrunk, lost <- gap

\* The download implements a mirror of the history: whatever pages and offsets
\* it takes, rows only appear for items it has read, and fetchCheckins returns
\* nil only when nothing is missing, a late check-in never being the reason.
ImplementsMirror == Sync!Spec
=============================================================================
