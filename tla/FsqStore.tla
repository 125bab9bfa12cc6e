------------------------------ MODULE FsqStore ------------------------------
(***************************************************************************)
(* The storing half of the Foursquare sync: what fsqSyncCommand.run does   *)
(* to the database with Upsert4sqCheckin, Sync4sqUsers and Sync4sqVenues   *)
(* (sql_checkin.go), when several processes do it at the same time: the    *)
(* sync loop of a server, and 4sqsync started by hand or by cron.          *)
(*                                                                         *)
(* A checkin row keeps the raw item Foursquare sent.  Everything the site  *)
(* shows - the venue, the people - is derived from the raw items of all    *)
(* rows by the two Sync steps.  Sync4sqUsers is one transaction, of the    *)
(* deferred kind: it reads from the snapshot its query took, and cannot    *)
(* write once another connection has committed since.  Sync4sqVenues is    *)
(* none: its query also reads a snapshot, but every statement of its loop  *)
(* sees and changes the database as it is by then.                         *)
(*                                                                         *)
(* One step is one statement (or the writing half of the transaction), the *)
(* database being in WAL mode.  Check-ins are numbered by createdAt.       *)
(***************************************************************************)
EXTENDS Integers, Sequences, FiniteSets, FiniteSetsExt

CONSTANTS
    Loop,        \* the servers: a run after every interval
    Cli,         \* the invocations of 4sqsync: one run each
    N,           \* how many check-ins are ever posted
    Person,      \* the people the owner checks in with
    Venue,       \* the venues
    With,        \* the people of every check-in
    MaxEdits,    \* bound: how often something changes at Foursquare
    MaxFaults,   \* bound: how many runs stop before their end
    NoId         \* the id of a venue without a row

Proc == Loop \union Cli
Checkin == 1..N

ASSUME FsqStoreAssumption ==
    /\ Loop \intersect Cli = {}
    /\ N \in Nat \ {0}
    /\ With \in [Checkin -> SUBSET Person]
    /\ IsFiniteSet(Person)
    /\ Venue # {}
    /\ MaxEdits \in Nat
    /\ MaxFaults \in Nat
    /\ NoId \notin Proc

VARIABLES
    \* Foursquare
    at,          \* the venues of the check-ins there are, oldest first
    name,        \* everyone's name: how often it was changed, from 1
    edits,
    \* the database
    order,       \* checkins: the rows, in the order they were inserted
    raw,         \* checkins.fsq_raw
    venueRef,    \* checkins.venue_id, with the venue that id was meant for
    venueId,     \* venues.id of every venue with a row
    people,      \* people.name, 0 without a row
    links,       \* checkin_people
    \* the runs
    pc,          \* where a run is
    batch,       \* items of the page not upserted yet
    snap,        \* what the query of a Sync step has still to return
    vid,         \* venueID of Sync4sqVenues
    stale,       \* another connection has written since snap was read
    ran,         \* the invocations of Cli that have started
    faults,
    \* What follows only records history; the code has no such state.
    todo,        \* the rows there were when the run's Sync4sqUsers began
    alone        \* no other connection has written since the run began

remoteVars == <<at, name, edits>>
checkinVars == <<order, raw>>
derivedVars == <<venueRef, venueId, people, links>>
dbVars == <<checkinVars, derivedVars>>
runVars == <<pc, batch, snap, vid>>
seenVars == <<stale, alone, todo>>
vars == <<remoteVars, dbVars, runVars, seenVars, ran, faults>>

-----------------------------------------------------------------------------
Stored == {order[i] : i \in DOMAIN order}

\* venue_id is null until Sync4sqVenues has been at the row.
NoRef == [venue |-> CHOOSE v \in Venue : TRUE, id |-> NoId]

\* An item as Foursquare sends it: the venue, and everyone's present name.
Item(c) == [venue |-> at[c], names |-> [x \in With[c] |-> name[x]]]

\* Mutant: a second row for a check-in that has one, no "on conflict".
AlwaysInsert(c) == Append(order, c)

\* insert ... on conflict(fsq_id) do update: a row keeps its place and its id.
RowsAfterUpsert(c) == IF c \in Stored THEN order ELSE Append(order, c)

\* select id, fsq_raw from checkins where fsq_id is not null: a scan of the
\* table, which returns the rows in the order they were inserted.
AllRows == [i \in DOMAIN order |-> [id |-> order[i], raw |-> raw[order[i]]]]

\* Mutants: a rows.Next too many; or only the rows without a venue.
SkipFirstRow == IF order = <<>> THEN <<>> ELSE Tail(AllRows)
RowsWithoutVenue ==
    SelectSeq(AllRows, LAMBDA r : venueRef[r.id].id = NoId)

\* The rows Sync4sqVenues works through: all of them, on every run.
VenueRows == AllRows

\* The rows of t whose item names x.  The loop updates x at each of them.
Naming(t, x) == {i \in DOMAIN t : x \in DOMAIN t[i].raw.names}

\* on conflict(fsq_id) do update set name: the last row of the loop wins.
NameAfter(t, x) ==
    IF Naming(t, x) = {} THEN people[x] ELSE t[Max(Naming(t, x))].raw.names[x]

LinksOf(t) == UNION {{t[i].id} \X DOMAIN t[i].raw.names : i \in DOMAIN t}

\* Mutant: no look for an existing venue.
AlwaysNewId(p, v) == p

\* select id from venues where fsq_id=$1, or a new one.  Ids are told apart by
\* the process that made them: one that was never inserted is never seen again.
VenueIdFor(p, v) == IF venueId[v] = NoId THEN p ELSE venueId[v]

\* Mutant: the connection string without _foreign_keys=on.
ForeignKeysOff(v, id) == TRUE

\* foreign key(venue_id) references venues(id), enforced.
ForeignKeyHolds(v, id) == venueId[v] = id

\* What the index page reads: a row is shown with its venue, or not at all (an
\* inner join), and with those of its people who have an entry.
GetCheckins ==
    {[id |-> c, venue |-> venueRef[c].venue,
      with |-> {x \in Person : <<c, x>> \in links /\ people[x] # 0}] :
        c \in {d \in Stored : /\ venueRef[d].id # NoId
                             /\ venueId[venueRef[d].venue] = venueRef[d].id}}

\* p's statement has written to the database.
Wrote(p) ==
    /\ stale' = [q \in Proc |-> stale[q] \/ (q # p /\ pc[q] = "link")]
    /\ alone' = [q \in Proc |-> alone[q] /\ (q = p \/ pc[q] = "idle")]
    /\ UNCHANGED todo

Goto(p, l) == pc' = [pc EXCEPT ![p] = l]

\* Everything a run knows is local to it.
EndRun(p) ==
    /\ Goto(p, "idle")
    /\ batch' = [batch EXCEPT ![p] = <<>>]
    /\ snap' = [snap EXCEPT ![p] = <<>>]
    /\ vid' = [vid EXCEPT ![p] = NoId]
    /\ stale' = [stale EXCEPT ![p] = FALSE]
    /\ alone' = [alone EXCEPT ![p] = TRUE]
    /\ todo' = [todo EXCEPT ![p] = {}]

-----------------------------------------------------------------------------
Init ==
    /\ at = <<>>
    /\ name = [x \in Person |-> 1]
    /\ edits = 0
    /\ order = <<>>
    /\ raw = <<>>
    /\ venueRef = <<>>
    /\ venueId = [v \in Venue |-> NoId]
    /\ people = [x \in Person |-> 0]
    /\ links = {}
    /\ pc = [p \in Proc |-> "idle"]
    /\ batch = [p \in Proc |-> <<>>]
    /\ snap = [p \in Proc |-> <<>>]
    /\ vid = [p \in Proc |-> NoId]
    /\ stale = [p \in Proc |-> FALSE]
    /\ ran = {}
    /\ faults = 0
    /\ todo = [p \in Proc |-> {}]
    /\ alone = [p \in Proc |-> TRUE]

(* The owner checks in.                                                    *)
Post(v) ==
    /\ Len(at) < N
    /\ at' = Append(at, v)
    /\ UNCHANGED <<name, edits, dbVars, runVars, seenVars, ran, faults>>

(* Somebody changes their name, or a check-in is moved to another venue.   *)
Rename(x) ==
    /\ edits < MaxEdits
    /\ edits' = edits + 1
    /\ name' = [name EXCEPT ![x] = @ + 1]
    /\ UNCHANGED <<at, dbVars, runVars, seenVars, ran, faults>>

Move(c, v) ==
    /\ edits < MaxEdits
    /\ at[c] # v
    /\ edits' = edits + 1
    /\ at' = [at EXCEPT ![c] = v]
    /\ UNCHANGED <<name, dbVars, runVars, seenVars, ran, faults>>

(* A run reads where to start and downloads the listing from there.  With  *)
(* rows in the table that is never after the newest of them; how far       *)
(* before depends on the 24 hours, and the pages are taken as one here.    *)
StartRun(p) ==
    /\ pc[p] = "idle"
    /\ p \in Cli => p \notin ran
    /\ \E k \in 1..N :
        /\ IF order = <<>> THEN k = 1 ELSE \E c \in Stored : k <= c
        /\ batch' = [batch EXCEPT ![p] = [c \in k..Len(at) |-> Item(c)]]
    /\ ran' = ran \union ({p} \intersect Cli)
    /\ Goto(p, "upsert")
    /\ UNCHANGED <<remoteVars, dbVars, snap, vid, seenVars, faults>>

(* Upsert4sqCheckin, newest item first.                                    *)
Upsert(p) ==
    /\ pc[p] = "upsert"
    /\ DOMAIN batch[p] # {}
    /\ LET c == Max(DOMAIN batch[p])
           rest == DOMAIN batch[p] \ {c}
       IN /\ order' = RowsAfterUpsert(c)
          /\ raw' = [d \in DOMAIN raw \union {c} |->
                        IF d = c THEN batch[p][c] ELSE raw[d]]
          /\ batch' = [batch EXCEPT ![p] = [d \in rest |-> @[d]]]
          /\ venueRef' = [d \in DOMAIN raw \union {c} |->
                             IF d \in DOMAIN raw THEN venueRef[d]
                             ELSE NoRef]
    /\ Wrote(p)
    /\ UNCHANGED <<remoteVars, venueId, people, links, pc, snap, vid, ran, faults>>

(* Sync4sqUsers begins its transaction: the query takes its snapshot.      *)
UsersBegin(p) ==
    /\ pc[p] = "upsert"
    /\ DOMAIN batch[p] = {}
    /\ snap' = [snap EXCEPT ![p] = AllRows]
    /\ stale' = [stale EXCEPT ![p] = FALSE]
    /\ todo' = [todo EXCEPT ![p] = Stored]
    /\ Goto(p, "link")
    /\ UNCHANGED <<remoteVars, dbVars, batch, vid, alone, ran, faults>>

(* The loop of Sync4sqUsers, and its commit.  From its first write on the  *)
(* transaction keeps every other writer out, so the loop is one step.      *)
UsersCommit(p) ==
    /\ pc[p] = "link"
    /\ ~stale[p]
    /\ LinksOf(snap[p]) # {}
    /\ people' = [x \in Person |-> NameAfter(snap[p], x)]
    /\ links' = links \union LinksOf(snap[p])
    /\ snap' = [snap EXCEPT ![p] = <<>>]
    /\ Goto(p, "venues")
    /\ Wrote(p)
    /\ UNCHANGED <<remoteVars, checkinVars, venueRef, venueId, batch, vid, ran,
                   faults>>

(* No row names anyone: the transaction never writes.                      *)
UsersNothingToDo(p) ==
    /\ pc[p] = "link"
    /\ LinksOf(snap[p]) = {}
    /\ snap' = [snap EXCEPT ![p] = <<>>]
    /\ Goto(p, "venues")
    /\ UNCHANGED <<remoteVars, dbVars, batch, vid, seenVars, ran, faults>>

(* The first write of a transaction whose snapshot is no longer the newest *)
(* fails (SQLITE_BUSY_SNAPSHOT), and waiting would not help.               *)
UsersBusy(p) ==
    /\ pc[p] = "link"
    /\ stale[p]
    /\ LinksOf(snap[p]) # {}
    /\ EndRun(p)
    /\ UNCHANGED <<remoteVars, dbVars, ran, faults>>

(* Sync4sqVenues runs its query.                                           *)
VenuesBegin(p) ==
    /\ pc[p] = "venues"
    /\ snap' = [snap EXCEPT ![p] = VenueRows]
    /\ Goto(p, "select")
    /\ UNCHANGED <<remoteVars, dbVars, batch, vid, seenVars, ran, faults>>

(* A row of it: is there a venue?                                          *)
VenueSelect(p) ==
    /\ pc[p] = "select"
    /\ snap[p] # <<>>
    /\ vid' = [vid EXCEPT ![p] = VenueIdFor(p, Head(snap[p]).raw.venue)]
    /\ Goto(p, "venue")
    /\ UNCHANGED <<remoteVars, dbVars, batch, snap, seenVars, ran, faults>>

(* insert into venues ... on conflict(fsq_id) do update: an existing row   *)
(* keeps its id, whatever id was inserted.                                 *)
VenueUpsert(p) ==
    /\ pc[p] = "venue"
    /\ LET v == Head(snap[p]).raw.venue
       IN venueId' = [venueId EXCEPT ![v] = IF @ = NoId THEN vid[p] ELSE @]
    /\ Goto(p, "checkin")
    /\ Wrote(p)
    /\ UNCHANGED <<remoteVars, checkinVars, venueRef, people, links, batch, snap,
                   vid, ran, faults>>

(* update checkins set venue_id=? where id=?                               *)
VenueUpdate(p) ==
    /\ pc[p] = "checkin"
    /\ LET v == Head(snap[p]).raw.venue
       IN /\ ForeignKeyHolds(v, vid[p])
          /\ venueRef' = [venueRef EXCEPT ![Head(snap[p]).id] =
                             [venue |-> v, id |-> vid[p]]]
    /\ snap' = [snap EXCEPT ![p] = Tail(@)]
    /\ vid' = [vid EXCEPT ![p] = NoId]
    /\ Goto(p, "select")
    /\ Wrote(p)
    /\ UNCHANGED <<remoteVars, checkinVars, venueId, people, links, batch, ran, faults>>

(* The id is not one of a venue: the update fails, and with it the run.    *)
VenueRefused(p) ==
    /\ pc[p] = "checkin"
    /\ ~ForeignKeyHolds(Head(snap[p]).raw.venue, vid[p])
    /\ EndRun(p)
    /\ UNCHANGED <<remoteVars, dbVars, ran, faults>>

FinishRun(p) ==
    /\ pc[p] = "select"
    /\ snap[p] = <<>>
    /\ EndRun(p)
    /\ UNCHANGED <<remoteVars, dbVars, ran, faults>>

(* Anything else that ends a run: an error of a statement or of Foursquare *)
(* (a transaction is rolled back), or the end of the process.              *)
StopRun(p) ==
    /\ pc[p] # "idle"
    /\ faults < MaxFaults
    /\ faults' = faults + 1
    /\ EndRun(p)
    /\ UNCHANGED <<remoteVars, dbVars, ran>>

\* What a run does by itself once it has started.
Continue(p) ==
    \/ Upsert(p)
    \/ UsersBegin(p)
    \/ UsersCommit(p)
    \/ UsersNothingToDo(p)
    \/ UsersBusy(p)
    \/ VenuesBegin(p)
    \/ VenueSelect(p)
    \/ VenueUpsert(p)
    \/ VenueUpdate(p)
    \/ VenueRefused(p)
    \/ FinishRun(p)

Next ==
    \/ \E v \in Venue : Post(v)
    \/ \E x \in Person : Rename(x)
    \/ \E c \in DOMAIN at, v \in Venue : Move(c, v)
    \/ \E p \in Proc : StartRun(p) \/ Continue(p) \/ StopRun(p)

(***************************************************************************)
(* The loop of a server starts runs for ever, and a run that has started   *)
(* gets its statements executed.  Nobody has to start 4sqsync.             *)
(***************************************************************************)
Fairness ==
    /\ \A p \in Loop : WF_vars(StartRun(p))
    /\ \A p \in Proc : WF_vars(Continue(p))

SafetySpec == Init /\ [][Next]_vars
Spec == SafetySpec /\ Fairness

-----------------------------------------------------------------------------
(* Properties.                                                             *)

\* The variables have their types, every check-in has at most one row, and
\* rows, raw items and ids belong together.
TypeOK ==
    /\ at \in Seq(Venue)
    /\ Len(at) <= N
    /\ name \in [Person -> 1..(MaxEdits + 1)]
    /\ edits \in 0..MaxEdits
    /\ order \in Seq(Checkin)
    /\ Len(order) = Cardinality(Stored)
    /\ DOMAIN raw = Stored
    /\ \A c \in Stored : /\ raw[c].venue \in Venue
                         /\ raw[c].names \in [With[c] -> 1..(MaxEdits + 1)]
    /\ venueRef \in [Stored -> [venue : Venue, id : Proc \union {NoId}]]
    /\ venueId \in [Venue -> Proc \union {NoId}]
    /\ people \in [Person -> 0..(MaxEdits + 1)]
    /\ links \subseteq Checkin \X Person
    /\ pc \in [Proc -> {"idle", "upsert", "link", "venues", "select", "venue", "checkin"}]
    /\ \A p \in Proc : /\ DOMAIN batch[p] \subseteq Checkin
                       /\ \A i \in DOMAIN snap[p] : snap[p][i].id \in Stored
    /\ vid \in [Proc -> Proc \union {NoId}]
    /\ stale \in [Proc -> BOOLEAN]
    /\ ran \subseteq Cli
    /\ faults \in 0..MaxFaults
    /\ todo \in [Proc -> SUBSET Checkin]
    /\ alone \in [Proc -> BOOLEAN]

\* The venue of a row, if it has one, is there under the id the row has: two
\* runs that both found a venue missing cannot leave a row pointing nowhere.
ReferencesResolve ==
    \A c \in Stored :
        venueRef[c].id # NoId => venueRef[c].id = venueId[venueRef[c].venue]

Complete(p) == pc[p] = "select" /\ snap[p] = <<>>

\* After a run that gets to its end the index page shows every row there was,
\* with a venue and all its people: those rows included that an earlier run
\* stored and then failed, and whatever other runs did meanwhile.
RunDenormalises ==
    \A p \in Proc : Complete(p) =>
        \A c \in todo[p] : \E s \in GetCheckins : s.id = c /\ With[c] \subseteq s.with

\* When nothing else wrote during a run, the venue of every row is the one of
\* its raw item, also of a check-in that was moved after it had a venue.
RunMatchesRaw ==
    \A p \in Proc : Complete(p) /\ alone[p] =>
        \A c \in Stored : venueRef[c] = [venue |-> raw[c].venue,
                                         id |-> venueId[raw[c].venue]]

Denormalised ==
    \A c \in Stored :
        [id |-> c, venue |-> raw[c].venue, with |-> With[c]] \in GetCheckins

\* Runs disturb each other: one fails on a venue the other inserted first, one
\* puts the venue back that its snapshot had.  The sync loop repairs all that:
\* once Foursquare, the faults and the invocations of 4sqsync are over, what
\* the index page shows of a row is what its raw item says.
Converges == <>[]Denormalised

\* Sync4sqUsers "ensures there are up-to-date user entries" for all check-ins
\* (sql_checkin.go:43): no row has a newer name than the entry.
NamesUpToDate ==
    \A p \in Proc : Complete(p) /\ alone[p] =>
        \A c \in Stored : \A x \in With[c] : raw[c].names[x] <= people[x]
=============================================================================
