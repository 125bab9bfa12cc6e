----------------------------- MODULE Locations ------------------------------
(***************************************************************************)
(* The table device_locations: a phone running OwnTracks that publishes to *)
(* /pub (owntracks.go), a takeout file that takeoutimport puts into the    *)
(* same table (main_takeoutimport.go), and those who read the table: the   *)
(* metrics and the index page.                                             *)
(*                                                                         *)
(* A message is one insert and one answer.  The phone sends it again until *)
(* it is answered "ok", and the table has no key by which a repeated one   *)
(* would be known.  A file is one transaction, which keeps every other     *)
(* writer out from its first insert to its end; a publish that waits for   *)
(* it longer than the busy timeout fails.                                  *)
(*                                                                         *)
(* Left out: what a location says besides its time and whether it has an   *)
(* accuracy; fractions of a tick; the filter of the index by accuracy; any *)
(* other writer of the database.                                           *)
(***************************************************************************)
EXTENDS Integers, Sequences

CONSTANTS
    Message,         \* what the phone may publish
    Kind,            \* "location", "bare" (a location without acc), "broken"
                     \* (not decodable) or "other" (not a location, or empty)
    File,            \* takeout files: sequences of [time, valid] records
    DayLength,       \* ticks in a day
    Window,          \* how many of them the index page goes back by default
    StandardOffset,  \* of the zone of the server's process, in ticks
    Shift,           \* what summer time adds to it
    ChangeAt,        \* the first tick of standard time
    MaxClock,        \* bound: the last tick of the clock
    MaxImports,      \* bound: how many imports are started
    MaxFaults        \* bound: lost answers, crashes and killed imports

ASSUME LocationsAssumption ==
    /\ Kind \in [Message -> {"location", "bare", "broken", "other"}]
    /\ \A f \in File :
        /\ f \in Seq([time : Nat, valid : BOOLEAN])
        /\ f # << >>
    /\ DayLength \in Nat \ {0}
    /\ StandardOffset \in Int
    /\ Window \in Nat
    /\ Shift \in Nat
    /\ Shift < DayLength - 1
    /\ ChangeAt \in Nat
    /\ MaxClock \in Nat
    /\ MaxImports \in Nat
    /\ MaxFaults \in Nat

VARIABLES
    clock,       \* the time
    tst,         \* phone: the time of every message
    phone,       \* where a message is between the phone and its handler
    orphans,     \* requests for a message whose answer nobody waits for
    rows,        \* database: how many rows a message has
    file,        \* import: the file being imported, or NoFile
    at,          \* import: the place in the file
    pending,     \* import: places inserted by its open transaction
    copies,      \* database: how many rows every record of every file has
    imports,     \* how many imports were started
    faults,      \* how many faults there were
    \* What follows only records history; the code has no such state.
    lost         \* requests for a message whose answer the phone never got

publishVars == <<phone, orphans, rows, lost>>
importVars == <<file, at, pending, copies>>
vars == <<clock, tst, publishVars, importVars, imports, faults>>

NoFile == << >>

-----------------------------------------------------------------------------
(* HandlePublish.                                                          *)

\* The import's transaction has written, and has not ended.
Locked == pending # {}

\* Mutant of IsLocation: the type is compared with something else.
IsNeverLocation(m) == FALSE

\* Everything else is answered "ok" and forgotten.
IsLocation(m) == Kind[m] # "other"

\* AddOTLocation succeeds: one insert, on its own.
AddOTLocation(m) == Kind[m] \in {"location", "bare"} /\ ~Locked

\* Mutants of Answer: no return after the error; the test the wrong way round.
AnswerOkAnyway(m) == "ok"
AnswerReversed(m) ==
    IF IsLocation(m) /\ AddOTLocation(m) THEN "failed" ELSE "ok"

Answer(m) == IF IsLocation(m) /\ ~AddOTLocation(m) THEN "failed" ELSE "ok"

RowsAfter(m) ==
    IF IsLocation(m) /\ AddOTLocation(m) THEN [rows EXCEPT ![m] = @ + 1] ELSE rows

-----------------------------------------------------------------------------
(* AddGoogleTakeoutLocations.                                              *)

\* Rows of the file being imported once those at the places ks are there too.
WithPlaces(ks) ==
    [copies EXCEPT ![file] =
        [k \in DOMAIN @ |-> IF k \in ks THEN @[k] + 1 ELSE @[k]]]

\* Mutant of Inserted: without a transaction, a row is there when inserted.
InsertedAtOnce(k) == [copies |-> WithPlaces({k}), pending |-> {}]

\* An insert is seen by the transaction only.
Inserted(k) == [copies |-> copies, pending |-> pending \union {k}]

-----------------------------------------------------------------------------
(* The readers.  A time is stored as text: local time, then the offset,    *)
(* and text is what is compared.  "+" comes before "-".                    *)

Offset(t) == StandardOffset + (IF t < ChangeAt THEN Shift ELSE 0)
Local(t) == t + Offset(t)
OffsetText(o) == IF o >= 0 THEN o ELSE DayLength - o
Text(t) == <<Local(t), OffsetText(Offset(t))>>
TextLess(x, y) == x[1] < y[1] \/ (x[1] = y[1] /\ x[2] < y[2])

\* The rows as the readers see them; how often a row is there does not matter.
Readings ==
    {[time |-> tst[m], bare |-> Kind[m] = "bare"] : m \in {n \in Message : rows[n] > 0}}
    \union UNION {{[time |-> f[k].time, bare |-> FALSE] :
                    k \in {j \in DOMAIN f : copies[f][j] > 0}} : f \in File}

\* Mutant of LatestLocationTimestamp: "order by timestamp" without desc.
EarliestLocationTimestamp(t) ==
    /\ \E r \in Readings : r.time = t
    /\ \A r \in Readings : ~TextLess(Text(r.time), Text(t))

\* t is the time whose text comes last.
LatestLocationTimestamp(t) ==
    /\ \E r \in Readings : r.time = t
    /\ \A r \in Readings : ~TextLess(Text(t), Text(r.time))

RecentLocations(from, to) ==
    {r \in Readings : TextLess(from, Text(r.time)) /\ TextLess(Text(r.time), to)}

\* Scanning a null accuracy into an int is an error, of the whole page.
ScanFails(rl) == \E r \in rl : r.bare

\* Mutant of EndOf: the 24 hours are not added.
NotMoved(t) == t

\* Where a range ends that is asked to go up to t: 24 hours later, less a tick.
EndOf(t) == t + DayLength - 1

\* The days of a query are parsed as UTC: their text ends in "+00:00".
StartOfDay(d) == <<d * DayLength, 0>>
EndOfDay(d) == <<EndOf(d * DayLength), 0>>

Index(fromDay, toDay) == RecentLocations(StartOfDay(fromDay), EndOfDay(toDay))

\* Without a query both bounds are times of the server's clock.
DefaultIndex == RecentLocations(Text(clock - Window), Text(EndOf(clock)))

-----------------------------------------------------------------------------
Init ==
    /\ clock = 1
    /\ tst = [m \in Message |-> 0]
    /\ phone = [m \in Message |-> "none"]
    /\ orphans = [m \in Message |-> 0]
    /\ rows = [m \in Message |-> 0]
    /\ file = NoFile
    /\ at = 1
    /\ pending = {}
    /\ copies = [f \in File |-> [k \in DOMAIN f |-> 0]]
    /\ imports = 0
    /\ faults = 0
    /\ lost = [m \in Message |-> 0]

Fault ==
    /\ faults < MaxFaults
    /\ faults' = faults + 1

Tick ==
    /\ clock < MaxClock
    /\ clock' = clock + 1
    /\ UNCHANGED <<tst, publishVars, importVars, imports, faults>>

(* The phone makes a message, of now, and queues it.                       *)
Take(m) ==
    /\ phone[m] = "none"
    /\ phone' = [phone EXCEPT ![m] = "due"]
    /\ tst' = [tst EXCEPT ![m] = clock]
    /\ UNCHANGED <<clock, orphans, rows, lost, importVars, imports, faults>>

Moves(m, from, to) ==
    /\ phone[m] = from
    /\ phone' = [phone EXCEPT ![m] = to]

(* The phone posts a message; one that failed it posts again, or gives up. *)
Send(m) ==
    /\ Moves(m, "due", "sent")
    /\ UNCHANGED <<clock, tst, orphans, rows, lost, importVars, imports, faults>>

Retry(m) ==
    /\ Moves(m, "failed", "due")
    /\ UNCHANGED <<clock, tst, orphans, rows, lost, importVars, imports, faults>>

Drop(m) ==
    /\ Moves(m, "failed", "dropped")
    /\ UNCHANGED <<clock, tst, orphans, rows, lost, importVars, imports, faults>>

(* The phone gets the answer "ok", and forgets the message.                *)
Acknowledge(m) ==
    /\ Moves(m, "ok", "done")
    /\ UNCHANGED <<clock, tst, orphans, rows, lost, importVars, imports, faults>>

(* A request is handled: the message is stored, or not, and answered.      *)
HandlePublish(m) ==
    /\ Moves(m, "sent", Answer(m))
    /\ rows' = RowsAfter(m)
    /\ UNCHANGED <<clock, tst, orphans, lost, importVars, imports, faults>>

(* The phone gives up waiting; the request goes on without it.             *)
Timeout(m) ==
    /\ Fault
    /\ Moves(m, "sent", "due")
    /\ orphans' = [orphans EXCEPT ![m] = @ + 1]
    /\ lost' = [lost EXCEPT ![m] = @ + 1]
    /\ UNCHANGED <<clock, tst, rows, importVars, imports>>

(* ... until it is handled, or its context is cancelled before the insert. *)
HandleOrphan(m) ==
    /\ orphans[m] > 0
    /\ orphans' = [orphans EXCEPT ![m] = @ - 1]
    /\ rows' \in {rows, RowsAfter(m)}
    /\ UNCHANGED <<clock, tst, phone, lost, importVars, imports, faults>>

(* An answer does not reach the phone.                                     *)
LoseAnswer(m) ==
    /\ Fault
    /\ phone[m] \in {"ok", "failed"}
    /\ phone' = [phone EXCEPT ![m] = "due"]
    /\ lost' = [lost EXCEPT ![m] = @ + 1]
    /\ UNCHANGED <<clock, tst, orphans, rows, importVars, imports>>

(* The server's process ends and is started again.                         *)
Crash ==
    /\ Fault
    /\ LET open == {m \in Message : phone[m] \in {"sent", "ok", "failed"}}
       IN  /\ phone' = [m \in Message |-> IF m \in open THEN "due" ELSE phone[m]]
           /\ lost' = [m \in Message |-> IF m \in open THEN lost[m] + 1 ELSE lost[m]]
    /\ orphans' = [m \in Message |-> 0]
    /\ UNCHANGED <<clock, tst, rows, importVars, imports>>

(* takeoutimport has parsed a file and begins its transaction.             *)
StartImport(f) ==
    /\ file = NoFile
    /\ imports < MaxImports
    /\ \A k \in DOMAIN f : f[k].time <= clock
    /\ imports' = imports + 1
    /\ file' = f
    /\ at' = 1
    /\ UNCHANGED <<clock, tst, publishVars, pending, copies, faults>>

InsertRecord ==
    /\ file # NoFile
    /\ at <= Len(file)
    /\ file[at].valid
    /\ copies' = Inserted(at).copies
    /\ pending' = Inserted(at).pending
    /\ at' = at + 1
    /\ UNCHANGED <<clock, tst, publishVars, file, imports, faults>>

CommitImport ==
    /\ file # NoFile
    /\ at > Len(file)
    /\ copies' = WithPlaces(pending)
    /\ pending' = {}
    /\ file' = NoFile
    /\ UNCHANGED <<clock, tst, publishVars, at, imports, faults>>

Rollback ==
    /\ file # NoFile
    /\ pending' = {}
    /\ file' = NoFile
    /\ UNCHANGED <<clock, tst, publishVars, at, copies, imports>>

(* A record that is off the map, has no raw text or no number for a time.  *)
RejectRecord ==
    /\ at <= Len(file)
    /\ ~file[at].valid
    /\ Rollback
    /\ UNCHANGED faults

(* An insert or the commit fails, or the import is killed.                 *)
StopImport == Fault /\ Rollback

Next ==
    \/ Tick
    \/ \E m \in Message :
        \/ Take(m) \/ Send(m) \/ Retry(m) \/ Drop(m) \/ Acknowledge(m)
        \/ HandlePublish(m) \/ Timeout(m) \/ HandleOrphan(m) \/ LoseAnswer(m)
    \/ Crash
    \/ \E f \in File : StartImport(f)
    \/ InsertRecord \/ CommitImport \/ RejectRecord
    \/ StopImport

(***************************************************************************)
(* The phone sends what is due and tries again; the server answers; an     *)
(* import goes on.  Nobody has to take a message, start an import, or drop *)
(* a message.                                                              *)
(***************************************************************************)
Fairness ==
    /\ \A m \in Message :
        /\ WF_vars(Send(m))
        /\ WF_vars(Retry(m))
        /\ WF_vars(Acknowledge(m))
        /\ WF_vars(HandlePublish(m))
    /\ WF_vars(InsertRecord)
    /\ WF_vars(CommitImport)
    /\ WF_vars(RejectRecord)

SafetySpec == Init /\ [][Next]_vars
Spec == SafetySpec /\ Fairness

-----------------------------------------------------------------------------
(* Properties.                                                             *)

\* The variables have their types; the open transaction holds exactly the
\* records before the import's place, and none when no import is running.
TypeOK ==
    /\ clock \in Nat
    /\ tst \in [Message -> Nat]
    /\ phone \in [Message -> {"none", "due", "sent", "ok", "failed", "done", "dropped"}]
    /\ orphans \in [Message -> Nat]
    /\ rows \in [Message -> Nat]
    /\ lost \in [Message -> Nat]
    /\ imports \in Nat
    /\ faults \in 0..MaxFaults
    /\ file \in File \union {NoFile}
    /\ at \in Nat \ {0}
    /\ DOMAIN copies = File
    /\ \A f \in File : copies[f] \in [DOMAIN f -> Nat]
    /\ pending = IF file = NoFile THEN {} ELSE 1..(at - 1)
    /\ file # NoFile => at <= Len(file) + 1

\* What the phone was told is done is in the table: a location answered "ok"
\* has a row, whatever was retried, answered into the void, or lost with a
\* crash, and also while an import keeps the table locked.
AcknowledgedIsStored ==
    \A m \in Message :
        phone[m] = "done" /\ Kind[m] \in {"location", "bare"} => rows[m] >= 1

\* Whether the phone has, or is about to have, the answer "ok" to a message.
Answered(m) == IF phone[m] \in {"ok", "done"} THEN 1 ELSE 0

\* The table has no key, so a message may have several rows, but each one
\* too many is owed to an answer that did not arrive: the answers that do
\* arrive say truly whether there is a row.
OneRowPerLostAnswer == \A m \in Message : rows[m] <= lost[m] + Answered(m)

\* An import is all or nothing, wherever it stops: the records of a file have
\* the same number of rows.
ImportWhole ==
    \A f \in File : \A j, k \in DOMAIN f : copies[f][j] = copies[f][k]

\* The age of the newest location, as the metrics have it, is too old by no
\* more than what the clocks were changed by, although text is compared.
LatestWithinShift ==
    \A s \in Readings :
        LatestLocationTimestamp(s.time)
            => \A r \in Readings : r.time <= s.time + Shift

\* The index page shows what its range says.  A day that is asked for is a day
\* of the server's clock, not of UTC as which the bounds are parsed: all of its
\* locations are shown and no others, but for those of the last tick of the
\* last day (the page should "make it to the end", web.go:104) and, where the
\* clock is at UTC, of the first tick of the first.  Without a query it shows
\* everything of the time of Window up to now, around its start to within what
\* the clocks were changed by, as text is compared.
IndexShowsRange ==
    \A r \in Readings :
        /\ \A from, to \in 0..(MaxClock \div DayLength + 1) :
            r \in Index(from, to)
                <=> /\ Local(r.time) \div DayLength \in from..to
                    /\ Local(r.time) # (to + 1) * DayLength - 1
                    /\ ~(Local(r.time) = from * DayLength /\ Offset(r.time) = 0)
        /\ r \in DefaultIndex => r.time >= clock - Window - Shift
        /\ r.time > clock - Window + Shift => r \in DefaultIndex

\* A location the phone made gets into the table, unless the phone drops it
\* after an answer that it was not stored.
Delivered ==
    \A m \in Message :
        phone[m] # "none" /\ Kind[m] \in {"location", "bare"}
            ~> rows[m] >= 1 \/ phone[m] = "dropped"

\* The accuracy of a location is "optional" (owntracks_types.go:47), so a row
\* without one is a row like any other, and the index page shows its days.
\* The code does not keep it: the page is an error.
IndexAnswers ==
    \A from, to \in 0..(MaxClock \div DayLength) : ~ScanFails(Index(from, to))
=============================================================================
