------------------------------ MODULE Startup -------------------------------
(***************************************************************************)
(* The start of a command: newStorage and its migrations (sql.go), called  *)
(* by Parse (main.go).  Several commands may start at once on one          *)
(* database, of an old binary and of a new one, while others run and write.*)
(*                                                                         *)
(* All migrations of a start are one transaction.  It is deferred: its     *)
(* first statement, a select, fixes what it sees, and only its first       *)
(* write, a migration, asks for the database's one write lock.  A lock     *)
(* that is held, or a commit since the select, is then an error at once,   *)
(* without the busy timeout, and the command ends.                         *)
(*                                                                         *)
(* Left out: a migration that fails by itself, a database that fails the   *)
(* integrity check, the table of migrations (the statement that creates it *)
(* changes nothing when it is there), and -disable-wal.                    *)
(***************************************************************************)
EXTENDS Integers, Sequences, Functions

CONSTANTS
    Process,     \* what may start, and is started again after it ended
    Version,     \* how many migrations the binary of a process has
    NoProcess,   \* nobody
    MaxWrites,   \* bound: how often a running process writes something else
    MaxFaults    \* bound: how many processes end without being told to

ASSUME StartupAssumption ==
    /\ Version \in [Process -> Nat]
    /\ NoProcess \notin Process
    /\ MaxWrites \in Nat
    /\ MaxFaults \in Nat

VARIABLES
    schema,      \* database: the migrations executed, one after the other
    recorded,    \* database: the table migrations
    writer,      \* database: who has the write lock
    pc,          \* where a process is
    at,          \* the place in its list of migrations
    ran,         \* the migrations its transaction has executed
    seen,        \* the table migrations, as its transaction sees it
    stale,       \* the transactions that began before the last commit
    writes,      \* how many other writes there were
    faults,      \* how many processes ended
    \* What follows only records history; the code has no such state.
    oldest       \* how many migrations the database had at the beginning

database == <<schema, recorded>>
transaction == <<at, ran, seen>>
vars == <<database, writer, pc, transaction, stale, writes, faults, oldest>>

-----------------------------------------------------------------------------
\* Mutant of LastMigration: one too far.
OneTooMany(p) == Version[p] + 1

LastMigration(p) == Version[p]

\* The next migration is not in the table.
Missing(p) == at[p] <= LastMigration(p) /\ at[p] \notin seen[p]

InTransaction == {p \in Process : pc[p] = "migrating"}

\* Mutant of Refused: as if the selects were not in the transaction.
RefusedIfLocked(p) == writer \notin {NoProcess, p}

\* SQLite refuses the first write of a transaction that has read.
Refused(p) == writer \notin {NoProcess, p} \/ p \in stale

\* Mutant of LockAfter: the transaction is never ended.
LockKept(p) == p

\* Whoever ends a transaction gives up the lock it has.
LockAfter(p) == IF writer = p THEN NoProcess ELSE writer

\* Mutant of PcAfter: the error of migrate is not looked at.
RunningAnyway(p) == "running"

\* An error of newStorage ends the process.
PcAfter(p) == "down"

-----------------------------------------------------------------------------
Init ==
    /\ oldest \in {Version[p] : p \in Process} \union {0}
    /\ schema = [i \in 1..oldest |-> i]
    /\ recorded = 1..oldest
    /\ writer = NoProcess
    /\ pc = [p \in Process |-> "down"]
    /\ at = [p \in Process |-> 1]
    /\ ran = [p \in Process |-> << >>]
    /\ seen = [p \in Process |-> {}]
    /\ stale = {}
    /\ writes = 0
    /\ faults = 0

Goto(p, to) == pc' = [pc EXCEPT ![p] = to]

(* A process opens the database, which passes the integrity check.         *)
Open(p) ==
    /\ pc[p] = "down"
    /\ Goto(p, "opened")
    /\ UNCHANGED <<database, writer, transaction, stale, writes, faults, oldest>>

(* migrate: the first select of the transaction fixes what it sees.        *)
Begin(p) ==
    /\ pc[p] = "opened"
    /\ Goto(p, "migrating")
    /\ at' = [at EXCEPT ![p] = 1]
    /\ ran' = [ran EXCEPT ![p] = << >>]
    /\ seen' = [seen EXCEPT ![p] = recorded]
    /\ stale' = stale \ {p}
    /\ UNCHANGED <<database, writer, writes, faults, oldest>>

(* A migration that is in the table is passed over.                        *)
Skip(p) ==
    /\ pc[p] = "migrating"
    /\ at[p] <= LastMigration(p)
    /\ at[p] \in seen[p]
    /\ at' = [at EXCEPT ![p] = @ + 1]
    /\ UNCHANGED <<database, writer, pc, ran, seen, stale, writes, faults, oldest>>

(* One that is not is executed, and put in the table.                      *)
RunMigration(p) ==
    /\ pc[p] = "migrating"
    /\ Missing(p)
    /\ ~Refused(p)
    /\ writer' = p
    /\ ran' = [ran EXCEPT ![p] = Append(@, at[p])]
    /\ seen' = [seen EXCEPT ![p] = @ \union {at[p]}]
    /\ at' = [at EXCEPT ![p] = @ + 1]
    /\ UNCHANGED <<database, pc, stale, writes, faults, oldest>>

(* ... or refused: the transaction is rolled back and the process ends.    *)
Refuse(p) ==
    /\ pc[p] = "migrating"
    /\ Missing(p)
    /\ Refused(p)
    /\ writer' = LockAfter(p)
    /\ Goto(p, PcAfter(p))
    /\ UNCHANGED <<database, transaction, stale, writes, faults, oldest>>

(* The end of the list: the transaction is committed, the command runs.    *)
Commit(p) ==
    /\ pc[p] = "migrating"
    /\ at[p] > LastMigration(p)
    /\ schema' = schema \o ran[p]
    /\ recorded' = recorded \union Range(ran[p])
    /\ stale' = IF ran[p] = << >> THEN stale ELSE InTransaction
    /\ writer' = LockAfter(p)
    /\ Goto(p, "running")
    /\ UNCHANGED <<transaction, writes, faults, oldest>>

(* A running command writes one of its own rows; it waits for the lock.    *)
Write(p) ==
    /\ pc[p] = "running"
    /\ writer = NoProcess
    /\ writes < MaxWrites
    /\ writes' = writes + 1
    /\ stale' = InTransaction
    /\ UNCHANGED <<database, writer, pc, transaction, faults, oldest>>

(* A process ends or is killed; SQLite rolls its transaction back.         *)
Stop(p) ==
    /\ pc[p] # "down"
    /\ faults < MaxFaults
    /\ faults' = faults + 1
    /\ writer' = IF writer = p THEN NoProcess ELSE writer
    /\ Goto(p, "down")
    /\ UNCHANGED <<database, transaction, stale, writes, oldest>>

Starting(p) ==
    \/ Open(p) \/ Begin(p)
    \/ Skip(p) \/ RunMigration(p)
    \/ Refuse(p) \/ Commit(p)

Next == \E p \in Process : Starting(p) \/ Write(p) \/ Stop(p)

(***************************************************************************)
(* A process that is started goes on, and one that ended is started again. *)
(* Nobody has to write or to stop.                                         *)
(***************************************************************************)
Fairness == \A p \in Process : WF_vars(Starting(p))

SafetySpec == Init /\ [][Next]_vars
Spec == SafetySpec /\ Fairness

-----------------------------------------------------------------------------
(* Properties.                                                             *)

Newest == {Version[p] : p \in Process} \union {oldest}

\* The variables have their types, and who has the lock has executed a
\* migration in a transaction that no commit has made stale.
TypeOK ==
    /\ schema \in Seq(Nat \ {0})
    /\ recorded \subseteq Nat
    /\ pc \in [Process -> {"down", "opened", "migrating", "running"}]
    /\ at \in [Process -> Nat]
    /\ \A p \in Process : at[p] \in 1..(Version[p] + 1)
    /\ ran \in [Process -> Seq(Nat \ {0})]
    /\ seen \in [Process -> SUBSET Nat]
    /\ stale \subseteq Process
    /\ writes \in 0..MaxWrites
    /\ faults \in 0..MaxFaults
    /\ oldest \in Nat
    /\ writer \in Process \union {NoProcess}
    /\ writer # NoProcess
        => pc[writer] = "migrating" /\ ran[writer] # << >> /\ writer \notin stale

\* However many starts overlap, and wherever they stop, every migration is
\* executed once and in its order, the table says which, and what others see
\* is the schema of some binary and never half a start.
SchemaIsWhole ==
    \E n \in Newest :
        /\ schema = [i \in 1..n |-> i]
        /\ recorded = 1..n

\* A command that runs has the schema its binary was written for.
RunningIsMigrated ==
    \A p \in Process : pc[p] = "running" => 1..Version[p] \subseteq recorded

\* Starts that refuse each other do not do so for ever: every command runs in
\* the end, once nobody stops it any more.
StartsEventually == \A p \in Process : <>[](pc[p] = "running")
=============================================================================
