--------------------------- MODULE StartupProofs ----------------------------
(***************************************************************************)
(* What MCStartup checks of overlapping starts, proved for any number of   *)
(* processes, any versions and any number of writes and faults.            *)
(*                                                                         *)
(* SchemaIsWhole says nothing of what a transaction is about to commit.    *)
(* The invariant does: a transaction that holds the lock has seen every    *)
(* committed migration and executed the ones that follow, without a gap;   *)
(* one that does not has executed none, and sees the table as it was at    *)
(* some commit, the last one unless it is stale.  The refusal of a stale   *)
(* transaction's first write is what makes the first case inductive.       *)
(***************************************************************************)
EXTENDS Startup, SequenceTheorems, TLAPS

\* The migrations that a transaction has passed are in what it sees.
PassedIsSeen(p) == 1..(at[p] - 1) \subseteq seen[p]

\* A transaction that has not written sees the table as of some commit.
OnlyReads(p) ==
    /\ ran[p] = << >>
    /\ seen[p] \subseteq recorded
    /\ p \notin stale => seen[p] = recorded

\* One that has written continues the committed schema.
Continues(p) ==
    /\ seen[p] = 1..(at[p] - 1)
    /\ Len(ran[p]) = at[p] - 1 - Len(schema)
    /\ \A j \in 1..Len(ran[p]) : ran[p][j] = Len(schema) + j

Transactions ==
    \A p \in InTransaction :
        /\ PassedIsSeen(p)
        /\ writer # p => OnlyReads(p)
        /\ writer = p => Continues(p)

Inv == TypeOK /\ Transactions /\ SchemaIsWhole /\ RunningIsMigrated

-----------------------------------------------------------------------------
\* The first n migrations, as a sequence.
FirstMigrations(n) == [i \in 1..n |-> i]

LEMMA FirstMigrationsType ==
    ASSUME NEW n \in Nat
    PROVE  /\ FirstMigrations(n) \in Seq(Nat \ {0})
           /\ Len(FirstMigrations(n)) = n
           /\ \A i \in 1..n : FirstMigrations(n)[i] = i
  BY DEF FirstMigrations

\* What the database holds, in terms of the length of its schema.
LEMMA SchemaLength ==
    ASSUME TypeOK, SchemaIsWhole
    PROVE  /\ Len(schema) \in Newest
           /\ Len(schema) \in Nat
           /\ schema = FirstMigrations(Len(schema))
           /\ recorded = 1..Len(schema)
  <1>1. PICK n \in Newest : schema = FirstMigrations(n) /\ recorded = 1..n
    BY DEF SchemaIsWhole, FirstMigrations
  <1>2. n \in Nat
    BY StartupAssumption DEF StartupAssumption, Newest, TypeOK
  <1>3. Len(schema) = n
    BY <1>1, <1>2, FirstMigrationsType
  <1> QED BY <1>1, <1>2, <1>3

\* Numbers that follow each other, appended to the first migrations, are the
\* first migrations.
LEMMA Continued ==
    ASSUME NEW n \in Nat, NEW k \in Nat, NEW s \in Seq(Nat \ {0}),
           Len(s) = k, \A j \in 1..k : s[j] = n + j
    PROVE  /\ FirstMigrations(n) \o s = FirstMigrations(n + k)
           /\ 1..n \union Range(s) = 1..(n + k)
  <1>1. /\ FirstMigrations(n) \in Seq(Nat \ {0})
        /\ Len(FirstMigrations(n)) = n
        /\ \A i \in 1..n : FirstMigrations(n)[i] = i
    BY FirstMigrationsType
  <1>2. /\ FirstMigrations(n + k) \in Seq(Nat \ {0})
        /\ Len(FirstMigrations(n + k)) = n + k
        /\ \A i \in 1..(n + k) : FirstMigrations(n + k)[i] = i
    <2>1. n + k \in Nat
      OBVIOUS
    <2> QED BY <2>1, FirstMigrationsType
  <1>3. FirstMigrations(n) \o s = FirstMigrations(n + k)
    <2> DEFINE t == FirstMigrations(n) \o s
    <2>1. t \in Seq(Nat \ {0}) /\ Len(t) = n + k
      <3>1. t \in Seq(Nat \ {0})
        BY <1>1, ConcatProperties
      <3>2. Len(t) = Len(FirstMigrations(n)) + Len(s)
        BY <1>1, ConcatProperties
      <3> QED BY <3>1, <3>2, <1>1
    <2>2. ASSUME NEW i \in 1..(n + k) PROVE t[i] = i
      <3>1. t[i] = IF i <= n THEN FirstMigrations(n)[i] ELSE s[i - n]
        BY <1>1, ConcatProperties
      <3>2. CASE i <= n
        BY <3>1, <3>2, <1>1
      <3>3. CASE ~(i <= n)
        <4>1. i - n \in 1..k /\ n + (i - n) = i
          BY <3>3
        <4>2. s[i - n] = i
          BY <4>1
        <4> QED BY <3>1, <3>3, <4>2
      <3> QED BY <3>2, <3>3
    <2> HIDE DEF t
    <2>3. t = FirstMigrations(n + k)
      BY <2>1, <2>2, <1>2, SeqEqual
    <2> QED BY <2>3 DEF t
  <1>4. Range(s) = (n + 1)..(n + k)
    <2>1. DOMAIN s = 1..k
      BY LenProperties
    <2>2. ASSUME NEW i \in (n + 1)..(n + k) PROVE i \in Range(s)
      <3>1. i - n \in 1..k /\ s[i - n] = i
        BY n + (i - n) = i
      <3> QED BY <3>1, <2>1 DEF Range
    <2>3. ASSUME NEW i \in Range(s) PROVE i \in (n + 1)..(n + k)
      BY <2>1 DEF Range
    <2> QED BY <2>2, <2>3
  <1> QED BY <1>3, <1>4

-----------------------------------------------------------------------------
LEMMA InitInv == Init => Inv
  <1> SUFFICES ASSUME Init PROVE Inv
    OBVIOUS
  <1>1. oldest \in Nat /\ oldest \in Newest
    BY StartupAssumption DEF StartupAssumption, Init, Newest
  <1>2. schema = FirstMigrations(oldest) /\ schema \in Seq(Nat \ {0})
    BY <1>1, FirstMigrationsType DEF Init, FirstMigrations
  <1>3. TypeOK
    BY <1>1, <1>2, StartupAssumption DEF StartupAssumption, Init, TypeOK
  <1>4. Transactions
    BY DEF Init, Transactions, InTransaction
  <1>5. SchemaIsWhole
    BY <1>1 DEF Init, SchemaIsWhole
  <1>6. RunningIsMigrated
    BY DEF Init, RunningIsMigrated
  <1> QED BY <1>3, <1>4, <1>5, <1>6 DEF Inv

-----------------------------------------------------------------------------
\* Steps of a process that leave the database alone and take no lock.
LEMMA StepReads ==
    ASSUME Inv, NEW p \in Process, Open(p) \/ Begin(p) \/ Skip(p)
    PROVE  Inv'
  <1> USE StartupAssumption DEF StartupAssumption
  <1>1. TypeOK /\ Transactions /\ SchemaIsWhole /\ RunningIsMigrated
    BY DEF Inv
  <1>2. UNCHANGED <<schema, recorded, writer, oldest>>
    BY DEF Open, Begin, Skip, database, transaction
  <1>3. SchemaIsWhole'
    BY <1>1, <1>2 DEF SchemaIsWhole, Newest
  <1>4. \A q \in Process : pc'[q] = "running" => pc[q] = "running"
    BY <1>1 DEF Open, Begin, Skip, Goto, TypeOK
  <1>5. RunningIsMigrated'
    BY <1>1, <1>2, <1>4 DEF RunningIsMigrated
  <1>6. CASE Open(p)
    <2>1. TypeOK'
      BY <1>1, <1>6 DEF TypeOK, Open, Goto, database, transaction
    <2>2. InTransaction' = InTransaction
      BY <1>1, <1>6 DEF TypeOK, Open, Goto, InTransaction
    <2>3. Transactions'
      BY <1>1, <1>6, <2>2 DEF Open, database, transaction, Transactions,
         PassedIsSeen, OnlyReads, Continues
    <2> QED BY <2>1, <2>3, <1>3, <1>5 DEF Inv
  <1>7. CASE Begin(p)
    <2>1. TypeOK'
      <3>1. writer # p
        BY <1>1, <1>7 DEF TypeOK, Begin
      <3>2. pc' \in [Process -> {"down", "opened", "migrating", "running"}]
        BY <1>1, <1>7 DEF TypeOK, Begin, Goto
      <3>3. at' \in [Process -> Nat] /\ \A q \in Process : at'[q] \in 1..(Version[q] + 1)
        BY <1>1, <1>7 DEF TypeOK, Begin
      <3>4. ran' \in [Process -> Seq(Nat \ {0})]
        BY <1>1, <1>7, EmptySeq DEF TypeOK, Begin
      <3>5. seen' \in [Process -> SUBSET Nat] /\ stale' \subseteq Process
        BY <1>1, <1>7 DEF TypeOK, Begin
      <3>6. writer' # NoProcess
              => pc'[writer'] = "migrating" /\ ran'[writer'] # << >> /\ writer' \notin stale'
        BY <1>1, <1>7, <3>1 DEF TypeOK, Begin, Goto
      <3> QED BY <3>2, <3>3, <3>4, <3>5, <3>6, <1>1, <1>7 DEF TypeOK, Begin, database
    <2>2. ASSUME NEW q \in InTransaction'
          PROVE  /\ PassedIsSeen(q)'
                 /\ (writer # q => OnlyReads(q))'
                 /\ (writer = q => Continues(q))'
      <3>1. CASE q = p
        <4>1. writer' # p
          BY <1>1, <1>7 DEF TypeOK, Begin, database
        <4>2. at'[p] = 1 /\ ran'[p] = << >> /\ seen'[p] = recorded
          BY <1>1, <1>7 DEF TypeOK, Begin
        <4> QED BY <3>1, <4>1, <4>2, <1>2 DEF PassedIsSeen, OnlyReads
      <3>2. CASE q # p
        <4>1. q \in InTransaction
          BY <3>2, <1>1, <1>7 DEF InTransaction, Begin, Goto, TypeOK
        <4>2. /\ at'[q] = at[q] /\ ran'[q] = ran[q] /\ seen'[q] = seen[q]
              /\ q \in stale' <=> q \in stale
          BY <3>2, <4>1, <1>1, <1>7 DEF InTransaction, Begin, TypeOK
        <4> QED BY <4>1, <4>2, <1>1, <1>2 DEF Transactions, PassedIsSeen, OnlyReads, Continues
      <3> QED BY <3>1, <3>2
    <2>3. Transactions'
      BY <2>2 DEF Transactions
    <2> QED BY <2>1, <2>3, <1>3, <1>5 DEF Inv
  <1>8. CASE Skip(p)
    <2>1. at[p] \in 1..Version[p]
      BY <1>1, <1>8 DEF TypeOK, Skip, LastMigration
    <2>2. at' \in [Process -> Nat] /\ \A q \in Process : at'[q] \in 1..(Version[q] + 1)
      BY <2>1, <1>1, <1>8 DEF TypeOK, Skip
    <2>3. TypeOK'
      BY <2>2, <1>1, <1>8 DEF TypeOK, Skip, database
    <2>4. p \in InTransaction /\ PassedIsSeen(p) /\ InTransaction' = InTransaction
      BY <1>1, <1>8 DEF Transactions, InTransaction, Skip
    <2>5. writer # p
      BY <2>1, <2>4, <1>1, <1>8 DEF Transactions, Continues, Skip
    <2>6. ASSUME NEW q \in InTransaction
          PROVE  /\ PassedIsSeen(q)'
                 /\ (writer # q => OnlyReads(q))'
                 /\ (writer = q => Continues(q))'
      <3>1. (writer # q => OnlyReads(q))'
        BY <2>6, <1>1, <1>8 DEF Transactions, OnlyReads, Skip, database
      <3>2. (writer = q => Continues(q))'
        BY <2>6, <2>5, <1>1, <1>8 DEF Transactions, Continues, Skip, database, TypeOK, InTransaction
      <3>3. PassedIsSeen(q)'
        <4>1. CASE q = p
          <5>1. at'[p] = at[p] + 1 /\ seen' = seen
            BY <1>1, <1>8 DEF Skip, TypeOK
          <5>2. 1..at[p] \subseteq seen[p]
            BY <2>1, <2>4, <1>8 DEF PassedIsSeen, Skip
          <5> QED BY <4>1, <5>1, <5>2, <2>1 DEF PassedIsSeen
        <4>2. CASE q # p
          BY <4>2, <2>6, <1>1, <1>8 DEF Transactions, PassedIsSeen, Skip, TypeOK, InTransaction
        <4> QED BY <4>1, <4>2
      <3> QED BY <3>1, <3>2, <3>3
    <2>7. Transactions'
      BY <2>4, <2>6 DEF Transactions
    <2> QED BY <2>3, <2>7, <1>3, <1>5 DEF Inv
  <1> QED BY <1>6, <1>7, <1>8

\* The first write of a transaction finds that the next migration follows the
\* committed ones; later ones follow what it has executed.
LEMMA StepRunMigration ==
    ASSUME Inv, NEW p \in Process, RunMigration(p)
    PROVE  Inv'
  <1> USE StartupAssumption DEF StartupAssumption
  <1> DEFINE n == Len(schema)
  <1>1. TypeOK /\ Transactions /\ SchemaIsWhole /\ RunningIsMigrated
    BY DEF Inv
  <1>2. UNCHANGED <<schema, recorded, oldest, pc, stale>> /\ InTransaction' = InTransaction
    BY DEF RunMigration, database, InTransaction
  <1>3. n \in Nat /\ recorded = 1..n
    BY <1>1, SchemaLength
  <1>4. /\ at[p] \in 1..Version[p]
        /\ at[p] \in Nat \ {0}
        /\ at[p] \notin seen[p]
        /\ ran[p] \in Seq(Nat \ {0})
        /\ p \in InTransaction
        /\ writer \in {NoProcess, p}
        /\ p \notin stale
    BY <1>1 DEF TypeOK, RunMigration, Missing, Refused, LastMigration, InTransaction
  <1>5. /\ writer' = p
        /\ at'[p] = at[p] + 1
        /\ ran'[p] = Append(ran[p], at[p])
        /\ seen'[p] = seen[p] \union {at[p]}
        /\ \A q \in Process \ {p} : at'[q] = at[q] /\ ran'[q] = ran[q] /\ seen'[q] = seen[q]
    BY <1>1 DEF TypeOK, RunMigration
  <1>6. /\ seen[p] = 1..(at[p] - 1)
        /\ Len(ran[p]) = at[p] - 1 - n
        /\ \A j \in 1..Len(ran[p]) : ran[p][j] = n + j
    <2>1. CASE writer = p
      BY <2>1, <1>1, <1>4 DEF Transactions, Continues
    <2>2. CASE writer # p
      <3>1. ran[p] = << >> /\ seen[p] = 1..n /\ 1..(at[p] - 1) \subseteq seen[p]
        BY <2>2, <1>1, <1>3, <1>4 DEF Transactions, OnlyReads, PassedIsSeen
      <3>2. at[p] = n + 1
        <4>1. at[p] > n
          BY <3>1, <1>3, <1>4
        <4>2. at[p] <= n + 1
          <5>1. SUFFICES ASSUME at[p] > n + 1 PROVE FALSE
            BY <1>3, <1>4
          <5>2. n + 1 \in 1..(at[p] - 1)
            BY <5>1, <1>3, <1>4
          <5>3. n + 1 \in 1..n
            BY <5>2, <3>1
          <5> QED BY <5>3, <1>3
        <4> QED BY <4>1, <4>2, <1>3, <1>4
      <3>3. Len(ran[p]) = 0
        BY <3>1
      <3> QED BY <3>1, <3>2, <3>3, <1>3
    <2> QED BY <2>1, <2>2
  <1>7. /\ ran'[p] \in Seq(Nat \ {0})
        /\ ran'[p] # << >>
        /\ Len(ran'[p]) = Len(ran[p]) + 1
        /\ \A j \in 1..Len(ran[p]) : ran'[p][j] = ran[p][j]
        /\ ran'[p][Len(ran[p]) + 1] = at[p]
    <2> DEFINE S == Nat \ {0}
    <2> DEFINE t == Append(ran[p], at[p])
    <2>1. ran[p] \in Seq(S) /\ at[p] \in S
      BY <1>4
    <2> HIDE DEF S
    <2>2. t \in Seq(S)
      BY <2>1, AppendProperties
    <2>3. t # << >>
      BY <2>1, AppendProperties
    <2>4. Len(t) = Len(ran[p]) + 1
      BY <2>1, AppendProperties
    <2>5. \A j \in 1..Len(ran[p]) : t[j] = ran[p][j]
      BY <2>1, AppendProperties
    <2>6. t[Len(ran[p]) + 1] = at[p]
      BY <2>1, AppendProperties
    <2> HIDE DEF t
    <2>7. ran'[p] = t
      BY <1>5 DEF t
    <2> QED BY <2>2, <2>3, <2>4, <2>5, <2>6, <2>7 DEF S
  <1>8. TypeOK'
    <2>1. at' \in [Process -> Nat] /\ \A q \in Process : at'[q] \in 1..(Version[q] + 1)
      BY <1>1, <1>4 DEF TypeOK, RunMigration
    <2>2. ran' \in [Process -> Seq(Nat \ {0})]
      BY <1>1, <1>5, <1>7 DEF TypeOK, RunMigration
    <2>3. seen' \in [Process -> SUBSET Nat]
      BY <1>1, <1>4 DEF TypeOK, RunMigration
    <2>4. pc'[p] = "migrating" /\ p \notin stale'
      BY <1>2, <1>4 DEF InTransaction
    <2> QED BY <2>1, <2>2, <2>3, <2>4, <1>1, <1>5, <1>7 DEF TypeOK, RunMigration, database
  <1>9. Transactions'
    <2>1. PassedIsSeen(p)' /\ Continues(p)'
      <3>1. seen'[p] = 1..(at'[p] - 1)
        BY <1>4, <1>5, <1>6
      <3>2. Len(ran'[p]) = at'[p] - 1 - n
        BY <1>3, <1>4, <1>5, <1>6, <1>7
      <3>3. ASSUME NEW j \in 1..Len(ran'[p]) PROVE ran'[p][j] = n + j
        <4>1. CASE j <= Len(ran[p])
          BY <4>1, <1>4, <1>6, <1>7
        <4>2. CASE j > Len(ran[p])
          <5>1. j = Len(ran[p]) + 1
            BY <4>2, <1>4, <1>7
          <5>2. ran'[p][j] = at[p]
            BY <5>1, <1>7
          <5>3. n + j = at[p]
            BY <5>1, <1>3, <1>4, <1>6
          <5> QED BY <5>2, <5>3
        <4> QED BY <4>1, <4>2, <1>4
      <3>4. Len(schema') = n
        BY <1>2
      <3> QED BY <3>1, <3>2, <3>3, <3>4 DEF PassedIsSeen, Continues
    <2>2. ASSUME NEW q \in InTransaction, q # p
          PROVE  PassedIsSeen(q)' /\ OnlyReads(q)'
      <3>1. q \in Process /\ writer # q
        BY <2>2, <1>4 , <1>1 DEF InTransaction, TypeOK
      <3> QED BY <3>1, <2>2, <1>1, <1>2, <1>5 DEF Transactions, PassedIsSeen, OnlyReads
    <2> QED BY <2>1, <2>2, <1>2, <1>5 DEF Transactions
  <1>10. SchemaIsWhole' /\ RunningIsMigrated'
    BY <1>1, <1>2 DEF SchemaIsWhole, Newest, RunningIsMigrated
  <1> QED BY <1>8, <1>9, <1>10 DEF Inv

\* A transaction that ends without a commit takes nothing with it but the lock.
LEMMA StepRollback ==
    ASSUME Inv, NEW p \in Process, Refuse(p) \/ Stop(p)
    PROVE  Inv'
  <1> USE StartupAssumption DEF StartupAssumption
  <1>1. TypeOK /\ Transactions /\ SchemaIsWhole /\ RunningIsMigrated
    BY DEF Inv
  <1>2. /\ UNCHANGED <<schema, recorded, oldest, at, ran, seen, stale, writes>>
        /\ pc' = [pc EXCEPT ![p] = "down"]
        /\ writer = p => writer' = NoProcess
        /\ writer # p => writer' = writer
    BY DEF Refuse, Stop, database, transaction, Goto, PcAfter, LockAfter
  <1>3. writer' # p
    BY <1>2
  <1>4. TypeOK'
    <2>1. faults' \in 0..MaxFaults
      BY <1>1 DEF TypeOK, Refuse, Stop
    <2>2. pc' \in [Process -> {"down", "opened", "migrating", "running"}]
      BY <1>1, <1>2 DEF TypeOK
    <2>3. writer' # NoProcess
            => pc'[writer'] = "migrating" /\ ran'[writer'] # << >> /\ writer' \notin stale'
      BY <1>1, <1>2, <1>3 DEF TypeOK
    <2> QED BY <2>1, <2>2, <2>3, <1>1, <1>2 DEF TypeOK
  <1>5. InTransaction' = InTransaction \ {p}
    BY <1>1, <1>2 DEF TypeOK, InTransaction
  <1>6. \A q \in InTransaction' : writer' = q <=> writer = q
    BY <1>1, <1>2, <1>5 DEF InTransaction, TypeOK
  <1>7. Transactions'
    BY <1>1, <1>2, <1>5, <1>6 DEF Transactions, PassedIsSeen, OnlyReads, Continues
  <1>8. SchemaIsWhole'
    BY <1>1, <1>2 DEF SchemaIsWhole, Newest
  <1>9. RunningIsMigrated'
    BY <1>1, <1>2 DEF RunningIsMigrated, TypeOK
  <1> QED BY <1>4, <1>7, <1>8, <1>9 DEF Inv

\* A commit without migrations changes nothing; one with some holds the lock,
\* and adds to the schema what follows it.
LEMMA StepCommit ==
    ASSUME Inv, NEW p \in Process, Commit(p)
    PROVE  Inv'
  <1> USE StartupAssumption DEF StartupAssumption
  <1> DEFINE n == Len(schema)
  <1>1. TypeOK /\ Transactions /\ SchemaIsWhole /\ RunningIsMigrated
    BY DEF Inv
  <1>2. /\ n \in Nat /\ n \in Newest
        /\ schema = FirstMigrations(n)
        /\ recorded = 1..n
    BY <1>1, SchemaLength
  <1>3. /\ p \in InTransaction
        /\ at[p] = Version[p] + 1 /\ Version[p] \in Nat
        /\ ran[p] \in Seq(Nat \ {0})
    BY <1>1 DEF TypeOK, Commit, LastMigration, InTransaction
  <1>4. /\ UNCHANGED <<oldest, at, ran, seen, writes, faults>>
        /\ pc' = [pc EXCEPT ![p] = "running"]
        /\ writer = p => writer' = NoProcess
        /\ writer # p => writer' = writer
    BY DEF Commit, transaction, Goto, LockAfter
  <1>5. InTransaction' = InTransaction \ {p}
    BY <1>1, <1>4 DEF TypeOK, InTransaction
  <1>6. CASE writer # p
    <2>1. ran[p] = << >> /\ 1..Version[p] \subseteq recorded
      BY <1>6, <1>1, <1>3 DEF Transactions, OnlyReads, PassedIsSeen
    <2>2. schema' = schema /\ recorded' = recorded /\ stale' = stale
      <3>1. schema \o << >> = schema
        BY <1>1, ConcatEmptySeq DEF TypeOK
      <3>2. Range(<< >>) = {}
        BY DEF Range
      <3> QED BY <3>1, <3>2, <2>1 DEF Commit
    <2>3. TypeOK'
      BY <2>2, <1>1, <1>4, <1>6 DEF TypeOK
    <2>4. Transactions'
      BY <2>2, <1>1, <1>4, <1>5, <1>6 DEF Transactions, PassedIsSeen, OnlyReads, Continues
    <2>5. SchemaIsWhole'
      BY <2>2, <1>1, <1>4 DEF SchemaIsWhole, Newest
    <2>6. RunningIsMigrated'
      BY <2>1, <2>2, <1>1, <1>4 DEF RunningIsMigrated, TypeOK
    <2> QED BY <2>3, <2>4, <2>5, <2>6 DEF Inv
  <1>7. CASE writer = p
    <2>1. /\ ran[p] # << >>
          /\ Len(ran[p]) = Version[p] - n
          /\ \A j \in 1..Len(ran[p]) : ran[p][j] = n + j
      BY <1>7, <1>1, <1>3, <1>2 DEF TypeOK, Transactions, Continues
    <2>2. Version[p] - n \in Nat /\ n + (Version[p] - n) = Version[p]
      BY <2>1, <1>2, <1>3, EmptySeq
    <2>3. schema' = FirstMigrations(Version[p]) /\ recorded' = 1..Version[p]
      <3> DEFINE k == Version[p] - n
      <3>1. k \in Nat /\ n + k = Version[p] /\ Len(ran[p]) = k
        BY <2>1, <2>2
      <3>2. \A j \in 1..k : ran[p][j] = n + j
        BY <2>1
      <3> HIDE DEF k, n
      <3>3. /\ FirstMigrations(n) \o ran[p] = FirstMigrations(n + k)
            /\ 1..n \union Range(ran[p]) = 1..(n + k)
        BY <3>1, <3>2, <1>2, <1>3, Continued, Zenon
      <3>4. schema' = schema \o ran[p] /\ recorded' = recorded \union Range(ran[p])
        BY DEF Commit
      <3> QED BY <3>1, <3>3, <3>4, <1>2
    <2>4. recorded \subseteq recorded'
      BY <2>2, <2>3, <1>2, <1>3
    <2>5. stale' = InTransaction /\ writer' = NoProcess
      BY <2>1, <1>4, <1>7 DEF Commit
    <2>6. TypeOK'
      <3>1. schema' \in Seq(Nat \ {0}) /\ recorded' \subseteq Nat
        BY <2>3, <1>3, FirstMigrationsType
      <3>2. stale' \subseteq Process
        BY <2>5 DEF InTransaction
      <3> QED BY <3>1, <3>2, <2>5, <1>1, <1>4 DEF TypeOK
    <2>7. ASSUME NEW q \in InTransaction'
          PROVE  PassedIsSeen(q)' /\ OnlyReads(q)' /\ writer' # q
      <3>1. q \in InTransaction /\ q # p /\ writer # q /\ q \in Process
        BY <2>7, <1>5, <1>7 DEF InTransaction
      <3>2. PassedIsSeen(q)'
        BY <3>1, <1>1, <1>4 DEF Transactions, PassedIsSeen
      <3>3. OnlyReads(q)'
        BY <3>1, <2>4, <2>5, <1>1, <1>4 DEF Transactions, OnlyReads
      <3> QED BY <3>1, <3>2, <3>3, <2>5
    <2>8. Transactions'
      BY <2>7 DEF Transactions
    <2>9. SchemaIsWhole'
      BY <2>3, <1>3 DEF SchemaIsWhole, Newest, FirstMigrations
    <2>10. RunningIsMigrated'
      BY <2>3, <2>4, <1>1, <1>4 DEF RunningIsMigrated, TypeOK
    <2> QED BY <2>6, <2>8, <2>9, <2>10 DEF Inv
  <1> QED BY <1>6, <1>7

LEMMA StepWrite ==
    ASSUME Inv, NEW p \in Process, Write(p)
    PROVE  Inv'
  <1> USE StartupAssumption DEF StartupAssumption
  <1>1. TypeOK /\ Transactions /\ SchemaIsWhole /\ RunningIsMigrated
    BY DEF Inv
  <1>2. /\ UNCHANGED <<schema, recorded, oldest, writer, pc, at, ran, seen, faults>>
        /\ writer = NoProcess
        /\ stale' = InTransaction
        /\ InTransaction' = InTransaction
    BY DEF Write, database, transaction, InTransaction
  <1>3. TypeOK'
    BY <1>1, <1>2 DEF TypeOK, Write, InTransaction
  <1>4. \A q \in InTransaction : writer # q
    BY <1>2 DEF InTransaction
  <1>5. Transactions'
    BY <1>1, <1>2, <1>4 DEF Transactions, PassedIsSeen, OnlyReads
  <1>6. SchemaIsWhole' /\ RunningIsMigrated'
    BY <1>1, <1>2 DEF SchemaIsWhole, Newest, RunningIsMigrated
  <1> QED BY <1>3, <1>5, <1>6 DEF Inv

LEMMA StepInv == Inv /\ [Next]_vars => Inv'
  <1> SUFFICES ASSUME Inv, [Next]_vars PROVE Inv'
    OBVIOUS
  <1>1. CASE UNCHANGED vars
    BY <1>1 DEF Inv, vars, database, transaction, TypeOK, Transactions, InTransaction,
       PassedIsSeen, OnlyReads, Continues, SchemaIsWhole, Newest, RunningIsMigrated
  <1>2. ASSUME NEW p \in Process, Starting(p) \/ Write(p) \/ Stop(p)
        PROVE  Inv'
    BY <1>2, StepReads, StepRunMigration, StepRollback, StepCommit, StepWrite DEF Starting
  <1> QED BY <1>1, <1>2 DEF Next

LEMMA InvHolds == SafetySpec => []Inv
  BY InitInv, StepInv, PTL DEF SafetySpec

-----------------------------------------------------------------------------
\* The variables keep their types, and only a transaction that has executed a
\* migration, and that no commit has overtaken, holds the lock (newStorage).
THEOREM TypeCorrect == SafetySpec => []TypeOK
  <1>1. Inv => TypeOK
    BY DEF Inv
  <1> QED BY <1>1, InvHolds, PTL

\* Whatever starts overlap and wherever they stop, the database has the first
\* migrations of some binary, each executed once and in order (migrate).
THEOREM MigratedInOrder == SafetySpec => []SchemaIsWhole
  <1>1. Inv => SchemaIsWhole
    BY DEF Inv
  <1> QED BY <1>1, InvHolds, PTL

\* No command of any version runs on a schema that lacks one of its migrations.
THEOREM RunsMigrated == SafetySpec => []RunningIsMigrated
  <1>1. Inv => RunningIsMigrated
    BY DEF Inv
  <1> QED BY <1>1, InvHolds, PTL
=============================================================================
