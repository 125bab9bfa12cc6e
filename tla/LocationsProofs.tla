-------------------------- MODULE LocationsProofs ---------------------------
(***************************************************************************)
(* What MCLocations checks of writing to device_locations, proved for any  *)
(* messages and files, and any number of faults and imports.               *)
(*                                                                         *)
(* The two invariants of publishing are inductive once an answer that is   *)
(* under way counts like one that arrived, and a request nobody waits for  *)
(* counts like a row.  That of importing rests on TypeOK, which says what  *)
(* the open transaction holds: at its commit, the whole file.  That of the *)
(* index page rests on there being no locations of the future.             *)
(***************************************************************************)
EXTENDS Locations, SequenceTheorems, TLAPS

\* An answer "ok" is the truth from when it is given.
AnsweredIsStored ==
    \A m \in Message :
        phone[m] \in {"ok", "done"} /\ Kind[m] \in {"location", "bare"} => rows[m] >= 1

\* A request whose answer is lost may add one row, now or later.
RowsOwed ==
    \A m \in Message : rows[m] + orphans[m] <= lost[m] + Answered(m)

\* No time is ahead of the clock, in the phone or in a file that was opened.
PastTimes == \A m \in Message : tst[m] <= clock
PastFile(f) == \A k \in DOMAIN f : f[k].time <= clock
PastFiles ==
    /\ file # NoFile => PastFile(file)
    /\ \A f \in File : (\E k \in DOMAIN f : copies[f][k] > 0) => PastFile(f)
NothingAhead == PastTimes /\ PastFiles

Inv == TypeOK /\ AnsweredIsStored /\ RowsOwed /\ ImportWhole /\ NothingAhead

-----------------------------------------------------------------------------
\* A file is a sequence of at least one record, with times, and not NoFile.
LEMMA FileType ==
    ASSUME NEW f \in File
    PROVE  /\ f # NoFile
           /\ Len(f) \in Nat
           /\ DOMAIN f = 1..Len(f)
           /\ \A k \in DOMAIN f : f[k].time \in Nat
  <1>1. f \in Seq([time : Nat, valid : BOOLEAN]) /\ f # NoFile
    BY LocationsAssumption DEF LocationsAssumption, NoFile
  <1>2. \A k \in 1..Len(f) : f[k] \in [time : Nat, valid : BOOLEAN]
    BY <1>1, ElementOfSeq
  <1>3. Len(f) \in Nat /\ DOMAIN f = 1..Len(f)
    BY <1>1
  <1> QED BY <1>1, <1>2, <1>3

LEMMA InitInv == Init => Inv
  <1> SUFFICES ASSUME Init PROVE Inv
    OBVIOUS
  <1>1. TypeOK
    BY LocationsAssumption DEF LocationsAssumption, Init, TypeOK
  <1>2. AnsweredIsStored /\ RowsOwed
    BY DEF Init, AnsweredIsStored, RowsOwed, Answered
  <1>3. ImportWhole
    BY DEF Init, ImportWhole
  <1>4. NothingAhead
    BY DEF Init, NothingAhead, PastTimes, PastFiles, PastFile
  <1> QED BY <1>1, <1>2, <1>3, <1>4 DEF Inv

\* Handling a request adds at most one row, and one exactly when a location is
\* answered "ok".
LEMMA RowsAfterType ==
    ASSUME TypeOK, NEW m \in Message
    PROVE  /\ RowsAfter(m) \in [Message -> Nat]
           /\ RowsAfter(m)[m] \in {rows[m], rows[m] + 1}
           /\ \A n \in Message \ {m} : RowsAfter(m)[n] = rows[n]
           /\ Answer(m) \in {"ok", "failed"}
           /\ Answer(m) = "failed" => RowsAfter(m)[m] = rows[m]
           /\ Answer(m) = "ok" /\ Kind[m] \in {"location", "bare"}
                => RowsAfter(m)[m] = rows[m] + 1
  <1>1. rows \in [Message -> Nat]
    BY DEF TypeOK
  <1>2. CASE IsLocation(m) /\ AddOTLocation(m)
    <2>1. RowsAfter(m) = [rows EXCEPT ![m] = @ + 1] /\ Answer(m) = "ok"
      BY <1>2 DEF RowsAfter, Answer
    <2> QED BY <1>1, <2>1
  <1>3. CASE ~(IsLocation(m) /\ AddOTLocation(m))
    <2>1. RowsAfter(m) = rows
      BY <1>3 DEF RowsAfter
    <2>2. /\ Answer(m) \in {"ok", "failed"}
          /\ Answer(m) = "ok" => ~IsLocation(m)
      BY <1>3 DEF Answer
    <2>3. ~IsLocation(m) => Kind[m] \notin {"location", "bare"}
      BY DEF IsLocation
    <2> QED BY <1>1, <2>1, <2>2, <2>3
  <1> QED BY <1>2, <1>3

(***************************************************************************)
(* Publishing.  What a step does to one message is a matter of that        *)
(* message only, so each proof looks at one.                               *)
(***************************************************************************)
Publishing ==
    \E m \in Message :
        \/ Take(m) \/ Send(m) \/ Retry(m) \/ Drop(m) \/ Acknowledge(m)
        \/ HandlePublish(m) \/ Timeout(m) \/ HandleOrphan(m) \/ LoseAnswer(m)

PublishTypes ==
    /\ phone \in [Message -> {"none", "due", "sent", "ok", "failed", "done", "dropped"}]
    /\ orphans \in [Message -> Nat]
    /\ rows \in [Message -> Nat]
    /\ lost \in [Message -> Nat]

LEMMA StepPublish ==
    ASSUME Inv, Publishing
    PROVE  /\ PublishTypes' /\ AnsweredIsStored' /\ RowsOwed'
           /\ faults' \in 0..MaxFaults
  <1> PICK m \in Message :
        \/ Take(m) \/ Send(m) \/ Retry(m) \/ Drop(m) \/ Acknowledge(m)
        \/ HandlePublish(m) \/ Timeout(m) \/ HandleOrphan(m) \/ LoseAnswer(m)
    BY DEF Publishing
  <1>0. /\ PublishTypes /\ faults \in 0..MaxFaults /\ MaxFaults \in Nat
        /\ AnsweredIsStored /\ RowsOwed /\ TypeOK
    BY LocationsAssumption DEF LocationsAssumption, Inv, TypeOK, PublishTypes
  <1> USE DEF PublishTypes, AnsweredIsStored, RowsOwed, Answered
  <1>1. CASE Take(m)
    <2>1. /\ phone[m] = "none" /\ phone' = [phone EXCEPT ![m] = "due"]
          /\ UNCHANGED <<orphans, rows, lost, faults>>
      BY <1>1 DEF Take
    <2> QED BY <1>0, <2>1
  <1>2. CASE Send(m)
    <2>1. /\ phone[m] = "due" /\ phone' = [phone EXCEPT ![m] = "sent"]
          /\ UNCHANGED <<orphans, rows, lost, faults>>
      BY <1>2 DEF Send, Moves
    <2> QED BY <1>0, <2>1
  <1>3. CASE Retry(m)
    <2>1. /\ phone[m] = "failed" /\ phone' = [phone EXCEPT ![m] = "due"]
          /\ UNCHANGED <<orphans, rows, lost, faults>>
      BY <1>3 DEF Retry, Moves
    <2> QED BY <1>0, <2>1
  <1>4. CASE Drop(m)
    <2>1. /\ phone[m] = "failed" /\ phone' = [phone EXCEPT ![m] = "dropped"]
          /\ UNCHANGED <<orphans, rows, lost, faults>>
      BY <1>4 DEF Drop, Moves
    <2> QED BY <1>0, <2>1
  <1>5. CASE Acknowledge(m)
    <2>1. /\ phone[m] = "ok" /\ phone' = [phone EXCEPT ![m] = "done"]
          /\ UNCHANGED <<orphans, rows, lost, faults>>
      BY <1>5 DEF Acknowledge, Moves
    <2> QED BY <1>0, <2>1
  <1>6. CASE HandlePublish(m)
    <2>1. /\ phone[m] = "sent" /\ phone' = [phone EXCEPT ![m] = Answer(m)]
          /\ rows' = RowsAfter(m)
          /\ UNCHANGED <<orphans, lost, faults>>
      BY <1>6 DEF HandlePublish, Moves
    <2>2. \A n \in Message \ {m} : phone'[n] = phone[n] /\ rows'[n] = rows[n]
      BY <1>0, <2>1, RowsAfterType
    <2>3. /\ phone'[m] = Answer(m) /\ phone' \in [Message -> {"none", "due", "sent", "ok", "failed", "done", "dropped"}]
          /\ rows' \in [Message -> Nat]
      BY <1>0, <2>1, RowsAfterType
    <2>4. /\ rows[m] + orphans[m] <= lost[m]
          /\ rows[m] \in Nat /\ orphans[m] \in Nat /\ lost[m] \in Nat
      BY <1>0, <2>1
    <2>5. CASE Answer(m) = "failed"
      <3>1. rows'[m] = rows[m]
        BY <1>0, <2>1, <2>5, RowsAfterType
      <3> QED BY <1>0, <2>1, <2>2, <2>3, <2>4, <2>5, <3>1
    <2>6. CASE Answer(m) = "ok"
      <3>1. /\ rows'[m] \in {rows[m], rows[m] + 1}
            /\ Kind[m] \in {"location", "bare"} => rows'[m] = rows[m] + 1
        BY <1>0, <2>1, <2>6, RowsAfterType
      <3> QED BY <1>0, <2>1, <2>2, <2>3, <2>4, <2>6, <3>1
    <2> QED BY <1>0, <2>5, <2>6, RowsAfterType
  <1>7. CASE Timeout(m)
    <2>1. /\ phone[m] = "sent" /\ phone' = [phone EXCEPT ![m] = "due"]
          /\ orphans' = [orphans EXCEPT ![m] = @ + 1]
          /\ lost' = [lost EXCEPT ![m] = @ + 1]
          /\ faults < MaxFaults /\ faults' = faults + 1
          /\ rows' = rows
      BY <1>7 DEF Timeout, Moves, Fault
    <2> QED BY <1>0, <2>1
  <1>8. CASE HandleOrphan(m)
    <2>1. /\ orphans[m] > 0 /\ orphans' = [orphans EXCEPT ![m] = @ - 1]
          /\ rows' \in {rows, RowsAfter(m)}
          /\ UNCHANGED <<phone, lost, faults>>
      BY <1>8 DEF HandleOrphan
    <2>2. /\ rows' \in [Message -> Nat]
          /\ rows'[m] \in {rows[m], rows[m] + 1}
          /\ \A n \in Message \ {m} : rows'[n] = rows[n]
      BY <1>0, <2>1, RowsAfterType
    <2>3. /\ orphans' \in [Message -> Nat]
          /\ orphans'[m] = orphans[m] - 1
          /\ \A n \in Message \ {m} : orphans'[n] = orphans[n]
      BY <1>0, <2>1
    <2> QED BY <1>0, <2>1, <2>2, <2>3
  <1>9. CASE LoseAnswer(m)
    <2>1. /\ phone[m] \in {"ok", "failed"} /\ phone' = [phone EXCEPT ![m] = "due"]
          /\ lost' = [lost EXCEPT ![m] = @ + 1]
          /\ faults < MaxFaults /\ faults' = faults + 1
          /\ UNCHANGED <<orphans, rows>>
      BY <1>9 DEF LoseAnswer, Fault
    <2> QED BY <1>0, <2>1
  <1> QED BY <1>1, <1>2, <1>3, <1>4, <1>5, <1>6, <1>7, <1>8, <1>9

LEMMA StepCrash ==
    ASSUME Inv, Crash
    PROVE  /\ PublishTypes' /\ AnsweredIsStored' /\ RowsOwed'
           /\ faults' \in 0..MaxFaults
  <1>0. /\ PublishTypes /\ faults \in 0..MaxFaults /\ MaxFaults \in Nat
        /\ AnsweredIsStored /\ RowsOwed
    BY LocationsAssumption DEF LocationsAssumption, Inv, TypeOK, PublishTypes
  <1> DEFINE open == {m \in Message : phone[m] \in {"sent", "ok", "failed"}}
  <1>1. /\ phone' = [m \in Message |-> IF m \in open THEN "due" ELSE phone[m]]
        /\ lost' = [m \in Message |-> IF m \in open THEN lost[m] + 1 ELSE lost[m]]
        /\ orphans' = [m \in Message |-> 0]
        /\ faults < MaxFaults /\ faults' = faults + 1
        /\ rows' = rows
    BY DEF Crash, Fault
  <1>2. PublishTypes' /\ faults' \in 0..MaxFaults
    BY <1>0, <1>1 DEF PublishTypes
  <1>3. AnsweredIsStored' /\ RowsOwed'
    BY <1>0, <1>1 DEF PublishTypes, AnsweredIsStored, RowsOwed, Answered
  <1> QED BY <1>2, <1>3

(***************************************************************************)
(* Importing.                                                              *)
(***************************************************************************)
ImportTypes ==
    /\ file \in File \union {NoFile}
    /\ at \in Nat \ {0}
    /\ DOMAIN copies = File
    /\ \A f \in File : copies[f] \in [DOMAIN f -> Nat]
    /\ pending = IF file = NoFile THEN {} ELSE 1..(at - 1)
    /\ file # NoFile => at <= Len(file) + 1

Importing ==
    \/ \E f \in File : StartImport(f)
    \/ InsertRecord \/ CommitImport \/ RejectRecord \/ StopImport

LEMMA StepImport ==
    ASSUME Inv, Importing
    PROVE  ImportTypes' /\ ImportWhole' /\ faults' \in 0..MaxFaults /\ imports' \in Nat
  <1>0. /\ ImportTypes /\ ImportWhole
        /\ faults \in 0..MaxFaults /\ MaxFaults \in Nat /\ imports \in Nat
    BY LocationsAssumption DEF LocationsAssumption, Inv, TypeOK, ImportTypes
  <1> USE DEF ImportTypes, ImportWhole
  <1>1. ASSUME NEW f \in File, StartImport(f)
        PROVE  ImportTypes' /\ ImportWhole' /\ faults' \in 0..MaxFaults /\ imports' \in Nat
    <2>1. /\ file = NoFile /\ file' = f /\ at' = 1 /\ imports' = imports + 1
          /\ UNCHANGED <<pending, copies, faults>>
      BY <1>1 DEF StartImport
    <2>2. f # NoFile /\ Len(f) \in Nat
      BY FileType
    <2> QED BY <1>0, <2>1, <2>2
  <1>2. CASE InsertRecord
    <2>1. /\ file # NoFile /\ at <= Len(file) /\ at' = at + 1
          /\ copies' = copies /\ pending' = pending \union {at}
          /\ UNCHANGED <<file, faults, imports>>
      BY <1>2 DEF InsertRecord, Inserted
    <2>2. Len(file) \in Nat
      BY <1>0, <2>1, FileType
    <2> QED BY <1>0, <2>1, <2>2
  <1>3. CASE CommitImport
    <2>1. /\ file \in File /\ at > Len(file) /\ file' = NoFile
          /\ copies' = WithPlaces(pending) /\ pending' = {}
          /\ UNCHANGED <<at, faults, imports>>
      BY <1>0, <1>3 DEF CommitImport
    <2>2. Len(file) \in Nat /\ DOMAIN file = 1..Len(file)
      BY <2>1, FileType
    <2>3. pending = DOMAIN file
      BY <1>0, <1>3, <2>1, <2>2 DEF CommitImport
    <2>4. copies' = [copies EXCEPT ![file] = [k \in DOMAIN file |-> copies[file][k] + 1]]
      BY <1>0, <2>1, <2>3 DEF WithPlaces
    <2>5. /\ DOMAIN copies' = File
          /\ copies'[file] = [k \in DOMAIN file |-> copies[file][k] + 1]
          /\ \A f \in File \ {file} : copies'[f] = copies[f]
      BY <1>0, <2>1, <2>4
    <2>6. \A f \in File : copies'[f] \in [DOMAIN f -> Nat]
      BY <1>0, <2>1, <2>5
    <2>7. ImportWhole'
      BY <1>0, <2>1, <2>5
    <2> QED BY <1>0, <2>1, <2>5, <2>6, <2>7
  <1>4. ASSUME Rollback
        PROVE  ImportTypes' /\ ImportWhole' /\ imports' \in Nat
    <2>1. file' = NoFile /\ pending' = {} /\ UNCHANGED <<at, copies, imports>>
      BY <1>4 DEF Rollback
    <2> QED BY <1>0, <2>1
  <1>5. CASE RejectRecord
    BY <1>0, <1>4, <1>5 DEF RejectRecord
  <1>6. CASE StopImport
    BY <1>0, <1>4, <1>6 DEF StopImport, Fault
  <1> QED BY <1>1, <1>2, <1>3, <1>5, <1>6 DEF Importing

(***************************************************************************)
(* The clock only goes on, a message gets the time it shows, a file is not *)
(* opened before the times it holds, and only an open one gets rows.       *)
(***************************************************************************)
LEMMA StepAhead ==
    ASSUME Inv, [Next]_vars
    PROVE  NothingAhead'
  <1>0. /\ clock \in Nat /\ tst \in [Message -> Nat]
        /\ PastTimes /\ PastFiles /\ ImportTypes
    BY DEF Inv, TypeOK, NothingAhead, ImportTypes
  <1>1. /\ clock' \in Nat /\ clock <= clock'
        /\ \A m \in Message : tst'[m] \in {tst[m], clock}
    BY <1>0 DEF Next, vars, Tick, Take, Send, Retry, Drop, Acknowledge, HandlePublish,
                Timeout, HandleOrphan, LoseAnswer, Crash, StartImport, InsertRecord,
                CommitImport, RejectRecord, StopImport, Rollback
  <1>2. PastTimes'
    <2> SUFFICES ASSUME NEW m \in Message PROVE tst'[m] <= clock'
      BY DEF PastTimes
    <2>1. tst[m] \in Nat /\ tst[m] <= clock
      BY <1>0 DEF PastTimes
    <2> QED BY <1>0, <1>1, <2>1
  <1>3. ASSUME NEW f \in File, PastFile(f) PROVE PastFile(f)'
    <2> SUFFICES ASSUME NEW k \in DOMAIN f PROVE f[k].time <= clock'
      BY DEF PastFile
    <2>1. f[k].time \in Nat
      BY FileType
    <2>2. f[k].time <= clock
      BY <1>3 DEF PastFile
    <2> QED BY <1>0, <1>1, <2>1, <2>2
  <1>4. \/ UNCHANGED <<file, copies>>
        \/ \E f \in File : StartImport(f)
        \/ InsertRecord
        \/ CommitImport
        \/ RejectRecord
        \/ StopImport
    BY DEF Next, vars, publishVars, importVars, Tick, Take, Send, Retry, Drop,
           Acknowledge, HandlePublish, Timeout, HandleOrphan, LoseAnswer, Crash
  <1>5. CASE \/ UNCHANGED <<file, copies>>
             \/ InsertRecord
             \/ RejectRecord
             \/ StopImport
    <2>1. copies' = copies /\ file' \in {file, NoFile}
      BY <1>5 DEF InsertRecord, Inserted, RejectRecord, StopImport, Rollback
    <2>2. \A f \in File : (\E k \in DOMAIN f : copies'[f][k] > 0) => PastFile(f)'
      BY <1>0, <1>3, <2>1 DEF PastFiles
    <2>3. ASSUME file' # NoFile PROVE \A k \in DOMAIN file' : file'[k].time <= clock'
      <3>1. file' = file /\ file \in File /\ PastFile(file)
        BY <1>0, <2>1, <2>3 DEF PastFiles, ImportTypes
      <3>2. PastFile(file)'
        <4>1. \A k \in DOMAIN file : file[k].time \in Nat
          BY <3>1, FileType
        <4>2. \A k \in DOMAIN file : file[k].time <= clock'
          BY <1>0, <1>1, <3>1, <4>1 DEF PastFile
        <4> QED BY <3>1, <4>2 DEF PastFile
      <3> QED BY <3>2 DEF PastFile
    <2>4. PastFiles'
      BY <2>2, <2>3 DEF PastFiles, PastFile
    <2> QED BY <1>2, <2>4 DEF NothingAhead
  <1>6. ASSUME NEW f \in File, StartImport(f) PROVE NothingAhead'
    <2>1. file' = f /\ copies' = copies /\ PastFile(f)
      BY <1>6 DEF StartImport, PastFile
    <2> QED BY <1>0, <1>2, <1>3, <2>1 DEF NothingAhead, PastFiles, PastFile
  <1>7. CASE CommitImport
    <2>1. file \in File /\ file' = NoFile /\ PastFile(file) /\ copies' = WithPlaces(pending)
      BY <1>0, <1>7 DEF CommitImport, PastFiles, ImportTypes
    <2>2. \A f \in File \ {file} : copies'[f] = copies[f]
      BY <1>0, <2>1 DEF WithPlaces, ImportTypes
    <2> QED BY <1>0, <1>2, <1>3, <2>1, <2>2 DEF NothingAhead, PastFiles, PastFile
  <1> QED BY <1>4, <1>5, <1>6, <1>7

-----------------------------------------------------------------------------
LEMMA StepInv == Inv /\ [Next]_vars => Inv'
  <1> SUFFICES ASSUME Inv, [Next]_vars PROVE Inv'
    OBVIOUS
  <1>0. /\ PublishTypes /\ ImportTypes
        /\ clock \in Nat /\ tst \in [Message -> Nat] /\ imports \in Nat
        /\ faults \in 0..MaxFaults
    BY DEF Inv, TypeOK, PublishTypes, ImportTypes
  <1>6. NothingAhead'
    BY StepAhead
  <1> USE DEF Inv, TypeOK
  <1>1. CASE Tick
    BY <1>0, <1>6, <1>1 DEF Tick, publishVars, importVars, AnsweredIsStored, RowsOwed, Answered,
                      ImportWhole
  <1>2. CASE Publishing
    <2>1. UNCHANGED <<clock, importVars, imports>>
      BY <1>2 DEF Publishing, Take, Send, Retry, Drop, Acknowledge, HandlePublish,
                  Timeout, HandleOrphan, LoseAnswer
    <2>2. tst' \in [Message -> Nat]
      BY <1>0, <1>2 DEF Publishing, Take, Send, Retry, Drop, Acknowledge,
                        HandlePublish, Timeout, HandleOrphan, LoseAnswer
    <2>3. PublishTypes' /\ AnsweredIsStored' /\ RowsOwed' /\ faults' \in 0..MaxFaults
      BY <1>2, StepPublish
    <2>4. ImportTypes' /\ ImportWhole'
      BY <1>0, <2>1 DEF importVars, ImportTypes, ImportWhole
    <2>5. clock' \in Nat /\ imports' \in Nat
      BY <1>0, <2>1
    <2> QED BY <1>6, <2>2, <2>3, <2>4, <2>5 DEF PublishTypes, ImportTypes
  <1>3. CASE Crash
    <2>1. UNCHANGED <<clock, tst, importVars, imports>>
      BY <1>3 DEF Crash
    <2>2. PublishTypes' /\ AnsweredIsStored' /\ RowsOwed' /\ faults' \in 0..MaxFaults
      BY <1>3, StepCrash
    <2>3. ImportTypes' /\ ImportWhole'
      BY <1>0, <2>1 DEF importVars, ImportTypes, ImportWhole
    <2> QED BY <1>0, <1>6, <2>1, <2>2, <2>3 DEF PublishTypes, ImportTypes
  <1>4. CASE Importing
    <2>1. UNCHANGED <<clock, tst, publishVars>>
      BY <1>4 DEF Importing, StartImport, InsertRecord, CommitImport, RejectRecord,
                  StopImport, Rollback
    <2>2. ImportTypes' /\ ImportWhole' /\ faults' \in 0..MaxFaults /\ imports' \in Nat
      BY <1>4, StepImport
    <2>3. PublishTypes' /\ AnsweredIsStored' /\ RowsOwed'
      BY <1>0, <2>1 DEF publishVars, PublishTypes, AnsweredIsStored, RowsOwed, Answered
    <2> QED BY <1>0, <1>6, <2>1, <2>2, <2>3 DEF PublishTypes, ImportTypes
  <1>5. CASE UNCHANGED vars
    BY <1>0, <1>5, <1>6 DEF vars, publishVars, importVars, AnsweredIsStored, RowsOwed, Answered,
                      ImportWhole
  <1> QED BY <1>1, <1>2, <1>3, <1>4, <1>5 DEF Next, Publishing, Importing

LEMMA InvHolds == SafetySpec => []Inv
  <1> QED BY InitInv, StepInv, PTL DEF SafetySpec

\* The variables have their types, and an open import has inserted exactly the
\* records before its place.
THEOREM TypeCorrect == SafetySpec => []TypeOK
  <1>1. Inv => TypeOK
    BY DEF Inv
  <1> QED BY <1>1, InvHolds, PTL

\* Whatever is repeated, lost, locked out or crashes, a location the phone was
\* told is stored has a row.
THEOREM AcknowledgedStays == SafetySpec => []AcknowledgedIsStored
  <1>1. Inv => AcknowledgedIsStored
    BY DEF Inv, AnsweredIsStored, AcknowledgedIsStored
  <1> QED BY <1>1, InvHolds, PTL

\* A message has at most one row for each answer that was lost, and one for the
\* one that arrived.
THEOREM RowsAreOwed == SafetySpec => []OneRowPerLostAnswer
  <1>1. ASSUME Inv PROVE OneRowPerLostAnswer
    <2> SUFFICES ASSUME NEW m \in Message PROVE rows[m] <= lost[m] + Answered(m)
      BY Zenon DEF OneRowPerLostAnswer
    <2>1. rows[m] \in Nat /\ orphans[m] \in Nat /\ lost[m] \in Nat
      BY <1>1 DEF Inv, TypeOK
    <2>2. rows[m] + orphans[m] <= lost[m] + Answered(m)
      BY <1>1 DEF Inv, RowsOwed
    <2>3. Answered(m) \in Nat
      BY DEF Answered
    <2> QED BY <2>1, <2>2, <2>3
  <1> QED BY <1>1, InvHolds, PTL

\* However an import ends, all records of its file have as many rows.
THEOREM ImportsAreWhole == SafetySpec => []ImportWhole
  <1>1. Inv => ImportWhole
    BY DEF Inv
  <1> QED BY <1>1, InvHolds, PTL

(***************************************************************************)
(* Reading.  Texts are compared, local time first, and the local time of   *)
(* an earlier instant is ahead of that of a later one by Shift at most.    *)
(***************************************************************************)
LEMMA TextOrder ==
    ASSUME NEW s \in Nat, NEW r \in Nat, ~TextLess(Text(s), Text(r))
    PROVE  r <= s + Shift
  <1>1. /\ StandardOffset \in Int /\ Shift \in Nat /\ ChangeAt \in Nat
    BY LocationsAssumption DEF LocationsAssumption
  <1>2. /\ Offset(s) \in Int /\ Offset(r) \in Int
        /\ Offset(s) - Offset(r) <= Shift
    BY <1>1 DEF Offset
  <1>3. Text(s)[1] = s + Offset(s) /\ Text(r)[1] = r + Offset(r)
    BY DEF Text, Local
  <1>4. ~(s + Offset(s) < r + Offset(r))
    BY <1>3 DEF TextLess
  <1> QED BY <1>1, <1>2, <1>4

LEMMA ReadingType ==
    ASSUME TypeOK, NEW r \in Readings
    PROVE  r.time \in Nat
  <1>1. \A f \in File : \A k \in DOMAIN f : f[k].time \in Nat
    BY FileType
  <1>2. \A m \in Message : tst[m] \in Nat
    BY DEF TypeOK
  <1> QED BY <1>1, <1>2 DEF Readings

\* In every zone and for any change of its clocks, the location whose time has
\* the last text is behind the latest one by no more than that change.
THEOREM LatestIsNear == SafetySpec => []LatestWithinShift
  <1>1. ASSUME TypeOK PROVE LatestWithinShift
    <2> SUFFICES ASSUME NEW s \in Readings, LatestLocationTimestamp(s.time),
                        NEW r \in Readings
                 PROVE  r.time <= s.time + Shift
      BY Zenon DEF LatestWithinShift
    <2>1. s.time \in Nat /\ r.time \in Nat
      BY <1>1, ReadingType
    <2>2. ~TextLess(Text(s.time), Text(r.time))
      BY Zenon DEF LatestLocationTimestamp
    <2> QED BY <2>1, <2>2, TextOrder
  <1>2. Inv => TypeOK
    BY DEF Inv
  <1> QED BY <1>1, <1>2, InvHolds, PTL

LEMMA DayBounds ==
    ASSUME NEW l \in Int, NEW n \in Nat \ {0}
    PROVE  /\ l \div n \in Int
           /\ (l \div n) * n <= l
           /\ l < (l \div n) * n + n
           /\ l % n # 0 => (l \div n) * n < l
  <1>1. l = (l \div n) * n + (l % n)
    OBVIOUS
  <1>2. l \div n \in Int /\ l % n \in 0..(n - 1)
    OBVIOUS
  <1> QED BY <1>1, <1>2

LEMMA LaterDays ==
    ASSUME NEW a \in Int, NEW b \in Int, NEW n \in Nat, a <= b
    PROVE  a * n <= b * n
  OBVIOUS

LEMMA NextDay ==
    ASSUME NEW a \in Int, NEW n \in Nat
    PROVE  /\ a * n \in Int
           /\ (a + 1) * n = a * n + n
  OBVIOUS

\* The texts that are compared: local time first, then an offset that is at
\* least that of UTC, and that of UTC only where the clock is at UTC.
LEMMA TextType ==
    ASSUME NEW t \in Int
    PROVE  /\ Local(t) \in Int /\ Offset(t) \in Int
           /\ OffsetText(Offset(t)) \in Nat
           /\ OffsetText(Offset(t)) = 0 <=> Offset(t) = 0
           /\ Text(t)[1] = Local(t) /\ Text(t)[2] = OffsetText(Offset(t))
  <1>1. /\ DayLength \in Nat \ {0} /\ StandardOffset \in Int
        /\ Shift \in Nat /\ ChangeAt \in Nat
    BY LocationsAssumption DEF LocationsAssumption
  <1>2. Offset(t) \in Int
    BY <1>1 DEF Offset
  <1>3. Local(t) \in Int
    BY <1>2 DEF Local
  <1>4. /\ OffsetText(Offset(t)) \in Nat
        /\ OffsetText(Offset(t)) = 0 <=> Offset(t) = 0
    BY <1>1, <1>2 DEF OffsetText
  <1> QED BY <1>2, <1>3, <1>4 DEF Text

\* A location is in the range of a query when its local time is after the first
\* midnight, or at it with a text that comes after that of UTC, and before the
\* last tick of the last day.
LEMMA IndexBounds ==
    ASSUME NEW r \in Readings, r.time \in Nat, NEW from \in Int, NEW to \in Int
    PROVE  r \in Index(from, to)
             <=> /\ \/ from * DayLength < Local(r.time)
                    \/ from * DayLength = Local(r.time) /\ Offset(r.time) # 0
                 /\ Local(r.time) < (to + 1) * DayLength - 1
  <1>1. DayLength \in Nat
    BY LocationsAssumption DEF LocationsAssumption
  <1> DEFINE o == OffsetText(Offset(r.time))
             l == Local(r.time)
             start == from * DayLength
             end == to * DayLength
             last == (to + 1) * DayLength
  <1>2. /\ l \in Int /\ o \in Nat /\ (o = 0 <=> Offset(r.time) = 0)
        /\ Text(r.time)[1] = l /\ Text(r.time)[2] = o
    BY TextType
  <1>3. /\ StartOfDay(from)[1] = start /\ StartOfDay(from)[2] = 0
        /\ EndOfDay(to)[1] = end + DayLength - 1 /\ EndOfDay(to)[2] = 0
    BY DEF StartOfDay, EndOfDay, EndOf
  <1>4. start \in Int /\ end \in Int /\ last = end + DayLength
    BY <1>1, NextDay
  <1>5. r \in Index(from, to) <=> /\ TextLess(StartOfDay(from), Text(r.time))
                                  /\ TextLess(Text(r.time), EndOfDay(to))
    BY DEF Index, RecentLocations
  <1> HIDE DEF o, l, start, end, last
  <1>6. TextLess(StartOfDay(from), Text(r.time))
          <=> (start < l \/ (start = l /\ 0 < o))
    BY <1>2, <1>3 DEF TextLess
  <1>7. TextLess(Text(r.time), EndOfDay(to))
          <=> (l < end + DayLength - 1 \/ (l = end + DayLength - 1 /\ o < 0))
    BY <1>2, <1>3 DEF TextLess
  <1>8. r \in Index(from, to)
          <=> /\ start < l \/ (start = l /\ Offset(r.time) # 0)
              /\ l < last - 1
    BY <1>1, <1>2, <1>4, <1>5, <1>6, <1>7
  <1> QED BY <1>8 DEF l, start, last

\* Which days a local time is in, by the midnights around it.
LEMMA DayOf ==
    ASSUME NEW l \in Int, NEW n \in Nat \ {0}, NEW from \in Int, NEW to \in Int
    PROVE  /\ l \div n \in from..to <=> from * n <= l /\ l < (to + 1) * n
           /\ from * n \in Int /\ (to + 1) * n \in Int
  <1> DEFINE day == l \div n
  <1>1. day \in Int /\ day * n <= l /\ l < day * n + n
    BY DayBounds
  <1> HIDE DEF day
  <1>2. /\ day * n \in Int /\ (day + 1) * n = day * n + n
        /\ from * n \in Int /\ (to + 1) * n \in Int
    BY <1>1, NextDay
  <1>3. from <= day => from * n <= day * n
    BY <1>1, LaterDays
  <1>4. day + 1 <= from => (day + 1) * n <= from * n
    BY <1>1, LaterDays
  <1>5. day + 1 <= to + 1 => (day + 1) * n <= (to + 1) * n
    BY <1>1, LaterDays
  <1>6. to + 1 <= day => (to + 1) * n <= day * n
    BY <1>1, LaterDays
  <1>7. day \in from..to <=> from * n <= l /\ l < (to + 1) * n
    <2>1. ASSUME day \in from..to PROVE from * n <= l /\ l < (to + 1) * n
      <3>1. from <= day /\ day + 1 <= to + 1
        BY <1>1, <2>1
      <3> QED BY <1>1, <1>2, <1>3, <1>5, <3>1
    <2>2. ASSUME from * n <= l, l < (to + 1) * n PROVE day \in from..to
      <3>1. ~(day + 1 <= from)
        BY <1>1, <1>2, <1>4, <2>2
      <3>2. ~(to + 1 <= day)
        BY <1>1, <1>2, <1>6, <2>2
      <3> QED BY <1>1, <3>1, <3>2
    <2> QED BY <2>1, <2>2
  <1> QED BY <1>2, <1>7 DEF day

\* The text of a later time comes first only within the change of the clocks.
LEMMA LaterText ==
    ASSUME NEW s \in Int, NEW t \in Int
    PROVE  /\ TextLess(Text(s), Text(t)) => s <= t + Shift
           /\ s + Shift < t => TextLess(Text(s), Text(t))
  <1>1. StandardOffset \in Int /\ Shift \in Nat /\ ChangeAt \in Nat
    BY LocationsAssumption DEF LocationsAssumption
  <1>2. Text(s)[1] = s + Offset(s) /\ Text(t)[1] = t + Offset(t)
    BY DEF Text, Local
  <1>3. /\ Offset(s) \in Int /\ Offset(t) \in Int
        /\ s <= t => Offset(t) <= Offset(s) /\ Offset(s) <= Offset(t) + Shift
        /\ t <= s => Offset(s) <= Offset(t) /\ Offset(t) <= Offset(s) + Shift
    BY <1>1 DEF Offset
  <1> DEFINE a == Offset(s)
             b == Offset(t)
  <1> HIDE DEF a, b
  <1>4. TextLess(Text(s), Text(t)) => s + a <= t + b
    BY <1>2, <1>3 DEF TextLess, a, b
  <1>5. s + a < t + b => TextLess(Text(s), Text(t))
    BY <1>2 DEF TextLess, a, b
  <1>6. /\ a \in Int /\ b \in Int
        /\ s <= t => b <= a /\ a <= b + Shift
        /\ t <= s => a <= b /\ b <= a + Shift
    BY <1>3 DEF a, b
  <1> QED BY <1>1, <1>4, <1>5, <1>6

\* A location is of a time the clock has reached.
LEMMA ReadingPast ==
    ASSUME Inv, NEW r \in Readings
    PROVE  r.time <= clock
  <1>1. \A m \in Message : tst[m] <= clock
    BY DEF Inv, NothingAhead, PastTimes
  <1>2. \A f \in File : \A k \in DOMAIN f : copies[f][k] > 0 => f[k].time <= clock
    BY DEF Inv, NothingAhead, PastFiles, PastFile
  <1> QED BY <1>1, <1>2 DEF Readings

\* In every zone, for days of any length and any days that are asked for, the
\* index page shows the locations of those local days but for the last tick of
\* the last and, at UTC, the first of the first, and no others; and by default
\* all of the time of Window up to now, to within the change of the clocks.
THEOREM IndexIsLocal == SafetySpec => []IndexShowsRange
  <1>1. ASSUME Inv PROVE IndexShowsRange
    <2>0. TypeOK /\ clock \in Nat
      BY <1>1 DEF Inv, TypeOK
    <2>1. /\ DayLength \in Nat \ {0} /\ Window \in Nat /\ Shift \in Nat
          /\ Shift < DayLength - 1
      BY LocationsAssumption DEF LocationsAssumption
    <2>2. ASSUME NEW r \in Readings,
                 NEW from \in 0..(MaxClock \div DayLength + 1),
                 NEW to \in 0..(MaxClock \div DayLength + 1)
          PROVE  r \in Index(from, to)
                   <=> /\ Local(r.time) \div DayLength \in from..to
                       /\ Local(r.time) # (to + 1) * DayLength - 1
                       /\ ~(Local(r.time) = from * DayLength /\ Offset(r.time) = 0)
      <3>1. r.time \in Nat /\ from \in Int /\ to \in Int
        BY <2>0, ReadingType
      <3>2. Local(r.time) \in Int
        <4>1. r.time \in Int
          BY <3>1
        <4> QED BY Zenon, <4>1, TextType
      <3> DEFINE l == Local(r.time)
                 start == from * DayLength
                 last == (to + 1) * DayLength
      <3>3. r \in Index(from, to)
              <=> /\ start < l \/ (start = l /\ Offset(r.time) # 0)
                  /\ l < last - 1
        BY <3>1, IndexBounds
      <3> HIDE DEF l
      <3>4. /\ l \div DayLength \in from..to <=> start <= l /\ l < last
            /\ start \in Int /\ last \in Int
        BY <2>1, <3>1, <3>2, DayOf DEF l
      <3> HIDE DEF start, last
      <3>5. r \in Index(from, to)
              <=> /\ l \div DayLength \in from..to
                  /\ l # last - 1
                  /\ ~(l = start /\ Offset(r.time) = 0)
        BY <3>2, <3>3, <3>4 DEF l
      <3> QED BY <3>5 DEF l, start, last
    <2>3. ASSUME NEW r \in Readings
          PROVE  /\ r \in DefaultIndex => r.time >= clock - Window - Shift
                 /\ r.time > clock - Window + Shift => r \in DefaultIndex
      <3>1. r.time \in Nat /\ r.time <= clock
        BY <1>1, <2>0, ReadingType, ReadingPast
      <3>2. clock - Window \in Int /\ EndOf(clock) \in Int /\ r.time + Shift < EndOf(clock)
        BY <2>0, <2>1, <3>1 DEF EndOf
      <3>3. /\ TextLess(Text(clock - Window), Text(r.time))
                 => clock - Window <= r.time + Shift
            /\ (clock - Window) + Shift < r.time
                 => TextLess(Text(clock - Window), Text(r.time))
        BY <3>1, <3>2, LaterText
      <3>4. TextLess(Text(r.time), Text(EndOf(clock)))
        BY <3>1, <3>2, LaterText
      <3>5. r \in DefaultIndex <=> TextLess(Text(clock - Window), Text(r.time))
        BY <3>4 DEF DefaultIndex, RecentLocations
      <3> QED BY <2>0, <2>1, <3>1, <3>3, <3>5
    <2> QED BY <2>2, <2>3 DEF IndexShowsRange
  <1> QED BY <1>1, InvHolds, PTL

=============================================================================
