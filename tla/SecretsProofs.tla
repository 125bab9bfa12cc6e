---------------------------- MODULE SecretsProofs ---------------------------
(***************************************************************************)
(* What MCSecrets checks of the secrets as invariants, proved for any      *)
(* number of requests, tokens, crashes and failed writes.                  *)
(*                                                                         *)
(* The invariant has a part for each way in which requests can meet, and   *)
(* says what holds as long as that has not happened, whatever else has: a  *)
(* request that no other was served with (AloneSaves), a file that no two  *)
(* had open at once (File), Saves that did not begin within each other     *)
(* (Key), and pairs that nobody touched when they were half set (Pair).    *)
(***************************************************************************)
EXTENDS Secrets, TLAPS

\* No other request is served with one that is alone, and nothing comes between
\* its steps: its token is in the struct, and what it writes is the struct.
AloneSaves ==
    \A h \in Handler :
        alone[h] /\ pc[h] # "idle" =>
            /\ \A g \in Handler \ {h} : pc[g] = "idle"
            /\ pc[h] \in {"open", "write"} => text[h] = mem
            /\ pc[h] = "write" => disk = Empty
            /\ pc[h] = "reply" /\ Saves(kind[h]) => disk = mem
            /\ pc[h] = "sec" => mem.tok = new[h]
            /\ pc[h] \in {"marshal", "open", "write", "reply"} =>
                /\ kind[h] = "fsqcallback" => mem.fsq = new[h]
                /\ kind[h] = "tripitcallback" => mem.tok = new[h] /\ mem.sec = new[h]

\* The Foursquare callback sets the key, and the other requests the pair.
KindsOfSteps ==
    \A h \in Handler : IF kind[h] = "fsqcallback" THEN pc[h] \notin {"tok", "sec"}
                                                  ELSE pc[h] # "fsq"

\* As long as no two requests have the file open: the one that has truncated it
\* finds it so, and with nobody writing it is whole, or as a cut Save left it.
File ==
    /\ ~mixed =>
        /\ \A g, h \in Writing : g = h
        /\ Writing # {} => disk = Empty /\ ~cut
        /\ Writing = {} => IF cut THEN disk = Empty ELSE disk = Absent \/ disk \in Value
    /\ up = "fatal" => cut \/ mixed

\* Key x, or a newer one, is in every text that may be written, and in the file.
InTexts(x) == \A h \in Saving : text[h].fsq >= x
InFile(x) == Writing = {} /\ ~cut /\ x # 0 => disk \in Value /\ disk.fsq >= x

Setter(h) == kind[h] = "fsqcallback" /\ pc[h] \in {"marshal", "open", "write", "reply"}

\* As long as Saves do not begin within each other: the struct has the keys that
\* were set, a Save takes one from there to the file, and what is answered
\* "saved" is there.
Key ==
    ~crossed =>
        /\ ~mixed
        /\ \A g, h \in Saving : g = h
        /\ up = "up" => mem.fsq >= fsqSaved
        /\ InTexts(fsqSaved) /\ InFile(fsqSaved)
        /\ \A h \in Handler : Setter(h) =>
            /\ mem.fsq >= new[h]
            /\ pc[h] # "marshal" => InTexts(new[h])
            /\ pc[h] = "reply" => InFile(new[h])

\* As long as a pair is set without another request between: at most one is half
\* set, and what is saved is whole.
Pair ==
    ~split =>
        /\ \A g, h \in Handler : pc[g] = "sec" /\ pc[h] = "sec" => g = h
        /\ \A h \in Handler : pc[h] = "sec" => mem.tok = new[h]
        /\ (\A h \in Handler : pc[h] # "sec") => mem.tok = mem.sec
        /\ \A h \in Saving : text[h].tok = text[h].sec
        /\ disk \in Value => disk.tok = disk.sec

Inv == TypeOK /\ AloneSaves /\ KindsOfSteps /\ File /\ Key /\ Pair
-----------------------------------------------------------------------------
LEMMA Numbers ==
    /\ Token \subseteq Nat /\ 0 \in Token
    /\ NoSecrets \in Value
    /\ NoSecrets.fsq = 0 /\ NoSecrets.tok = NoSecrets.sec
    /\ \A v \in Value : v.fsq \in Nat
  BY SecretsAssumption DEF SecretsAssumption, Token, Value, NoSecrets

\* No value of the struct is one of the three states of a file that has none.
LEMMA NotAValue ==
    /\ Absent \notin Value /\ Empty \notin Value /\ Garbage \notin Value
    /\ Absent # Empty /\ Absent # Garbage /\ Empty # Garbage
  BY SecretsAssumption DEF SecretsAssumption

LEMMA InitInv == Init => Inv
  <1> SUFFICES ASSUME Init PROVE Inv
    OBVIOUS
  <1>1. TypeOK
    <2>1. /\ mem \in Value /\ fsqSaved \in Token /\ tripitSaved \in Token
          /\ new \in [Handler -> Token] /\ text \in [Handler -> Value]
          /\ issued \in Token /\ used \in Token
      BY Numbers DEF Init
    <2>2. requests \subseteq 1..issued /\ faults \in 0..MaxFaults
      BY SecretsAssumption DEF SecretsAssumption, Init
    <2> QED BY <2>1, <2>2 DEF Init, TypeOK
  <1>2. Saving = {} /\ Writing = {}
    BY DEF Init, Saving, Writing
  <1>3. AloneSaves /\ KindsOfSteps
    BY DEF Init, AloneSaves, KindsOfSteps
  <1>4. File
    BY <1>2 DEF Init, File
  <1>5. Key
    BY <1>2, Numbers DEF Init, Key, InTexts, InFile, Setter
  <1>6. Pair
    BY <1>2, Numbers, NotAValue DEF Init, Pair
  <1> QED BY <1>1, <1>3, <1>4, <1>5, <1>6 DEF Inv

Steps == {"idle", "fsq", "tok", "sec", "marshal", "open", "write", "reply"}
Kinds == {"connect", "fsqcallback", "tripitcallback"}

\* A token is given out: requests that are served at the same time are not alone
\* any more.  Neither the struct nor the file is touched.
LEMMA BeginInv ==
    ASSUME Inv, NEW h \in Handler,
           Connect(h) \/ FsqCallback(h) \/ TripitCallback(h)
    PROVE  Inv'
  <1>1. PICK k \in Kinds, l \in {"fsq", "tok"} :
            /\ Begin(h, k, l)
            /\ k = "fsqcallback" <=> l = "fsq"
    BY DEF Connect, FsqCallback, TripitCallback, Kinds
  <1>2. /\ issued' \in Token
        /\ requests' \subseteq 1..issued'
    <2>1. issued < MaxIssued /\ issued \in 0..MaxIssued /\ issued' = issued + 1
      BY <1>1 DEF Begin, Inv, TypeOK, Token
    <2>2. requests \subseteq 1..issued
      BY DEF Inv, TypeOK
    <2>3. requests' \subseteq requests \union {issued + 1}
      BY DEF Connect, FsqCallback, TripitCallback
    <2>4. issued \in Nat /\ issued' \in Token
      BY <2>1, SecretsAssumption DEF SecretsAssumption, Token
    <2>5. requests \union {issued + 1} \subseteq 1..(issued + 1)
      BY <2>2, <2>4
    <2> QED BY <2>1, <2>3, <2>4, <2>5
  <1>3. /\ pc[h] = "idle" /\ up = "up"
        /\ pc' = [pc EXCEPT ![h] = l]
        /\ kind' = [kind EXCEPT ![h] = k]
        /\ new' = [new EXCEPT ![h] = issued']
        /\ UNCHANGED <<mem, disk, up, text, used, faults, fsqSaved, tripitSaved,
                       crossed, split, mixed, cut>>
    BY <1>1 DEF Begin, savedVars, overlapVars, tearVars
  <1>4. /\ alone' \in [Handler -> BOOLEAN]
        /\ \A g \in Handler \ {h} : alone'[g] => alone[g] /\ pc[g] = "idle"
        /\ alone'[h] = (Busy = {})
    BY <1>1 DEF Begin, Inv, TypeOK
  <1>5. /\ pc' \in [Handler -> Steps]
        /\ kind' \in [Handler -> Kinds]
        /\ new' \in [Handler -> Token]
        /\ pc'[h] = l /\ kind'[h] = k
        /\ \A g \in Handler \ {h} : pc'[g] = pc[g] /\ kind'[g] = kind[g] /\ new'[g] = new[g]
    BY <1>2, <1>3 DEF Inv, TypeOK, Steps, Kinds
  <1>6. TypeOK'
    BY <1>2, <1>3, <1>4, <1>5 DEF Inv, TypeOK, Steps, Kinds
  <1>7. AloneSaves'
    <2> SUFFICES ASSUME NEW g \in Handler, alone'[g], pc'[g] # "idle"
                 PROVE  /\ \A i \in Handler \ {g} : pc'[i] = "idle"
                        /\ pc'[g] \in {"fsq", "tok"}
      BY DEF AloneSaves
    <2>1. g = h
      BY <1>4, <1>5
    <2>2. \A i \in Handler : pc[i] = "idle"
      BY <1>4, <2>1 DEF Busy
    <2> QED BY <1>5, <2>1, <2>2
  <1>8. KindsOfSteps'
    BY <1>1, <1>5 DEF Inv, KindsOfSteps
  <1>9. Saving' = Saving /\ Writing' = Writing
    BY <1>3, <1>5 DEF Saving, Writing
  <1>10. File'
    BY <1>3, <1>9 DEF Inv, File
  <1>11. Key'
    BY <1>3, <1>5, <1>9 DEF Inv, Key, InTexts, InFile, Setter
  <1>12. Pair'
    <2>1. \A g \in Handler : pc'[g] = "sec" <=> pc[g] = "sec"
      BY <1>3, <1>5
    <2>2. \A g \in Handler : pc[g] = "sec" => new'[g] = new[g]
      BY <1>3, <1>5
    <2> QED BY <1>3, <1>9, <2>1, <2>2 DEF Inv, Pair
  <1> QED BY <1>6, <1>7, <1>8, <1>10, <1>11, <1>12 DEF Inv

\* What a step of a request that goes on leaves as it is.
LEMMA ProceedType ==
    ASSUME Inv, NEW h \in Handler, NEW l, Proceed(h, l), pc[h] # "idle",
           l \in {"sec", "marshal", "open", "write", "reply"}
    PROVE  /\ up = "up" /\ up' = "up"
           /\ pc' \in [Handler -> Steps]
           /\ pc'[h] = l
           /\ \A g \in Handler \ {h} : pc'[g] = pc[g]
           /\ UNCHANGED <<kind, new, issued, requests, used, faults, fsqSaved, tripitSaved,
                          alone>>
           /\ \A g \in Handler \ {h} : alone[g] => pc[g] = "idle"
           /\ alone[h] => \A g \in Handler \ {h} : pc[g] = "idle"
           /\ new[h] \in Nat /\ fsqSaved \in Nat
           /\ mem.fsq \in Nat
  BY Numbers DEF Proceed, tokenVars, savedVars, Inv, TypeOK, AloneSaves, Steps

\* The struct after an assignment to one of its fields.
LEMMA AssignType ==
    ASSUME Inv, NEW h \in Handler, NEW field \in {"fsq", "tok", "sec"}, Assign(h, field)
    PROVE  /\ mem' \in Value
           /\ mem'.fsq = IF field = "fsq" THEN new[h] ELSE mem.fsq
           /\ mem'.tok = IF field = "tok" THEN new[h] ELSE mem.tok
           /\ mem'.sec = IF field = "sec" THEN new[h] ELSE mem.sec
           /\ UNCHANGED <<disk, text>>
  <1>1. mem \in Value /\ new[h] \in Token /\ mem' = [mem EXCEPT ![field] = new[h]]
    BY DEF Assign, Inv, TypeOK
  <1>2. CASE field = "fsq"
    BY <1>1, <1>2 DEF Assign, Value
  <1>3. CASE field = "tok"
    BY <1>1, <1>3 DEF Assign, Value
  <1>4. CASE field = "sec"
    BY <1>1, <1>4 DEF Assign, Value
  <1> QED BY <1>2, <1>3, <1>4

\* The assignments.  Nobody begins or ends to write, and the file is as it was.
LEMMA AssignInv ==
    ASSUME Inv, NEW h \in Handler, SetFsq(h) \/ SetTok(h) \/ SetSec(h)
    PROVE  Inv'
  <1>1. PICK l \in {"sec", "marshal", "reply"}, field \in {"fsq", "tok", "sec"} :
            /\ Proceed(h, l) /\ Assign(h, field)
            /\ pc[h] = field
            /\ field = "fsq" => SetFsq(h)
            /\ field = "tok" => SetTok(h)
            /\ field = "sec" => SetSec(h)
            /\ field = "tok" <=> l = "sec"
            /\ l = "reply" => ~Saves(kind[h])
    BY DEF SetFsq, SetTok, SetSec, SaveOrReply
  <1>2. /\ up = "up" /\ up' = "up"
        /\ pc' \in [Handler -> Steps]
        /\ pc'[h] = l
        /\ \A g \in Handler \ {h} : pc'[g] = pc[g]
        /\ UNCHANGED <<kind, new, issued, requests, used, faults, fsqSaved, tripitSaved, alone>>
        /\ \A g \in Handler \ {h} : alone[g] => pc[g] = "idle"
        /\ alone[h] => \A g \in Handler \ {h} : pc[g] = "idle"
        /\ new[h] \in Nat /\ fsqSaved \in Nat
        /\ mem.fsq \in Nat
    BY <1>1, ProceedType
  <1>3. /\ mem' \in Value
        /\ field = "fsq" => mem'.fsq = new[h] /\ mem'.tok = mem.tok /\ mem'.sec = mem.sec
        /\ field = "tok" => mem'.fsq = mem.fsq /\ mem'.tok = new[h] /\ mem'.sec = mem.sec
        /\ field = "sec" => mem'.fsq = mem.fsq /\ mem'.tok = mem.tok /\ mem'.sec = new[h]
        /\ UNCHANGED <<disk, text>>
    BY AssignType, <1>1
  <1>4. /\ UNCHANGED <<mixed, cut>>
        /\ crossed' = IF field = "fsq" THEN (crossed \/ new[h] < mem.fsq) ELSE crossed
        /\ split' = IF field = "tok" THEN (split \/ PairIsOpen(h)) ELSE split
        /\ crossed \in BOOLEAN /\ split \in BOOLEAN
    <2>1. crossed \in BOOLEAN /\ split \in BOOLEAN
      BY DEF Inv, TypeOK
    <2>2. CASE field = "fsq"
      BY <1>1, <2>1, <2>2 DEF SetFsq, tearVars
    <2>3. CASE field = "tok"
      BY <1>1, <2>1, <2>3 DEF SetTok, tearVars
    <2>4. CASE field = "sec"
      BY <1>1, <2>1, <2>4 DEF SetSec, overlapVars, tearVars
    <2> QED BY <2>2, <2>3, <2>4
  <1>5. Saving' = Saving /\ Writing' = Writing
    BY <1>1, <1>2 DEF Saving, Writing
  <1>6. TypeOK'
    <2>1. crossed' \in BOOLEAN /\ split' \in BOOLEAN
      BY <1>4
    <2> QED BY <1>2, <1>3, <1>4, <2>1 DEF Inv, TypeOK, Steps
  <1>7. KindsOfSteps' /\ (kind[h] = "fsqcallback" <=> field = "fsq")
    <2>1. kind[h] = "fsqcallback" <=> field = "fsq"
      BY <1>1 DEF Inv, KindsOfSteps
    <2> QED BY <1>1, <1>2, <2>1 DEF Inv, KindsOfSteps
  <1>8. AloneSaves'
    <2> SUFFICES ASSUME NEW g \in Handler, alone[g], pc'[g] # "idle"
                 PROVE  /\ \A i \in Handler \ {g} : pc'[i] = "idle"
                        /\ pc'[g] \notin {"open", "write"}
                        /\ pc'[g] = "reply" => ~Saves(kind[g])
                        /\ pc'[g] = "sec" => mem'.tok = new[g]
                        /\ pc'[g] \in {"marshal", "open", "write", "reply"} =>
                            /\ kind[g] = "fsqcallback" => mem'.fsq = new[g]
                            /\ kind[g] = "tripitcallback" =>
                                mem'.tok = new[g] /\ mem'.sec = new[g]
      BY <1>2 DEF AloneSaves
    <2>1. g = h
      BY <1>2
    <2>2. field = "sec" => mem.tok = new[h]
      BY <1>1, <2>1 DEF Inv, AloneSaves
    <2> QED BY <1>1, <1>2, <1>3, <1>7, <2>1, <2>2
  <1>9. File'
    BY <1>2, <1>3, <1>4, <1>5 DEF Inv, File
  <1>10. Key'
    <2> SUFFICES ASSUME ~crossed' PROVE Key'
      BY DEF Key
    <2>1. ~crossed /\ (field = "fsq" => ~(new[h] < mem.fsq))
      BY <1>4
    <2>2. mem'.fsq \in Nat /\ mem'.fsq >= mem.fsq
      BY <1>2, <1>3, <2>1
    <2>3. mem'.fsq >= fsqSaved
      BY <1>2, <2>1, <2>2 DEF Inv, Key
    <2>4. \A g \in Handler : new[g] \in Nat
      BY Numbers DEF Inv, TypeOK
    <2>5. ASSUME NEW g \in Handler, Setter(g)'
          PROVE  /\ mem'.fsq >= new[g]
                 /\ pc'[g] # "marshal" => InTexts(new[g])
                 /\ pc'[g] = "reply" => InFile(new[g])
      <3>1. CASE g = h
        BY <1>1, <1>2, <1>3, <1>7, <2>5, <3>1 DEF Setter, Saves
      <3>2. CASE g # h
        <4>1. Setter(g) /\ pc'[g] = pc[g]
          BY <1>2, <2>5, <3>2 DEF Setter
        <4> QED BY <1>2, <2>1, <2>2, <2>4, <4>1 DEF Inv, Key
      <3> QED BY <3>1, <3>2
    <2>6. /\ ~mixed /\ \A g, i \in Saving : g = i
          /\ InTexts(fsqSaved) /\ InFile(fsqSaved)
      BY <2>1 DEF Inv, Key
    <2> QED BY <1>2, <1>3, <1>4, <1>5, <2>3, <2>5, <2>6 DEF Key, InTexts, InFile
  <1>11. Pair'
    <2> SUFFICES ASSUME ~split' PROVE Pair'
      BY DEF Pair
    <2>1. /\ \A g, i \in Handler : pc[g] = "sec" /\ pc[i] = "sec" => g = i
          /\ \A g \in Handler : pc[g] = "sec" => mem.tok = new[g]
          /\ (\A g \in Handler : pc[g] # "sec") => mem.tok = mem.sec
          /\ \A g \in Saving : text[g].tok = text[g].sec
          /\ disk \in Value => disk.tok = disk.sec
      BY <1>4 DEF Inv, Pair
    <2>2. CASE field = "fsq"
      BY <1>1, <1>2, <1>3, <1>5, <2>1, <2>2 DEF Pair
    <2>3. CASE field = "tok"
      <3>1. \A g \in Handler \ {h} : pc[g] # "sec"
        BY <1>4, <2>3 DEF PairIsOpen
      <3> QED BY <1>1, <1>2, <1>3, <1>5, <2>1, <2>3, <3>1 DEF Pair
    <2>4. CASE field = "sec"
      <3>1. /\ \A g \in Handler \ {h} : pc[g] # "sec"
            /\ mem.tok = new[h]
        BY <1>1, <2>1, <2>4
      <3>2. (\A g \in Handler : pc'[g] # "sec") /\ mem'.tok = mem'.sec
        BY <1>1, <1>2, <1>3, <2>4, <3>1
      <3> QED BY <1>2, <1>3, <1>5, <2>1, <3>2 DEF Pair
    <2> QED BY <2>2, <2>3, <2>4
  <1> QED BY <1>6, <1>7, <1>8, <1>9, <1>10, <1>11 DEF Inv

\* Save copies the struct.
LEMMA MarshalInv ==
    ASSUME Inv, NEW h \in Handler, Marshal(h)
    PROVE  Inv'
  <1>1. pc[h] = "marshal" /\ Proceed(h, "open")
    BY DEF Marshal
  <1>2. /\ up = "up" /\ up' = "up"
        /\ pc' \in [Handler -> Steps]
        /\ pc'[h] = "open"
        /\ \A g \in Handler \ {h} : pc'[g] = pc[g]
        /\ UNCHANGED <<kind, new, issued, requests, used, faults, fsqSaved, tripitSaved, alone>>
        /\ \A g \in Handler \ {h} : alone[g] => pc[g] = "idle"
        /\ alone[h] => \A g \in Handler \ {h} : pc[g] = "idle"
        /\ new[h] \in Nat /\ fsqSaved \in Nat
        /\ mem.fsq \in Nat
    BY <1>1, ProceedType
  <1>3. /\ text' = [text EXCEPT ![h] = mem]
        /\ text' \in [Handler -> Value]
        /\ text'[h] = mem
        /\ \A g \in Handler \ {h} : text'[g] = text[g]
        /\ UNCHANGED <<mem, disk, mixed, cut>>
        /\ mem \in Value
    BY DEF Marshal, Marshalled, tearVars, Inv, TypeOK
  <1>4. /\ crossed' \in BOOLEAN /\ split' \in BOOLEAN
        /\ ~crossed' => ~crossed /\ Saving \ {h} = {}
        /\ ~split' => ~split /\ ~PairIsOpen(h)
    BY DEF Marshal, Inv, TypeOK
  <1>5. Saving' = Saving \union {h} /\ Writing' = Writing /\ h \notin Saving
    BY <1>1, <1>2 DEF Saving, Writing
  <1>6. TypeOK'
    BY <1>2, <1>3, <1>4 DEF Inv, TypeOK, Steps
  <1>7. KindsOfSteps'
    BY <1>1, <1>2 DEF Inv, KindsOfSteps
  <1>8. AloneSaves'
    <2> SUFFICES ASSUME NEW g \in Handler, alone[g], pc'[g] # "idle"
                 PROVE  /\ \A i \in Handler \ {g} : pc'[i] = "idle"
                        /\ pc'[g] = "open"
                        /\ text'[g] = mem
                        /\ kind[g] = "fsqcallback" => mem.fsq = new[g]
                        /\ kind[g] = "tripitcallback" => mem.tok = new[g] /\ mem.sec = new[g]
      BY <1>2, <1>3 DEF AloneSaves
    <2>1. g = h
      BY <1>2
    <2> QED BY <1>1, <1>2, <1>3, <2>1 DEF Inv, AloneSaves
  <1>9. File'
    BY <1>2, <1>3, <1>5 DEF Inv, File
  <1>10. Key'
    <2> SUFFICES ASSUME ~crossed' PROVE Key'
      BY DEF Key
    <2>1. ~crossed /\ Saving' = {h}
      BY <1>4, <1>5
    <2>2. /\ ~mixed /\ mem.fsq >= fsqSaved /\ InFile(fsqSaved)
          /\ \A g \in Handler : Setter(g) => /\ mem.fsq >= new[g]
                                             /\ pc[g] = "reply" => InFile(new[g])
      BY <1>2, <2>1 DEF Inv, Key
    <2>3. InTexts(fsqSaved)' /\ \A g \in Handler : mem.fsq >= new[g] => InTexts(new[g])'
      BY <1>2, <1>3, <2>1, <2>2 DEF InTexts
    <2>4. \A g \in Handler : Setter(g)' => Setter(g) /\ (pc'[g] = "reply" => pc[g] = "reply")
      BY <1>1, <1>2 DEF Setter
    <2>5. ASSUME NEW g \in Handler, Setter(g)'
          PROVE  /\ mem'.fsq >= new'[g]
                 /\ InTexts(new[g])'
                 /\ pc'[g] = "reply" => InFile(new[g])'
      <3>1. mem.fsq >= new[g] /\ (pc'[g] = "reply" => InFile(new[g]))
        BY <2>2, <2>4, <2>5
      <3>2. InFile(new[g]) => InFile(new[g])'
        BY <1>2, <1>3, <1>5 DEF InFile
      <3> QED BY <1>2, <1>3, <2>3, <3>1, <3>2
    <2>6. InFile(fsqSaved)'
      BY <1>2, <1>3, <1>5, <2>2 DEF InFile
    <2>7. \A g, i \in Saving' : g = i
      BY <2>1
    <2> QED BY <1>2, <1>3, <2>2, <2>3, <2>5, <2>6, <2>7 DEF Key
  <1>11. Pair'
    <2> SUFFICES ASSUME ~split' PROVE Pair'
      BY DEF Pair
    <2>1. \A g \in Handler : pc[g] # "sec" /\ pc'[g] # "sec"
      BY <1>1, <1>2, <1>4 DEF PairIsOpen
    <2>2. /\ mem.tok = mem.sec
          /\ \A g \in Saving : text[g].tok = text[g].sec
          /\ disk \in Value => disk.tok = disk.sec
      BY <1>4, <2>1 DEF Inv, Pair
    <2>3. \A g \in Saving' : text'[g].tok = text'[g].sec
      <3> SUFFICES ASSUME NEW g \in Saving' PROVE text'[g].tok = text'[g].sec
        OBVIOUS
      <3>1. g \in Handler
        BY DEF Saving
      <3> QED BY <1>3, <1>5, <2>2, <3>1
    <2> QED BY <1>3, <2>1, <2>2, <2>3 DEF Pair
  <1> QED BY <1>6, <1>7, <1>8, <1>9, <1>10, <1>11 DEF Inv

\* Save truncates the file.  If nobody else is to write it, the file is free of
\* what was left in it before.
LEMMA TruncateInv ==
    ASSUME Inv, NEW h \in Handler, Truncate(h)
    PROVE  Inv'
  <1>1. pc[h] = "open" /\ Proceed(h, "write")
    BY DEF Truncate
  <1>2. /\ up = "up" /\ up' = "up"
        /\ pc' \in [Handler -> Steps]
        /\ pc'[h] = "write"
        /\ \A g \in Handler \ {h} : pc'[g] = pc[g]
        /\ UNCHANGED <<kind, new, issued, requests, used, faults, fsqSaved, tripitSaved, alone>>
        /\ \A g \in Handler \ {h} : alone[g] => pc[g] = "idle"
        /\ alone[h] => \A g \in Handler \ {h} : pc[g] = "idle"
    BY <1>1, ProceedType
  <1>3. disk' = Empty /\ UNCHANGED <<mem, text, crossed, split>>
    BY DEF Truncate, Opened
  <1>4. /\ mixed' \in BOOLEAN /\ cut' \in BOOLEAN
        /\ ~mixed' => Writing \ {h} = {} /\ ~cut'
        /\ Writing \ {h} = {} => ~mixed'
    BY DEF Truncate, Inv, TypeOK
  <1>5. Saving' = Saving /\ Writing' = Writing \union {h} /\ h \in Saving /\ Writing \subseteq Saving
    BY <1>1, <1>2 DEF Saving, Writing
  <1>6. TypeOK'
    BY <1>2, <1>3, <1>4 DEF Inv, TypeOK, Steps
  <1>7. KindsOfSteps'
    BY <1>1, <1>2 DEF Inv, KindsOfSteps
  <1>8. AloneSaves'
    <2> SUFFICES ASSUME NEW g \in Handler, alone[g], pc'[g] # "idle"
                 PROVE  /\ \A i \in Handler \ {g} : pc'[i] = "idle"
                        /\ pc'[g] = "write"
                        /\ text[g] = mem
                        /\ kind[g] = "fsqcallback" => mem.fsq = new[g]
                        /\ kind[g] = "tripitcallback" => mem.tok = new[g] /\ mem.sec = new[g]
      BY <1>2, <1>3 DEF AloneSaves
    <2>1. g = h
      BY <1>2
    <2> QED BY <1>1, <1>2, <1>3, <2>1 DEF Inv, AloneSaves
  <1>9. File'
    <2>1. ASSUME ~mixed' PROVE Writing' = {h} /\ ~cut'
      BY <1>4, <1>5, <2>1
    <2> QED BY <1>2, <1>3, <2>1 DEF File
  <1>10. Key'
    <2> SUFFICES ASSUME ~crossed PROVE Key'
      BY <1>3 DEF Key
    <2>1. \A g, i \in Saving : g = i
      BY DEF Inv, Key
    <2>2. ~mixed'
      BY <1>4, <1>5, <2>1
    <2>3. /\ mem.fsq >= fsqSaved /\ InTexts(fsqSaved)
          /\ \A g \in Handler : Setter(g) => /\ mem.fsq >= new[g]
                                             /\ pc[g] # "marshal" => InTexts(new[g])
      BY <1>2 DEF Inv, Key
    <2>4. InTexts(fsqSaved)' /\ \A g \in Handler : InTexts(new[g]) => InTexts(new[g])'
      BY <1>2, <1>3, <1>5, <2>3 DEF InTexts
    <2>5. InFile(fsqSaved)' /\ \A g \in Handler : InFile(new[g])'
      BY <1>5 DEF InFile
    <2>6. \A g \in Handler : Setter(g)' =>
            Setter(g) /\ (pc'[g] # "marshal" => pc[g] # "marshal")
      BY <1>1, <1>2 DEF Setter
    <2>7. \A g \in Handler : Setter(g)' =>
            /\ mem'.fsq >= new'[g]
            /\ pc'[g] # "marshal" => InTexts(new[g])'
            /\ pc'[g] = "reply" => InFile(new[g])'
      BY <1>2, <1>3, <2>3, <2>4, <2>5, <2>6
    <2> QED BY <1>2, <1>3, <1>5, <2>1, <2>2, <2>3, <2>4, <2>5, <2>7 DEF Key
  <1>11. Pair'
    <2>1. \A g \in Handler : pc'[g] = "sec" <=> pc[g] = "sec"
      BY <1>1, <1>2
    <2>2. disk' \notin Value
      BY <1>3, NotAValue
    <2> QED BY <1>2, <1>3, <1>5, <2>1, <2>2 DEF Inv, Pair
  <1> QED BY <1>6, <1>7, <1>8, <1>9, <1>10, <1>11 DEF Inv

\* Save writes.  The file is what was copied, if it is as it was truncated.
LEMMA WriteInv ==
    ASSUME Inv, NEW h \in Handler, Write(h)
    PROVE  Inv'
  <1>1. pc[h] = "write" /\ Proceed(h, "reply")
    BY DEF Write
  <1>2. /\ up = "up" /\ up' = "up"
        /\ pc' \in [Handler -> Steps]
        /\ pc'[h] = "reply"
        /\ \A g \in Handler \ {h} : pc'[g] = pc[g]
        /\ UNCHANGED <<kind, new, issued, requests, used, faults, fsqSaved, tripitSaved, alone>>
        /\ \A g \in Handler \ {h} : alone[g] => pc[g] = "idle"
        /\ alone[h] => \A g \in Handler \ {h} : pc[g] = "idle"
    BY <1>1, ProceedType
  <1>3. /\ disk' = Overwrite(disk, text[h])
        /\ UNCHANGED <<mem, text, crossed, split, mixed, cut>>
    BY DEF Write, overlapVars, tearVars
  <1>4. /\ disk' \in {Garbage, text[h]}
        /\ disk = Empty => disk' = text[h]
        /\ text[h] \in Value
        /\ text \in [Handler -> Value]
    <2>1. Overwrite(disk, text[h]) \in {Garbage, text[h]}
      BY Zenon DEF Overwrite
    <2>2. Overwrite(Empty, text[h]) = text[h]
      BY NotAValue DEF Overwrite
    <2>3. text \in [Handler -> Value]
      BY DEF Inv, TypeOK
    <2> QED BY <1>3, <2>1, <2>2, <2>3
  <1>5. Saving' = Saving \ {h} /\ Writing' = Writing \ {h} /\ h \in Writing /\ Writing \subseteq Saving
    BY <1>1, <1>2 DEF Saving, Writing
  <1>6. TypeOK'
    <2>1. disk' \in Value \union {Absent, Empty, Garbage}
      BY <1>4
    <2> QED BY <1>2, <1>3, <2>1 DEF Inv, TypeOK, Steps
  <1>7. KindsOfSteps'
    BY <1>1, <1>2 DEF Inv, KindsOfSteps
  <1>8. AloneSaves'
    <2> SUFFICES ASSUME NEW g \in Handler, alone[g], pc'[g] # "idle"
                 PROVE  /\ \A i \in Handler \ {g} : pc'[i] = "idle"
                        /\ pc'[g] = "reply"
                        /\ disk' = mem
                        /\ kind[g] = "fsqcallback" => mem.fsq = new[g]
                        /\ kind[g] = "tripitcallback" => mem.tok = new[g] /\ mem.sec = new[g]
      BY <1>2, <1>3 DEF AloneSaves
    <2>1. g = h
      BY <1>2
    <2>2. disk = Empty /\ text[h] = mem
      BY <1>1, <2>1 DEF Inv, AloneSaves
    <2> QED BY <1>1, <1>2, <1>4, <2>1, <2>2 DEF Inv, AloneSaves
  \* With the file to itself the request leaves what it copied.
  <1>9. ASSUME ~mixed PROVE disk' = text[h] /\ ~cut /\ Writing' = {}
    BY <1>4, <1>5, <1>9 DEF Inv, File
  <1>10. File'
    BY <1>2, <1>3, <1>4, <1>9 DEF File
  <1>11. Key'
    <2> SUFFICES ASSUME ~crossed PROVE Key'
      BY <1>3 DEF Key
    <2>1. /\ ~mixed /\ \A g, i \in Saving : g = i
          /\ mem.fsq >= fsqSaved /\ InTexts(fsqSaved)
          /\ \A g \in Handler : Setter(g) => /\ mem.fsq >= new[g]
                                             /\ pc[g] # "marshal" => InTexts(new[g])
      BY <1>2 DEF Inv, Key
    <2>2. disk' = text[h] /\ Saving' = {} /\ h \in Saving
      BY <1>5, <1>9, <2>1
    <2>3. InFile(fsqSaved)' /\ \A g \in Handler : InTexts(new[g]) => InFile(new[g])'
      BY <1>2, <1>4, <2>1, <2>2 DEF InFile, InTexts
    <2>4. InTexts(fsqSaved)' /\ \A g \in Handler : InTexts(new[g])'
      BY <2>2 DEF InTexts
    <2>5. \A g \in Handler : Setter(g)' =>
            Setter(g) /\ (pc'[g] = "reply" => pc[g] # "marshal")
      BY <1>1, <1>2 DEF Setter
    <2>6. \A g \in Handler : Setter(g)' =>
            /\ mem'.fsq >= new'[g]
            /\ pc'[g] # "marshal" => InTexts(new[g])'
            /\ pc'[g] = "reply" => InFile(new[g])'
      BY <1>2, <1>3, <2>1, <2>3, <2>4, <2>5
    <2> QED BY <1>2, <1>3, <2>1, <2>2, <2>3, <2>4, <2>6 DEF Key
  <1>12. Pair'
    <2> SUFFICES ASSUME ~split PROVE Pair'
      BY <1>3 DEF Pair
    <2>1. \A g \in Handler : pc'[g] = "sec" <=> pc[g] = "sec"
      BY <1>1, <1>2
    <2>2. \A g \in Saving : text[g].tok = text[g].sec
      BY DEF Inv, Pair
    <2>3. disk' \in Value => disk'.tok = disk'.sec
      BY <1>4, <1>5, <2>2, NotAValue
    <2> QED BY <1>2, <1>3, <1>5, <2>1, <2>3 DEF Inv, Pair
  <1> QED BY <1>6, <1>7, <1>8, <1>10, <1>11, <1>12 DEF Inv

\* A request is over, with an answer or without a saved file.
LEMMA EndInv ==
    ASSUME Inv, NEW h \in Handler, WriteFails(h) \/ Reply(h)
    PROVE  Inv'
  <1>1. /\ Done(h) /\ up = "up"
        /\ UNCHANGED <<mem, disk, up, issued, requests, used, alone, crossed, split, mixed>>
        /\ pc[h] \in {"open", "write", "reply"}
    BY DEF WriteFails, Reply, tokenVars, overlapVars, tearVars
  <1>2. /\ pc'[h] = "idle" /\ kind'[h] = "connect" /\ new'[h] = 0
        /\ \A g \in Handler \ {h} : /\ pc'[g] = pc[g] /\ kind'[g] = kind[g]
                                    /\ new'[g] = new[g] /\ text'[g] = text[g]
        /\ pc' \in [Handler -> Steps]
        /\ kind' \in [Handler -> Kinds]
        /\ new' \in [Handler -> Token]
        /\ text' \in [Handler -> Value]
    BY <1>1, Numbers DEF Done, Inv, TypeOK, Steps, Kinds
  <1>3. /\ \/ fsqSaved' = fsqSaved
           \/ kind[h] = "fsqcallback" /\ pc[h] = "reply" /\ fsqSaved' = new[h]
        /\ fsqSaved' \in Token /\ tripitSaved' \in Token
    <2>1. CASE WriteFails(h)
      BY <2>1 DEF WriteFails, savedVars, Inv, TypeOK
    <2>2. CASE Reply(h)
      <3>1. /\ \/ fsqSaved' = fsqSaved
               \/ kind[h] = "fsqcallback" /\ fsqSaved' = new[h]
            /\ tripitSaved' \in {tripitSaved, new[h]}
            /\ pc[h] = "reply"
        BY <2>2 DEF Reply
      <3> QED BY <3>1 DEF Inv, TypeOK
    <2> QED BY <2>1, <2>2
  <1>4. /\ cut' \in BOOLEAN
        /\ cut' = (cut \/ pc[h] = "write")
        /\ faults' \in 0..MaxFaults
    <2>1. cut \in BOOLEAN /\ faults \in 0..MaxFaults /\ MaxFaults \in Nat
      BY SecretsAssumption DEF SecretsAssumption, Inv, TypeOK
    <2>2. CASE WriteFails(h)
      <3>1. cut' = (cut \/ pc[h] = "write") /\ faults < MaxFaults /\ faults' = faults + 1
        BY <2>2 DEF WriteFails
      <3> QED BY <2>1, <3>1
    <2>3. CASE Reply(h)
      BY <2>1, <2>3 DEF Reply, overlapVars, tearVars
    <2> QED BY <2>2, <2>3
  <1>5. Saving' = Saving \ {h} /\ Writing' = Writing \ {h} /\ (pc[h] = "write" <=> h \in Writing)
    BY <1>1, <1>2 DEF Saving, Writing
  <1>6. TypeOK'
    BY <1>1, <1>2, <1>3, <1>4 DEF Inv, TypeOK, Steps, Kinds
  <1>7. KindsOfSteps'
    BY <1>2 DEF Inv, KindsOfSteps
  <1>8. AloneSaves'
    BY <1>1, <1>2 DEF Inv, AloneSaves
  <1>9. File'
    <2>1. CASE mixed
      BY <1>1, <2>1 DEF File
    <2>2. CASE ~mixed /\ h \in Writing
      <3>1. Writing' = {} /\ disk = Empty /\ cut'
        BY <1>4, <1>5, <2>2 DEF Inv, File
      <3> QED BY <1>1, <3>1 DEF File
    <2>3. CASE ~mixed /\ h \notin Writing
      <3>1. Writing' = Writing /\ cut' = cut
        BY <1>4, <1>5, <2>3 DEF Inv, TypeOK
      <3> QED BY <1>1, <3>1 DEF Inv, File
    <2> QED BY <2>1, <2>2, <2>3
  <1>10. Key'
    <2> SUFFICES ASSUME ~crossed PROVE Key'
      BY <1>1 DEF Key
    <2>1. /\ ~mixed /\ \A g, i \in Saving : g = i
          /\ mem.fsq >= fsqSaved
          /\ InTexts(fsqSaved) /\ InFile(fsqSaved)
          /\ \A g \in Handler : Setter(g) => /\ mem.fsq >= new[g]
                                             /\ pc[g] # "marshal" => InTexts(new[g])
                                             /\ pc[g] = "reply" => InFile(new[g])
      BY <1>1 DEF Inv, Key
    <2>2. mem.fsq >= fsqSaved' /\ InTexts(fsqSaved') /\ InFile(fsqSaved')
      <3>1. CASE fsqSaved' = fsqSaved
        BY <2>1, <3>1
      <3>2. CASE kind[h] = "fsqcallback" /\ pc[h] = "reply" /\ fsqSaved' = new[h]
        <4>1. Setter(h) /\ pc[h] # "marshal"
          BY <3>2 DEF Setter
        <4> QED BY <2>1, <3>2, <4>1
      <3> QED BY <1>3, <3>1, <3>2
    <2>3. ASSUME NEW x PROVE InTexts(x) => \A g \in Saving' : text'[g].fsq >= x
      BY <1>2, <1>5 DEF InTexts, Saving
    <2>4. ASSUME NEW x PROVE InFile(x) => (Writing' = {} /\ ~cut' /\ x # 0
                                             => disk' \in Value /\ disk'.fsq >= x)
      BY <1>1, <1>4, <1>5 DEF InFile
    <2>5. InTexts(fsqSaved)' /\ InFile(fsqSaved)'
      BY <2>2, <2>3, <2>4 DEF InTexts, InFile
    <2>6. ASSUME NEW g \in Handler, Setter(g)'
          PROVE  /\ mem'.fsq >= new'[g]
                 /\ pc'[g] # "marshal" => InTexts(new[g])'
                 /\ pc'[g] = "reply" => InFile(new[g])'
      <3>1. g # h /\ Setter(g) /\ pc'[g] = pc[g] /\ new'[g] = new[g]
        BY <1>2, <2>6 DEF Setter
      <3>2. pc[g] # "marshal" => InTexts(new[g])'
        BY <2>1, <2>3, <3>1 DEF InTexts
      <3>3. pc[g] = "reply" => InFile(new[g])'
        BY <2>1, <2>4, <3>1 DEF InFile
      <3> QED BY <1>1, <2>1, <3>1, <3>2, <3>3
    <2> QED BY <1>1, <1>5, <2>1, <2>2, <2>5, <2>6 DEF Key
  <1>11. Pair'
    <2> SUFFICES ASSUME ~split PROVE Pair'
      BY <1>1 DEF Pair
    <2>1. \A g \in Handler : pc'[g] = "sec" <=> pc[g] = "sec"
      BY <1>1, <1>2
    <2>2. \A g \in Handler : pc[g] = "sec" => new'[g] = new[g]
      BY <1>1, <1>2
    <2>3. \A g \in Saving' : text'[g].tok = text'[g].sec
      BY <1>2, <1>5 DEF Inv, Pair, Saving
    <2> QED BY <1>1, <2>1, <2>2, <2>3 DEF Inv, Pair
  <1> QED BY <1>6, <1>7, <1>8, <1>9, <1>10, <1>11 DEF Inv

\* A crash ends every request; a start finds the file as the last one left it.
LEMMA ProcessInv ==
    ASSUME Inv, SyncLoop \/ Crash \/ Restart \/ UNCHANGED vars
    PROVE  Inv'
  <1>1. CASE SyncLoop \/ UNCHANGED vars
    <2>1. used' \in Token
      BY <1>1 DEF SyncLoop, vars, Inv, TypeOK, Value
    <2>2. UNCHANGED <<mem, disk, up, pc, kind, new, text, issued, requests, faults, fsqSaved,
                      tripitSaved, alone, crossed, split, mixed, cut>>
      BY <1>1 DEF SyncLoop, vars, handlerVars, tokenVars, savedVars, overlapVars, tearVars
    <2>3. Saving' = Saving /\ Writing' = Writing /\ Busy' = Busy
      BY <2>2 DEF Saving, Writing, Busy
    <2>4. TypeOK'
      BY <2>1, <2>2, <2>3 DEF Inv, TypeOK
    <2>5. AloneSaves' /\ KindsOfSteps'
      BY <2>2 DEF Inv, AloneSaves, KindsOfSteps
    <2>6. File'
      BY <2>2, <2>3 DEF Inv, File
    <2>7. Key'
      BY <2>2, <2>3 DEF Inv, Key, InTexts, InFile, Setter
    <2>8. Pair'
      BY <2>2, <2>3 DEF Inv, Pair
    <2> QED BY <2>4, <2>5, <2>6, <2>7, <2>8 DEF Inv
  <1>2. CASE Crash
    <2>1. /\ \A h \in Handler : pc'[h] = "idle" /\ kind'[h] = "connect" /\ new'[h] = 0
          /\ up = "up" /\ up' = "down" /\ mem' = NoSecrets
          /\ UNCHANGED <<disk, issued, requests, used, fsqSaved, tripitSaved, alone,
                         crossed, split, mixed>>
      BY <1>2 DEF Crash, tokenVars, savedVars
    <2>2. cut' \in BOOLEAN /\ cut' = (cut \/ Writing # {})
      BY <1>2 DEF Crash, Inv, TypeOK
    <2>3. Saving' = {} /\ Writing' = {} /\ Busy' = {}
      BY <2>1 DEF Saving, Writing, Busy
    <2>4. TypeOK'
      <3>1. faults' \in 0..MaxFaults
        BY <1>2, SecretsAssumption DEF SecretsAssumption, Crash, Inv, TypeOK
      <3>2. /\ pc' \in [Handler -> Steps]
            /\ kind' \in [Handler -> Kinds]
            /\ new' \in [Handler -> Token]
            /\ text' \in [Handler -> Value]
        BY <1>2, Numbers DEF Crash, Steps, Kinds
      <3> QED BY Numbers, <2>1, <2>2, <2>3, <3>1, <3>2 DEF Inv, TypeOK, Steps, Kinds
    <2>5. AloneSaves' /\ KindsOfSteps'
      BY <2>1 DEF AloneSaves, KindsOfSteps
    <2>6. File'
      BY <2>1, <2>2, <2>3 DEF Inv, File
    <2>7. Key'
      BY <2>1, <2>2, <2>3 DEF Inv, Key, InTexts, InFile, Setter
    <2>8. Pair'
      BY <2>1, <2>3, Numbers DEF Inv, Pair
    <2> QED BY <2>4, <2>5, <2>6, <2>7, <2>8 DEF Inv
  <1>3. CASE Restart
    <2>1. /\ up = "down"
          /\ \/ Loadable /\ up' = "up" /\ mem' = Loaded
             \/ ~Loadable /\ up' = "fatal" /\ mem' = mem
          /\ UNCHANGED <<disk, pc, kind, new, text, issued, requests, used, faults, fsqSaved,
                         tripitSaved, alone, crossed, split, mixed, cut>>
      BY <1>3 DEF Restart, handlerVars, tokenVars, savedVars, overlapVars, tearVars
    <2>2. mem = NoSecrets /\ \A h \in Handler : pc[h] = "idle"
      BY <2>1 DEF Inv, TypeOK, Busy
    <2>3. /\ Saving = {} /\ Writing = {} /\ Saving' = {} /\ Writing' = {} /\ Busy' = {}
      BY <2>1, <2>2 DEF Saving, Writing, Busy
    <2>4. Loadable => Loaded \in Value
      BY Numbers DEF Loadable, Loaded
    <2>5. TypeOK'
      <3>1. mem' \in Value /\ up' \in {"up", "fatal"} /\ (up' # "up" => mem' = NoSecrets)
        BY Numbers, <2>1, <2>2, <2>4
      <3> QED BY <2>1, <2>3, <3>1 DEF Inv, TypeOK
    <2>6. AloneSaves' /\ KindsOfSteps'
      BY <2>1, <2>2 DEF Inv, AloneSaves, KindsOfSteps
    <2>7. File'
      BY <2>1, <2>3 DEF Inv, File, Loadable
    <2>8. Key'
      <3> SUFFICES ASSUME ~crossed
                   PROVE  /\ ~mixed
                          /\ up' = "up" => mem'.fsq >= fsqSaved
                          /\ InFile(fsqSaved)
        BY <2>1, <2>2, <2>3 DEF Key, InTexts, InFile, Setter
      <3>1. ~mixed /\ InFile(fsqSaved)
        BY DEF Inv, Key
      <3>2. ASSUME up' = "up" PROVE mem'.fsq >= fsqSaved
        <4>1. mem' = Loaded /\ Loadable
          BY <2>1, <3>2
        <4>2. ~cut
          BY <2>3, <3>1, <4>1, NotAValue DEF Inv, File, Loadable
        <4>3. CASE fsqSaved = 0
          BY <2>4, <4>1, <4>3, Numbers
        <4>4. CASE fsqSaved # 0
          BY <2>3, <3>1, <4>1, <4>2, <4>4, NotAValue DEF InFile, Loaded
        <4> QED BY <4>3, <4>4
      <3> QED BY <3>1, <3>2
    <2>9. Pair'
      <3> SUFFICES ASSUME ~split
                   PROVE  /\ mem'.tok = mem'.sec
                          /\ disk \in Value => disk.tok = disk.sec
        BY <2>1, <2>2, <2>3 DEF Pair
      <3>1. disk \in Value => disk.tok = disk.sec
        BY DEF Inv, Pair
      <3> QED BY <2>1, <2>2, <3>1, Numbers, NotAValue DEF Loadable, Loaded
    <2> QED BY <2>5, <2>6, <2>7, <2>8, <2>9 DEF Inv
  <1> QED BY <1>1, <1>2, <1>3

LEMMA Invariant == SafetySpec => []Inv
  <1>1. Inv /\ [Next]_vars => Inv'
    <2> SUFFICES ASSUME Inv, [Next]_vars PROVE Inv'
      OBVIOUS
    <2>1. ASSUME NEW h \in Handler, Connect(h) \/ FsqCallback(h) \/ TripitCallback(h)
          PROVE  Inv'
      BY <2>1, BeginInv
    <2>2. ASSUME NEW h \in Handler, Continue(h)
          PROVE  Inv'
      BY <2>2, AssignInv, MarshalInv, TruncateInv, WriteInv, EndInv DEF Continue
    <2>3. ASSUME NEW h \in Handler, WriteFails(h)
          PROVE  Inv'
      BY <2>3, EndInv
    <2>4. CASE SyncLoop \/ Crash \/ Restart \/ UNCHANGED vars
      BY <2>4, ProcessInv
    <2> QED BY <2>1, <2>2, <2>3, <2>4 DEF Next
  <1> QED BY <1>1, InitInv, PTL DEF SafetySpec

-----------------------------------------------------------------------------
\* The variables have their types, and the server only has secrets, and only
\* serves requests, while it runs.
THEOREM TypeCorrect == SafetySpec => []TypeOK
  <1>1. Inv => TypeOK
    BY DEF Inv
  <1> QED BY <1>1, Invariant, PTL

\* A callback that had the server to itself has its token in the struct and
\* leaves the file as the struct is, whatever file it found.
THEOREM SavedAlone == SafetySpec => []SaveAlonePersists
  <1>1. Inv => SaveAlonePersists
    BY DEF Inv, AloneSaves, SaveAlonePersists
  <1> QED BY <1>1, Invariant, PTL

\* However many requests there are, and whatever fails: a Foursquare key that was
\* answered "saved" is in the file, or a newer one, when nobody writes it, but
\* after a Save that was cut short or began while another was under way.
THEOREM KeyIsKept == SafetySpec => []FsqKeyKept
  <1>1. Inv => FsqKeyKept
    BY DEF Inv, Key, InFile, FsqKeyKept
  <1> QED BY <1>1, Invariant, PTL

\* The file can be loaded when nobody writes it, unless two requests had it open
\* at once or a Save was cut short; that leaves no secrets at all.  A server that
\* does not start finds one of the two.
THEOREM OnlyTornIsFatal == SafetySpec => []FileIsWhole
  <1>1. Inv => FileIsWhole
    BY DEF Inv, File, FileIsWhole
  <1> QED BY <1>1, Invariant, PTL

\* The halves of the TripIt token belong together, in the struct between requests
\* that set them and in the file, however requests overlap otherwise, as long as
\* none sets or saves them between the two assignments of another.
THEOREM PairIsWhole == SafetySpec => []TripitPairWhole
  <1>1. Inv => TripitPairWhole
    BY DEF Inv, Pair, TripitPairWhole
  <1> QED BY <1>1, Invariant, PTL

=============================================================================
