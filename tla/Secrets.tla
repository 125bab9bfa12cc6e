------------------------------ MODULE Secrets -------------------------------
(***************************************************************************)
(* The secrets of a server: secretsManager.secrets in memory, secrets.json *)
(* on disk (main.go), and the requests that change them (web.go): /connect *)
(* and the callbacks of Foursquare and TripIt.  Every request is served by *)
(* a goroutine of its own, and nothing guards the struct or the file.      *)
(*                                                                         *)
(* Tokens are numbers in the order they were issued, 0 for none; the two   *)
(* halves of a TripIt token have the same number.  One step is one         *)
(* assignment to the struct, one copy of it, or one call on the file.      *)
(***************************************************************************)
EXTENDS Integers, FiniteSets

CONSTANTS
    Handler,     \* how many requests are served at the same time
    MaxIssued,   \* bound: the tokens that are issued
    MaxFaults,   \* bound: crashes and failed writes
    Absent,      \* there is no file
    Empty,       \* the file was truncated
    Garbage      \* the file is a short text over a longer one

VARIABLES
    mem,         \* smgr.secrets
    disk,        \* secrets.json
    up,          \* the server is "up", "down", or "fatal": it cannot start
    pc,          \* where the request of a handler is
    kind,        \* which of the three requests it is
    new,         \* the token the request was given
    text,        \* what its Save is writing
    issued,      \* the last token that was issued
    requests,    \* the TripIt request tokens that were issued
    used,        \* the key of the last turn of the sync loop that ran a sync
    faults,
    \* What follows only records history; the code has no such state.
    fsqSaved,    \* the key of the last Foursquare callback answered "saved"
    tripitSaved, \* the token of the last TripIt callback answered "saved"
    alone,       \* no other request was served at the same time as this one
    crossed,     \* a Save began in the middle of another, or an older key was
                 \* set over a newer one
    split,       \* the pair was set or saved between another's two assignments
    mixed,       \* two requests had the file open when it was last truncated
    cut          \* a Save was cut short after it truncated the file, which
                 \* nobody has truncated since

handlerVars == <<pc, kind, new, text>>
tokenVars == <<issued, requests>>
savedVars == <<fsqSaved, tripitSaved>>
tearVars == <<mixed, cut>>
overlapVars == <<crossed, split, tearVars>>
vars == <<mem, disk, up, handlerVars, tokenVars, used, faults, savedVars, alone, overlapVars>>

Token == 0..MaxIssued
Value == [fsq : Token, tok : Token, sec : Token]
NoSecrets == [fsq |-> 0, tok |-> 0, sec |-> 0]

\* A file that is not there, or cannot be unmarshalled, is told from one that can.
ASSUME SecretsAssumption ==
    /\ MaxIssued \in Nat
    /\ MaxFaults \in Nat
    /\ Value \intersect {Absent, Empty, Garbage} = {}
    /\ Absent # Empty
    /\ Absent # Garbage
    /\ Empty # Garbage

\* json.Marshal leaves out what is empty; the tokens of a kind have one length.
Fields(s) == {f \in {"fsq", "tok", "sec"} : s[f] # 0}

Busy == {h \in Handler : pc[h] # "idle"}
Saving == {h \in Handler : pc[h] \in {"open", "write"}}
Writing == {h \in Handler : pc[h] = "write"}

-----------------------------------------------------------------------------
Init ==
    /\ mem = NoSecrets
    /\ disk = Absent
    /\ up = "up"
    /\ pc = [h \in Handler |-> "idle"]
    /\ kind = [h \in Handler |-> "connect"]
    /\ new = [h \in Handler |-> 0]
    /\ text = [h \in Handler |-> NoSecrets]
    /\ issued = 0
    /\ requests = {}
    /\ used = 0
    /\ faults = 0
    /\ fsqSaved = 0
    /\ tripitSaved = 0
    /\ alone = [h \in Handler |-> TRUE]
    /\ crossed = FALSE
    /\ split = FALSE
    /\ mixed = FALSE
    /\ cut = FALSE

\* A request arrives and is given token issued + 1 by Foursquare or TripIt.
\* One that is given an error answers with it and changes nothing.
Begin(h, k, l) ==
    /\ up = "up"
    /\ pc[h] = "idle"
    /\ issued < MaxIssued
    /\ issued' = issued + 1
    /\ pc' = [pc EXCEPT ![h] = l]
    /\ kind' = [kind EXCEPT ![h] = k]
    /\ new' = [new EXCEPT ![h] = issued + 1]
    /\ alone' = [g \in Handler |-> IF g = h THEN Busy = {}
                                   ELSE alone[g] /\ pc[g] = "idle"]
    /\ UNCHANGED <<mem, disk, up, text, used, faults, savedVars, overlapVars>>

\* A step of a request that keeps to its own variables and the struct.
Proceed(h, l) ==
    /\ up = "up"
    /\ pc' = [pc EXCEPT ![h] = l]
    /\ UNCHANGED <<up, kind, new, tokenVars, used, faults, savedVars, alone>>

\* The request is over, and what it knew is gone.
Done(h) ==
    /\ pc' = [pc EXCEPT ![h] = "idle"]
    /\ kind' = [kind EXCEPT ![h] = "connect"]
    /\ new' = [new EXCEPT ![h] = 0]
    /\ text' = [text EXCEPT ![h] = NoSecrets]

Assign(h, field) ==
    /\ mem' = [mem EXCEPT ![field] = new[h]]
    /\ UNCHANGED <<disk, text>>

(* connect gets a request token, and sets it in the fields of the access   *)
(* token.  It saves nothing: the callback is to find it there.             *)
Connect(h) ==
    /\ Begin(h, "connect", "tok")
    /\ requests' = requests \union {issued + 1}

(* fsqcallback exchanges the code for a key.                               *)
FsqCallback(h) ==
    /\ Begin(h, "fsqcallback", "fsq")
    /\ UNCHANGED requests

(* tripitCallback gets the access token; TripIt only gives one for the two *)
(* halves of a request token.                                              *)
TripitCallback(h) ==
    /\ mem.tok = mem.sec
    /\ mem.tok \in requests
    /\ Begin(h, "tripitcallback", "tok")
    /\ UNCHANGED requests

\* Mutant: the Foursquare callback forgets to save.
OnlyTripitSaves(k) == k = "tripitcallback"

\* Only the callbacks call Save.
Saves(k) == k # "connect"

\* The second assignment of another request is still to come.
PairIsOpen(h) == \E g \in Handler \ {h} : pc[g] = "sec"

SaveOrReply(h) == IF Saves(kind[h]) THEN "marshal" ELSE "reply"

SetFsq(h) ==
    /\ pc[h] = "fsq"
    /\ Proceed(h, SaveOrReply(h))
    /\ Assign(h, "fsq")
    /\ crossed' = (crossed \/ new[h] < mem.fsq)
    /\ UNCHANGED <<split, tearVars>>

SetTok(h) ==
    /\ pc[h] = "tok"
    /\ Proceed(h, "sec")
    /\ Assign(h, "tok")
    /\ split' = (split \/ PairIsOpen(h))
    /\ UNCHANGED <<crossed, tearVars>>

SetSec(h) ==
    /\ pc[h] = "sec"
    /\ Proceed(h, SaveOrReply(h))
    /\ Assign(h, "sec")
    /\ UNCHANGED overlapVars

\* Mutant: a field that json.Marshal does not see.
MarshalledWithoutSecret(h) == [mem EXCEPT !.sec = 0]

\* json.Marshal is called with a copy of the whole struct.
Marshalled(h) == mem

(* Save: the struct is copied and marshalled.                              *)
Marshal(h) ==
    /\ pc[h] = "marshal"
    /\ Proceed(h, "open")
    /\ text' = [text EXCEPT ![h] = Marshalled(h)]
    /\ crossed' = (crossed \/ Saving \ {h} # {})
    /\ split' = (split \/ PairIsOpen(h))
    /\ UNCHANGED <<mem, disk, tearVars>>

\* Mutant: the file is opened without O_TRUNC.
NotTruncated == IF disk = Absent THEN Empty ELSE disk

Opened == Empty

(* Save: os.WriteFile opens the file and truncates it...                   *)
Truncate(h) ==
    /\ pc[h] = "open"
    /\ Proceed(h, "write")
    /\ disk' = Opened
    /\ mixed' = (Writing \ {h} # {})
    /\ cut' = (cut /\ mixed')
    /\ UNCHANGED <<mem, text, crossed, split>>

\* ... and writes from the start, over what another request wrote since.
Overwrite(old, s) ==
    IF old \in Value /\ ~(Fields(old) \subseteq Fields(s)) THEN Garbage
    ELSE IF old = Garbage /\ Fields(s) # {"fsq", "tok", "sec"} THEN Garbage
    ELSE s

Write(h) ==
    /\ pc[h] = "write"
    /\ Proceed(h, "reply")
    /\ disk' = Overwrite(disk, text[h])
    /\ UNCHANGED <<mem, text, overlapVars>>

(* Save fails: the file cannot be opened, or not be written.               *)
WriteFails(h) ==
    /\ up = "up"
    /\ pc[h] \in {"open", "write"}
    /\ faults < MaxFaults
    /\ faults' = faults + 1
    /\ cut' = (cut \/ pc[h] = "write")
    /\ Done(h)
    /\ UNCHANGED <<mem, disk, up, tokenVars, used, savedVars, alone, crossed, split, mixed>>

(* A callback answers "saved", connect answers with its links.             *)
Reply(h) ==
    /\ up = "up"
    /\ pc[h] = "reply"
    /\ fsqSaved' = IF kind[h] = "fsqcallback" THEN new[h] ELSE fsqSaved
    /\ tripitSaved' = IF kind[h] = "tripitcallback" THEN new[h] ELSE tripitSaved
    /\ Done(h)
    /\ UNCHANGED <<mem, disk, up, tokenVars, used, faults, alone, overlapVars>>

(* A turn of the Foursquare sync loop: without a key it does nothing.      *)
SyncLoop ==
    /\ up = "up"
    /\ mem.fsq # 0
    /\ used' = mem.fsq
    /\ UNCHANGED <<mem, disk, up, handlerVars, tokenVars, faults, savedVars, alone,
                   overlapVars>>

(* The process ends, in the middle of whatever it was doing.               *)
Crash ==
    /\ up = "up"
    /\ faults < MaxFaults
    /\ faults' = faults + 1
    /\ up' = "down"
    /\ mem' = NoSecrets
    /\ pc' = [h \in Handler |-> "idle"]
    /\ kind' = [h \in Handler |-> "connect"]
    /\ new' = [h \in Handler |-> 0]
    /\ text' = [h \in Handler |-> NoSecrets]
    /\ cut' = (cut \/ Writing # {})
    /\ UNCHANGED <<disk, tokenVars, used, savedVars, alone, crossed, split, mixed>>

\* Mutant: Load ignores its errors.
ErrorsIgnored == TRUE

\* Load accepts a file that is not there, and one that it can unmarshal.
Loadable == disk = Absent \/ disk \in Value

\* Mutant: the server starts without looking at the file.
LoadNothing == NoSecrets

Loaded == IF disk = Absent THEN NoSecrets ELSE disk

(* The process starts: Load.  Parse ends it when Load returns an error.    *)
Restart ==
    /\ up = "down"
    /\ IF Loadable
       THEN /\ up' = "up"
            /\ mem' = Loaded
       ELSE /\ up' = "fatal"
            /\ UNCHANGED mem
    /\ UNCHANGED <<disk, handlerVars, tokenVars, used, faults, savedVars, alone,
                   overlapVars>>

\* What a request does by itself once it has been given its token.
Continue(h) ==
    \/ SetFsq(h)
    \/ SetTok(h)
    \/ SetSec(h)
    \/ Marshal(h)
    \/ Truncate(h)
    \/ Write(h)
    \/ Reply(h)

Next ==
    \/ \E h \in Handler : \/ Connect(h) \/ FsqCallback(h) \/ TripitCallback(h)
                          \/ Continue(h)
                          \/ WriteFails(h)
    \/ SyncLoop
    \/ Crash
    \/ Restart

(***************************************************************************)
(* Requests that have begun are carried on, the sync loop turns, and a     *)
(* server that went down is started again.                                 *)
(***************************************************************************)
Fairness ==
    /\ \A h \in Handler : WF_vars(Continue(h))
    /\ WF_vars(SyncLoop)
    /\ WF_vars(Restart)

SafetySpec == Init /\ [][Next]_vars
Spec == SafetySpec /\ Fairness

-----------------------------------------------------------------------------
(* Properties.                                                             *)

\* The variables have their types, and the server only has secrets while it
\* runs.
TypeOK ==
    /\ mem \in Value
    /\ disk \in Value \union {Absent, Empty, Garbage}
    /\ up \in {"up", "down", "fatal"}
    /\ pc \in [Handler -> {"idle", "fsq", "tok", "sec", "marshal", "open", "write", "reply"}]
    /\ kind \in [Handler -> {"connect", "fsqcallback", "tripitcallback"}]
    /\ new \in [Handler -> Token]
    /\ text \in [Handler -> Value]
    /\ issued \in Token
    /\ requests \subseteq 1..issued
    /\ used \in Token
    /\ faults \in 0..MaxFaults
    /\ fsqSaved \in Token
    /\ tripitSaved \in Token
    /\ alone \in [Handler -> BOOLEAN]
    /\ crossed \in BOOLEAN /\ split \in BOOLEAN
    /\ mixed \in BOOLEAN /\ cut \in BOOLEAN
    /\ up # "up" => mem = NoSecrets /\ Busy = {}

\* A callback that had the server to itself has its token in the struct, and
\* leaves the file as the struct is, whatever requests that ran into each other,
\* or a Save that was cut short, left in it before.
SaveAlonePersists ==
    \A h \in Handler :
        pc[h] = "reply" /\ alone[h] /\ Saves(kind[h]) =>
            /\ disk = mem
            /\ kind[h] = "fsqcallback" => mem.fsq = new[h]
            /\ kind[h] = "tripitcallback" => mem.tok = new[h] /\ mem.sec = new[h]

\* A Foursquare key that was answered "saved" is in the file from then on, or a
\* newer one, but while a Save is writing: over crashes, failed Saves and other
\* requests.  What loses it is a Save that was cut short, until the next one,
\* and Saves that begin while another is under way.
FsqKeyKept ==
    ~crossed /\ ~cut /\ Writing = {} /\ fsqSaved # 0
        => disk \in Value /\ disk.fsq >= fsqSaved

\* When nobody writes, the file can be loaded, unless two requests had it open
\* at once; or a Save was cut short, and then it is no secrets at all.  A server
\* that does not start is one that was left so.
FileIsWhole ==
    /\ Writing = {} /\ ~mixed =>
        IF cut THEN disk = Empty ELSE disk = Absent \/ disk \in Value
    /\ up = "fatal" => cut \/ mixed

\* The two halves of the TripIt token belong together, in the struct but between
\* the assignments, and in the file: unless a request set or saved them between
\* the assignments of another.
TripitPairWhole ==
    ~split => /\ (\A h \in Handler : pc[h] # "sec") => mem.tok = mem.sec
              /\ disk \in Value => disk.tok = disk.sec

\* The sync loop gets to use a key that was answered "saved", or a newer one,
\* without a restart and in spite of one, unless the file lost it.
SavedKeyIsUsed ==
    \A k \in Token : k # 0 => (fsqSaved = k ~> (used >= k \/ crossed \/ cut))

\* tripitCallback answers "saved" (web.go:249): from then on the file has that
\* access token, or a newer one.  The code loses it with one request at a time.
SavedTripitStays ==
    Busy = {} /\ tripitSaved # 0
        => disk \in Value /\ disk.tok \notin requests
=============================================================================
