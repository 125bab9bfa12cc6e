-------------------------------- MODULE Serve -------------------------------
(***************************************************************************)
(* The life of a server (main.go, the serve command): a group of actors,   *)
(* started together and stopped together.  The actors are the two sync     *)
(* loops, the HTTP servers and the signal handler.  The group (package     *)
(* oklog/run) waits for the first actor to return, interrupts all of them  *)
(* in the order they were added, waits for the rest, and main exits.       *)
(*                                                                         *)
(* A loop is interrupted through a channel with room for one value, which  *)
(* it only looks at between two syncs.  A server is interrupted by         *)
(* Shutdown: no more requests, and up to 5 seconds for those in progress.  *)
(***************************************************************************)
EXTENDS Integers, Sequences, FiniteSets

CONSTANTS
    Loop,        \* the sync loops
    Server,      \* the HTTP servers
    Order,       \* the actors in the order they are added to the group
    Signal,      \* the actor that waits for a signal
    None,        \* no actor has returned yet
    MaxRequests  \* bound: the requests a server has in progress

ASSUME ServeAssumption ==
    /\ Loop \intersect Server = {}
    /\ Signal \notin Loop \union Server
    /\ None \notin Loop \union Server \union {Signal}
    /\ Order \in Seq(Loop \union Server \union {Signal})
    /\ {Order[i] : i \in DOMAIN Order} = Loop \union Server \union {Signal}
    /\ Len(Order) = Cardinality(Loop \union Server \union {Signal})
    /\ MaxRequests \in Nat

VARIABLES
    loop,        \* where a sync loop is
    done,        \* how many values its channel holds
    key,         \* the loop's secrets are there
    server,      \* a server is "serving", "draining" or "closed"
    returned,    \* the actors whose function has returned
    requests,    \* how many requests a server has in progress
    cause,       \* the actor that returned first
    next,        \* the actor the group interrupts next, by its place in Order
    exited,      \* main has exited
    \* What follows only records history; the code has no such state.
    synced,      \* the loops that have run a sync
    late,        \* how many syncs a loop started after it was interrupted
    hurried      \* the servers whose Shutdown ran out of time

loopVars == <<loop, done, synced, late>>
serverVars == <<server, requests, hurried>>
groupVars == <<returned, cause, next, exited>>
vars == <<loopVars, key, serverVars, groupVars>>

Actor == Loop \union Server \union {Signal}

-----------------------------------------------------------------------------
Init ==
    /\ loop = [l \in Loop |-> "check"]
    /\ done = [l \in Loop |-> 0]
    /\ key \in [Loop -> BOOLEAN]
    /\ server = [s \in Server |-> "serving"]
    /\ returned = {}
    /\ requests = [s \in Server |-> 0]
    /\ cause = None
    /\ next = 1
    /\ exited = FALSE
    /\ synced = {}
    /\ late = [l \in Loop |-> 0]
    /\ hurried = {}

\* Actor a's function returns.  The group only remembers the first.
Return(a) ==
    /\ returned' = returned \union {a}
    /\ cause' = IF cause = None THEN a ELSE cause

GotoLoop(l, w) == loop' = [loop EXCEPT ![l] = w]

(* The top of a loop: without its secrets it only counts an error.         *)
SyncStart(l) ==
    /\ ~exited
    /\ loop[l] = "check"
    /\ key[l]
    /\ GotoLoop(l, "sync")
    /\ synced' = synced \union {l}
    /\ late' = [late EXCEPT ![l] = @ + done[l]]
    /\ UNCHANGED <<done, key, serverVars, groupVars>>

\* Mutant: a loop without its secrets is over.
NoKeyReturns == "returned"

\* Without its secrets a loop waits for the next turn like after a sync.
NoKeyWaits == "wait"

SyncSkip(l) ==
    /\ ~exited
    /\ loop[l] = "check"
    /\ ~key[l]
    /\ GotoLoop(l, NoKeyWaits)
    /\ UNCHANGED <<done, key, synced, late, serverVars, groupVars>>

(* run returns, with an error or without one.                              *)
SyncEnd(l) ==
    /\ ~exited
    /\ loop[l] = "sync"
    /\ GotoLoop(l, "wait")
    /\ UNCHANGED <<done, key, synced, late, serverVars, groupVars>>

\* Mutant: the channel is not looked at when the timer has fired.
TimerFirst(l) == TRUE

\* The select: the timer is started with it, so a value that is already in
\* the channel, or that gets there before the interval is over, is first.
TimerWins(l) == done[l] = 0

(* The interval is over: another turn.                                     *)
NextTurn(l) ==
    /\ ~exited
    /\ loop[l] = "wait"
    /\ TimerWins(l)
    /\ GotoLoop(l, "check")
    /\ UNCHANGED <<done, key, synced, late, serverVars, groupVars>>

(* There is a value in the channel: the loop takes it and returns.         *)
LoopReturn(l) ==
    /\ ~exited
    /\ loop[l] = "wait"
    /\ done[l] > 0
    /\ done' = [done EXCEPT ![l] = @ - 1]
    /\ GotoLoop(l, "returned")
    /\ Return(l)
    /\ UNCHANGED <<key, synced, late, serverVars, next, exited>>

(* A request arrives at a server.                                          *)
Request(s) ==
    /\ ~exited
    /\ server[s] = "serving"
    /\ requests[s] < MaxRequests
    /\ requests' = [requests EXCEPT ![s] = @ + 1]
    /\ UNCHANGED <<loopVars, key, server, hurried, groupVars>>

(* A request is answered; one of the callbacks has got a loop its secrets. *)
Answer(s) ==
    /\ ~exited
    /\ requests[s] > 0
    /\ requests' = [requests EXCEPT ![s] = @ - 1]
    /\ \E L \in SUBSET Loop : key' = [l \in Loop |-> key[l] \/ l \in L]
    /\ UNCHANGED <<loopVars, server, hurried, groupVars>>

(* A server cannot listen, or not any more.                                *)
ServerFails(s) ==
    /\ ~exited
    /\ server[s] = "serving"
    /\ server' = [server EXCEPT ![s] = "closed"]
    /\ Return(s)
    /\ UNCHANGED <<loopVars, key, requests, hurried, next, exited>>

(* The process is interrupted.                                             *)
SignalArrives ==
    /\ ~exited
    /\ Signal \notin returned
    /\ Return(Signal)
    /\ UNCHANGED <<loopVars, key, serverVars, next, exited>>

\* A send waits until the channel has room; it is made with room for one value.
HasRoom(l) == done[l] < 1

\* Mutant: a send that gives up when the loop is not at its select.
SentIfSelecting(l) == IF loop[l] = "wait" THEN 1 ELSE done[l]

AfterSend(l) == done[l] + 1

\* The group has got to the actor it interrupts next.
Interrupting(a) ==
    /\ cause # None
    /\ ~exited
    /\ next \in DOMAIN Order
    /\ Order[next] = a

(* The interrupt function of a loop.                                       *)
InterruptLoop(l) ==
    /\ Interrupting(l)
    /\ HasRoom(l)
    /\ done' = [done EXCEPT ![l] = AfterSend(l)]
    /\ next' = next + 1
    /\ UNCHANGED <<loop, synced, late, key, serverVars, returned, cause, exited>>

(* The interrupt function of a server: Shutdown closes its listener, and   *)
(* ListenAndServe returns at once...                                       *)
ShutdownBegin(s) ==
    /\ Interrupting(s)
    /\ server[s] # "draining"
    /\ server' = [server EXCEPT ![s] = "draining"]
    /\ Return(s)
    /\ UNCHANGED <<loopVars, key, requests, hurried, next, exited>>

\* Mutant: Close instead of Shutdown.
DoesNotDrain(s) == TRUE

Drained(s) == requests[s] = 0

(* ... but Shutdown only when no request is in progress...                 *)
ShutdownEnd(s) ==
    /\ Interrupting(s)
    /\ server[s] = "draining"
    /\ Drained(s)
    /\ server' = [server EXCEPT ![s] = "closed"]
    /\ next' = next + 1
    /\ UNCHANGED <<loopVars, key, requests, hurried, returned, cause, exited>>

(* ... or when the 5 seconds of its context are over.                      *)
ShutdownTimesOut(s) ==
    /\ Interrupting(s)
    /\ server[s] = "draining"
    /\ requests[s] > 0
    /\ server' = [server EXCEPT ![s] = "closed"]
    /\ hurried' = hurried \union {s}
    /\ next' = next + 1
    /\ UNCHANGED <<loopVars, key, requests, returned, cause, exited>>

(* The interrupt function of the signal handler makes it return.           *)
InterruptSignal ==
    /\ Interrupting(Signal)
    /\ Return(Signal)
    /\ next' = next + 1
    /\ UNCHANGED <<loopVars, key, serverVars, exited>>

(* Run has heard from every actor, and main exits.  Requests that are      *)
(* still in progress end with it.                                          *)
Exit ==
    /\ cause # None
    /\ next > Len(Order)
    /\ returned = Actor
    /\ ~exited
    /\ exited' = TRUE
    /\ UNCHANGED <<loopVars, key, serverVars, returned, cause, next>>

Next ==
    \/ \E l \in Loop :
        \/ SyncStart(l) \/ SyncSkip(l) \/ SyncEnd(l) \/ NextTurn(l) \/ LoopReturn(l)
        \/ InterruptLoop(l)
    \/ \E s \in Server :
        \/ Request(s) \/ Answer(s) \/ ServerFails(s)
        \/ ShutdownBegin(s) \/ ShutdownEnd(s) \/ ShutdownTimesOut(s)
    \/ SignalArrives
    \/ InterruptSignal
    \/ Exit

(***************************************************************************)
(* The scheduler runs every goroutine; a sync returns, which needs the     *)
(* remote side to answer in the end; the 5 seconds pass.  No request has   *)
(* to be answered, and no signal to arrive.                                *)
(***************************************************************************)
Fairness ==
    /\ \A l \in Loop : /\ WF_vars(SyncStart(l) \/ SyncSkip(l) \/ SyncEnd(l))
                       /\ WF_vars(NextTurn(l))
                       /\ WF_vars(LoopReturn(l))
                       /\ WF_vars(InterruptLoop(l))
    /\ \A s \in Server : /\ WF_vars(ShutdownBegin(s))
                         /\ WF_vars(ShutdownEnd(s))
                         /\ WF_vars(ShutdownTimesOut(s))
    /\ WF_vars(InterruptSignal)
    /\ WF_vars(Exit)

SafetySpec == Init /\ [][Next]_vars
Spec == SafetySpec /\ Fairness

-----------------------------------------------------------------------------
(* Properties.                                                             *)

\* The variables have their types, a channel never holds more than it has room
\* for, and a loop is over exactly when the group has heard from it.
TypeOK ==
    /\ loop \in [Loop -> {"check", "sync", "wait", "returned"}]
    /\ done \in [Loop -> 0..1]
    /\ key \in [Loop -> BOOLEAN]
    /\ server \in [Server -> {"serving", "draining", "closed"}]
    /\ returned \subseteq Actor
    /\ requests \in [Server -> 0..MaxRequests]
    /\ cause \in Actor \union {None}
    /\ next \in 1..(Len(Order) + 1)
    /\ exited \in BOOLEAN
    /\ synced \subseteq Loop
    /\ late \in [Loop -> Nat]
    /\ hurried \subseteq Server
    /\ (cause = None) = (returned = {})
    /\ \A l \in Loop : (loop[l] = "returned") = (l \in returned)

\* The process does not exit before every actor is through with its part: a loop
\* is not in the middle of a sync and has taken the one value it was sent, and a
\* server is closed with no request in progress, unless its Shutdown ran out of
\* the 5 seconds.  Those that are still in progress there are cut off.
OrderlyExit ==
    exited => /\ \A l \in Loop : loop[l] = "returned" /\ done[l] = 0
              /\ \A s \in Server : /\ server[s] = "closed"
                                   /\ requests[s] = 0 \/ s \in hurried

\* An interrupted loop starts at most one more sync, the one whose turn had
\* already come: the value waits in the channel while a sync runs.
OneLateSync == \A l \in Loop : late[l] <= 1

\* Once an actor has returned, whichever it was, the process exits.
ShutdownCompletes == cause # None ~> exited

\* A loop whose secrets arrive while the server runs gets to use them.
KeyIsPickedUp ==
    \A l \in Loop : key[l] ~> (l \in synced \/ cause # None)
=============================================================================
