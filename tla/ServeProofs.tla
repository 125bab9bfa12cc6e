----------------------------- MODULE ServeProofs ----------------------------
(***************************************************************************)
(* What MCServe checks of the actor group as invariants, proved for any    *)
(* number of loops, servers and requests, added in any order.              *)
(*                                                                         *)
(* The argument is about the place the group has got to: every actor has   *)
(* one place in Order, so it is interrupted once.  A loop is sent one      *)
(* value, which is in its channel until the loop returns with it; a server *)
(* the group has passed is closed, and stays so.                           *)
(***************************************************************************)
EXTENDS Serve, FiniteSetTheorems, TLAPS

\* The group has interrupted actor a: its place is before the next one.
Interrupted(a) == \E i \in DOMAIN Order : i < next /\ Order[i] = a

\* A value in a channel, and a loop that has returned, come from the group, which
\* sends one value: the loop that took it finds no other.
SentOnce ==
    \A l \in Loop : /\ done[l] = 1 \/ loop[l] = "returned" => Interrupted(l)
                    /\ loop[l] = "returned" => done[l] = 0

\* The late sync is the only one: the value waits for the loop, and ends it.
LateOnce ==
    \A l \in Loop :
        late[l] # 0 => /\ late[l] = 1
                       /\ \/ loop[l] = "returned"
                          \/ done[l] = 1 /\ loop[l] \in {"sync", "wait"}

\* A server the group has passed takes no requests any more.
PassedIsClosed ==
    \A s \in Server :
        Interrupted(s) => server[s] = "closed" /\ (requests[s] = 0 \/ s \in hurried)

\* The process exits after every actor was interrupted and has returned.
ExitedLast == exited => returned = Actor /\ next > Len(Order)

Inv == TypeOK /\ SentOnce /\ LateOnce /\ PassedIsClosed /\ ExitedLast

-----------------------------------------------------------------------------
\* An actor has one place in the order the group interrupts in.
LEMMA OnePlace ==
    /\ Len(Order) \in Nat
    /\ DOMAIN Order = 1..Len(Order)
    /\ \A i \in DOMAIN Order : Order[i] \in Actor
    /\ \A a \in Actor : \E i \in DOMAIN Order : Order[i] = a
    /\ \A i, j \in DOMAIN Order : Order[i] = Order[j] => i = j
  <1>1. /\ Len(Order) \in Nat
        /\ DOMAIN Order = 1..Len(Order)
        /\ Order \in [1..Len(Order) -> Actor]
    BY ServeAssumption DEF ServeAssumption, Actor
  <1>2. /\ {Order[i] : i \in DOMAIN Order} = Actor
        /\ Len(Order) = Cardinality(Actor)
    BY ServeAssumption DEF ServeAssumption, Actor
  <1>3. \A a \in Actor : \E i \in DOMAIN Order : Order[i] = a
    BY <1>2
  <1>4. Order \in Surjection(1..Len(Order), Actor)
    BY <1>1, <1>3 DEF Surjection
  <1>5. /\ IsFiniteSet(1..Len(Order))
        /\ Cardinality(1..Len(Order)) = Len(Order)
    BY <1>1, FS_Interval
  <1>6. Order \in Injection(1..Len(Order), Actor)
    BY <1>2, <1>4, <1>5, FS_SurjSameCardinalityImpliesInj
  <1>7. \A i, j \in DOMAIN Order : Order[i] = Order[j] => i = j
    BY <1>1, <1>6 DEF Injection, IsInjective
  <1> QED BY <1>1, <1>3, <1>7

\* The actor that is being interrupted has not been interrupted before, and it
\* is the only one that has been once the group goes on.
LEMMA InterruptNext ==
    ASSUME TypeOK, NEW a \in Actor, Interrupting(a), next' = next + 1
    PROVE  /\ ~Interrupted(a)
           /\ Interrupted(a)'
           /\ \A b \in Actor \ {a} : Interrupted(b)' = Interrupted(b)
  <1>1. next \in DOMAIN Order /\ Order[next] = a /\ next \in Nat
    BY OnePlace DEF Interrupting, TypeOK
  <1>2. ~Interrupted(a)
    BY <1>1, OnePlace DEF Interrupted
  <1>3. Interrupted(a)'
    BY <1>1 DEF Interrupted
  <1>4. ASSUME NEW b \in Actor \ {a}
        PROVE  Interrupted(b)' = Interrupted(b)
    <2>1. \A i \in DOMAIN Order : Order[i] = b => (i < next + 1) = (i < next)
      BY <1>1, <1>4, OnePlace
    <2> QED BY <1>1, <2>1, OnePlace DEF Interrupted
  <1> QED BY <1>2, <1>3, <1>4

LEMMA NotInterruptedMeanwhile ==
    ASSUME next' = next
    PROVE  \A a : Interrupted(a)' = Interrupted(a)
  BY DEF Interrupted

-----------------------------------------------------------------------------
LEMMA InitInv == Init => Inv
  <1> SUFFICES ASSUME Init PROVE Inv
    OBVIOUS
  <1>1. TypeOK
    <2>1. /\ next \in 1..(Len(Order) + 1)
          /\ requests \in [Server -> 0..MaxRequests]
      BY ServeAssumption, OnePlace DEF ServeAssumption, Init
    <2>2. \A l \in Loop : (loop[l] = "returned") = (l \in returned)
      BY DEF Init
    <2>3. (cause = None) = (returned = {})
      BY DEF Init
    <2>4. /\ loop \in [Loop -> {"check", "sync", "wait", "returned"}]
          /\ done \in [Loop -> 0..1]
          /\ server \in [Server -> {"serving", "draining", "closed"}]
          /\ late \in [Loop -> Nat]
      BY DEF Init
    <2>5. /\ key \in [Loop -> BOOLEAN] /\ exited \in BOOLEAN
          /\ returned \subseteq Actor /\ synced \subseteq Loop /\ hurried \subseteq Server
          /\ cause \in Actor \union {None}
      BY DEF Init
    <2> QED BY <2>1, <2>2, <2>3, <2>4, <2>5 DEF TypeOK
  <1>2. \A a : ~Interrupted(a)
    BY OnePlace DEF Init, Interrupted
  <1>3. SentOnce /\ LateOnce /\ PassedIsClosed /\ ExitedLast
    BY <1>2 DEF Init, SentOnce, LateOnce, PassedIsClosed, ExitedLast
  <1> QED BY <1>1, <1>3 DEF Inv

\* What an actor's return changes.
LEMMA ReturnType ==
    ASSUME TypeOK, NEW a \in Actor, Return(a)
    PROVE  /\ returned' \subseteq Actor
           /\ cause' \in Actor
           /\ returned' = returned \union {a}
           /\ (cause' = None) = (returned' = {})
  BY ServeAssumption DEF ServeAssumption, TypeOK, Return, Actor

-----------------------------------------------------------------------------
\* The steps of a loop.
LEMMA LoopSteps ==
    ASSUME Inv, NEW l \in Loop,
           SyncStart(l) \/ SyncSkip(l) \/ SyncEnd(l) \/ NextTurn(l) \/ LoopReturn(l)
    PROVE  Inv'
  <1>1. TypeOK'
    <2>1. CASE LoopReturn(l)
      <3>1. Return(l) /\ l \in Actor
        BY <2>1 DEF LoopReturn, Actor
      <3>2. done' \in [Loop -> 0..1]
        BY <2>1 DEF LoopReturn, Inv, TypeOK
      <3>3. loop' \in [Loop -> {"check", "sync", "wait", "returned"}]
        BY <2>1 DEF LoopReturn, GotoLoop, Inv, TypeOK
      <3>4. \A k \in Loop : (loop'[k] = "returned") = (k \in returned')
        BY <2>1, <3>1, ReturnType DEF LoopReturn, GotoLoop, Inv, TypeOK
      <3>5. /\ returned' \subseteq Actor
            /\ cause' \in Actor
            /\ (cause' = None) = (returned' = {})
        BY <3>1, ReturnType DEF Inv
      <3> QED BY <2>1, <3>2, <3>3, <3>4, <3>5 DEF LoopReturn, Inv, TypeOK, serverVars
    <2>2. CASE SyncStart(l)
      BY <2>2 DEF SyncStart, GotoLoop, Inv, TypeOK, serverVars, groupVars
    <2>3. CASE SyncSkip(l)
      BY <2>3 DEF SyncSkip, NoKeyWaits, GotoLoop, Inv, TypeOK, serverVars, groupVars
    <2>4. CASE SyncEnd(l)
      BY <2>4 DEF SyncEnd, GotoLoop, Inv, TypeOK, serverVars, groupVars
    <2>5. CASE NextTurn(l)
      BY <2>5 DEF NextTurn, GotoLoop, Inv, TypeOK, serverVars, groupVars
    <2> QED BY <2>1, <2>2, <2>3, <2>4, <2>5
  <1>2. /\ next' = next
        /\ UNCHANGED <<server, requests, hurried, exited>>
        /\ ~exited
    BY DEF SyncStart, SyncSkip, SyncEnd, NextTurn, LoopReturn, serverVars, groupVars
  <1>3. \A a : Interrupted(a)' = Interrupted(a)
    BY <1>2, NotInterruptedMeanwhile
  <1>4. PassedIsClosed' /\ ExitedLast'
    BY <1>2, <1>3 DEF Inv, PassedIsClosed, ExitedLast
  <1>5. SentOnce' /\ LateOnce'
    <2> DEFINE Other(k) == /\ loop'[k] = loop[k]
                           /\ done'[k] = done[k]
                           /\ late'[k] = late[k]
    <2>1. \A k \in Loop \ {l} : Other(k)
      BY DEF SyncStart, SyncSkip, SyncEnd, NextTurn, LoopReturn, GotoLoop, Inv, TypeOK
    <2>2. /\ done'[l] = 1 \/ loop'[l] = "returned" => Interrupted(l)
          /\ loop'[l] = "returned" => done'[l] = 0
          /\ late'[l] # 0 => /\ late'[l] = 1
                             /\ \/ loop'[l] = "returned"
                                \/ done'[l] = 1 /\ loop'[l] \in {"sync", "wait"}
      <3>1. CASE SyncStart(l)
        BY <3>1 DEF SyncStart, GotoLoop, Inv, TypeOK, SentOnce, LateOnce
      <3>2. CASE SyncSkip(l)
        BY <3>2 DEF SyncSkip, NoKeyWaits, GotoLoop, Inv, TypeOK, SentOnce, LateOnce
      <3>3. CASE SyncEnd(l)
        BY <3>3 DEF SyncEnd, GotoLoop, Inv, TypeOK, SentOnce, LateOnce
      <3>4. CASE NextTurn(l)
        BY <3>4 DEF NextTurn, TimerWins, GotoLoop, Inv, TypeOK, SentOnce, LateOnce
      <3>5. CASE LoopReturn(l)
        BY <3>5 DEF LoopReturn, GotoLoop, Inv, TypeOK, SentOnce, LateOnce
      <3> QED BY <3>1, <3>2, <3>3, <3>4, <3>5
    <2>3. SentOnce'
      BY <1>3, <2>1, <2>2 DEF Inv, SentOnce
    <2>4. LateOnce'
      BY <2>1, <2>2 DEF Inv, LateOnce
    <2> QED BY <2>3, <2>4
  <1> QED BY <1>1, <1>4, <1>5 DEF Inv

\* The steps of a server that do not move the group on.
LEMMA ServerSteps ==
    ASSUME Inv, NEW s \in Server,
           Request(s) \/ Answer(s) \/ ServerFails(s) \/ ShutdownBegin(s)
    PROVE  Inv'
  <1>1. TypeOK'
    <2>1. CASE Request(s)
      <3>1. requests' \in [Server -> 0..MaxRequests]
        BY <2>1, ServeAssumption DEF ServeAssumption, Request, Inv, TypeOK
      <3> QED BY <2>1, <3>1 DEF Request, Inv, TypeOK, loopVars, groupVars
    <2>2. CASE Answer(s)
      <3>1. requests' \in [Server -> 0..MaxRequests] /\ key' \in [Loop -> BOOLEAN]
        BY <2>2, ServeAssumption DEF ServeAssumption, Answer, Inv, TypeOK
      <3> QED BY <2>2, <3>1 DEF Answer, Inv, TypeOK, loopVars, groupVars
    <2>3. CASE ServerFails(s) \/ ShutdownBegin(s)
      <3>1. Return(s) /\ s \in Actor /\ s \notin Loop
        BY <2>3, ServeAssumption DEF ServeAssumption, ServerFails, ShutdownBegin, Actor
      <3>2. server' \in [Server -> {"serving", "draining", "closed"}]
        BY <2>3 DEF ServerFails, ShutdownBegin, Inv, TypeOK
      <3>3. /\ returned' \subseteq Actor
            /\ cause' \in Actor
            /\ (cause' = None) = (returned' = {})
            /\ returned' = returned \union {s}
        BY <3>1, ReturnType DEF Inv
      <3>4. \A l \in Loop : (loop'[l] = "returned") = (l \in returned')
        BY <2>3, <3>1, <3>3 DEF ServerFails, ShutdownBegin, Inv, TypeOK, loopVars
      <3> QED BY <2>3, <3>2, <3>3, <3>4
              DEF ServerFails, ShutdownBegin, Inv, TypeOK, loopVars
    <2> QED BY <2>1, <2>2, <2>3
  <1>2. /\ next' = next
        /\ UNCHANGED <<loop, done, late, hurried, exited>>
        /\ ~exited
    BY DEF Request, Answer, ServerFails, ShutdownBegin, Interrupting, loopVars, groupVars
  <1>3. \A a : Interrupted(a)' = Interrupted(a)
    BY <1>2, NotInterruptedMeanwhile
  <1>4. SentOnce' /\ LateOnce' /\ ExitedLast'
    BY <1>2, <1>3 DEF Inv, SentOnce, LateOnce, ExitedLast
  <1>5. PassedIsClosed'
    <2>1. \A t \in Server \ {s} : server'[t] = server[t] /\ requests'[t] = requests[t]
      BY DEF Request, Answer, ServerFails, ShutdownBegin, Inv, TypeOK
    <2>2. ASSUME Interrupted(s)
          PROVE  server'[s] = "closed" /\ (requests'[s] = 0 \/ s \in hurried)
      <3>1. server[s] = "closed" /\ (requests[s] = 0 \/ s \in hurried)
        BY <2>2 DEF Inv, PassedIsClosed
      <3>2. Answer(s) \/ ShutdownBegin(s)
        BY <3>1 DEF Request, ServerFails
      <3>3. ~ShutdownBegin(s)
        <4>1. Interrupting(s) => \A i \in DOMAIN Order : i < next => Order[i] # s
          BY OnePlace DEF Interrupting, Inv, TypeOK
        <4> QED BY <2>2, <4>1 DEF ShutdownBegin, Interrupted
      <3> QED BY <3>1, <3>2, <3>3, ServeAssumption
              DEF ServeAssumption, Answer, Inv, TypeOK
    <2> QED BY <1>2, <1>3, <2>1, <2>2 DEF Inv, PassedIsClosed
  <1> QED BY <1>1, <1>4, <1>5 DEF Inv

\* The steps with which the group goes on to the next actor.
LEMMA GroupSteps ==
    ASSUME Inv, NEW a \in Actor,
           \/ a \in Loop /\ InterruptLoop(a)
           \/ a \in Server /\ (ShutdownEnd(a) \/ ShutdownTimesOut(a))
           \/ a = Signal /\ InterruptSignal
    PROVE  Inv'
  <1>1. Interrupting(a) /\ next' = next + 1 /\ ~exited /\ UNCHANGED <<loop, late, exited>>
    BY DEF InterruptLoop, ShutdownEnd, ShutdownTimesOut, InterruptSignal, Interrupting,
           loopVars
  <1>2. /\ ~Interrupted(a)
        /\ Interrupted(a)'
        /\ \A b \in Actor \ {a} : Interrupted(b)' = Interrupted(b)
    BY <1>1, InterruptNext DEF Inv
  <1>3. next' \in 1..(Len(Order) + 1)
    BY <1>1, OnePlace DEF Interrupting, Inv, TypeOK
  <1>4. /\ a \in Loop => a \notin Server /\ a # Signal
        /\ a \in Server => a # Signal
        /\ Loop \subseteq Actor /\ Server \subseteq Actor
    BY ServeAssumption DEF ServeAssumption, Actor
  <1>5. CASE a \in Loop /\ InterruptLoop(a)
    <2>1. done[a] = 0 /\ loop[a] # "returned" /\ late[a] = 0
      BY <1>2, <1>5 DEF Inv, TypeOK, SentOnce, LateOnce
    <2>2. done' = [done EXCEPT ![a] = 1]
      BY <1>5, <2>1 DEF InterruptLoop, AfterSend, Inv, TypeOK
    <2>3. TypeOK'
      BY <1>3, <1>5, <2>2 DEF InterruptLoop, Inv, TypeOK, serverVars
    <2>4. \A k \in Loop \ {a} : done'[k] = done[k]
      BY <2>2 DEF Inv, TypeOK
    <2>5. done'[a] = 1
      BY <1>5, <2>2 DEF Inv, TypeOK
    <2>6. SentOnce'
      BY <1>1, <1>2, <1>4, <2>1, <2>4 DEF Inv, SentOnce
    <2>7. LateOnce'
      BY <1>1, <2>1, <2>4 DEF Inv, LateOnce
    <2>8. PassedIsClosed'
      BY <1>2, <1>4, <1>5 DEF InterruptLoop, Inv, PassedIsClosed, serverVars
    <2> QED BY <1>1, <2>3, <2>6, <2>7, <2>8 DEF Inv, ExitedLast
  <1>6. CASE a \in Server /\ (ShutdownEnd(a) \/ ShutdownTimesOut(a))
    <2>1. TypeOK'
      BY <1>3, <1>6 DEF ShutdownEnd, ShutdownTimesOut, Inv, TypeOK, loopVars
    <2>2. SentOnce' /\ LateOnce'
      BY <1>2, <1>4, <1>6
         DEF ShutdownEnd, ShutdownTimesOut, Inv, SentOnce, LateOnce, loopVars
    <2>3. /\ server'[a] = "closed"
          /\ requests'[a] = 0 \/ a \in hurried'
      BY <1>6 DEF ShutdownEnd, ShutdownTimesOut, Drained, Inv, TypeOK
    <2>4. \A t \in Server \ {a} : /\ server'[t] = server[t]
                                  /\ requests'[t] = requests[t]
                                  /\ t \in hurried => t \in hurried'
      BY <1>6 DEF ShutdownEnd, ShutdownTimesOut, Inv, TypeOK
    <2>5. PassedIsClosed'
      BY <1>2, <1>4, <2>3, <2>4 DEF Inv, PassedIsClosed
    <2> QED BY <1>1, <2>1, <2>2, <2>5 DEF Inv, ExitedLast
  <1>7. CASE a = Signal /\ InterruptSignal
    <2>1. Return(Signal) /\ Signal \notin Loop
      BY <1>4, <1>7 DEF InterruptSignal
    <2>2. TypeOK'
      BY <1>3, <1>7, <2>1, ReturnType
         DEF InterruptSignal, Inv, TypeOK, loopVars, serverVars
    <2>3. SentOnce' /\ LateOnce' /\ PassedIsClosed'
      BY <1>2, <1>4, <1>7
         DEF InterruptSignal, Inv, SentOnce, LateOnce, PassedIsClosed, loopVars, serverVars
    <2> QED BY <1>1, <2>2, <2>3 DEF Inv, ExitedLast
  <1> QED BY <1>5, <1>6, <1>7

\* The other steps leave the group and the actors where they are.
LEMMA OtherSteps ==
    ASSUME Inv, SignalArrives \/ Exit \/ UNCHANGED vars
    PROVE  Inv'
  <1>1. next' = next /\ UNCHANGED <<loop, done, late, server, requests, hurried>>
    BY DEF SignalArrives, Exit, vars, loopVars, serverVars, groupVars
  <1>2. \A a : Interrupted(a)' = Interrupted(a)
    BY <1>1, NotInterruptedMeanwhile
  <1>3. TypeOK'
    <2>1. CASE SignalArrives
      <3>1. Return(Signal) /\ Signal \in Actor /\ Signal \notin Loop
        BY <2>1, ServeAssumption DEF ServeAssumption, SignalArrives, Actor
      <3> QED BY <2>1, <3>1, ReturnType
              DEF SignalArrives, Inv, TypeOK, loopVars, serverVars
    <2>2. CASE Exit \/ UNCHANGED vars
      BY <2>2 DEF Exit, vars, loopVars, serverVars, groupVars, Inv, TypeOK
    <2> QED BY <2>1, <2>2
  <1>4. SentOnce' /\ LateOnce' /\ PassedIsClosed'
    BY <1>1, <1>2 DEF Inv, SentOnce, LateOnce, PassedIsClosed
  <1>5. ExitedLast'
    BY DEF SignalArrives, Exit, vars, groupVars, Inv, ExitedLast
  <1> QED BY <1>3, <1>4, <1>5 DEF Inv

LEMMA Invariant == SafetySpec => []Inv
  <1>1. Inv /\ [Next]_vars => Inv'
    <2> SUFFICES ASSUME Inv, [Next]_vars PROVE Inv'
      OBVIOUS
    <2>1. Loop \subseteq Actor /\ Server \subseteq Actor /\ Signal \in Actor
      BY DEF Actor
    <2>2. CASE \E l \in Loop :
                 SyncStart(l) \/ SyncSkip(l) \/ SyncEnd(l) \/ NextTurn(l) \/ LoopReturn(l)
      BY <2>2, LoopSteps
    <2>3. CASE \E s \in Server :
                 Request(s) \/ Answer(s) \/ ServerFails(s) \/ ShutdownBegin(s)
      BY <2>3, ServerSteps
    <2>4. CASE \/ \E l \in Loop : InterruptLoop(l)
               \/ \E s \in Server : ShutdownEnd(s) \/ ShutdownTimesOut(s)
               \/ InterruptSignal
      BY <2>1, <2>4, GroupSteps
    <2>5. CASE SignalArrives \/ Exit \/ UNCHANGED vars
      BY <2>5, OtherSteps
    <2> QED BY <2>2, <2>3, <2>4, <2>5 DEF Next
  <1> QED BY <1>1, InitInv, PTL DEF SafetySpec

-----------------------------------------------------------------------------
\* The variables have their types; in particular no interrupt function blocks
\* on a full channel, and the group hears of a loop when it is over.
THEOREM TypeCorrect == SafetySpec => []TypeOK
  <1>1. Inv => TypeOK
    BY DEF Inv
  <1> QED BY <1>1, Invariant, PTL

\* When the process exits every loop has returned on the value it was sent, every
\* server is closed, and no request is in progress except at a server whose
\* Shutdown ran out of its 5 seconds.
THEOREM ExitIsOrderly == SafetySpec => []OrderlyExit
  <1>1. Inv => OrderlyExit
    <2> SUFFICES ASSUME Inv, exited PROVE OrderlyExit
      BY DEF OrderlyExit
    <2>1. returned = Actor /\ next > Len(Order) /\ next \in Nat
      BY DEF Inv, ExitedLast, TypeOK
    <2>2. \A l \in Loop : loop[l] = "returned" /\ done[l] = 0
      BY <2>1 DEF Inv, TypeOK, SentOnce, Actor
    <2>3. \A s \in Server : Interrupted(s)
      BY <2>1, OnePlace DEF Interrupted, Actor
    <2> QED BY <2>2, <2>3 DEF Inv, PassedIsClosed, OrderlyExit
  <1> QED BY <1>1, Invariant, PTL

\* A loop starts at most one sync after it was interrupted.
THEOREM AtMostOneLateSync == SafetySpec => []OneLateSync
  <1>1. Inv => OneLateSync
    BY DEF Inv, TypeOK, LateOnce, OneLateSync
  <1> QED BY <1>1, Invariant, PTL

=============================================================================
