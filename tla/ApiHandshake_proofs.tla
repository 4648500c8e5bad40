------------------------- MODULE ApiHandshake_proofs -------------------------
(***************************************************************************)
(* Theorems about ApiHandshake, for any number of calls, snapshots and     *)
(* thermal notifications, with one caller at a time: whatever thread wakes *)
(* it, and however often, a caller leaves its wait with the answer of its  *)
(* own call.                                                               *)
(*                                                                         *)
(* A caller compares the event of the result with its own and not the      *)
(* call, so the result must never be that of an earlier call of the same   *)
(* event.  Inv therefore says where the one unanswered call is: in         *)
(* api_queue, at the machine thread or deferred, at one of them only; and  *)
(* that the zeroed result stays until that very call is signalled.         *)
(***************************************************************************)
EXTENDS ApiHandshake, TLAPS

\* One caller at a time.
OneCaller == \A c, d \in Caller : c = d

\* A call is waited for and not answered, and nothing of it is under way but
\* what the place that claims it holds.
Unanswered(node) ==
  /\ m_apiResult = NoResult
  /\ \E c \in Caller : pc[c] # "idle" /\ req[c] = node

\* What a caller that waits may find.
CallersOwn ==
  \A c \in Caller : pc[c] # "idle" =>
    req[c] \in Result /\ req[c].call = calls /\ m_apiResult \in {NoResult, req[c]}

IsApi(i) == api_queue[i].evt \in Api

\* At most one call is in the queue, and then it is nowhere else.
QueueOwn ==
  /\ \A i \in DOMAIN api_queue : IsApi(i) =>
       Unanswered(api_queue[i]) /\ sm # "api" /\ preparing = NoCall
  /\ \A i, j \in DOMAIN api_queue : IsApi(i) /\ IsApi(j) => i = j

\* The call the machine thread is about to answer.
MachineOwn == sm = "api" => Unanswered(smResult) /\ preparing = NoCall

\* The call whose answer is deferred.
DeferredOwn ==
  preparing # NoCall => Unanswered([evt |-> "PREPARE_SNAPSHOT", call |-> preparing])

Inv == TypeOK /\ CallersOwn /\ QueueOwn /\ MachineOwn /\ DeferredOwn

-----------------------------------------------------------------------------
(* Sequences.                                                              *)

\* What Append adds to a queue.
LEMMA AppendNode ==
  ASSUME NEW S, NEW q \in Seq(S), NEW n \in S
  PROVE  /\ Append(q, n) \in Seq(S)
         /\ \A i \in DOMAIN Append(q, n) :
              \/ i \in DOMAIN q /\ Append(q, n)[i] = q[i]
              \/ i = Len(q) + 1 /\ Append(q, n)[i] = n
OBVIOUS

\* What is left of a queue when its head is taken.
LEMMA TailNode ==
  ASSUME NEW S, NEW q \in Seq(S), q # <<>>
  PROVE  /\ Tail(q) \in Seq(S)
         /\ Head(q) \in S /\ 1 \in DOMAIN q /\ Head(q) = q[1]
         /\ \A i \in DOMAIN Tail(q) :
              i \in Nat \ {0} /\ i + 1 \in DOMAIN q /\ Tail(q)[i] = q[i + 1]
OBVIOUS

-----------------------------------------------------------------------------
(* Callers.                                                                *)

\* A thread that comes to wait finds no other call under way.
LEMMA WaitInv ==
  ASSUME Inv, OneCaller, NEW c \in Caller, NEW evt \in Api, waitAPIResult(c, evt),
         \/ pc[c] = "idle"
         \/ pc[c] = "woken" /\ m_apiResult.evt = req[c].evt,
         UNCHANGED <<evt_queue, closing, machineVars, daemonVars, notifierVars>>
  PROVE  Inv'
<1> DEFINE node == [evt |-> evt, call |-> calls + 1]
<1>1. calls + 1 \in CallNo /\ node \in Node /\ node \in Result
  BY DEF Inv, TypeOK, CallNo, Node, Result
<1>2. \A n : ~ Unanswered(n)
  <2>1. CASE pc[c] = "idle"
    BY <2>1 DEF OneCaller, Unanswered
  <2>2. CASE pc[c] = "woken" /\ m_apiResult.evt = req[c].evt
    <3>1. req[c].evt # "none"
      BY <2>2 DEF Inv, CallersOwn, Result, Api
    <3>2. QED
      BY <2>2, <3>1 DEF Unanswered, NoResult
  <2>3. QED
    BY <2>1, <2>2
<1>3. \A i \in DOMAIN api_queue : ~ IsApi(i)
  BY <1>2 DEF Inv, QueueOwn
<1>4. sm # "api" /\ preparing = NoCall
  BY <1>2 DEF Inv, MachineOwn, DeferredOwn
<1>5. api_queue \in Seq(Node) /\ api_queue' = Append(api_queue, node)
  BY DEF Inv, TypeOK, waitAPIResult
<1>6. api_queue' \in Seq(Node)
      /\ \A i \in DOMAIN api_queue' :
           \/ i \in DOMAIN api_queue /\ api_queue'[i] = api_queue[i]
           \/ i = Len(api_queue) + 1 /\ api_queue'[i] = node
  BY <1>1, <1>5, AppendNode
<1>7. /\ calls' = calls + 1 /\ m_apiResult' = NoResult
      /\ req' = [req EXCEPT ![c] = node] /\ pc' = [pc EXCEPT ![c] = "waiting"]
  BY DEF waitAPIResult
<1>8. pc'[c] = "waiting" /\ req'[c] = node
  BY <1>7 DEF Inv, TypeOK
<1>9. TypeOK'
  BY <1>1, <1>6, <1>7 DEF Inv, TypeOK, machineVars, daemonVars, notifierVars, Result,
     CallNo, Node
<1>10. CallersOwn'
  BY <1>1, <1>7, <1>8 DEF OneCaller, CallersOwn, Inv, TypeOK
<1>11. QueueOwn'
  <2>1. \A i \in DOMAIN api_queue' : IsApi(i)' => i = Len(api_queue) + 1 /\ api_queue'[i] = node
    BY <1>3, <1>6 DEF IsApi
  <2>2. m_apiResult' = NoResult /\ \E d \in Caller : pc'[d] # "idle" /\ req'[d] = node
    BY <1>7, <1>8
  <2>3. \A i \in DOMAIN api_queue' : IsApi(i)' => Unanswered(api_queue[i])'
    BY <2>1, <2>2 DEF Unanswered
  <2>4. \A i, j \in DOMAIN api_queue' : IsApi(i)' /\ IsApi(j)' => i = j
    BY <2>1
  <2>5. sm' # "api" /\ preparing' = NoCall
    BY <1>4 DEF machineVars
  <2>6. QED
    BY <2>3, <2>4, <2>5 DEF QueueOwn
<1>12. MachineOwn' /\ DeferredOwn'
  BY <1>4 DEF MachineOwn, DeferredOwn, machineVars
<1>13. QED
  BY <1>9, <1>10, <1>11, <1>12 DEF Inv

\* A node of no caller changes nothing for those who wait.
LEMMA OtherNodeInv ==
  ASSUME Inv, NEW node \in Node, node.evt \notin Api,
         api_queue' = Append(api_queue, node),
         UNCHANGED <<callerVars, machineVars>>, TypeOK'
  PROVE  Inv'
<1>1. api_queue \in Seq(Node)
  BY DEF Inv, TypeOK
<1>2. \A i \in DOMAIN api_queue' : IsApi(i)' =>
        i \in DOMAIN api_queue /\ api_queue'[i] = api_queue[i] /\ IsApi(i)
  BY <1>1, AppendNode DEF IsApi
<1>3. QueueOwn'
  BY <1>2 DEF Inv, QueueOwn, Unanswered, callerVars, machineVars
<1>4. CallersOwn' /\ MachineOwn' /\ DeferredOwn'
  BY DEF Inv, CallersOwn, MachineOwn, DeferredOwn, Unanswered, callerVars, machineVars
<1>5. QED
  BY <1>3, <1>4 DEF Inv

\* A step that leaves the queue, the machine, the result and the calls alone,
\* and lets no thread leave its wait.
LEMMA QuietInv ==
  ASSUME Inv, TypeOK', UNCHANGED <<api_queue, m_apiResult, req, calls, machineVars>>,
         \A c \in Caller : (pc'[c] = "idle") <=> (pc[c] = "idle")
  PROVE  Inv'
<1>1. \A n : Unanswered(n)' <=> Unanswered(n)
  BY DEF Unanswered
<1>2. CallersOwn'
  BY DEF Inv, CallersOwn
<1>3. QueueOwn' /\ MachineOwn' /\ DeferredOwn'
  BY <1>1 DEF Inv, QueueOwn, MachineOwn, DeferredOwn, IsApi, machineVars
<1>4. QED
  BY <1>2, <1>3 DEF Inv

\* The steps of a caller.
LEMMA CallerInv ==
  ASSUME Inv, OneCaller, NEW c \in Caller,
         Call(c) \/ CallerStep(c) \/ SpuriousWakeup(c)
  PROVE  Inv'
<1>1. CASE Call(c)
  <2>1. PICK evt \in Api : waitAPIResult(c, evt)
    BY <1>1 DEF Call
  <2>2. QED
    BY <1>1, <2>1, WaitInv DEF Call
<1>2. CASE TakePicture(c)
  <2>1. "TAKE_PICTURE" \in Api
    BY DEF Api
  <2>2. QED
    BY <1>2, <2>1, WaitInv DEF TakePicture
<1>3. CASE CheckAgain(c) \/ SpuriousWakeup(c)
  <2>1. TypeOK'
    BY <1>3 DEF Inv, TypeOK, CheckAgain, SpuriousWakeup, machineVars, daemonVars, notifierVars
  <2>2. \A d \in Caller : (pc'[d] = "idle") <=> (pc[d] = "idle")
    BY <1>3 DEF Inv, TypeOK, CheckAgain, SpuriousWakeup
  <2>3. QED
    BY <1>3, <2>1, <2>2, QuietInv DEF CheckAgain, SpuriousWakeup
<1>4. CASE Return(c)
  <2>1. TypeOK'
    BY <1>4 DEF Inv, TypeOK, Return, machineVars, daemonVars, notifierVars
  <2>2. m_apiResult # NoResult
    BY <1>4 DEF Return, Inv, CallersOwn, Result, Api, NoResult
  <2>3. CallersOwn'
    BY <1>4 DEF Inv, TypeOK, CallersOwn, Return
  <2>4. QueueOwn' /\ MachineOwn' /\ DeferredOwn'
    BY <1>4, <2>2 DEF Inv, QueueOwn, MachineOwn, DeferredOwn, Unanswered, IsApi, Return,
       machineVars
  <2>5. QED
    BY <2>1, <2>3, <2>4 DEF Inv
<1>5. QED
  BY <1>1, <1>2, <1>3, <1>4 DEF CallerStep

-----------------------------------------------------------------------------
(* The machine thread.                                                     *)

\* The machine takes the call from the queue: what was true of the queue is
\* true of the thread.
LEMMA TakeApiInv == ASSUME Inv, TakeApi PROVE Inv'
<1> DEFINE node == Head(api_queue)
<1>1. /\ api_queue' = Tail(api_queue) /\ sm = "idle" /\ api_queue # <<>>
      /\ api_queue \in Seq(Node) /\ HandleApi(node)
  BY DEF TakeApi, Inv, TypeOK
<1>2. /\ api_queue' \in Seq(Node) /\ node \in Node
      /\ 1 \in DOMAIN api_queue /\ node = api_queue[1]
      /\ \A i \in DOMAIN api_queue' :
           /\ i \in Nat \ {0} /\ i + 1 \in DOMAIN api_queue
           /\ api_queue'[i] = api_queue[i + 1]
  BY <1>1, TailNode
<1>3. node.evt \in Api =>
        /\ Unanswered(node) /\ node \in Result /\ preparing = NoCall
        /\ \A i \in DOMAIN api_queue' : api_queue'[i].evt \notin Api
  <2> SUFFICES ASSUME node.evt \in Api
               PROVE  /\ Unanswered(node) /\ node \in Result /\ preparing = NoCall
                      /\ \A i \in DOMAIN api_queue' : api_queue'[i].evt \notin Api
    OBVIOUS
  <2>1. Unanswered(node) /\ preparing = NoCall
    BY <1>2 DEF Inv, QueueOwn, IsApi
  <2>2. node \in Result
    BY <2>1 DEF Unanswered, Inv, CallersOwn
  <2>3. \A i \in DOMAIN api_queue' : api_queue'[i].evt \notin Api
    BY <1>2 DEF Inv, QueueOwn, IsApi
  <2>4. QED
    BY <2>1, <2>2, <2>3
<1>4. UNCHANGED <<evt_queue, callerVars, notifierVars, daemonDied, thermals, closing>>
  BY DEF TakeApi
<1>5. CallersOwn'
  BY <1>4 DEF Inv, CallersOwn, callerVars
<1>6. \A n : Unanswered(n)' <=> Unanswered(n)
  BY <1>4 DEF Unanswered, callerVars
<1>7. CASE node.evt \in Api /\ sm' = "api" /\ smResult' = node
           /\ UNCHANGED <<preparing, prepPosted>>
  <2>1. TypeOK'
    BY <1>2, <1>3, <1>4, <1>7 DEF Inv, TypeOK, callerVars, notifierVars
  <2>2. QED
    BY <1>3, <1>5, <1>6, <1>7, <2>1 DEF Inv, QueueOwn, MachineOwn, DeferredOwn, IsApi
<1>8. CASE node.evt = "PREPARE_SNAPSHOT" /\ preparing' = node.call /\ prepPosted' = FALSE
           /\ UNCHANGED <<sm, smResult>>
  <2>1. node.evt \in Api
    BY <1>8 DEF Api
  <2>2. node.call \in CallNo /\ node = [evt |-> "PREPARE_SNAPSHOT", call |-> node.call]
    BY <1>3, <1>8, <2>1 DEF Result
  <2>3. TypeOK'
    BY <1>2, <1>4, <1>8, <2>2 DEF Inv, TypeOK, callerVars, notifierVars
  <2>4. QueueOwn' /\ MachineOwn'
    BY <1>1, <1>3, <1>8, <2>1 DEF QueueOwn, MachineOwn, IsApi
  <2>5. DeferredOwn'
    BY <1>3, <1>6, <1>8, <2>1, <2>2 DEF DeferredOwn
  <2>6. QED
    BY <1>5, <2>3, <2>4, <2>5 DEF Inv
<1>9. CASE sm' # "api" /\ sm' \in {sm, "exited"} /\ UNCHANGED <<smResult, preparing, prepPosted>>
  <2>1. TypeOK'
    BY <1>2, <1>4, <1>9 DEF Inv, TypeOK, callerVars, notifierVars
  <2>2. QueueOwn'
    BY <1>2, <1>6, <1>9 DEF Inv, QueueOwn, IsApi
  <2>3. MachineOwn' /\ DeferredOwn'
    BY <1>6, <1>9 DEF Inv, MachineOwn, DeferredOwn
  <2>4. QED
    BY <1>5, <2>1, <2>2, <2>3 DEF Inv
<1>10. QED
  BY <1>1, <1>7, <1>8, <1>9 DEF HandleApi

\* An internal event leaves the calls alone, or has the deferred one answered.
LEMMA TakeEvtInv == ASSUME Inv, TakeEvt PROVE Inv'
<1>1. /\ sm = "idle" /\ api_queue = <<>> /\ evt_queue # <<>>
      /\ evt_queue \in Seq({"SNAPSHOT_DONE", "PREP_SNAPSHOT_DONE"})
      /\ evt_queue' = Tail(evt_queue) /\ HandleEvt(Head(evt_queue))
      /\ UNCHANGED <<api_queue, closing, callerVars, daemonVars, notifierVars>>
  BY DEF TakeEvt, Inv, TypeOK
<1>2. evt_queue' \in Seq({"SNAPSHOT_DONE", "PREP_SNAPSHOT_DONE"})
  BY <1>1, TailNode
<1>3. /\ preparing' \in {preparing, NoCall} /\ sm' \in {"idle", "api", "evt"}
      /\ smResult' \in Result \cup {NoResult}
  BY <1>1 DEF HandleEvt, Inv, TypeOK, Result, Api
<1>4. TypeOK'
  BY <1>1, <1>2, <1>3 DEF Inv, TypeOK, callerVars, daemonVars, notifierVars
<1>5. \A n : Unanswered(n)' <=> Unanswered(n)
  BY <1>1 DEF Unanswered, callerVars
<1>6. CallersOwn'
  BY <1>1 DEF Inv, CallersOwn, callerVars
<1>7. QueueOwn'
  BY <1>1 DEF QueueOwn
<1>8. MachineOwn' /\ DeferredOwn'
  BY <1>1, <1>5 DEF HandleEvt, Inv, MachineOwn, DeferredOwn
<1>9. QED
  BY <1>4, <1>6, <1>7, <1>8 DEF Inv

\* The result that is signalled is that of the call that is waited for.
LEMMA SignalInv == ASSUME Inv, OneCaller, signalAPIResult PROVE Inv'
<1>1. PICK c \in Caller : pc[c] # "idle" /\ req[c] = smResult
  BY DEF signalAPIResult, Inv, MachineOwn, Unanswered
<1>2. /\ sm = "api" /\ sm' = "idle" /\ smResult' = NoResult /\ m_apiResult' = smResult
      /\ UNCHANGED <<api_queue, evt_queue, req, calls, preparing, closing, daemonVars, notifierVars>>
  BY DEF signalAPIResult
<1>3. pc' \in [Caller -> {"idle", "waiting", "woken"}]
      /\ \A d \in Caller : (pc'[d] = "idle") <=> (pc[d] = "idle")
  BY DEF signalAPIResult, Inv, TypeOK
<1>4. preparing = NoCall /\ \A i \in DOMAIN api_queue : ~ IsApi(i)
  BY <1>2 DEF Inv, MachineOwn, QueueOwn
<1>5. TypeOK'
  BY <1>2, <1>3 DEF Inv, TypeOK, daemonVars, notifierVars
<1>6. CallersOwn'
  BY <1>1, <1>2, <1>3 DEF OneCaller, Inv, CallersOwn
<1>7. QueueOwn' /\ MachineOwn' /\ DeferredOwn'
  BY <1>2, <1>4 DEF QueueOwn, MachineOwn, DeferredOwn, IsApi
<1>8. QED
  BY <1>5, <1>6, <1>7 DEF Inv

\* A result of the notifier thread goes to no caller.
LEMMA SignalEvtInv == ASSUME Inv, signalEvtResult PROVE Inv'
<1>1. TypeOK'
  BY DEF signalEvtResult, Inv, TypeOK, callerVars, daemonVars
<1>2. \A n : Unanswered(n)' <=> Unanswered(n)
  BY DEF Unanswered, signalEvtResult, callerVars
<1>3. CallersOwn'
  BY DEF signalEvtResult, Inv, CallersOwn, callerVars
<1>4. QueueOwn' /\ MachineOwn' /\ DeferredOwn'
  BY <1>2 DEF signalEvtResult, Inv, QueueOwn, MachineOwn, DeferredOwn, IsApi
<1>5. QED
  BY <1>1, <1>3, <1>4 DEF Inv

-----------------------------------------------------------------------------
(* The other threads.                                                      *)

\* They queue events that nobody waits for as a caller does.
LEMMA OthersInv ==
  ASSUME Inv, \/ processSyncEvt \/ NotifierWake \/ NotifierSpuriousWakeup
              \/ MetadataPrepDone \/ DaemonDies
  PROVE  Inv'
<1>1. TypeOK'
  <2>1. CASE processSyncEvt
    <3>1. evt_queue' \in Seq({"SNAPSHOT_DONE", "PREP_SNAPSHOT_DONE"})
      BY <2>1, AppendNode DEF processSyncEvt, Inv, TypeOK
    <3>2. snapshots' \in 0 .. MaxSnapshots
      BY <2>1, HandshakeAssumption DEF processSyncEvt, Inv, TypeOK, HandshakeAssumption
    <3>3. QED
      BY <2>1, <3>1, <3>2 DEF processSyncEvt, Inv, TypeOK, callerVars, machineVars, daemonVars
  <2>2. CASE NotifierWake \/ NotifierSpuriousWakeup
    BY <2>2 DEF NotifierWake, NotifierSpuriousWakeup, Inv, TypeOK, callerVars, machineVars,
       daemonVars
  <2>3. CASE MetadataPrepDone \/ DaemonDies
    <3>1. evt_queue' \in Seq({"SNAPSHOT_DONE", "PREP_SNAPSHOT_DONE"})
      BY <2>3, AppendNode DEF MetadataPrepDone, DaemonDies, Inv, TypeOK
    <3>2. QED
      BY <2>3, <3>1 DEF MetadataPrepDone, DaemonDies, Inv, TypeOK, callerVars, machineVars,
         notifierVars
  <2>4. QED
    BY <2>1, <2>2, <2>3
<1>2. UNCHANGED <<api_queue, callerVars, machineVars>>
  BY DEF processSyncEvt, NotifierWake, NotifierSpuriousWakeup, MetadataPrepDone, DaemonDies
<1>3. QED
  BY <1>1, <1>2, QuietInv DEF callerVars

\* A thermal notification, and the EXIT of the destructor.
LEMMA OtherNodesInv == ASSUME Inv, thermalEvtHandle \/ Close PROVE Inv'
<1>1. CASE thermalEvtHandle
  <2> DEFINE node == [evt |-> "THERMAL_NOTIFY", call |-> NoCall]
  <2>1. node \in Node /\ node.evt \notin Api
    BY DEF Node, Api
  <2>2. api_queue' = Append(api_queue, node) /\ UNCHANGED <<callerVars, machineVars>>
    BY <1>1 DEF thermalEvtHandle
  <2>3. TypeOK'
    <3>1. api_queue' \in Seq(Node)
      BY <2>1, <2>2, AppendNode DEF Inv, TypeOK
    <3>2. thermals' \in 0 .. MaxThermal
      BY <1>1, HandshakeAssumption DEF thermalEvtHandle, Inv, TypeOK, HandshakeAssumption
    <3>3. QED
      BY <1>1, <2>2, <3>1, <3>2 DEF thermalEvtHandle, Inv, TypeOK, callerVars, machineVars,
         notifierVars
  <2>4. QED
    BY <2>1, <2>2, <2>3, OtherNodeInv
<1>2. CASE Close
  <2> DEFINE node == [evt |-> "EXIT", call |-> NoCall]
  <2>1. node \in Node /\ node.evt \notin Api
    BY DEF Node, Api
  <2>2. api_queue' = Append(api_queue, node) /\ UNCHANGED <<callerVars, machineVars>>
    BY <1>2 DEF Close
  <2>3. TypeOK'
    BY <1>2, <2>1, <2>2, AppendNode DEF Close, Inv, TypeOK, callerVars, machineVars,
       daemonVars, notifierVars
  <2>4. QED
    BY <2>1, <2>2, <2>3, OtherNodeInv
<1>3. QED
  BY <1>1, <1>2

-----------------------------------------------------------------------------
(* The invariant of the specification, and what follows from it.           *)

\* Inv holds at first.
LEMMA InitInv == Init => Inv
<1> SUFFICES ASSUME Init PROVE Inv
  OBVIOUS
<1>1. TypeOK
  <2>1. api_queue \in Seq(Node) /\ evt_queue \in Seq({"SNAPSHOT_DONE", "PREP_SNAPSHOT_DONE"})
    BY DEF Init
  <2>2. pc \in [Caller -> {"idle", "waiting", "woken"}] /\ req \in [Caller -> Result \cup {NoResult}]
    BY DEF Init
  <2>3. snapshots \in 0 .. MaxSnapshots /\ thermals \in 0 .. MaxThermal
    BY HandshakeAssumption DEF Init, HandshakeAssumption
  <2>4. QED
    BY <2>1, <2>2, <2>3 DEF Init, TypeOK
<1>2. CallersOwn /\ QueueOwn /\ MachineOwn /\ DeferredOwn
  BY DEF Init, CallersOwn, QueueOwn, MachineOwn, DeferredOwn
<1>3. QED
  BY <1>1, <1>2 DEF Inv

\* Every step preserves Inv.
LEMMA NextInv == ASSUME Inv, OneCaller, [Next]_vars PROVE Inv'
<1>1. CASE UNCHANGED vars
  <2>1. TypeOK' /\ UNCHANGED <<api_queue, m_apiResult, req, calls, machineVars, pc>>
    BY <1>1 DEF vars, machineVars, Inv, TypeOK
  <2>2. QED
    BY <2>1, QuietInv
<1>2. CASE \E c \in Caller : Call(c) \/ CallerStep(c) \/ SpuriousWakeup(c)
  BY <1>2, CallerInv
<1>3. CASE MachineStep
  BY <1>3, TakeApiInv, TakeEvtInv, SignalInv, SignalEvtInv DEF MachineStep
<1>4. CASE \/ processSyncEvt \/ NotifierWake \/ NotifierSpuriousWakeup
           \/ MetadataPrepDone \/ DaemonDies
  BY <1>4, OthersInv
<1>5. CASE thermalEvtHandle \/ Close
  BY <1>5, OtherNodesInv
<1>6. QED
  BY <1>1, <1>2, <1>3, <1>4, <1>5 DEF Next

\* The one unanswered call is at one place, and the result is zeroed for it.
THEOREM InvCorrect == ASSUME OneCaller PROVE Spec => []Inv
<1>1. Inv /\ [Next]_vars => Inv'
  BY NextInv
<1>2. QED
  BY <1>1, InitInv, PTL DEF Spec

\* The queues, the result and the threads are well typed, for any number of
\* calls (QCameraStateMachine.cpp and QCamera2HWI.cpp, processAPI and
\* waitAPIResult).
THEOREM TypeCorrect == ASSUME OneCaller PROVE Spec => []TypeOK
<1>1. Inv => TypeOK
  BY DEF Inv
<1>2. QED
  BY <1>1, InvCorrect, PTL

\* waitAPIResult compares only the event: with one caller at a time the
\* result it accepts is nevertheless that of its own call, spurious wakeups,
\* deferred prepares and thermal nodes included.
THEOREM AnswersCorrect == ASSUME OneCaller PROVE Spec => AnswerIsOwn
<1>1. ASSUME Inv, [Next]_vars, NEW c \in Caller,
             pc[c] = "woken", pc'[c] = "idle" \/ req'[c] # req[c]
      PROVE  Answered(req[c].call)
  <2>1. Return(c) \/ TakePicture(c)
    <3>1. \A d \in Caller : d = c
      BY DEF OneCaller
    <3>2. CASE \E d \in Caller : Call(d) \/ CallerStep(d) \/ SpuriousWakeup(d)
      <4>1. Call(c) \/ CallerStep(c) \/ SpuriousWakeup(c)
        BY <3>1, <3>2
      <4>2. ~ Call(c)
        BY <1>1 DEF Call
      <4>3. ~ (CheckAgain(c) \/ SpuriousWakeup(c))
        BY <1>1 DEF CheckAgain, SpuriousWakeup, Inv, TypeOK
      <4>4. QED
        BY <4>1, <4>2, <4>3 DEF CallerStep
    <3>3. CASE MachineStep
      <4>1. req' = req /\ (pc'[c] = "idle" => pc[c] = "idle")
        <5>1. CASE signalAPIResult
          <6>1. req' = req /\ \A d \in Caller : (pc'[d] = "idle") <=> (pc[d] = "idle")
            BY <1>1, <5>1 DEF signalAPIResult, Inv, TypeOK
          <6>2. QED
            BY <6>1
        <5>2. CASE TakeApi \/ TakeEvt \/ signalEvtResult
          BY <5>2 DEF TakeApi, TakeEvt, signalEvtResult, callerVars
        <5>3. QED
          BY <3>3, <5>1, <5>2 DEF MachineStep
      <4>2. QED
        BY <1>1, <4>1
    <3>4. CASE \/ processSyncEvt \/ NotifierWake \/ NotifierSpuriousWakeup
               \/ MetadataPrepDone \/ DaemonDies \/ thermalEvtHandle \/ Close
      BY <1>1, <3>4 DEF processSyncEvt, NotifierWake, NotifierSpuriousWakeup,
         MetadataPrepDone, DaemonDies, thermalEvtHandle, Close, callerVars
    <3>5. QED
      BY <1>1, <3>2, <3>3, <3>4 DEF Next, vars
  <2>2. m_apiResult.evt = req[c].evt
    BY <2>1 DEF Return, TakePicture
  <2>3. m_apiResult = req[c]
    BY <1>1, <2>2 DEF Inv, CallersOwn, Result, Api, NoResult
  <2>4. QED
    BY <2>3 DEF Answered
<1>2. Inv /\ [Next]_vars =>
        [\A c \in Caller : pc[c] = "woken" /\ (pc'[c] = "idle" \/ req'[c] # req[c])
           => Answered(req[c].call)]_vars
  BY <1>1
<1>3. QED
  BY <1>2, InvCorrect, PTL DEF Spec, AnswerIsOwn
=============================================================================
