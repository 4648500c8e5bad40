----------------------------- MODULE ApiHandshake -----------------------------
(***************************************************************************)
(* How callers and the state machine thread meet.  A caller of the device  *)
(* puts an event in api_queue and waits on m_cond for the result of that   *)
(* event; internal events go through evt_queue, and the notifier thread    *)
(* waits on m_evtCond for the one it posts.  One machine thread takes      *)
(* nodes, API first, handles them and signals results.                     *)
(*                                                                         *)
(* m_lock and m_evtLock are held from one action's start to its end: a     *)
(* caller owns m_lock from lockAPI to the wait, and from a wakeup to the   *)
(* next wait or unlockAPI, signalAPIResult owns it throughout.  So the     *)
(* locks need no variables; that the wait gives m_lock up is what lets     *)
(* actions of other callers in between.  cmd_sem counts the queued nodes.  *)
(***************************************************************************)
EXTENDS Naturals, Sequences, FiniteSets

CONSTANTS
  Caller,          \* threads that call the device
  MaxCalls,        \* bound: no call starts after this many API events
  MaxSnapshots,    \* bound: SNAPSHOT_DONE events
  MaxThermal,      \* bound: thermal notifications
  DaemonMayDie,    \* may the daemon die before it ends a prepare?
  FaceApi          \* may callers use REG_FACE_IMAGE?

ASSUME HandshakeAssumption ==
  /\ MaxCalls \in Nat /\ MaxSnapshots \in Nat /\ MaxThermal \in Nat
  /\ DaemonMayDie \in BOOLEAN /\ FaceApi \in BOOLEAN

VARIABLES
  api_queue,       \* API nodes: what is asked and by which call
  evt_queue,       \* internal events
  m_apiResult,     \* the last API result, or the zeroed one
  pc,              \* caller: "idle", "waiting" on m_cond, or "woken"
  req,             \* caller: the event and call it waits for
  calls,           \* API events posted so far; numbers the calls
  sm,              \* machine thread: "idle", about to signal an "api" or "evt" result, "exited"
  smResult,        \* the API result it is about to signal
  preparing,       \* 0, or the PREPARE_SNAPSHOT call whose answer is deferred
  prepPosted,      \* has the metadata thread posted the end of this prepare?
  daemonDied,
  notifier,        \* notifier thread: "idle", "waiting" on m_evtCond, or "woken"
  m_evtResult,     \* is the SNAPSHOT_DONE result in?
  snapshots, thermals,   \* counters for the bounds
  closing          \* has the destructor posted EXIT?

vars == <<api_queue, evt_queue, m_apiResult, pc, req, calls, sm, smResult,
          preparing, prepPosted, daemonDied, notifier, m_evtResult, snapshots, thermals, closing>>

callerVars == <<m_apiResult, pc, req, calls>>
machineVars == <<sm, smResult, preparing>>
daemonVars == <<prepPosted, daemonDied, thermals>>
notifierVars == <<notifier, m_evtResult, snapshots>>

\* OTHER stands for every call each state answers at once.
Api == {"OTHER", "PREPARE_SNAPSHOT", "TAKE_PICTURE"}
       \cup (IF FaceApi THEN {"REG_FACE_IMAGE"} ELSE {})
CallNo == Nat \ {0}
NoCall == 0
NoResult == [evt |-> "none", call |-> NoCall]
Result == [evt: Api, call: CallNo]
Node == [evt: Api \cup {"THERMAL_NOTIFY", "EXIT"}, call: {NoCall} \cup CallNo]

Init ==
  /\ api_queue = <<>> /\ evt_queue = <<>>
  /\ m_apiResult = NoResult
  /\ pc = [c \in Caller |-> "idle"]
  /\ req = [c \in Caller |-> NoResult]
  /\ calls = 0
  /\ sm = "idle" /\ smResult = NoResult
  /\ preparing = NoCall /\ prepPosted = FALSE /\ daemonDied = FALSE
  /\ notifier = "idle" /\ m_evtResult = FALSE
  /\ snapshots = 0 /\ thermals = 0
  /\ closing = FALSE

-----------------------------------------------------------------------------
(* Callers.                                                                 *)

\* Mutant: the last result is not zeroed before the wait.
waitAPIResultStale(c, evt) ==
  /\ calls' = calls + 1
  /\ api_queue' = Append(api_queue, [evt |-> evt, call |-> calls + 1])
  /\ m_apiResult' = m_apiResult
  /\ req' = [req EXCEPT ![c] = [evt |-> evt, call |-> calls + 1]]
  /\ pc' = [pc EXCEPT ![c] = "waiting"]

\* processAPI, then waitAPIResult: it zeroes the result before it waits.
waitAPIResult(c, evt) ==
  /\ calls' = calls + 1
  /\ api_queue' = Append(api_queue, [evt |-> evt, call |-> calls + 1])
  /\ m_apiResult' = NoResult
  /\ req' = [req EXCEPT ![c] = [evt |-> evt, call |-> calls + 1]]
  /\ pc' = [pc EXCEPT ![c] = "waiting"]

\* A call; take_picture starts with PREPARE_SNAPSHOT and no other call uses it,
\* and only take_picture posts TAKE_PICTURE.
Call(c) ==
  /\ pc[c] = "idle" /\ ~closing /\ calls < MaxCalls
  /\ \E evt \in Api \ {"TAKE_PICTURE"} : waitAPIResult(c, evt)
  /\ UNCHANGED <<evt_queue, closing>>
  /\ UNCHANGED machineVars /\ UNCHANGED daemonVars /\ UNCHANGED notifierVars

\* A woken caller has m_lock again and looks whether the result is its event's.
CheckAgain(c) ==
  /\ pc[c] = "woken" /\ m_apiResult.evt # req[c].evt
  /\ pc' = [pc EXCEPT ![c] = "waiting"]
  /\ UNCHANGED <<api_queue, evt_queue, m_apiResult, req, calls, closing>>
  /\ UNCHANGED machineVars /\ UNCHANGED daemonVars /\ UNCHANGED notifierVars

Return(c) ==
  /\ pc[c] = "woken" /\ m_apiResult.evt = req[c].evt
  /\ req[c].evt # "PREPARE_SNAPSHOT"
  /\ pc' = [pc EXCEPT ![c] = "idle"]
  /\ UNCHANGED <<api_queue, evt_queue, m_apiResult, req, calls, closing>>
  /\ UNCHANGED machineVars /\ UNCHANGED daemonVars /\ UNCHANGED notifierVars

\* take_picture goes on to the capture without giving m_lock up in between.
TakePicture(c) ==
  /\ pc[c] = "woken" /\ m_apiResult.evt = req[c].evt
  /\ req[c].evt = "PREPARE_SNAPSHOT"
  /\ waitAPIResult(c, "TAKE_PICTURE")
  /\ UNCHANGED <<evt_queue, closing>>
  /\ UNCHANGED machineVars /\ UNCHANGED daemonVars /\ UNCHANGED notifierVars

\* pthread_cond_wait may return without a signal.
SpuriousWakeup(c) ==
  /\ pc[c] = "waiting"
  /\ pc' = [pc EXCEPT ![c] = "woken"]
  /\ UNCHANGED <<api_queue, evt_queue, m_apiResult, req, calls, closing>>
  /\ UNCHANGED machineVars /\ UNCHANGED daemonVars /\ UNCHANGED notifierVars

-----------------------------------------------------------------------------
(* The machine thread.                                                      *)

\* Mutant: THERMAL_NOTIFY is answered as if a caller waited for it.
HandleApiAnswersThermal(node) ==
  /\ sm' = "api" /\ smResult' = node
  /\ UNCHANGED <<preparing, prepPosted>>

\* What handling an API event does: it is answered now, deferred (a prepare
\* that the backend accepted), or not answered at all.
HandleApi(node) ==
  \/ /\ node.evt \in Api
     /\ node.evt = "REG_FACE_IMAGE" => preparing = NoCall
     /\ sm' = "api" /\ smResult' = node
     /\ UNCHANGED <<preparing, prepPosted>>
  \/ /\ node.evt = "PREPARE_SNAPSHOT" /\ preparing = NoCall
     /\ preparing' = node.call /\ prepPosted' = FALSE
     /\ UNCHANGED <<sm, smResult>>
  \/ /\ \/ node.evt = "THERMAL_NOTIFY"
        \/ node.evt = "REG_FACE_IMAGE" /\ preparing # NoCall
     /\ UNCHANGED <<sm, smResult, preparing, prepPosted>>
  \/ /\ node.evt = "EXIT"
     /\ sm' = "exited"
     /\ UNCHANGED <<smResult, preparing, prepPosted>>

TakeApi ==
  /\ sm = "idle" /\ api_queue # <<>>
  /\ api_queue' = Tail(api_queue)
  /\ HandleApi(Head(api_queue))
  /\ UNCHANGED <<evt_queue, daemonDied, thermals, closing>>
  /\ UNCHANGED callerVars /\ UNCHANGED notifierVars

\* Mutant: leaving PREPARE_SNAPSHOT forgets the call that waits for it.
HandleEvtForgetsPrepare(evt) ==
  IF evt = "PREP_SNAPSHOT_DONE" THEN preparing' = NoCall /\ UNCHANGED <<sm, smResult>>
  ELSE sm' = "evt" /\ UNCHANGED <<smResult, preparing>>

\* Mutant: SNAPSHOT_DONE is not answered while a prepare is under way.
HandleEvtForgetsNotifier(evt) ==
  IF evt = "SNAPSHOT_DONE"
  THEN sm' = (IF preparing = NoCall THEN "evt" ELSE sm) /\ UNCHANGED <<smResult, preparing>>
  ELSE /\ preparing' = NoCall
       /\ sm' = "api" /\ smResult' = [evt |-> "PREPARE_SNAPSHOT", call |-> preparing]

\* The end of a prepare answers the deferred call and means nothing elsewhere;
\* SNAPSHOT_DONE is answered in every state.
HandleEvt(evt) ==
  \/ /\ evt = "PREP_SNAPSHOT_DONE"
     /\ IF preparing = NoCall
        THEN UNCHANGED <<sm, smResult>>
        ELSE /\ sm' = "api"
             /\ smResult' = [evt |-> "PREPARE_SNAPSHOT", call |-> preparing]
     /\ preparing' = NoCall
  \/ /\ evt = "SNAPSHOT_DONE"
     /\ sm' = "evt"
     /\ UNCHANGED <<smResult, preparing>>

TakeEvt ==
  /\ sm = "idle" /\ api_queue = <<>> /\ evt_queue # <<>>
  /\ evt_queue' = Tail(evt_queue)
  /\ HandleEvt(Head(evt_queue))
  /\ UNCHANGED <<api_queue, closing>>
  /\ UNCHANGED callerVars /\ UNCHANGED daemonVars /\ UNCHANGED notifierVars

\* pthread_cond_signal wakes one waiter, whichever it is; with none it is lost.
signalAPIResult ==
  /\ sm = "api"
  /\ m_apiResult' = smResult
  /\ sm' = "idle" /\ smResult' = NoResult
  /\ IF \E c \in Caller : pc[c] = "waiting"
     THEN \E c \in Caller : pc[c] = "waiting" /\ pc' = [pc EXCEPT ![c] = "woken"]
     ELSE UNCHANGED pc
  /\ UNCHANGED <<api_queue, evt_queue, req, calls, preparing, closing>>
  /\ UNCHANGED daemonVars /\ UNCHANGED notifierVars

signalEvtResult ==
  /\ sm = "evt"
  /\ sm' = "idle"
  /\ m_evtResult' = TRUE
  /\ notifier' = IF notifier = "waiting" THEN "woken" ELSE notifier
  /\ UNCHANGED <<api_queue, evt_queue, smResult, preparing, snapshots, closing>>
  /\ UNCHANGED callerVars /\ UNCHANGED daemonVars

-----------------------------------------------------------------------------
(* The other threads.                                                       *)

\* The notifier posts SNAPSHOT_DONE, zeroes the result and waits, all under
\* m_evtLock, which signalEvtResult needs too.
processSyncEvt ==
  /\ notifier = "idle" /\ ~closing /\ snapshots < MaxSnapshots
  /\ snapshots' = snapshots + 1
  /\ evt_queue' = Append(evt_queue, "SNAPSHOT_DONE")
  /\ m_evtResult' = FALSE
  /\ notifier' = "waiting"
  /\ UNCHANGED <<api_queue, closing>>
  /\ UNCHANGED machineVars /\ UNCHANGED callerVars /\ UNCHANGED daemonVars

NotifierWake ==
  /\ notifier = "woken"
  /\ notifier' = IF m_evtResult THEN "idle" ELSE "waiting"
  /\ UNCHANGED <<api_queue, evt_queue, m_evtResult, snapshots, closing>>
  /\ UNCHANGED machineVars /\ UNCHANGED callerVars /\ UNCHANGED daemonVars

NotifierSpuriousWakeup ==
  /\ notifier = "waiting"
  /\ notifier' = "woken"
  /\ UNCHANGED <<api_queue, evt_queue, m_evtResult, snapshots, closing>>
  /\ UNCHANGED machineVars /\ UNCHANGED callerVars /\ UNCHANGED daemonVars

\* Metadata ends the prepare the machine waits in.
MetadataPrepDone ==
  /\ preparing # NoCall /\ ~prepPosted /\ ~daemonDied
  /\ prepPosted' = TRUE
  /\ evt_queue' = Append(evt_queue, "PREP_SNAPSHOT_DONE")
  /\ UNCHANGED <<api_queue, daemonDied, thermals, closing>>
  /\ UNCHANGED machineVars /\ UNCHANGED callerVars /\ UNCHANGED notifierVars

\* The machine only reports a dead daemon to the client's notify callback.
DaemonDies ==
  /\ DaemonMayDie /\ ~daemonDied
  /\ daemonDied' = TRUE
  /\ UNCHANGED <<api_queue, evt_queue, prepPosted, thermals, closing>>
  /\ UNCHANGED machineVars /\ UNCHANGED callerVars /\ UNCHANGED notifierVars

\* A thermal notification is an API node nobody waits for.
thermalEvtHandle ==
  /\ ~closing /\ thermals < MaxThermal
  /\ thermals' = thermals + 1
  /\ api_queue' = Append(api_queue, [evt |-> "THERMAL_NOTIFY", call |-> NoCall])
  /\ UNCHANGED <<evt_queue, prepPosted, daemonDied, closing>>
  /\ UNCHANGED machineVars /\ UNCHANGED callerVars /\ UNCHANGED notifierVars

\* closeCamera joins the notifier thread, then the destructor posts EXIT.  The
\* client does not close the device in the middle of a call.
Close ==
  /\ ~closing /\ notifier = "idle" /\ \A c \in Caller : pc[c] = "idle"
  /\ closing' = TRUE
  /\ api_queue' = Append(api_queue, [evt |-> "EXIT", call |-> NoCall])
  /\ UNCHANGED evt_queue
  /\ UNCHANGED machineVars /\ UNCHANGED callerVars /\ UNCHANGED daemonVars /\ UNCHANGED notifierVars

CallerStep(c) == CheckAgain(c) \/ Return(c) \/ TakePicture(c)
MachineStep == TakeApi \/ TakeEvt \/ signalAPIResult \/ signalEvtResult

Next ==
  \/ \E c \in Caller : Call(c) \/ CallerStep(c) \/ SpuriousWakeup(c)
  \/ MachineStep
  \/ processSyncEvt \/ NotifierWake \/ NotifierSpuriousWakeup
  \/ MetadataPrepDone \/ DaemonDies \/ thermalEvtHandle \/ Close

\* Threads that can run do run, and a live daemon ends the prepares it accepted.
Fairness ==
  /\ \A c \in Caller : WF_vars(CallerStep(c))
  /\ WF_vars(MachineStep)
  /\ WF_vars(NotifierWake)
  /\ WF_vars(MetadataPrepDone)

Spec == Init /\ [][Next]_vars /\ Fairness

-----------------------------------------------------------------------------
(* Properties.                                                              *)

TypeOK ==
  /\ api_queue \in Seq(Node)
  /\ evt_queue \in Seq({"SNAPSHOT_DONE", "PREP_SNAPSHOT_DONE"})
  /\ m_apiResult \in Result \cup {NoResult}
  /\ pc \in [Caller -> {"idle", "waiting", "woken"}]
  /\ req \in [Caller -> Result \cup {NoResult}]
  /\ calls \in Nat
  /\ sm \in {"idle", "api", "evt", "exited"}
  /\ smResult \in Result \cup {NoResult}
  /\ preparing \in {NoCall} \cup CallNo
  /\ prepPosted \in BOOLEAN /\ daemonDied \in BOOLEAN /\ closing \in BOOLEAN
  /\ notifier \in {"idle", "waiting", "woken"}
  /\ m_evtResult \in BOOLEAN
  /\ snapshots \in 0..MaxSnapshots /\ thermals \in 0..MaxThermal

\* Where the answer to a call can be while its caller waits.
Queued(n)   == \E i \in DOMAIN api_queue : api_queue[i].call = n
Handled(n)  == sm = "api" /\ smResult.call = n
Answered(n) == m_apiResult.call = n

\* A caller returns, or goes on to the capture, with the answer of its own call.
AnswerIsOwn ==
  [][\A c \in Caller : pc[c] = "woken" /\ (pc'[c] = "idle" \/ req'[c] # req[c])
       => Answered(req[c].call)]_vars

\* Every call returns unless the daemon died under it, PREPARE_SNAPSHOT's
\* deferred answer and the two events of take_picture included.
CallsReturn ==
  \A c \in Caller : pc[c] # "idle" ~> pc[c] = "idle" \/ daemonDied

\* The notifier thread gets out of processSyncEvt whatever the callers do,
\* although API nodes overtake its event, so that closing can join it.
NotifierReturns == notifier # "idle" ~> notifier = "idle"
=============================================================================
