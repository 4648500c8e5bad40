---------------------------- MODULE MmJpeg_proofs ----------------------------
(***************************************************************************)
(* Theorems about MmJpeg, for any number of jobs, of sessions and of jobs  *)
(* the client has under way, and for failures of the configuration, of the *)
(* buffers and of the encoder; not when a wait ends without a signal or an *)
(* error of the encoder is taken for the completion of an abort, which the *)
(* code is exposed to (NoFalseCompletion).                                  *)
(*                                                                         *)
(* The argument follows the one job that is not in a queue to do.  It is   *)
(* session.jobId, and whoever has it (the manager until it has filled the  *)
(* buffers, the component, the callback) has it alone.  Commands of the    *)
(* component are never left over: whoever sends one waits for it with      *)
(* job_lock held, so that an abort is answered by its own command and an   *)
(* error event is an error of the encoder.                                 *)
(***************************************************************************)
EXTENDS MmJpeg, SequenceTheorems, TLAPS

NoFalseCompletion == {"spuriousWakeup", "errorDuringAbort"} \cap Faults = {}

Configuring == {"toIdle", "waitIdle", "toExecuting", "waitExecuting", "configured"}

\* The manager holds job_lock.
Encoding == Configuring \cup {"start", "encode", "fill", "error", "errorDone"}

\* The client holds job_lock, in mm_jpeg_session_abort or mm_jpeg_session_destroy.
Aborting == {"abortSession", "abortSend", "abortCheck", "abortWait"}
Destroying == {"loaded?", "destroyIdle", "idleReached", "destroyLoaded", "free"}

\* Who holds job_lock, and for which job.
Locks ==
    /\ job_lock = "mgr" <=> mgr.pc \in Encoding
    /\ job_lock = "client" <=> client.pc \in Aborting \cup Destroying
    /\ client.pc = "abortLock" => client.job \in 1 .. started
    /\ client.pc \in Aborting => client.job \in {0, session.jobId}
    /\ client.pc \in Destroying \cup {"destroyLock"} => client.job = 0

\* Without a session, or once its destruction has begun, no job is left.
Sessions ==
    /\ client.pc \in Aborting \cup Destroying \cup {"abortLock", "destroyLock"}
          => session.active
    /\ client.pc \in {"join", "closed"} => ~ session.active
    /\ ~ session.active => omx = loaded /\ mgr.pc \notin Encoding
    /\ ~ session.active \/ (client.pc \in Aborting \cup Destroying /\ client.job = 0)
          => ongoing_job_q = <<>> /\ \A i \in DOMAIN job_queue : job_queue[i] = EXIT
    /\ (\E i \in DOMAIN job_queue : job_queue[i] = EXIT) => client.pc \in {"join", "closed"}

\* A job is in job_queue once; it has not been taken, answered or ended.
Todo ==
    /\ \A i, k \in DOMAIN job_queue : job_queue[i] = job_queue[k] => i = k
    /\ \A i \in DOMAIN job_queue : job_queue[i] # EXIT =>
          /\ job_queue[i] \in (1 .. started) \ (ended \cup {session.jobId})
          /\ answers[job_queue[i]] = 0

\* The job taken last is the only one that can be ongoing.
Ongoing ==
    /\ \A i \in DOMAIN ongoing_job_q : ongoing_job_q[i] = session.jobId
    /\ ongoing_job_q # <<>> => session.jobId \notin ended
    /\ mgr.pc = "lock" \/ job_lock = "client" => ongoing_job_q = <<>>
    /\ mgr.pc \in Encoding => ongoing_job_q = <<mgr.job>> /\ session.jobId = mgr.job
    /\ mgr.pc \in Encoding \ {"errorDone"} => answers[mgr.job] = 0
    /\ session.jobId <= started /\ ended \subseteq 1 .. started
    /\ \A j \in Job : j > started => answers[j] = 0

\* One of the manager, the component and a callback has it.
Holder ==
    /\ omx.job # 0 => /\ omx.job = session.jobId /\ answers[omx.job] = 0
                      /\ omx.job \notin ended
                      /\ session.encoding /\ session.config
                      /\ session.abort_state # "DONE"
                      /\ cb = 0 /\ mgr.pc \notin Encoding
                      /\ job_lock = "none" => ongoing_job_q # <<>>
    /\ cb # 0 => /\ cb = session.jobId /\ mgr.pc \notin Encoding
                 /\ job_lock = "none" => ongoing_job_q # <<>>

\* The component has one command at most, which changes its state, and none left
\* when job_lock is released or the manager goes on.
Commands ==
    /\ omx.cmds = <<>> \/ \E c \in OmxState \ {omx.state} : omx.cmds = <<c>>
    /\ \/ job_lock = "none" \/ client.pc \in {"abortSession", "abortSend", "loaded?"}
       \/ mgr.pc \in Encoding /\ (mgr.pc \in {"waitIdle", "waitExecuting"} => woken)
       => omx.cmds = <<>>
    /\ client.pc \in {"destroyIdle", "idleReached"} => omx.cmds \in {<<>>, <<"Idle">>}

\* How far an abort is: the command it sent is the one it is answered by.
Abort ==
    /\ session.abort_state = "INIT" => client.pc \in {"abortSend", "abortCheck", "abortWait"}
    /\ client.pc = "abortSend" => session.abort_state = "INIT" /\ omx.state # "Idle"
    /\ client.pc \in {"abortCheck", "abortWait"} =>
          \/ session.abort_state = "INIT" /\ omx.cmds = <<"Idle">> /\ ~ woken
          \/ session.abort_state = "DONE" /\ omx.cmds = <<>>
    /\ client.pc \in Destroying => session.abort_state = "DONE"
    /\ mgr.pc \in Encoding \ {"start"} => session.abort_state = "NONE"
    /\ session.encoding /\ session.abort_state = "NONE" /\ mgr.pc \notin Encoding
          => omx.state # "Idle"

\* A configuration that fails is tried again before any error of the encoder.
Config ==
    /\ mgr.pc \in {"encode", "fill"} => session.config
    /\ mgr.pc = "fill" => session.encoding
    /\ mgr.pc \in Configuring => ~ session.config
    /\ session.error_flag => session.config

Inv ==
    /\ TypeOK /\ AnsweredOnce
    /\ Locks /\ Sessions /\ Todo /\ Ongoing /\ Holder /\ Commands /\ Abort /\ Config

-----------------------------------------------------------------------------
(* Facts about queues.                                                       *)

\* The bounds are numbers.
LEMMA Bounds == MaxJobs \in Nat \ {0} /\ MaxSessions \in Nat \ {0}
BY MmJpegAssumption

\* Queues of one element.
LEMMA OneElement ==
    \A c : /\ Head(<<c>>) = c /\ Tail(<<c>>) = <<>>
          /\ Append(<<>>, c) = <<c>> /\ <<c>> # <<>>
OBVIOUS

\* The least element of a set of one.
LEMMA MinOfOne == ASSUME NEW i \in Nat PROVE Min({i}) = i
BY DEF Min

\* What is left when one element is taken out of a sequence.
LEMMA RemoveAtProperties ==
    ASSUME NEW S, NEW q \in Seq(S), NEW m \in 1 .. Len(q)
    PROVE  /\ RemoveAt(q, m) \in Seq(S) /\ Len(RemoveAt(q, m)) = Len(q) - 1
           /\ \A i \in 1 .. Len(q) - 1 :
                 RemoveAt(q, m)[i] = IF i < m THEN q[i] ELSE q[i + 1]
<1> DEFINE a == SubSeq(q, 1, m - 1)
           b == SubSeq(q, m + 1, Len(q))
<1>1. a \in Seq(S) /\ Len(a) = m - 1 /\ \A i \in 1 .. m - 1 : a[i] = q[i]
  OBVIOUS
<1>2. /\ b \in Seq(S) /\ Len(b) = Len(q) - m
      /\ \A i \in 1 .. Len(q) - m : b[i] = q[m + i]
  OBVIOUS
<1> HIDE DEF a, b
<1>3. a \o b \in Seq(S) /\ Len(a \o b) = Len(q) - 1
  <2>1. a \o b \in Seq(S) /\ Len(a \o b) = Len(a) + Len(b)
    BY <1>1, <1>2, ConcatProperties
  <2>2. QED
    BY <1>1, <1>2, <2>1
<1>4. \A i \in 1 .. Len(q) - 1 : (a \o b)[i] = IF i < m THEN q[i] ELSE q[i + 1]
  BY <1>1, <1>2
<1>5. QED
  BY <1>3, <1>4 DEF RemoveAt, a, b

\* A job that is in a queue once is not in it after its removal, and the others stay.
LEMMA RemoveJob ==
    ASSUME NEW S, NEW q \in Seq(S), NEW j,
           \A i, k \in DOMAIN q : q[i] = q[k] => i = k
    PROVE  /\ removeJob(q, j) \in Seq(S)
           /\ \A i \in DOMAIN removeJob(q, j) :
                 /\ removeJob(q, j)[i] # j
                 /\ \E k \in DOMAIN q : removeJob(q, j)[i] = q[k]
           /\ \A i, k \in DOMAIN removeJob(q, j) :
                 removeJob(q, j)[i] = removeJob(q, j)[k] => i = k
<1>1. CASE \A i \in 1 .. Len(q) : q[i] # j
  <2>1. removeJob(q, j) = q
    BY <1>1 DEF removeJob, RemoveFirst
  <2>2. QED
    BY <1>1, <2>1
<1>2. CASE \E i \in 1 .. Len(q) : q[i] = j
  <2>1. PICK m \in 1 .. Len(q) : q[m] = j
    BY <1>2
  <2>2. {i \in 1 .. Len(q) : q[i] = j} = {m}
    BY <2>1
  <2>3. SelectInSeq(q, LAMBDA v : v = j) = m
    BY <2>1, <2>2, MinOfOne DEF SelectInSeq
  <2> DEFINE r == RemoveAt(q, m)
  <2>4. removeJob(q, j) = r
    BY <1>2, <2>3 DEF removeJob, RemoveFirst
  <2>5. /\ r \in Seq(S) /\ Len(r) = Len(q) - 1
        /\ \A i \in 1 .. Len(q) - 1 : r[i] = IF i < m THEN q[i] ELSE q[i + 1]
    BY RemoveAtProperties
  <2> HIDE DEF r
  <2>6. DOMAIN r = 1 .. Len(q) - 1 /\ DOMAIN q = 1 .. Len(q) /\ Len(q) \in Nat
    BY <2>5
  <2>7. ASSUME NEW i \in DOMAIN r
        PROVE  r[i] # j /\ \E k \in DOMAIN q : r[i] = q[k]
    <3>1. CASE i < m
      BY <2>1, <2>5, <2>6, <2>7, <3>1
    <3>2. CASE ~ (i < m)
      <4>1. i + 1 \in DOMAIN q /\ i + 1 # m /\ r[i] = q[i + 1]
        BY <2>1, <2>5, <2>6, <2>7, <3>2
      <4>2. QED
        BY <2>1, <4>1
    <3>3. QED
      BY <3>1, <3>2
  <2>8. \A i, k \in DOMAIN r : r[i] = r[k] => i = k
    BY <2>1, <2>5, <2>6
  <2>9. QED
    BY <2>4, <2>5, <2>7, <2>8
<1>3. QED
  BY <1>1, <1>2

\* The removal of the only job leaves nothing.
LEMMA RemoveOnly ==
    ASSUME NEW S, NEW q \in Seq(S), NEW j, Len(q) <= 1, \A i \in DOMAIN q : q[i] = j
    PROVE  removeJob(q, j) = <<>>
<1>1. Len(removeJob(q, j)) = 0 /\ removeJob(q, j) \in Seq(S)
  <2>1. CASE q = <<>>
    BY <2>1 DEF removeJob, RemoveFirst
  <2>2. CASE q # <<>>
    <3>1. 1 .. Len(q) = {1} /\ q[1] = j /\ Len(q) = 1
      BY <2>2
    <3>2. {i \in 1 .. Len(q) : q[i] = j} = {1}
      BY <3>1
    <3>3. SelectInSeq(q, LAMBDA v : v = j) = 1
      BY <3>2, MinOfOne DEF SelectInSeq
    <3>4. removeJob(q, j) = RemoveAt(q, 1)
      BY <3>1, <3>3 DEF removeJob, RemoveFirst
    <3>5. QED
      BY <3>1, <3>4 DEF RemoveAt
  <2>3. QED
    BY <2>1, <2>2
<1>2. QED
  BY <1>1


\* The head and the rest of a queue.
LEMMA TailProperties ==
    ASSUME NEW S, NEW q \in Seq(S), q # <<>>
    PROVE  /\ Tail(q) \in Seq(S) /\ Head(q) \in S
           /\ 1 \in DOMAIN q /\ q[1] = Head(q)
           /\ \A i \in DOMAIN Tail(q) :
                 i \in Nat \ {0} /\ i + 1 \in DOMAIN q /\ Tail(q)[i] = q[i + 1]
OBVIOUS

\* The places of a queue with one element more.
LEMMA AppendElement ==
    ASSUME NEW S, NEW q \in Seq(S), NEW e \in S
    PROVE  /\ Append(q, e) \in Seq(S)
           /\ \A i \in DOMAIN Append(q, e) :
                 \/ i \in DOMAIN q /\ Append(q, e)[i] = q[i]
                 \/ i = Len(q) + 1 /\ Append(q, e)[i] = e
OBVIOUS

\* What taking a job does.
LEMMA MgrTakeJobEffect ==
    ASSUME Inv, MgrTake, job_queue # <<>>, Head(job_queue) # EXIT
    PROVE  /\ at("lock") /\ job_lock = "none" /\ job_lock' = "mgr" /\ ongoing_job_q = <<>>
           /\ job_queue' = Tail(job_queue) /\ ongoing_job_q' = <<Head(job_queue)>>
           /\ session'.jobId = Head(job_queue)
           /\ session'.active = session.active /\ session'.config = session.config
           /\ session'.encoding = session.encoding
           /\ session'.abort_state = session.abort_state
           /\ session'.error_flag = session.error_flag
           /\ mgr'.pc = "start" /\ mgr'.job = Head(job_queue)
           /\ Head(job_queue) \in 1 .. started /\ Head(job_queue) \notin ended
           /\ Head(job_queue) # session.jobId /\ answers[Head(job_queue)] = 0
           /\ session.active /\ client.pc \notin Aborting \cup Destroying
           /\ UNCHANGED <<omx, client, cb, woken, history, job_sem>>
<1>1. /\ at("lock") /\ job_lock = "none" /\ ongoing_job_q = <<>>
      /\ job_queue \in Seq(Job \cup {EXIT}) /\ 1 \in DOMAIN job_queue
      /\ job_queue[1] = Head(job_queue)
  BY DEF MgrTake, Inv, TypeOK, Ongoing, at
<1>2. /\ Head(job_queue) \in 1 .. started /\ Head(job_queue) \notin ended
      /\ Head(job_queue) # session.jobId /\ answers[Head(job_queue)] = 0
      /\ session.active
  BY <1>1 DEF Inv, Todo, Sessions
<1>3. client.pc \notin Aborting \cup Destroying
  BY <1>1 DEF Inv, Locks
<1>4. /\ session' = [session EXCEPT !.jobId = Head(job_queue)]
      /\ mgr' = [job |-> Head(job_queue), pc |-> "start"] /\ job_lock' = "mgr"
      /\ job_queue' = Tail(job_queue) /\ ongoing_job_q' = <<Head(job_queue)>>
      /\ UNCHANGED <<omx, client, cb, woken, history, job_sem>>
  BY <1>1 DEF MgrTake
<1>5. QED
  BY <1>1, <1>2, <1>3, <1>4 DEF Inv, TypeOK, SessionType

\* A command obeyed is one that changes the state: it completes, and is no error.
LEMMA OmxCommandEffect ==
    ASSUME Inv, OmxCommand
    PROVE  \E c \in OmxState \ {omx.state} :
             /\ omx.cmds = <<c>>
             /\ omx'.state = c /\ omx'.cmds = <<>>
             /\ omx'.job = IF c = "Executing" THEN omx.job ELSE 0
             /\ session'.active = session.active /\ session'.config = session.config
             /\ session'.encoding = session.encoding /\ session'.jobId = session.jobId
             /\ session'.error_flag = session.error_flag
             /\ session'.abort_state = IF session.abort_state = "INIT" THEN "DONE"
                                       ELSE session.abort_state
             /\ UNCHANGED <<queues, job_lock, mgr, client, cb, history>>
<1>1. PICK c \in OmxState \ {omx.state} : omx.cmds = <<c>>
  BY DEF OmxCommand, Inv, Commands
<1>2. cmdComplete /\ UNCHANGED <<queues, job_lock, mgr, client, ended, started, sessions>>
  BY <1>1 DEF OmxCommand
<1>3. omx'.state = c /\ omx'.cmds = <<>> /\ omx'.job = IF c = "Executing" THEN omx.job ELSE 0
  BY <1>1 DEF OmxCommand
<1>4. QED
  BY <1>1, <1>2, <1>3 DEF cmdComplete, Inv, TypeOK, SessionType, history

\* An error of the encoder is one of the job it has, and never the end of an abort.
LEMMA OmxErrorEffect ==
    ASSUME Inv, NoFalseCompletion, OmxError
    PROVE  /\ omx.job # 0 /\ session.abort_state = "NONE" /\ omx.job = session.jobId
           /\ mgr.pc \notin Encoding /\ omx.job \notin ended /\ answers[omx.job] = 0
           /\ cb = 0 /\ session.config
           /\ omx'.job = 0 /\ omx'.state = omx.state /\ omx'.cmds = omx.cmds
           /\ session'.active = session.active /\ session'.config = session.config
           /\ session'.encoding = session.encoding /\ session'.jobId = session.jobId
           /\ session'.abort_state = session.abort_state
           /\ answers' = [answers EXCEPT ![session.jobId] = @ + 1]
           /\ cb' = session.jobId
           /\ UNCHANGED <<queues, job_lock, mgr, client, ended, started, sessions>>
<1>1. /\ omx.job # 0 /\ session.abort_state = "NONE" /\ omx.job = session.jobId
      /\ mgr.pc \notin Encoding /\ omx.job \notin ended /\ answers[omx.job] = 0
      /\ cb = 0 /\ session.encoding /\ session.config
  BY DEF OmxError, NoFalseCompletion, Inv, Holder, TypeOK, SessionType
<1>2. QED
  BY <1>1 DEF OmxError, errorEvent, answer, Inv, TypeOK, SessionType, OmxType

\* A picture is filled for the job of the session.
LEMMA OmxFilledEffect ==
    ASSUME Inv, OmxFilled, session.abort_state = "NONE"
    PROVE  /\ omx.job # 0 /\ omx.job = session.jobId
           /\ mgr.pc \notin Encoding /\ omx.job \notin ended /\ answers[omx.job] = 0
           /\ cb = 0
           /\ omx'.job = 0 /\ omx'.state = omx.state /\ omx'.cmds = omx.cmds
           /\ answers' = [answers EXCEPT ![session.jobId] = @ + 1]
           /\ cb' = session.jobId
           /\ UNCHANGED <<queues, job_lock, session, mgr, client, ended, started, sessions,
                          woken>>
<1>1. /\ omx.job # 0 /\ omx.job = session.jobId
      /\ mgr.pc \notin Encoding /\ omx.job \notin ended /\ answers[omx.job] = 0
      /\ cb = 0
  BY DEF OmxFilled, Inv, Holder
<1>2. QED
  BY <1>1 DEF OmxFilled, answer

\* The end of a callback leaves no job ongoing.
LEMMA CallbackDoneEffect ==
    ASSUME Inv, CallbackDone
    PROVE  /\ cb = session.jobId /\ mgr.pc \notin Encoding /\ cb' = 0 /\ omx.job = 0
           /\ ongoing_job_q' = <<>>
           /\ session'.active = session.active /\ session'.config = session.config
           /\ session'.encoding = FALSE /\ session'.jobId = session.jobId
           /\ session'.error_flag = session.error_flag
           /\ session'.abort_state = session.abort_state
           /\ UNCHANGED <<job_queue, job_lock, omx, mgr, client, woken, history>>
<1>1. cb = session.jobId /\ mgr.pc \notin Encoding /\ cb' = 0 /\ omx.job = 0
  BY DEF CallbackDone, Inv, Holder
<1>2. ongoing_job_q' = <<>>
  BY RemoveOnly DEF CallbackDone, job_done, Inv, TypeOK, Ongoing
<1>3. QED
  BY <1>1, <1>2 DEF CallbackDone, job_done

\* So does the end of a job that failed.
LEMMA MgrErrorDoneEffect ==
    ASSUME Inv, MgrErrorDone
    PROVE  /\ mgr.pc = "errorDone" /\ mgr'.pc = "wait" /\ mgr'.job = mgr.job
           /\ job_lock' = "none" /\ ongoing_job_q' = <<>>
           /\ session'.active = session.active /\ session'.config = session.config
           /\ session'.encoding = FALSE /\ session'.jobId = session.jobId
           /\ session'.error_flag = session.error_flag
           /\ session'.abort_state = session.abort_state
           /\ UNCHANGED <<job_queue, omx, client, cb, woken, history>>
<1>1. ongoing_job_q' = <<>>
  BY RemoveOnly DEF MgrErrorDone, job_done, Inv, TypeOK, Ongoing
<1>2. QED
  BY <1>1 DEF MgrErrorDone, job_done, at, go

\* AbortLocked, for a job to do, the ongoing job, or another.
LEMMA AbortLockedEffect ==
    ASSUME Inv, AbortLocked
    PROVE  /\ client.pc = "abortLock" /\ job_lock = "none" /\ client.job \in 1 .. started
           /\ job_queue' = removeJob(job_queue, client.job)
           /\ client'.job = client.job /\ client.job # 0
           /\ \/ /\ client.job # session.jobId \/ ongoing_job_q = <<>>
                 /\ client'.pc = "idle" /\ job_lock' = "none" /\ UNCHANGED ongoing_job_q
                 /\ ended' = ended \cup {client.job}
              \/ /\ client.job = session.jobId
                 /\ client'.pc = "abortSession" /\ job_lock' = "client"
                 /\ ongoing_job_q' = <<>> /\ ended' = ended
           /\ UNCHANGED <<job_sem, session, omx, mgr, cb, woken, answers, started, sessions>>
<1>1. /\ client.pc = "abortLock" /\ job_lock = "none" /\ client.job \in 1 .. started
      /\ client.job # 0
  BY DEF AbortLocked, Inv, Locks
<1>2. client.job \in Range(ongoing_job_q) => client.job = session.jobId
  BY DEF Inv, Ongoing, Range
<1>3. client.job \in Range(ongoing_job_q) => removeJob(ongoing_job_q, client.job) = <<>>
  BY <1>2, RemoveOnly DEF Inv, Ongoing, TypeOK
<1>4. client.job \in Range(job_queue) => client.job # session.jobId
  BY <1>1, Bounds DEF Inv, Todo, Range, TypeOK, EXIT
<1>5. ongoing_job_q # <<>> /\ client.job = session.jobId => client.job \in Range(ongoing_job_q)
  BY DEF Inv, Ongoing, Range, TypeOK
<1>6. QED
  BY <1>1, <1>2, <1>3, <1>4, <1>5 DEF AbortLocked

\* A command sent to a component that has none.
LEMMA CommandSent ==
    ASSUME Inv, NEW new \in OmxState, omx.cmds = <<>>,
           omx' = [omx EXCEPT !.cmds = Append(@, new),
                              !.buffers = @ \/ (new = "Idle" /\ ~ session.error_flag)]
    PROVE  omx'.cmds = <<new>> /\ omx'.state = omx.state /\ omx'.job = omx.job
OBVIOUS

\* A queue with one job, or none.
LEMMA OneJob ==
    /\ <<>> \in Seq(Job) /\ Len(<<>>) <= 1
    /\ \A j \in Job : <<j>> \in Seq(Job) /\ Len(<<j>>) <= 1
OBVIOUS

\* Answers are counted.
LEMMA Answered ==
    ASSUME Inv, NEW j, answers' = [answers EXCEPT ![j] = @ + 1]
    PROVE  answers' \in [Job -> Nat]
<1>1. answers \in [Job -> Nat]
  BY DEF Inv, TypeOK
<1>2. \A i \in Job : (IF i = j THEN answers[j] + 1 ELSE answers[i]) \in Nat
  BY <1>1
<1>3. answers' = [i \in Job |-> IF i = j THEN answers[j] + 1 ELSE answers[i]]
  BY <1>1
<1>4. QED
  BY <1>2, <1>3

\* A command sent to a component leaves it well formed.
LEMMA CommandTyped ==
    ASSUME Inv, NEW new \in OmxState,
           omx' = [omx EXCEPT !.cmds = Append(@, new),
                              !.buffers = @ \/ (new = "Idle" /\ ~ session.error_flag)]
    PROVE  omx' \in OmxType
<1>1. omx.cmds \in Seq(OmxState) /\ omx.buffers \in BOOLEAN
  BY DEF Inv, TypeOK, OmxType
<1>2. Append(omx.cmds, new) \in Seq(OmxState)
  BY <1>1
<1>3. (omx.buffers \/ (new = "Idle" /\ ~ session.error_flag)) \in BOOLEAN
  OBVIOUS
<1>4. QED
  BY <1>2, <1>3 DEF Inv, TypeOK, OmxType

-----------------------------------------------------------------------------
(* The steps, each of which keeps every part of the invariant.              *)

\* The manager passes its semaphore: with no ongoing job it goes on to take one.
LEMMA MgrWaitInv ==
    ASSUME Inv, NoFalseCompletion, MgrWait
    PROVE  Inv'
<1>1. TypeOK'
  <2>1. mgr' \in [pc : MgrPc, job : 0 .. MaxJobs]
    BY DEF MgrWait, go, Inv, TypeOK, MgrPc
  <2>2. QED
    BY <2>1 DEF MgrWait, history, Inv, TypeOK
<1>2. /\ AnsweredOnce' /\ Locks' /\ Sessions' /\ Todo' /\ Ongoing'
      /\ Holder' /\ Commands' /\ Abort' /\ Config'
  BY DEF MgrWait, at, go, history, Inv, EXIT, AnsweredOnce, Locks, Sessions, Todo,
     Ongoing, Holder, Commands, Abort, Config, Encoding, Configuring
<1>3. QED
  BY <1>1, <1>2 DEF Inv

\* Nothing to do.
LEMMA MgrTakeNoneInv ==
    ASSUME Inv, NoFalseCompletion, MgrTake, job_queue = <<>>
    PROVE  Inv'
<1>1. TypeOK'
  <2>1. mgr' \in [pc : MgrPc, job : 0 .. MaxJobs]
    BY DEF MgrTake, go, Inv, TypeOK, MgrPc
  <2>2. QED
    BY <2>1 DEF MgrTake, queues, history, Inv, TypeOK
<1>2. /\ AnsweredOnce' /\ Locks' /\ Sessions' /\ Todo' /\ Ongoing'
      /\ Holder' /\ Commands' /\ Abort' /\ Config'
  BY DEF MgrTake, go, queues, history, Inv, TypeOK, AnsweredOnce, Locks, Sessions, Todo,
     Ongoing, Holder, Commands, Abort, Config, Encoding, Destroying, Configuring
<1>3. QED
  BY <1>1, <1>2 DEF Inv

\* The manager exits; no job is behind EXIT.
LEMMA MgrTakeExitInv ==
    ASSUME Inv, NoFalseCompletion, MgrTake, job_queue # <<>>, Head(job_queue) = EXIT
    PROVE  Inv'
<1>1. TypeOK'
  <2>1. mgr' \in [pc : MgrPc, job : 0 .. MaxJobs]
    BY DEF MgrTake, go, Inv, TypeOK, MgrPc
  <2>2. job_queue \in Seq(Job \cup {EXIT}) /\ job_queue' = Tail(job_queue)
    BY DEF MgrTake, Inv, TypeOK
  <2>3. job_queue' \in Seq(Job \cup {EXIT})
    BY <2>2
  <2>4. QED
    BY <2>1, <2>3 DEF MgrTake, history, Inv, TypeOK
<1>2. AnsweredOnce'
  BY DEF MgrTake, history, Inv, AnsweredOnce
<1>3. Ongoing'
  BY DEF MgrTake, at, go, history, Inv, TypeOK, Job, EXIT, Ongoing, Encoding, Configuring
<1>4. Commands' /\ Config'
  BY DEF MgrTake, go, Inv, TypeOK, Commands, Config, Configuring
<1>5. Holder'
  BY DEF MgrTake, at, Inv, Holder, Ongoing
<1>6. Locks'
  <2>1. /\ at("lock") /\ mgr' = [mgr EXCEPT !.pc = "exited"]
        /\ UNCHANGED <<job_lock, session, omx, client, cb, woken, history>>
    BY DEF MgrTake, go
  <2>2. mgr.pc = "lock" /\ mgr'.pc = "exited" /\ mgr'.job = mgr.job
    BY <2>1 DEF at
  <2>3. QED
    BY <2>1, <2>2 DEF Inv, Locks, Encoding, Configuring, history
<1>7. Sessions'
  <2>1. /\ mgr' = [mgr EXCEPT !.pc = "exited"] /\ at("lock")
        /\ job_queue' = Tail(job_queue) /\ job_queue \in Seq(Job \cup {EXIT})
        /\ UNCHANGED <<ongoing_job_q, job_lock, session, omx, client, cb, woken, history>>
    BY DEF MgrTake, go, Inv, TypeOK
  <2>2. mgr'.pc = "exited"
    BY <2>1
  <2>3. \A i \in DOMAIN job_queue' :
           i + 1 \in DOMAIN job_queue /\ job_queue'[i] = job_queue[i + 1]
    BY <2>1
  <2>4. QED
    BY <2>1, <2>2, <2>3 DEF Inv, Sessions, Encoding, Configuring
<1>8. Todo'
  <2>1. /\ job_queue' = Tail(job_queue) /\ job_queue \in Seq(Job \cup {EXIT})
        /\ UNCHANGED <<session, started, ended, answers>>
    BY DEF MgrTake, Inv, TypeOK, history
  <2>2. \A i \in DOMAIN job_queue' : /\ i \in Nat \ {0} /\ i + 1 \in DOMAIN job_queue
                                     /\ job_queue'[i] = job_queue[i + 1]
    BY <2>1
  <2>3. QED
    BY <2>1, <2>2 DEF Inv, Todo
<1>9. Abort'
  <2>1. /\ at("lock") /\ mgr' = [mgr EXCEPT !.pc = "exited"]
        /\ UNCHANGED <<job_lock, session, omx, client, cb, woken, history>>
    BY DEF MgrTake, go
  <2>2. mgr.pc = "lock" /\ mgr'.pc = "exited" /\ mgr'.job = mgr.job
    BY <2>1 DEF at
  <2>3. QED
    BY <2>1, <2>2 DEF Inv, Abort, Encoding, Configuring
<1>10. QED
  BY <1>1, <1>2, <1>3, <1>4, <1>5, <1>6, <1>7, <1>8, <1>9 DEF Inv

\* A job is taken: it becomes the job of the session and the ongoing one.
LEMMA MgrTakeJobInv ==
    ASSUME Inv, NoFalseCompletion, MgrTake, job_queue # <<>>, Head(job_queue) # EXIT
    PROVE  Inv'
<1>1. TypeOK'
  <2>1. /\ Head(job_queue) \in Job /\ Tail(job_queue) \in Seq(Job \cup {EXIT})
        /\ Head(job_queue) \in 0 .. MaxJobs
    BY MgrTakeJobEffect, Bounds DEF Inv, TypeOK
  <2>2. mgr' \in [pc : MgrPc, job : 0 .. MaxJobs]
    BY <2>1 DEF MgrTake, MgrPc
  <2>3. session' = [session EXCEPT !.jobId = Head(job_queue)]
    BY DEF MgrTake
  <2>4. session' \in SessionType
    BY <2>1, <2>3 DEF Inv, TypeOK, SessionType
  <2>5. ongoing_job_q' \in Seq(Job) /\ Len(ongoing_job_q') <= 1
    BY <2>1, MgrTakeJobEffect, OneJob
  <2>6. QED
    BY <2>1, <2>2, <2>4, <2>5, MgrTakeJobEffect DEF history, Inv, TypeOK
<1>2. AnsweredOnce' /\ Locks' /\ Holder' /\ Commands' /\ Config'
  BY MgrTakeJobEffect DEF history, Inv, AnsweredOnce, Locks, Holder, Commands, Config,
     Encoding, Configuring
<1>3. Abort'
  BY MgrTakeJobEffect DEF Inv, Abort, Locks, Aborting
<1>4. Sessions'
  <2>1. \A i \in DOMAIN Tail(job_queue) :
           /\ i \in Nat \ {0} /\ i + 1 \in DOMAIN job_queue
           /\ Tail(job_queue)[i] = job_queue[i + 1]
    BY DEF Inv
  <2>2. /\ session.active /\ session'.active /\ mgr'.pc = "start"
        /\ client.pc \notin Aborting \cup Destroying
        /\ job_queue' = Tail(job_queue) /\ UNCHANGED <<client, omx>>
    BY MgrTakeJobEffect, Zenon
  <2>3. (\E i \in DOMAIN job_queue' : job_queue'[i] = EXIT)
           => client'.pc \in {"join", "closed"}
    BY <2>1, <2>2 DEF Inv, Sessions
  <2>4. client'.pc \notin {"join", "closed"}
    BY <2>2 DEF Inv, Sessions
  <2>5. QED
    BY <2>2, <2>3, <2>4 DEF Sessions
<1>5. Todo'
  <2>1. \A i \in DOMAIN Tail(job_queue) :
           /\ i \in Nat \ {0} /\ i + 1 \in DOMAIN job_queue
           /\ Tail(job_queue)[i] = job_queue[i + 1]
    BY DEF Inv
  <2>2. 1 \in DOMAIN job_queue /\ job_queue[1] = Head(job_queue)
    BY DEF Inv, TypeOK
  <2>3. \A i \in DOMAIN Tail(job_queue) : Tail(job_queue)[i] # Head(job_queue)
    BY <2>1, <2>2 DEF Inv, Todo
  <2>4. /\ job_queue' = Tail(job_queue) /\ session'.jobId = Head(job_queue)
        /\ UNCHANGED <<started, ended, answers>>
    BY MgrTakeJobEffect DEF history
  <2>5. QED
    BY <2>1, <2>3, <2>4 DEF Inv, Todo
<1>6. Ongoing'
  <2> DEFINE j == Head(job_queue)
  <2>1. /\ ongoing_job_q' = <<j>> /\ session'.jobId = j /\ mgr'.pc = "start" /\ mgr'.job = j
        /\ job_lock' = "mgr" /\ j \in 1 .. started /\ j \notin ended /\ answers[j] = 0
        /\ UNCHANGED <<started, ended, answers>>
    BY MgrTakeJobEffect DEF history
  <2> HIDE DEF j
  <2>2. QED
    BY <2>1 DEF Inv, Ongoing
<1>7. QED
  BY <1>1, <1>2, <1>3, <1>4, <1>5, <1>6 DEF Inv

\* The encoding of the job starts anew.
LEMMA MgrStartInv ==
    ASSUME Inv, NoFalseCompletion, MgrStart
    PROVE  Inv'
<1>1. TypeOK'
  <2>1. session' \in SessionType
    BY DEF MgrStart, Inv, TypeOK, SessionType
  <2>2. mgr' \in [pc : MgrPc, job : 0 .. MaxJobs]
    BY DEF MgrStart, go, Inv, TypeOK, MgrPc
  <2>3. QED
    BY <2>1, <2>2 DEF MgrStart, queues, history, Inv, TypeOK
<1>2. /\ AnsweredOnce' /\ Locks' /\ Sessions' /\ Todo'
      /\ Ongoing' /\ Holder' /\ Commands' /\ Config'
  BY DEF MgrStart, at, go, queues, history, Inv, AnsweredOnce, Locks, Sessions, Todo,
     Ongoing, Holder, Commands, Config, Encoding, Configuring
<1>3. Abort'
  BY DEF MgrStart, at, Inv, Abort, Locks, Encoding, Aborting
<1>4. QED
  BY <1>1, <1>2, <1>3 DEF Inv

\* The session is configured: every command sent to the component is waited for.
LEMMA MgrConfigureInv ==
    ASSUME Inv, NoFalseCompletion, MgrConfigure
    PROVE  Inv'
<1>1. TypeOK'
  <2>1. \/ UNCHANGED session
        \/ session' = [session EXCEPT !.state_change_pending = TRUE]
        \/ session' = [session EXCEPT !.config = TRUE]
    BY DEF MgrConfigure, change_state
  <2>2. session' \in SessionType
    BY <2>1 DEF Inv, TypeOK, SessionType
  <2>3. omx' \in OmxType
    BY CommandTyped DEF MgrConfigure, change_state, Inv, TypeOK, OmxState
  <2>4. mgr' \in [pc : MgrPc, job : 0 .. MaxJobs]
    BY DEF MgrConfigure, go, change_state, wake, Inv, TypeOK, MgrPc
  <2>5. woken' \in BOOLEAN
    BY DEF MgrConfigure, change_state, wake, Inv, TypeOK
  <2>6. QED
    BY <2>2, <2>3, <2>4, <2>5 DEF MgrConfigure, queues, history, Inv, TypeOK
<1>2. AnsweredOnce' /\ Locks' /\ Sessions'
  BY DEF MgrConfigure, at, go, change_state, wake, queues, history, Inv, TypeOK,
     SessionType, OmxType, AnsweredOnce, Locks, Sessions, Encoding, Configuring
<1>3. Todo'
  BY DEF MgrConfigure, change_state, queues, history, Inv, TypeOK, SessionType, Job, Todo
<1>4. Holder'
  BY DEF MgrConfigure, at, change_state, Inv, TypeOK, SessionType, OmxType, Holder,
     Encoding, Configuring
<1>5. Abort'
  BY DEF MgrConfigure, at, go, change_state, wake, Inv, TypeOK, SessionType, Abort,
     Encoding, Configuring, Destroying
<1>6. Config'
  BY DEF MgrConfigure, at, go, change_state, wake, Inv, TypeOK, SessionType, Job, EXIT,
     Config, Configuring
<1>7. Ongoing'
  <2>1. /\ mgr.pc \in Configuring /\ mgr'.pc \in Configuring \cup {"encode", "error"}
        /\ mgr'.job = mgr.job /\ session'.jobId = session.jobId
        /\ UNCHANGED <<ongoing_job_q, job_lock, answers, ended, started>>
    BY DEF MgrConfigure, at, go, change_state, wake, queues, history, Configuring, Inv,
       TypeOK, SessionType
  <2>2. QED
    BY <2>1 DEF Inv, Ongoing, Encoding, Configuring
<1>8. Commands'
  <2>1. /\ job_lock = "mgr" /\ client.pc \notin Aborting \cup Destroying
        /\ session.error_flag = FALSE /\ UNCHANGED <<job_lock, client>>
    BY DEF MgrConfigure, at, Inv, Config, Locks, Encoding, Configuring
  <2>2. CASE mgr.pc = "toIdle"
    <3>1. omx.cmds = <<>>
      BY <2>2 DEF Inv, Commands, Encoding, Configuring
    <3>2. CASE UNCHANGED omx
      BY <2>1, <3>1, <3>2 DEF Commands
    <3>3. CASE /\ omx.state # "Idle"
               /\ change_state(mgr, "Idle", "waitIdle", "toExecuting", "error")
      <4>1. mgr'.pc = "waitIdle" /\ woken' = FALSE
        BY <2>1, <3>3 DEF change_state, Inv, TypeOK
      <4>2. omx'.cmds = <<"Idle">> /\ omx'.state = omx.state
        BY <3>1, <3>3, CommandSent DEF change_state, OmxState
      <4>3. QED
        BY <2>1, <3>3, <4>1, <4>2 DEF Commands, Aborting, Destroying, OmxState
    <3>4. QED
      BY <2>2, <3>2, <3>3 DEF MgrConfigure, at, change_state
  <2>3. CASE mgr.pc = "toExecuting"
    <3>1. omx.cmds = <<>>
      BY <2>3 DEF Inv, Commands, Encoding, Configuring
    <3>2. CASE UNCHANGED omx
      BY <2>1, <3>1, <3>2 DEF Commands
    <3>3. CASE /\ omx.state # "Executing"
               /\ change_state(mgr, "Executing", "waitExecuting", "configured", "error")
      <4>1. mgr'.pc = "waitExecuting" /\ woken' = FALSE
        BY <2>1, <3>3 DEF change_state, Inv, TypeOK
      <4>2. omx'.cmds = <<"Executing">> /\ omx'.state = omx.state
        BY <3>1, <3>3, CommandSent DEF change_state, OmxState
      <4>3. QED
        BY <2>1, <3>3, <4>1, <4>2 DEF Commands, Aborting, Destroying, OmxState
    <3>4. QED
      BY <2>3, <3>2, <3>3 DEF MgrConfigure, at, change_state
  <2>4. CASE mgr.pc \notin {"toIdle", "toExecuting"}
    <3>1. UNCHANGED omx /\ (mgr.pc \in {"waitIdle", "waitExecuting"} => woken)
      BY <2>4 DEF MgrConfigure, at, wake, NoFalseCompletion
    <3>2. mgr.pc \in Encoding
      BY <2>1 DEF Inv, Locks
    <3>3. QED
      BY <2>1, <3>1, <3>2 DEF Inv, Commands
  <2>5. QED
    BY <2>2, <2>3, <2>4
<1>9. QED
  BY <1>1, <1>2, <1>3, <1>4, <1>5, <1>6, <1>7, <1>8 DEF Inv

\* The parameters of the job are set.
LEMMA MgrEncodeInv ==
    ASSUME Inv, NoFalseCompletion, MgrEncode
    PROVE  Inv'
<1>1. TypeOK'
  <2>1. session' \in SessionType
    BY DEF MgrEncode, Inv, TypeOK, SessionType
  <2>2. mgr' \in [pc : MgrPc, job : 0 .. MaxJobs]
    BY DEF MgrEncode, go, Inv, TypeOK, MgrPc
  <2>3. QED
    BY <2>1, <2>2 DEF MgrEncode, queues, history, Inv, TypeOK
<1>2. AnsweredOnce' /\ Locks'
  BY DEF MgrEncode, at, go, history, Inv, TypeOK, AnsweredOnce, Locks, Encoding
<1>3. Sessions' /\ Todo'
  BY DEF MgrEncode, at, queues, history, Inv, TypeOK, SessionType, Sessions, Todo,
     Encoding
<1>4. Ongoing' /\ Holder'
  BY DEF MgrEncode, at, go, queues, history, Inv, TypeOK, SessionType, Ongoing, Holder,
     Encoding
<1>5. Commands' /\ Abort' /\ Config'
  BY DEF MgrEncode, at, go, Inv, TypeOK, SessionType, Commands, Abort, Config, Encoding,
     Configuring
<1>6. QED
  BY <1>1, <1>2, <1>3, <1>4, <1>5 DEF Inv

\* The component has the job and the manager gives job_lock back, or it fails.
LEMMA MgrFillInv ==
    ASSUME Inv, NoFalseCompletion, MgrFill
    PROVE  Inv'
<1>1. TypeOK'
  <2>1. omx' \in OmxType
    BY DEF MgrFill, Inv, TypeOK, OmxType
  <2>2. mgr' \in [pc : MgrPc, job : 0 .. MaxJobs]
    BY DEF MgrFill, go, Inv, TypeOK, MgrPc
  <2>3. QED
    BY <2>1, <2>2 DEF MgrFill, queues, history, Inv, TypeOK
<1>2. AnsweredOnce' /\ Locks' /\ Sessions' /\ Todo'
  BY DEF MgrFill, at, go, queues, history, Inv, TypeOK, EXIT, AnsweredOnce, Locks,
     Sessions, Todo, Encoding, Aborting, Destroying, Configuring
<1>3. Ongoing' /\ Commands'
  BY DEF MgrFill, at, go, queues, history, Inv, TypeOK, OmxType, EXIT, Ongoing, Commands,
     Encoding, Configuring
<1>4. Abort' /\ Config'
  BY DEF MgrFill, at, go, Inv, TypeOK, OmxType, Abort, Config, Encoding, Configuring
<1>5. Holder'
  <2>1. /\ mgr.pc = "fill" /\ omx.job = 0 /\ cb = 0 /\ ongoing_job_q = <<mgr.job>>
        /\ session.jobId = mgr.job /\ answers[mgr.job] = 0 /\ mgr.job \notin ended
        /\ session.encoding /\ session.config /\ session.abort_state = "NONE"
    BY OneElement DEF MgrFill, at, Inv, Holder, Ongoing, Config, Abort, Encoding
  <2>2. \/ UNCHANGED <<omx, job_lock>> /\ omx.job = 0
        \/ mgr'.pc = "wait" /\ omx'.job = mgr.job
    BY <2>1 DEF MgrFill, go, Inv, TypeOK, OmxType
  <2>3. "wait" \notin Encoding
    BY DEF Encoding, Configuring
  <2>4. UNCHANGED <<session, cb, answers, ended, ongoing_job_q>>
    BY DEF MgrFill, queues, history
  <2>5. QED
    BY <2>1, <2>2, <2>3, <2>4 DEF Holder
<1>6. QED
  BY <1>1, <1>2, <1>3, <1>4, <1>5 DEF Inv

\* The error end of the manager answers a job that nobody else has.
LEMMA MgrErrorInv ==
    ASSUME Inv, NoFalseCompletion, MgrError
    PROVE  Inv'
<1>1. TypeOK'
  <2>1. mgr' \in [pc : MgrPc, job : 0 .. MaxJobs]
    BY DEF MgrError, go, Inv, TypeOK, MgrPc
  <2>2. answers' \in [Job -> Nat]
    BY Answered DEF MgrError, answer
  <2>3. QED
    BY <2>1, <2>2 DEF MgrError, queues, Inv, TypeOK
<1>2. AnsweredOnce'
  BY DEF MgrError, at, answer, Inv, AnsweredOnce, Ongoing, Encoding
<1>3. Locks' /\ Sessions' /\ Todo' /\ Ongoing' /\ Holder' /\ Commands' /\ Abort' /\ Config'
  BY DEF MgrError, at, go, answer, queues, Inv, TypeOK, Locks, Sessions, Todo, Ongoing,
     Holder, Commands, Abort, Config, Encoding, Aborting, Configuring
<1>4. QED
  BY <1>1, <1>2, <1>3 DEF Inv

\* The job that failed leaves its queue.
LEMMA MgrErrorDoneInv ==
    ASSUME Inv, NoFalseCompletion, MgrErrorDone
    PROVE  Inv'
<1>1. TypeOK'
  <2>1. mgr' \in [pc : MgrPc, job : 0 .. MaxJobs]
    BY DEF MgrErrorDone, go, Inv, TypeOK, MgrPc
  <2>2. session' \in SessionType
    BY DEF MgrErrorDone, job_done, Inv, TypeOK, SessionType
  <2>3. ongoing_job_q' \in Seq(Job) /\ Len(ongoing_job_q') <= 1
    BY MgrErrorDoneEffect
  <2>4. job_sem' \in Nat
    BY DEF MgrErrorDone, job_done, Inv, TypeOK
  <2>5. QED
    BY <2>1, <2>2, <2>3, <2>4, MgrErrorDoneEffect DEF history, Inv, TypeOK
<1>2. AnsweredOnce' /\ Locks'
  BY MgrErrorDoneEffect DEF history, Inv, AnsweredOnce, Locks, Encoding, Configuring
<1>3. Sessions'
  BY MgrErrorDoneEffect DEF Inv, Sessions, Encoding
<1>4. Todo'
  BY MgrErrorDoneEffect DEF history, Inv, Todo
<1>5. Holder' /\ Commands' /\ Abort' /\ Config'
  BY MgrErrorDoneEffect DEF Inv, Holder, Commands, Abort, Config, Encoding, Configuring
<1>6. Ongoing'
  <2>1. \A i : i \notin DOMAIN ongoing_job_q'
    BY MgrErrorDoneEffect
  <2>2. mgr'.pc \notin Encoding
    BY MgrErrorDoneEffect DEF Encoding, Configuring
  <2>3. QED
    BY <2>1, <2>2, MgrErrorDoneEffect DEF history, Inv, Ongoing
<1>7. QED
  BY <1>1, <1>2, <1>3, <1>4, <1>5, <1>6 DEF Inv

\* The filled picture answers the job.
LEMMA OmxFilledDoneInv ==
    ASSUME Inv, NoFalseCompletion, OmxFilled, session.abort_state = "NONE"
    PROVE  Inv'
<1>1. TypeOK'
  <2>1. omx' = [omx EXCEPT !.job = 0] /\ 0 \in 0 .. MaxJobs
    BY Bounds DEF OmxFilled
  <2>2. omx' \in OmxType
    BY <2>1 DEF Inv, TypeOK, OmxType
  <2>3. answers' \in [Job -> Nat]
    BY OmxFilledEffect, Answered
  <2>4. cb' \in 0 .. MaxJobs
    BY OmxFilledEffect DEF Inv, TypeOK, SessionType
  <2>5. QED
    BY <2>2, <2>3, <2>4, OmxFilledEffect DEF queues, Inv, TypeOK
<1>2. Locks' /\ Holder' /\ Commands' /\ Abort' /\ Config'
  BY OmxFilledEffect DEF queues, Inv, Locks, Holder, Commands, Abort, Config
<1>3. AnsweredOnce'
  <2>1. answers \in [Job -> Nat] /\ answers[session.jobId] = 0
        /\ answers' = [answers EXCEPT ![session.jobId] = @ + 1]
    BY OmxFilledEffect DEF Inv, TypeOK
  <2>2. QED
    BY <2>1 DEF Inv, AnsweredOnce
<1>4. Sessions'
  BY OmxFilledEffect DEF queues, Inv, Sessions, loaded
<1>5. Todo'
  <2>1. /\ answers' = [answers EXCEPT ![session.jobId] = @ + 1]
        /\ session'.jobId = session.jobId /\ UNCHANGED <<job_queue, started, ended>>
    BY OmxFilledEffect DEF queues
  <2>2. \A j \in Job : j # session.jobId => answers'[j] = answers[j]
    BY <2>1
  <2>3. QED
    BY <2>1, <2>2 DEF Inv, Todo
<1>6. Ongoing'
  <2>1. /\ answers' = [answers EXCEPT ![session.jobId] = @ + 1]
        /\ session'.jobId = session.jobId /\ mgr.pc \notin Encoding
        /\ UNCHANGED <<ongoing_job_q, started, ended, mgr, job_lock>>
    BY OmxFilledEffect DEF queues
  <2>2. \A j \in Job : j # session.jobId => answers'[j] = answers[j]
    BY <2>1
  <2>3. QED
    BY <2>1, <2>2 DEF Inv, TypeOK, Ongoing
<1>7. QED
  BY <1>1, <1>2, <1>3, <1>4, <1>5, <1>6 DEF Inv

\* A picture filled once an abort has begun is dropped.
LEMMA OmxFilledIgnoredInv ==
    ASSUME Inv, NoFalseCompletion, OmxFilled, session.abort_state # "NONE"
    PROVE  Inv'
<1>1. TypeOK'
  <2>1. omx' \in OmxType
    BY DEF OmxFilled, sessionLockFree, Inv, TypeOK, OmxType
  <2>2. QED
    BY <2>1 DEF OmxFilled, queues, Inv, TypeOK
<1>2. AnsweredOnce' /\ Locks' /\ Todo' /\ Holder' /\ Commands' /\ Abort' /\ Config'
  BY DEF OmxFilled, queues, Inv, AnsweredOnce, Locks, Todo, Holder, Commands, Abort,
     Config
<1>3. Ongoing'
  BY DEF OmxFilled, queues, Inv, Ongoing
<1>4. Sessions'
  BY DEF OmxFilled, queues, Inv, Sessions, loaded
<1>5. QED
  BY <1>1, <1>2, <1>3, <1>4 DEF Inv

\* The error of the encoder answers the job.
LEMMA OmxErrorInv ==
    ASSUME Inv, NoFalseCompletion, OmxError
    PROVE  Inv'
<1>1. TypeOK'
  <2>1. omx' = [omx EXCEPT !.job = 0] /\ 0 \in 0 .. MaxJobs
    BY Bounds DEF OmxError
  <2>2. omx' \in OmxType
    BY <2>1 DEF Inv, TypeOK, OmxType
  <2>3. session' = [session EXCEPT !.error_flag = TRUE]
    BY OmxErrorEffect DEF OmxError, errorEvent
  <2>4. session' \in SessionType
    BY <2>3 DEF Inv, TypeOK, SessionType
  <2>5. answers' \in [Job -> Nat]
    BY OmxErrorEffect, Answered
  <2>6. cb' \in 0 .. MaxJobs
    BY OmxErrorEffect DEF Inv, TypeOK, SessionType
  <2>7. woken' \in BOOLEAN
    BY DEF OmxError, errorEvent
  <2>8. QED
    BY <2>2, <2>4, <2>5, <2>6, <2>7, OmxErrorEffect DEF queues, Inv, TypeOK
<1>2. Locks' /\ Holder' /\ Commands' /\ Abort' /\ Config'
  BY OmxErrorEffect DEF queues, Inv, Locks, Holder, Commands, Abort, Config, Aborting
<1>3. AnsweredOnce'
  <2>1. answers \in [Job -> Nat] /\ answers[session.jobId] = 0
        /\ answers' = [answers EXCEPT ![session.jobId] = @ + 1]
    BY OmxErrorEffect DEF Inv, TypeOK
  <2>2. QED
    BY <2>1 DEF Inv, AnsweredOnce
<1>4. Sessions'
  BY OmxErrorEffect DEF queues, Inv, Sessions, loaded
<1>5. Todo'
  <2>1. /\ answers' = [answers EXCEPT ![session.jobId] = @ + 1]
        /\ session'.jobId = session.jobId /\ UNCHANGED <<job_queue, started, ended>>
    BY OmxErrorEffect DEF queues
  <2>2. \A j \in Job : j # session.jobId => answers'[j] = answers[j]
    BY <2>1
  <2>3. QED
    BY <2>1, <2>2 DEF Inv, Todo
<1>6. Ongoing'
  <2>1. /\ answers' = [answers EXCEPT ![session.jobId] = @ + 1]
        /\ session'.jobId = session.jobId /\ mgr.pc \notin Encoding
        /\ UNCHANGED <<ongoing_job_q, started, ended, mgr, job_lock>>
    BY OmxErrorEffect DEF queues
  <2>2. \A j \in Job : j # session.jobId => answers'[j] = answers[j]
    BY <2>1
  <2>3. session.jobId <= started
    BY DEF Inv, Ongoing
  <2>4. \A j \in Job : j > started => answers'[j] = 0
    BY <2>2, <2>3 DEF Inv, TypeOK, Ongoing
  <2>5. QED
    BY <2>1, <2>4 DEF Inv, Ongoing
<1>7. QED
  BY <1>1, <1>2, <1>3, <1>4, <1>5, <1>6 DEF Inv

\* The component obeys the one command it has.
LEMMA OmxCommandInv ==
    ASSUME Inv, NoFalseCompletion, OmxCommand
    PROVE  Inv'
<1>1. TypeOK'
  <2>1. PICK c \in OmxState \ {omx.state} : omx.cmds = <<c>>
    BY DEF OmxCommand, Inv, Commands
  <2>2. omx' = [omx EXCEPT !.state = c, !.cmds = <<>>,
                           !.job = IF c = "Executing" THEN @ ELSE 0]
    BY <2>1 DEF OmxCommand
  <2>3. <<>> \in Seq(OmxState) /\ (IF c = "Executing" THEN omx.job ELSE 0) \in 0 .. MaxJobs
    BY Bounds DEF Inv, TypeOK, OmxType
  <2>4. omx' \in OmxType
    BY <2>2, <2>3 DEF Inv, TypeOK, OmxType
  <2>5. cmdComplete
    BY <2>1 DEF OmxCommand
  <2>6. \/ session' = [session EXCEPT !.abort_state = "DONE"]
        \/ session' = [session EXCEPT !.state_change_pending = FALSE]
    BY <2>5 DEF cmdComplete
  <2>7. session' \in SessionType
    BY <2>6 DEF Inv, TypeOK, SessionType
  <2>8. woken' \in BOOLEAN
    BY <2>5, Zenon DEF cmdComplete
  <2>9. QED
    BY <2>4, <2>7, <2>8, OmxCommandEffect DEF queues, history, Inv, TypeOK
<1>2. AnsweredOnce' /\ Locks'
  BY OmxCommandEffect DEF history, Inv, AnsweredOnce, Locks
<1>3. Todo' /\ Commands' /\ Config'
  BY OmxCommandEffect DEF queues, history, Inv, Todo, Commands, Config
<1>4. Sessions'
  BY OmxCommandEffect DEF queues, history, Inv, Sessions, loaded
<1>5. Ongoing'
  BY OmxCommandEffect DEF queues, history, Inv, Ongoing
<1>6. Holder'
  <2>1. PICK c \in OmxState \ {omx.state} :
          /\ omx.cmds = <<c>> /\ omx'.job = IF c = "Executing" THEN omx.job ELSE 0
          /\ session'.encoding = session.encoding /\ session'.config = session.config
          /\ session'.jobId = session.jobId
          /\ session'.abort_state = IF session.abort_state = "INIT" THEN "DONE"
                                    ELSE session.abort_state
          /\ UNCHANGED <<queues, job_lock, mgr, client, cb, history>>
    BY OmxCommandEffect
  <2>2. session.abort_state = "INIT" => c = "Idle"
    BY <2>1 DEF Inv, Abort, Commands
  <2>3. session'.abort_state = "DONE" => omx'.job = 0 \/ session.abort_state = "DONE"
    BY <2>1, <2>2
  <2>4. QED
    BY <2>1, <2>3 DEF queues, history, Inv, Holder
<1>7. Abort'
  <2>1. PICK c \in OmxState \ {omx.state} :
          /\ omx.cmds = <<c>> /\ omx'.state = c /\ omx'.cmds = <<>>
          /\ session'.encoding = session.encoding
          /\ session'.abort_state = IF session.abort_state = "INIT" THEN "DONE"
                                    ELSE session.abort_state
          /\ UNCHANGED <<job_lock, mgr, client>>
    BY OmxCommandEffect
  <2>2. omx.cmds # <<>>
    BY <2>1
  <2>3. client.pc # "abortSend" /\ client.pc # "abortSession" /\ job_lock # "none"
    BY <2>2 DEF Inv, Commands
  <2>4. session'.abort_state = "NONE" => session.abort_state = "NONE"
    BY <2>1
  <2>5. QED
    BY <2>1, <2>2, <2>3, <2>4 DEF Inv, TypeOK, Abort, Locks, Aborting
<1>8. QED
  BY <1>1, <1>2, <1>3, <1>4, <1>5, <1>6, <1>7 DEF Inv

\* The job that was called back for leaves its queue.
LEMMA CallbackDoneInv ==
    ASSUME Inv, NoFalseCompletion, CallbackDone
    PROVE  Inv'
<1>1. TypeOK'
  <2>1. session' \in SessionType
    BY DEF CallbackDone, job_done, Inv, TypeOK, SessionType
  <2>2. ongoing_job_q' \in Seq(Job) /\ Len(ongoing_job_q') <= 1
    BY CallbackDoneEffect
  <2>3. cb' \in 0 .. MaxJobs
    BY CallbackDoneEffect, Bounds
  <2>4. job_sem' \in Nat
    BY DEF CallbackDone, job_done, Inv, TypeOK
  <2>5. QED
    BY <2>1, <2>2, <2>3, <2>4, CallbackDoneEffect DEF history, Inv, TypeOK
<1>2. AnsweredOnce'
  BY CallbackDoneEffect DEF history, Inv, AnsweredOnce
<1>3. Locks'
  BY CallbackDoneEffect DEF history, Inv, TypeOK, Locks
<1>4. Sessions'
  BY CallbackDoneEffect DEF Inv, Sessions
<1>5. Todo' /\ Holder' /\ Commands' /\ Config'
  BY Bounds, CallbackDoneEffect DEF history, Inv, SessionType, EXIT, Todo, Holder,
     Commands, Config, Encoding
<1>6. Ongoing'
  <2>1. \A i : i \notin DOMAIN ongoing_job_q'
    BY CallbackDoneEffect
  <2>2. QED
    BY <2>1, CallbackDoneEffect DEF history, Inv, Ongoing
<1>7. Abort'
  <2>1. /\ ~ session'.encoding /\ session'.abort_state = session.abort_state
        /\ UNCHANGED <<omx, mgr, client, woken>>
    BY CallbackDoneEffect
  <2>2. QED
    BY <2>1 DEF Inv, Abort
<1>8. QED
  BY <1>1, <1>2, <1>3, <1>4, <1>5, <1>6, <1>7 DEF Inv

\* A new session has no job yet.
LEMMA CreateSessionInv ==
    ASSUME Inv, NoFalseCompletion, CreateSession
    PROVE  Inv'
<1>1. TypeOK'
  <2>1. session' \in SessionType
    BY DEF CreateSession, closed, Inv, TypeOK, SessionType
  <2>2. QED
    BY <2>1, Bounds DEF CreateSession, queues, Inv, TypeOK
<1>2. AnsweredOnce' /\ Locks' /\ Sessions' /\ Todo' /\ Ongoing' /\ Commands'
  BY DEF CreateSession, queues, Inv, AnsweredOnce, Locks, Sessions, Todo, Ongoing,
     Commands
<1>3. Abort'
  BY DEF CreateSession, closed, loaded, Inv, Abort, Sessions
<1>4. Config'
  BY DEF CreateSession, closed, Inv, Config, Sessions, Encoding
<1>5. Holder'
  <2>1. /\ omx.job = 0 /\ session'.jobId = session.jobId
        /\ UNCHANGED <<cb, mgr, job_lock, ongoing_job_q, omx>>
    BY DEF CreateSession, queues, Inv, Sessions, loaded
  <2>2. QED
    BY <2>1 DEF Inv, Holder
<1>6. QED
  BY <1>1, <1>2, <1>3, <1>4, <1>5 DEF Inv

\* A job is new to every queue.
LEMMA StartJobInv ==
    ASSUME Inv, NoFalseCompletion, StartJob
    PROVE  Inv'
<1>1. TypeOK'
  <2>1. QED
    BY Bounds DEF StartJob, Inv, TypeOK, Job
<1>2. AnsweredOnce' /\ Locks' /\ Ongoing'
  BY DEF StartJob, Inv, TypeOK, SessionType, EXIT, AnsweredOnce, Locks, Ongoing, Encoding,
     Aborting
<1>3. Holder' /\ Commands' /\ Abort' /\ Config'
  BY DEF StartJob, Inv, Holder, Commands, Abort, Config
<1>4. Sessions'
  <2>1. /\ job_queue \in Seq(Job \cup {EXIT}) /\ started + 1 \in Job /\ started + 1 # EXIT
        /\ job_queue' = Append(job_queue, started + 1) /\ client.pc = "idle" /\ session.active
        /\ UNCHANGED <<ongoing_job_q, session, omx, mgr, client>>
    BY Bounds DEF StartJob, Inv, TypeOK, Job, EXIT
  <2>2. \A i \in DOMAIN job_queue' : job_queue'[i] = EXIT =>
           i \in DOMAIN job_queue /\ job_queue[i] = EXIT
    BY <2>1
  <2>3. QED
    BY <2>1, <2>2 DEF Inv, Sessions, Aborting, Destroying
<1>5. Todo'
  <2>1. /\ job_queue' = Append(job_queue, started + 1) /\ started' = started + 1
        /\ started + 1 \in Job /\ started \in Nat /\ UNCHANGED <<session, answers, ended>>
        /\ job_queue \in Seq(Job \cup {EXIT})
    BY Bounds DEF StartJob, Inv, TypeOK, Job
  <2>2. \A i \in DOMAIN job_queue' :
           \/ i \in DOMAIN job_queue /\ job_queue'[i] = job_queue[i]
           \/ i = Len(job_queue) + 1 /\ job_queue'[i] = started + 1
    BY <2>1
  <2>3. \A i \in DOMAIN job_queue : job_queue[i] # started + 1
    BY <2>1, Bounds DEF Inv, Todo, EXIT, Job
  <2>4. /\ started + 1 \notin ended /\ session.jobId # started + 1 /\ answers[started + 1] = 0
    BY <2>1 DEF Inv, Ongoing
  <2>5. QED
    BY <2>1, <2>2, <2>3, <2>4 DEF Inv, Todo
<1>6. QED
  BY <1>1, <1>2, <1>3, <1>4, <1>5 DEF Inv

\* The client asks for the abort of a job it has started.
LEMMA AbortJobInv ==
    ASSUME Inv, NoFalseCompletion, NEW j \in Job, AbortJob(j)
    PROVE  Inv'
<1>1. TypeOK'
  <2>1. client' \in [pc : ClientPc, job : 0 .. MaxJobs]
    BY Bounds DEF AbortJob, Inv, TypeOK, ClientPc
  <2>2. QED
    BY <2>1 DEF AbortJob, queues, history, Inv, TypeOK
<1>2. /\ AnsweredOnce' /\ Locks' /\ Sessions' /\ Todo' /\ Ongoing'
      /\ Holder' /\ Commands' /\ Abort' /\ Config'
  BY DEF AbortJob, queues, history, Inv, AnsweredOnce, Locks, Sessions, Todo, Ongoing,
     Holder, Commands, Abort, Config, Aborting, Destroying
<1>3. QED
  BY <1>1, <1>2 DEF Inv

\* The abort finds its job to do, ongoing, or gone.
LEMMA AbortLockedInv ==
    ASSUME Inv, NoFalseCompletion, AbortLocked
    PROVE  Inv'
<1>1. TypeOK'
  <2>1. client' \in [pc : ClientPc, job : 0 .. MaxJobs]
    BY DEF AbortLocked, Inv, TypeOK, ClientPc
  <2>2. job_queue' \in Seq(Job \cup {EXIT})
    BY AbortLockedEffect, RemoveJob DEF Inv, TypeOK, Todo
  <2>3. ongoing_job_q' \in Seq(Job) /\ Len(ongoing_job_q') <= 1
    BY AbortLockedEffect, OneJob DEF Inv, TypeOK
  <2>4. client.job \in Job
    BY AbortLockedEffect DEF Inv, TypeOK, Job
  <2>5. QED
    BY <2>1, <2>2, <2>3, <2>4, AbortLockedEffect DEF Inv, TypeOK
<1>2. AnsweredOnce' /\ Locks' /\ Commands' /\ Abort' /\ Config'
  BY AbortLockedEffect DEF Inv, AnsweredOnce, Locks, Commands, Abort, Config, Aborting,
     Destroying
<1>3. Sessions'
  <2>1. \A i \in DOMAIN job_queue' :
           \E k \in DOMAIN job_queue : job_queue'[i] = job_queue[k]
    BY AbortLockedEffect, RemoveJob DEF Inv, TypeOK, Todo
  <2>2. QED
    BY <2>1, AbortLockedEffect DEF Inv, Sessions
<1>4. Todo'
  <2>1. /\ \A i \in DOMAIN job_queue' :
              /\ job_queue'[i] # client.job
              /\ \E k \in DOMAIN job_queue : job_queue'[i] = job_queue[k]
        /\ \A i, k \in DOMAIN job_queue' : job_queue'[i] = job_queue'[k] => i = k
    BY AbortLockedEffect, RemoveJob DEF Inv, TypeOK, Todo
  <2>2. ended' \subseteq ended \cup {client.job} /\ UNCHANGED <<session, started, answers>>
    BY AbortLockedEffect
  <2>3. QED
    BY <2>1, <2>2 DEF Inv, Todo
<1>5. Ongoing'
  <2>1. \/ UNCHANGED ongoing_job_q /\ ended' = ended \cup {client.job} /\ job_lock' = "none"
           /\ (client.job # session.jobId \/ ongoing_job_q = <<>>)
        \/ (\A i : i \notin DOMAIN ongoing_job_q') /\ ongoing_job_q' = <<>> /\ ended' = ended
    BY AbortLockedEffect
  <2>2. /\ client.job \in 1 .. started /\ mgr.pc \notin Encoding
        /\ UNCHANGED <<session, mgr, answers, started>>
    BY AbortLockedEffect DEF Inv, Locks
  <2>3. QED
    BY <2>1, <2>2 DEF Inv, Ongoing
<1>6. Holder'
  BY AbortLockedEffect DEF Inv, Holder
<1>7. QED
  BY <1>1, <1>2, <1>3, <1>4, <1>5, <1>6 DEF Inv

\* The client asks for the destruction of its session.
LEMMA DestroySessionInv ==
    ASSUME Inv, NoFalseCompletion, DestroySession
    PROVE  Inv'
<1>1. TypeOK'
  <2>1. client' \in [pc : ClientPc, job : 0 .. MaxJobs]
    BY Bounds DEF DestroySession, ClientPc
  <2>2. QED
    BY <2>1 DEF DestroySession, queues, history, Inv, TypeOK
<1>2. /\ AnsweredOnce' /\ Locks' /\ Sessions' /\ Todo' /\ Ongoing'
      /\ Holder' /\ Commands' /\ Abort' /\ Config'
  BY DEF DestroySession, queues, history, Inv, AnsweredOnce, Locks, Sessions, Todo,
     Ongoing, Holder, Commands, Abort, Config, Aborting, Destroying
<1>3. QED
  BY <1>1, <1>2 DEF Inv

\* All the jobs of the session leave their queues.
LEMMA DestroyLockedInv ==
    ASSUME Inv, NoFalseCompletion, DestroyLocked
    PROVE  Inv'
<1>1. TypeOK'
  <2>1. client' \in [pc : ClientPc, job : 0 .. MaxJobs]
    BY DEF DestroyLocked, step, Inv, TypeOK, ClientPc
  <2>2. QED
    BY <2>1 DEF DestroyLocked, history, Inv, TypeOK
<1>2. /\ AnsweredOnce' /\ Locks' /\ Sessions' /\ Todo'
      /\ Holder' /\ Commands' /\ Abort' /\ Config'
  BY DEF DestroyLocked, step, history, Inv, AnsweredOnce, Locks, Sessions, Todo, Holder,
     Commands, Abort, Config, Aborting, Destroying
<1>3. Ongoing'
  BY DEF DestroyLocked, history, Inv, Ongoing, Locks
<1>4. QED
  BY <1>1, <1>2, <1>3 DEF Inv

\* An abort of a running encoding begins.
LEMMA AbortSessionBeginInv ==
    ASSUME Inv, NoFalseCompletion, AbortSession,
           session.abort_state = "NONE" /\ session.encoding
    PROVE  Inv'
<1>1. TypeOK'
  <2>1. session' \in SessionType
    BY DEF AbortSession, Inv, TypeOK, SessionType
  <2>2. client' \in [pc : ClientPc, job : 0 .. MaxJobs]
    BY DEF AbortSession, Inv, TypeOK, ClientPc
  <2>3. QED
    BY <2>1, <2>2 DEF AbortSession, queues, Inv, TypeOK
<1>2. AnsweredOnce' /\ Sessions'
  BY DEF AbortSession, queues, Inv, TypeOK, SessionType, AnsweredOnce, Sessions, Aborting,
     Configuring
<1>3. Holder'
  BY DEF AbortSession, queues, Inv, TypeOK, SessionType, Holder
<1>4. Commands' /\ Config'
  BY DEF AbortSession, Inv, TypeOK, SessionType, Commands, Config
<1>5. Ongoing'
  BY DEF AbortSession, queues, Inv, TypeOK, SessionType, Ongoing, Locks, Aborting,
     Destroying
<1>6. Locks'
  BY DEF AbortSession, queues, Inv, TypeOK, SessionType, Locks, Aborting, Destroying
<1>7. Todo'
  BY DEF AbortSession, queues, Inv, TypeOK, SessionType, Todo
<1>8. Abort'
  <2>1. /\ client.pc = "abortSession" /\ client'.pc = "abortSend"
        /\ session'.abort_state = "INIT"
        /\ UNCHANGED <<omx, mgr>>
    BY DEF AbortSession, Inv, TypeOK, SessionType
  <2>2. mgr.pc \notin Encoding
    BY <2>1 DEF Inv, Locks, Aborting
  <2>3. QED
    BY <2>1, <2>2 DEF Inv, Abort, Destroying
<1>9. QED
  BY <1>1, <1>2, <1>3, <1>4, <1>5, <1>6, <1>7, <1>8 DEF Inv

\* An abort that has nothing to stop is over.
LEMMA AbortSessionOverInv ==
    ASSUME Inv, NoFalseCompletion, AbortSession,
           session.abort_state # "NONE" \/ ~ session.encoding
    PROVE  Inv'
<1>1. TypeOK'
  <2>1. session' \in SessionType
    BY DEF AbortSession, Inv, TypeOK, SessionType
  <2>2. client' \in [pc : ClientPc, job : 0 .. MaxJobs]
    BY DEF AbortSession, abortOver, Inv, TypeOK, ClientPc
  <2>3. QED
    BY <2>1, <2>2 DEF AbortSession, abortOver, queues, Inv, TypeOK, Job
<1>2. AnsweredOnce' /\ Locks'
  BY DEF AbortSession, abortOver, Inv, TypeOK, AnsweredOnce, Locks, Aborting, Destroying
<1>3. Sessions'
  BY DEF AbortSession, abortOver, queues, Inv, TypeOK, SessionType, Sessions, Aborting
<1>4. Commands' /\ Config'
  BY DEF AbortSession, Inv, TypeOK, SessionType, Commands, Config
<1>5. Todo'
  BY DEF AbortSession, abortOver, queues, Inv, TypeOK, SessionType, Todo, Locks, Aborting
<1>6. Ongoing'
  BY DEF AbortSession, abortOver, queues, NoFalseCompletion, Inv, TypeOK, SessionType,
     OmxType, Job, EXIT, Ongoing, Locks, Todo, Encoding, Configuring, Aborting, Destroying
<1>7. Holder'
  BY DEF AbortSession, sessionLockFree, Inv, TypeOK, SessionType, Holder, Abort
<1>8. Abort'
  BY DEF AbortSession, abortOver, Inv, TypeOK, SessionType, Abort, Locks, Aborting
<1>9. QED
  BY <1>1, <1>2, <1>3, <1>4, <1>5, <1>6, <1>7, <1>8 DEF Inv

\* The abort sends its command.
LEMMA AbortSendInv ==
    ASSUME Inv, NoFalseCompletion, AbortSend
    PROVE  Inv'
<1>1. TypeOK'
  <2>1. client' \in [pc : ClientPc, job : 0 .. MaxJobs]
    BY DEF AbortSend, step, Inv, TypeOK, ClientPc
  <2>2. omx.cmds \in Seq(OmxState) /\ omx' = [omx EXCEPT !.cmds = Append(@, "Idle")]
    BY DEF AbortSend, Inv, TypeOK, OmxType
  <2>3. Append(omx.cmds, "Idle") \in Seq(OmxState)
    BY <2>2 DEF OmxState
  <2>4. omx' \in OmxType
    BY <2>2, <2>3 DEF Inv, TypeOK, OmxType
  <2>5. QED
    BY <2>1, <2>4 DEF AbortSend, queues, history, Inv, TypeOK
<1>2. AnsweredOnce' /\ Locks' /\ Sessions' /\ Todo' /\ Ongoing' /\ Holder' /\ Config'
  BY DEF AbortSend, step, queues, history, Inv, AnsweredOnce, Locks, Sessions, Todo,
     Ongoing, Holder, Config, Aborting, Destroying
<1>3. Abort'
  BY OneElement DEF AbortSend, step, Inv, TypeOK, OmxType, Abort, Commands, Destroying
<1>4. Commands'
  <2>1. /\ omx.cmds = <<>> /\ omx.state # "Idle" /\ job_lock = "client"
        /\ mgr.pc \notin Encoding
    BY DEF AbortSend, step, Inv, Commands, Abort, Locks, Aborting
  <2>2. /\ omx'.cmds = <<"Idle">> /\ omx'.state = omx.state /\ client'.pc = "abortCheck"
        /\ UNCHANGED <<job_lock, mgr>>
    BY <2>1 DEF AbortSend, step
  <2>3. QED
    BY <2>1, <2>2 DEF Commands, OmxState
<1>5. QED
  BY <1>1, <1>2, <1>3, <1>4 DEF Inv

\* The abort has been answered, or it waits.
LEMMA AbortCheckInv ==
    ASSUME Inv, NoFalseCompletion, AbortCheck
    PROVE  Inv'
<1>1. TypeOK'
  <2>1. session' \in SessionType
    BY DEF AbortCheck, Inv, TypeOK, SessionType
  <2>2. client' \in [pc : ClientPc, job : 0 .. MaxJobs]
    BY DEF AbortCheck, abortOver, Inv, TypeOK, ClientPc
  <2>3. QED
    BY <2>1, <2>2 DEF AbortCheck, abortOver, queues, Inv, TypeOK, Job
<1>2. AnsweredOnce' /\ Locks' /\ Sessions' /\ Abort' /\ Config'
  BY DEF AbortCheck, abortOver, queues, Inv, TypeOK, SessionType, AnsweredOnce, Locks,
     Sessions, Abort, Config, Encoding, Aborting, Destroying
<1>3. Todo'
  BY DEF AbortCheck, abortOver, queues, Inv, TypeOK, SessionType, Todo, Locks, Encoding,
     Aborting
<1>4. Ongoing'
  BY DEF AbortCheck, abortOver, sessionLockFree, queues, NoFalseCompletion, Inv, TypeOK,
     SessionType, Job, Ongoing, Locks, Configuring, Aborting
<1>5. Holder'
  BY DEF AbortCheck, sessionLockFree, queues, Inv, Holder, Abort
<1>6. Commands'
  BY DEF AbortCheck, Inv, TypeOK, Commands, Abort
<1>7. QED
  BY <1>1, <1>2, <1>3, <1>4, <1>5, <1>6 DEF Inv

\* The abort was waiting and has been answered.
LEMMA AbortWokenInv ==
    ASSUME Inv, NoFalseCompletion, AbortWoken
    PROVE  Inv'
<1>1. TypeOK'
  <2>1. session' \in SessionType
    BY DEF AbortWoken, Inv, TypeOK, SessionType
  <2>2. client' \in [pc : ClientPc, job : 0 .. MaxJobs]
    BY DEF AbortWoken, abortOver, Inv, TypeOK, ClientPc
  <2>3. client.job = 0 \/ client.job \in Job
    BY DEF Inv, TypeOK, Job
  <2>4. ended' \subseteq Job /\ job_lock' \in {"none", "client", "mgr"}
    BY <2>3 DEF AbortWoken, abortOver, Inv, TypeOK
  <2>5. QED
    BY <2>1, <2>2, <2>4 DEF AbortWoken, queues, Inv, TypeOK
<1>2. AnsweredOnce' /\ Locks' /\ Sessions' /\ Abort' /\ Config'
  BY DEF AbortWoken, abortOver, queues, Inv, TypeOK, AnsweredOnce, Locks, Sessions, Abort,
     Config, Aborting, Destroying
<1>3. Todo'
  BY DEF AbortWoken, abortOver, queues, Inv, Todo, Locks, Aborting
<1>4. Ongoing'
  BY DEF AbortWoken, abortOver, queues, Inv, TypeOK, Ongoing, Locks, Aborting
<1>5. Holder'
  BY DEF AbortWoken, sessionLockFree, NoFalseCompletion, Inv, Holder, Abort
<1>6. Commands'
  BY DEF AbortWoken, NoFalseCompletion, Inv, Commands, Abort
<1>7. QED
  BY <1>1, <1>2, <1>3, <1>4, <1>5, <1>6 DEF Inv

\* The component is brought down, a command at a time.
LEMMA SessionDestroyInv ==
    ASSUME Inv, NoFalseCompletion, SessionDestroy
    PROVE  Inv'
<1>1. TypeOK'
  <2>1. session' \in SessionType
    BY DEF SessionDestroy, change_state, Inv, TypeOK, SessionType
  <2>2. omx' \in OmxType
    BY CommandTyped DEF SessionDestroy, change_state, Inv, TypeOK, OmxState
  <2>3. client' \in [pc : ClientPc, job : 0 .. MaxJobs]
    BY DEF SessionDestroy, step, change_state, wake, Inv, TypeOK, ClientPc
  <2>4. woken' \in BOOLEAN
    BY DEF SessionDestroy, change_state, wake, Inv, TypeOK
  <2>5. QED
    BY <2>1, <2>2, <2>3, <2>4 DEF SessionDestroy, queues, history, Inv, TypeOK
<1>2. AnsweredOnce'
  BY DEF SessionDestroy, history, Inv, AnsweredOnce
<1>3. Locks'
  BY DEF SessionDestroy, step, change_state, wake, Inv, TypeOK, Locks, Destroying
<1>4. Sessions'
  BY DEF SessionDestroy, step, change_state, wake, queues, Inv, TypeOK, SessionType,
     Sessions, Destroying
<1>5. Todo'
  BY DEF SessionDestroy, change_state, queues, history, Inv, TypeOK, SessionType, Todo
<1>6. Ongoing'
  BY DEF SessionDestroy, change_state, queues, history, Inv, TypeOK, SessionType, Ongoing
<1>7. Abort' /\ Config'
  BY DEF SessionDestroy, step, change_state, wake, Inv, TypeOK, SessionType, Abort,
     Config, Encoding, Configuring, Destroying
<1>8. Holder'
  BY DEF SessionDestroy, change_state, queues, history, Inv, TypeOK, SessionType, OmxType,
     Holder, Destroying
<1>9. Commands'
  <2>1. job_lock = "client" /\ mgr.pc \notin Encoding /\ UNCHANGED <<job_lock, mgr>>
    BY DEF SessionDestroy, Inv, Locks, Destroying
  <2>2. CASE client.pc = "loaded?"
    <3>1. client'.pc \in {"destroyIdle", "idleReached"}
      BY <2>2 DEF SessionDestroy, step, change_state, Inv, TypeOK
    <3>2. CASE UNCHANGED omx
      BY <2>1, <2>2, <3>1, <3>2 DEF Inv, Commands
    <3>3. CASE omx' # omx
      <4>1. /\ omx.state = "Executing"
            /\ change_state(client, "Idle", "destroyIdle", "idleReached", "idleReached")
        BY <2>2, <3>3 DEF SessionDestroy
      <4>2. omx.cmds = <<>>
        BY <2>2, <4>1 DEF Inv, Commands
      <4>3. omx'.cmds = <<"Idle">> /\ omx'.state = omx.state
        BY <3>3, <4>1, <4>2, CommandSent DEF change_state, OmxState
      <4>4. QED
        BY <2>1, <3>1, <4>1, <4>3 DEF Commands, OmxState
    <3>4. QED
      BY <3>2, <3>3
  <2>3. CASE client.pc = "idleReached"
    <3>1. client'.pc \in {"destroyLoaded", "free"}
      BY <2>3 DEF SessionDestroy, step, change_state, Inv, TypeOK
    <3>2. CASE UNCHANGED omx
      BY <2>1, <2>3, <3>1, <3>2 DEF Inv, Commands
    <3>3. CASE omx' # omx
      <4>1. /\ omx.state = "Idle"
            /\ change_state(client, "Loaded", "destroyLoaded", "free", "free")
        BY <2>3, <3>3 DEF SessionDestroy
      <4>2. omx.cmds = <<>>
        BY <2>3, <4>1 DEF Inv, Commands
      <4>3. omx'.cmds = <<"Loaded">> /\ omx'.state = omx.state
        BY <3>3, <4>1, <4>2, CommandSent DEF change_state, OmxState
      <4>4. QED
        BY <2>1, <3>1, <4>1, <4>3 DEF Commands, OmxState
    <3>4. QED
      BY <3>2, <3>3
  <2>4. CASE client.pc \in {"destroyIdle", "destroyLoaded"}
    <3>1. UNCHANGED omx /\ client'.pc \in {"idleReached", "free"}
      BY <2>4 DEF SessionDestroy, wake, Inv, TypeOK
    <3>2. client'.pc = "idleReached" => client.pc = "destroyIdle"
      BY <2>4, <3>1 DEF SessionDestroy, wake, Inv, TypeOK
    <3>3. QED
      BY <2>1, <2>4, <3>1, <3>2 DEF Inv, Commands
  <2>5. QED
    BY <2>2, <2>3, <2>4 DEF SessionDestroy
<1>10. QED
  BY <1>1, <1>2, <1>3, <1>4, <1>5, <1>6, <1>7, <1>8, <1>9 DEF Inv

\* The session and the component are gone, and so are all its jobs.
LEMMA SessionFreeInv ==
    ASSUME Inv, NoFalseCompletion, SessionFree
    PROVE  Inv'
<1>1. TypeOK'
  <2>1. client' \in [pc : ClientPc, job : 0 .. MaxJobs]
    BY DEF SessionFree, step, Inv, TypeOK, ClientPc
  <2>2. session' \in SessionType
    BY DEF SessionFree, Inv, TypeOK, SessionType
  <2>3. omx' \in OmxType
    BY Bounds DEF SessionFree, loaded, OmxType, OmxState
  <2>4. QED
    BY <2>1, <2>2, <2>3, Bounds DEF SessionFree, Inv, TypeOK, Job
<1>2. AnsweredOnce' /\ Locks' /\ Holder' /\ Commands' /\ Abort' /\ Config'
  BY DEF SessionFree, step, sessionLockFree, loaded, Inv, AnsweredOnce, Locks, Holder,
     Commands, Abort, Config, Aborting, Destroying
<1>3. Sessions'
  BY DEF SessionFree, step, Inv, Sessions, Locks, Aborting, Destroying
<1>4. Todo'
  BY DEF SessionFree, step, Inv, Todo, Sessions, Locks, Destroying
<1>5. Ongoing'
  BY DEF SessionFree, step, Inv, Ongoing, Locks, Destroying
<1>6. QED
  BY <1>1, <1>2, <1>3, <1>4, <1>5 DEF Inv

\* The manager is told to exit.
LEMMA CloseInv ==
    ASSUME Inv, NoFalseCompletion, Close
    PROVE  Inv'
<1>1. TypeOK'
  <2>1. client' \in [pc : ClientPc, job : 0 .. MaxJobs]
    BY DEF Close, step, Inv, TypeOK, ClientPc
  <2>2. QED
    BY <2>1 DEF Close, history, Inv, TypeOK
<1>2. /\ AnsweredOnce' /\ Locks' /\ Sessions' /\ Ongoing'
      /\ Holder' /\ Commands' /\ Abort' /\ Config'
  BY DEF Close, step, history, Inv, SessionType, EXIT, AnsweredOnce, Locks, Sessions,
     Ongoing, Holder, Commands, Abort, Config, Aborting, Destroying
<1>3. Todo'
  BY DEF Close, step, Inv, Todo, Sessions, Ongoing, Holder, Locks, Encoding, Aborting,
     Destroying, Configuring
<1>4. QED
  BY <1>1, <1>2, <1>3 DEF Inv

\* The manager has exited.
LEMMA JoinInv ==
    ASSUME Inv, NoFalseCompletion, Join
    PROVE  Inv'
<1>1. TypeOK'
  <2>1. client' \in [pc : ClientPc, job : 0 .. MaxJobs]
    BY DEF Join, step, Inv, TypeOK, ClientPc
  <2>2. QED
    BY <2>1 DEF Join, queues, history, Inv, TypeOK
<1>2. /\ AnsweredOnce' /\ Locks' /\ Sessions' /\ Todo' /\ Ongoing'
      /\ Holder' /\ Commands' /\ Abort' /\ Config'
  BY DEF Join, step, queues, history, Inv, AnsweredOnce, Locks, Sessions, Todo, Ongoing,
     Holder, Commands, Abort, Config, Aborting, Destroying
<1>3. QED
  BY <1>1, <1>2 DEF Inv

\* A step that changes nothing.
LEMMA StutterInv ==
    ASSUME Inv, NoFalseCompletion, UNCHANGED vars
    PROVE  Inv'
<1>1. TypeOK'
  <2>1. QED
    BY DEF vars, Inv, TypeOK
<1>2. /\ AnsweredOnce' /\ Locks' /\ Sessions' /\ Todo' /\ Ongoing'
      /\ Holder' /\ Commands' /\ Abort' /\ Config'
  BY DEF vars, Inv, AnsweredOnce, Locks, Sessions, Todo, Ongoing, Holder, Commands, Abort,
     Config, Destroying
<1>3. QED
  BY <1>1, <1>2 DEF Inv

-----------------------------------------------------------------------------
(* The inductive invariant.                                                *)

\* The program starts in it.
LEMMA InitInv == Init => Inv
<1> SUFFICES ASSUME Init PROVE Inv
  OBVIOUS
<1>1. TypeOK
  <2>1. 0 \in 0 .. MaxJobs /\ 0 \in 0 .. MaxSessions
    BY Bounds
  <2>2. session \in SessionType
    BY <2>1 DEF Init, closed, SessionType
  <2>3. <<>> \in Seq(OmxState) /\ "Loaded" \in OmxState
    BY DEF OmxState
  <2>4. omx \in OmxType
    BY <2>1, <2>3 DEF Init, loaded, OmxType
  <2>5. job_queue \in Seq(Job \cup {EXIT})
    BY DEF Init
  <2>6. /\ mgr \in [pc : MgrPc, job : 0 .. MaxJobs]
        /\ client \in [pc : ClientPc, job : 0 .. MaxJobs]
    BY <2>1 DEF Init, MgrPc, ClientPc
  <2>7. QED
    BY <2>1, <2>2, <2>4, <2>5, <2>6, OneJob DEF Init, TypeOK
<1>2. AnsweredOnce /\ Locks /\ Todo /\ Ongoing
  BY DEF Init, closed, AnsweredOnce, Locks, Todo, Ongoing, Encoding, Configuring,
     Aborting, Destroying
<1>3. Sessions /\ Holder /\ Commands /\ Abort /\ Config
  BY DEF Init, closed, loaded, Sessions, Holder, Commands, Abort, Config, Encoding,
     Configuring, Aborting, Destroying
<1>4. QED
  BY <1>1, <1>2, <1>3 DEF Inv

\* Every step keeps it.
LEMMA NextInv ==
    ASSUME NoFalseCompletion, Inv, [Next]_vars
    PROVE  Inv'
<1>1. CASE Mgr
  <2>1. CASE MgrTake
    BY <2>1, MgrTakeNoneInv, MgrTakeExitInv, MgrTakeJobInv
  <2>2. QED
    BY <1>1, <2>1, MgrWaitInv, MgrStartInv, MgrConfigureInv, MgrEncodeInv, MgrFillInv,
       MgrErrorInv, MgrErrorDoneInv DEF Mgr
<1>2. CASE OmxFilled
  BY <1>2, OmxFilledDoneInv, OmxFilledIgnoredInv
<1>3. CASE OmxError \/ OmxCommand \/ CallbackDone
  BY <1>3, OmxErrorInv, OmxCommandInv, CallbackDoneInv
<1>4. CASE CreateSession \/ StartJob \/ DestroySession \/ Close \/ \E j \in Job : AbortJob(j)
  BY <1>4, CreateSessionInv, StartJobInv, DestroySessionInv, CloseInv, AbortJobInv
<1>5. CASE ClientGoesOn
  <2>1. CASE AbortSession
    BY <2>1, AbortSessionBeginInv, AbortSessionOverInv
  <2>2. QED
    BY <1>5, <2>1, AbortLockedInv, DestroyLockedInv, AbortSendInv, AbortCheckInv,
       AbortWokenInv, SessionDestroyInv, SessionFreeInv, JoinInv DEF ClientGoesOn
<1>6. CASE UNCHANGED vars
  BY <1>6, StutterInv
<1>7. QED
  BY <1>1, <1>2, <1>3, <1>4, <1>5, <1>6 DEF Next

\* So it holds throughout.
LEMMA InvCorrect ==
    ASSUME NoFalseCompletion
    PROVE  Spec => []Inv
BY InitInv, NextInv, PTL DEF Spec

\* What a step answers is the job of the session, which has not been aborted.
LEMMA AnswerStep ==
    ASSUME NoFalseCompletion, Inv, [Next]_vars
    PROVE  \A j \in ended : answers'[j] = answers[j]
<1>1. \/ UNCHANGED answers
      \/ /\ answers' = [answers EXCEPT ![session.jobId] = @ + 1]
         /\ session.jobId \notin ended
  <2>1. CASE MgrError
    <3>1. session.jobId \notin ended
      BY <2>1 DEF MgrError, at, Inv, Ongoing, Encoding
    <3>2. QED
      BY <2>1, <3>1 DEF MgrError, answer
  <2>2. CASE OmxFilled
    BY <2>2, OmxFilledEffect DEF OmxFilled
  <2>3. CASE OmxError \/ OmxCommand
    BY <2>3, OmxErrorEffect, OmxCommandEffect DEF history
  <2>4. CASE Mgr /\ ~ MgrError
    BY <2>4 DEF Mgr, MgrWait, MgrTake, MgrStart, MgrConfigure, MgrEncode, MgrFill,
       MgrErrorDone, history
  <2>5. CASE ClientGoesOn
    BY <2>5 DEF ClientGoesOn, AbortLocked, DestroyLocked, AbortSession, AbortSend,
       AbortCheck, AbortWoken, SessionDestroy, SessionFree, Join, history
  <2>6. CASE \/ CallbackDone \/ CreateSession \/ StartJob \/ DestroySession \/ Close
             \/ (\E j \in Job : AbortJob(j)) \/ UNCHANGED vars
    BY <2>6 DEF CallbackDone, CreateSession, StartJob, DestroySession, Close, AbortJob,
       history, vars
  <2>7. QED
    BY <2>1, <2>2, <2>3, <2>4, <2>5, <2>6 DEF Next
<1>2. QED
  BY <1>1 DEF Inv, TypeOK

-----------------------------------------------------------------------------
(* What is correct.                                                        *)

\* The state keeps its shape: although the manager looks at the size of the
\* ongoing queue without job_lock, at most one job is ongoing.
THEOREM TypeCorrect ==
    ASSUME NoFalseCompletion
    PROVE  Spec => []TypeOK
<1>1. Inv => TypeOK
  BY DEF Inv
<1>2. QED
  BY InvCorrect, <1>1, PTL

\* The filled picture, the error of the encoder and the error end of the
\* manager answer a job once between them.
THEOREM AnswersCorrect ==
    ASSUME NoFalseCompletion
    PROVE  Spec => []AnsweredOnce
<1>1. Inv => AnsweredOnce
  BY DEF Inv
<1>2. QED
  BY InvCorrect, <1>1, PTL

\* The component works on no job whose abort, or the destruction of whose
\* session, has returned.
THEOREM AbortCorrect ==
    ASSUME NoFalseCompletion
    PROVE  Spec => []AbortIsSync
<1>1. Inv => AbortIsSync
  BY DEF Inv, Ongoing, Holder, AbortIsSync
<1>2. QED
  BY InvCorrect, <1>1, PTL

\* No callback is made for a job whose abort has returned.
THEOREM AbortEndsAnswers ==
    ASSUME NoFalseCompletion
    PROVE  Spec => NoAnswerAfterAbort
<1>1. Inv /\ [Next]_vars => [\A j \in ended : answers'[j] = answers[j]]_vars
  BY AnswerStep
<1>2. QED
  BY InvCorrect, <1>1, PTL DEF Spec, NoAnswerAfterAbort
=============================================================================
