------------------------------- MODULE MmJpeg -------------------------------
(***************************************************************************)
(* The jpeg interface (mm-jpeg-interface: mm_jpeg.c, mm_jpeg_queue.c,      *)
(* mm_jpeg_inlines.h): jobs are queued by the client, taken one at a time  *)
(* by the job manager thread and encoded by an OMX component, which calls  *)
(* back from a thread of its own when a picture is filled, an error occurs *)
(* or a state change completes.  The client may abort a job or destroy the *)
(* session at any of these moments.                                        *)
(*                                                                         *)
(* The calls of the client are serialised by g_intf_lock, so the client is *)
(* one process; it has one session, as the camera HAL has.  The jobs of    *)
(* the model are 1 .. MaxJobs, in the order they are started; 0 is none.   *)
(* A step is what a thread does between two points where another one may   *)
(* be waiting: job_lock is a variable, the lock of the session is held     *)
(* from a callback to the end of mm_jpeg_job_done, which is cb # 0.        *)
(***************************************************************************)
EXTENDS Integers, FiniteSets, SequencesExt

CONSTANTS
    MaxJobs,      \* bound: jobs started
    MaxSessions,  \* bound: sessions created
    Outstanding,  \* jobs the client has under way at once (1: the camera HAL)
    Faults        \* what may fail, see AllFaults

AllFaults == {"configFails", "fillFails", "encodeError", "errorDuringAbort",
              "needsBuffers", "spuriousWakeup"}

ASSUME MmJpegAssumption ==
    /\ {MaxJobs, MaxSessions, Outstanding} \subseteq Nat \ {0}
    /\ Faults \subseteq AllFaults

VARIABLES
    job_queue,      \* job_mgr.job_queue: jobs to do, and EXIT
    ongoing_job_q,  \* jobs given to the component
    job_sem,        \* job_mgr.job_sem
    job_lock,       \* its owner: "none", "client" or "mgr"
    session,        \* the fields of mm_jpeg_job_session_t that steer
    omx,            \* the component (external)
    mgr,            \* the job manager thread: where it is, and its job
    client,         \* the client: where it is, and the job it aborts
    cb,             \* the job called back for and not yet done
    woken,          \* the session's condition was signalled to its waiter
    answers,        \* answers[j]: callbacks made for job j
    ended,          \* jobs whose abort or session's destruction has returned
    started,        \* jobs started (bound)
    sessions        \* sessions created (bound)

vars == <<job_queue, ongoing_job_q, job_sem, job_lock, session, omx, mgr, client,
          cb, woken, answers, ended, started, sessions>>

queues == <<job_queue, ongoing_job_q, job_sem>>
history == <<answers, ended, started, sessions>>

Job == 1 .. MaxJobs
EXIT == MaxJobs + 1

closed == [active |-> FALSE, config |-> FALSE, encoding |-> FALSE,
           abort_state |-> "NONE", state_change_pending |-> FALSE,
           error_flag |-> FALSE, jobId |-> 0]

loaded == [state |-> "Loaded", cmds |-> <<>>, job |-> 0, buffers |-> FALSE]

Init ==
    /\ job_queue = <<>> /\ ongoing_job_q = <<>> /\ job_sem = 0 /\ job_lock = "none"
    /\ session = closed
    /\ omx = loaded
    /\ mgr = [pc |-> "wait", job |-> 0]
    /\ client = [pc |-> "idle", job |-> 0]
    /\ cb = 0 /\ woken = FALSE
    /\ answers = [j \in Job |-> 0] /\ ended = {} /\ started = 0 /\ sessions = 0

-----------------------------------------------------------------------------
(* Shared steps.                                                           *)

sessionLockFree == cb = 0

\* mm_jpeg_queue_remove_job_by_job_id: the first node of job j leaves the queue.
removeJob(q, j) == RemoveFirst(q, j)

\* params.jpeg_cb: the client is told the end of job j.
answer(j) == answers' = [answers EXCEPT ![j] = @ + 1]

\* mm_jpeg_job_done: the job leaves the queue and the manager is woken.
job_done(j) ==
    /\ ongoing_job_q' = removeJob(ongoing_job_q, j)
    /\ session' = [session EXCEPT !.encoding = FALSE]
    /\ job_sem' = job_sem + 1

\* mm_jpeg_session_change_state up to its wait, by a thread that goes on at
\* waiting, at reached if the component is there already, or at failed.  On
\* the way to Idle the component is given its buffers.
change_state(thread, new, waiting, reached, failed) ==
    /\ sessionLockFree
    /\ IF omx.state = new
       THEN thread' = [thread EXCEPT !.pc = reached] /\ UNCHANGED <<session, omx, woken>>
       ELSE /\ session' = [session EXCEPT !.state_change_pending = TRUE]
            /\ omx' = [omx EXCEPT !.cmds = Append(@, new),
                                  !.buffers = @ \/ (new = "Idle" /\ ~ session.error_flag)]
            /\ thread' = [thread EXCEPT !.pc = IF session.error_flag THEN failed ELSE waiting]
            /\ woken' = FALSE

\* pthread_cond_wait returns.
wake(thread, pc) ==
    /\ sessionLockFree
    /\ woken \/ "spuriousWakeup" \in Faults
    /\ thread' = [thread EXCEPT !.pc = pc]
    /\ woken' = FALSE

-----------------------------------------------------------------------------
(* The job manager thread, mm_jpeg_jobmgr_thread.                          *)

at(pc) == mgr.pc = pc
go(pc) == mgr' = [mgr EXCEPT !.pc = pc]

\* Mutant: the size of the ongoing queue is not looked at.
MgrWaitUnchecked ==
    /\ at("wait") /\ job_sem > 0
    /\ job_sem' = job_sem - 1 /\ go("lock")
    /\ UNCHANGED <<job_queue, ongoing_job_q, job_lock, session, omx, client, cb, woken, history>>

\* The semaphore, then the size of the ongoing queue, read without job_lock:
\* NUM_MAX_JPEG_CNCURRENT_JOBS is 1.
MgrWait ==
    /\ at("wait") /\ job_sem > 0
    /\ job_sem' = job_sem - 1
    /\ go(IF Len(ongoing_job_q) >= 1 THEN "wait" ELSE "lock")
    /\ UNCHANGED <<job_queue, ongoing_job_q, job_lock, session, omx, client, cb, woken, history>>

\* The next job, up to mm_jpeg_session_encode.
MgrTake ==
    /\ at("lock") /\ job_lock = "none"
    /\ IF job_queue = <<>> THEN go("wait") /\ UNCHANGED <<queues, job_lock, session>>
       ELSE IF Head(job_queue) = EXIT
       THEN /\ go("exited") /\ job_queue' = Tail(job_queue)
            /\ UNCHANGED <<ongoing_job_q, job_sem, job_lock, session>>
       ELSE /\ job_queue' = Tail(job_queue)
            /\ ongoing_job_q' = Append(ongoing_job_q, Head(job_queue))
            /\ session' = [session EXCEPT !.jobId = Head(job_queue)]
            /\ job_lock' = "mgr"
            /\ mgr' = [job |-> Head(job_queue), pc |-> "start"]
            /\ UNCHANGED job_sem
    /\ UNCHANGED <<omx, client, cb, woken, history>>

\* The start of mm_jpeg_session_encode.
MgrStart ==
    /\ at("start") /\ sessionLockFree
    /\ session' = [session EXCEPT !.abort_state = "NONE", !.encoding = FALSE]
    /\ go(IF session.config THEN "encode" ELSE "toIdle")
    /\ UNCHANGED <<queues, job_lock, omx, client, cb, woken, history>>

\* mm_jpeg_session_configure: Loaded to Idle to Executing.
MgrConfigure ==
    /\ \/ at("toIdle") /\ change_state(mgr, "Idle", "waitIdle", "toExecuting", "error")
       \/ at("toExecuting")
          /\ change_state(mgr, "Executing", "waitExecuting", "configured", "error")
       \/ /\ at("toIdle") /\ "configFails" \in Faults
          /\ go("error") /\ UNCHANGED <<session, omx, woken>>
       \/ at("waitIdle") /\ wake(mgr, "toExecuting") /\ UNCHANGED <<session, omx>>
       \/ at("waitExecuting") /\ wake(mgr, "configured") /\ UNCHANGED <<session, omx>>
       \/ /\ at("configured")
          /\ session' = [session EXCEPT !.config = TRUE]
          /\ go("encode") /\ UNCHANGED <<omx, woken>>
    /\ UNCHANGED <<queues, job_lock, client, cb, history>>

\* mm_jpeg_configure_job_params; encoding is set.
MgrEncode ==
    /\ at("encode") /\ sessionLockFree
    /\ \/ session' = [session EXCEPT !.encoding = TRUE] /\ go("fill")
       \/ "configFails" \in Faults /\ go("error") /\ UNCHANGED session
    /\ UNCHANGED <<queues, job_lock, omx, client, cb, woken, history>>

\* Mutant: a component that was refused its second buffer works all the same.
MgrFillHalf ==
    /\ at("fill") /\ omx' = [omx EXCEPT !.job = mgr.job]
    /\ \/ go("wait") /\ job_lock' = "none"
       \/ "fillFails" \in Faults /\ go("error") /\ UNCHANGED job_lock
    /\ UNCHANGED <<queues, session, client, cb, woken, history>>

\* OMX_EmptyThisBuffer and OMX_FillThisBuffer, refused unless the component
\* executes.
MgrFill ==
    /\ at("fill")
    /\ \/ /\ omx.state = "Executing" /\ omx.cmds = <<>>
          /\ omx' = [omx EXCEPT !.job = mgr.job]
          /\ go("wait") /\ job_lock' = "none"
       \/ /\ omx.state # "Executing" \/ omx.cmds # <<>> \/ "fillFails" \in Faults
          /\ go("error") /\ UNCHANGED <<omx, job_lock>>
    /\ UNCHANGED <<queues, session, client, cb, woken, history>>

\* The error end of mm_jpeg_process_encoding_job: callback, then job_done.
MgrError ==
    /\ at("error") /\ answer(session.jobId) /\ go("errorDone")
    /\ UNCHANGED <<queues, job_lock, session, omx, client, cb, woken, ended, started, sessions>>

MgrErrorDone ==
    /\ at("errorDone") /\ job_done(session.jobId) /\ go("wait") /\ job_lock' = "none"
    /\ UNCHANGED <<job_queue, omx, client, cb, woken, history>>

Mgr == \/ MgrWait \/ MgrTake \/ MgrStart \/ MgrConfigure \/ MgrEncode \/ MgrFill
       \/ MgrError \/ MgrErrorDone

-----------------------------------------------------------------------------
(* The callbacks of the component.                                         *)

\* Mutant: the change of state is noted and its waiter not signalled.
cmdCompleteUnsignalled ==
    /\ session' = [session EXCEPT !.state_change_pending = FALSE]
    /\ UNCHANGED <<cb, answers, woken>>

\* mm_jpeg_event_handler for a completed command.
cmdComplete ==
    /\ UNCHANGED <<cb, answers>>
    /\ IF session.abort_state = "INIT"
       THEN session' = [session EXCEPT !.abort_state = "DONE"] /\ woken' = TRUE
       ELSE /\ session' = [session EXCEPT !.state_change_pending = FALSE]
            /\ woken' = (woken \/ session.state_change_pending)

\* mm_jpeg_event_handler for an error.
errorEvent ==
    IF session.abort_state = "INIT"
    THEN /\ session' = [session EXCEPT !.abort_state = "DONE"]
         /\ woken' = TRUE /\ UNCHANGED <<cb, answers>>
    ELSE /\ session' = [session EXCEPT !.error_flag = TRUE]
         /\ woken' = TRUE
         /\ IF session.encoding THEN answer(session.jobId) /\ cb' = session.jobId
            ELSE UNCHANGED <<cb, answers>>

\* mm_jpeg_fbd: the picture is filled; ignored once an abort has begun.
OmxFilled ==
    /\ omx.job # 0 /\ sessionLockFree
    /\ omx' = [omx EXCEPT !.job = 0]
    /\ IF session.abort_state = "NONE"
       THEN answer(session.jobId) /\ cb' = session.jobId
       ELSE UNCHANGED <<answers, cb>>
    /\ UNCHANGED <<queues, job_lock, session, mgr, client, woken, ended, started, sessions>>

\* The end of mm_jpeg_fbd, or of the handler of an error.
CallbackDone ==
    /\ cb # 0 /\ job_done(session.jobId) /\ cb' = 0
    /\ UNCHANGED <<job_queue, job_lock, omx, mgr, client, woken, history>>

\* The encoder fails; as a fault of its own, while an abort is under way,
\* when mm_jpeg_event_handler takes the error for the abort's completion.
OmxError ==
    /\ "encodeError" \in Faults
    /\ session.abort_state = "INIT" => "errorDuringAbort" \in Faults
    /\ omx.job # 0 /\ sessionLockFree
    /\ omx' = [omx EXCEPT !.job = 0]
    /\ errorEvent
    /\ UNCHANGED <<queues, job_lock, mgr, client, ended, started, sessions>>

\* The component obeys a command: it changes state, giving back the buffers
\* it holds, or reports that it is in that state already.  It may have to be
\* given its buffers before it goes from Loaded to Idle.
OmxCommand ==
    /\ omx.cmds # <<>> /\ sessionLockFree
    /\ ("needsBuffers" \in Faults /\ omx.state = "Loaded" /\ Head(omx.cmds) = "Idle")
          => omx.buffers
    /\ omx' = [omx EXCEPT !.state = Head(omx.cmds), !.cmds = Tail(omx.cmds),
                          !.job = IF Head(omx.cmds) = "Executing" THEN @ ELSE 0]
    /\ IF Head(omx.cmds) = omx.state THEN errorEvent ELSE cmdComplete
    /\ UNCHANGED <<queues, job_lock, mgr, client, ended, started, sessions>>

-----------------------------------------------------------------------------
(* The client.                                                             *)

step(from, to) == client.pc = from /\ client' = [client EXCEPT !.pc = to]

\* Jobs of the session that are queued, running or being reported.
underWay == {j \in 1 .. started : answers[j] = 0 /\ j \notin ended}

\* mm_jpeg_create_session.  The slot is used again as the session before
\* left it, but for what mm_jpeg_session_create resets: encoding is not.
CreateSession ==
    /\ client.pc = "idle" /\ ~ session.active /\ sessions < MaxSessions
    /\ session' = [closed EXCEPT !.active = TRUE, !.encoding = session.encoding,
                                 !.jobId = session.jobId]
    /\ sessions' = sessions + 1
    /\ UNCHANGED <<queues, job_lock, omx, mgr, client, cb, woken, answers, ended, started>>

\* mm_jpeg_start_job.
StartJob ==
    /\ client.pc = "idle" /\ session.active
    /\ started < MaxJobs /\ Cardinality(underWay) < Outstanding
    /\ started' = started + 1
    /\ job_queue' = Append(job_queue, started + 1)
    /\ job_sem' = job_sem + 1
    /\ UNCHANGED <<ongoing_job_q, job_lock, session, omx, mgr, client, cb, woken,
                   answers, ended, sessions>>

\* mm_jpeg_abort_job asks for a job that the client has not seen end yet.
AbortJob(j) ==
    /\ client.pc = "idle" /\ session.active /\ j \in 1 .. started /\ j \notin ended
    /\ client' = [pc |-> "abortLock", job |-> j]
    /\ UNCHANGED <<queues, job_lock, session, omx, mgr, cb, woken, history>>

\* A job to do is dropped; one that is ongoing is taken out of its queue and
\* aborted in the component; any other is unknown.
AbortLocked ==
    /\ client.pc = "abortLock" /\ job_lock = "none"
    /\ LET todo == client.job \in Range(job_queue)
           ongoing == ~ todo /\ client.job \in Range(ongoing_job_q)
       IN  /\ job_queue' = removeJob(job_queue, client.job)
           /\ ongoing_job_q' = IF ongoing THEN removeJob(ongoing_job_q, client.job)
                               ELSE ongoing_job_q
           /\ job_lock' = IF ongoing THEN "client" ELSE "none"
           /\ client' = [client EXCEPT !.pc = IF ongoing THEN "abortSession" ELSE "idle"]
           /\ ended' = IF ongoing THEN ended ELSE ended \cup {client.job}
    /\ UNCHANGED <<job_sem, session, omx, mgr, cb, woken, answers, started, sessions>>

\* mm_jpeg_destroy_session: all its jobs leave the queues.
DestroySession ==
    /\ client.pc = "idle" /\ session.active
    /\ client' = [pc |-> "destroyLock", job |-> 0]
    /\ UNCHANGED <<queues, job_lock, session, omx, mgr, cb, woken, history>>

DestroyLocked ==
    /\ job_lock = "none" /\ step("destroyLock", "abortSession")
    /\ job_lock' = "client"
    /\ job_queue' = <<>> /\ ongoing_job_q' = <<>>
    /\ UNCHANGED <<job_sem, session, omx, mgr, cb, woken, history>>

\* mm_jpeg_session_abort is over: back to mm_jpeg_abort_job, or on with the
\* destruction.
abortOver ==
    IF client.job # 0
    THEN /\ client' = [client EXCEPT !.pc = "idle"] /\ job_lock' = "none"
         /\ ended' = ended \cup {client.job}
    ELSE client' = [client EXCEPT !.pc = "loaded?"] /\ UNCHANGED <<job_lock, ended>>

\* Mutant: the callbacks are to ignore the job, and the component goes on.
AbortSessionByFlag ==
    /\ client.pc = "abortSession" /\ sessionLockFree
    /\ session' = [session EXCEPT !.abort_state = "DONE"] /\ abortOver
    /\ UNCHANGED <<queues, omx, mgr, cb, woken, answers, started, sessions>>

\* mm_jpeg_session_abort up to the end of its first critical section.
AbortSession ==
    /\ client.pc = "abortSession" /\ sessionLockFree
    /\ IF session.abort_state # "NONE" THEN abortOver /\ UNCHANGED session
       ELSE IF session.encoding
       THEN /\ session' = [session EXCEPT !.abort_state = "INIT",
                                          !.state_change_pending = TRUE]
            /\ client' = [client EXCEPT !.pc = "abortSend"]
            /\ UNCHANGED <<job_lock, ended>>
       ELSE session' = [session EXCEPT !.abort_state = "DONE"] /\ abortOver
    /\ UNCHANGED <<queues, omx, mgr, cb, woken, answers, started, sessions>>

\* OMX_SendCommand(OMX_StateIdle), without the lock of the session.
AbortSend ==
    /\ step("abortSend", "abortCheck")
    /\ omx' = [omx EXCEPT !.cmds = Append(@, "Idle")]
    /\ woken' = FALSE
    /\ UNCHANGED <<queues, job_lock, session, mgr, cb, history>>

\* Mutant: it does not look whether the component has answered.
AbortCheckLate ==
    /\ client.pc = "abortCheck" /\ sessionLockFree
    /\ client' = [client EXCEPT !.pc = "abortWait"]
    /\ woken' = FALSE
    /\ UNCHANGED <<queues, session, job_lock, omx, mgr, cb, history>>

\* Mutant: it does not wait.
AbortCheckAsync ==
    /\ client.pc = "abortCheck" /\ sessionLockFree
    /\ session' = [session EXCEPT !.abort_state = "DONE"] /\ abortOver
    /\ UNCHANGED <<queues, omx, mgr, cb, woken, answers, started, sessions>>

\* The second critical section: it waits if the component has not answered.
AbortCheck ==
    /\ client.pc = "abortCheck" /\ sessionLockFree
    /\ IF session.abort_state = "INIT"
       THEN client' = [client EXCEPT !.pc = "abortWait"]
            /\ UNCHANGED <<session, job_lock, ended>>
       ELSE session' = [session EXCEPT !.abort_state = "DONE"] /\ abortOver
    /\ UNCHANGED <<queues, omx, mgr, cb, woken, answers, started, sessions>>

AbortWoken ==
    /\ client.pc = "abortWait" /\ sessionLockFree
    /\ woken \/ "spuriousWakeup" \in Faults
    /\ woken' = FALSE
    /\ session' = [session EXCEPT !.abort_state = "DONE"] /\ abortOver
    /\ UNCHANGED <<queues, omx, mgr, cb, answers, started, sessions>>

\* mm_jpeg_session_destroy: Executing to Idle to Loaded, whatever fails.
SessionDestroy ==
    /\ \/ /\ client.pc = "loaded?"
          /\ IF omx.state = "Executing"
             THEN change_state(client, "Idle", "destroyIdle", "idleReached", "idleReached")
             ELSE step("loaded?", "idleReached") /\ UNCHANGED <<session, omx, woken>>
       \/ client.pc = "destroyIdle" /\ wake(client, "idleReached") /\ UNCHANGED <<session, omx>>
       \/ /\ client.pc = "idleReached"
          /\ IF omx.state = "Idle"
             THEN change_state(client, "Loaded", "destroyLoaded", "free", "free")
             ELSE step("idleReached", "free") /\ UNCHANGED <<session, omx, woken>>
       \/ client.pc = "destroyLoaded" /\ wake(client, "free") /\ UNCHANGED <<session, omx>>
    /\ UNCHANGED <<queues, job_lock, mgr, cb, history>>

\* OMX_FreeHandle, the session is free again, and the manager is woken.
SessionFree ==
    /\ sessionLockFree /\ step("free", "idle")
    /\ omx' = loaded
    /\ session' = [session EXCEPT !.active = FALSE]
    /\ job_lock' = "none" /\ job_sem' = job_sem + 1
    /\ ended' = 1 .. started
    /\ UNCHANGED <<job_queue, ongoing_job_q, mgr, cb, woken, answers, started, sessions>>

\* mm_jpeg_close of the last client, its session destroyed as the HAL does,
\* and mm_jpeg_jobmgr_thread_release.
Close ==
    /\ ~ session.active /\ step("idle", "join")
    /\ job_queue' = Append(job_queue, EXIT) /\ job_sem' = job_sem + 1
    /\ UNCHANGED <<ongoing_job_q, job_lock, session, omx, mgr, cb, woken, history>>

Join ==
    /\ mgr.pc = "exited" /\ step("join", "closed")
    /\ UNCHANGED <<queues, job_lock, session, omx, mgr, cb, woken, history>>

\* What the client goes on with once it is inside a call.
ClientGoesOn ==
    \/ AbortLocked \/ DestroyLocked \/ AbortSession \/ AbortSend \/ AbortCheck
    \/ AbortWoken \/ SessionDestroy \/ SessionFree \/ Join

Next ==
    \/ Mgr
    \/ OmxFilled \/ OmxError \/ OmxCommand \/ CallbackDone
    \/ CreateSession \/ StartJob \/ DestroySession \/ Close
    \/ \E j \in Job : AbortJob(j)
    \/ ClientGoesOn

\* Every thread that can go on does; the component answers; what the client
\* asks for, and whether it asks, is its own choice.
Fairness ==
    /\ WF_vars(Mgr) /\ WF_vars(ClientGoesOn)
    /\ WF_vars(OmxFilled) /\ WF_vars(OmxCommand) /\ WF_vars(CallbackDone)

Spec == Init /\ [][Next]_vars /\ Fairness

-----------------------------------------------------------------------------
(* Properties.                                                             *)

SessionType == [active : BOOLEAN, config : BOOLEAN, encoding : BOOLEAN,
                abort_state : {"NONE", "INIT", "DONE"}, state_change_pending : BOOLEAN,
                error_flag : BOOLEAN, jobId : 0 .. MaxJobs]
OmxState == {"Loaded", "Idle", "Executing"}
OmxType == [state : OmxState, cmds : Seq(OmxState), job : 0 .. MaxJobs, buffers : BOOLEAN]
MgrPc == {"wait", "lock", "start", "toIdle", "waitIdle", "toExecuting", "waitExecuting",
          "configured", "encode", "fill", "error", "errorDone", "exited"}
ClientPc == {"idle", "abortLock", "abortSession", "abortSend", "abortCheck", "abortWait",
             "destroyLock", "loaded?", "destroyIdle", "idleReached", "destroyLoaded",
             "free", "join", "closed"}

\* The shape of the state: at most one job is ongoing, as
\* NUM_MAX_JPEG_CNCURRENT_JOBS says, although its test is outside job_lock.
TypeOK ==
    /\ job_queue \in Seq(Job \cup {EXIT})
    /\ ongoing_job_q \in Seq(Job) /\ Len(ongoing_job_q) <= 1
    /\ job_sem \in Nat /\ job_lock \in {"none", "client", "mgr"}
    /\ session \in SessionType /\ omx \in OmxType
    /\ mgr \in [pc : MgrPc, job : 0 .. MaxJobs]
    /\ client \in [pc : ClientPc, job : 0 .. MaxJobs]
    /\ cb \in 0 .. MaxJobs /\ woken \in BOOLEAN
    /\ answers \in [Job -> Nat] /\ ended \subseteq Job
    /\ started \in 0 .. MaxJobs /\ sessions \in 0 .. MaxSessions

\* No job is answered twice, by the filled buffer, the error event and the
\* error end of the manager between them.
AnsweredOnce == \A j \in Job : answers[j] <= 1

\* Once the abort of a job, or the destruction of its session, has returned,
\* no callback for it comes (mm_jpeg.c:940-982, 2018).
NoAnswerAfterAbort ==
    [][\A j \in ended : answers'[j] = answers[j]]_vars

\* mm_jpeg_interface.h:252: "abort a job -- sync call".  When it has returned,
\* the component no longer works on the job and its buffers can be released.
AbortIsSync == omx.job \notin ended

\* Every job started is answered or aborted: no semaphore post, callback or
\* condition signal is lost on the way.
EveryJobEnds == \A j \in Job : (started >= j) ~> (answers[j] > 0 \/ j \in ended)

\* Calls of the client return: an abort holds job_lock and waits for a
\* callback of the component, a close waits for the manager to exit.
CallsReturn == (client.pc # "idle") ~> (client.pc \in {"idle", "closed"})
=============================================================================
