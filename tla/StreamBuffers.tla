---------------------------- MODULE StreamBuffers ----------------------------
(***************************************************************************)
(* The buffers of one stream (mm_camera_stream.c) between the kernel, the  *)
(* poll thread, the superbuffers of the channel, the command thread of the *)
(* stream, the thread of QCameraStream and the window, encoder or client a *)
(* frame is lent to.  A buffer goes back to the kernel when the last of    *)
(* them gives up its reference; a stop resets the references and frees the *)
(* memory while frames are under way, and the stream may start again.      *)
(*                                                                         *)
(* Each set below holds the buffers that are at one place; a buffer may be *)
(* at several.  What SuperBufQueue models is one place here, "channel".    *)
(* The kernel and those a frame is lent to are external.                   *)
(***************************************************************************)
EXTENDS Integers, FiniteSets

CONSTANTS
    Buf,        \* the buffers of the stream
    Bundled,    \* is_bundled: the frames also go to the superbuffer queue
    HasCb,      \* the stream has a callback, the one of QCameraStream
    MaxStarts,  \* bound: starts of the channel
    Preemption  \* stop may find processDataNotify between its test and its queue

ASSUME StreamAssumption ==
    /\ {Bundled, HasCb, Preemption} \subseteq BOOLEAN
    /\ Bundled \/ HasCb
    /\ MaxStarts \in Nat

VARIABLES
    state,      \* my_obj->state: "CFG", "BUFFED", "REG" or "ACTIVE"
    refcnt,     \* buf_status[b].buf_refcnt
    kernel,     \* queued in the kernel
    dequeued,   \* the poll thread has dequeued it, and not counted it
    counted,    \* the poll thread has counted it, and not handed it on
    channel,    \* held by the superbuffer queue or a superbuffer
    cmdq,       \* cmd_thread.cmd_queue
    taken,      \* the command thread has taken it
    notified,   \* in processDataNotify, which has found m_bActive
    finishing,  \* the command thread is back from its callback
    m_bActive,  \* QCameraStream::m_bActive
    mDataQ,     \* QCameraStream::mDataQ
    jobs,       \* commands DO_NEXT_JOB of mProcTh
    lent,       \* with the window, the encoder, the client or mDataCB
    client,     \* where the start or stop of the channel is
    starts      \* starts of the channel (bound)

thread == <<taken, notified, finishing>>
hal == <<m_bActive, mDataQ, jobs>>
vars == <<state, refcnt, kernel, dequeued, counted, channel, cmdq, thread, hal,
          lent, client, starts>>

none == [b \in Buf |-> 0]

Init ==
    /\ state = "CFG" /\ refcnt = none
    /\ kernel = {} /\ dequeued = {} /\ counted = {} /\ channel = {} /\ cmdq = {}
    /\ taken = {} /\ notified = {} /\ finishing = {}
    /\ m_bActive = FALSE /\ mDataQ = {} /\ jobs = 0 /\ lent = {}
    /\ client = "off" /\ starts = 0

-----------------------------------------------------------------------------
(* References.                                                             *)

I(p) == IF p THEN 1 ELSE 0

\* Mutant: the buffer goes back while one holder is left.
buf_doneEager(b) ==
    IF refcnt[b] = 0 THEN UNCHANGED <<refcnt, kernel>>
    ELSE /\ refcnt' = [refcnt EXCEPT ![b] = @ - 1]
         /\ kernel' = IF refcnt[b] <= 2 THEN kernel \cup {b} ELSE kernel

\* mm_stream_buf_done.
buf_done(b) ==
    IF refcnt[b] = 0 THEN UNCHANGED <<refcnt, kernel>>
    ELSE /\ refcnt' = [refcnt EXCEPT ![b] = @ - 1]
         /\ kernel' = IF refcnt[b] = 1 THEN kernel \cup {b} ELSE kernel

\* QCameraStream::bufDone, mm_camera_qbuf, mm_channel_qbuf and the states of
\* the stream: only ACTIVE knows MM_STREAM_EVT_QBUF.
qbuf(b) == IF state = "ACTIVE" THEN buf_done(b) ELSE UNCHANGED <<refcnt, kernel>>

-----------------------------------------------------------------------------
(* The poll thread.                                                        *)

\* A frame: mm_stream_data_notify and mm_stream_read_msm_frame.
PollDequeue(b) ==
    /\ client \in {"on", "joinHal", "streamoff"} /\ state = "ACTIVE"
    /\ dequeued \cup counted = {} /\ b \in kernel
    /\ kernel' = kernel \ {b} /\ dequeued' = {b}
    /\ UNCHANGED <<state, refcnt, counted, channel, cmdq, thread, hal, lent, client, starts>>

\* Mutant: the superbuffer is counted once more.
PollCountTwice(b) ==
    /\ b \in dequeued /\ dequeued' = {} /\ counted' = {b}
    /\ refcnt' = [refcnt EXCEPT ![b] = @ + 2 * I(Bundled) + I(HasCb)]
    /\ UNCHANGED <<state, kernel, channel, cmdq, thread, hal, lent, client, starts>>

\* The references of those it will be handed to.
PollCount(b) ==
    /\ b \in dequeued /\ dequeued' = {} /\ counted' = {b}
    /\ refcnt' = [refcnt EXCEPT ![b] = @ + I(Bundled) + I(HasCb)]
    /\ UNCHANGED <<state, kernel, channel, cmdq, thread, hal, lent, client, starts>>

\* mm_stream_handle_rcvd_buf.
PollHand(b) ==
    /\ b \in counted /\ counted' = {}
    /\ channel' = IF Bundled THEN channel \cup {b} ELSE channel
    /\ cmdq' = IF HasCb THEN cmdq \cup {b} ELSE cmdq
    /\ UNCHANGED <<state, refcnt, kernel, dequeued, thread, hal, lent, client, starts>>

\* The channel, or who it has dispatched the superbuffer to, returns it.
ChannelReturns(b) ==
    /\ b \in channel /\ channel' = channel \ {b}
    /\ qbuf(b)
    /\ UNCHANGED <<state, dequeued, counted, cmdq, thread, hal, lent, client, starts>>

-----------------------------------------------------------------------------
(* The command thread of the stream.                                       *)

cmdThreadIdle == taken \cup notified \cup finishing = {}

Take(b) ==
    /\ cmdThreadIdle /\ b \in cmdq
    /\ cmdq' = cmdq \ {b} /\ taken' = {b}
    /\ UNCHANGED <<state, refcnt, kernel, dequeued, counted, channel, notified, finishing,
                   hal, lent, client, starts>>

\* Mutant: the callback shares the reference of the thread.
DispatchActiveUncounted(b) ==
    /\ b \in taken /\ m_bActive
    /\ taken' = {} /\ notified' = {b}
    /\ UNCHANGED <<state, refcnt, kernel, dequeued, counted, channel, cmdq, finishing,
                   hal, lent, client, starts>>

\* mm_stream_dispatch_app_data counts and calls back; dataNotifyCB and the
\* test of m_bActive in processDataNotify.
DispatchActive(b) ==
    /\ b \in taken /\ m_bActive
    /\ refcnt' = [refcnt EXCEPT ![b] = @ + 1]
    /\ taken' = {} /\ notified' = {b}
    /\ UNCHANGED <<state, kernel, dequeued, counted, channel, cmdq, finishing,
                   hal, lent, client, starts>>

\* A stream that is not active gives the frame back at once: the reference
\* counted for it is gone again, and the one of the thread is left.
DispatchInactive(b) ==
    /\ b \in taken /\ ~ m_bActive
    /\ taken' = {} /\ finishing' = {b}
    /\ UNCHANGED <<state, refcnt, kernel, dequeued, counted, channel, cmdq, notified,
                   hal, lent, client, starts>>

\* Mutant: no command where frames wait already.
EnqueueCoalesced(b) ==
    /\ b \in notified
    /\ mDataQ' = mDataQ \cup {b} /\ jobs' = jobs + I(mDataQ = {})
    /\ notified' = {} /\ finishing' = {b}
    /\ UNCHANGED <<state, refcnt, kernel, dequeued, counted, channel, cmdq, taken,
                   m_bActive, lent, client, starts>>

\* The rest of processDataNotify.
Enqueue(b) ==
    /\ b \in notified
    /\ mDataQ' = mDataQ \cup {b} /\ jobs' = jobs + 1
    /\ notified' = {} /\ finishing' = {b}
    /\ UNCHANGED <<state, refcnt, kernel, dequeued, counted, channel, cmdq, taken,
                   m_bActive, lent, client, starts>>

\* The reference of has_cb, given up at the end of mm_stream_dispatch_app_data.
DispatchDone(b) ==
    /\ b \in finishing /\ finishing' = {}
    /\ buf_done(b)
    /\ UNCHANGED <<state, dequeued, counted, channel, cmdq, taken, notified,
                   hal, lent, client, starts>>

-----------------------------------------------------------------------------
(* QCameraStream::dataProcRoutine, and those it lends frames to.           *)

running == client \notin {"off", "streamoff", "joinCmd", "unreg", "bundle", "put"}

\* A job finds a frame, or nothing where a queue was flushed.
DoNextJob(b) ==
    /\ running /\ jobs > 0 /\ jobs' = jobs - 1
    /\ b \in mDataQ \/ mDataQ = {}
    /\ mDataQ' = mDataQ \ {b}
    /\ lent' = IF b \in mDataQ THEN lent \cup {b} ELSE lent
    /\ UNCHANGED <<state, refcnt, kernel, dequeued, counted, channel, cmdq, thread,
                   m_bActive, client, starts>>

\* The frame, or the one the window gives in exchange for it, is returned:
\* there is none before the stream is on.
BufDone(b) ==
    /\ client # "streamOn"
    /\ b \in lent /\ lent' = lent \ {b}
    /\ qbuf(b)
    /\ UNCHANGED <<state, dequeued, counted, channel, cmdq, thread, hal, client, starts>>

-----------------------------------------------------------------------------
(* QCameraChannel::start and stop, mm_channel_start and stop.              *)

step(from, to) == client = from /\ client' = to

\* QCameraStream::start.
HalStart ==
    /\ starts < MaxStarts /\ step("off", "getBuf")
    /\ starts' = starts + 1 /\ m_bActive' = TRUE
    /\ UNCHANGED <<state, refcnt, kernel, dequeued, counted, channel, cmdq, thread,
                   mDataQ, jobs, lent>>

\* GET_BUF: mm_stream_init_bufs.
GetBuf ==
    /\ \/ step("getBuf", "regBuf") /\ state' = "BUFFED" /\ refcnt' = none
       \/ step("getBuf", "failed") /\ UNCHANGED <<state, refcnt>>
    /\ UNCHANGED <<kernel, dequeued, counted, channel, cmdq, thread, hal, lent, starts>>

\* REG_BUF: mm_stream_reg_buf.  Buffers the window keeps are not queued; a
\* buffer the kernel refuses ends it.
RegBuf ==
    /\ \E registered \in SUBSET Buf :
         \/ /\ step("regBuf", "streamOn") /\ state' = "REG"
            /\ kernel' = registered /\ lent' = lent \cup (Buf \ registered)
            /\ refcnt' = [b \in Buf |-> I(b \notin registered)]
         \/ /\ step("regBuf", "failed")
            /\ kernel' = registered /\ UNCHANGED <<state, refcnt, lent>>
    /\ UNCHANGED <<dequeued, counted, channel, cmdq, thread, hal, starts>>

\* START: the command thread is launched and the stream is on.
StreamOn ==
    /\ \/ step("streamOn", "on") /\ state' = "ACTIVE"
       \/ step("streamOn", "failed") /\ UNCHANGED state
    /\ UNCHANGED <<refcnt, kernel, dequeued, counted, channel, cmdq, thread, hal, lent, starts>>

\* The error handling of mm_channel_start: STOP, UNREG_BUF and PUT_BUF, each
\* ignored in a state that does not know it; then QCameraStream::stop.
StartFails ==
    /\ step("failed", "failedJoin") /\ state' = "CFG" /\ m_bActive' = FALSE
    /\ IF state = "REG" THEN refcnt' = none /\ kernel' = {} ELSE UNCHANGED <<refcnt, kernel>>
    /\ lent' = {}
    /\ UNCHANGED <<dequeued, counted, channel, cmdq, thread, mDataQ, jobs, starts>>

\* QCameraStream::stop, up to the join.
HalStop ==
    /\ step("on", "joinHal") /\ m_bActive' = FALSE
    /\ Preemption \/ notified = {}
    /\ UNCHANGED <<state, refcnt, kernel, dequeued, counted, channel, cmdq, thread,
                   mDataQ, jobs, lent, starts>>

\* Mutant: the frames stay in their queue.
HalExitKeepsFrames ==
    /\ step("joinHal", "streamoff") \/ step("failedJoin", "off")
    /\ UNCHANGED <<state, refcnt, kernel, dequeued, counted, channel, cmdq, thread,
                   hal, lent, starts>>

\* EXIT goes ahead of the jobs, which stay in their queue; the frames do not.
HalExit ==
    /\ step("joinHal", "streamoff") \/ step("failedJoin", "off")
    /\ mDataQ' = {}
    /\ UNCHANGED <<state, refcnt, kernel, dequeued, counted, channel, cmdq, thread,
                   m_bActive, jobs, lent, starts>>

\* STOP: mm_stream_streamoff.  The poll thread confirms that it no longer
\* watches the stream.
StreamOff ==
    /\ step("streamoff", "joinCmd") /\ dequeued \cup counted = {}
    /\ kernel' = {}
    /\ UNCHANGED <<state, refcnt, dequeued, counted, channel, cmdq, thread, hal, lent, starts>>

\* mm_camera_cmd_thread_release: the thread works its queue off and exits.
CmdExit ==
    /\ step("joinCmd", "unreg") /\ cmdThreadIdle /\ cmdq = {}
    /\ state' = "REG"
    /\ UNCHANGED <<refcnt, kernel, dequeued, counted, channel, cmdq, thread, hal, lent, starts>>

\* UNREG_BUF: mm_stream_unreg_buf.
Unreg ==
    /\ step("unreg", "bundle") /\ state' = "BUFFED"
    /\ refcnt' = none /\ kernel' = {}
    /\ UNCHANGED <<dequeued, counted, channel, cmdq, thread, hal, lent, starts>>

\* The threads and the queue of the bundle are released.
BundleStop ==
    /\ step("bundle", "put") /\ channel' = {}
    /\ UNCHANGED <<state, refcnt, kernel, dequeued, counted, cmdq, thread, hal, lent, starts>>

\* PUT_BUF: mm_stream_deinit_bufs and putBufs.  What is lent is the window's
\* again, or matches no buffer when it is returned.
Put ==
    /\ step("put", "off") /\ state' = "CFG" /\ lent' = {}
    /\ UNCHANGED <<refcnt, kernel, dequeued, counted, channel, cmdq, thread, hal, starts>>

Poll == \E b \in Buf : PollCount(b) \/ PollHand(b)
CmdThread ==
    \E b \in Buf : Take(b) \/ DispatchActive(b) \/ DispatchInactive(b) \/ Enqueue(b) \/ DispatchDone(b)
ClientGoesOn ==
    GetBuf \/ RegBuf \/ StreamOn \/ StartFails \/ HalExit \/ StreamOff \/ CmdExit
    \/ Unreg \/ BundleStop \/ Put

Next ==
    \/ \E b \in Buf : PollDequeue(b) \/ ChannelReturns(b) \/ DoNextJob(b) \/ BufDone(b)
    \/ Poll \/ CmdThread
    \/ HalStart \/ HalStop \/ ClientGoesOn

\* The threads go on, and the two queues are first in, first out: a frame
\* that waits gets its turn.  The channel and those a frame is lent to return
\* it.
Fairness ==
    /\ WF_vars(Poll) /\ WF_vars(CmdThread) /\ WF_vars(ClientGoesOn)
    /\ \A b \in Buf : /\ SF_vars(Take(b)) /\ SF_vars(DoNextJob(b))
                     /\ WF_vars(ChannelReturns(b)) /\ WF_vars(BufDone(b))

Spec == Init /\ [][Next]_vars /\ Fairness

-----------------------------------------------------------------------------
(* Properties.                                                             *)

\* The shape of the state; no buffer has more than the three references that
\* the superbuffer, the command thread and the callback can hold.
TypeOK ==
    /\ state \in {"CFG", "BUFFED", "REG", "ACTIVE"}
    /\ refcnt \in [Buf -> 0 .. 3] /\ jobs \in Nat /\ m_bActive \in BOOLEAN
    /\ \A places \in {kernel, dequeued, counted, channel, cmdq, taken, notified,
                      finishing, mDataQ, lent} : places \subseteq Buf
    /\ client \in {"off", "getBuf", "regBuf", "streamOn", "on", "failed", "failedJoin",
                   "joinHal", "streamoff", "joinCmd", "unreg", "bundle", "put"}
    /\ starts \in 0 .. MaxStarts

\* Who holds a reference of buffer b.
refs(b) ==
    I(b \in counted /\ Bundled) + I(b \in counted /\ HasCb) + I(b \in channel)
    + I(b \in cmdq \cup taken \cup notified \cup finishing)
    + I(b \in notified \cup mDataQ \cup lent)

\* While the stream is on, the count of a buffer is the number of those that
\* hold it, whichever of the five threads takes or gives up a reference; a
\* stop that drops frames leaves counts too high, never too low.
RefcntIsHolders ==
    /\ client \in {"on", "joinHal"} => \A b \in Buf : refcnt[b] = refs(b)
    /\ state = "ACTIVE" => \A b \in Buf : refcnt[b] >= refs(b)

\* The kernel never writes a frame into a buffer that somebody still reads
\* (mm_camera_stream.c:2804-2815).
NoHeldBufferInKernel == state = "ACTIVE" => \A b \in kernel : refs(b) = 0

\* Once the memory of the buffers is freed no thread has a frame left.
FreedMemoryIsUnused ==
    state = "CFG" => dequeued \cup counted \cup channel \cup cmdq \cup taken \cup notified
                     \cup finishing \cup mDataQ \cup lent \subseteq {}

\* A frame that was delivered comes back to the kernel, or its stream stops.
EveryFrameReturns ==
    \A b \in Buf : (b \in dequeued) ~> (b \in kernel \/ client \notin {"on", "joinHal"})
=============================================================================
