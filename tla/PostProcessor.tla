----------------------------- MODULE PostProcessor -----------------------------
(***************************************************************************)
(* QCameraPostProcessor: the frames of a capture on their way from the     *)
(* capture channel through reprocessing and JPEG encoding back to the      *)
(* kernel.  Frames are put into input queues by the threads of the         *)
(* channels, each with a DO_NEXT_JOB for the data processing thread, which *)
(* alone moves them on; the state machine thread starts and stops captures *)
(* and takes the events of finished JPEG jobs.                             *)
(*                                                                         *)
(* A buffer is lent to the post processor until it is returned with        *)
(* bufDone or freed with its channel.  The encoder, the reprocess stream   *)
(* and the notifier are external: they finish what they were given.        *)
(***************************************************************************)
EXTENDS Naturals, Sequences, FiniteSets, SequencesExt

CONSTANTS
  Frame,           \* buffers of the capture channel
  ReprocFrame,     \* buffers of the reprocess channel
  Format,          \* picture formats used: what a frame is put through
  Burst,           \* frames a capture is given
  MaxCaptures,     \* bound: captures started
  Circumstances    \* what may happen besides, of the set below

AllFormats == {"jpeg", "reprocess", "nv16", "raw"}

AllCircumstances ==
  {"startFails",     \* the reprocess channel cannot be added or started
   "encodeFails",    \* encodeData returns an error
   "reprocessFails", \* doReprocess returns an error
   "formatChanges",  \* SET_PARAMS during the capture
   "lateEvents",     \* a capture starts before the events of the last one are handled
   "earlyStop",      \* a capture is stopped before its START was taken
   "muted"}          \* the client disables CAMERA_MSG_COMPRESSED_IMAGE

ASSUME PostProcessorAssumption ==
  /\ Frame \cap ReprocFrame = {}
  /\ Format \subseteq AllFormats
  /\ Burst \in Nat /\ MaxCaptures \in Nat
  /\ Circumstances \subseteq AllCircumstances

VARIABLES
  cmd_queue,       \* commands of the data processing thread
  is_active,       \* its local flag
  m_inputPPQ, m_ongoingPPQ, m_inputRawQ,     \* queues of buffers
  m_inputJpegQ, m_ongoingJpegQ,              \* queues of JPEG jobs
  m_pReprocChannel,                          \* is there a reprocess channel?
  dataProc,        \* the data processing thread: "idle", "encode", "rest", "stop"
  jpegJob,         \* the job it is encoding
  machine,         \* the state machine thread: "free", "stopping", "stopped"
  capturing,       \* is the machine in a state that takes pictures?
  format,          \* the format the parameters hold
  channelOn,       \* does the capture channel stream?
  owed,            \* DO_NEXT_JOBs a channel's thread still has to send
  reprocessing,    \* reprocess requests under way
  encoder,         \* JPEG jobs under way
  jpegEvts,        \* the machine's queue of JPEG events, by job id
  notifying,       \* raw buffers the notifier holds
  unwanted,        \* raw buffers nobody returns before their channel is deleted
  lent,            \* buffers out of the kernel's hands
  returnedTwice,   \* history: buffers returned that were not lent
  failed,          \* history: did an encoding fail in this capture?
  captures,        \* captures started
  delivered,       \* frames of the capture delivered
  jobs             \* JPEG jobs started

queues == <<m_inputPPQ, m_ongoingPPQ, m_inputRawQ, m_inputJpegQ, m_ongoingJpegQ>>
history == <<failed, captures, delivered, jobs>>
vars == <<cmd_queue, is_active, queues, m_pReprocChannel, dataProc, jpegJob, machine,
          capturing, format, channelOn, owed, reprocessing, encoder, jpegEvts,
          notifying, unwanted, lent, returnedTwice, history>>

Buffer == Frame \cup ReprocFrame

\* The capture channel's thread and the reprocess channel's.
Producer == {"capture", "reprocess"}

\* A job holds its frame and, if that was reprocessed, the source; id 0 until started.
Job == [id : Nat, bufs : SUBSET Buffer]
NoJob == [id |-> 0, bufs |-> {}]

bufsOf(jobSet) == UNION {job.bufs : job \in jobSet}

\* What a queue is left with when its head, if any, is taken.
rest(queue) == IF queue = <<>> THEN <<>> ELSE Tail(queue)
first(queue) == IF queue = <<>> THEN {} ELSE {Head(queue)}

\* releaseSuperBuf, releaseJpegJobData: bufDone for every buffer of the frame.
release(bufs) ==
  /\ lent' = lent \ bufs
  /\ returnedTwice' = returnedTwice \cup (bufs \ lent)
keep == UNCHANGED <<lent, returnedTwice>>

Init ==
  /\ cmd_queue = <<>> /\ is_active = FALSE
  /\ m_inputPPQ = <<>> /\ m_ongoingPPQ = <<>> /\ m_inputRawQ = <<>>
  /\ m_inputJpegQ = <<>> /\ m_ongoingJpegQ = <<>>
  /\ m_pReprocChannel = FALSE
  /\ dataProc = "idle" /\ jpegJob = NoJob
  /\ machine = "free" /\ capturing = FALSE /\ format \in Format
  /\ channelOn = FALSE /\ owed = [p \in Producer |-> 0]
  /\ reprocessing = 0 /\ encoder = {} /\ jpegEvts = <<>> /\ notifying = {}
  /\ unwanted = {} /\ lent = {} /\ returnedTwice = {}
  /\ failed = FALSE /\ captures = 0 /\ delivered = 0 /\ jobs = 0

-----------------------------------------------------------------------------
(* The state machine thread.                                                *)

\* start, from takePicture, which ignores a reprocess channel that failed and
\* starts the capture channel in any case.
start ==
  /\ machine = "free" /\ ~capturing /\ captures < MaxCaptures
  /\ jpegEvts = <<>> \/ "lateEvents" \in Circumstances
  /\ \E fails \in {FALSE} \cup {"startFails" \in Circumstances /\ format = "reprocess"} :
       /\ m_pReprocChannel' = IF format = "reprocess" THEN ~fails ELSE m_pReprocChannel
       /\ reprocessing' = IF format = "reprocess" THEN 0 ELSE reprocessing
       /\ cmd_queue' = IF fails THEN cmd_queue ELSE Append(cmd_queue, "START_DATA_PROC")
  /\ capturing' = TRUE /\ channelOn' = TRUE
  /\ captures' = captures + 1 /\ delivered' = 0 /\ failed' = FALSE
  /\ UNCHANGED <<is_active, queues, dataProc, jpegJob, machine, format, owed, encoder,
                 jpegEvts, notifying, unwanted, jobs>>
  /\ keep

\* cancelPicture, called by the client or when the last snapshot is done: STOP goes
\* to the head of the queue and is waited for.
stop ==
  /\ machine = "free" /\ capturing
  /\ ~Contains(cmd_queue, "START_DATA_PROC") \/ "earlyStop" \in Circumstances
  /\ machine' = "stopping"
  /\ cmd_queue' = <<"STOP_DATA_PROC">> \o cmd_queue
  /\ UNCHANGED <<is_active, queues, m_pReprocChannel, dataProc, jpegJob, capturing, format,
                 channelOn, owed, reprocessing, encoder, jpegEvts, notifying, unwanted,
                 history>>
  /\ keep

\* Only then is the capture channel stopped, which waits for its thread, and deleted
\* with the buffers nobody returned.
stopCaptureChannel ==
  /\ machine = "stopped" /\ owed["capture"] = 0
  /\ unwanted' = {} /\ lent' = lent \ unwanted
  /\ machine' = "free" /\ capturing' = FALSE /\ channelOn' = FALSE
  /\ UNCHANGED <<cmd_queue, is_active, queues, m_pReprocChannel, dataProc, jpegJob, format,
                 owed, reprocessing, encoder, jpegEvts, notifying, history, returnedTwice>>

\* SET_PARAMS is accepted while a picture is taken.
setPictureFormat ==
  /\ machine = "free" /\ (capturing => "formatChanges" \in Circumstances)
  /\ format' \in Format
  /\ UNCHANGED <<cmd_queue, is_active, queues, m_pReprocChannel, dataProc, jpegJob, machine,
                 capturing, channelOn, owed, reprocessing, encoder, jpegEvts, notifying,
                 unwanted, history>>
  /\ keep

\* findJpegJobByJobId takes the head of the ongoing queue, whatever the job's id.
processJpegEvt ==
  /\ machine = "free" /\ capturing /\ jpegEvts # <<>>
  /\ jpegEvts' = Tail(jpegEvts)
  /\ release(bufsOf(first(m_ongoingJpegQ)))
  /\ m_ongoingJpegQ' = rest(m_ongoingJpegQ)
  /\ cmd_queue' = Append(cmd_queue, "DO_NEXT_JOB")
  /\ UNCHANGED <<is_active, m_inputPPQ, m_ongoingPPQ, m_inputRawQ, m_inputJpegQ,
                 m_pReprocChannel, dataProc, jpegJob, machine, capturing, format, channelOn,
                 owed, reprocessing, encoder, notifying, unwanted, history>>

\* In a state that takes no pictures the machine drops the event.
ignoreJpegEvt ==
  /\ machine = "free" /\ ~capturing /\ jpegEvts # <<>>
  /\ jpegEvts' = Tail(jpegEvts)
  /\ UNCHANGED <<cmd_queue, is_active, queues, m_pReprocChannel, dataProc, jpegJob, machine,
                 capturing, format, channelOn, owed, reprocessing, encoder, notifying,
                 unwanted, history>>
  /\ keep

-----------------------------------------------------------------------------
(* The channels' threads.                                                   *)

\* processData and processRawData: a frame of the capture channel.
processData(frame) ==
  /\ channelOn /\ owed["capture"] = 0 /\ delivered < Burst /\ frame \notin lent
  /\ delivered' = delivered + 1
  /\ lent' = lent \cup {frame}
  /\ m_inputPPQ' = IF format = "reprocess" THEN Append(m_inputPPQ, frame) ELSE m_inputPPQ
  /\ m_inputJpegQ' = IF format = "jpeg"
                     THEN Append(m_inputJpegQ, [id |-> 0, bufs |-> {frame}])
                     ELSE m_inputJpegQ
  /\ m_inputRawQ' = IF format \in {"nv16", "raw"} THEN Append(m_inputRawQ, frame)
                    ELSE m_inputRawQ
  /\ owed' = [owed EXCEPT !["capture"] = IF format = "nv16" THEN 2 ELSE 1]
  /\ UNCHANGED <<cmd_queue, is_active, m_ongoingPPQ, m_ongoingJpegQ, m_pReprocChannel,
                 dataProc, jpegJob, machine, capturing, format, channelOn, reprocessing,
                 encoder, jpegEvts, notifying, unwanted, returnedTwice, failed, captures,
                 jobs>>

\* Mutant: a reprocessed frame is put back where it came from.
processPPDataAgain(frame) ==
  /\ reprocessing > 0 /\ owed["reprocess"] = 0 /\ frame \notin lent
  /\ reprocessing' = reprocessing - 1
  /\ m_ongoingPPQ' = rest(m_ongoingPPQ)
  /\ m_inputPPQ' = Append(m_inputPPQ, frame)
  /\ lent' = (lent \cup {frame}) \ first(m_ongoingPPQ)
  /\ owed' = [owed EXCEPT !["reprocess"] = 1]
  /\ UNCHANGED <<cmd_queue, is_active, m_inputRawQ, m_inputJpegQ, m_ongoingJpegQ,
                 m_pReprocChannel, dataProc, jpegJob, machine, capturing, format, channelOn,
                 encoder, jpegEvts, notifying, unwanted, history, returnedTwice>>

\* processPPData: a frame of the reprocess channel, for the oldest ongoing job.
\* Without one the frame is dropped and not returned.
processPPData(frame) ==
  /\ reprocessing > 0 /\ owed["reprocess"] = 0 /\ frame \notin lent
  /\ reprocessing' = reprocessing - 1
  /\ LET sources == first(m_ongoingPPQ) IN
     /\ m_ongoingPPQ' = rest(m_ongoingPPQ)
     /\ IF sources = {} \/ format # "nv16"
        THEN lent' = lent \cup {frame} /\ UNCHANGED returnedTwice
        ELSE /\ lent' = (lent \cup {frame}) \ sources
             /\ returnedTwice' = returnedTwice \cup (sources \ lent)
     /\ m_inputRawQ' = IF sources # {} /\ format = "nv16"
                       THEN Append(m_inputRawQ, frame) ELSE m_inputRawQ
     /\ m_inputJpegQ' = IF sources # {} /\ format # "nv16"
                        THEN Append(m_inputJpegQ, [id |-> 0, bufs |-> {frame} \cup sources])
                        ELSE m_inputJpegQ
     /\ owed' = [owed EXCEPT !["reprocess"] = Cardinality(sources)]
  /\ UNCHANGED <<cmd_queue, is_active, m_inputPPQ, m_ongoingJpegQ, m_pReprocChannel,
                 dataProc, jpegJob, machine, capturing, format, channelOn, encoder,
                 jpegEvts, notifying, unwanted, history>>

\* The DO_NEXT_JOB that follows.
sendNextJob(producer) ==
  /\ owed[producer] > 0
  /\ owed' = [owed EXCEPT ![producer] = @ - 1]
  /\ cmd_queue' = Append(cmd_queue, "DO_NEXT_JOB")
  /\ UNCHANGED <<is_active, queues, m_pReprocChannel, dataProc, jpegJob, machine, capturing,
                 format, channelOn, reprocessing, encoder, jpegEvts, notifying, unwanted,
                 history>>
  /\ keep

-----------------------------------------------------------------------------
(* dataProcessRoutine.                                                      *)

getCmd(cmd) ==
  /\ dataProc = "idle" /\ cmd_queue # <<>> /\ Head(cmd_queue) = cmd
  /\ cmd_queue' = Tail(cmd_queue)
  /\ UNCHANGED <<capturing, format, channelOn, owed, jpegEvts, notifying, unwanted,
                 history>>

CmdStart ==
  /\ getCmd("START_DATA_PROC")
  /\ is_active' = TRUE
  /\ UNCHANGED <<queues, m_pReprocChannel, dataProc, jpegJob, machine, reprocessing,
                 encoder>>
  /\ keep

\* Mutant: the job is released and not aborted.
CmdStopNoAbort ==
  /\ getCmd("STOP_DATA_PROC")
  /\ is_active' = FALSE
  /\ release(bufsOf(Range(m_ongoingJpegQ)))
  /\ m_ongoingJpegQ' = <<>>
  /\ dataProc' = "stop"
  /\ UNCHANGED <<m_inputPPQ, m_ongoingPPQ, m_inputRawQ, m_inputJpegQ, m_pReprocChannel,
                 jpegJob, machine, reprocessing, encoder>>

\* The ongoing JPEG jobs are aborted and released and the session is destroyed; then
\* the reprocess channel is stopped.
CmdStop ==
  /\ getCmd("STOP_DATA_PROC")
  /\ is_active' = FALSE
  /\ encoder' = {}
  /\ release(bufsOf(Range(m_ongoingJpegQ)))
  /\ m_ongoingJpegQ' = <<>>
  /\ dataProc' = "stop"
  /\ UNCHANGED <<m_inputPPQ, m_ongoingPPQ, m_inputRawQ, m_inputJpegQ, m_pReprocChannel,
                 jpegJob, machine, reprocessing>>

\* Mutant: the ongoing reprocess jobs are forgotten instead of released.
CmdStopFlushForgets ==
  /\ dataProc = "stop" /\ owed["reprocess"] = 0
  /\ dataProc' = "idle"
  /\ m_pReprocChannel' = FALSE /\ reprocessing' = 0
  /\ release(bufsOf(Range(m_inputJpegQ))
               \cup Range(m_inputPPQ) \cup Range(m_inputRawQ))
  /\ m_ongoingPPQ' = <<>> /\ m_inputJpegQ' = <<>>
  /\ m_inputPPQ' = <<>> /\ m_inputRawQ' = <<>>
  /\ machine' = "stopped"
  /\ UNCHANGED <<cmd_queue, is_active, m_ongoingJpegQ, jpegJob, capturing, format,
                 channelOn, owed, encoder, jpegEvts, notifying, unwanted, history>>

\* Stopping the channel waits for its thread; the queues are flushed and the caller
\* of stop is woken.
CmdStopFlush ==
  /\ dataProc = "stop" /\ owed["reprocess"] = 0
  /\ dataProc' = "idle"
  /\ m_pReprocChannel' = FALSE /\ reprocessing' = 0
  /\ release(Range(m_ongoingPPQ) \cup bufsOf(Range(m_inputJpegQ))
               \cup Range(m_inputPPQ) \cup Range(m_inputRawQ))
  /\ m_ongoingPPQ' = <<>> /\ m_inputJpegQ' = <<>>
  /\ m_inputPPQ' = <<>> /\ m_inputRawQ' = <<>>
  /\ machine' = "stopped"
  /\ UNCHANGED <<cmd_queue, is_active, m_ongoingJpegQ, jpegJob, capturing, format,
                 channelOn, owed, encoder, jpegEvts, notifying, unwanted, history>>

\* Mutant: while inactive the thread does nothing.
CmdNextJobIgnored ==
  /\ ~is_active /\ getCmd("DO_NEXT_JOB")
  /\ UNCHANGED <<is_active, queues, m_pReprocChannel, dataProc, jpegJob, machine,
                 reprocessing, encoder>>
  /\ keep

\* While inactive, one frame of each input queue is returned.
CmdNextJobInactive ==
  /\ ~is_active /\ getCmd("DO_NEXT_JOB")
  /\ release(bufsOf(first(m_inputJpegQ))
             \cup first(m_inputRawQ) \cup first(m_inputPPQ))
  /\ m_inputJpegQ' = rest(m_inputJpegQ)
  /\ m_inputRawQ' = rest(m_inputRawQ)
  /\ m_inputPPQ' = rest(m_inputPPQ)
  /\ UNCHANGED <<is_active, m_ongoingPPQ, m_ongoingJpegQ, m_pReprocChannel, dataProc,
                 jpegJob, machine, reprocessing, encoder>>

\* Mutant: a JPEG job is taken although one is ongoing.
CmdNextJobBusy ==
  /\ is_active /\ getCmd("DO_NEXT_JOB")
  /\ IF m_inputJpegQ # <<>>
     THEN /\ m_ongoingJpegQ' = Append(m_ongoingJpegQ, Head(m_inputJpegQ))
          /\ jpegJob' = Head(m_inputJpegQ)
          /\ m_inputJpegQ' = Tail(m_inputJpegQ)
          /\ dataProc' = "encode"
     ELSE dataProc' = "rest" /\ UNCHANGED <<m_ongoingJpegQ, jpegJob, m_inputJpegQ>>
  /\ UNCHANGED <<is_active, m_inputPPQ, m_ongoingPPQ, m_inputRawQ, m_pReprocChannel,
                 machine, reprocessing, encoder>>
  /\ keep

\* A JPEG job is taken when none is ongoing.
CmdNextJob ==
  /\ is_active /\ getCmd("DO_NEXT_JOB")
  /\ IF m_ongoingJpegQ = <<>> /\ m_inputJpegQ # <<>>
     THEN /\ m_ongoingJpegQ' = <<Head(m_inputJpegQ)>>
          /\ jpegJob' = Head(m_inputJpegQ)
          /\ m_inputJpegQ' = Tail(m_inputJpegQ)
          /\ dataProc' = "encode"
     ELSE dataProc' = "rest" /\ UNCHANGED <<m_ongoingJpegQ, jpegJob, m_inputJpegQ>>
  /\ UNCHANGED <<is_active, m_inputPPQ, m_ongoingPPQ, m_inputRawQ, m_pReprocChannel,
                 machine, reprocessing, encoder>>
  /\ keep

\* encodeData hands the job to the encoder and notes its id.
encodeData ==
  /\ dataProc = "encode"
  /\ dataProc' = "rest" /\ jpegJob' = NoJob
  /\ jobs' = jobs + 1
  /\ LET started == [jpegJob EXCEPT !.id = jobs + 1] IN
     /\ encoder' = encoder \cup {started}
     /\ m_ongoingJpegQ' = [i \in DOMAIN m_ongoingJpegQ |-> started]
  /\ UNCHANGED <<cmd_queue, is_active, m_inputPPQ, m_ongoingPPQ, m_inputRawQ, m_inputJpegQ,
                 m_pReprocChannel, machine, capturing, format, channelOn, owed,
                 reprocessing, jpegEvts, notifying, unwanted, failed, captures, delivered>>
  /\ keep

\* Mutant: the job that failed is released and stays in the queue.
encodeDataFailsKeeps ==
  /\ dataProc = "encode" /\ "encodeFails" \in Circumstances
  /\ dataProc' = "rest" /\ jpegJob' = NoJob
  /\ failed' = TRUE
  /\ release(jpegJob.bufs)
  /\ UNCHANGED <<cmd_queue, is_active, m_inputPPQ, m_ongoingPPQ, m_inputRawQ, m_inputJpegQ,
                 m_ongoingJpegQ, m_pReprocChannel, machine, capturing, format, channelOn,
                 owed, reprocessing, encoder, jpegEvts, notifying, unwanted, captures,
                 delivered, jobs>>

\* It fails: the job is taken off the end of the queue and released, whether it was
\* still there or not.  Nothing makes the thread look for the next one.
encodeDataFails ==
  /\ dataProc = "encode" /\ "encodeFails" \in Circumstances
  /\ dataProc' = "rest" /\ jpegJob' = NoJob
  /\ failed' = TRUE
  /\ release(jpegJob.bufs)
  /\ m_ongoingJpegQ' = IF m_ongoingJpegQ = <<>> THEN <<>> ELSE Front(m_ongoingJpegQ)
  /\ UNCHANGED <<cmd_queue, is_active, m_inputPPQ, m_ongoingPPQ, m_inputRawQ, m_inputJpegQ,
                 m_pReprocChannel, machine, capturing, format, channelOn, owed,
                 reprocessing, encoder, jpegEvts, notifying, unwanted, captures, delivered,
                 jobs>>

\* processRawImageImpl: a frame goes to the notifier, or is released after an error, or
\* neither when the client does not want the message.  It does not look for the
\* reprocess channel, so a frame of that is an error.
rawOutcomes(bufs) ==
  LET sound == bufs \cap Frame
      ignored == IF "muted" \in Circumstances THEN {{}, sound} ELSE {{}}
  IN  {[sent |-> sound \ i, unwanted |-> i, released |-> bufs \ Frame] : i \in ignored}

\* What doReprocess accepts; without a reprocess channel it is not called.
reprocessOutcomes(bufs) ==
  {IF m_pReprocChannel THEN bufs ELSE {}}
    \cup (IF "reprocessFails" \in Circumstances THEN {{}} ELSE {})

\* The same DO_NEXT_JOB goes on with one raw frame and one frame to reprocess.
processRawAndReprocess ==
  /\ dataProc = "rest" /\ dataProc' = "idle"
  /\ m_inputRawQ' = rest(m_inputRawQ) /\ m_inputPPQ' = rest(m_inputPPQ)
  /\ \E outcome \in rawOutcomes(first(m_inputRawQ)),
        sent \in reprocessOutcomes(first(m_inputPPQ)) :
       /\ notifying' = notifying \cup outcome.sent
       /\ unwanted' = unwanted \cup outcome.unwanted
       /\ release(outcome.released \cup (first(m_inputPPQ) \ sent))
       /\ m_ongoingPPQ' = m_ongoingPPQ \o SetToSeq(sent)
       /\ reprocessing' = reprocessing + Cardinality(sent)
  /\ UNCHANGED <<cmd_queue, is_active, m_inputJpegQ, m_ongoingJpegQ, m_pReprocChannel,
                 jpegJob, machine, capturing, format, channelOn, owed, encoder, jpegEvts,
                 history>>

dataProcessRoutine ==
  \/ CmdStart \/ CmdStop \/ CmdStopFlush \/ CmdNextJobInactive \/ CmdNextJob
  \/ encodeData \/ encodeDataFails \/ processRawAndReprocess

-----------------------------------------------------------------------------
(* The encoder finishes a job and jpegEvtHandle posts its event; the        *)
(* notifier's thread returns a raw frame, delivered or flushed.             *)

jpegEvtHandle(job) ==
  /\ job \in encoder
  /\ encoder' = encoder \ {job}
  /\ jpegEvts' = Append(jpegEvts, job.id)
  /\ UNCHANGED <<cmd_queue, is_active, queues, m_pReprocChannel, dataProc, jpegJob, machine,
                 capturing, format, channelOn, owed, reprocessing, notifying, unwanted,
                 history>>
  /\ keep

releaseNotifyData(buf) ==
  /\ buf \in notifying
  /\ notifying' = notifying \ {buf}
  /\ release({buf})
  /\ UNCHANGED <<cmd_queue, is_active, queues, m_pReprocChannel, dataProc, jpegJob, machine,
                 capturing, format, channelOn, owed, reprocessing, encoder, jpegEvts,
                 unwanted, history>>

encoderStep == \E job \in encoder : jpegEvtHandle(job)
notifierStep == \E buf \in notifying : releaseNotifyData(buf)
reprocessStep == \E frame \in ReprocFrame : processPPData(frame)
machineStep == stopCaptureChannel \/ processJpegEvt \/ ignoreJpegEvt

Next ==
  \/ start \/ stop \/ setPictureFormat \/ machineStep
  \/ \E frame \in Frame : processData(frame)
  \/ reprocessStep
  \/ \E producer \in Producer : sendNextJob(producer)
  \/ dataProcessRoutine
  \/ encoderStep \/ notifierStep

\* Threads run, and the encoder, the reprocess stream and the notifier finish what
\* they hold.  Nobody has to stop a capture.
Fairness ==
  /\ WF_vars(machineStep)
  /\ WF_vars(dataProcessRoutine)
  /\ \A producer \in Producer : WF_vars(sendNextJob(producer))
  /\ WF_vars(encoderStep) /\ WF_vars(notifierStep) /\ WF_vars(reprocessStep)

Spec == Init /\ [][Next]_vars /\ Fairness

-----------------------------------------------------------------------------
(* Properties.                                                              *)

TypeOK ==
  /\ cmd_queue \in Seq({"START_DATA_PROC", "STOP_DATA_PROC", "DO_NEXT_JOB"})
  /\ is_active \in BOOLEAN /\ m_pReprocChannel \in BOOLEAN
  /\ m_inputPPQ \in Seq(Frame) /\ m_ongoingPPQ \in Seq(Frame)
  /\ m_inputRawQ \in Seq(Buffer)
  /\ m_inputJpegQ \in Seq(Job) /\ m_ongoingJpegQ \in Seq(Job)
  /\ dataProc \in {"idle", "encode", "rest", "stop"} /\ jpegJob \in Job
  /\ machine \in {"free", "stopping", "stopped"}
  /\ capturing \in BOOLEAN /\ channelOn \in BOOLEAN /\ format \in Format
  /\ owed \in [Producer -> 0..2] /\ reprocessing \in Nat
  /\ encoder \subseteq Job /\ jpegEvts \in Seq(Nat)
  /\ notifying \subseteq Frame /\ unwanted \subseteq Frame
  /\ lent \subseteq Buffer /\ returnedTwice \subseteq Buffer
  /\ failed \in BOOLEAN /\ captures \in 0..MaxCaptures /\ delivered \in 0..Burst
  /\ jobs \in Nat

Held ==
  Range(m_inputPPQ) \cup Range(m_ongoingPPQ) \cup Range(m_inputRawQ)
    \cup bufsOf(Range(m_inputJpegQ)) \cup bufsOf(Range(m_ongoingJpegQ)) \cup notifying

\* No buffer is lost: one that was lent is in a queue or with the notifier, whichever
\* thread moves it and however a step fails; but for a raw frame of a client that does
\* not want it.
EveryLentBufferIsHeld == lent = Held \cup unwanted

\* No buffer is given back to the kernel a second time while the kernel has it: a stop,
\* a failure and an event never release the same frame.
NoneReturnedTwice == returnedTwice = {}

\* The encoder, and encodeData on the way to it, work on a job whose frames are held:
\* nobody took the job off the ongoing queue and returned them to the kernel.
EncoderReadsHeldFrames ==
  /\ encoder \subseteq Range(m_ongoingJpegQ)
  /\ dataProc = "encode" => m_ongoingJpegQ = <<jpegJob>>

\* There is one output buffer, allocated anew by encodeData for a new session: while a
\* picture in it waits for its event to be handled, no other job is encoded.
OutputBufferUndisturbed ==
  /\ Cardinality(encoder) <= 1
  /\ encoder # {} \/ dataProc = "encode" => jpegEvts = <<>>

\* Every buffer lent comes back without anybody stopping the capture, unless an
\* encoding failed, which may leave the jobs behind it waiting for the stop, or the
\* client did not want it.
BuffersComeBack ==
  \A buf \in Buffer :
    (buf \in lent /\ ~failed) ~> (buf \notin lent \/ failed \/ buf \in unwanted)
=============================================================================
