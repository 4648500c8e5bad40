------------------------------ MODULE CbNotifier ------------------------------
(***************************************************************************)
(* QCameraCbNotifier: the thread that delivers callbacks to the client and *)
(* counts the snapshots of a capture.  Data wait in mDataQ, and every      *)
(* datum enqueued is followed by a DO_NEXT_JOB command; START, STOP and    *)
(* EXIT are put at the head of the command queue.                          *)
(*                                                                         *)
(* The state machine thread starts and stops captures, and produces their  *)
(* snapshots when they are encoded (JPEG events are handled by it); raw     *)
(* snapshots come from the data processing thread of the post processor,   *)
(* and any thread produces other notifications.                            *)
(***************************************************************************)
EXTENDS Naturals, Sequences, FiniteSets, SequencesExt

CONSTANTS
  NumSnapshots,    \* what numOfSnapshotsExpected returns
  MaxCaptures,     \* bound: captures started
  MaxNotify        \* bound: notifications sent by other threads

ASSUME NotifierAssumption ==
  NumSnapshots \in Nat \ {0} /\ MaxCaptures \in Nat /\ MaxNotify \in Nat

VARIABLES
  cmd_queue,       \* commands not yet taken
  mDataQ,          \* data not yet delivered: the capture of a snapshot, 0 for a notification
  mActive,         \* are callbacks accepted?
  thread,          \* "ready", "done" (blocked in processSyncEvt), or "exited"
  isSnapshotActive,
  numOfSnapshotRcvd,
  unsent,          \* threads that enqueued a datum and have not sent its command
  machine,         \* "free", or waiting for the post processor to stop a capture that was
                   \* cancelled ("cancel") or is done ("done")
  rawJob,          \* is the data processing thread at a raw snapshot?
  capture,         \* the capture the post processor is started for, 0 for none
  captures,        \* captures started
  rawCaptures,     \* those that take raw pictures
  produced,        \* snapshots of the capture enqueued
  notified,        \* notifications enqueued
  counted,         \* history: the captures whose snapshots are in numOfSnapshotRcvd
  overtaken,       \* history: captures whose START went ahead of a STOP not yet taken
  unheard          \* history: captures with a snapshot the client had disabled

vars == <<cmd_queue, mDataQ, mActive, thread, isSnapshotActive, numOfSnapshotRcvd,
          unsent, machine, rawJob, capture, captures, rawCaptures, produced,
          notified, counted, overtaken, unheard>>

threadVars == <<thread, isSnapshotActive, numOfSnapshotRcvd, counted, unheard>>
machineVars == <<machine, capture, captures, rawCaptures, overtaken>>

Thread == {"machine", "dataproc", "other"}

Command == {"START_DATA_PROC", "STOP_DATA_PROC", "DO_NEXT_JOB", "EXIT"}

Init ==
  /\ cmd_queue = <<>> /\ mDataQ = <<>>
  /\ mActive = TRUE
  /\ thread = "ready"
  /\ isSnapshotActive = FALSE /\ numOfSnapshotRcvd = 0
  /\ unsent = {}
  /\ machine = "free" /\ rawJob = FALSE
  /\ capture = 0 /\ captures = 0 /\ rawCaptures = {} /\ produced = 0 /\ notified = 0
  /\ counted = {} /\ overtaken = {} /\ unheard = {}

\* sendCmd without waiting; a command with priority goes to the head.
sendCmd(cmd, priority) ==
  cmd_queue' = IF priority THEN <<cmd>> \o cmd_queue ELSE Append(cmd_queue, cmd)

-----------------------------------------------------------------------------
(* The state machine thread.                                                *)

\* Mutant: the machine handles nothing more once the notifier is closed.
machineFreeWhileActive == mActive /\ machine = "free" /\ "machine" \notin unsent

\* The machine thread is between two events.
machineFree == machine = "free" /\ "machine" \notin unsent

\* The post processor's start, with pictures of either kind.
startSnapshots ==
  /\ machineFree /\ mActive /\ capture = 0 /\ captures < MaxCaptures
  /\ captures' = captures + 1
  /\ capture' = captures + 1
  /\ produced' = 0
  /\ rawCaptures' \in {rawCaptures, rawCaptures \cup {captures + 1}}
  /\ overtaken' = IF Contains(cmd_queue, "STOP_DATA_PROC")
                  THEN overtaken \cup {captures + 1} ELSE overtaken
  /\ sendCmd("START_DATA_PROC", TRUE)
  /\ UNCHANGED <<mDataQ, mActive, unsent, machine, rawJob, notified>>
  /\ UNCHANGED threadVars

\* The post processor's stop: STOP is sent to the notifier, then the data
\* processing thread is stopped and waited for.
stopSnapshots(why) ==
  /\ machine' = why
  /\ sendCmd("STOP_DATA_PROC", TRUE)
  /\ UNCHANGED <<capture, captures, rawCaptures, overtaken>>

cancelPicture ==
  /\ machineFree /\ mActive /\ capture # 0
  /\ stopSnapshots("cancel")
  /\ UNCHANGED <<mDataQ, mActive, unsent, rawJob, produced, notified>>
  /\ UNCHANGED threadVars

\* SNAPSHOT_DONE ends the capture the machine is in, if any, before the notifier
\* is released to deliver the snapshot it holds.
snapshotDone ==
  /\ machineFree /\ thread = "done"
  /\ IF capture # 0
     THEN stopSnapshots("done") /\ UNCHANGED thread
     ELSE thread' = "ready" /\ UNCHANGED <<cmd_queue, machineVars>>
  /\ UNCHANGED <<mDataQ, mActive, isSnapshotActive, numOfSnapshotRcvd, counted,
                 unheard, unsent, rawJob, produced, notified>>

\* The data processing thread takes STOP when it is through with its job.
dataProcStopped ==
  /\ machine # "free" /\ ~rawJob
  /\ machine' = "free"
  /\ capture' = 0
  /\ thread' = IF machine = "done" THEN "ready" ELSE thread
  /\ UNCHANGED <<cmd_queue, mDataQ, mActive, isSnapshotActive, numOfSnapshotRcvd, counted,
                 unheard, unsent, rawJob, captures, rawCaptures, overtaken, produced, notified>>

-----------------------------------------------------------------------------
(* notifyCallback: enqueue the datum, then send the command.                *)

enqueueData(producer, datum) ==
  /\ mActive /\ producer \notin unsent
  /\ mDataQ' = Append(mDataQ, datum)
  /\ unsent' = unsent \cup {producer}
  /\ UNCHANGED <<cmd_queue, mActive, rawJob>>
  /\ UNCHANGED threadVars /\ UNCHANGED machineVars

\* Mutant: one picture too many.
notifySnapshotOnceMore ==
  /\ machineFree /\ capture # 0 /\ capture \notin rawCaptures
  /\ produced <= NumSnapshots
  /\ produced' = produced + 1
  /\ enqueueData("machine", capture)
  /\ UNCHANGED notified

\* The machine thread handles the event of an encoded snapshot.
notifySnapshot ==
  /\ machineFree /\ capture # 0 /\ capture \notin rawCaptures
  /\ produced < NumSnapshots
  /\ produced' = produced + 1
  /\ enqueueData("machine", capture)
  /\ UNCHANGED notified

\* The data processing thread takes a raw frame; STOP does not interrupt it.
processRawImage ==
  /\ capture \in rawCaptures /\ machine = "free"
  /\ ~rawJob /\ produced < NumSnapshots
  /\ rawJob' = TRUE
  /\ UNCHANGED <<cmd_queue, mDataQ, mActive, unsent, produced, notified>>
  /\ UNCHANGED threadVars /\ UNCHANGED machineVars

notifyRaw ==
  /\ rawJob /\ produced < NumSnapshots
  /\ produced' = produced + 1
  /\ enqueueData("dataproc", capture)
  /\ UNCHANGED notified

\* notifyCallback refuses data once the notifier is closed.
notifyRawRefused ==
  /\ rawJob /\ "dataproc" \notin unsent /\ ~mActive
  /\ rawJob' = FALSE
  /\ UNCHANGED <<cmd_queue, mDataQ, mActive, unsent, produced, notified>>
  /\ UNCHANGED threadVars /\ UNCHANGED machineVars

notifyOther ==
  /\ notified < MaxNotify
  /\ notified' = notified + 1
  /\ enqueueData("other", 0)
  /\ UNCHANGED produced

sendNextJob(producer) ==
  /\ producer \in unsent
  /\ unsent' = unsent \ {producer}
  /\ rawJob' = (rawJob /\ producer # "dataproc")
  /\ sendCmd("DO_NEXT_JOB", FALSE)
  /\ UNCHANGED <<mDataQ, mActive, produced, notified>>
  /\ UNCHANGED threadVars /\ UNCHANGED machineVars

\* closeCamera, from the thread that closes the device.
exit ==
  /\ mActive
  /\ mActive' = FALSE
  /\ sendCmd("EXIT", TRUE)
  /\ UNCHANGED <<mDataQ, unsent, rawJob, produced, notified>>
  /\ UNCHANGED threadVars /\ UNCHANGED machineVars

-----------------------------------------------------------------------------
(* cbNotifyRoutine.                                                         *)

getCmd(cmd) ==
  /\ thread = "ready" /\ cmd_queue # <<>> /\ Head(cmd_queue) = cmd
  /\ cmd_queue' = Tail(cmd_queue)
  /\ UNCHANGED <<mActive, unsent, rawJob, produced, notified>> /\ UNCHANGED machineVars

CmdStart ==
  /\ getCmd("START_DATA_PROC")
  /\ isSnapshotActive' = TRUE
  /\ numOfSnapshotRcvd' = 0 /\ counted' = {}
  /\ UNCHANGED <<mDataQ, thread, unheard>>

\* Mutant: STOP resets the count and leaves the snapshots in the queue.
CmdStopNoFlush ==
  /\ getCmd("STOP_DATA_PROC")
  /\ isSnapshotActive' = FALSE
  /\ numOfSnapshotRcvd' = 0 /\ counted' = {}
  /\ UNCHANGED <<mDataQ, thread, unheard>>

\* matchSnapshotNotifications picks the snapshots, of whichever capture: what stays in
\* the queue q are its notifications, which are all alike.
flushSnapshots(q) == [i \in 1 .. Cardinality({j \in DOMAIN q : q[j] = 0}) |-> 0]

CmdStop ==
  /\ getCmd("STOP_DATA_PROC")
  /\ mDataQ' = flushSnapshots(mDataQ)
  /\ isSnapshotActive' = FALSE
  /\ numOfSnapshotRcvd' = 0 /\ counted' = {}
  /\ UNCHANGED <<thread, unheard>>

\* Mutants: the count is compared one too early, or one too late.
lastExpectedEarly(rcvd) == rcvd + 1 = NumSnapshots
lastExpectedLate(rcvd) == rcvd = NumSnapshots + 1

lastExpected(rcvd) == rcvd = NumSnapshots

\* A snapshot counts when its message is enabled and a capture is active; the last one
\* expected makes the thread post SNAPSHOT_DONE and wait.
CmdNextJob ==
  /\ getCmd("DO_NEXT_JOB")
  /\ IF mDataQ = <<>>
     THEN UNCHANGED <<mDataQ, threadVars>>
     ELSE /\ mDataQ' = Tail(mDataQ)
          /\ \E enabled \in BOOLEAN :
               /\ unheard' = IF enabled \/ Head(mDataQ) = 0 THEN unheard
                             ELSE unheard \cup {Head(mDataQ)}
               /\ IF enabled /\ Head(mDataQ) # 0 /\ isSnapshotActive
                  THEN /\ numOfSnapshotRcvd' = numOfSnapshotRcvd + 1
                       /\ counted' = counted \cup {Head(mDataQ)}
                       /\ thread' = IF lastExpected(numOfSnapshotRcvd') THEN "done" ELSE "ready"
                  ELSE UNCHANGED <<thread, numOfSnapshotRcvd, counted>>
          /\ UNCHANGED isSnapshotActive

CmdExit ==
  /\ getCmd("EXIT")
  /\ thread' = "exited"
  /\ mDataQ' = <<>>
  /\ UNCHANGED <<isSnapshotActive, numOfSnapshotRcvd, counted, unheard>>

ThreadStep == CmdStart \/ CmdStop \/ CmdNextJob \/ CmdExit

Next ==
  \/ startSnapshots \/ cancelPicture \/ snapshotDone \/ dataProcStopped
  \/ notifySnapshot \/ processRawImage \/ notifyRaw \/ notifyRawRefused \/ notifyOther
  \/ \E producer \in Thread : sendNextJob(producer)
  \/ exit
  \/ ThreadStep

\* The threads run: the machine thread answers SNAPSHOT_DONE, the data processing
\* thread ends its job and takes STOP, a producer sends the command it owes, and
\* client callbacks return.
Fairness ==
  /\ WF_vars(ThreadStep)
  /\ WF_vars(snapshotDone)
  /\ WF_vars(notifyRaw \/ notifyRawRefused)
  /\ WF_vars(dataProcStopped)
  /\ \A producer \in Thread : WF_vars(sendNextJob(producer))

Spec == Init /\ [][Next]_vars /\ Fairness

-----------------------------------------------------------------------------
(* Properties.                                                              *)

TypeOK ==
  /\ cmd_queue \in Seq(Command)
  /\ mDataQ \in Seq(0..MaxCaptures)
  /\ mActive \in BOOLEAN
  /\ thread \in {"ready", "done", "exited"}
  /\ isSnapshotActive \in BOOLEAN
  /\ numOfSnapshotRcvd \in Nat
  /\ unsent \subseteq Thread
  /\ machine \in {"free", "cancel", "done"} /\ rawJob \in BOOLEAN
  /\ capture \in 0..MaxCaptures /\ captures \in 0..MaxCaptures
  /\ produced \in 0..NumSnapshots /\ notified \in 0..MaxNotify
  /\ rawCaptures \cup counted \cup overtaken \cup unheard \subseteq 1..MaxCaptures

\* A capture's count never holds a snapshot of an earlier capture, although all
\* share one queue and STOP is taken at its own time; unless the earlier one was
\* raw and its last snapshot came after STOP had flushed the queue.
CapturesAreNotMixed ==
  \A early, late \in counted : early < late => early \in rawCaptures

\* While SNAPSHOT_DONE is being posted, a capture that alone was counted really
\* produced all its snapshots.
DoneMeansAllProduced ==
  thread = "done" /\ counted = {capture} => produced = NumSnapshots

\* closeCamera, which joins the thread, gets past the join even if the thread
\* is waiting for SNAPSHOT_DONE to be handled.
ExitJoins == ~mActive ~> thread = "exited"

\* A capture that produced all its snapshots is ended, or the device closes, or
\* one of the two known reasons holds why its count cannot be completed: the
\* client disabled the message of a snapshot, or START overtook an older STOP.
CaptureEnds ==
  \A n \in 1..MaxCaptures :
    (capture = n /\ produced = NumSnapshots)
      ~> (capture # n \/ ~mActive \/ n \in overtaken \/ n \in unheard)

\* QCamera2HWICallbacks.cpp, startSnapshots: "Enables snapshot mode".  Once the
\* thread took the commands sent for a capture, it is in snapshot mode.
SnapshotModeEnabled ==
  capture # 0 /\ machine = "free" /\ thread = "ready"
  /\ {"START_DATA_PROC", "STOP_DATA_PROC"} \cap Range(cmd_queue) = {}
    => isSnapshotActive
=============================================================================
