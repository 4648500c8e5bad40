------------------------- MODULE CameraStateMachine -------------------------
(***************************************************************************)
(* QCameraStateMachine and the parts of QCamera2HardwareInterface and      *)
(* QCameraParameters its handlers drive: which channels exist and stream,  *)
(* whether the post processor runs, and which mode (ZSL, recording hint,   *)
(* picture format) the camera believes it is in.                           *)
(*                                                                         *)
(* Every action is one event handled by the state machine thread, from     *)
(* dequeue to reply; the thread runs them one at a time (smEvtProcRoutine). *)
(* An event the handler of a state only answers (a query, a refusal, an    *)
(* INVALID_OPERATION) changes nothing here and is not an action.  The      *)
(* backend is free to fail at every call that can fail.                    *)
(***************************************************************************)
EXTENDS Naturals

CONSTANTS
  ParamErrors,          \* may updateParameters or set_parms report an error?
  ModeChangeWhileBusy,  \* may SET_PARAMS change the mode in a state that does not restart preview?
  RawPictures           \* may the picture format be raw?

ASSUME EnvironmentAssumption ==
  /\ ParamErrors \in BOOLEAN
  /\ ModeChangeWhileBusy \in BOOLEAN
  /\ RawPictures \in BOOLEAN

VARIABLES
  m_state,          \* the state of the machine
  mPreviewWindow,   \* is a preview window set?
  m_channels,       \* each channel: no object, an object, or a streaming object
  mParameters,      \* the mode part of the parameters
  postproc,         \* post processor and snapshot session started
  snapshotEvt       \* is the notifier thread blocked on a SNAPSHOT_DONE it posted?

vars == <<m_state, mPreviewWindow, m_channels, mParameters, postproc, snapshotEvt>>

State == {"PREVIEW_STOPPED", "PREVIEW_READY", "PREVIEWING", "PREPARE_SNAPSHOT",
          "PIC_TAKING", "RECORDING", "VIDEO_PIC_TAKING", "PREVIEW_PIC_TAKING"}
PicState == {"PIC_TAKING", "VIDEO_PIC_TAKING", "PREVIEW_PIC_TAKING"}
RecState == {"RECORDING", "VIDEO_PIC_TAKING"}
BusyState == RecState \cup {"PIC_TAKING"}

PreviewChannels == {"ZSL", "PREVIEW", "VIDEO", "SNAPSHOT"}
StillChannels == {"CAPTURE", "RAW"}
Channel == PreviewChannels \cup StillChannels
NoFault == "none"

Parameters ==
  [zsl: BOOLEAN, zslNew: BOOLEAN, hint: BOOLEAN, hintNew: BOOLEAN,
   hintKey: BOOLEAN, hintSet: BOOLEAN, hintTmp: BOOLEAN, raw: BOOLEAN]

isPreviewRunning ==
  m_state \in {"PREVIEWING", "RECORDING", "VIDEO_PIC_TAKING",
               "PREVIEW_PIC_TAKING", "PREPARE_SNAPSHOT"}

-----------------------------------------------------------------------------
(* Parameters.  KEY_QC_ZSL is stored as soon as it is read, the recording   *)
(* hint key waits in m_tempMap (hintTmp, when hintSet) for the next commit;   *)
(* either mode takes effect when a commit copies the _new fields.           *)

Request == [zsl: BOOLEAN, hint: BOOLEAN, resize: BOOLEAN,
            raw: IF RawPictures THEN BOOLEAN ELSE {FALSE}]

SameMode(p, r) == r.zsl = p.zslNew /\ r.hint = p.hintKey /\ r.raw = p.raw

Requests == {r \in Request : \/ ModeChangeWhileBusy
                             \/ m_state \notin BusyState
                             \/ SameMode(mParameters, r)}

\* updateParameters meets a bad value and nothing is committed, or the server
\* refuses the batch.
ParamOutcome == {"ok"} \cup (IF ParamErrors THEN {"rejected", "refused"} ELSE {})

needRestart(p, r) ==
  \/ r.resize
  \/ r.zsl # p.zslNew
  \/ r.hint # p.hintKey /\ r.hint # p.hint

updateParameters(p, r) ==
  [p EXCEPT !.zslNew  = r.zsl,
            !.raw     = r.raw,
            !.hintNew = IF r.hint # p.hintKey THEN r.hint ELSE @,
            !.hintSet = @ \/ r.hint # p.hintKey,
            !.hintTmp = IF r.hint # p.hintKey THEN r.hint ELSE @]

commitParamChanges(p) ==
  [p EXCEPT !.zsl     = p.zslNew,
            !.hint    = p.hintNew,
            !.hintKey = IF p.hintSet THEN p.hintTmp ELSE @,
            !.hintSet = FALSE,
            !.hintTmp = FALSE]

\* commitSetBatch leaves everything pending when the server refuses the batch.
commitSetBatch(p, outcome) == IF outcome = "ok" THEN commitParamChanges(p) ELSE p

updateRecordingHintValue(p, outcome) ==
  commitSetBatch([p EXCEPT !.hintNew = TRUE], outcome)

-----------------------------------------------------------------------------
(* Channels.                                                                *)

delChannels(ch, C) == [c \in Channel |-> IF c \in C THEN "null" ELSE ch[c]]

stopChannel(ch, c) == [ch EXCEPT ![c] = IF @ = "null" THEN @ ELSE "added"]

startChannelOk(ch, c, fault) == ch[c] # "null" /\ c # fault
startChannel(ch, c, fault) ==
  IF startChannelOk(ch, c, fault) THEN [ch EXCEPT ![c] = "active"] ELSE ch

unpreparePreview(ch) == delChannels(ch, PreviewChannels)

NeededChannels(p) ==
  IF p.zsl /\ ~p.hint THEN {"ZSL"}
  ELSE IF p.hint THEN {"SNAPSHOT", "VIDEO", "PREVIEW"} ELSE {"PREVIEW"}

\* A failing addChannel leaves its own slot empty and, later in the list, the
\* slots of the channels added before it.
RolledBack(c) ==
  CASE c = "VIDEO"   -> {"SNAPSHOT", "VIDEO"}
    [] c = "PREVIEW" -> {"SNAPSHOT", "VIDEO", "PREVIEW"}
    [] OTHER         -> {c}

\* Mutant: the channels of a new preview are taken for the only ones there are.
preparePreviewPartial(ch, p, fault) == [c \in NeededChannels(p) |-> "added"]

preparePreviewOk(p, fault) == fault \notin NeededChannels(p)
preparePreview(ch, p, fault) ==
  IF preparePreviewOk(p, fault)
  THEN [c \in Channel |-> IF c \in NeededChannels(p) THEN "added" ELSE ch[c]]
  ELSE delChannels(ch, RolledBack(fault) \cap NeededChannels(p))

previewChannel(p) == IF p.zsl /\ ~p.hint THEN "ZSL" ELSE "PREVIEW"

\* preparePreview, then startPreview, undone by unpreparePreview.
bringUpPreviewOk(p, addFault, startFault) ==
  preparePreviewOk(p, addFault) /\ previewChannel(p) # startFault
bringUpPreview(ch, p, addFault, startFault) ==
  IF bringUpPreviewOk(p, addFault, startFault)
  THEN startChannel(preparePreview(ch, p, addFault), previewChannel(p), startFault)
  ELSE IF preparePreviewOk(p, addFault) THEN unpreparePreview(ch)
  ELSE preparePreview(ch, p, addFault)

\* The channel whose addChannel or startChannel fails, if any.
AddFault(p) == {NoFault} \cup NeededChannels(p)
StartFault(p) == {NoFault, previewChannel(p)}

-----------------------------------------------------------------------------
(* Captures.  cancelPicture and cancelLiveSnapshot tear down by the mode    *)
(* in force when they run, not by the one the capture was started with.     *)

\* Mutant: the still channel is stopped and kept.
cancelPictureKeepsChannel(ch, p) ==
  IF p.zsl THEN ch ELSE stopChannel(ch, IF p.raw THEN "RAW" ELSE "CAPTURE")

cancelPicture(ch, p) ==
  IF p.zsl THEN ch
  ELSE delChannels(ch, IF p.raw THEN {"RAW"} ELSE {"CAPTURE"})

cancelLiveSnapshot(ch) == stopChannel(ch, "SNAPSHOT")

\* The notifier is stopped asynchronously: it may already be past its count and
\* about to post a SNAPSHOT_DONE, which then outlives the capture.
StopPostproc ==
  /\ postproc' = FALSE
  /\ snapshotEvt' \in {snapshotEvt, snapshotEvt \/ postproc}

TakeFault == {NoFault, "bracket", "add", "start"}

stillChannel(p) == IF p.raw THEN "RAW" ELSE "CAPTURE"

takePictureOk(ch, p, fault) ==
  IF p.zsl THEN ch["ZSL"] # "null" /\ fault # "start" ELSE fault = NoFault

takePicture(ch, p, fault) ==
  IF p.zsl THEN ch
  ELSE LET base == delChannels(ch, {"PREVIEW"})
       IN  CASE fault = NoFault   -> [base EXCEPT ![stillChannel(p)] = "active"]
             [] fault = "bracket" -> base
             [] OTHER             -> delChannels(base, {stillChannel(p)})

\* reproc: did m_postprocessor.start get as far as sending START?
takePicturePostproc(ch, p, fault, reproc) ==
  IF IF p.zsl THEN ch["ZSL"] = "null" ELSE fault \in {"bracket", "add"}
  THEN postproc
  ELSE takePictureOk(ch, p, fault) /\ (postproc \/ reproc)

\* takeLiveSnapshot: next when it starts, the present state when it does not.
takeLiveSnapshot(next) ==
  \E fault \in {NoFault, "postproc", "start"} :
    LET ok == fault = NoFault /\ m_channels["SNAPSHOT"] # "null"
    IN  /\ m_state' = IF ok THEN next ELSE m_state
        /\ postproc' = (postproc \/ fault # "postproc")
        /\ m_channels' = IF ok THEN [m_channels EXCEPT !["SNAPSHOT"] = "active"]
                         ELSE m_channels

\* startRecording: with the hint off the preview is rebuilt in recording mode
\* first, and nothing is put back when that fails.
recordingParameters(outcome) ==
  IF mParameters.hint THEN mParameters ELSE updateRecordingHintValue(mParameters, outcome)

rebuiltChannels(p, addFault) ==
  IF mParameters.hint THEN m_channels
  ELSE preparePreview(unpreparePreview(m_channels), p, addFault)

rebuildOk(p, addFault, startFault) ==
  mParameters.hint \/ /\ preparePreviewOk(p, addFault)
                      /\ startChannelOk(rebuiltChannels(p, addFault), "PREVIEW", startFault)

viewingChannels(p, addFault, startFault) ==
  IF mParameters.hint \/ ~preparePreviewOk(p, addFault) THEN rebuiltChannels(p, addFault)
  ELSE startChannel(rebuiltChannels(p, addFault), "PREVIEW", startFault)

startRecording(next) ==
  \E outcome \in ParamOutcome \ {"rejected"} :
    \E addFault \in AddFault(recordingParameters(outcome)),
       startFault \in {NoFault, "PREVIEW", "VIDEO"} :
      LET p == recordingParameters(outcome)
          viewing == viewingChannels(p, addFault, startFault)
      IN  /\ mParameters' = p
          /\ m_channels' = IF rebuildOk(p, addFault, startFault)
                           THEN startChannel(viewing, "VIDEO", startFault) ELSE viewing
          /\ m_state' = IF /\ rebuildOk(p, addFault, startFault)
                           /\ startChannelOk(viewing, "VIDEO", startFault)
                        THEN next ELSE m_state

-----------------------------------------------------------------------------
Init ==
  /\ m_state = "PREVIEW_STOPPED"
  /\ mPreviewWindow = FALSE
  /\ m_channels = [c \in Channel |-> "null"]
  /\ mParameters \in {p \in Parameters : /\ p.zslNew = p.zsl
                                         /\ ~p.hint /\ ~p.hintNew /\ ~p.hintKey
                                         /\ ~p.hintSet /\ ~p.hintTmp /\ ~p.raw}
  /\ postproc = FALSE
  /\ snapshotEvt = FALSE

CaptureUnchanged == UNCHANGED <<postproc, snapshotEvt>>

\* PREVIEW_STOPPED and PIC_TAKING commit whatever was asked and restart nothing.
SetParamsNoRestart ==
  /\ m_state \in {"PREVIEW_STOPPED", "PIC_TAKING"}
  /\ \E r \in Requests, outcome \in ParamOutcome :
       mParameters' = commitSetBatch(updateParameters(mParameters, r), outcome)
  /\ UNCHANGED <<m_state, mPreviewWindow, m_channels>> /\ CaptureUnchanged

\* RECORDING and VIDEO_PIC_TAKING answer BAD_VALUE to a change that needs a
\* restart; what updateParameters stored stays pending.
SetParamsWhileRecording ==
  /\ m_state \in RecState
  /\ \E r \in Requests, outcome \in ParamOutcome :
       LET p == updateParameters(mParameters, r)
       IN  mParameters' = IF needRestart(mParameters, r) THEN p ELSE commitSetBatch(p, outcome)
  /\ UNCHANGED <<m_state, mPreviewWindow, m_channels>> /\ CaptureUnchanged

\* Mutant: a prepared preview keeps the channels of the mode it had.
PreviewReady_SetParamsKeepsChannels ==
  /\ m_state = "PREVIEW_READY"
  /\ \E r \in Requests, outcome \in ParamOutcome :
       mParameters' = commitSetBatch(updateParameters(mParameters, r), outcome)
  /\ UNCHANGED <<m_state, mPreviewWindow, m_channels>> /\ CaptureUnchanged

\* A prepared preview is rebuilt when the change needs it, even when the server
\* refused the commit.
PreviewReady_SetParams ==
  /\ m_state = "PREVIEW_READY"
  /\ \E r \in Requests, outcome \in ParamOutcome :
       LET p == commitSetBatch(updateParameters(mParameters, r), outcome)
       IN  /\ mParameters' = p
           /\ IF outcome # "rejected" /\ needRestart(mParameters, r)
              THEN \E addFault \in AddFault(p) :
                     /\ m_channels' = preparePreview(unpreparePreview(m_channels), p, addFault)
                     /\ m_state' = IF preparePreviewOk(p, addFault)
                                   THEN m_state ELSE "PREVIEW_STOPPED"
              ELSE UNCHANGED <<m_state, m_channels>>
  /\ UNCHANGED mPreviewWindow /\ CaptureUnchanged

\* A running preview is stopped, rebuilt and started again; lost is the state
\* the machine falls to when that fails.
SetParamsRestart(lost) ==
  /\ \E r \in Requests, outcome \in ParamOutcome :
       LET p == commitSetBatch(updateParameters(mParameters, r), outcome)
       IN  /\ mParameters' = p
           /\ IF outcome # "rejected" /\ needRestart(mParameters, r)
              THEN \E addFault \in AddFault(p), startFault \in StartFault(p) :
                     /\ m_channels' = bringUpPreview(unpreparePreview(m_channels), p,
                                                     addFault, startFault)
                     /\ m_state' = IF bringUpPreviewOk(p, addFault, startFault)
                                   THEN m_state ELSE lost
              ELSE UNCHANGED <<m_state, m_channels>>
  /\ UNCHANGED mPreviewWindow /\ CaptureUnchanged

\* Mutant: a restart that failed leaves the machine previewing.
Previewing_SetParamsUnnoticed == m_state = "PREVIEWING" /\ SetParamsRestart("PREVIEWING")

Previewing_SetParams == m_state = "PREVIEWING" /\ SetParamsRestart("PREVIEW_STOPPED")
PreviewPicTaking_SetParams == m_state = "PREVIEW_PIC_TAKING" /\ SetParamsRestart("PIC_TAKING")

PreviewStopped_SetPreviewWindow ==
  /\ m_state = "PREVIEW_STOPPED"
  /\ mPreviewWindow' \in BOOLEAN
  /\ UNCHANGED <<m_state, m_channels, mParameters>> /\ CaptureUnchanged

PreviewReady_SetPreviewWindow ==
  /\ m_state = "PREVIEW_READY"
  /\ mPreviewWindow' \in BOOLEAN
  /\ IF ~mPreviewWindow'
     THEN UNCHANGED <<m_state, m_channels>>
     ELSE \E startFault \in StartFault(mParameters) :
            LET c == previewChannel(mParameters)
                ok == startChannelOk(m_channels, c, startFault)
            IN  /\ m_channels' = IF ok THEN startChannel(m_channels, c, startFault)
                                 ELSE unpreparePreview(m_channels)
                /\ m_state' = IF ok THEN "PREVIEWING" ELSE "PREVIEW_STOPPED"
  /\ UNCHANGED <<mParameters>> /\ CaptureUnchanged

\* START_PREVIEW before a window is set only prepares the channels.
PreviewStopped_StartPreviewNoWindow ==
  /\ m_state = "PREVIEW_STOPPED" /\ ~mPreviewWindow
  /\ \E addFault \in AddFault(mParameters) :
       /\ m_channels' = preparePreview(m_channels, mParameters, addFault)
       /\ m_state' = IF preparePreviewOk(mParameters, addFault)
                     THEN "PREVIEW_READY" ELSE m_state
  /\ UNCHANGED <<mPreviewWindow, mParameters>> /\ CaptureUnchanged

BringUpPreview ==
  /\ m_state = "PREVIEW_STOPPED"
  /\ \E addFault \in AddFault(mParameters), startFault \in StartFault(mParameters) :
       /\ m_channels' = bringUpPreview(m_channels, mParameters, addFault, startFault)
       /\ m_state' = IF bringUpPreviewOk(mParameters, addFault, startFault)
                     THEN "PREVIEWING" ELSE m_state
  /\ UNCHANGED <<mPreviewWindow, mParameters>> /\ CaptureUnchanged

PreviewStopped_StartPreview == mPreviewWindow /\ BringUpPreview
PreviewStopped_StartNoDisplayPreview == BringUpPreview

PreviewStopped_Release ==
  /\ m_state = "PREVIEW_STOPPED"
  /\ m_channels' = delChannels(m_channels, Channel)
  /\ UNCHANGED <<m_state, mPreviewWindow, mParameters>> /\ CaptureUnchanged

\* unpreparePreview in PREVIEW_READY; stopPreview in PREVIEWING stops what it
\* then deletes.
StopPreview ==
  /\ m_state \in {"PREVIEW_READY", "PREVIEWING"}
  /\ m_channels' = unpreparePreview(m_channels)
  /\ m_state' = "PREVIEW_STOPPED"
  /\ UNCHANGED <<mPreviewWindow, mParameters>> /\ CaptureUnchanged

Previewing_StartRecording ==
  /\ m_state = "PREVIEWING"
  /\ startRecording("RECORDING")
  /\ UNCHANGED <<mPreviewWindow>> /\ CaptureUnchanged

PreviewPicTaking_StartRecording ==
  /\ m_state = "PREVIEW_PIC_TAKING" /\ ~mParameters.zsl
  /\ startRecording("VIDEO_PIC_TAKING")
  /\ UNCHANGED <<mPreviewWindow>> /\ CaptureUnchanged

\* The answer to PREPARE_SNAPSHOT waits for the metadata that ends the state.
Previewing_PrepareSnapshot ==
  /\ m_state = "PREVIEWING"
  /\ m_state' = "PREPARE_SNAPSHOT"
  /\ UNCHANGED <<mPreviewWindow, m_channels, mParameters>> /\ CaptureUnchanged

PrepareSnapshot_Done ==
  /\ m_state = "PREPARE_SNAPSHOT"
  /\ m_state' = "PREVIEWING"
  /\ UNCHANGED <<mPreviewWindow, m_channels, mParameters>> /\ CaptureUnchanged

Previewing_TakePicture ==
  /\ m_state = "PREVIEWING" /\ ~mParameters.hint
  /\ \E fault \in TakeFault, reproc \in BOOLEAN :
       LET ok == takePictureOk(m_channels, mParameters, fault)
       IN  /\ m_state' = IF mParameters.zsl
                         THEN (IF ok THEN "PREVIEW_PIC_TAKING" ELSE "PREVIEWING")
                         ELSE (IF ok THEN "PIC_TAKING" ELSE "PREVIEW_STOPPED")
           /\ m_channels' = takePicture(m_channels, mParameters, fault)
           /\ postproc' = takePicturePostproc(m_channels, mParameters, fault, reproc)
  /\ UNCHANGED <<mPreviewWindow, mParameters, snapshotEvt>>

Previewing_TakeLiveSnapshot ==
  /\ m_state = "PREVIEWING" /\ mParameters.hint
  /\ takeLiveSnapshot("PREVIEW_PIC_TAKING")
  /\ UNCHANGED <<mPreviewWindow, mParameters, snapshotEvt>>

Recording_TakePicture ==
  /\ m_state = "RECORDING"
  /\ takeLiveSnapshot("VIDEO_PIC_TAKING")
  /\ UNCHANGED <<mPreviewWindow, mParameters, snapshotEvt>>

\* Mutant: the machine stops recording and the channel does not.
StopRecordingOnlyInName ==
  /\ m_state \in RecState
  /\ m_state' = IF m_state = "RECORDING" THEN "PREVIEWING" ELSE "PREVIEW_PIC_TAKING"
  /\ UNCHANGED <<mPreviewWindow, m_channels, mParameters>> /\ CaptureUnchanged

StopRecording ==
  /\ m_state \in RecState
  /\ m_state' = IF m_state = "RECORDING" THEN "PREVIEWING" ELSE "PREVIEW_PIC_TAKING"
  /\ m_channels' = stopChannel(m_channels, "VIDEO")
  /\ UNCHANGED <<mPreviewWindow, mParameters>> /\ CaptureUnchanged

Recording_StopPreview ==
  /\ m_state = "RECORDING"
  /\ m_state' = "PREVIEW_STOPPED"
  /\ m_channels' = unpreparePreview(stopChannel(m_channels, "VIDEO"))
  /\ UNCHANGED <<mPreviewWindow, mParameters>> /\ CaptureUnchanged

-----------------------------------------------------------------------------
(* Ends of captures.  CANCEL_PICTURE and SNAPSHOT_DONE do the same; only    *)
(* the latter releases the notifier.                                        *)

\* Mutant: the machine goes back to a preview the still capture took away.
PicTaking_EndPreviews ==
  /\ m_state = "PIC_TAKING"
  /\ m_state' = "PREVIEWING"
  /\ m_channels' = cancelPicture(m_channels, mParameters)

PicTaking_End ==
  /\ m_state = "PIC_TAKING"
  /\ m_state' = "PREVIEW_STOPPED"
  /\ m_channels' = cancelPicture(m_channels, mParameters)

VideoPicTaking_End ==
  /\ m_state = "VIDEO_PIC_TAKING"
  /\ m_state' = "RECORDING"
  /\ m_channels' = cancelLiveSnapshot(m_channels)

PreviewPicTaking_End ==
  /\ m_state = "PREVIEW_PIC_TAKING"
  /\ m_state' = "PREVIEWING"
  /\ m_channels' = IF mParameters.zsl THEN cancelPicture(m_channels, mParameters)
                   ELSE cancelLiveSnapshot(m_channels)

EndCapture == PicTaking_End \/ VideoPicTaking_End \/ PreviewPicTaking_End

\* CANCEL_PICTURE; STOP_PREVIEW in PIC_TAKING is the same code.
CancelPicture ==
  /\ EndCapture
  /\ StopPostproc
  /\ UNCHANGED <<mPreviewWindow, mParameters>>

\* Mutant: the stop forgets the live snapshot's post processing.
VideoPicTaking_StopPreviewOnly ==
  /\ m_state = "VIDEO_PIC_TAKING"
  /\ m_state' = "PREVIEW_STOPPED"
  /\ m_channels' = unpreparePreview(stopChannel(cancelLiveSnapshot(m_channels), "VIDEO"))
  /\ UNCHANGED <<mPreviewWindow, mParameters>> /\ CaptureUnchanged

VideoPicTaking_StopPreview ==
  /\ m_state = "VIDEO_PIC_TAKING"
  /\ m_state' = "PREVIEW_STOPPED"
  /\ m_channels' = unpreparePreview(stopChannel(cancelLiveSnapshot(m_channels), "VIDEO"))
  /\ StopPostproc
  /\ UNCHANGED <<mPreviewWindow, mParameters>>

PreviewPicTaking_StopPreview ==
  /\ m_state = "PREVIEW_PIC_TAKING"
  /\ m_state' = "PREVIEW_STOPPED"
  /\ m_channels' = unpreparePreview(
                     IF mParameters.zsl
                     THEN stopChannel(cancelPicture(m_channels, mParameters), "ZSL")
                     ELSE stopChannel(cancelLiveSnapshot(m_channels), "PREVIEW"))
  /\ StopPostproc
  /\ UNCHANGED <<mPreviewWindow, mParameters>>

\* SNAPSHOT_DONE ends whichever capture the machine is in by then, not only the
\* one it was posted for; outside a capture it only releases the notifier.
SnapshotDone ==
  /\ snapshotEvt
  /\ snapshotEvt' = FALSE
  /\ IF m_state \in PicState
     THEN EndCapture /\ postproc' = FALSE
     ELSE UNCHANGED <<m_state, m_channels, postproc>>
  /\ UNCHANGED <<mPreviewWindow, mParameters>>

\* The notifier thread has delivered the last expected snapshot and posts
\* SNAPSHOT_DONE; processSyncEvt blocks it until the event is answered.
NotifySnapshotDone ==
  /\ ~snapshotEvt
  /\ postproc /\ m_state \in PicState
  /\ \E c \in StillChannels \cup {"ZSL", "SNAPSHOT"} : m_channels[c] = "active"
  /\ snapshotEvt' = TRUE
  /\ UNCHANGED <<m_state, mPreviewWindow, m_channels, mParameters, postproc>>

StartPreviewNext ==
  \/ PreviewStopped_StartPreviewNoWindow
  \/ PreviewStopped_StartPreview
  \/ PreviewStopped_StartNoDisplayPreview
  \/ PreviewStopped_SetPreviewWindow
  \/ PreviewReady_SetPreviewWindow

SetParamsNext ==
  \/ SetParamsNoRestart
  \/ SetParamsWhileRecording
  \/ PreviewReady_SetParams
  \/ Previewing_SetParams
  \/ PreviewPicTaking_SetParams

StartNext ==
  \/ Previewing_StartRecording
  \/ PreviewPicTaking_StartRecording
  \/ Previewing_PrepareSnapshot
  \/ PrepareSnapshot_Done
  \/ Previewing_TakePicture
  \/ Previewing_TakeLiveSnapshot
  \/ Recording_TakePicture

EndNext ==
  \/ StopPreview
  \/ StopRecording
  \/ Recording_StopPreview
  \/ CancelPicture
  \/ VideoPicTaking_StopPreview
  \/ PreviewPicTaking_StopPreview
  \/ PreviewStopped_Release
  \/ SnapshotDone
  \/ NotifySnapshotDone

Next == StartPreviewNext \/ SetParamsNext \/ StartNext \/ EndNext

Spec == Init /\ [][Next]_vars

-----------------------------------------------------------------------------
(* Properties.                                                              *)

TypeOK ==
  /\ m_state \in State
  /\ mPreviewWindow \in BOOLEAN
  /\ m_channels \in [Channel -> {"null", "added", "active"}]
  /\ mParameters \in Parameters
  /\ postproc \in BOOLEAN
  /\ snapshotEvt \in BOOLEAN

PreviewActive == m_channels["PREVIEW"] = "active" \/ m_channels["ZSL"] = "active"

\* The machine says it records exactly while the video channel streams,
\* whatever startRecording, a failed restart or a stop left behind.
RecordingIffVideoStreams ==
  m_state \in RecState <=> m_channels["VIDEO"] = "active"

\* A prepared preview waits for its window in the mode that is in force, so
\* that SET_PREVIEW_WINDOW finds the channel startPreview starts, not started.
PreparedForItsMode ==
  m_state = "PREVIEW_READY" =>
    /\ ~mPreviewWindow
    /\ \A c \in PreviewChannels :
         m_channels[c] = IF c \in NeededChannels(mParameters) THEN "added" ELSE "null"

\* Every way out of a capture stops the post processor.
CaptureExitStopsPostproc ==
  [][(m_state \in PicState /\ m_state' \notin PicState) => ~postproc']_vars

StartRecordingStep == Previewing_StartRecording \/ PreviewPicTaking_StartRecording

\* The machine can come to claim a running preview that does not stream only
\* through a START_RECORDING whose rebuild of the preview failed.
PreviewLostOnlyByStartRecording ==
  [][isPreviewRunning' /\ ~PreviewActive' =>
       StartRecordingStep \/ (isPreviewRunning /\ ~PreviewActive)]_vars

\* The promise of CameraSession.  Whether it records is read off the video
\* channel, the rest off the state the machine answers its callers from.
Session == INSTANCE CameraSession WITH
  preview   <- IF m_state \in {"PREVIEW_STOPPED", "PIC_TAKING"} THEN "stopped"
               ELSE IF m_state = "PREVIEW_READY" THEN "ready" ELSE "running",
  recording <- m_channels["VIDEO"] = "active",
  picture   <- m_state \in PicState

\* Every handler, with every failure in it, is one step of the session the
\* client sees or no step at all: the video channel only streams in a session
\* that was told to record, and no capture, restart or stop ends in between.
ImplementsSession == Session!Spec

\* With parameters that are accepted and a mode that is only changed where the
\* machine restarts the preview: a stopped preview has left no channel, a still
\* capture runs alone, and its channel dies with it.
NoChannelOutlivesItsState ==
  /\ m_state = "PREVIEW_STOPPED" => \A c \in Channel : m_channels[c] = "null"
  /\ m_state = "PIC_TAKING" => \A c \in PreviewChannels : m_channels[c] = "null"
  /\ m_state # "PIC_TAKING" => \A c \in StillChannels : m_channels[c] = "null"

\* QCameraStateMachine.h: "recording (preview running)".
RecordingHasPreview == m_state \in RecState => PreviewActive

\* QCameraStateMachine.h: "taking picture (preview stopped)".
PicTakingHasNoPreview == m_state = "PIC_TAKING" => ~PreviewActive
=============================================================================
