------------------ MODULE CameraStateMachineChannels_proofs ------------------
(***************************************************************************)
(* What is proved of the channels of CameraStateMachine.  Two theorems     *)
(* assume the discipline of the configuration MCStateMachineDisciplined:    *)
(* parameters are accepted, and the mode changes only where the machine     *)
(* restarts the preview.  Then no change stays pending, a preview has no   *)
(* channel its mode does not need and a still capture none but its own.    *)
(* The last theorem, how a preview is lost, holds in every environment.    *)
(***************************************************************************)
EXTENDS CameraStateMachine_proofs

\* The constants of the run MCStateMachineDisciplined.
Disciplined == ~ParamErrors /\ ~ModeChangeWhileBusy

\* Nothing is pending between two requests.
Committed == mParameters.zslNew = mParameters.zsl /\ mParameters.hintNew = mParameters.hint

\* State s has no channel that mode p does not need.
Unneeded(s, p, ch) ==
  /\ s # "PIC_TAKING" => \A c \in Channel \ NeededChannels(p) : ch[c] = "null"
  /\ s = "PIC_TAKING" => \A c \in Channel :
                           ch[c] # "null" => ~p.zsl /\ c = stillChannel(p)

\* The inductive invariant.
ChannelsFit ==
  /\ Committed
  /\ m_state = "PREVIEW_STOPPED" => \A c \in Channel : m_channels[c] = "null"
  /\ Unneeded(m_state, mParameters, m_channels)

\* The invariant gives the property.
LEMMA FitImplies == ChannelsFit => NoChannelOutlivesItsState
  BY DEF ChannelsFit, Unneeded, NoChannelOutlivesItsState, NeededChannels, Channel,
     PreviewChannels, StillChannels, stillChannel

\* What a committed request leaves: nothing pending; the mode unchanged when no
\* restart is needed; a busy machine is never asked for another mode.
LEMMA CommittedRequest ==
  ASSUME Disciplined, TypeOK, Committed, NEW r \in Requests, NEW outcome \in ParamOutcome,
         NEW q, q = commitSetBatch(updateParameters(mParameters, r), outcome)
  PROVE  /\ outcome = "ok"
         /\ q \in Parameters
         /\ q.zslNew = q.zsl /\ q.hintNew = q.hint
         /\ ~needRestart(mParameters, r) => q.zsl = mParameters.zsl /\ q.hint = mParameters.hint
         /\ m_state \in BusyState =>
              q.zsl = mParameters.zsl /\ q.hint = mParameters.hint /\ q.raw = mParameters.raw
<1>1. outcome = "ok"
  BY DEF Disciplined, ParamOutcome
<1>2. r.zsl \in BOOLEAN /\ r.hint \in BOOLEAN /\ r.raw \in BOOLEAN
  BY DEF Requests, Request
<1>3. q = commitParamChanges(updateParameters(mParameters, r))
  BY <1>1 DEF commitSetBatch
<1>4. q \in Parameters
  BY ParametersType DEF TypeOK
<1>5. m_state \in BusyState => SameMode(mParameters, r)
  BY DEF Disciplined, Requests
<1>6. /\ q.zslNew = r.zsl /\ q.zsl = r.zsl /\ q.raw = r.raw
      /\ q.hint = IF r.hint # mParameters.hintKey THEN r.hint ELSE mParameters.hintNew
      /\ q.hintNew = q.hint
  <2> DEFINE u == updateParameters(mParameters, r)
  <2>1. u \in Parameters
    BY ParametersType DEF TypeOK
  <2>2. /\ u.zslNew = r.zsl /\ u.raw = r.raw
        /\ u.hintNew = IF r.hint # mParameters.hintKey THEN r.hint ELSE mParameters.hintNew
    BY DEF updateParameters, TypeOK, Parameters
  <2>3. q = commitParamChanges(u)
    BY <1>3
  <2> HIDE DEF u
  <2>4. /\ q.zsl = u.zslNew /\ q.zslNew = u.zslNew /\ q.raw = u.raw
        /\ q.hint = u.hintNew /\ q.hintNew = u.hintNew
    BY <2>1, <2>3 DEF commitParamChanges, Parameters
  <2> QED
    BY <2>2, <2>4
<1> QED
  BY <1>1, <1>4, <1>5, <1>6 DEF SameMode, needRestart, Committed

\* Which channels are needed depends on the mode alone.
LEMMA ModeDecides ==
  ASSUME NEW p, NEW q, q.zsl = p.zsl, q.hint = p.hint
  PROVE  NeededChannels(q) = NeededChannels(p)
  BY DEF NeededChannels

\* A preview built where there was none has what its mode needs or nothing.
LEMMA PrepareFromNothing ==
  ASSUME NEW ch \in ChannelMap, \A c \in Channel : ch[c] = "null",
         NEW p \in Parameters, NEW a
  PROVE  /\ \A c \in Channel \ NeededChannels(p) : preparePreview(ch, p, a)[c] = "null"
         /\ ~preparePreviewOk(p, a) => \A c \in Channel : preparePreview(ch, p, a)[c] = "null"
  BY DEF preparePreview, delChannels

\* So has one that is started as well.
LEMMA BringUpFromNothing ==
  ASSUME NEW ch \in ChannelMap, \A c \in Channel : ch[c] = "null",
         NEW p \in Parameters, NEW a, NEW f
  PROVE  /\ \A c \in Channel \ NeededChannels(p) : bringUpPreview(ch, p, a, f)[c] = "null"
         /\ ~bringUpPreviewOk(p, a, f) =>
              \A c \in Channel : bringUpPreview(ch, p, a, f)[c] = "null"
<1>1. previewChannel(p) \in NeededChannels(p)
  BY NeededType
<1>2. preparePreview(ch, p, a) \in ChannelMap
  BY PreparePreview
<1>3. \A c \in Channel : unpreparePreview(ch)[c] = "null"
  BY DEF unpreparePreview, delChannels
<1>4. \A c \in Channel \ NeededChannels(p) :
        startChannel(preparePreview(ch, p, a), previewChannel(p), f)[c] = "null"
  BY <1>1, <1>2, PrepareFromNothing DEF startChannel, ChannelMap
<1> QED
  BY <1>3, <1>4, PrepareFromNothing DEF bringUpPreview

\* Outside a still capture, unpreparePreview leaves no channel.
LEMMA UnprepareLeavesNothing ==
  ASSUME NEW p \in Parameters, NEW ch \in ChannelMap,
         \A c \in Channel \ NeededChannels(p) : ch[c] = "null"
  PROVE  /\ unpreparePreview(ch) \in ChannelMap
         /\ \A c \in Channel : unpreparePreview(ch)[c] = "null"
  BY NeededType DEF unpreparePreview, delChannels, Channel, ChannelMap

\* Starting and stopping make no channel, and deleting one makes none either.
LEMMA NothingMade ==
  ASSUME NEW ch \in ChannelMap, NEW d \in Channel, ch[d] = "null"
  PROVE  /\ \A c, f : startChannel(ch, c, f)[d] = "null"
         /\ \A c : stopChannel(ch, c)[d] = "null"
         /\ \A C : delChannels(ch, C)[d] = "null"
  BY DEF startChannel, startChannelOk, stopChannel, delChannels, ChannelMap

\* The handlers that prepare or start a preview keep the invariant.
LEMMA FitStartPreview ==
  ASSUME TypeOK, ChannelsFit, StartPreviewNext
  PROVE  ChannelsFit'
<1>1. /\ m_channels \in ChannelMap /\ mParameters \in Parameters
      /\ mParameters' = mParameters
      /\ m_state # "PIC_TAKING" /\ m_state' # "PIC_TAKING"
  BY DEF TypeOK, ChannelMap, StartPreviewNext, PreviewStopped_StartPreviewNoWindow,
     PreviewStopped_StartPreview, PreviewStopped_StartNoDisplayPreview, BringUpPreview,
     PreviewStopped_SetPreviewWindow, PreviewReady_SetPreviewWindow
<1> SUFFICES
      /\ m_state' = "PREVIEW_STOPPED" => \A c \in Channel : m_channels'[c] = "null"
      /\ \A c \in Channel \ NeededChannels(mParameters) : m_channels'[c] = "null"
  BY <1>1 DEF ChannelsFit, Unneeded, Committed
<1>2. \A c \in Channel \ NeededChannels(mParameters) : m_channels[c] = "null"
  BY <1>1 DEF ChannelsFit, Unneeded
<1>3. m_state = "PREVIEW_STOPPED" => \A c \in Channel : m_channels[c] = "null"
  BY DEF ChannelsFit
<1>4. CASE PreviewStopped_StartPreviewNoWindow
  BY <1>1, <1>3, <1>4, PrepareFromNothing DEF PreviewStopped_StartPreviewNoWindow
<1>5. CASE BringUpPreview
  BY <1>1, <1>3, <1>5, BringUpFromNothing DEF BringUpPreview
<1>6. CASE PreviewStopped_SetPreviewWindow
  BY <1>2, <1>3, <1>6 DEF PreviewStopped_SetPreviewWindow
<1>7. CASE PreviewReady_SetPreviewWindow
  BY <1>1, <1>2, <1>7, UnprepareLeavesNothing, NothingMade DEF PreviewReady_SetPreviewWindow
<1> QED
  BY <1>4, <1>5, <1>6, <1>7
  DEF StartPreviewNext, PreviewStopped_StartPreview, PreviewStopped_StartNoDisplayPreview

\* So do the parameter changes, with their restarts.
LEMMA FitSetParams ==
  ASSUME Disciplined, TypeOK, ChannelsFit, SetParamsNext
  PROVE  ChannelsFit'
<1>1. /\ m_channels \in ChannelMap /\ mParameters \in Parameters /\ Committed
      /\ m_state # "PIC_TAKING" =>
           \A c \in Channel \ NeededChannels(mParameters) : m_channels[c] = "null"
  BY DEF TypeOK, ChannelMap, ChannelsFit, Unneeded
<1>2. ASSUME NEW q, q.zsl = mParameters.zsl, q.hint = mParameters.hint,
             m_state = "PIC_TAKING" => q.raw = mParameters.raw,
             q.zslNew = q.zsl, q.hintNew = q.hint, mParameters' = q,
             m_state' = m_state, m_channels' = m_channels
      PROVE  ChannelsFit'
  BY <1>2, ModeDecides DEF ChannelsFit, Unneeded, Committed, stillChannel
<1>3. CASE SetParamsNoRestart
  <2>1. PICK r \in Requests, outcome \in ParamOutcome :
          mParameters' = commitSetBatch(updateParameters(mParameters, r), outcome)
    BY <1>3 DEF SetParamsNoRestart
  <2>2. m_state' = m_state /\ m_channels' = m_channels
    BY <1>3 DEF SetParamsNoRestart
  <2>3. CASE m_state = "PIC_TAKING"
    BY <1>1, <1>2, <2>1, <2>2, <2>3, CommittedRequest DEF BusyState
  <2>4. CASE m_state = "PREVIEW_STOPPED"
    <3>1. Committed'
      BY <1>1, <2>1, CommittedRequest DEF Committed
    <3> QED
      BY <2>2, <2>4, <3>1 DEF ChannelsFit, Unneeded
  <2> QED
    BY <1>3, <2>3, <2>4 DEF SetParamsNoRestart
<1>4. CASE SetParamsWhileRecording
  <2>1. PICK r \in Requests, outcome \in ParamOutcome :
          mParameters' = IF needRestart(mParameters, r) THEN updateParameters(mParameters, r)
                         ELSE commitSetBatch(updateParameters(mParameters, r), outcome)
    BY <1>4 DEF SetParamsWhileRecording
  <2>2. m_state' = m_state /\ m_channels' = m_channels /\ m_state # "PIC_TAKING"
    BY <1>4 DEF SetParamsWhileRecording, RecState
  <2>3. CASE needRestart(mParameters, r)
    <3>1. SameMode(mParameters, r)
      BY <1>4 DEF SetParamsWhileRecording, Disciplined, Requests, BusyState
    <3>2. r.zsl = mParameters.zslNew /\ r.hint = mParameters.hintKey
      BY <3>1 DEF SameMode
    <3>3. /\ mParameters'.zsl = mParameters.zsl /\ mParameters'.hint = mParameters.hint
          /\ mParameters'.zslNew = mParameters.zslNew
          /\ mParameters'.hintNew = mParameters.hintNew
      BY <1>1, <2>1, <2>3, <3>2 DEF updateParameters, Parameters
    <3> QED
      BY <1>1, <1>2, <2>2, <3>3 DEF Committed
  <2>4. CASE ~needRestart(mParameters, r)
    BY <1>1, <1>2, <2>1, <2>2, <2>4, CommittedRequest
  <2> QED
    BY <2>3, <2>4
<1>5. CASE PreviewReady_SetParams
  <2>1. PICK r \in Requests, outcome \in ParamOutcome :
          /\ mParameters' = commitSetBatch(updateParameters(mParameters, r), outcome)
          /\ IF outcome # "rejected" /\ needRestart(mParameters, r)
             THEN \E a \in AddFault(mParameters') :
                    /\ m_channels' = preparePreview(unpreparePreview(m_channels),
                                                    mParameters', a)
                    /\ m_state' = IF preparePreviewOk(mParameters', a)
                                  THEN m_state ELSE "PREVIEW_STOPPED"
             ELSE UNCHANGED <<m_state, m_channels>>
    BY <1>5 DEF PreviewReady_SetParams
  <2>2. m_state = "PREVIEW_READY"
    BY <1>5 DEF PreviewReady_SetParams
  <2>3. CASE needRestart(mParameters, r)
    <3>1. outcome = "ok" /\ Committed' /\ mParameters' \in Parameters
      BY <1>1, <2>1, CommittedRequest DEF Committed
    <3>2. PICK a : /\ m_channels' = preparePreview(unpreparePreview(m_channels),
                                                   mParameters', a)
                   /\ m_state' = IF preparePreviewOk(mParameters', a)
                                 THEN m_state ELSE "PREVIEW_STOPPED"
      BY <2>1, <2>3, <3>1
    <3>3. /\ \A c \in Channel \ NeededChannels(mParameters') : m_channels'[c] = "null"
          /\ m_state' = "PREVIEW_STOPPED" => \A c \in Channel : m_channels'[c] = "null"
      BY <1>1, <2>2, <3>1, <3>2, UnprepareLeavesNothing, PrepareFromNothing
    <3> QED
      BY <2>2, <3>1, <3>2, <3>3 DEF ChannelsFit, Unneeded
  <2>4. CASE ~needRestart(mParameters, r)
    BY <1>1, <1>2, <2>1, <2>2, <2>4, CommittedRequest
  <2> QED
    BY <2>3, <2>4
<1>6. ASSUME NEW lost \in {"PREVIEW_STOPPED", "PIC_TAKING"},
             m_state \in {"PREVIEWING", "PREVIEW_PIC_TAKING"}, SetParamsRestart(lost)
      PROVE  ChannelsFit'
  <2>1. PICK r \in Requests, outcome \in ParamOutcome :
          /\ mParameters' = commitSetBatch(updateParameters(mParameters, r), outcome)
          /\ IF outcome # "rejected" /\ needRestart(mParameters, r)
             THEN \E a \in AddFault(mParameters'), f \in StartFault(mParameters') :
                    /\ m_channels' = bringUpPreview(unpreparePreview(m_channels),
                                                    mParameters', a, f)
                    /\ m_state' = IF bringUpPreviewOk(mParameters', a, f)
                                  THEN m_state ELSE lost
             ELSE UNCHANGED <<m_state, m_channels>>
    BY <1>6 DEF SetParamsRestart
  <2>2. CASE needRestart(mParameters, r)
    <3>1. outcome = "ok" /\ Committed' /\ mParameters' \in Parameters
      BY <1>1, <2>1, CommittedRequest DEF Committed
    <3>2. PICK a, f : /\ m_channels' = bringUpPreview(unpreparePreview(m_channels),
                                                      mParameters', a, f)
                      /\ m_state' = IF bringUpPreviewOk(mParameters', a, f)
                                    THEN m_state ELSE lost
      BY <2>1, <2>2, <3>1
    <3>3. /\ \A c \in Channel \ NeededChannels(mParameters') : m_channels'[c] = "null"
          /\ ~bringUpPreviewOk(mParameters', a, f) =>
               \A c \in Channel : m_channels'[c] = "null"
      BY <1>1, <1>6, <3>1, <3>2, UnprepareLeavesNothing, BringUpFromNothing
    <3> QED
      BY <1>6, <3>1, <3>2, <3>3 DEF ChannelsFit, Unneeded
  <2>3. CASE ~needRestart(mParameters, r)
    BY <1>1, <1>2, <1>6, <2>1, <2>3, CommittedRequest
  <2> QED
    BY <2>2, <2>3
<1> QED
  BY <1>3, <1>4, <1>5, <1>6
  DEF SetParamsNext, Previewing_SetParams, PreviewPicTaking_SetParams

\* So does START_RECORDING, whether or not the rebuild succeeds.
LEMMA FitStartRecording ==
  ASSUME Disciplined, TypeOK, ChannelsFit, NEW next \in RecState,
         m_state \in {"PREVIEWING", "PREVIEW_PIC_TAKING"}, startRecording(next)
  PROVE  ChannelsFit'
<1>1. /\ m_channels \in ChannelMap /\ mParameters \in Parameters /\ Committed
      /\ \A c \in Channel \ NeededChannels(mParameters) : m_channels[c] = "null"
  BY DEF TypeOK, ChannelMap, ChannelsFit, Unneeded
<1>2. PICK o \in ParamOutcome : \E a, f :
        /\ mParameters' = recordingParameters(o)
        /\ m_channels' \in {viewingChannels(recordingParameters(o), a, f),
             startChannel(viewingChannels(recordingParameters(o), a, f), "VIDEO", f)}
        /\ m_state' \in {m_state, next}
  BY StartRecordingParts
<1>3. o = "ok"
  BY DEF Disciplined, ParamOutcome
<1> DEFINE p == recordingParameters("ok")
<1>4. p \in Parameters
  BY RecordingParts
<1>5. p.zslNew = p.zsl /\ p.hintNew = p.hint
  <2>1. CASE mParameters.hint
    BY <1>1, <2>1 DEF Committed, recordingParameters
  <2>2. CASE ~mParameters.hint
    <3> DEFINE u == [mParameters EXCEPT !.hintNew = TRUE]
    <3>1. u \in Parameters
      BY <1>1 DEF Parameters
    <3>2. p = commitParamChanges(u)
      BY <2>2 DEF recordingParameters, updateRecordingHintValue, commitSetBatch
    <3> HIDE DEF u, p
    <3> QED
      BY <3>1, <3>2 DEF commitParamChanges, Parameters
  <2> QED
    BY <2>1, <2>2
<1>6. PICK a, f :
        /\ mParameters' = p
        /\ m_channels' \in {viewingChannels(p, a, f),
                            startChannel(viewingChannels(p, a, f), "VIDEO", f)}
        /\ m_state' \in {m_state, next}
  BY <1>2, <1>3
<1>7. mParameters.hint => p = mParameters
  BY DEF recordingParameters
<1> HIDE DEF p
<1>8. /\ rebuiltChannels(p, a) \in ChannelMap
      /\ viewingChannels(p, a, f) \in ChannelMap
  BY <1>4, RecordingParts
<1>9. \A c \in Channel \ NeededChannels(p) : rebuiltChannels(p, a)[c] = "null"
  <2>1. CASE mParameters.hint
    BY <1>1, <1>7, <2>1 DEF rebuiltChannels
  <2>2. CASE ~mParameters.hint
    BY <1>1, <1>4, <2>2, UnprepareLeavesNothing, PrepareFromNothing DEF rebuiltChannels
  <2> QED
    BY <2>1, <2>2
<1>10. \A c \in Channel \ NeededChannels(p) : viewingChannels(p, a, f)[c] = "null"
  BY <1>8, <1>9, NothingMade DEF viewingChannels
<1>11. \A c \in Channel \ NeededChannels(p) : m_channels'[c] = "null"
  BY <1>6, <1>8, <1>10, NothingMade
<1> QED
  BY <1>5, <1>6, <1>11 DEF ChannelsFit, Unneeded, Committed, RecState

\* So do the handlers that start a capture or a recording.
LEMMA FitStart ==
  ASSUME Disciplined, TypeOK, ChannelsFit, StartNext
  PROVE  ChannelsFit'
<1>1. /\ m_channels \in ChannelMap /\ mParameters \in Parameters /\ Committed
      /\ m_state # "PIC_TAKING" =>
           \A c \in Channel \ NeededChannels(mParameters) : m_channels[c] = "null"
  BY DEF TypeOK, ChannelMap, ChannelsFit, Unneeded
<1>2. CASE Previewing_StartRecording \/ PreviewPicTaking_StartRecording
  BY <1>2, FitStartRecording
  DEF Previewing_StartRecording, PreviewPicTaking_StartRecording, RecState
<1>3. CASE Previewing_PrepareSnapshot \/ PrepareSnapshot_Done
  BY <1>1, <1>3
  DEF Previewing_PrepareSnapshot, PrepareSnapshot_Done, ChannelsFit, Unneeded, Committed
<1>4. CASE Previewing_TakePicture
  <2>1. PICK fault : /\ m_channels' = takePicture(m_channels, mParameters, fault)
                     /\ m_state' = IF mParameters.zsl
                                   THEN (IF takePictureOk(m_channels, mParameters, fault)
                                         THEN "PREVIEW_PIC_TAKING" ELSE "PREVIEWING")
                                   ELSE (IF takePictureOk(m_channels, mParameters, fault)
                                         THEN "PIC_TAKING" ELSE "PREVIEW_STOPPED")
    BY <1>4 DEF Previewing_TakePicture
  <2>2. m_state = "PREVIEWING" /\ ~mParameters.hint /\ mParameters' = mParameters
    BY <1>4 DEF Previewing_TakePicture
  <2>3. CASE mParameters.zsl
    BY <1>1, <2>1, <2>2, <2>3 DEF takePicture, ChannelsFit, Unneeded, Committed
  <2>4. CASE ~mParameters.zsl
    <3>1. \A c \in Channel : delChannels(m_channels, {"PREVIEW"})[c] = "null"
      BY <1>1, <2>2, <2>4 DEF NeededChannels, delChannels
    <3>2. delChannels(m_channels, {"PREVIEW"}) \in ChannelMap
      BY <1>1, ChannelOps DEF Channel, PreviewChannels
    <3>3. \A C : \A c \in Channel :
            delChannels(delChannels(m_channels, {"PREVIEW"}), C)[c] = "null"
      BY <3>1, <3>2 DEF delChannels
    <3>4. CASE fault = NoFault
      BY <1>1, <2>1, <2>2, <2>4, <3>1, <3>2, <3>4
      DEF takePicture, takePictureOk, ChannelsFit, Unneeded, Committed, ChannelMap
    <3>5. CASE fault # NoFault
      <4>1. \A c \in Channel : m_channels'[c] = "null"
        BY <2>1, <2>4, <3>1, <3>3, <3>5 DEF takePicture
      <4>2. m_state' = "PREVIEW_STOPPED"
        BY <2>1, <2>4, <3>5 DEF takePictureOk
      <4> QED
        BY <1>1, <2>2, <4>1, <4>2 DEF ChannelsFit, Unneeded, Committed
    <3> QED
      BY <3>4, <3>5
  <2> QED
    BY <2>3, <2>4
<1>5. CASE Previewing_TakeLiveSnapshot \/ Recording_TakePicture
  <2>1. PICK next \in {"PREVIEW_PIC_TAKING", "VIDEO_PIC_TAKING"} : takeLiveSnapshot(next)
    BY <1>5 DEF Previewing_TakeLiveSnapshot, Recording_TakePicture
  <2>2. m_state \in {"PREVIEWING", "RECORDING"} /\ mParameters' = mParameters
    BY <1>5 DEF Previewing_TakeLiveSnapshot, Recording_TakePicture
  <2>3. /\ m_state' \in {m_state, next}
        /\ \/ m_channels' = m_channels
           \/ /\ m_channels["SNAPSHOT"] # "null"
              /\ m_channels' = [m_channels EXCEPT !["SNAPSHOT"] = "active"]
    BY <2>1 DEF takeLiveSnapshot
  <2>4. \A c \in Channel \ NeededChannels(mParameters) : m_channels'[c] = "null"
    BY <1>1, <2>2, <2>3 DEF ChannelMap
  <2> QED
    BY <1>1, <2>2, <2>3, <2>4 DEF ChannelsFit, Unneeded, Committed
<1> QED
  BY <1>2, <1>3, <1>4, <1>5 DEF StartNext

\* So do the handlers that stop something.
LEMMA FitEnd ==
  ASSUME TypeOK, ChannelsFit, EndNext
  PROVE  ChannelsFit'
<1>1. /\ m_channels \in ChannelMap /\ mParameters \in Parameters /\ Committed
      /\ m_state # "PIC_TAKING" =>
           \A c \in Channel \ NeededChannels(mParameters) : m_channels[c] = "null"
  BY DEF TypeOK, ChannelMap, ChannelsFit, Unneeded
<1>2. mParameters' = mParameters
  BY DEF EndNext, StopPreview, StopRecording, Recording_StopPreview, CancelPicture,
     VideoPicTaking_StopPreview, PreviewPicTaking_StopPreview, PreviewStopped_Release,
     SnapshotDone, NotifySnapshotDone
<1>3. ASSUME m_state' = "PREVIEW_STOPPED", \A c \in Channel : m_channels'[c] = "null"
      PROVE  ChannelsFit'
  BY <1>1, <1>2, <1>3 DEF ChannelsFit, Unneeded, Committed
<1>4. ASSUME m_state' \notin {"PREVIEW_STOPPED", "PIC_TAKING"}, m_state # "PIC_TAKING",
             \A c \in Channel : m_channels[c] = "null" => m_channels'[c] = "null"
      PROVE  ChannelsFit'
  BY <1>1, <1>2, <1>4 DEF ChannelsFit, Unneeded, Committed
<1>5. /\ "VIDEO" \in Channel /\ "ZSL" \in Channel /\ "PREVIEW" \in Channel
      /\ "SNAPSHOT" \in Channel
  BY DEF Channel, PreviewChannels
<1>6. \A ch \in ChannelMap : \A c \in {"VIDEO", "ZSL", "PREVIEW"} :
        /\ stopChannel(ch, c) \in ChannelMap
        /\ \A d \in Channel : ch[d] = "null" => stopChannel(ch, c)[d] = "null"
  BY <1>5, ChannelOps, NothingMade
<1>7. /\ cancelPicture(m_channels, mParameters) \in ChannelMap
      /\ cancelLiveSnapshot(m_channels) \in ChannelMap
      /\ \A d \in Channel : m_channels[d] = "null" =>
           /\ cancelPicture(m_channels, mParameters)[d] = "null"
           /\ cancelLiveSnapshot(m_channels)[d] = "null"
  BY <1>1, CancelOps, NothingMade DEF cancelPicture, cancelLiveSnapshot
<1>8. CASE StopPreview
  BY <1>1, <1>3, <1>8, UnprepareLeavesNothing DEF StopPreview
<1>9. CASE StopRecording
  BY <1>1, <1>4, <1>6, <1>9 DEF StopRecording, RecState
<1>10. CASE Recording_StopPreview
  BY <1>1, <1>3, <1>6, <1>10, UnprepareLeavesNothing DEF Recording_StopPreview
<1>11. ASSUME EndCapture PROVE ChannelsFit'
  <2>1. CASE PicTaking_End
    <3>1. \A c \in Channel : m_channels[c] # "null" =>
            ~mParameters.zsl /\ c = stillChannel(mParameters)
      BY <2>1 DEF PicTaking_End, ChannelsFit, Unneeded
    <3>2. \A c \in Channel : m_channels'[c] = "null"
      BY <1>1, <2>1, <3>1 DEF PicTaking_End, cancelPicture, delChannels, stillChannel
    <3> QED
      BY <1>3, <2>1, <3>2 DEF PicTaking_End
  <2>2. CASE VideoPicTaking_End \/ PreviewPicTaking_End
    BY <1>4, <1>7, <2>2 DEF VideoPicTaking_End, PreviewPicTaking_End
  <2> QED
    BY <1>11, <2>1, <2>2 DEF EndCapture
<1>12. CASE CancelPicture
  BY <1>11, <1>12 DEF CancelPicture
<1>13. CASE VideoPicTaking_StopPreview
  <2>1. PICK ch \in ChannelMap : /\ m_channels' = unpreparePreview(ch)
                                 /\ \A c \in Channel : m_channels[c] = "null" => ch[c] = "null"
    BY <1>6, <1>7, <1>13 DEF VideoPicTaking_StopPreview
  <2>2. \A c \in Channel : m_channels'[c] = "null"
    BY <1>1, <1>13, <2>1, UnprepareLeavesNothing DEF VideoPicTaking_StopPreview
  <2> QED
    BY <1>3, <1>13, <2>2 DEF VideoPicTaking_StopPreview
<1>14. CASE PreviewPicTaking_StopPreview
  <2>1. PICK ch \in ChannelMap : /\ m_channels' = unpreparePreview(ch)
                                 /\ \A c \in Channel : m_channels[c] = "null" => ch[c] = "null"
    BY <1>6, <1>7, <1>14 DEF PreviewPicTaking_StopPreview
  <2>2. \A c \in Channel : m_channels'[c] = "null"
    BY <1>1, <1>14, <2>1, UnprepareLeavesNothing DEF PreviewPicTaking_StopPreview
  <2> QED
    BY <1>3, <1>14, <2>2 DEF PreviewPicTaking_StopPreview
<1>15. CASE PreviewStopped_Release
  BY <1>3, <1>15 DEF PreviewStopped_Release, delChannels
<1>16. ASSUME UNCHANGED <<m_state, m_channels>> PROVE ChannelsFit'
  BY <1>2, <1>16 DEF ChannelsFit, Unneeded, Committed
<1>17. CASE SnapshotDone
  BY <1>11, <1>16, <1>17 DEF SnapshotDone
<1>18. CASE NotifySnapshotDone
  BY <1>16, <1>18 DEF NotifySnapshotDone
<1> QED
  BY <1>8, <1>9, <1>10, <1>12, <1>13, <1>14, <1>15, <1>17, <1>18 DEF EndNext

\* The invariant holds under the discipline.
THEOREM FitInvariant ==
  ASSUME ~ParamErrors, ~ModeChangeWhileBusy
  PROVE  Spec => []ChannelsFit
<1>1. Init => ChannelsFit
  <2> SUFFICES ASSUME Init PROVE ChannelsFit
    OBVIOUS
  <2>1. Committed
    BY DEF Init, Committed, Parameters
  <2>2. m_state = "PREVIEW_STOPPED" /\ \A c \in Channel : m_channels[c] = "null"
    BY DEF Init
  <2> QED
    BY <2>1, <2>2 DEF ChannelsFit, Unneeded
<1>2. TypeOK /\ ChannelsFit /\ [Next]_vars => ChannelsFit'
  <2>1. CASE UNCHANGED vars
    BY <2>1 DEF vars, ChannelsFit, Unneeded, Committed
  <2> QED
    BY <2>1, FitStartPreview, FitSetParams, FitStart, FitEnd DEF Disciplined, Next
<1> QED
  BY <1>1, <1>2, TypeCorrect, PTL DEF Spec

\* When every parameter is accepted and a busy machine is not asked for another
\* mode, a stopped preview has left no channel, a still capture runs alone, and
\* its channel dies with it, whatever else fails.
THEOREM NoChannelOutlives ==
  ASSUME ~ParamErrors, ~ModeChangeWhileBusy
  PROVE  Spec => []NoChannelOutlivesItsState
  BY FitInvariant, FitImplies, PTL

-----------------------------------------------------------------------------
(* A prepared preview.                                                      *)

\* A preview prepared where there was no channel has exactly its mode's.
LEMMA PreparedExactly ==
  ASSUME NEW ch \in ChannelMap, \A c \in Channel : ch[c] = "null",
         NEW p \in Parameters, NEW a, preparePreviewOk(p, a)
  PROVE  \A c \in PreviewChannels :
           preparePreview(ch, p, a)[c] = IF c \in NeededChannels(p) THEN "added" ELSE "null"
  BY DEF preparePreview, Channel

\* A disciplined step keeps what a prepared preview has the mode's.
LEMMA PreparedStep ==
  ASSUME Disciplined, TypeOK, ChannelsFit, PreparedForItsMode, [Next]_vars
  PROVE  PreparedForItsMode'
<1>0. /\ m_channels \in ChannelMap /\ mParameters \in Parameters /\ Committed
      /\ m_state # "PIC_TAKING" =>
           \A c \in Channel \ NeededChannels(mParameters) : m_channels[c] = "null"
  BY DEF TypeOK, ChannelMap, ChannelsFit, Unneeded
<1> SUFFICES ASSUME m_state' = "PREVIEW_READY"
             PROVE  /\ ~mPreviewWindow'
                    /\ \A c \in PreviewChannels :
                         m_channels'[c] = IF c \in NeededChannels(mParameters')
                                          THEN "added" ELSE "null"
  BY DEF PreparedForItsMode
<1>1. CASE /\ m_state = "PREVIEW_READY" /\ ~mPreviewWindow' /\ m_channels' = m_channels
           /\ mParameters'.zsl = mParameters.zsl /\ mParameters'.hint = mParameters.hint
  BY <1>1, ModeDecides DEF PreparedForItsMode
<1>2. CASE StartPreviewNext
  <2>1. CASE PreviewStopped_StartPreviewNoWindow
    <3>1. PICK a : /\ m_channels' = preparePreview(m_channels, mParameters, a)
                   /\ m_state' = IF preparePreviewOk(mParameters, a)
                                 THEN "PREVIEW_READY" ELSE m_state
      BY <2>1 DEF PreviewStopped_StartPreviewNoWindow
    <3>2. /\ m_state = "PREVIEW_STOPPED" /\ ~mPreviewWindow'
          /\ mParameters' = mParameters
      BY <2>1 DEF PreviewStopped_StartPreviewNoWindow
    <3> QED
      BY <1>0, <3>1, <3>2, PreparedExactly DEF ChannelsFit
  <2>2. CASE PreviewReady_SetPreviewWindow
    BY <1>1, <2>2 DEF PreviewReady_SetPreviewWindow, TypeOK
  <2> QED
    BY <1>2, <2>1, <2>2
    DEF StartPreviewNext, PreviewStopped_StartPreview, PreviewStopped_StartNoDisplayPreview,
        BringUpPreview, PreviewStopped_SetPreviewWindow
<1>3. CASE SetParamsNext
  <2>1. PreviewReady_SetParams
    BY <1>3 DEF SetParamsNext, SetParamsNoRestart, SetParamsWhileRecording,
       Previewing_SetParams, PreviewPicTaking_SetParams, SetParamsRestart, RecState
  <2>2. m_state = "PREVIEW_READY" /\ ~mPreviewWindow'
    BY <2>1 DEF PreviewReady_SetParams, PreparedForItsMode
  <2>3. PICK r \in Requests, outcome \in ParamOutcome :
          /\ mParameters' = commitSetBatch(updateParameters(mParameters, r), outcome)
          /\ IF outcome # "rejected" /\ needRestart(mParameters, r)
             THEN \E a \in AddFault(mParameters') :
                    /\ m_channels' = preparePreview(unpreparePreview(m_channels),
                                                    mParameters', a)
                    /\ m_state' = IF preparePreviewOk(mParameters', a)
                                  THEN m_state ELSE "PREVIEW_STOPPED"
             ELSE UNCHANGED <<m_state, m_channels>>
    BY <2>1 DEF PreviewReady_SetParams
  <2>4. outcome = "ok" /\ mParameters' \in Parameters
    BY <1>0, <2>3, CommittedRequest
  <2>5. CASE needRestart(mParameters, r)
    BY <1>0, <2>2, <2>3, <2>4, <2>5, UnprepareLeavesNothing, PreparedExactly
  <2>6. CASE ~needRestart(mParameters, r)
    BY <1>0, <1>1, <2>2, <2>3, <2>6, CommittedRequest
  <2> QED
    BY <2>5, <2>6
<1>4. CASE StartNext
  <2>1. CASE Previewing_StartRecording \/ PreviewPicTaking_StartRecording
    BY <2>1, StartRecordingType
    DEF Previewing_StartRecording, PreviewPicTaking_StartRecording, State
  <2>2. CASE Previewing_TakeLiveSnapshot \/ Recording_TakePicture
    BY <2>2, TakeLiveSnapshotType
    DEF Previewing_TakeLiveSnapshot, Recording_TakePicture, State
  <2> QED
    BY <1>4, <2>1, <2>2
    DEF StartNext, Previewing_PrepareSnapshot, PrepareSnapshot_Done, Previewing_TakePicture
<1>5. CASE EndNext
  <2>1. m_state' = m_state /\ m_channels' = m_channels
        /\ UNCHANGED <<mPreviewWindow, mParameters>>
    BY <1>5, EndCaptureType
    DEF EndNext, StopPreview, StopRecording, Recording_StopPreview, CancelPicture,
        VideoPicTaking_StopPreview, PreviewPicTaking_StopPreview, PreviewStopped_Release,
        SnapshotDone, NotifySnapshotDone, EndCapture, PicTaking_End, VideoPicTaking_End,
        PreviewPicTaking_End, RecState
  <2> QED
    BY <1>1, <2>1 DEF PreparedForItsMode
<1>6. CASE UNCHANGED vars
  BY <1>1, <1>6 DEF vars, PreparedForItsMode
<1> QED
  BY <1>2, <1>3, <1>4, <1>5, <1>6 DEF Next

\* Under the same discipline a prepared preview waits for its window with
\* exactly the channels of the mode in force, none of them started.
THEOREM PreparedCorrect ==
  ASSUME ~ParamErrors, ~ModeChangeWhileBusy
  PROVE  Spec => []PreparedForItsMode
<1>1. Init => PreparedForItsMode
  BY DEF Init, PreparedForItsMode
<1>2. TypeOK /\ ChannelsFit /\ PreparedForItsMode /\ [Next]_vars => PreparedForItsMode'
  BY PreparedStep DEF Disciplined
<1> QED
  BY <1>1, <1>2, FitInvariant, TypeCorrect, PTL DEF Spec

-----------------------------------------------------------------------------
(* How a preview is lost, in every environment.                             *)

\* A preview that was brought up streams.
LEMMA BroughtUpStreams ==
  ASSUME NEW ch \in ChannelMap, NEW p \in Parameters, NEW a, NEW f, bringUpPreviewOk(p, a, f)
  PROVE  bringUpPreview(ch, p, a, f)[previewChannel(p)] = "active"
<1>1. previewChannel(p) \in NeededChannels(p) /\ previewChannel(p) \in Channel
  BY NeededType DEF Channel
<1>2. preparePreview(ch, p, a) \in ChannelMap
  BY PreparePreview
<1>3. preparePreview(ch, p, a)[previewChannel(p)] = "added"
  BY <1>1 DEF bringUpPreviewOk, preparePreview
<1> QED
  BY <1>1, <1>2, <1>3 DEF bringUpPreview, bringUpPreviewOk, startChannel, startChannelOk,
     ChannelMap

\* Apart from START_RECORDING, a step into a running preview starts it or finds
\* it as it is.
LEMMA PreviewLostStep ==
  ASSUME TypeOK, [Next]_vars, isPreviewRunning', ~StartRecordingStep
  PROVE  PreviewActive' \/ (isPreviewRunning /\ (PreviewActive => PreviewActive'))
<1>0. /\ m_channels \in ChannelMap /\ mParameters \in Parameters
      /\ {"PREVIEW", "ZSL", "SNAPSHOT", "VIDEO"} \subseteq Channel
      /\ previewChannel(mParameters) \in {"PREVIEW", "ZSL"}
  BY NeededType DEF TypeOK, ChannelMap, Channel, PreviewChannels
<1>1. CASE isPreviewRunning /\ \A c \in {"PREVIEW", "ZSL"} : m_channels'[c] = m_channels[c]
  BY <1>1 DEF PreviewActive
<1>2. CASE StartPreviewNext
  <2>1. CASE BringUpPreview
    <3>1. PICK a, f : /\ m_channels' = bringUpPreview(m_channels, mParameters, a, f)
                      /\ bringUpPreviewOk(mParameters, a, f)
      BY <2>1 DEF BringUpPreview, isPreviewRunning
    <3> QED
      BY <1>0, <3>1, BroughtUpStreams DEF PreviewActive
  <2>2. CASE PreviewReady_SetPreviewWindow
    <3>1. PICK f : /\ m_channels' = startChannel(m_channels, previewChannel(mParameters), f)
                   /\ startChannelOk(m_channels, previewChannel(mParameters), f)
      BY <2>2 DEF PreviewReady_SetPreviewWindow, isPreviewRunning
    <3>2. m_channels'[previewChannel(mParameters)] = "active"
      BY <1>0, <3>1 DEF startChannel, ChannelMap
    <3> QED
      BY <1>0, <3>2 DEF PreviewActive
  <2> QED
    BY <1>2, <2>1, <2>2
    DEF StartPreviewNext, PreviewStopped_StartPreview, PreviewStopped_StartNoDisplayPreview,
        PreviewStopped_SetPreviewWindow, PreviewStopped_StartPreviewNoWindow, isPreviewRunning
<1>3. CASE SetParamsNext
  <2>1. CASE SetParamsNoRestart \/ SetParamsWhileRecording \/ PreviewReady_SetParams
    BY <1>1, <2>1 DEF SetParamsNoRestart, SetParamsWhileRecording, PreviewReady_SetParams,
       isPreviewRunning, RecState
  <2>2. ASSUME NEW lost \in {"PREVIEW_STOPPED", "PIC_TAKING"}, isPreviewRunning,
               SetParamsRestart(lost)
        PROVE  PreviewActive' \/ (isPreviewRunning /\ (PreviewActive => PreviewActive'))
    <3>1. mParameters' \in Parameters
      BY <1>0, <2>2, ParametersType DEF SetParamsRestart
    <3>2. CASE m_channels' = m_channels
      BY <1>1, <2>2, <3>2
    <3>3. CASE m_channels' # m_channels
      <4>1. PICK a, f : /\ m_channels' = bringUpPreview(unpreparePreview(m_channels),
                                                        mParameters', a, f)
                        /\ bringUpPreviewOk(mParameters', a, f)
        BY <2>2, <3>3 DEF SetParamsRestart, isPreviewRunning
      <4>2. unpreparePreview(m_channels) \in ChannelMap
        BY <1>0, UnprepareVideo
      <4>3. previewChannel(mParameters') \in {"PREVIEW", "ZSL"}
        BY <3>1, NeededType
      <4> QED
        BY <3>1, <4>1, <4>2, <4>3, BroughtUpStreams DEF PreviewActive
    <3> QED
      BY <3>2, <3>3
  <2> QED
    BY <1>3, <2>1, <2>2
    DEF SetParamsNext, Previewing_SetParams, PreviewPicTaking_SetParams, isPreviewRunning
<1>4. CASE StartNext
  <2>1. CASE Previewing_PrepareSnapshot \/ PrepareSnapshot_Done
    BY <1>1, <2>1 DEF Previewing_PrepareSnapshot, PrepareSnapshot_Done, isPreviewRunning
  <2>2. CASE Previewing_TakePicture
    BY <1>1, <2>2 DEF Previewing_TakePicture, takePicture, isPreviewRunning
  <2>3. CASE Previewing_TakeLiveSnapshot \/ Recording_TakePicture
    <3>1. m_channels' \in {m_channels, [m_channels EXCEPT !["SNAPSHOT"] = "active"]}
      BY <2>3, TakeLiveSnapshotType
      DEF Previewing_TakeLiveSnapshot, Recording_TakePicture, State
    <3> QED
      BY <1>0, <1>1, <2>3, <3>1
      DEF Previewing_TakeLiveSnapshot, Recording_TakePicture, isPreviewRunning, ChannelMap
  <2> QED
    BY <1>4, <2>1, <2>2, <2>3 DEF StartNext, StartRecordingStep
<1>5. CASE EndNext
  <2>1. CASE StopRecording
    BY <1>0, <1>1, <2>1 DEF StopRecording, stopChannel, ChannelMap, RecState, isPreviewRunning
  <2>2. ASSUME EndCapture
        PROVE  PreviewActive' \/ (isPreviewRunning /\ (PreviewActive => PreviewActive'))
    <3>1. \A c \in {"PREVIEW", "ZSL"} : m_channels'[c] = m_channels[c]
      BY <2>2, EndCaptureType DEF PreviewChannels
    <3> QED
      BY <1>1, <2>2, <3>1
      DEF EndCapture, PicTaking_End, VideoPicTaking_End, PreviewPicTaking_End, isPreviewRunning
  <2>3. CASE CancelPicture
    BY <2>2, <2>3 DEF CancelPicture
  <2>4. CASE SnapshotDone
    BY <1>1, <2>2, <2>4 DEF SnapshotDone, isPreviewRunning
  <2>5. CASE NotifySnapshotDone
    BY <1>1, <2>5 DEF NotifySnapshotDone, isPreviewRunning
  <2> QED
    BY <1>5, <2>1, <2>3, <2>4, <2>5
    DEF EndNext, StopPreview, Recording_StopPreview, VideoPicTaking_StopPreview,
        PreviewPicTaking_StopPreview, PreviewStopped_Release, isPreviewRunning
<1>6. CASE UNCHANGED vars
  BY <1>1, <1>6 DEF vars, isPreviewRunning
<1> QED
  BY <1>2, <1>3, <1>4, <1>5, <1>6 DEF Next

\* In every environment the machine comes to claim a preview that does not
\* stream only through a START_RECORDING that failed to rebuild it.
THEOREM PreviewLostCorrect == Spec => PreviewLostOnlyByStartRecording
<1>1. TypeOK /\ [Next]_vars =>
        [isPreviewRunning' /\ ~PreviewActive' =>
           StartRecordingStep \/ (isPreviewRunning /\ ~PreviewActive)]_vars
  BY PreviewLostStep
<1> QED
  BY <1>1, TypeCorrect, PTL DEF Spec, PreviewLostOnlyByStartRecording
=============================================================================
