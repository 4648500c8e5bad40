---------------------- MODULE CameraStateMachine_proofs ----------------------
(***************************************************************************)
(* Proofs about CameraStateMachine for every environment: what the channel *)
(* and parameter operators return, type correctness, that the video        *)
(* channel streams exactly while the machine records, what a way out of a  *)
(* capture leaves behind, and the refinement of CameraSession.             *)
(***************************************************************************)
EXTENDS CameraStateMachine, TLAPS

ChannelMap == [Channel -> {"null", "added", "active"}]

-----------------------------------------------------------------------------
(* What the helpers return.                                                 *)

\* A commit keeps parameters parameters.
LEMMA CommitType ==
  \A q \in Parameters : \A outcome : commitSetBatch(q, outcome) \in Parameters
<1>1. \A q \in Parameters : commitParamChanges(q) \in Parameters
  BY DEF commitParamChanges, Parameters
<1> QED
  BY <1>1 DEF commitSetBatch

\* The parameter operators map parameters to parameters.
LEMMA ParametersType ==
  ASSUME NEW p \in Parameters, NEW r \in Requests, NEW outcome
  PROVE  /\ updateParameters(p, r) \in Parameters
         /\ commitSetBatch(p, outcome) \in Parameters
         /\ updateRecordingHintValue(p, outcome) \in Parameters
         /\ commitSetBatch(updateParameters(p, r), outcome) \in Parameters
<1>1. r.zsl \in BOOLEAN /\ r.hint \in BOOLEAN /\ r.raw \in BOOLEAN
  BY DEF Requests, Request
<1>2. updateParameters(p, r) \in Parameters
  <2> DEFINE c == IF r.hint # p.hintKey THEN r.hint ELSE p.hintNew
             d == p.hintSet \/ r.hint # p.hintKey
             e == IF r.hint # p.hintKey THEN r.hint ELSE p.hintTmp
  <2>1. c \in BOOLEAN /\ d \in BOOLEAN /\ e \in BOOLEAN
    BY <1>1 DEF Parameters
  <2>2. updateParameters(p, r) = [p EXCEPT !.zslNew = r.zsl, !.raw = r.raw, !.hintNew = c,
                                           !.hintSet = d, !.hintTmp = e]
    BY DEF updateParameters
  <2> HIDE DEF c, d, e
  <2>3. [p EXCEPT !.zslNew = r.zsl, !.raw = r.raw, !.hintNew = c, !.hintSet = d, !.hintTmp = e]
          \in Parameters
    BY <1>1, <2>1 DEF Parameters
  <2> QED
    BY <2>2, <2>3
<1>3. [p EXCEPT !.hintNew = TRUE] \in Parameters
  BY DEF Parameters
<1>4. /\ commitSetBatch(p, outcome) \in Parameters
      /\ commitSetBatch(updateParameters(p, r), outcome) \in Parameters
      /\ commitSetBatch([p EXCEPT !.hintNew = TRUE], outcome) \in Parameters
  BY <1>2, <1>3, CommitType
<1> QED
  BY <1>2, <1>4 DEF updateRecordingHintValue

\* The channels a mode needs, and those a failed addition empties.
LEMMA NeededType ==
  ASSUME NEW p \in Parameters
  PROVE  /\ NeededChannels(p) \subseteq PreviewChannels
         /\ previewChannel(p) \in NeededChannels(p)
         /\ previewChannel(p) \in {"ZSL", "PREVIEW"}
  BY DEF NeededChannels, previewChannel, PreviewChannels

\* Deleting, stopping and starting channels.
LEMMA ChannelOps ==
  ASSUME NEW ch \in ChannelMap, NEW c \in Channel, NEW C, NEW fault
  PROVE  /\ delChannels(ch, C) \in ChannelMap
         /\ stopChannel(ch, c) \in ChannelMap
         /\ startChannel(ch, c, fault) \in ChannelMap
  BY DEF delChannels, stopChannel, startChannel, ChannelMap

\* preparePreview adds channels and never starts one: a channel that streams
\* afterwards streamed before.
LEMMA PreparePreview ==
  ASSUME NEW ch \in ChannelMap, NEW p \in Parameters, NEW fault
  PROVE  /\ preparePreview(ch, p, fault) \in ChannelMap
         /\ \A c \in Channel : preparePreview(ch, p, fault)[c] = "active" => ch[c] = "active"
  BY DEF preparePreview, delChannels, ChannelMap

\* bringUpPreview starts at most the preview channel of the mode, and starts it
\* exactly when it succeeds.
LEMMA BringUp ==
  ASSUME NEW ch \in ChannelMap, NEW p \in Parameters,
         NEW addFault, NEW startFault
  PROVE  /\ bringUpPreview(ch, p, addFault, startFault) \in ChannelMap
         /\ \A c \in Channel \ {previewChannel(p)} :
              bringUpPreview(ch, p, addFault, startFault)[c] = "active" => ch[c] = "active"
         /\ bringUpPreviewOk(p, addFault, startFault) =>
              bringUpPreview(ch, p, addFault, startFault)[previewChannel(p)] = "active"
<1>1. previewChannel(p) \in Channel
  BY NeededType DEF Channel, PreviewChannels
<1>2. preparePreview(ch, p, addFault) \in ChannelMap
  BY PreparePreview
<1>3. startChannel(preparePreview(ch, p, addFault), previewChannel(p), startFault) \in ChannelMap
  BY <1>1, <1>2, ChannelOps
<1>4. unpreparePreview(ch) \in ChannelMap
  BY <1>1, ChannelOps DEF unpreparePreview
<1>5. \A c \in Channel : unpreparePreview(ch)[c] = "active" => ch[c] = "active"
  BY DEF unpreparePreview, delChannels
<1>6. \A c \in Channel \ {previewChannel(p)} :
        startChannel(preparePreview(ch, p, addFault), previewChannel(p), startFault)[c]
          = preparePreview(ch, p, addFault)[c]
  BY <1>1, <1>2 DEF startChannel, ChannelMap
<1>7. ASSUME bringUpPreviewOk(p, addFault, startFault)
      PROVE  bringUpPreview(ch, p, addFault, startFault)[previewChannel(p)] = "active"
  <2>1. preparePreview(ch, p, addFault)[previewChannel(p)] = "added"
    BY <1>1, <1>7, NeededType DEF preparePreview, bringUpPreviewOk
  <2>2. startChannelOk(preparePreview(ch, p, addFault), previewChannel(p), startFault)
    BY <1>7, <2>1 DEF startChannelOk, bringUpPreviewOk
  <2> QED
    BY <1>1, <1>2, <1>7, <2>2 DEF bringUpPreview, startChannel, ChannelMap
<1> QED
  BY <1>2, <1>3, <1>4, <1>5, <1>6, <1>7, PreparePreview DEF bringUpPreview

\* Ends of captures only take channels away, so none of them starts one.
LEMMA CancelOps ==
  ASSUME NEW ch \in ChannelMap, NEW p \in Parameters
  PROVE  /\ cancelPicture(ch, p) \in ChannelMap
         /\ cancelLiveSnapshot(ch) \in ChannelMap
         /\ \A c \in PreviewChannels : cancelPicture(ch, p)[c] = ch[c]
         /\ \A c \in Channel \ {"SNAPSHOT"} : cancelLiveSnapshot(ch)[c] = ch[c]
<1>1. "SNAPSHOT" \in Channel
  BY DEF Channel, PreviewChannels
<1>2. cancelPicture(ch, p) \in ChannelMap /\ cancelLiveSnapshot(ch) \in ChannelMap
  BY <1>1, ChannelOps DEF cancelPicture, cancelLiveSnapshot
<1>3. \A c \in PreviewChannels : cancelPicture(ch, p)[c] = ch[c]
  BY DEF cancelPicture, delChannels, PreviewChannels, Channel
<1>4. \A c \in Channel \ {"SNAPSHOT"} : cancelLiveSnapshot(ch)[c] = ch[c]
  BY <1>1 DEF cancelLiveSnapshot, stopChannel, ChannelMap
<1> QED
  BY <1>2, <1>3, <1>4

\* A capture touches the preview channels only to delete the normal preview.
LEMMA TakePictureOps ==
  ASSUME NEW ch \in ChannelMap, NEW p \in Parameters, NEW fault
  PROVE  /\ takePicture(ch, p, fault) \in ChannelMap
         /\ \A c \in PreviewChannels : takePicture(ch, p, fault)[c] = "active" => ch[c] = "active"
         /\ p.zsl => takePicture(ch, p, fault) = ch
<1> DEFINE base == delChannels(ch, {"PREVIEW"})
<1>1. base \in ChannelMap
  BY "PREVIEW" \in Channel, ChannelOps DEF Channel, PreviewChannels
<1>2. stillChannel(p) \in Channel \ PreviewChannels
  BY DEF stillChannel, Channel, StillChannels, PreviewChannels
<1>3. delChannels(base, {stillChannel(p)}) \in ChannelMap
  BY <1>1, <1>2, ChannelOps
<1>4. [base EXCEPT ![stillChannel(p)] = "active"] \in ChannelMap
  BY <1>1, <1>2 DEF ChannelMap
<1>5. \A c \in PreviewChannels :
        /\ base[c] = "active" => ch[c] = "active"
        /\ delChannels(base, {stillChannel(p)})[c] = base[c]
        /\ [base EXCEPT ![stillChannel(p)] = "active"][c] = base[c]
  BY <1>1, <1>2 DEF delChannels, Channel, ChannelMap
<1> HIDE DEF base
<1>6. \/ takePicture(ch, p, fault) = ch
      \/ ~p.zsl /\ takePicture(ch, p, fault) \in
           {base, [base EXCEPT ![stillChannel(p)] = "active"], delChannels(base, {stillChannel(p)})}
  BY DEF takePicture, base
<1>7. p.zsl => takePicture(ch, p, fault) = ch
  BY DEF takePicture
<1> QED
  BY <1>1, <1>3, <1>4, <1>5, <1>6, <1>7

-----------------------------------------------------------------------------
(* Type correctness.                                                        *)

LEMMA InitType == Init => TypeOK
  BY DEF Init, TypeOK, State, Parameters

\* What startRecording leaves, in the terms of its parts.
LEMMA StartRecordingParts ==
  ASSUME NEW next, startRecording(next)
  PROVE  \E o \in ParamOutcome \ {"rejected"} : \E a, f :
           /\ mParameters' = recordingParameters(o)
           /\ m_channels' =
                IF rebuildOk(recordingParameters(o), a, f)
                THEN startChannel(viewingChannels(recordingParameters(o), a, f), "VIDEO", f)
                ELSE viewingChannels(recordingParameters(o), a, f)
           /\ m_state' =
                IF /\ rebuildOk(recordingParameters(o), a, f)
                   /\ startChannelOk(viewingChannels(recordingParameters(o), a, f), "VIDEO", f)
                THEN next ELSE m_state
<1>1. PICK o \in ParamOutcome \ {"rejected"} :
        \E a \in AddFault(recordingParameters(o)), f \in {NoFault, "PREVIEW", "VIDEO"} :
           /\ mParameters' = recordingParameters(o)
           /\ m_channels' =
                IF rebuildOk(recordingParameters(o), a, f)
                THEN startChannel(viewingChannels(recordingParameters(o), a, f), "VIDEO", f)
                ELSE viewingChannels(recordingParameters(o), a, f)
           /\ m_state' =
                IF /\ rebuildOk(recordingParameters(o), a, f)
                   /\ startChannelOk(viewingChannels(recordingParameters(o), a, f), "VIDEO", f)
                THEN next ELSE m_state
  BY DEF startRecording
<1> QED
  BY <1>1

\* The parameters and the channels startRecording passes through.
LEMMA RecordingParts ==
  ASSUME TypeOK
  PROVE  /\ \A o : recordingParameters(o) \in Parameters
         /\ \A p \in Parameters : \A a : rebuiltChannels(p, a) \in ChannelMap
         /\ \A p \in Parameters : \A a, f : viewingChannels(p, a, f) \in ChannelMap
<1>1. m_channels \in ChannelMap /\ mParameters \in Parameters
  BY DEF TypeOK, ChannelMap
<1>2. [mParameters EXCEPT !.hintNew = TRUE] \in Parameters
  BY <1>1 DEF Parameters
<1>3. \A o : recordingParameters(o) \in Parameters
  BY <1>1, <1>2, CommitType DEF recordingParameters, updateRecordingHintValue
<1>4. "PREVIEW" \in Channel /\ "VIDEO" \in Channel
  BY DEF Channel, PreviewChannels
<1>5. unpreparePreview(m_channels) \in ChannelMap
  BY <1>1, ChannelOps, <1>4 DEF unpreparePreview
<1>6. \A p \in Parameters : \A a : rebuiltChannels(p, a) \in ChannelMap
  BY <1>1, <1>5, PreparePreview DEF rebuiltChannels
<1>7. \A p \in Parameters : \A a, f : viewingChannels(p, a, f) \in ChannelMap
  BY <1>4, <1>6, ChannelOps DEF viewingChannels
<1> QED
  BY <1>3, <1>6, <1>7

\* startRecording and takeLiveSnapshot, the two handlers several states share.
LEMMA StartRecordingType ==
  ASSUME TypeOK, NEW next \in State, startRecording(next)
  PROVE  /\ m_state' \in {m_state, next}
         /\ m_channels' \in ChannelMap
         /\ mParameters' \in Parameters
<1>1. PICK o, a, f :
        /\ mParameters' = recordingParameters(o)
        /\ m_channels' \in {viewingChannels(recordingParameters(o), a, f),
             startChannel(viewingChannels(recordingParameters(o), a, f), "VIDEO", f)}
        /\ m_state' \in {m_state, next}
  BY StartRecordingParts
<1>2. recordingParameters(o) \in Parameters
  BY RecordingParts
<1>3. viewingChannels(recordingParameters(o), a, f) \in ChannelMap
  BY <1>2, RecordingParts
<1>4. "VIDEO" \in Channel
  BY DEF Channel, PreviewChannels
<1>5. startChannel(viewingChannels(recordingParameters(o), a, f), "VIDEO", f) \in ChannelMap
  BY <1>3, <1>4, ChannelOps
<1> QED
  BY <1>1, <1>2, <1>3, <1>5

LEMMA TakeLiveSnapshotType ==
  ASSUME TypeOK, NEW next \in State, takeLiveSnapshot(next)
  PROVE  /\ m_state' \in {m_state, next}
         /\ m_channels' \in {m_channels, [m_channels EXCEPT !["SNAPSHOT"] = "active"]}
         /\ m_channels' \in ChannelMap
         /\ postproc' \in BOOLEAN
<1>1. /\ m_state' \in {m_state, next}
      /\ m_channels' \in {m_channels, [m_channels EXCEPT !["SNAPSHOT"] = "active"]}
  BY DEF takeLiveSnapshot
<1>2. m_channels' \in ChannelMap
  BY <1>1 DEF TypeOK, ChannelMap
<1>3. postproc' \in BOOLEAN
  BY Zenon DEF takeLiveSnapshot, TypeOK
<1> QED
  BY <1>1, <1>2, <1>3

\* An end of a capture leaves types alone and changes no channel but its own.
LEMMA EndCaptureType ==
  ASSUME TypeOK, EndCapture
  PROVE  /\ m_state \in PicState
         /\ m_state' \in State \ PicState
         /\ m_channels' \in ChannelMap
         /\ \A c \in PreviewChannels \ {"SNAPSHOT"} : m_channels'[c] = m_channels[c]
         /\ m_state' \in RecState <=> m_state \in RecState
<1>1. m_channels \in ChannelMap /\ mParameters \in Parameters
  BY DEF TypeOK, ChannelMap
<1>2. m_channels' \in {cancelPicture(m_channels, mParameters), cancelLiveSnapshot(m_channels)}
  BY DEF EndCapture, PicTaking_End, VideoPicTaking_End, PreviewPicTaking_End
<1>3. /\ m_channels' \in ChannelMap
      /\ \A c \in PreviewChannels \ {"SNAPSHOT"} : m_channels'[c] = m_channels[c]
  BY <1>1, <1>2, CancelOps DEF Channel
<1> QED
  BY <1>3 DEF EndCapture, PicTaking_End, VideoPicTaking_End, PreviewPicTaking_End,
     PicState, RecState, State

\* A step preserves the types: one case per group of actions.
LEMMA StartPreviewType == TypeOK /\ StartPreviewNext => TypeOK'
<1> SUFFICES ASSUME TypeOK, StartPreviewNext PROVE TypeOK'
  OBVIOUS
<1>0. /\ m_channels \in ChannelMap /\ mParameters \in Parameters
      /\ previewChannel(mParameters) \in Channel /\ "ZSL" \in Channel
  BY NeededType DEF TypeOK, ChannelMap, Channel, PreviewChannels
<1>1. CASE PreviewStopped_StartPreviewNoWindow
  <2>1. m_channels' \in ChannelMap /\ m_state' \in State
    BY <1>0, <1>1, PreparePreview DEF PreviewStopped_StartPreviewNoWindow, State, TypeOK
  <2> QED
    BY <1>1, <2>1 DEF PreviewStopped_StartPreviewNoWindow, CaptureUnchanged, TypeOK, ChannelMap
<1>2. CASE PreviewStopped_StartPreview \/ PreviewStopped_StartNoDisplayPreview
  <2>1. BringUpPreview
    BY <1>2 DEF PreviewStopped_StartPreview, PreviewStopped_StartNoDisplayPreview
  <2>2. m_channels' \in ChannelMap /\ m_state' \in State
    BY <1>0, <2>1, BringUp DEF BringUpPreview, State, TypeOK
  <2> QED
    BY <2>1, <2>2 DEF BringUpPreview, CaptureUnchanged, TypeOK, ChannelMap
<1>3. CASE PreviewStopped_SetPreviewWindow
  BY <1>3 DEF PreviewStopped_SetPreviewWindow, CaptureUnchanged, TypeOK
<1>4. CASE PreviewReady_SetPreviewWindow
  <2>1. m_channels' \in ChannelMap /\ m_state' \in State
    BY <1>0, <1>4, ChannelOps DEF PreviewReady_SetPreviewWindow, unpreparePreview, State, TypeOK
  <2> QED
    BY <1>4, <2>1 DEF PreviewReady_SetPreviewWindow, CaptureUnchanged, TypeOK, ChannelMap
<1> QED
  BY <1>1, <1>2, <1>3, <1>4 DEF StartPreviewNext

LEMMA SetParamsType == TypeOK /\ SetParamsNext => TypeOK'
<1> SUFFICES ASSUME TypeOK, SetParamsNext PROVE TypeOK'
  OBVIOUS
<1>0. /\ m_channels \in ChannelMap /\ mParameters \in Parameters /\ "ZSL" \in Channel
      /\ unpreparePreview(m_channels) \in ChannelMap
  BY ChannelOps DEF TypeOK, ChannelMap, Channel, PreviewChannels, unpreparePreview
<1>1. CASE SetParamsNoRestart
  <2>1. mParameters' \in Parameters
    BY <1>0, <1>1, ParametersType DEF SetParamsNoRestart
  <2> QED
    BY <1>1, <2>1 DEF SetParamsNoRestart, CaptureUnchanged, TypeOK
<1>2. CASE SetParamsWhileRecording
  <2>1. mParameters' \in Parameters
    BY <1>0, <1>2, ParametersType DEF SetParamsWhileRecording
  <2> QED
    BY <1>2, <2>1 DEF SetParamsWhileRecording, CaptureUnchanged, TypeOK
<1>3. CASE PreviewReady_SetParams
  <2>1. mParameters' \in Parameters
    BY <1>0, <1>3, ParametersType DEF PreviewReady_SetParams
  <2>2. m_channels' \in ChannelMap /\ m_state' \in State
    BY <1>0, <1>3, <2>1, PreparePreview DEF PreviewReady_SetParams, State, TypeOK
  <2> QED
    BY <1>3, <2>1, <2>2 DEF PreviewReady_SetParams, CaptureUnchanged, TypeOK, ChannelMap
<1>4. ASSUME NEW lost \in State, SetParamsRestart(lost) PROVE TypeOK'
  <2>1. mParameters' \in Parameters
    BY <1>0, <1>4, ParametersType DEF SetParamsRestart
  <2>2. m_channels' \in ChannelMap /\ m_state' \in State
    BY <1>0, <1>4, <2>1, BringUp DEF SetParamsRestart, TypeOK
  <2> QED
    BY <1>4, <2>1, <2>2 DEF SetParamsRestart, CaptureUnchanged, TypeOK, ChannelMap
<1> QED
  BY <1>1, <1>2, <1>3, <1>4
  DEF SetParamsNext, Previewing_SetParams, PreviewPicTaking_SetParams, State

LEMMA StartType == TypeOK /\ StartNext => TypeOK'
<1> SUFFICES ASSUME TypeOK, StartNext PROVE TypeOK'
  OBVIOUS
<1>0. m_channels \in ChannelMap /\ mParameters \in Parameters
  BY DEF TypeOK, ChannelMap
<1>1. CASE Previewing_StartRecording \/ PreviewPicTaking_StartRecording
  <2>1. m_state' \in State /\ m_channels' \in ChannelMap /\ mParameters' \in Parameters
    BY <1>1, StartRecordingType
    DEF Previewing_StartRecording, PreviewPicTaking_StartRecording, TypeOK, State
  <2>2. UNCHANGED <<mPreviewWindow, postproc, snapshotEvt>>
    BY <1>1 DEF Previewing_StartRecording, PreviewPicTaking_StartRecording, CaptureUnchanged
  <2> QED
    BY <2>1, <2>2 DEF TypeOK, ChannelMap
<1>2. CASE Previewing_PrepareSnapshot \/ PrepareSnapshot_Done
  BY <1>2 DEF Previewing_PrepareSnapshot, PrepareSnapshot_Done, CaptureUnchanged, TypeOK, State
<1>3. CASE Previewing_TakePicture
  <2>1. m_channels' \in ChannelMap
    BY <1>0, <1>3, TakePictureOps DEF Previewing_TakePicture
  <2>2. m_state' \in State
    BY <1>3 DEF Previewing_TakePicture, State
  <2>3. postproc' \in BOOLEAN
    BY <1>3, Zenon DEF Previewing_TakePicture, takePicturePostproc, TypeOK
  <2> QED
    BY <1>3, <2>1, <2>2, <2>3 DEF Previewing_TakePicture, TypeOK, ChannelMap
<1>4. CASE Previewing_TakeLiveSnapshot \/ Recording_TakePicture
  <2>1. /\ m_state' \in State /\ m_channels' \in ChannelMap
        /\ postproc' \in BOOLEAN
    BY <1>4, TakeLiveSnapshotType
    DEF Previewing_TakeLiveSnapshot, Recording_TakePicture, TypeOK, State
  <2>2. UNCHANGED <<mPreviewWindow, mParameters, snapshotEvt>>
    BY <1>4 DEF Previewing_TakeLiveSnapshot, Recording_TakePicture
  <2> QED
    BY <2>1, <2>2 DEF TypeOK, ChannelMap
<1> QED
  BY <1>1, <1>2, <1>3, <1>4 DEF StartNext

\* Stopping the preview in the middle of a capture.
LEMMA StopInCapture ==
  ASSUME TypeOK, VideoPicTaking_StopPreview \/ PreviewPicTaking_StopPreview
  PROVE  \E ch \in ChannelMap : m_channels' = unpreparePreview(ch)
<1>0. /\ m_channels \in ChannelMap /\ mParameters \in Parameters
      /\ {"VIDEO", "ZSL", "PREVIEW"} \subseteq Channel
  BY DEF TypeOK, ChannelMap, Channel, PreviewChannels
<1>1. /\ cancelLiveSnapshot(m_channels) \in ChannelMap
      /\ cancelPicture(m_channels, mParameters) \in ChannelMap
  BY <1>0, CancelOps
<1>2. \A ch \in ChannelMap, c \in {"VIDEO", "ZSL", "PREVIEW"} : stopChannel(ch, c) \in ChannelMap
  BY <1>0, ChannelOps
<1> QED
  BY <1>1, <1>2 DEF VideoPicTaking_StopPreview, PreviewPicTaking_StopPreview

LEMMA EndType == TypeOK /\ EndNext => TypeOK'
<1> SUFFICES ASSUME TypeOK, EndNext PROVE TypeOK'
  OBVIOUS
<1>0. /\ m_channels \in ChannelMap /\ {"VIDEO", "ZSL"} \subseteq Channel
      /\ \A ch \in ChannelMap : unpreparePreview(ch) \in ChannelMap
  BY ChannelOps DEF TypeOK, ChannelMap, Channel, PreviewChannels, unpreparePreview
<1>1. CASE StopPreview \/ PreviewStopped_Release
  <2>1. m_channels' \in ChannelMap
    BY <1>0, <1>1, ChannelOps DEF StopPreview, PreviewStopped_Release
  <2> QED
    BY <1>1, <2>1 DEF StopPreview, PreviewStopped_Release, CaptureUnchanged, TypeOK, State, ChannelMap
<1>2. CASE StopRecording \/ Recording_StopPreview
  <2>1. m_channels' \in ChannelMap
    BY <1>0, <1>2, ChannelOps DEF StopRecording, Recording_StopPreview
  <2> QED
    BY <1>2, <2>1 DEF StopRecording, Recording_StopPreview, CaptureUnchanged, TypeOK, State, ChannelMap
<1>3. ASSUME StopPostproc PROVE postproc' \in BOOLEAN /\ snapshotEvt' \in BOOLEAN
  <2>1. snapshotEvt' = snapshotEvt \/ snapshotEvt' = (snapshotEvt \/ postproc)
    BY <1>3 DEF StopPostproc
  <2> QED
    BY <1>3, <2>1, Zenon DEF StopPostproc, TypeOK
<1>4. CASE CancelPicture
  <2>1. m_state' \in State /\ m_channels' \in ChannelMap
    BY <1>4, EndCaptureType DEF CancelPicture
  <2> QED
    BY <1>3, <1>4, <2>1 DEF CancelPicture, TypeOK, ChannelMap
<1>5. CASE VideoPicTaking_StopPreview \/ PreviewPicTaking_StopPreview
  <2>1. m_channels' \in ChannelMap
    BY <1>0, <1>5, StopInCapture
  <2> QED
    BY <1>3, <1>5, <2>1
    DEF VideoPicTaking_StopPreview, PreviewPicTaking_StopPreview, TypeOK, State, ChannelMap
<1>6. CASE SnapshotDone
  <2>1. m_state' \in State /\ m_channels' \in ChannelMap /\ postproc' \in BOOLEAN
    BY <1>0, <1>6, EndCaptureType DEF SnapshotDone, TypeOK
  <2> QED
    BY <1>6, <2>1 DEF SnapshotDone, TypeOK, ChannelMap
<1>7. CASE NotifySnapshotDone
  BY <1>7 DEF NotifySnapshotDone, TypeOK
<1> QED
  BY <1>1, <1>2, <1>4, <1>5, <1>6, <1>7 DEF EndNext

LEMMA TypeStep == TypeOK /\ [Next]_vars => TypeOK'
<1>1. TypeOK /\ UNCHANGED vars => TypeOK'
  BY DEF TypeOK, vars
<1> QED
  BY <1>1, StartPreviewType, SetParamsType, StartType, EndType DEF Next

\* Every state the machine, its channels and its parameters reach is typed.
THEOREM TypeCorrect == Spec => []TypeOK
  BY InitType, TypeStep, PTL DEF Spec

-----------------------------------------------------------------------------
(* The video channel streams exactly while the machine records.  No action  *)
(* relies on another invariant for it than the types.                       *)

LEMMA RecordingInit == Init => RecordingIffVideoStreams
  BY DEF Init, RecordingIffVideoStreams, RecState, Channel, PreviewChannels

\* Bringing a preview up leaves the video channel stopped.
LEMMA VideoOff ==
  ASSUME NEW ch \in ChannelMap, NEW p \in Parameters, NEW a, NEW b, ch["VIDEO"] # "active"
  PROVE  /\ preparePreview(ch, p, a)["VIDEO"] # "active"
         /\ bringUpPreview(ch, p, a, b)["VIDEO"] # "active"
         /\ unpreparePreview(ch)["VIDEO"] # "active"
<1>1. "VIDEO" \in Channel \ {previewChannel(p)}
  BY NeededType DEF Channel, PreviewChannels
<1> QED
  BY <1>1, PreparePreview, BringUp DEF unpreparePreview, delChannels

LEMMA UnprepareVideo == \A ch \in ChannelMap : /\ unpreparePreview(ch) \in ChannelMap
                                              /\ unpreparePreview(ch)["VIDEO"] = "null"
  BY DEF unpreparePreview, delChannels, Channel, PreviewChannels, ChannelMap

LEMMA StartRecordingVideo ==
  ASSUME TypeOK, NEW next \in RecState, m_state \notin RecState,
         m_channels["VIDEO"] # "active", startRecording(next)
  PROVE  (m_state' \in RecState) <=> (m_channels'["VIDEO"] = "active")
<1>1. m_channels \in ChannelMap /\ "VIDEO" \in Channel /\ "PREVIEW" \in Channel
  BY DEF TypeOK, ChannelMap, Channel, PreviewChannels
<1>2. \A ch \in ChannelMap : \A f :
        ch["VIDEO"] # "active" =>
          /\ startChannel(ch, "PREVIEW", f)["VIDEO"] # "active"
          /\ startChannel(ch, "VIDEO", f)["VIDEO"] = "active" <=> startChannelOk(ch, "VIDEO", f)
  BY <1>1 DEF startChannel, startChannelOk, ChannelMap
<1>3. PICK o, a, f :
        /\ m_channels' =
             IF rebuildOk(recordingParameters(o), a, f)
             THEN startChannel(viewingChannels(recordingParameters(o), a, f), "VIDEO", f)
             ELSE viewingChannels(recordingParameters(o), a, f)
        /\ m_state' =
             IF /\ rebuildOk(recordingParameters(o), a, f)
                /\ startChannelOk(viewingChannels(recordingParameters(o), a, f), "VIDEO", f)
             THEN next ELSE m_state
  BY StartRecordingParts
<1> DEFINE p == recordingParameters(o)
<1>4. p \in Parameters
  BY RecordingParts
<1>5. rebuiltChannels(p, a) \in ChannelMap /\ viewingChannels(p, a, f) \in ChannelMap
  BY <1>4, RecordingParts
<1>6. rebuiltChannels(p, a)["VIDEO"] # "active"
  BY <1>1, <1>4, UnprepareVideo, PreparePreview, VideoOff DEF rebuiltChannels
<1>7. viewingChannels(p, a, f)["VIDEO"] # "active"
  BY <1>2, <1>5, <1>6 DEF viewingChannels
<1> QED
  BY <1>2, <1>3, <1>5, <1>7

LEMMA RecordingStep == TypeOK /\ RecordingIffVideoStreams /\ [Next]_vars => RecordingIffVideoStreams'
<1> SUFFICES ASSUME TypeOK, RecordingIffVideoStreams, [Next]_vars
             PROVE  (m_state' \in RecState) <=> (m_channels'["VIDEO"] = "active")
  BY DEF RecordingIffVideoStreams
<1>0. /\ m_channels \in ChannelMap /\ mParameters \in Parameters
      /\ "VIDEO" \in Channel /\ "VIDEO" \in PreviewChannels \ {"SNAPSHOT"}
      /\ m_state \in RecState <=> m_channels["VIDEO"] = "active"
  BY DEF TypeOK, ChannelMap, Channel, PreviewChannels, RecordingIffVideoStreams
<1>1. CASE StartPreviewNext
  <2>1. m_state \notin RecState
    BY <1>1 DEF StartPreviewNext, PreviewStopped_StartPreviewNoWindow,
       PreviewStopped_StartPreview, PreviewStopped_StartNoDisplayPreview, BringUpPreview,
       PreviewStopped_SetPreviewWindow, PreviewReady_SetPreviewWindow, RecState
  <2>2. m_state' \notin RecState
    BY <1>1, <2>1 DEF StartPreviewNext, PreviewStopped_StartPreviewNoWindow,
       PreviewStopped_StartPreview, PreviewStopped_StartNoDisplayPreview, BringUpPreview,
       PreviewStopped_SetPreviewWindow, PreviewReady_SetPreviewWindow, RecState
  <2>3. CASE PreviewStopped_StartPreviewNoWindow \/ BringUpPreview
    BY <1>0, <2>1, <2>2, <2>3, VideoOff DEF PreviewStopped_StartPreviewNoWindow, BringUpPreview
  <2>4. CASE PreviewStopped_SetPreviewWindow
    BY <1>0, <2>1, <2>2, <2>4 DEF PreviewStopped_SetPreviewWindow
  <2>5. CASE PreviewReady_SetPreviewWindow
    <3>1. previewChannel(mParameters) \in Channel \ {"VIDEO"}
      BY <1>0, NeededType DEF Channel, PreviewChannels
    <3>2. \A f : startChannel(m_channels, previewChannel(mParameters), f)["VIDEO"] # "active"
      BY <1>0, <2>1, <3>1 DEF startChannel, ChannelMap
    <3> QED
      BY <1>0, <2>1, <2>2, <2>5, <3>2, UnprepareVideo DEF PreviewReady_SetPreviewWindow
  <2> QED
    BY <1>1, <2>3, <2>4, <2>5
    DEF StartPreviewNext, PreviewStopped_StartPreview, PreviewStopped_StartNoDisplayPreview
<1>2. CASE SetParamsNext
  <2>1. ASSUME NEW lost \in State \ RecState, m_state \notin RecState, SetParamsRestart(lost)
        PROVE  m_state' \notin RecState /\ m_channels'["VIDEO"] # "active"
    <3>1. mParameters' \in Parameters
      BY <1>0, <2>1, ParametersType DEF SetParamsRestart
    <3> QED
      BY <1>0, <2>1, <3>1, UnprepareVideo, VideoOff DEF SetParamsRestart
  <2>2. CASE SetParamsNoRestart \/ SetParamsWhileRecording
    BY <1>0, <2>2 DEF SetParamsNoRestart, SetParamsWhileRecording
  <2>3. CASE PreviewReady_SetParams
    <3>1. mParameters' \in Parameters
      BY <1>0, <2>3, ParametersType DEF PreviewReady_SetParams
    <3> QED
      BY <1>0, <2>3, <3>1, UnprepareVideo, VideoOff DEF PreviewReady_SetParams, RecState
  <2> QED
    BY <1>2, <2>1, <2>2, <2>3
    DEF SetParamsNext, Previewing_SetParams, PreviewPicTaking_SetParams, RecState, State
<1>3. CASE StartNext
  <2>1. CASE Previewing_StartRecording \/ PreviewPicTaking_StartRecording
    BY <1>0, <2>1, StartRecordingVideo
    DEF Previewing_StartRecording, PreviewPicTaking_StartRecording, RecState
  <2>2. CASE Previewing_PrepareSnapshot \/ PrepareSnapshot_Done
    BY <1>0, <2>2 DEF Previewing_PrepareSnapshot, PrepareSnapshot_Done, RecState
  <2>3. CASE Previewing_TakePicture
    <3>1. m_state \notin RecState /\ m_state' \notin RecState
      BY <2>3 DEF Previewing_TakePicture, RecState
    <3> QED
      BY <1>0, <2>3, <3>1, TakePictureOps DEF Previewing_TakePicture
  <2>4. CASE Previewing_TakeLiveSnapshot \/ Recording_TakePicture
    <3>1. m_channels'["VIDEO"] = m_channels["VIDEO"]
      BY <1>0, <2>4, TakeLiveSnapshotType
      DEF Previewing_TakeLiveSnapshot, Recording_TakePicture, State, ChannelMap
    <3>2. m_state' \in RecState <=> m_state \in RecState
      BY <2>4, TakeLiveSnapshotType
      DEF Previewing_TakeLiveSnapshot, Recording_TakePicture, State, RecState
    <3> QED
      BY <1>0, <3>1, <3>2
  <2> QED
    BY <1>3, <2>1, <2>2, <2>3, <2>4 DEF StartNext
<1>4. CASE EndNext
  <2>1. CASE StopPreview \/ Recording_StopPreview
    <3>1. \E ch \in ChannelMap : m_channels' = unpreparePreview(ch)
      BY <1>0, <2>1, ChannelOps DEF StopPreview, Recording_StopPreview
    <3> QED
      BY <2>1, <3>1, UnprepareVideo DEF StopPreview, Recording_StopPreview, RecState
  <2>2. CASE StopRecording
    BY <1>0, <2>2 DEF StopRecording, stopChannel, ChannelMap, RecState
  <2>3. CASE CancelPicture
    BY <1>0, <2>3, EndCaptureType DEF CancelPicture
  <2>4. CASE VideoPicTaking_StopPreview \/ PreviewPicTaking_StopPreview
    BY <2>4, StopInCapture, UnprepareVideo
    DEF VideoPicTaking_StopPreview, PreviewPicTaking_StopPreview, RecState
  <2>5. CASE PreviewStopped_Release
    BY <1>0, <2>5 DEF PreviewStopped_Release, delChannels, RecState
  <2>6. CASE SnapshotDone
    BY <1>0, <2>6, EndCaptureType DEF SnapshotDone
  <2>7. CASE NotifySnapshotDone
    BY <1>0, <2>7 DEF NotifySnapshotDone
  <2> QED
    BY <1>4, <2>1, <2>2, <2>3, <2>4, <2>5, <2>6, <2>7 DEF EndNext
<1>5. CASE UNCHANGED vars
  BY <1>0, <1>5 DEF vars
<1> QED
  BY <1>1, <1>2, <1>3, <1>4, <1>5 DEF Next

\* In every environment the machine is in a recording state exactly while the
\* video channel streams.
THEOREM RecordingCorrect == Spec => []RecordingIffVideoStreams
<1>1. TypeOK /\ RecordingIffVideoStreams /\ [Next]_vars => (TypeOK /\ RecordingIffVideoStreams)'
  BY TypeStep, RecordingStep
<1> QED
  BY <1>1, InitType, RecordingInit, PTL DEF Spec

-----------------------------------------------------------------------------
(* The refinement of CameraSession.  With RecordingIffVideoStreams the       *)
(* session is a function of m_state, so it suffices to know which states    *)
(* follow which.                                                            *)

Successors(s) ==
  CASE s = "PREVIEW_STOPPED"     -> {"PREVIEW_READY", "PREVIEWING"}
    [] s = "PREVIEW_READY"       -> {"PREVIEW_STOPPED", "PREVIEWING"}
    [] s = "PREVIEWING"          -> {"PREVIEW_STOPPED", "PREPARE_SNAPSHOT", "RECORDING",
                                     "PIC_TAKING", "PREVIEW_PIC_TAKING"}
    [] s = "PREPARE_SNAPSHOT"    -> {"PREVIEWING"}
    [] s = "PIC_TAKING"          -> {"PREVIEW_STOPPED"}
    [] s = "RECORDING"           -> {"PREVIEWING", "PREVIEW_STOPPED", "VIDEO_PIC_TAKING"}
    [] s = "VIDEO_PIC_TAKING"    -> {"RECORDING", "PREVIEW_PIC_TAKING", "PREVIEW_STOPPED"}
    [] s = "PREVIEW_PIC_TAKING"  -> {"PREVIEWING", "PIC_TAKING", "VIDEO_PIC_TAKING",
                                     "PREVIEW_STOPPED"}

\* The transitions of the machine.
LEMMA Transitions == TypeOK /\ [Next]_vars => m_state' \in {m_state} \cup Successors(m_state)
<1> SUFFICES ASSUME TypeOK, [Next]_vars PROVE m_state' \in {m_state} \cup Successors(m_state)
  OBVIOUS
<1>1. CASE StartPreviewNext
  BY <1>1 DEF StartPreviewNext, PreviewStopped_StartPreviewNoWindow,
     PreviewStopped_StartPreview, PreviewStopped_StartNoDisplayPreview, BringUpPreview,
     PreviewStopped_SetPreviewWindow, PreviewReady_SetPreviewWindow, Successors
<1>2. CASE SetParamsNext
  BY <1>2 DEF SetParamsNext, SetParamsNoRestart, SetParamsWhileRecording,
     PreviewReady_SetParams, Previewing_SetParams, PreviewPicTaking_SetParams,
     SetParamsRestart, Successors
<1>3. CASE StartNext
  <2>1. CASE Previewing_StartRecording \/ PreviewPicTaking_StartRecording
    BY <2>1, StartRecordingType
    DEF Previewing_StartRecording, PreviewPicTaking_StartRecording, State, Successors
  <2>2. CASE Previewing_PrepareSnapshot \/ PrepareSnapshot_Done \/ Previewing_TakePicture
    BY <2>2 DEF Previewing_PrepareSnapshot, PrepareSnapshot_Done, Previewing_TakePicture,
       Successors
  <2>3. CASE Previewing_TakeLiveSnapshot \/ Recording_TakePicture
    BY <2>3, TakeLiveSnapshotType
    DEF Previewing_TakeLiveSnapshot, Recording_TakePicture, State, Successors
  <2> QED
    BY <1>3, <2>1, <2>2, <2>3 DEF StartNext
<1>4. CASE EndNext
  BY <1>4 DEF EndNext, StopPreview, StopRecording, Recording_StopPreview, CancelPicture,
     VideoPicTaking_StopPreview, PreviewPicTaking_StopPreview, PreviewStopped_Release,
     SnapshotDone, NotifySnapshotDone, EndCapture, PicTaking_End, VideoPicTaking_End,
     PreviewPicTaking_End, RecState, Successors
<1>5. CASE UNCHANGED vars
  BY <1>5 DEF vars
<1> QED
  BY <1>1, <1>2, <1>3, <1>4, <1>5 DEF Next

LEMMA SessionStep ==
  TypeOK /\ RecordingIffVideoStreams /\ RecordingIffVideoStreams' /\ [Next]_vars
    => [Session!Next]_(Session!vars)
<1> SUFFICES ASSUME TypeOK, RecordingIffVideoStreams, RecordingIffVideoStreams', [Next]_vars
             PROVE  [Session!Next]_(Session!vars)
  OBVIOUS
<1>1. /\ m_channels["VIDEO"] = "active" <=> m_state \in {"RECORDING", "VIDEO_PIC_TAKING"}
      /\ m_channels'["VIDEO"] = "active" <=> m_state' \in {"RECORDING", "VIDEO_PIC_TAKING"}
  BY DEF RecordingIffVideoStreams, RecState
<1>2. m_state' \in {m_state} \cup Successors(m_state) /\ m_state \in State
  BY Transitions DEF TypeOK
<1> QED
  BY <1>1, <1>2 DEF Session!Next, Session!vars, Session!Prepare, Session!Start, Session!Stop,
     Session!LosePreview, Session!StartRecording, Session!StopRecording, Session!TakePicture,
     Session!EndPicture, State, PicState, Successors

\* The state machine, its failures included, implements the session its client
\* was promised.
THEOREM SessionCorrect == Spec => ImplementsSession
<1>1. Init => Session!Init
  BY DEF Init, Session!Init, Channel, PreviewChannels, PicState
<1> QED
  BY <1>1, SessionStep, TypeCorrect, RecordingCorrect, PTL DEF Spec, ImplementsSession, Session!Spec

-----------------------------------------------------------------------------
(* A way out of a capture state is one of the handlers that end a capture,  *)
(* and each of them stops the post processor.                               *)

LEMMA CaptureExitStep ==
  ASSUME [Next]_vars, m_state \in PicState, m_state' \notin PicState
  PROVE  ~postproc'
<1>1. CASE StartPreviewNext
  BY <1>1 DEF StartPreviewNext, PreviewStopped_StartPreviewNoWindow,
     PreviewStopped_StartPreview, PreviewStopped_StartNoDisplayPreview, BringUpPreview,
     PreviewStopped_SetPreviewWindow, PreviewReady_SetPreviewWindow, PicState
<1>2. CASE SetParamsNext
  BY <1>2 DEF SetParamsNext, SetParamsNoRestart, SetParamsWhileRecording,
     PreviewReady_SetParams, Previewing_SetParams, PreviewPicTaking_SetParams,
     SetParamsRestart, PicState
<1>3. CASE StartNext
  <2>1. CASE Previewing_StartRecording \/ PreviewPicTaking_StartRecording
    BY <2>1, StartRecordingParts DEF Previewing_StartRecording,
       PreviewPicTaking_StartRecording, PicState
  <2> QED
    BY <1>3, <2>1 DEF StartNext, Previewing_PrepareSnapshot, PrepareSnapshot_Done,
       Previewing_TakePicture, Previewing_TakeLiveSnapshot, Recording_TakePicture, PicState
<1>4. CASE EndNext
  BY <1>4 DEF EndNext, StopPreview, StopRecording, Recording_StopPreview, CancelPicture,
     VideoPicTaking_StopPreview, PreviewPicTaking_StopPreview, PreviewStopped_Release,
     SnapshotDone, NotifySnapshotDone, StopPostproc, RecState, PicState
<1>5. CASE UNCHANGED vars
  BY <1>5 DEF vars
<1> QED
  BY <1>1, <1>2, <1>3, <1>4, <1>5 DEF Next

\* No capture is left, by whichever of its ends, with the post processor started.
THEOREM CaptureExitCorrect == Spec => CaptureExitStopsPostproc
<1>1. [Next]_vars => [(m_state \in PicState /\ m_state' \notin PicState) => ~postproc']_vars
  BY CaptureExitStep
<1> QED
  BY <1>1, PTL DEF Spec, CaptureExitStopsPostproc
=============================================================================
