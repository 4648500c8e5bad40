SPECIFICATION Spec
CONSTANTS
  ParamErrors = TRUE
  ModeChangeWhileBusy = TRUE
  RawPictures = FALSE
INVARIANTS
  TypeOK
  RecordingIffVideoStreams
PROPERTIES
  ImplementsSession
  CaptureExitStopsPostproc
  PreviewLostOnlyByStartRecording
