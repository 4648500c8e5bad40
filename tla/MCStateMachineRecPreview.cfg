SPECIFICATION Spec
CONSTANTS
  ParamErrors = FALSE
  ModeChangeWhileBusy = FALSE
  RawPictures = FALSE
INVARIANT
  RecordingHasPreview
