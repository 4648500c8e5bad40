SPECIFICATION Spec
CONSTANTS
  ParamErrors = FALSE
  ModeChangeWhileBusy = FALSE
  RawPictures = TRUE
INVARIANTS
  NoChannelOutlivesItsState
  PreparedForItsMode
