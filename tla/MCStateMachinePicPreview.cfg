SPECIFICATION Spec
CONSTANTS
  ParamErrors = TRUE
  ModeChangeWhileBusy = FALSE
  RawPictures = FALSE
INVARIANT
  PicTakingHasNoPreview
