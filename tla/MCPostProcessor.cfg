SPECIFICATION Spec
CONSTANTS
  f1 = f1
  f2 = f2
  r1 = r1
  Frame = {f1, f2}
  ReprocFrame = {r1}
  Format = {"jpeg", "reprocess", "nv16"}
  Burst = 2
  MaxCaptures = 2
  Circumstances = {"startFails", "encodeFails", "reprocessFails", "formatChanges", "muted"}
CHECK_DEADLOCK FALSE
INVARIANTS
  TypeOK
  
  
  EncoderReadsHeldFrames
  OutputBufferUndisturbed

  
