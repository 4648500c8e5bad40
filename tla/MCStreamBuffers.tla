--------------------------- MODULE MCStreamBuffers ---------------------------
(* A stream with few buffers that is started and stopped twice.             *)
EXTENDS StreamBuffers
=============================================================================
