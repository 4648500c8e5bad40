--------------------------- MODULE MCSuperBufQueue ---------------------------
(* The streams of the zero-shutter-lag channel, small attributes.           *)
EXTENDS SuperBufQueue

MCStream == {"meta", "preview", "snapshot"}
=============================================================================
