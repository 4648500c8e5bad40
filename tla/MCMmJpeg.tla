------------------------------ MODULE MCMmJpeg ------------------------------
(* The jpeg interface as the camera HAL uses it, or with jobs side by side. *)
EXTENDS MmJpeg
=============================================================================
