---------------------------- MODULE CameraSession ----------------------------
(***************************************************************************)
(* What the camera device promises its client, without channels, modes or  *)
(* failures: a preview is stopped, prepared or running, recording and      *)
(* pictures start from a running preview, and no call leaves a recording   *)
(* behind once the preview is gone.                                        *)
(***************************************************************************)
VARIABLES
  preview,     \* "stopped", "ready" (no window yet) or "running"
  recording,   \* does the video stream deliver frames?
  picture      \* is a capture under way?

vars == <<preview, recording, picture>>

Init == preview = "stopped" /\ ~recording /\ ~picture

Prepare ==
  /\ preview = "stopped" /\ ~picture
  /\ preview' = "ready"
  /\ UNCHANGED <<recording, picture>>

Start ==
  /\ preview # "running" /\ ~picture
  /\ preview' = "running"
  /\ UNCHANGED <<recording, picture>>

\* A client's stop, or a preview that could not be started again.
Stop ==
  /\ preview # "stopped"
  /\ preview' = "stopped" /\ recording' = FALSE /\ picture' = FALSE

\* The preview goes while the capture goes on.
LosePreview ==
  /\ preview = "running" /\ ~recording /\ picture
  /\ preview' = "stopped"
  /\ UNCHANGED <<recording, picture>>

StartRecording ==
  /\ preview = "running" /\ ~recording
  /\ recording' = TRUE
  /\ UNCHANGED <<preview, picture>>

StopRecording ==
  /\ recording
  /\ recording' = FALSE
  /\ UNCHANGED <<preview, picture>>

\* A capture from a running preview; a still capture takes the preview away.
TakePicture ==
  /\ preview = "running" /\ ~picture
  /\ picture' = TRUE
  /\ preview' \in IF recording THEN {"running"} ELSE {"running", "stopped"}
  /\ UNCHANGED recording

EndPicture ==
  /\ picture
  /\ picture' = FALSE
  /\ UNCHANGED <<preview, recording>>

Next ==
  \/ Prepare \/ Start \/ Stop \/ LosePreview
  \/ StartRecording \/ StopRecording
  \/ TakePicture \/ EndPicture

Spec == Init /\ [][Next]_vars
=============================================================================
