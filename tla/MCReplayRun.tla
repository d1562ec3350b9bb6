----------------------------- MODULE MCReplayRun -----------------------------
(* Two changes by somebody else, to any file at any step of a replay run.   *)
EXTENDS ReplayRun
=============================================================================
