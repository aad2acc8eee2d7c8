--------------------------- MODULE MCReplayControl ---------------------------
(***************************************************************************)
(* Instances of ReplayControl for TLC.  Three runs let the signals of one  *)
(* run be handled during the next and a restart follow on that; a lost     *)
(* notification needs one run only.                                        *)
(***************************************************************************)
EXTENDS ReplayControl
=============================================================================
