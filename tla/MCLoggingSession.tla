-------------------------- MODULE MCLoggingSession --------------------------
(***************************************************************************)
(* Instances of LoggingSession for TLC.  A ring of four slots holds three  *)
(* messages: with five it gets full, and its indices wrap around; with two *)
(* sessions a message can be posted to the worker of the first while the   *)
(* second records.                                                         *)
(***************************************************************************)
EXTENDS LoggingSession
=============================================================================
