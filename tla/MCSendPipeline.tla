--------------------------- MODULE MCSendPipeline ---------------------------
(***************************************************************************)
(* Instances of SendPipeline for TLC.  A queue of two is full with one     *)
(* batch and overfull with the next item; three items let the consumer     *)
(* hold one, find an earlier one queued and meet a full queue at once.     *)
(***************************************************************************)
EXTENDS SendPipeline
=============================================================================
