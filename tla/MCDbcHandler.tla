---------------------------- MODULE MCDbcHandler ----------------------------
(***************************************************************************)
(* Instances of DbcHandler for TLC.  Three requests let one be parsed, a   *)
(* second be stored meanwhile and a third find the thread woken and not    *)
(* yet working, or gone.                                                   *)
(***************************************************************************)
EXTENDS DbcHandler
=============================================================================
