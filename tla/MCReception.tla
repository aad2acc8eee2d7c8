------------------------------ MODULE MCReception ------------------------------
(* Two DBCs that share a signal of message 1; message 2 has an id that is too large. *)
EXTENDS Reception, TLC

CONSTANTS s, t

MCDbcs == {1 :> {s} @@ 2 :> {t}, 1 :> {s}}
MCPlotted == {<<1, s>>}
=============================================================================
