----------------------------- MODULE MCMathInput -----------------------------
(* Two rows, the second one a holder of the shared variable of one signal. *)
EXTENDS MathInput, TLC

CONSTANTS e1, e2, a, signal

MCEditors == {e1, e2}
MCSymbols == {a}
MCMessageOf == signal :> 1
MCMaxNodes == e1 :> 3 @@ e2 :> 0
MCLetters == e1 :> {a} @@ e2 :> {}
=============================================================================
