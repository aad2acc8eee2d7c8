---------------------------- MODULE NewestRequest ----------------------------
(***************************************************************************)
(* What the DBC handler promises, with no mutex and no steps: a register   *)
(* that holds the newest request, and a server that takes and answers it.  *)
(* While it is taken no other request is stored.  An error ends the        *)
(* service, and after a stop nothing is taken any more.                    *)
(***************************************************************************)
EXTENDS Naturals

VARIABLES
  newest,    \* the request in the register, a number; 0 is no request
  answers,   \* the events: the file that was parsed, the path it names, the outcome
  serving,   \* is there a server?
  taken,     \* has it taken the request that is in the register?
  stopping   \* has it been asked to stop?

nrVars == <<newest, answers, serving, taken, stopping>>

NRInit ==
  /\ newest = 0 /\ answers = {}
  /\ serving = FALSE /\ taken = FALSE /\ stopping = FALSE

\* The service begins once, before the first request.
Begin ==
  /\ ~serving /\ ~stopping /\ newest = 0 /\ answers = {}
  /\ serving' = TRUE
  /\ UNCHANGED <<newest, answers, taken, stopping>>

Put ==
  /\ ~taken /\ ~stopping
  /\ newest' = newest + 1
  /\ UNCHANGED <<answers, serving, taken, stopping>>

Take ==
  /\ serving /\ ~taken /\ ~stopping
  /\ taken' = TRUE
  /\ UNCHANGED <<newest, answers, serving, stopping>>

\* What is answered is what is in the register.
Reply(ok) ==
  /\ taken
  /\ ok => newest # 0
  /\ answers' = answers \union {[file |-> newest, path |-> newest, ok |-> ok]}
  /\ taken' = FALSE
  /\ serving' = ok
  /\ UNCHANGED <<newest, stopping>>

Stop ==
  /\ ~stopping
  /\ stopping' = TRUE
  /\ UNCHANGED <<newest, answers, serving, taken>>

Leave ==
  /\ serving /\ ~taken /\ stopping
  /\ serving' = FALSE
  /\ UNCHANGED <<newest, answers, taken, stopping>>

NRNext == Begin \/ Put \/ Take \/ (\E ok \in BOOLEAN : Reply(ok)) \/ Stop \/ Leave

NRSpec == NRInit /\ [][NRNext]_nrVars
=============================================================================
