----------------------------- MODULE MCSendSession -----------------------------
(* Two DBCs that share a message, signals of the range 0..1 with functions of 0 or 2 and of 1. *)
EXTENDS SendSession, TLC

CONSTANTS d1, d2, m1, m2, s, t

MCMessagesOf == d1 :> <<[id |-> m1, signals |-> {s}], [id |-> m2, signals |-> {t}]>>
             @@ d2 :> <<[id |-> m1, signals |-> {s}]>>
MCRowValues == s :> {0, 2} @@ t :> {1}
MCDlc == m1 :> 8 @@ m2 :> 4
MCRawFrames == {[id |-> m2, dlc |-> 4, bits |-> {}]}

Delay(n) == [kind |-> "delay", delay |-> n]
Drop == [kind |-> "drop"]
Rule(trigger, strategy, latch) == [trigger |-> {trigger}, strategy |-> strategy, latch |-> latch]

(* Two delays around a drop, one of them latched, an insertion and an effect. *)
MCRuleLists ==
    {[dbc |-> <<Rule([kind |-> "below", signal |-> s, threshold |-> 0], Delay(3), TRUE),
                Rule([kind |-> "above", signal |-> s, threshold |-> 1], Drop, FALSE),
                Rule([kind |-> "name", signal |-> t],
                     [kind |-> "insert", delay |-> 1, message |-> Current], FALSE)>>,
      raw |-> <<Rule([kind |-> "id", id |-> m1], Delay(5), FALSE),
                Rule([kind |-> "dlc", dlc |-> 4],
                     [kind |-> "effect", effects |-> <<[kind |-> "flip", bit |-> 0]>>], FALSE)>>]}
=============================================================================
