--------------------------- MODULE ManipulationRules ---------------------------
(***************************************************************************)
(* The manipulation handler (manipulation/service): an ordered list of     *)
(* rules applied to a frame before and after it is encoded, and the        *)
(* verdict the rules that fired give on the frame.                         *)
(*                                                                         *)
(* A decoded message has values for some signals; an encoded one has an    *)
(* id, a dlc and the set of its data bits that are one.  A rule is         *)
(*   [trigger  : a set of triggers, all of which must fire,                *)
(*    strategy : effects, a delay, a drop or an insertion,                 *)
(*    latch    : whether it applies to every frame once it has fired].     *)
(* Rules that draw random numbers have several outcomes, so applying the   *)
(* rules gives the set of the outcomes there can be.                       *)
(***************************************************************************)
EXTENDS Integers, Sequences, FiniteSets, FiniteSetsExt

CONSTANTS
    DataBits,   \* positions of the data bits of a frame
    Current     \* std::nullopt of an insertion: the message that triggered it

Stages == {"dbc", "raw"}

-----------------------------------------------------------------------------
(* The outcomes a trigger can have on a message. *)
FiresDbcTrigger(t, message) ==
    LET signal == t.signal \in DOMAIN message.values
    IN CASE t.kind = "name" -> {signal}
         [] t.kind = "above" -> {signal /\ message.values[t.signal] >= t.threshold}
         [] t.kind = "below" -> {signal /\ message.values[t.signal] <= t.threshold}
         [] t.kind = "random" -> BOOLEAN

FiresRawTrigger(t, frame) ==
    CASE t.kind = "id" -> {frame.id = t.id}
      [] t.kind = "dlc" -> {frame.dlc = t.dlc}
      [] t.kind = "random" -> BOOLEAN

Fires(stage, t, message) ==
    IF stage = "dbc" THEN FiresDbcTrigger(t, message) ELSE FiresRawTrigger(t, message)

(* std::ranges::all_of over the triggers of a rule. *)
AllFire(stage, triggers, message) ==
    (IF \A t \in triggers : TRUE \in Fires(stage, t, message) THEN {TRUE} ELSE {})
        \cup (IF \E t \in triggers : FALSE \in Fires(stage, t, message) THEN {FALSE} ELSE {})

(* What an effect can make of a message; a signal the message lacks is left alone. *)
ApplyDbcEffect(e, message) ==
    LET to(values) == {[message EXCEPT !.values[e.signal] = v] : v \in values}
        old == message.values[e.signal]
        clamped == IF old < e.min THEN e.min ELSE IF old > e.max THEN e.max ELSE old
    IN CASE e.signal \notin DOMAIN message.values -> {message}
         [] e.kind = "set" -> to({e.value})
         [] e.kind = "clamp" -> to({clamped})
         [] e.kind = "noise" -> to((old - e.amplitude)..(old + e.amplitude))

Flip(frame, bit) == [frame EXCEPT !.bits = (@ \ {bit}) \cup ({bit} \ @)]

ApplyRawEffect(e, frame) ==
    IF e.kind = "flip" THEN {Flip(frame, e.bit)} ELSE {Flip(frame, b) : b \in DataBits}

ApplyEffects(stage, effects, message) ==
    LET after[i \in 0..Len(effects)] ==
            IF i = 0 THEN {message}
            ELSE UNION {IF stage = "dbc" THEN ApplyDbcEffect(effects[i], m)
                        ELSE ApplyRawEffect(effects[i], m) : m \in after[i - 1]}
    IN after[Len(effects)]

-----------------------------------------------------------------------------
(* A handler is a snapshot of rules with their latches and the state of the frame. *)
NewHandler(rules) ==
    [rules |-> rules,
     latched |-> [s \in Stages |-> [i \in DOMAIN rules[s] |-> FALSE]],
     drop |-> FALSE, delay |-> 0, insertions |-> <<>>]

(* applyRawStrategy() and applyDbcStrategy(). *)
ApplyStrategy(stage, strategy, h, message) ==
    CASE strategy.kind = "effect" ->
             {<<h, m>> : m \in ApplyEffects(stage, strategy.effects, message)}
      [] strategy.kind = "delay" ->
             {<<IF h.drop THEN h ELSE [h EXCEPT !.delay = Max({@, strategy.delay})], message>>}
      [] strategy.kind = "drop" -> {<<[h EXCEPT !.drop = TRUE, !.delay = 0], message>>}
      [] strategy.kind = "insert" ->
             {<<[h EXCEPT !.insertions = Append(@,
                    [delay |-> strategy.delay,
                     message |-> IF strategy.message = Current THEN message
                                 ELSE strategy.message])], message>>}

(* One rule: the latch spares it its triggers, and it latches when it fires. *)
ApplyRule(stage, i, h, message, fired) ==
    LET rule == h.rules[stage][i]
        does == IF h.latched[stage][i] THEN {TRUE} ELSE AllFire(stage, rule.trigger, message)
        latching == [h EXCEPT !.latched[stage][i] = @ \/ rule.latch]
    IN (IF FALSE \in does THEN {<<h, message, fired>>} ELSE {})
           \cup (IF TRUE \in does
                 THEN {<<o[1], o[2], fired \cup {<<stage, i>>}>> :
                          o \in ApplyStrategy(stage, rule.strategy, latching, message)}
                 ELSE {})

(* inject(): all rules of a stage in their order.  An outcome is the handler, the message and
   (for the properties) the rules that applied to the frame so far. *)
Inject(stage, h, message, fired) ==
    LET n == Len(h.rules[stage])
        after[i \in 0..n] ==
            IF i = 0 THEN {<<h, message, fired>>}
            ELSE UNION {ApplyRule(stage, i, o[1], o[2], o[3]) : o \in after[i - 1]}
    IN after[n]

(* evaluate(): the verdict on the frame, and the handler ready for the next one. *)
Verdict(h) == [drop |-> h.drop, delay |-> h.delay, insertions |-> h.insertions]

(* Faulty Evaluated: the drop flag is not cleared. *)
EvaluatedKeepsDrop(h) == [h EXCEPT !.delay = 0, !.insertions = <<>>]

Evaluated(h) == [h EXCEPT !.drop = FALSE, !.delay = 0, !.insertions = <<>>]

-----------------------------------------------------------------------------
(* What the documentation says of the verdict: drop wins over everything, among delays the
   longest wins, every insertion that fired is made in the order of the rules. *)
ExpectedVerdict(rules, fired) ==
    LET of(kind) == {f \in fired : rules[f[1]][f[2]].strategy.kind = kind}
        drops == of("drop") # {}
    IN [drop |-> drops,
        delay |-> IF drops THEN 0
                  ELSE Max({0} \cup {rules[f[1]][f[2]].strategy.delay : f \in of("delay")}),
        insertions |-> Cardinality(of("insert"))]
=============================================================================
