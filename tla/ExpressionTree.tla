---------------------------- MODULE ExpressionTree ----------------------------
(***************************************************************************)
(* The expression trees of value functions (math/types/tokens) and what    *)
(* MathInputModel and the serializer do with them.  A tree is a function   *)
(* from paths to tokens: the root has the path <<>>, the i-th child of the *)
(* token at p the path p \o <<i>>.  Depth-first order is the lexicographic *)
(* order of paths, which is how the recursive searches of the code are     *)
(* stated here.                                                            *)
(***************************************************************************)
EXTENDS Naturals, Sequences, SequencesExt, FiniteSets

CONSTANT None   \* std::nullopt: no active slot, no symbol

(* A token: its kind, the symbol of a variable token with the storage it reads, and the length
   of its m_children vector, which may hold null pointers. *)
ValueToken == [kind |-> "value", symbol |-> None, variable |-> 0, children |-> 0]
VariableToken(s, o) == [kind |-> "variable", symbol |-> s, variable |-> o, children |-> 0]
InternalToken(kind) == [kind |-> kind, symbol |-> None, variable |-> 0, children |-> 0]

ExpectedChildCount(token) == CASE token.kind = "operator" -> 2
                               [] token.kind = "function" -> 1
                               [] OTHER -> 0

EmptyTree == <<>>

Precedes(p, q) ==
    \/ IsStrictPrefix(p, q)
    \/ \E i \in DOMAIN p \cap DOMAIN q :
           /\ p[i] < q[i]
           /\ \A j \in 1..(i - 1) : p[j] = q[j]

First(paths) == CHOOSE p \in paths : \A q \in paths \ {p} : Precedes(p, q)

(* Where a token can be put: the root of an empty tree or a child no token fills. *)
EmptySlots(t) ==
    ({<<>>} \cup UNION {{p \o <<i>> : i \in 1..ExpectedChildCount(t[p])} : p \in DOMAIN t})
        \ DOMAIN t

FindNextEmptySlot(t) == IF EmptySlots(t) = {} THEN None ELSE First(EmptySlots(t))
IsComplete(t) == EmptySlots(t) = {}

(* setChild(): the vector grows to the index, what was there is destroyed. *)
WithNode(t, p, token) ==
    LET others == {q \in DOMAIN t : ~IsPrefix(p, q)}
    IN [q \in others \cup {p} |->
           IF q = p THEN token
           ELSE IF p # <<>> /\ q = Front(p) /\ t[q].children < p[Len(p)]
                THEN [t[q] EXCEPT !.children = p[Len(p)]]
                ELSE t[q]]

(* removeChild(): the subtree is destroyed, the vector keeps its length. *)
WithoutNode(t, p) == [q \in {r \in DOMAIN t : ~IsPrefix(p, r)} |-> t[q]]

(* The pointer every symbol is registered with: the first one collected wins. *)
CollectVariables(t) ==
    LET used == {p \in DOMAIN t : t[p].kind = "variable"}
        of(s) == {p \in used : t[p].symbol = s}
    IN [s \in {t[p].symbol : p \in used} |-> t[First(of(s))].variable]

(* Encoding follows every pointer of the children vectors. *)
NoNullChild(t) == \A p \in DOMAIN t : \A i \in 1..t[p].children : p \o <<i>> \in DOMAIN t

(* What a saved tree keeps: everything but the storage of the variables. *)
Encode(t) == [p \in DOMAIN t |-> [t[p] EXCEPT !.variable = 0]]

(* decodeToken(): a variable token is made for a bound symbol, a null child for another. *)
Decode(t, variableOf) ==
    LET made == {p \in DOMAIN t : t[p].kind = "variable" => t[p].symbol \in DOMAIN variableOf}
    IN [p \in made |-> IF t[p].kind = "variable"
                       THEN [t[p] EXCEPT !.variable = variableOf[t[p].symbol]]
                       ELSE t[p]]
=============================================================================
