------------------------------- MODULE MathInput -------------------------------
(***************************************************************************)
(* The math inputs of the signal rows: the tree being edited               *)
(* (MathInputModel), the compiled function the sending thread evaluates    *)
(* (MathInputView), saving and loading (ValueFunctionSerializer), over the *)
(* registry of VariableRegistry.                                           *)
(*                                                                         *)
(* The UI thread runs one operation at a time; an operation that takes     *)
(* several locks is several steps, and the polling, parsing and sending    *)
(* threads act between them.                                               *)
(***************************************************************************)
EXTENDS VariableRegistry, ExpressionTree

CONSTANTS
    MaxNodes,    \* bound: tokens of an editor's tree
    Letters,     \* bound: symbols an editor's user types
    Kinds        \* bound: the kinds of internal tokens its buttons insert

\* The keyboard has letters; the buttons insert operators and functions.
ASSUME InputAssumption ==
    /\ \A e \in Editors : Letters[e] \subseteq Symbols
    /\ "variable" \notin Kinds

VARIABLES
    tree,      \* m_root
    slot,      \* m_activeSlot, as the path it leads to
    function,  \* m_cachedFunction: what is compiled and the storage it reads
    task,      \* the operation the UI thread has begun and not finished
    saved      \* the state file

inputVars == <<tree, slot, function, task, saved>>
vars == <<registryVars, inputVars>>

-----------------------------------------------------------------------------
NoFunction == [parsed |-> FALSE, reads |-> EmptyTree]
NoTask == [pc |-> "none", editor |-> CHOOSE e \in Editors : TRUE, tree |-> EmptyTree]
NoFile == [bindings |-> [s \in Symbols |-> Nil], tree |-> EmptyTree]

UiFree == ui.pc = "idle" /\ task.pc = "none"

(* ValueFunction::parse(): the expression of a complete tree compiles. *)
Parse(t) == [parsed |-> TRUE, reads |-> CollectVariables(t)]

InputInit ==
    /\ Init
    /\ tree = [e \in Editors |-> EmptyTree]
    /\ slot = [e \in Editors |-> None]
    /\ function = [e \in Editors |-> NoFunction]
    /\ task = NoTask
    /\ saved = NoFile

(* Faulty Changed: an incomplete tree leaves the function that was compiled before. *)
ChangedKeepsFunction(e, t) ==
    /\ tree' = [tree EXCEPT ![e] = t]
    /\ slot' = [slot EXCEPT ![e] = FindNextEmptySlot(t)]
    /\ UNCHANGED function
    /\ task' = IF IsComplete(t) THEN [NoTask EXCEPT !.pc = "parse", !.editor = e] ELSE NoTask

(* changed() is emitted: reparse() drops the function under its lock, selectNextEmptySlot()
   moves the cursor, and the rest of reparse() follows if the tree is complete. *)
Changed(e, t) ==
    /\ tree' = [tree EXCEPT ![e] = t]
    /\ function' = [function EXCEPT ![e] = NoFunction]
    /\ slot' = [slot EXCEPT ![e] = FindNextEmptySlot(t)]
    /\ task' = IF IsComplete(t) THEN [NoTask EXCEPT !.pc = "parse", !.editor = e] ELSE NoTask

(* The second half of reparse(): compile the tree and publish the function. *)
Reparse ==
    /\ task.pc = "parse"
    /\ function' = [function EXCEPT ![task.editor] = Parse(tree[task.editor])]
    /\ task' = NoTask
    /\ UNCHANGED <<registryVars, tree, slot, saved>>

(* insertToken(): a button's operator or function goes to the root or the active slot. *)
InsertToken(e, token) ==
    /\ UiFree
    /\ Cardinality(DOMAIN tree[e]) < MaxNodes[e]
    /\ \/ tree[e] = EmptyTree /\ Changed(e, WithNode(tree[e], <<>>, token))
       \/ tree[e] # EmptyTree /\ slot[e] # None /\ Changed(e, WithNode(tree[e], slot[e], token))
    /\ UNCHANGED <<registryVars, saved>>

(* commitTypeBuffer(): a number, or a letter if it is bound; otherwise the cursor is lost. *)
CommitNumber(e) ==
    /\ UiFree
    /\ slot[e] # None
    /\ Cardinality(DOMAIN tree[e]) < MaxNodes[e]
    /\ Changed(e, WithNode(tree[e], slot[e], ValueToken))
    /\ UNCHANGED <<registryVars, saved>>

CommitLetter(e, s) ==
    /\ UiFree
    /\ slot[e] # None
    /\ Cardinality(DOMAIN tree[e]) < MaxNodes[e]
    /\ \/ /\ bindings[e][s] # Unbound
          /\ Changed(e, WithNode(tree[e], slot[e], VariableToken(s, bindings[e][s].variable)))
       \/ /\ bindings[e][s] = Unbound
          /\ slot' = [slot EXCEPT ![e] = None]
          /\ UNCHANGED <<tree, function, task>>
    /\ UNCHANGED <<registryVars, saved>>

(* A click on a token removes it with its subtree. *)
RemoveNode(e, p) ==
    /\ UiFree
    /\ p \in DOMAIN tree[e]
    /\ Changed(e, WithoutNode(tree[e], p))
    /\ UNCHANGED <<registryVars, saved>>

(* A click on an empty slot activates it. *)
ActivateSlot(e, p) ==
    /\ UiFree
    /\ p \in EmptySlots(tree[e])
    /\ slot' = [slot EXCEPT ![e] = p]
    /\ UNCHANGED <<registryVars, tree, function, task, saved>>

(* Escape, or backspace in an empty buffer. *)
ClearEditorState(e) ==
    /\ UiFree
    /\ slot[e] # None
    /\ slot' = [slot EXCEPT ![e] = None]
    /\ UNCHANGED <<registryVars, tree, function, task, saved>>

-----------------------------------------------------------------------------
(* The variable dialog: no signal is emitted, tree and function stay as they are. *)
EditBindings(e, want) ==
    /\ task.pc = "none"
    /\ \E s \in Symbols : want[s] # Nil \/ bindings[e][s] # Unbound
    /\ StartRebind(e, want)
    /\ UNCHANGED inputVars

(* encode(); it dereferences every child, so a tree with a null child cannot be saved. *)
Save(e) ==
    /\ UiFree
    /\ NoNullChild(tree[e])
    /\ saved' = [bindings |-> [s \in Symbols |-> bindings[e][s].key], tree |-> Encode(tree[e])]
    /\ UNCHANGED <<registryVars, tree, slot, function, task>>

(* decode(): the bindings first ... *)
Load(e) ==
    /\ task.pc = "none"
    /\ saved # NoFile
    /\ Cardinality(DOMAIN saved.tree) <= MaxNodes[e]
    /\ StartRebind(e, saved.bindings)
    /\ task' = [pc |-> "load", editor |-> e, tree |-> saved.tree]
    /\ UNCHANGED <<tree, slot, function, saved>>

(* Faulty DecodeTree: an editor that has a tree already keeps it. *)
DecodeTreeIfEmpty ==
    LET e == task.editor
        variableOf == [s \in Bound(bindings[e]) |-> bindings[e][s].variable]
    IN /\ task.pc = "load"
       /\ ui.pc = "idle"
       /\ IF task.tree # EmptyTree /\ tree[e] = EmptyTree
          THEN Changed(e, Decode(task.tree, variableOf))
          ELSE task' = NoTask /\ UNCHANGED <<tree, slot, function>>
       /\ UNCHANGED <<registryVars, saved>>

(* ... then the tree, if the file has one. *)
DecodeTree ==
    LET e == task.editor
        variableOf == [s \in Bound(bindings[e]) |-> bindings[e][s].variable]
    IN /\ task.pc = "load"
       /\ ui.pc = "idle"
       /\ \/ task.tree # EmptyTree /\ Changed(e, Decode(task.tree, variableOf))
          \/ task.tree = EmptyTree /\ task' = NoTask /\ UNCHANGED <<tree, slot, function>>
       /\ UNCHANGED <<registryVars, saved>>

(* The row's widgets are destroyed (another DBC): the function first, then the model, whose
   destructor releases the bindings; the next row starts empty. *)
Destroy(e) ==
    /\ task.pc = "none"
    /\ tree[e] # EmptyTree \/ Bound(bindings[e]) # {}
    /\ StartRebind(e, [s \in Symbols |-> Nil])
    /\ function' = [function EXCEPT ![e] = NoFunction]
    /\ task' = [NoTask EXCEPT !.pc = "destroy", !.editor = e]
    /\ UNCHANGED <<tree, slot, saved>>

Destroyed ==
    /\ task.pc = "destroy"
    /\ ui.pc = "idle"
    /\ tree' = [tree EXCEPT ![task.editor] = EmptyTree]
    /\ slot' = [slot EXCEPT ![task.editor] = None]
    /\ task' = NoTask
    /\ UNCHANGED <<registryVars, function, saved>>

(* What the registry does on its own, and a sending session that begins. *)
Registry ==
    /\ \/ RegistryStep
       \/ task.pc = "none" /\ ResetAll
    /\ UNCHANGED inputVars

InputNext ==
    \/ \E e \in Editors :
          \/ \E kind \in Kinds : InsertToken(e, InternalToken(kind))
          \/ CommitNumber(e)
          \/ \E s \in Letters[e] : CommitLetter(e, s)
          \/ \E p \in DOMAIN tree[e] : RemoveNode(e, p)
          \/ \E p \in EmptySlots(tree[e]) : ActivateSlot(e, p)
          \/ ClearEditorState(e)
          \/ \E want \in Wants : EditBindings(e, want)
          \/ Save(e)
          \/ Load(e)
          \/ Destroy(e)
    \/ Reparse
    \/ DecodeTree
    \/ Destroyed
    \/ Registry

InputSpec == InputInit /\ [][InputNext]_vars

-----------------------------------------------------------------------------

(* Between operations the function the sending thread evaluates is compiled from the tree that
   is shown, and there is none while the tree has a hole (MathInputView::reparse()). *)
FunctionIsOfTree ==
    UiFree => \A e \in Editors :
        function[e] = IF IsComplete(tree[e]) THEN Parse(tree[e]) ELSE NoFunction

(* A state file whose letters are all bound comes back as it was saved, in any editor and
   whatever that editor held before (encode() and decode()). *)
LoadRestores ==
    [][(DecodeTree /\ task.tree # EmptyTree
            /\ \A p \in DOMAIN task.tree : task.tree[p].kind = "variable" =>
                   bindings[task.editor][task.tree[p].symbol] # Unbound)
       => /\ Encode(tree'[task.editor]) = task.tree
          /\ \A p \in DOMAIN task.tree : task.tree[p].kind = "variable" =>
                Live(bindings[task.editor][task.tree[p].symbol].key)
                /\ tree'[task.editor][p].variable
                     = entries[bindings[task.editor][task.tree[p].symbol].key].variable]_vars

(* variable_token.hpp:27: a variable token is "keeping its value alive via shared ownership",
   so what the sending thread evaluates reads living variables. *)
FunctionReadsLive ==
    \A e \in Editors : \A s \in DOMAIN function[e].reads :
        \E k \in Keys : Live(k) /\ entries[k].variable = function[e].reads[s]
=============================================================================
