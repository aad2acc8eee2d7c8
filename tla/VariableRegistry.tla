--------------------------- MODULE VariableRegistry ---------------------------
(***************************************************************************)
(* The registry that owns the variables value functions read              *)
(* (math/service/variable_registry), with the editors that hold            *)
(* references to them (MathInputModel's bindings) and the polling thread   *)
(* that delivers decoded frames.                                           *)
(*                                                                         *)
(* acquire() and release() are critical sections of m_mutex, so they are   *)
(* single steps; the UI thread performs several of them to replace the     *)
(* bindings of one editor, and frames arrive in between.  A variable is an *)
(* object on the heap: objects are numbered in the order in which they are *)
(* made, which tells a new object from a destroyed one with the same key.  *)
(***************************************************************************)
EXTENDS Naturals, FiniteSets

CONSTANTS
    Editors,     \* the math inputs of the signal rows
    Symbols,     \* the letters an editor can bind
    Keys,        \* configuration keys: one variable for each
    CanKeys,     \* those of the form "signal:<message>:<name>"
    MessageOf,   \* the message id a signal's key names
    Values,      \* values a decoded signal can have
    Zero,        \* 0.0, the value of a new or reset variable
    Nil,         \* no key
    MaxObjects   \* bound: variables constructed in a behaviour

ASSUME RegistryAssumption ==
    /\ IsFiniteSet(Editors) /\ Editors # {}
    /\ IsFiniteSet(Symbols)
    /\ CanKeys \subseteq Keys
    /\ Nil \notin Keys
    /\ Zero \in Values
    /\ MaxObjects \in Nat

VARIABLES
    entries,    \* m_entries: the variable of a key and how many hold it
    signalMap,  \* m_canSignalMap: the signal variables frames are given to
    made,       \* variables constructed so far
    value,      \* the value in a variable's storage
    bindings,   \* m_bindings of every editor
    ui,         \* what the UI thread is doing with the registry
    received    \* history: the last value of a signal since its variable began

registryVars == <<entries, signalMap, made, value, bindings, ui, received>>

-----------------------------------------------------------------------------
Objects == 1..MaxObjects
Absent == [variable |-> 0, refCount |-> 0]
Unbound == [key |-> Nil, variable |-> 0]
Binding == [key : Keys, variable : Objects]
NoBindings == [s \in Symbols |-> Unbound]
Bound(b) == {s \in Symbols : b[s] # Unbound}

Live(k) == entries[k] # Absent

(* rebuildCanSignalMap(): the signal variables among the entries. *)
SignalMapOf(e) == {<<k, e[k].variable>> : k \in {c \in CanKeys : e[c] # Absent}}

UiIdle == [pc |-> "idle", editor |-> CHOOSE e \in Editors : TRUE,
           want |-> [s \in Symbols |-> Nil], got |-> NoBindings, left |-> {}]

Init ==
    /\ entries = [k \in Keys |-> Absent]
    /\ signalMap = {}
    /\ made = 0
    /\ value = [o \in Objects |-> Zero]
    /\ bindings = [e \in Editors |-> NoBindings]
    /\ ui = UiIdle
    /\ received = [k \in CanKeys |-> Zero]

-----------------------------------------------------------------------------
(* acquire(): one more reference to the entry, or a new variable in it. *)
Acquire(k) ==
    \/ /\ Live(k)
       /\ entries' = [entries EXCEPT ![k].refCount = @ + 1]
       /\ UNCHANGED <<signalMap, made, value, received>>
    \/ /\ ~Live(k)
       /\ made < MaxObjects
       /\ made' = made + 1
       /\ value' = [value EXCEPT ![made + 1] = Zero]
       /\ entries' = [entries EXCEPT ![k] = [variable |-> made + 1, refCount |-> 1]]
       /\ signalMap' = SignalMapOf(entries')
       /\ received' = [c \in CanKeys |-> IF c = k THEN Zero ELSE received[c]]

(* Faulty Release: the pointers frames are delivered through are not refreshed. *)
ReleaseKeepsMap(k) ==
    /\ Live(k)
    /\ entries' = [entries EXCEPT ![k] = IF @.refCount = 1 THEN Absent
                                         ELSE [@ EXCEPT !.refCount = @ - 1]]
    /\ value' = IF entries[k].refCount = 1
                THEN [value EXCEPT ![entries[k].variable] = Zero] ELSE value
    /\ UNCHANGED <<signalMap, received>>

(* Faulty Release: the count is not looked at. *)
ReleaseDestroys(k) ==
    /\ entries' = [entries EXCEPT ![k] = Absent]
    /\ signalMap' = SignalMapOf(entries')
    /\ UNCHANGED <<value, received>>

(* release(): one reference less; the last one destroys the variable, and its value with it. *)
Release(k) ==
    \/ /\ entries[k].refCount # 1
       /\ entries' = [entries EXCEPT ![k].refCount = IF Live(k) THEN @ - 1 ELSE @]
       /\ UNCHANGED <<signalMap, value, received>>
    \/ /\ entries[k].refCount = 1
       /\ entries' = [entries EXCEPT ![k] = Absent]
       /\ signalMap' = SignalMapOf(entries')
       /\ value' = [value EXCEPT ![entries[k].variable] = Zero]
       /\ received' = [c \in CanKeys |-> IF c = k THEN Zero ELSE received[c]]

-----------------------------------------------------------------------------
(* The variable dialog was accepted with other bindings, or a saved state is loaded, or
   (with nothing wanted) the editor is destroyed. *)
StartRebind(e, want) ==
    /\ ui.pc = "idle"
    /\ made + Cardinality(Symbols) <= MaxObjects
    /\ ui' = [pc |-> "acquire", editor |-> e, want |-> want, got |-> NoBindings, left |-> {}]
    /\ UNCHANGED <<entries, signalMap, made, value, bindings, received>>

(* The variables of the new bindings are acquired one after the other. *)
AcquireNext(s) ==
    /\ ui.pc = "acquire"
    /\ ui.want[s] # Nil
    /\ ui.got[s] = Unbound
    /\ Acquire(ui.want[s])
    /\ ui' = [ui EXCEPT !.got[s] = [key |-> ui.want[s],
                                    variable |-> entries'[ui.want[s]].variable]]
    /\ UNCHANGED bindings

(* setVariableBindings() begins when all of them are held. *)
BeginRelease ==
    /\ ui.pc = "acquire"
    /\ \A s \in Symbols : ui.want[s] # Nil => ui.got[s] # Unbound
    /\ ui' = [ui EXCEPT !.pc = "release", !.left = Bound(bindings[ui.editor])]
    /\ UNCHANGED <<entries, signalMap, made, value, bindings, received>>

(* It releases the variables of the old bindings first ... *)
ReleaseNext(s) ==
    /\ ui.pc = "release"
    /\ s \in ui.left
    /\ Release(bindings[ui.editor][s].key)
    /\ ui' = [ui EXCEPT !.left = @ \ {s}]
    /\ UNCHANGED <<made, bindings>>

(* ... and then replaces them. *)
FinishRebind ==
    /\ ui.pc = "release"
    /\ ui.left = {}
    /\ bindings' = [bindings EXCEPT ![ui.editor] = ui.got]
    /\ ui' = UiIdle
    /\ UNCHANGED <<entries, signalMap, made, value, received>>

(* onCanDbcReceived(): the values of one message go to the variables in the map. *)
OnCanDbcReceived(m, frame) ==
    LET given == {k \in CanKeys : MessageOf[k] = m /\ frame[k] # Nil}
    IN /\ given # {}
       /\ value' = [o \in Objects |->
              IF \E k \in given : <<k, o>> \in signalMap
              THEN frame[CHOOSE k \in given : <<k, o>> \in signalMap]
              ELSE value[o]]
       /\ received' = [k \in CanKeys |-> IF k \in given /\ Live(k) THEN frame[k]
                                         ELSE received[k]]
       /\ UNCHANGED <<entries, signalMap, made, bindings, ui>>

(* reset(): a sending session begins. *)
ResetAll ==
    /\ ui.pc = "idle"
    /\ value' = [o \in Objects |-> IF \E k \in Keys : entries[k].variable = o THEN Zero
                                   ELSE value[o]]
    /\ received' = [k \in CanKeys |-> Zero]
    /\ UNCHANGED <<entries, signalMap, made, bindings, ui>>

(* onDbcParsed(): the map is rebuilt on the parsing thread. *)
OnDbcParsed ==
    /\ signalMap' = SignalMapOf(entries)
    /\ UNCHANGED <<entries, made, value, bindings, ui, received>>

Wants == [Symbols -> Keys \cup {Nil}]
Frames == [CanKeys -> Values \cup {Nil}]

(* What happens to the registry without the user doing anything. *)
RegistryStep ==
    \/ \E s \in Symbols : AcquireNext(s) \/ ReleaseNext(s)
    \/ BeginRelease
    \/ FinishRebind
    \/ \E k \in CanKeys, frame \in Frames : OnCanDbcReceived(MessageOf[k], frame)
    \/ OnDbcParsed

RegistryNext ==
    \/ ResetAll
    \/ \E e \in Editors, want \in Wants : StartRebind(e, want)
    \/ RegistryStep

RegistrySpec == Init /\ [][RegistryNext]_registryVars

-----------------------------------------------------------------------------
RegistryTypeOK ==
    /\ entries \in [Keys -> [variable : 0..MaxObjects, refCount : Nat]]
    /\ signalMap \subseteq CanKeys \X Objects
    /\ made \in 0..MaxObjects
    /\ value \in [Objects -> Values]
    /\ bindings \in [Editors -> [Symbols -> Binding \cup {Unbound}]]
    /\ ui \in [pc : {"idle", "acquire", "release"}, editor : Editors, want : Wants,
               got : [Symbols -> Binding \cup {Unbound}], left : SUBSET Symbols]
    /\ received \in [CanKeys -> Values]

(* The references an editor's bindings still hold: a replacement gives them up one by one. *)
Held(e, s) ==
    /\ bindings[e][s] # Unbound
    /\ (ui.pc = "release" /\ ui.editor = e) => s \in ui.left

(* A bound symbol, and one being bound, points to the variable the registry has for its key:
   no editor's variable is destroyed by what another editor releases (release()'s count). *)
BoundIsLive ==
    /\ \A e \in Editors, s \in Symbols : Held(e, s) =>
           /\ Live(bindings[e][s].key)
           /\ bindings[e][s].variable = entries[bindings[e][s].key].variable
    /\ \A s \in Symbols : ui.got[s] # Unbound =>
           /\ Live(ui.got[s].key)
           /\ ui.got[s].variable = entries[ui.got[s].key].variable

(* A signal variable has the last value received since it began or was reset, whatever was
   acquired and released meanwhile, and no value is written to a destroyed variable
   (rebuildCanSignalMap() and onCanDbcReceived()). *)
LiveValueIsLatest ==
    /\ \A k \in CanKeys : Live(k) => value[entries[k].variable] = received[k]
    /\ \A p \in signalMap : entries[p[1]].variable = p[2]
=============================================================================
