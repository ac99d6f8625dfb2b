------------------------- MODULE SerializedEffects -------------------------
(***************************************************************************)
(* What the effect broker promises its callers, without its journal, lock, *)
(* threads or crashes: effects are taken one at a time; each one lands at  *)
(* most once, atomically, on the cell it names and from the state it was   *)
(* planned on; an effect that fails has not landed, and one that is done   *)
(* has landed or had nothing to change.                                    *)
(***************************************************************************)
CONSTANTS
    Effect,     \* effect identifiers
    NoIntent    \* an effect that has planned no change

VARIABLES
    world,      \* the state of every cell (a path, or the bound branch)
    status,     \* the life of each effect
    intent      \* the change each effect has planned: cell, from, to

vars == <<world, status, intent>>

Open == {e \in Effect : status[e] \in {"open", "landed"}}

Init ==
    /\ status = [e \in Effect |-> "new"]
    /\ intent = [e \in Effect |-> NoIntent]

\* An intent is formed on the state its cell has at that moment.
Intends(e) ==
    /\ intent' = [intent EXCEPT ![e] = intent'[e]]
    /\ \/ intent'[e] = NoIntent
       \/ intent'[e].from = world[intent'[e].cell]

Begin(e) ==
    /\ status[e] = "new"
    /\ Open = {}
    /\ status' = [status EXCEPT ![e] = "open"]
    /\ Intends(e)
    /\ UNCHANGED world

\* A command forms its intent when it has ended.
Plan(e) ==
    /\ status[e] = "open"
    /\ intent[e] = NoIntent
    /\ Intends(e)
    /\ UNCHANGED <<world, status>>

Land(e) ==
    /\ status[e] = "open"
    /\ intent[e] # NoIntent
    /\ world[intent[e].cell] = intent[e].from
    /\ world' = [world EXCEPT ![intent[e].cell] = intent[e].to]
    /\ status' = [status EXCEPT ![e] = "landed"]
    /\ UNCHANGED intent

Finish(e) ==
    /\ \/ status[e] = "landed"
       \/ status[e] = "open" /\ intent[e] = NoIntent
       \/ status[e] = "open" /\ intent[e].from = intent[e].to
    /\ status' = [status EXCEPT ![e] = "done"]
    /\ UNCHANGED <<world, intent>>

Fail(e) ==
    /\ status[e] = "open"
    /\ intent[e] = NoIntent
    /\ status' = [status EXCEPT ![e] = "failed"]
    /\ UNCHANGED <<world, intent>>

Next == \E e \in Effect : Begin(e) \/ Plan(e) \/ Land(e) \/ Finish(e) \/ Fail(e)

Spec == Init /\ [][Next]_vars
=============================================================================
