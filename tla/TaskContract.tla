---------------------------- MODULE TaskContract ----------------------------
(***************************************************************************)
(* What the task protocol promises of one task id, without reports,        *)
(* responses, journals or clocks: whatever is asked under the id, its      *)
(* effect begins at most once, and what PSP believes about what it asked   *)
(* is true.  PSP may be restored and forget, or ask something else.        *)
(***************************************************************************)
CONSTANTS Ids, Inputs, NoInput

VARIABLES asked,    \* per id: the input PSP asks for, or NoInput
          effect,   \* per id: what happened on the node, and for which input
          belief    \* per id: PSP's verdict, "open" until it knows

contractVars == <<asked, effect, belief>>

NoEffect == [state |-> "none", of |-> NoInput]

ContractInit ==
  /\ asked  = [id \in Ids |-> NoInput]
  /\ effect = [id \in Ids |-> NoEffect]
  /\ belief = [id \in Ids |-> "open"]

Ask(id) ==
  /\ asked' \in [Ids -> Inputs \cup {NoInput}]
  /\ \A other \in Ids \ {id} : asked'[other] = asked[other]
  /\ asked'[id] # NoInput
  /\ belief' = [belief EXCEPT ![id] = "open"]
  /\ UNCHANGED effect

Begin(id) ==
  /\ effect[id] = NoEffect
  /\ belief[id] # "expired"
  /\ \E d \in Inputs : effect' = [effect EXCEPT ![id] = [state |-> "underway", of |-> d]]
  /\ UNCHANGED <<asked, belief>>

Complete(id) ==
  /\ effect[id].state = "underway"
  /\ \E s \in {"done", "failed"} : effect' = [effect EXCEPT ![id].state = s]
  /\ UNCHANGED <<asked, belief>>

(* A verdict is about the input PSP asks for, and it is true. *)
True(id, v) ==
  \/ v = "ok"            /\ effect[id] = [state |-> "done", of |-> asked[id]]
  \/ v = "failed"        /\ effect[id] = [state |-> "failed", of |-> asked[id]]
  \/ v = "indeterminate" /\ effect[id] # NoEffect /\ effect[id].of = asked[id]
  \/ v = "expired"       /\ effect[id] = NoEffect

Learn ==
  /\ \A id \in Ids : belief'[id] # belief[id] => belief[id] = "open" /\ True(id, belief'[id])
  /\ UNCHANGED <<asked, effect>>

ContractNext == Learn \/ \E id \in Ids : Ask(id) \/ Begin(id) \/ Complete(id)

ContractSpec == ContractInit /\ [][ContractNext]_contractVars
=============================================================================
