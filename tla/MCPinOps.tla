------------------------------ MODULE MCPinOps ------------------------------
(* What TLC needs to check instances of PinOps. *)
EXTENDS PinOps

(* A coordinator is in use while it is in runtime_data, on its way there,  *)
(* or has a write running on it.  The slots of another one are never read  *)
(* again, so states that differ only in those are one state.               *)
InUse(g) == g \in {current, building} \/ \E o \in Ops : pc[o] \in Live /\ on[o] = g
Seen ==
  <<entryVars, coordVars, [g \in {h \in Coordinators : InUse(h)} |-> view[g]],
    pinLock, opVars, radioVars>>
=============================================================================
