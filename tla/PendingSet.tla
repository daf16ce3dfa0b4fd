----------------------------- MODULE PendingSet -----------------------------
(***************************************************************************)
(* What ring_buffer.c promises the mesh, without bit maps or scanning: a   *)
(* set of registers.  A pushed register is pending, once however often it  *)
(* is pushed, until it is popped; a pop takes some pending register, and a *)
(* register is not passed over for ever.                                   *)
(***************************************************************************)
CONSTANT Pushed   \* the registers that are pushed

VARIABLE pending

Init == pending = {}

Push(r) == pending' = pending \union {r}

Pop(r) == r \in pending /\ pending' = pending \ {r}

Next == \E r \in Pushed : Push(r) \/ Pop(r)

Safety == Init /\ [][Next]_pending

Spec == Safety /\ \A r \in Pushed : WF_pending(Pop(r))
=============================================================================
