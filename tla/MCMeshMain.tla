----------------------------- MODULE MCMeshMain -----------------------------
(***************************************************************************)
(* MeshMain beside two neighbours: one repeats its register 1 and then the *)
(* next write of it, the other holds register 2 and answers.               *)
(***************************************************************************)
EXTENDS MeshMain

Copy(r, k) == [req |-> FALSE, reg |-> r, rev |-> k, data |-> k]

Register1Traffic == {Copy(1, 1), Copy(1, 2), Copy(0, 0)}

Register2Answer == Copy(2, 1)
=============================================================================
