------------------------------ MODULE Replicas ------------------------------
(***************************************************************************)
(* What simple_mesh promises its applications, without messages, queues or *)
(* revisions: every register has one writer; every node holds a copy of    *)
(* some write of it and only ever replaces it by a later one, except that  *)
(* a node which asked for the register takes whatever it is answered.      *)
(***************************************************************************)
EXTENDS Naturals

CONSTANTS Node, AppReg, Owner

VARIABLES
  latest,   \* how often each register was written
  held,     \* which of the writes each node holds
  known     \* whether it holds one it will not part with for an older one

vars == <<latest, held, known>>

Init ==
  /\ latest = [r \in AppReg |-> 0]
  /\ held = [n \in Node |-> [r \in AppReg |-> 0]]
  /\ known = [n \in Node |-> [r \in AppReg |-> FALSE]]

\* The owner writes r, and may ask for other registers with the same breath.
Publish(r, asked) ==
  LET n == Owner[r] IN
    /\ latest' = [latest EXCEPT ![r] = @ + 1]
    /\ held' = [held EXCEPT ![n][r] = latest[r] + 1]
    /\ known' = [known EXCEPT ![n] = [q \in AppReg |-> (q = r \/ @[q]) /\ q \notin asked]]

\* n takes write k of r.
Learn(n, r, k) ==
  /\ known[n][r] => k > held[n][r]
  /\ held' = [held EXCEPT ![n][r] = k]
  /\ known' = [known EXCEPT ![n][r] = TRUE]
  /\ UNCHANGED latest

Next ==
  \/ \E r \in AppReg, asked \in SUBSET AppReg : Publish(r, asked)
  \/ \E n \in Node, r \in AppReg : \E k \in 0 .. latest[r] : Learn(n, r, k)

Spec == Init /\ [][Next]_vars
=============================================================================
