------------------------------- MODULE MCMesh -------------------------------
(***************************************************************************)
(* Instances of Mesh for TLC: the applications in a line of nodes, with    *)
(* a revision byte scaled down to three bits and a queue of eight          *)
(* registers.                                                              *)
(***************************************************************************)
EXTENDS Mesh, TLC

CONSTANTS beef, cafe, feed

Both(m, n) == {<<m, n>>, <<n, m>>}

LineLinks == Both(beef, feed) \union Both(feed, cafe)

\* Beef and feed hear cafe and each other, and cafe hears nobody: beef may hear
\* a write of cafe's before feed does, and be answered by feed with an older one.
FanLinks == Both(beef, feed) \union {<<cafe, beef>>, <<cafe, feed>>}

NoLinks == {}

Nobody == [n \in Node |-> {}]

\* Beef writes register 1, cafe register 2; proj_beef_request writes four
\* registers in turn, here the first of them.
Beef1 == [n \in Node |-> IF n = beef THEN <<1>> ELSE <<>>]

Beef1Cafe2 ==
  [n \in Node |-> IF n = beef THEN <<1>> ELSE IF n = cafe THEN <<2>> ELSE <<>>]

\* proj_beef_request asks for register 2.
BeefAsks2 == [n \in Node |-> IF n = beef THEN {2} ELSE {}]

\* How often registers 1 and 2 are written.
Writes18 == (1 :> 18)
Writes1and2 == (1 :> 1) @@ (2 :> 2)
Writes1and6 == (1 :> 1) @@ (2 :> 6)
=============================================================================
