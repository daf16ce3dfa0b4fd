------------------------------ MODULE Revision ------------------------------
(***************************************************************************)
(* The revision arithmetic of simple_mesh/mesh_protocol.h.  A register     *)
(* carries a one-byte revision; its owner writes with ++rev, which wraps,  *)
(* and a listener compares revisions with the macro NEWER_REVISION.        *)
(* MAX_REVISION is 255 in the code; the small instances scale it down to   *)
(* another 2^k - 1.                                                        *)
(***************************************************************************)
EXTENDS Integers

CONSTANTS
  MAX_REVISION,
  COUNT_MOD      \* drops and recv_count count modulo this (2^16 in the code)

ASSUME RevisionAssumption == MAX_REVISION \in Nat /\ MAX_REVISION >= 3

ASSUME CounterAssumption == COUNT_MOD \in Nat \ {0}

Revisions == 0 .. MAX_REVISION

\* C integer division of a positive constant.
HALF_REVISION == MAX_REVISION \div 2

\* Faults: no wrap, "changed" for "newer", "not older" for "newer".
NewerIgnoringWrap(a, b) == a - b > 0 /\ a - b < HALF_REVISION

NewerIfDifferent(a, b) == a # b

NewerOrEqual(a, b) ==
  \/ a - b >= 0 /\ a - b < HALF_REVISION
  \/ b - a > HALF_REVISION

\* The operands are uint8_t promoted to int, so the differences are signed.
NEWER_REVISION(a, b) ==
  \/ a - b > 0 /\ a - b < HALF_REVISION
  \/ b - a > HALF_REVISION

\* Fault: a counter wider than the byte it is sent in.
NextRevisionUnwrapped(r) == r + 1

\* ++(rev[reg_num]) on a uint8_t.
NextRevision(r) == (r + 1) % (MAX_REVISION + 1)

\* The revision carried by the k-th write of an owner that booted with rev = 0.
RevisionOf(k) == k % (MAX_REVISION + 1)
=============================================================================
