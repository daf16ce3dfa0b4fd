---------------------------- MODULE RegisterCopy ----------------------------
(***************************************************************************)
(* One register between its owner and one listener, with the revision byte *)
(* at its full width: how far may the two drift apart before the test of   *)
(* ble_evt_adv_report mistakes old for new, and what do its counters tell? *)
(* Writes are named by their true number k; the message of write k shows   *)
(* the listener RevisionOf(k) only.                                        *)
(***************************************************************************)
EXTENDS Revision

CONSTANTS
  MaxWrites,   \* bound: how often the register is written
  MaxLag,      \* bound: how many writes the listener may be behind
  Ages         \* how many writes a message that is heard may be behind

ASSUME CopyAssumption ==
  /\ MaxWrites \in Nat
  /\ MaxLag \in Nat
  /\ Ages \subseteq Nat

VARIABLES
  written,     \* how often the owner wrote: its revision is RevisionOf(written)
  held,        \* the write the listener holds: its byte 24 is RevisionOf(held)
  known,       \* byte 25 of the listener's register
  drops,
  recv_count

copyVars == <<written, held, known, drops, recv_count>>

CopyInit ==
  /\ written = 0
  /\ held = 0
  /\ known = FALSE
  /\ drops = 0
  /\ recv_count = 0

Write ==
  /\ written < MaxWrites
  /\ written - held < MaxLag
  /\ written' = written + 1
  /\ UNCHANGED <<held, known, drops, recv_count>>

LooksNewer(k) == NEWER_REVISION(RevisionOf(k), RevisionOf(held))

\* Fault: a single write that was missed is no drop.
LooksDroppedByTwo(k) == RevisionOf(k) - RevisionOf(held) > 2 /\ known

\* reg_revision_message - reg_revision_local > 1, and byte 25 is 1.
LooksDropped(k) == RevisionOf(k) - RevisionOf(held) > 1 /\ known

Receive(k) ==
  /\ LooksNewer(k) \/ ~ known
  /\ held' = k
  /\ known' = TRUE
  /\ drops' = IF LooksDropped(k) THEN (drops + 1) % COUNT_MOD ELSE drops
  /\ recv_count' = (recv_count + 1) % COUNT_MOD
  /\ UNCHANGED written

\* mesh_request_reg
Ask ==
  /\ known' = FALSE
  /\ UNCHANGED <<written, held, drops, recv_count>>

Audible == {written - age : age \in Ages} \intersect Nat

CopyNext == Write \/ (\E k \in Audible : Receive(k)) \/ Ask

CopySpec == CopyInit /\ [][CopyNext]_copyVars
-----------------------------------------------------------------------------
\* Counters and copies are in range.
CopyTypeOK ==
  /\ written \in Nat /\ held \in 0 .. written /\ known \in BOOLEAN
  /\ drops \in 0 .. COUNT_MOD - 1 /\ recv_count \in 0 .. COUNT_MOD - 1

\* A listener that is behind by MaxLag writes or less takes the owner's next
\* message: it is never locked out by the wrap of the revision.
NeverLockedOut == held < written => LooksNewer(written)

\* What it holds is never replaced by an older write.
NeverOlder == [][known => held' >= held]_copyVars

\* drops counts what was missed: when it is counted, at least one write between the
\* two copies was missed, and when one was missed it is counted, unless the
\* revision has wrapped in between: the difference is then negative.
DropsCountLosses ==
  [][/\ drops' # drops => held' > held + 1
     /\ known /\ held' > held + 1 /\ RevisionOf(held') > RevisionOf(held) => drops' # drops]_copyVars
=============================================================================
