------------------------------ MODULE BitQueue ------------------------------
(***************************************************************************)
(* The register queue of simple_mesh/ring_buffer.c (the BITQUEUE variant,  *)
(* the one ring_buffer.h selects).  A queue is a bit map with one bit per  *)
(* register and a scan position: pushing sets a bit, popping searches from *)
(* the scan position for the next set bit, cyclically.  The map is kept as *)
(* the set of the positions 8*byte + bit that are set.                     *)
(*                                                                         *)
(* QUEUE_BITS is 256 in the code (data[32], and the literals 256 and 32).  *)
(***************************************************************************)
EXTENDS Integers, FiniteSets

CONSTANT QUEUE_BITS

ASSUME QueueAssumption == QUEUE_BITS \in Nat /\ QUEUE_BITS >= 8

Bits == 0 .. QUEUE_BITS - 1

\* uint8_t reg_num: every register number has a byte of the map.
RegisterNumbers == 0 .. QUEUE_BITS - 1

Queue == [data : SUBSET Bits, ptr : Bits]

EmptyQueue == [data |-> {}, ptr |-> 0]

\* Fault: the register's own bit.
PushOwnBit(reg_num) == {reg_num}

\* data[reg_num >> 3] |= 1 << ((reg_num & 0b111) - 1): the bit before the
\* register's own number.  For a multiple of 8 the shift count is -1; the
\* shifters of the target give 0 (or a bit above the uint8_t), so the byte
\* that is stored is the byte that was read.
PushBits(reg_num) == IF reg_num % 8 = 0 THEN {} ELSE {reg_num - 1}

q_push(q, reg_num) == [q EXCEPT !.data = @ \union PushBits(reg_num)]

q_has_data(q) == q.data # {}

\* How many positions the loop of q_pop steps over before it looks at bit i.
ScanDistance(q, i) == IF i >= q.ptr THEN i - q.ptr ELSE i + QUEUE_BITS - q.ptr

\* Fault: the scan starts at the first register each time.
LowestBit(q) == CHOOSE i \in q.data : \A j \in q.data : i <= j

NextBit(q) ==
  CHOOSE i \in q.data : \A j \in q.data : ScanDistance(q, i) <= ScanDistance(q, j)

\* Fault: the bit that was found is not cleared.
q_pop_keeping_bit(q) == [q EXCEPT !.ptr = (NextBit(q) + 1) % QUEUE_BITS]

\* The queue after q_pop.  q_pop returns the new ptr: the popped register is
\* q_pop(q).ptr.  Meant for a queue with data; PopHalts is the other path.
q_pop(q) ==
  [data |-> q.data \ {NextBit(q)}, ptr |-> (NextBit(q) + 1) % QUEUE_BITS]

\* The scan of an empty map ends in APP_ERROR_HANDLER(123), which halts.
PopHalts(q) == ~ q_has_data(q)

\* The register numbers a queue will hand out, one q_pop each.
Queued(q) == {(i + 1) % QUEUE_BITS : i \in q.data}
=============================================================================
