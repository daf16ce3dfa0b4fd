--------------------------- MODULE MeshNodeProofs ---------------------------
(***************************************************************************)
(* Lemmas about the operators of one node: the queue operations, the       *)
(* comparison of revisions and the functions of mesh_protocol.h, for every *)
(* size of the bit map, every width of the revision and every set of       *)
(* registers.                                                              *)
(*                                                                         *)
(* Paced is not inductive step by step through a handler: mesh_write_reg,  *)
(* say, breaks it between its push and its call of broadcast_next_message. *)
(* The lemmas therefore ask for less than they give: Armed is what every   *)
(* function relies on, Paced what it leaves.                               *)
(***************************************************************************)
EXTENDS MeshNode, WellFoundedInduction, TLAPS

\* The loop of q_pop finds a set bit whenever there is one (the scan covers
\* the whole map from any position).
LEMMA NextBitIsSet ==
  ASSUME NEW q \in Queue, q_has_data(q)
  PROVE  /\ NextBit(q) \in q.data
         /\ NextBit(q) \in Bits
         /\ \A j \in q.data : ScanDistance(q, NextBit(q)) <= ScanDistance(q, j)
<1> DEFINE T == {ScanDistance(q, i) : i \in q.data}
<1>1. T \subseteq Nat
  BY QueueAssumption DEF Queue, Bits, ScanDistance
<1>2. T # {}
  BY DEF q_has_data
<1>3. PICK x \in T : \A y \in T : ~ (<<y, x>> \in OpToRel(<, Nat))
  <2> HIDE DEF T
  <2> QED BY <1>1, <1>2, NatLessThanWellFounded, WFMin
<1>4. PICK i \in q.data : x = ScanDistance(q, i)
  OBVIOUS
<1>5. \A j \in q.data : ScanDistance(q, i) <= ScanDistance(q, j)
  <2> TAKE j \in q.data
  <2>1. ScanDistance(q, j) \in T
    OBVIOUS
  <2>2. ScanDistance(q, j) \in Nat /\ x \in Nat
    BY <1>1, <2>1
  <2>3. ~ (ScanDistance(q, j) < x)
    BY <1>3, <2>1, <2>2 DEF OpToRel
  <2> QED BY <1>4, <2>2, <2>3
<1>6. /\ NextBit(q) \in q.data
      /\ \A j \in q.data : ScanDistance(q, NextBit(q)) <= ScanDistance(q, j)
  BY <1>5 DEF NextBit
<1> QED BY <1>6 DEF Queue

\* Bits of a queue and the registers they stand for: a popped register was
\* queued, it is queued no more, and every other register still is.
LEMMA PopTakesQueued ==
  ASSUME NEW q \in Queue, q_has_data(q)
  PROVE  /\ q_pop(q) \in Queue
         /\ q_pop(q).ptr \in Queued(q)
         /\ Queued(q_pop(q)) = Queued(q) \ {q_pop(q).ptr}
<1>1. NextBit(q) \in q.data /\ NextBit(q) \in Bits
  BY NextBitIsSet
<1> DEFINE b == NextBit(q)
           up(i) == (i + 1) % QUEUE_BITS
<1> HIDE DEF b
<1>2. \A i \in Bits : up(i) = IF i = QUEUE_BITS - 1 THEN 0 ELSE i + 1
  <2> TAKE i \in Bits
  <2>1. CASE i = QUEUE_BITS - 1
    BY <2>1, QueueAssumption DEF Bits
  <2>2. CASE i # QUEUE_BITS - 1
    BY <2>2, QueueAssumption DEF Bits
  <2> QED BY <2>1, <2>2
<1>3. \A i, j \in Bits : up(i) = up(j) => i = j
  BY <1>2, QueueAssumption DEF Bits
<1>4. q_pop(q) = [data |-> q.data \ {b}, ptr |-> up(b)]
  BY DEF q_pop, b
<1>5. q_pop(q) \in Queue
  BY <1>1, <1>2, <1>4, QueueAssumption DEF Queue, Bits, b
<1>6. q_pop(q).ptr \in Queued(q)
  BY <1>1, <1>4 DEF Queued, b
<1>7. Queued(q_pop(q)) = Queued(q) \ {q_pop(q).ptr}
  <2>1. Queued(q_pop(q)) = {up(i) : i \in q.data \ {b}}
    BY <1>4 DEF Queued
  <2>2. Queued(q) = {up(i) : i \in q.data}
    BY DEF Queued
  <2>3. q.data \subseteq Bits /\ b \in q.data
    BY <1>1 DEF Queue, b
  <2> HIDE DEF up
  <2> QED BY <1>3, <1>4, <2>1, <2>2, <2>3
<1> QED BY <1>5, <1>6, <1>7

\* A push adds the register, unless its number is a multiple of 8: then it
\* adds nothing at all.
LEMMA PushAddsQueued ==
  ASSUME NEW q \in Queue, NEW r \in RegisterNumbers
  PROVE  /\ q_push(q, r) \in Queue
         /\ Queued(q_push(q, r)) = Queued(q) \union (IF r % 8 = 0 THEN {} ELSE {r})
<1>1. CASE r % 8 = 0
  BY <1>1 DEF q_push, PushBits, Queue, Queued
<1>2. CASE r % 8 # 0
  <2>1. r # 0 /\ r \in Nat /\ r < QUEUE_BITS
    BY <1>2, QueueAssumption DEF RegisterNumbers
  <2>2. r - 1 \in Bits /\ (r - 1) + 1 = r
    BY <2>1, QueueAssumption DEF Bits
  <2>3. r % QUEUE_BITS = r
    BY <2>1, QueueAssumption
  <2>4. q_push(q, r) = [q EXCEPT !.data = @ \union {r - 1}]
    BY <1>2 DEF q_push, PushBits
  <2>5. q_push(q, r) \in Queue
    BY <2>2, <2>4 DEF Queue
  <2>6. q_push(q, r).data = q.data \union {r - 1}
    BY <2>4 DEF Queue
  <2>7. Queued(q_push(q, r)) = Queued(q) \union {((r - 1) + 1) % QUEUE_BITS}
    BY <2>6 DEF Queued
  <2> QED BY <1>2, <2>2, <2>3, <2>5, <2>7
<1> QED BY <1>1, <1>2
-----------------------------------------------------------------------------
\* Two numbers less than M apart: their remainders differ by as much, or by M
\* less when a wrap lies between them.
LEMMA RemaindersOfNear ==
  ASSUME NEW M \in Nat, M > 0, NEW x \in Nat, NEW y \in Nat, y <= x, x - y < M
  PROVE  (x % M) - (y % M) = x - y \/ (x % M) - (y % M) = x - y - M
<1> DEFINE p == y \div M
           q == x \div M
<1>1. /\ p \in Int /\ q \in Int
      /\ x = M * q + (x % M) /\ y = M * p + (y % M)
      /\ x % M \in 0 .. M - 1 /\ y % M \in 0 .. M - 1
  OBVIOUS
<1> HIDE DEF p, q
<1>2. M * (q - p) = (x - y) - ((x % M) - (y % M))
  BY <1>1
<1>3. M * (q - p) > - M /\ M * (q - p) < 2 * M
  BY <1>1, <1>2
<1>4. q - p = 0 \/ q - p = 1
  <2>1. CASE q - p >= 2
    <3>1. \A k \in Int : k >= 2 => M * k >= M * 2
      OBVIOUS
    <3> QED BY <1>1, <1>3, <2>1, <3>1
  <2>2. CASE q - p <= -1
    <3>1. \A k \in Int : k <= -1 => M * k <= M * (-1)
      OBVIOUS
    <3> QED BY <1>1, <1>3, <2>2, <3>1
  <2> QED BY <1>1, <2>1, <2>2
<1> QED BY <1>1, <1>2, <1>4

\* Within half the window the later of two writes looks newer, the earlier
\* one never does, wrap or not.
THEOREM ComparisonIsRight ==
  ASSUME NEW k \in Nat, NEW j \in Nat, j < k, k - j < HALF_REVISION
  PROVE  /\ NEWER_REVISION(RevisionOf(k), RevisionOf(j))
         /\ ~ NEWER_REVISION(RevisionOf(j), RevisionOf(k))
<1> DEFINE a == RevisionOf(k)
           b == RevisionOf(j)
           M == MAX_REVISION + 1
<1>1. HALF_REVISION \in Nat /\ 2 * HALF_REVISION <= MAX_REVISION
  BY RevisionAssumption DEF HALF_REVISION
<1>2. M \in Nat /\ M > 0 /\ j <= k /\ k - j < M /\ M = MAX_REVISION + 1
  BY <1>1, RevisionAssumption
<1>3. a = k % M /\ b = j % M
  BY DEF RevisionOf
<1> HIDE DEF M, a, b
<1>4. a - b = k - j \/ a - b = k - j - M
  <2>1. (k % M) - (j % M) = k - j \/ (k % M) - (j % M) = k - j - M
    BY <1>2, RemaindersOfNear
  <2> QED BY <1>3, <2>1
<1>5. a \in Int /\ b \in Int
  BY <1>2, <1>3
<1>6. NEWER_REVISION(a, b) /\ ~ NEWER_REVISION(b, a)
  BY <1>1, <1>2, <1>4, <1>5, RevisionAssumption DEF NEWER_REVISION
<1> QED BY <1>6 DEF a, b
-----------------------------------------------------------------------------
\* The part of Paced that a push does not disturb.
Armed(s) == s.m_broadcasting => s.mesh_timer # "off"

USE DEF MeshTimer

\* A well-typed register copy is a well-typed message.
LEMMA CopyIsMessage ==
  ASSUME NEW s, NodeTypeOK(s), NEW r \in Reg, NEW b \in BOOLEAN
  PROVE  CopyOf(s, r, b) \in Message
<1>1. s.registers[r] \in Register
  BY DEF NodeTypeOK, NodeState
<1> QED BY <1>1 DEF CopyOf, Message, Register

\* Taking the next register out of the queues.
LEMMA AssembleTakesOne ==
  ASSUME NEW s, NodeTypeOK(s), MessagesWaiting(s)
  PROVE  LET next == mesh_assemble_next_message(s)
         IN  /\ NodeTypeOK(next.node)
             /\ next.message \in Message
             /\ next.node.m_broadcasting = s.m_broadcasting
             /\ next.node.mesh_timer = s.mesh_timer
<1> DEFINE rq == q_pop(s.request_queue)
           sq == q_pop(s.send_queue)
           viaRequest == [s EXCEPT !.request_queue = rq]
           viaSend == [s EXCEPT !.send_queue = sq]
<1>0. s.request_queue \in Queue /\ s.send_queue \in Queue
  BY DEF NodeTypeOK, NodeState
<1>1. CASE q_has_data(s.request_queue)
  <2>1. /\ rq \in Queue /\ rq.ptr \in Queued(s.request_queue)
        /\ Queued(rq) \subseteq Queued(s.request_queue)
    BY <1>0, <1>1, PopTakesQueued
  <2>2. rq.ptr \in Reg /\ Queued(rq) \subseteq Reg
    BY <2>1 DEF NodeTypeOK
  <2> HIDE DEF rq
  <2>3. NodeTypeOK(viaRequest)
    BY <2>1, <2>2 DEF NodeTypeOK, NodeState
  <2>4. mesh_copy_request(s, rq.ptr) \in Message
    BY <2>2, CopyIsMessage DEF mesh_copy_request
  <2>5. mesh_assemble_next_message(s) =
          [node |-> viaRequest, message |-> mesh_copy_request(s, rq.ptr)]
    BY <1>1 DEF mesh_assemble_next_message, rq
  <2>6. viaRequest.m_broadcasting = s.m_broadcasting /\ viaRequest.mesh_timer = s.mesh_timer
    BY DEF NodeTypeOK, NodeState
  <2> HIDE DEF viaRequest
  <2> QED BY <2>3, <2>4, <2>5, <2>6
<1>2. CASE ~ q_has_data(s.request_queue)
  <2>0. q_has_data(s.send_queue)
    BY <1>2 DEF MessagesWaiting
  <2>1. /\ sq \in Queue /\ sq.ptr \in Queued(s.send_queue)
        /\ Queued(sq) \subseteq Queued(s.send_queue)
    BY <1>0, <2>0, PopTakesQueued
  <2>2. sq.ptr \in Reg /\ Queued(sq) \subseteq Reg
    BY <2>1 DEF NodeTypeOK
  <2> HIDE DEF sq
  <2>3. NodeTypeOK(viaSend)
    BY <2>1, <2>2 DEF NodeTypeOK, NodeState
  <2>4. mesh_copy_message(s, sq.ptr) \in Message
    BY <2>2, CopyIsMessage DEF mesh_copy_message
  <2>5. mesh_assemble_next_message(s) =
          [node |-> viaSend, message |-> mesh_copy_message(s, sq.ptr)]
    BY <1>2 DEF mesh_assemble_next_message, sq
  <2>6. viaSend.m_broadcasting = s.m_broadcasting /\ viaSend.mesh_timer = s.mesh_timer
    BY DEF NodeTypeOK, NodeState
  <2> HIDE DEF viaSend
  <2> QED BY <2>3, <2>4, <2>5, <2>6
<1> QED BY <1>1, <1>2

\* Parts of handlers that leave the queues alone: the timer stops, the radio
\* stops.
LEMMA StopsKeepType ==
  ASSUME NEW s, NodeTypeOK(s)
  PROVE  /\ NodeTypeOK([s EXCEPT !.mesh_timer = "off", !.ticked = {}])
         /\ NodeTypeOK(advertising_stop(s))
         /\ Paced(s) => Paced(advertising_stop(s))
BY DEF advertising_stop, NodeTypeOK, NodeState, Paced, MessagesWaiting

\* Whatever the node was doing, broadcast_next_message leaves it paced, and
\* stops no timer.
LEMMA BroadcastPaces ==
  ASSUME NEW s, NodeTypeOK(s)
  PROVE  /\ NodeTypeOK(broadcast_next_message(s)) /\ Paced(broadcast_next_message(s))
         /\ s.mesh_timer # "off" => broadcast_next_message(s).mesh_timer # "off"
<1>1. CASE MessagesWaiting(s)
  <2> DEFINE s1 == [s EXCEPT !.m_broadcasting = TRUE]
             next == mesh_assemble_next_message(s1)
             s2 == advertise(next.node, next.message)
  <2>1. NodeTypeOK(s1) /\ MessagesWaiting(s1) /\ s1.m_broadcasting
    BY <1>1 DEF NodeTypeOK, NodeState, MessagesWaiting
  <2>2. NodeTypeOK(next.node) /\ next.message \in Message /\ next.node.m_broadcasting
    <3> HIDE DEF s1
    <3> QED BY <2>1, AssembleTakesOne
  <2> HIDE DEF next
  <2>3. NodeTypeOK(s2) /\ s2.m_broadcasting
    BY <2>2 DEF advertise, NodeTypeOK, NodeState
  <2>4. broadcast_next_message(s) = mesh_timer_start(s2, "window")
    BY <1>1 DEF broadcast_next_message, next
  <2> HIDE DEF s2
  <2>5. /\ NodeTypeOK(mesh_timer_start(s2, "window"))
        /\ mesh_timer_start(s2, "window").m_broadcasting
        /\ mesh_timer_start(s2, "window").mesh_timer # "off"
    BY <2>3 DEF mesh_timer_start, NodeTypeOK, NodeState
  <2> QED BY <2>4, <2>5 DEF Paced
<1>2. CASE ~ MessagesWaiting(s)
  <2> DEFINE s1 == [s EXCEPT !.m_broadcasting = FALSE]
  <2>1. broadcast_next_message(s) = advertising_stop(s1)
    BY <1>2 DEF broadcast_next_message
  <2>2. NodeTypeOK(advertising_stop(s1))
    BY DEF advertising_stop, NodeTypeOK, NodeState
  <2>3. /\ ~ MessagesWaiting(advertising_stop(s1)) /\ ~ advertising_stop(s1).m_broadcasting
        /\ advertising_stop(s1).mesh_timer = s.mesh_timer
    BY <1>2 DEF advertising_stop, MessagesWaiting, NodeTypeOK, NodeState
  <2> QED BY <2>1, <2>2, <2>3 DEF Paced
<1> QED BY <1>1, <1>2

\* So does the guarded call, if a broadcasting node's timer runs.
LEMMA BroadcastIfIdlePaces ==
  ASSUME NEW s, NodeTypeOK(s), Armed(s)
  PROVE  /\ NodeTypeOK(BroadcastIfIdle(s)) /\ Paced(BroadcastIfIdle(s))
         /\ s.mesh_timer # "off" => BroadcastIfIdle(s).mesh_timer # "off"
BY BroadcastPaces DEF BroadcastIfIdle, Armed, Paced

\* A push into either queue keeps the types and disturbs nothing else.
LEMMA PushKeepsType ==
  ASSUME NEW q \in Queue, Queued(q) \subseteq Reg, NEW r \in Reg
  PROVE  q_push(q, r) \in Queue /\ Queued(q_push(q, r)) \subseteq Reg
BY PushAddsQueued, NodeAssumption

\* The LEDs are read off the registers; nothing of the pacing depends on them.
LEMMA SetLedsPaces ==
  ASSUME NEW s, NodeTypeOK(s)
  PROVE  /\ NodeTypeOK(set_leds(s))
         /\ Paced(s) => Paced(set_leds(s))
BY DEF set_leds, NodeTypeOK, NodeState, Paced, MessagesWaiting

\* mesh_write_reg leaves an armed node paced.
LEMMA WritePaces ==
  ASSUME NEW s, NodeTypeOK(s), Armed(s),
         NEW r \in Reg, NEW d \in Nat, NEW v \in Revisions
  PROVE  NodeTypeOK(mesh_write_reg(s, r, d, v)) /\ Paced(mesh_write_reg(s, r, d, v))
<1> DEFINE q == q_push(s.send_queue, r)
           c == [data |-> d, rev |-> v, written |-> TRUE]
           s1 == [s EXCEPT !.registers[r] = c, !.send_queue = q]
<1>1. q \in Queue /\ Queued(q) \subseteq Reg
  BY PushKeepsType DEF NodeTypeOK, NodeState
<1>2. c \in Register
  BY DEF Register
<1> HIDE DEF q, c
<1>3. NodeTypeOK(s1) /\ Armed(s1)
  BY <1>1, <1>2 DEF NodeTypeOK, NodeState, Armed
<1>4. mesh_write_reg(s, r, d, v) = BroadcastIfIdle(s1)
  BY DEF mesh_write_reg, q, c
<1> HIDE DEF s1
<1> QED BY <1>3, <1>4, BroadcastIfIdlePaces

\* mesh_request_reg leaves an armed node paced.
LEMMA RequestPaces ==
  ASSUME NEW s, NodeTypeOK(s), Armed(s), NEW r \in Reg
  PROVE  NodeTypeOK(mesh_request_reg(s, r)) /\ Paced(mesh_request_reg(s, r))
<1> DEFINE q == q_push(s.request_queue, r)
           c == [s.registers[r] EXCEPT !.written = FALSE]
           s1 == [s EXCEPT !.request_queue = q, !.registers[r] = c]
<1>1. q \in Queue /\ Queued(q) \subseteq Reg
  BY PushKeepsType DEF NodeTypeOK, NodeState
<1>2. c \in Register
  <2>1. ASSUME NEW old \in Register
        PROVE  [old EXCEPT !.written = FALSE] \in Register
    BY DEF Register
  <2> QED BY <2>1 DEF NodeTypeOK, NodeState
<1> HIDE DEF q, c
<1>3. NodeTypeOK(s1) /\ Armed(s1)
  BY <1>1, <1>2 DEF NodeTypeOK, NodeState, Armed
<1>4. mesh_request_reg(s, r) = BroadcastIfIdle(s1)
  BY DEF mesh_request_reg, q, c
<1> HIDE DEF s1
<1> QED BY <1>3, <1>4, BroadcastIfIdlePaces

\* s with something pushed into its send queue, perhaps a register written and
\* the reception counted: what ble_evt_adv_report does before it broadcasts.
Pushes(s, t) ==
  /\ NodeTypeOK(t)
  /\ t.m_broadcasting = s.m_broadcasting
  /\ t.mesh_timer = s.mesh_timer
  /\ s.send_queue.data \subseteq t.send_queue.data

\* Whatever a node hears, it ignores it or pushes and broadcasts if it was idle.
LEMMA ReportPushes ==
  ASSUME NEW s, NodeTypeOK(s), NEW m \in Message
  PROVE  \/ ble_evt_adv_report(s, m) = s
         \/ \E t : /\ Pushes(s, t)
                  /\ \/ ble_evt_adv_report(s, m) = BroadcastIfIdle(t)
                     \/ ble_evt_adv_report(s, m) = set_leds(BroadcastIfIdle(t))
<1> DEFINE q == q_push(s.send_queue, m.reg)
<1>0. /\ m.reg \in Reg /\ m.data \in Nat /\ m.rev \in Revisions
      /\ s.send_queue \in Queue /\ Queued(s.send_queue) \subseteq Reg
  BY DEF Message, NodeTypeOK, NodeState
<1>1. q \in Queue /\ Queued(q) \subseteq Reg
  BY <1>0, PushKeepsType
<1>2. s.send_queue.data \subseteq q.data
  BY <1>0 DEF q_push, Queue
<1>3. CASE m.req
  <2> DEFINE t == [s EXCEPT !.send_queue = q]
  <2>1. ble_evt_adv_report(s, m) = BroadcastIfIdle(t)
    BY <1>3 DEF ble_evt_adv_report, ReceiveRequest
  <2> HIDE DEF q
  <2>2. Pushes(s, t)
    BY <1>1, <1>2 DEF Pushes, NodeTypeOK, NodeState
  <2> HIDE DEF t
  <2> QED BY <2>1, <2>2
<1>4. CASE ~ m.req /\ Accepts(s, m)
  <2> DEFINE c == [data |-> m.data, rev |-> m.rev, written |-> TRUE]
             s1 == CountReception(s, m)
             t == [s1 EXCEPT !.registers[m.reg] = c, !.send_queue = q]
  <2>1. /\ NodeTypeOK(s1) /\ s1.m_broadcasting = s.m_broadcasting
        /\ s1.mesh_timer = s.mesh_timer /\ s1.send_queue = s.send_queue
    <3>1. \A k \in 0 .. COUNT_MOD - 1 : (k + 1) % COUNT_MOD \in 0 .. COUNT_MOD - 1
      BY CounterAssumption
    <3> QED BY <3>1 DEF CountReception, NodeTypeOK, NodeState
  <2>2. mesh_write_reg(s1, m.reg, m.data, m.rev) = BroadcastIfIdle(t)
    <3> HIDE DEF s1
    <3> QED BY <2>1 DEF mesh_write_reg
  <2>3. ble_evt_adv_report(s, m) = set_leds(BroadcastIfIdle(t))
    BY <1>4, <2>2 DEF ble_evt_adv_report, ReceiveCopy
  <2>4. c \in Register
    BY <1>0 DEF Register
  <2> HIDE DEF s1, c, q
  <2>5. Pushes(s, t)
    BY <1>0, <1>1, <1>2, <2>1, <2>4 DEF Pushes, NodeTypeOK, NodeState
  <2> HIDE DEF t
  <2> QED BY <2>3, <2>5
<1>5. CASE ~ m.req /\ ~ Accepts(s, m)
  BY <1>5 DEF ble_evt_adv_report, ReceiveCopy
<1> QED BY <1>3, <1>4, <1>5

\* ble_evt_adv_report leaves an armed node as it is or paced, whatever it
\* hears; it stops no timer, and does not pop while the node broadcasts.
LEMMA ReportOfArmed ==
  ASSUME NEW s, NodeTypeOK(s), Armed(s), NEW m \in Message
  PROVE  LET t == ble_evt_adv_report(s, m)
         IN  /\ NodeTypeOK(t)
             /\ t = s \/ Paced(t)
             /\ s.mesh_timer # "off" => t.mesh_timer # "off"
             /\ s.m_broadcasting =>
                  /\ t.m_broadcasting
                  /\ s.send_queue.data \subseteq t.send_queue.data
<1> DEFINE t == ble_evt_adv_report(s, m)
<1>1. ASSUME NEW u, Pushes(s, u)
      PROVE  LET v == BroadcastIfIdle(u)
             IN  /\ NodeTypeOK(v) /\ Paced(v)
                 /\ s.mesh_timer # "off" => v.mesh_timer # "off"
                 /\ s.m_broadcasting =>
                      v.m_broadcasting /\ s.send_queue.data \subseteq v.send_queue.data
  <2>1. NodeTypeOK(u) /\ Armed(u)
    BY <1>1 DEF Pushes, Armed
  <2>2. u.m_broadcasting => BroadcastIfIdle(u) = u
    BY DEF BroadcastIfIdle
  <2> QED BY <1>1, <2>1, <2>2, BroadcastIfIdlePaces DEF Pushes
<1>2. ASSUME NEW v, NodeTypeOK(v), Paced(v)
      PROVE  /\ NodeTypeOK(set_leds(v)) /\ Paced(set_leds(v))
             /\ set_leds(v).mesh_timer = v.mesh_timer
             /\ set_leds(v).m_broadcasting = v.m_broadcasting
             /\ set_leds(v).send_queue = v.send_queue
  <2>1. NodeTypeOK(set_leds(v)) /\ Paced(set_leds(v))
    BY <1>2, SetLedsPaces
  <2> QED BY <1>2, <2>1 DEF set_leds, NodeTypeOK, NodeState
<1>3. CASE t = s
  BY <1>3
<1>4. ASSUME NEW u, Pushes(s, u), t = BroadcastIfIdle(u) \/ t = set_leds(BroadcastIfIdle(u))
      PROVE  /\ NodeTypeOK(t) /\ Paced(t)
             /\ s.mesh_timer # "off" => t.mesh_timer # "off"
             /\ s.m_broadcasting =>
                  t.m_broadcasting /\ s.send_queue.data \subseteq t.send_queue.data
  <2> HIDE DEF t
  <2> QED BY <1>1, <1>2, <1>4
<1> QED BY <1>3, <1>4, ReportPushes

\* In particular it leaves a paced node paced.
LEMMA ReportPaces ==
  ASSUME NEW s, NodeTypeOK(s), Paced(s), NEW m \in Message
  PROVE  NodeTypeOK(ble_evt_adv_report(s, m)) /\ Paced(ble_evt_adv_report(s, m))
<1>1. Armed(s)
  BY DEF Paced, Armed
<1> QED BY <1>1, ReportOfArmed

\* mesh_init starts a node that is well typed and paced, however its LEDs are.
LEMMA InitPaces ==
  ASSUME NEW lit \in BOOLEAN
  PROVE  LET s == mesh_init(ResetNode(lit)) IN NodeTypeOK(s) /\ Paced(s)
<1> DEFINE s0 == ResetNode(lit)
<1>1. EmptyQueue \in Queue /\ Queued(EmptyQueue) = {}
  BY QueueAssumption DEF EmptyQueue, Queue, Queued, Bits
<1>2. BlankRegister \in Register
  BY RevisionAssumption DEF BlankRegister, Register, Revisions
<1>3. 0 \in 0 .. COUNT_MOD - 1
  BY CounterAssumption
<1>4. s0.send_queue = EmptyQueue /\ s0.request_queue = EmptyQueue
  BY DEF ResetNode
<1>5. s0 \in NodeState
  BY <1>1, <1>2, <1>3 DEF ResetNode, NodeState
<1>6. NodeTypeOK(s0)
  BY <1>1, <1>4, <1>5 DEF NodeTypeOK
<1> DEFINE s1 == mesh_timer_start(s0, "boot")
           m == mesh_copy_message(s0, 0)
<1>7. m \in Message
  BY <1>6, CopyIsMessage, NodeAssumption DEF mesh_copy_message
<1>8. s1 = [s0 EXCEPT !.mesh_timer = "boot", !.ticked = {}]
  BY DEF mesh_timer_start, ResetNode
<1>9. ~ s0.m_broadcasting /\ ~ MessagesWaiting(s0)
  BY DEF ResetNode, MessagesWaiting, q_has_data, EmptyQueue
<1> HIDE DEF m
<1>10. NodeTypeOK(advertise(s1, m)) /\ Paced(advertise(s1, m))
  BY <1>6, <1>7, <1>8, <1>9 DEF advertise, NodeTypeOK, NodeState, Paced, MessagesWaiting
<1> QED BY <1>10 DEF mesh_init, m
-----------------------------------------------------------------------------
(***************************************************************************)
(* What the handlers do to registers and messages.                         *)
(***************************************************************************)

\* What t has on air was on air in s, or is a copy of a register of t.
Sends(s, t) ==
  \A m \in t.adv : m \in s.adv \/ \E r \in Reg, b \in BOOLEAN : m = CopyOf(t, r, b)

LEMMA BroadcastSends ==
  ASSUME NEW s, NodeTypeOK(s)
  PROVE  LET t == broadcast_next_message(s) IN t.registers = s.registers /\ Sends(s, t)
<1>1. CASE MessagesWaiting(s)
  <2> DEFINE s1 == [s EXCEPT !.m_broadcasting = TRUE]
             next == mesh_assemble_next_message(s1)
             s2 == advertise(next.node, next.message)
             t == mesh_timer_start(s2, "window")
  <2>1. NodeTypeOK(s1) /\ MessagesWaiting(s1) /\ s1.registers = s.registers
    BY <1>1 DEF NodeTypeOK, NodeState, MessagesWaiting
  <2> HIDE DEF s1
  <2>2. /\ next.node.registers = s1.registers
        /\ \E r \in Reg, b \in BOOLEAN : next.message = CopyOf(s1, r, b)
    <3>0. s1.request_queue \in Queue /\ s1.send_queue \in Queue
      BY <2>1 DEF NodeTypeOK, NodeState
    <3>1. CASE q_has_data(s1.request_queue)
      <4> DEFINE q == q_pop(s1.request_queue)
      <4>1. q.ptr \in Reg
        BY <2>1, <3>0, <3>1, PopTakesQueued DEF NodeTypeOK
      <4> HIDE DEF q
      <4>2. /\ next.node = [s1 EXCEPT !.request_queue = q]
            /\ next.message = CopyOf(s1, q.ptr, TRUE)
        BY <3>1 DEF mesh_assemble_next_message, mesh_copy_request, q
      <4> HIDE DEF next
      <4> QED BY <2>1, <4>1, <4>2 DEF NodeTypeOK, NodeState
    <3>2. CASE ~ q_has_data(s1.request_queue)
      <4> DEFINE q == q_pop(s1.send_queue)
      <4>0. q_has_data(s1.send_queue)
        BY <2>1, <3>2 DEF MessagesWaiting
      <4>1. q.ptr \in Reg
        BY <2>1, <3>0, <4>0, PopTakesQueued DEF NodeTypeOK
      <4> HIDE DEF q
      <4>2. /\ next.node = [s1 EXCEPT !.send_queue = q]
            /\ next.message = CopyOf(s1, q.ptr, FALSE)
        BY <3>2 DEF mesh_assemble_next_message, mesh_copy_message, q
      <4> HIDE DEF next
      <4> QED BY <2>1, <4>1, <4>2 DEF NodeTypeOK, NodeState
    <3> QED BY <3>1, <3>2
  <2>3. NodeTypeOK(next.node)
    BY <2>1, AssembleTakesOne
  <2>4. broadcast_next_message(s) = t
    BY <1>1 DEF broadcast_next_message, s1
  <2> HIDE DEF next
  <2>5. s2.registers = s1.registers /\ s2.adv = {next.message}
    BY <2>2, <2>3 DEF advertise, NodeTypeOK, NodeState
  <2>6. NodeTypeOK(next.node) => t.registers = s2.registers /\ t.adv = s2.adv
    BY DEF mesh_timer_start, advertise, NodeTypeOK, NodeState
  <2> HIDE DEF s2, t
  <2>7. \A r, b : CopyOf(s1, r, b) = CopyOf(t, r, b)
    BY <2>3, <2>5, <2>6 DEF CopyOf
  <2> QED BY <2>1, <2>2, <2>3, <2>4, <2>5, <2>6, <2>7 DEF Sends
<1>2. CASE ~ MessagesWaiting(s)
  BY <1>2 DEF broadcast_next_message, advertising_stop, Sends, NodeTypeOK, NodeState
<1> QED BY <1>1, <1>2

LEMMA BroadcastIfIdleSends ==
  ASSUME NEW s, NodeTypeOK(s)
  PROVE  LET t == BroadcastIfIdle(s) IN t.registers = s.registers /\ Sends(s, t)
<1>1. CASE s.m_broadcasting
  BY <1>1 DEF BroadcastIfIdle, Sends
<1>2. CASE ~ s.m_broadcasting
  BY <1>2, BroadcastSends DEF BroadcastIfIdle
<1> QED BY <1>1, <1>2

\* mesh_write_reg stores data and revision of one write together.
LEMMA WriteSends ==
  ASSUME NEW s, NodeTypeOK(s), NEW r \in Reg, NEW d \in Nat, NEW v \in Revisions
  PROVE  LET t == mesh_write_reg(s, r, d, v)
         IN  /\ t.registers = [s.registers EXCEPT ![r] = [data |-> d, rev |-> v, written |-> TRUE]]
             /\ Sends(s, t)
<1> DEFINE q == q_push(s.send_queue, r)
           c == [data |-> d, rev |-> v, written |-> TRUE]
           s1 == [s EXCEPT !.registers[r] = c, !.send_queue = q]
<1>1. q \in Queue /\ Queued(q) \subseteq Reg
  BY PushKeepsType DEF NodeTypeOK, NodeState
<1>2. c \in Register
  BY DEF Register
<1>3. mesh_write_reg(s, r, d, v) = BroadcastIfIdle(s1)
  BY DEF mesh_write_reg
<1> HIDE DEF q, c
<1>4. NodeTypeOK(s1) /\ s1.registers = [s.registers EXCEPT ![r] = c] /\ s1.adv = s.adv
  BY <1>1, <1>2 DEF NodeTypeOK, NodeState
<1> HIDE DEF s1
<1>5. BroadcastIfIdle(s1).registers = s1.registers /\ Sends(s1, BroadcastIfIdle(s1))
  BY <1>4, BroadcastIfIdleSends
<1> QED BY <1>3, <1>4, <1>5 DEF Sends, c

\* mesh_request_reg clears byte 25 and nothing else of the register.
LEMMA RequestSends ==
  ASSUME NEW s, NodeTypeOK(s), NEW r \in Reg
  PROVE  LET t == mesh_request_reg(s, r)
         IN  /\ t.registers = [s.registers EXCEPT ![r] = [@ EXCEPT !.written = FALSE]]
             /\ Sends(s, t)
<1> DEFINE q == q_push(s.request_queue, r)
           c == [s.registers[r] EXCEPT !.written = FALSE]
           s1 == [s EXCEPT !.request_queue = q, !.registers[r] = c]
<1>1. q \in Queue /\ Queued(q) \subseteq Reg
  BY PushKeepsType DEF NodeTypeOK, NodeState
<1>2. c \in Register
  <2>1. ASSUME NEW old \in Register
        PROVE  [old EXCEPT !.written = FALSE] \in Register
    BY DEF Register
  <2> QED BY <2>1 DEF NodeTypeOK, NodeState
<1>3. mesh_request_reg(s, r) = BroadcastIfIdle(s1)
  BY DEF mesh_request_reg
<1> HIDE DEF q, c
<1>4. NodeTypeOK(s1) /\ s1.registers = [s.registers EXCEPT ![r] = c] /\ s1.adv = s.adv
  BY <1>1, <1>2 DEF NodeTypeOK, NodeState
<1> HIDE DEF s1
<1>5. BroadcastIfIdle(s1).registers = s1.registers /\ Sends(s1, BroadcastIfIdle(s1))
  BY <1>4, BroadcastIfIdleSends
<1> QED BY <1>3, <1>4, <1>5 DEF Sends, c

\* The LEDs change neither registers nor messages.
LEMMA SetLedsSends ==
  ASSUME NEW s, NodeTypeOK(s)
  PROVE  set_leds(s).registers = s.registers /\ set_leds(s).adv = s.adv
BY DEF set_leds, NodeTypeOK, NodeState

\* ble_evt_adv_report takes a message in as it is, or leaves the registers alone.
Takes(s, m, t) ==
  /\ ~ m.req /\ Accepts(s, m)
  /\ t.registers = [s.registers EXCEPT
                      ![m.reg] = [data |-> m.data, rev |-> m.rev, written |-> TRUE]]

LEMMA ReportSends ==
  ASSUME NEW s, NodeTypeOK(s), Paced(s), NEW m \in Message
  PROVE  LET t == ble_evt_adv_report(s, m)
         IN  /\ Sends(s, t)
             /\ t.registers = s.registers \/ Takes(s, m, t)
             /\ ~ m.req /\ Accepts(s, m) => Takes(s, m, t)
<1>0. /\ m.reg \in Reg /\ m.data \in Nat /\ m.rev \in Revisions
      /\ s.send_queue \in Queue /\ Queued(s.send_queue) \subseteq Reg
  BY DEF Message, NodeTypeOK, NodeState
<1>1. CASE m.req
  <2> DEFINE q == q_push(s.send_queue, m.reg)
             s1 == [s EXCEPT !.send_queue = q]
  <2>1. q \in Queue /\ Queued(q) \subseteq Reg
    BY <1>0, PushKeepsType
  <2> HIDE DEF q
  <2>2. NodeTypeOK(s1) /\ s1.registers = s.registers /\ s1.adv = s.adv
    BY <2>1 DEF NodeTypeOK, NodeState
  <2>3. ble_evt_adv_report(s, m) = BroadcastIfIdle(s1)
    BY <1>1 DEF ble_evt_adv_report, ReceiveRequest, q
  <2> HIDE DEF s1
  <2>4. /\ BroadcastIfIdle(s1).registers = s1.registers
        /\ Sends(s1, BroadcastIfIdle(s1))
    BY <2>2, BroadcastIfIdleSends
  <2> QED BY <1>1, <2>2, <2>3, <2>4 DEF Sends
<1>2. CASE ~ m.req /\ Accepts(s, m)
  <2> DEFINE s1 == CountReception(s, m)
             s2 == mesh_write_reg(s1, m.reg, m.data, m.rev)
  <2>1. NodeTypeOK(s1) /\ Armed(s1) /\ s1.registers = s.registers /\ s1.adv = s.adv
    <3>1. \A k \in 0 .. COUNT_MOD - 1 : (k + 1) % COUNT_MOD \in 0 .. COUNT_MOD - 1
      BY CounterAssumption
    <3> QED BY <3>1 DEF CountReception, NodeTypeOK, NodeState, Armed, Paced
  <2>2. ble_evt_adv_report(s, m) = set_leds(s2)
    BY <1>2 DEF ble_evt_adv_report, ReceiveCopy
  <2> HIDE DEF s1
  <2>3. /\ NodeTypeOK(s2) /\ Sends(s1, s2)
        /\ s2.registers = [s1.registers EXCEPT
                             ![m.reg] = [data |-> m.data, rev |-> m.rev, written |-> TRUE]]
    BY <1>0, <2>1, WritePaces, WriteSends
  <2> HIDE DEF s2
  <2>4. set_leds(s2).registers = s2.registers /\ set_leds(s2).adv = s2.adv
    BY <2>3, SetLedsSends
  <2> HIDE DEF Accepts
  <2>5. \A r, b : CopyOf(s2, r, b) = CopyOf(set_leds(s2), r, b)
    BY <2>4 DEF CopyOf
  <2> QED BY <1>2, <2>1, <2>2, <2>3, <2>4, <2>5 DEF Sends, Takes
<1>3. CASE ~ m.req /\ ~ Accepts(s, m)
  BY <1>3 DEF ble_evt_adv_report, ReceiveCopy, Sends
<1> QED BY <1>1, <1>2, <1>3
=============================================================================
