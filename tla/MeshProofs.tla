----------------------------- MODULE MeshProofs -----------------------------
(***************************************************************************)
(* Type correctness and the absence of stalls for Mesh, and what its       *)
(* registers hold, for every network, every assignment of registers, every *)
(* size of the queue and every value of the bounds; and how old a copy on  *)
(* air can be.                                                             *)
(***************************************************************************)
EXTENDS Mesh, MeshNodeProofs, FiniteSetTheorems

USE DEF MeshTimer

\* So does the main function of every application.
LEMMA BootPaces ==
  ASSUME NEW n \in Node, NEW s \in Booted(n)
  PROVE  NodeTypeOK(s) /\ Paced(s)
<1>1. CASE Requested[n] = {}
  <2>1. s = mesh_init(ResetNode(FALSE))
    BY <1>1 DEF Booted
  <2> QED BY <2>1, InitPaces
<1>2. CASE Requested[n] # {}
  <2> DEFINE s0 == mesh_init(ResetNode(TRUE))
  <2>1. PICK asked \in Requested[n] : s = mesh_request_reg(s0, asked)
    BY <1>2 DEF Booted
  <2>2. NodeTypeOK(s0) /\ Armed(s0) /\ asked \in Reg
    BY InitPaces, MeshAssumption DEF Paced, Armed
  <2> HIDE DEF s0
  <2> QED BY <2>1, <2>2, RequestPaces
<1> QED BY <1>1, <1>2
-----------------------------------------------------------------------------
\* The owner's tick: write, LEDs, and for proj_beef_request the request.
LEMMA WriteOwnPaces ==
  ASSUME TypeOK, NoStall, NEW n \in Node, NEW r \in AppReg
  PROVE  NodeTypeOK(WriteOwn(node[n], r)) /\ Paced(WriteOwn(node[n], r))
<1> DEFINE d == node[n].registers[r].data + 1
           v == NextRevision(rev[r])
           s1 == mesh_write_reg(node[n], r, d, v)
<1>1. NodeTypeOK(node[n]) /\ Armed(node[n]) /\ r \in Reg
  BY MeshAssumption DEF TypeOK, NoStall, Paced, Armed
<1>2. d \in Nat
  BY <1>1 DEF NodeTypeOK, NodeState, Register
<1>3. v \in Revisions
  BY RevisionAssumption DEF TypeOK, NextRevision, Revisions
<1> HIDE DEF d, v
<1>4. NodeTypeOK(s1) /\ Paced(s1)
  BY <1>1, <1>2, <1>3, WritePaces
<1>5. WriteOwn(node[n], r) = set_leds(s1)
  BY DEF WriteOwn, d, v
<1> HIDE DEF s1
<1> QED BY <1>4, <1>5, SetLedsPaces

\* The bookkeeping of a tick around the handler's result s.
LEMMA TickPaces ==
  ASSUME TypeOK, NoStall, NEW n \in Node, NEW r \in AppReg, NEW s,
         NodeTypeOK(s), Paced(s), count[n] < Len(Rota[n]), Tick(n, r, s)
  PROVE  TypeOK' /\ NoStall'
<1>1. /\ r \in Reg
      /\ rev' = [rev EXCEPT ![r] = NextRevision(@)]
      /\ count' = [count EXCEPT ![n] = (@ + 1) % Len(Rota[n])]
      /\ writes' = [writes EXCEPT ![r] = @ + 1]
  BY MeshAssumption DEF Tick
<1>2. NextRevision(rev[r]) \in Revisions
  BY RevisionAssumption DEF TypeOK, NextRevision, Revisions
<1>3. rev' \in [AppReg -> Revisions] /\ writes' \in [AppReg -> Nat]
  BY <1>1, <1>2 DEF TypeOK
<1>9. count' \in [Node -> Nat]
  <2>1. Len(Rota[n]) \in Nat /\ count[n] \in Nat
    BY MeshAssumption DEF TypeOK
  <2>2. (count[n] + 1) % Len(Rota[n]) \in Nat
    BY <2>1
  <2> QED BY <1>1, <2>2 DEF TypeOK
<1>4. ASSUME NEW t, NodeTypeOK(t), Paced(t)
      PROVE  LET u == [t EXCEPT !.ticked = @ \union {n}]
             IN  NodeTypeOK(u) /\ Paced(u)
  BY <1>1, <1>4 DEF NodeTypeOK, NodeState, Paced, MessagesWaiting
<1> DEFINE base(m) == IF m = n THEN s ELSE node[m]
<1>5. \A m \in Node : NodeTypeOK(base(m)) /\ Paced(base(m))
  BY DEF TypeOK, NoStall
<1>6. node' = [m \in Node |-> IF base(m).mesh_timer = "off" THEN base(m)
                              ELSE [base(m) EXCEPT !.ticked = @ \union {n}]]
  BY DEF Tick
<1> HIDE DEF base
<1>7. /\ DOMAIN node' = Node
      /\ \A m \in Node : NodeTypeOK(node'[m]) /\ Paced(node'[m])
  BY <1>4, <1>5, <1>6
<1>8. node' \in [Node -> NodeState]
  BY <1>6, <1>7 DEF NodeTypeOK
<1> QED BY <1>3, <1>7, <1>8, <1>9 DEF TypeOK, NoStall

\* One node changes, to a state that is well typed and paced.
LEMMA OneNodeChanges ==
  ASSUME TypeOK, NoStall, NEW n \in Node, NEW s, NodeTypeOK(s), Paced(s),
         node' = [node EXCEPT ![n] = s], UNCHANGED <<rev, count, writes>>
  PROVE  TypeOK' /\ NoStall'
<1>1. \A m \in Node : node'[m] = IF m = n THEN s ELSE node[m]
  BY DEF TypeOK
<1>2. node' \in [Node -> NodeState]
  BY DEF TypeOK, NodeTypeOK
<1> QED BY <1>1, <1>2 DEF TypeOK, NoStall

\* The inductive step, action by action.
LEMMA StepPaces ==
  ASSUME TypeOK, NoStall, [Next]_vars
  PROVE  TypeOK' /\ NoStall'
<1>0. \A n \in Node : NodeTypeOK(node[n]) /\ Paced(node[n])
  BY DEF TypeOK, NoStall
<1>1. ASSUME NEW n \in Node, NEW r \in AppReg, AppTick(n, r)
      PROVE  TypeOK' /\ NoStall'
  BY <1>1, WriteOwnPaces, TickPaces DEF AppTick, MayTick
<1>2. ASSUME NEW n \in Node, NEW r \in AppReg, NEW asked \in Reg, RequestTick(n, r, asked)
      PROVE  TypeOK' /\ NoStall'
  <2> DEFINE s1 == WriteOwn(node[n], r)
  <2>1. NodeTypeOK(s1) /\ Armed(s1)
    BY WriteOwnPaces DEF Paced, Armed
  <2>2. count[n] < Len(Rota[n]) /\ Tick(n, r, mesh_request_reg(s1, asked))
    BY <1>2 DEF RequestTick, MayTick
  <2> HIDE DEF s1
  <2> QED BY <2>1, <2>2, RequestPaces, TickPaces
<1>3. ASSUME NEW n \in Node, TimerExpires(n)
      PROVE  TypeOK' /\ NoStall'
  <2> DEFINE s1 == [node[n] EXCEPT !.mesh_timer = "off", !.ticked = {}]
  <2>1. NodeTypeOK(s1)
    BY <1>0, StopsKeepType
  <2>2. node' = [node EXCEPT ![n] = broadcast_next_message(s1)] /\ UNCHANGED <<rev, count, writes>>
    BY <1>3 DEF TimerExpires, mesh_timer_timeout_handler
  <2> HIDE DEF s1
  <2> QED BY <2>1, <2>2, BroadcastPaces, OneNodeChanges
<1>4. ASSUME NEW n \in Node, AdvertisingTimeout(n)
      PROVE  TypeOK' /\ NoStall'
  <2> DEFINE s1 == advertising_stop(node[n])
  <2>1. NodeTypeOK(s1) /\ Paced(s1)
    BY <1>0, StopsKeepType
  <2>2. node' = [node EXCEPT ![n] = s1] /\ UNCHANGED <<rev, count, writes>>
    BY <1>4 DEF AdvertisingTimeout
  <2> HIDE DEF s1
  <2> QED BY <2>1, <2>2, OneNodeChanges
<1>5. ASSUME NEW m \in Node, NEW n \in Node, Hear(m, n)
      PROVE  TypeOK' /\ NoStall'
  <2>1. PICK message \in node[m].adv :
          node' = [node EXCEPT ![n] = ble_evt_adv_report(@, message),
                               ![m].heard = @ \union ({n} \intersect ReliableListeners(m))]
    BY <1>5 DEF Hear
  <2>2. m # n /\ UNCHANGED <<rev, count, writes>>
    BY <1>5, MeshAssumption DEF Hear
  <2> DEFINE s1 == ble_evt_adv_report(node[n], message)
             s2 == [node[m] EXCEPT !.heard = @ \union ({n} \intersect ReliableListeners(m))]
  <2>3. message \in Message
    BY <1>0 DEF NodeTypeOK, NodeState
  <2>4. NodeTypeOK(s1) /\ Paced(s1)
    BY <1>0, <2>3, ReportPaces
  <2>5. NodeTypeOK(s2) /\ Paced(s2)
    BY <1>0 DEF NodeTypeOK, NodeState, Paced, MessagesWaiting
  <2>6. node' = [node EXCEPT ![n] = s1, ![m] = s2]
    BY <2>1, <2>2 DEF TypeOK
  <2> HIDE DEF s1, s2
  <2>7. \A k \in Node : node'[k] = IF k = m THEN s2 ELSE IF k = n THEN s1 ELSE node[k]
    BY <2>6, <2>2 DEF TypeOK
  <2>8. node' \in [Node -> NodeState]
    BY <2>4, <2>5, <2>6 DEF TypeOK, NodeTypeOK
  <2> QED BY <1>0, <2>2, <2>4, <2>5, <2>7, <2>8 DEF TypeOK, NoStall
<1>6. CASE UNCHANGED vars
  BY <1>6 DEF vars, TypeOK, NoStall
<1> QED BY <1>1, <1>2, <1>3, <1>4, <1>5, <1>6 DEF Next

LEMMA InitialPaces ==
  ASSUME Init
  PROVE  TypeOK /\ NoStall
<1>1. /\ DOMAIN node = Node
      /\ \A n \in Node : node[n] \in Booted(n)
      /\ node = [n \in Node |-> node[n]]
  BY DEF Init
<1>2. \A n \in Node : NodeTypeOK(node[n]) /\ Paced(node[n])
  BY <1>1, BootPaces
<1>4. node \in [Node -> NodeState]
  BY <1>1, <1>2 DEF NodeTypeOK
<1>3. rev \in [AppReg -> Revisions] /\ count \in [Node -> Nat] /\ writes \in [AppReg -> Nat]
  BY RevisionAssumption DEF Init, Revisions
<1> QED BY <1>2, <1>3, <1>4 DEF TypeOK, NoStall

\* Type correctness of the network, for every value of the constants.
THEOREM TypeCorrect == Spec => []TypeOK
<1>1. Init => TypeOK /\ NoStall
  BY InitialPaces
<1>2. (TypeOK /\ NoStall) /\ [Next]_vars => (TypeOK /\ NoStall)'
  BY StepPaces
<1> QED BY <1>1, <1>2, PTL DEF Spec

\* No node ever stalls: in every network, whatever is queued, a broadcast is
\* under way and the timer that continues it is running.
THEOREM NeverStalls == Spec => []NoStall
<1>1. Init => TypeOK /\ NoStall
  BY InitialPaces
<1>2. (TypeOK /\ NoStall) /\ [Next]_vars => (TypeOK /\ NoStall)'
  BY StepPaces
<1> QED BY <1>1, <1>2, PTL DEF Spec
-----------------------------------------------------------------------------
(***************************************************************************)
(* From here on a step is seen through the registers: it leaves them all   *)
(* alone, takes a message in, or is a tick of an owner; and what is on air *)
(* after it was on air before or is a copy of a register.                  *)
(***************************************************************************)

\* The three kinds of steps, seen through the registers.
Quiet ==
  /\ \A k \in Node : node'[k].registers = node[k].registers
  /\ UNCHANGED <<rev, writes>>

Learns(n, m) ==
  /\ Takes(node[n], m, node'[n])
  /\ \A k \in Node \ {n} : node'[k].registers = node[k].registers
  /\ UNCHANGED <<rev, writes>>

Publishes(n, r, asked) ==
  /\ r = Rota[n][count[n] + 1] /\ count[n] < Len(Rota[n])
  /\ node'[n].registers =
       [q \in Reg |->
          LET old == node[n].registers[q]
          IN  [data |-> IF q = r THEN old.data + 1 ELSE old.data,
               rev |-> IF q = r THEN NextRevision(rev[r]) ELSE old.rev,
               written |-> (q = r \/ old.written) /\ q \notin asked]]
  /\ \A k \in Node \ {n} : node'[k].registers = node[k].registers
  /\ rev' = [rev EXCEPT ![r] = NextRevision(@)]
  /\ writes' = [writes EXCEPT ![r] = @ + 1]

Visible ==
  \/ Quiet
  \/ \E k \in Node : \E m \in node[k].adv, n \in Node : Learns(n, m)
  \/ \E n \in Node, r \in AppReg, asked \in SUBSET Reg :
       asked \subseteq Requested[n] /\ Publishes(n, r, asked)

\* A node whose radio sends what it sent before, or less.
LEMMA SameRegistersSend ==
  ASSUME NEW s, NEW t, t.adv \subseteq s.adv
  PROVE  Sends(s, t)
BY DEF Sends

\* What a tick leaves of a handler's result s.
LEMMA TickSends ==
  ASSUME TypeOK, NEW n \in Node, NEW r \in AppReg, NEW s, NodeTypeOK(s), Sends(node[n], s),
         Tick(n, r, s)
  PROVE  /\ node'[n].registers = s.registers
         /\ \A k \in Node \ {n} : node'[k].registers = node[k].registers
         /\ \A k \in Node : Sends(node[k], node'[k])
<1>1. ASSUME NEW t, NodeTypeOK(t), NEW u,
             u = t \/ u = [t EXCEPT !.ticked = @ \union {n}]
      PROVE  u.registers = t.registers /\ u.adv = t.adv
  BY <1>1 DEF NodeTypeOK, NodeState
<1> DEFINE base(m) == IF m = n THEN s ELSE node[m]
<1>2. \A k \in Node : NodeTypeOK(base(k)) /\ Sends(node[k], base(k))
  BY DEF TypeOK, Sends
<1>3. \A k \in Node : \/ node'[k] = base(k)
                      \/ node'[k] = [base(k) EXCEPT !.ticked = @ \union {n}]
  BY DEF Tick
<1>4. base(n) = s /\ \A k \in Node \ {n} : base(k) = node[k]
  OBVIOUS
<1> HIDE DEF base
<1>5. \A k \in Node : node'[k].registers = base(k).registers /\ node'[k].adv = base(k).adv
  BY <1>1, <1>2, <1>3
<1>6. \A k \in Node : \A q, b : CopyOf(node'[k], q, b) = CopyOf(base(k), q, b)
  BY <1>5 DEF CopyOf
<1> QED BY <1>2, <1>4, <1>5, <1>6 DEF Sends

\* The write of a tick.
LEMMA WriteOwnSends ==
  ASSUME TypeOK, NoStall, NEW n \in Node, NEW r \in AppReg
  PROVE  LET s == WriteOwn(node[n], r)
         IN  /\ NodeTypeOK(s) /\ Paced(s)
             /\ Sends(node[n], s)
             /\ s.registers = [node[n].registers EXCEPT
                                 ![r] = [data |-> @.data + 1, rev |-> NextRevision(rev[r]),
                                         written |-> TRUE]]
<1> DEFINE d == node[n].registers[r].data + 1
           v == NextRevision(rev[r])
           s1 == mesh_write_reg(node[n], r, d, v)
<1>1. NodeTypeOK(node[n]) /\ Armed(node[n]) /\ r \in Reg
  BY MeshAssumption DEF TypeOK, NoStall, Paced, Armed
<1>2. d \in Nat
  BY <1>1 DEF NodeTypeOK, NodeState, Register
<1>3. v \in Revisions
  BY RevisionAssumption DEF TypeOK, NextRevision, Revisions
<1>4. WriteOwn(node[n], r) = set_leds(s1)
  BY DEF WriteOwn
<1>5. [node[n].registers EXCEPT ![r] = [data |-> d, rev |-> v, written |-> TRUE]]
      = [node[n].registers EXCEPT ![r] = [data |-> @.data + 1, rev |-> v, written |-> TRUE]]
  OBVIOUS
<1> HIDE DEF d, v
<1>6. /\ NodeTypeOK(s1) /\ Sends(node[n], s1)
      /\ s1.registers = [node[n].registers EXCEPT ![r] = [data |-> d, rev |-> v, written |-> TRUE]]
  BY <1>1, <1>2, <1>3, WritePaces, WriteSends
<1> HIDE DEF s1
<1>7. set_leds(s1).registers = s1.registers /\ set_leds(s1).adv = s1.adv
  BY <1>6, SetLedsSends
<1>8. \A q, b : CopyOf(s1, q, b) = CopyOf(set_leds(s1), q, b)
  BY <1>7 DEF CopyOf
<1>9. Sends(node[n], set_leds(s1))
  BY <1>6, <1>7, <1>8 DEF Sends
<1> QED BY <1>4, <1>5, <1>6, <1>7, <1>9, WriteOwnPaces DEF v

\* Every step is one of the three, and no message appears from nowhere.
LEMMA StepIsVisible ==
  ASSUME TypeOK, NoStall, Next
  PROVE  Visible /\ \A k \in Node : Sends(node[k], node'[k])
<1>0. \A n \in Node : NodeTypeOK(node[n]) /\ Paced(node[n])
  BY DEF TypeOK, NoStall
<1>a. \A n \in Node : \A q \in Reg : node[n].registers[q] \in Register
  BY <1>0 DEF NodeTypeOK, NodeState
<1>b. \A n \in Node : DOMAIN node[n].registers = Reg
  BY <1>0 DEF NodeTypeOK, NodeState
<1>1. ASSUME NEW n \in Node, NEW r \in AppReg, AppTick(n, r)
      PROVE  Visible /\ \A k \in Node : Sends(node[k], node'[k])
  <2> DEFINE s == WriteOwn(node[n], r)
  <2>1. /\ NodeTypeOK(s) /\ Sends(node[n], s)
        /\ s.registers = [node[n].registers EXCEPT
                            ![r] = [data |-> @.data + 1, rev |-> NextRevision(rev[r]),
                                    written |-> TRUE]]
    BY WriteOwnSends
  <2>2. Tick(n, r, s) /\ r = Rota[n][count[n] + 1] /\ count[n] < Len(Rota[n])
    BY <1>1 DEF AppTick, MayTick
  <2> HIDE DEF s
  <2>3. /\ node'[n].registers = s.registers
        /\ \A k \in Node \ {n} : node'[k].registers = node[k].registers
        /\ \A k \in Node : Sends(node[k], node'[k])
    BY <2>1, <2>2, TickSends
  <2>4. s.registers = [q \in Reg |->
          LET old == node[n].registers[q]
          IN  [data |-> IF q = r THEN old.data + 1 ELSE old.data,
               rev |-> IF q = r THEN NextRevision(rev[r]) ELSE old.rev,
               written |-> (q = r \/ old.written) /\ q \notin {}]]
    BY <1>a, <1>b, <2>1 DEF Register
  <2>5. Publishes(n, r, {})
    BY <2>2, <2>3, <2>4 DEF Publishes, Tick
  <2> QED BY <2>3, <2>5 DEF Visible
<1>2. ASSUME NEW n \in Node, NEW r \in AppReg, NEW asked \in Reg, RequestTick(n, r, asked)
      PROVE  Visible /\ \A k \in Node : Sends(node[k], node'[k])
  <2> DEFINE s1 == WriteOwn(node[n], r)
             s == mesh_request_reg(s1, asked)
  <2>1. /\ NodeTypeOK(s1) /\ Paced(s1) /\ Sends(node[n], s1)
        /\ s1.registers = [node[n].registers EXCEPT
                             ![r] = [data |-> @.data + 1, rev |-> NextRevision(rev[r]),
                                     written |-> TRUE]]
    BY WriteOwnSends
  <2>2. /\ Tick(n, r, s) /\ r = Rota[n][count[n] + 1] /\ count[n] < Len(Rota[n])
        /\ asked \in Requested[n]
    BY <1>2 DEF RequestTick, MayTick
  <2> HIDE DEF s1
  <2>3. /\ NodeTypeOK(s) /\ Sends(s1, s)
        /\ s.registers = [s1.registers EXCEPT ![asked] = [@ EXCEPT !.written = FALSE]]
    BY <2>1, RequestPaces, RequestSends DEF Paced, Armed
  <2> HIDE DEF s
  <2>4. s.registers = [q \in Reg |->
          LET old == node[n].registers[q]
          IN  [data |-> IF q = r THEN old.data + 1 ELSE old.data,
               rev |-> IF q = r THEN NextRevision(rev[r]) ELSE old.rev,
               written |-> (q = r \/ old.written) /\ q \notin {asked}]]
    <3>1. \A q \in Reg : s1.registers[q] \in Register
      BY <2>1 DEF NodeTypeOK, NodeState
    <3>2. \A q \in Reg : s.registers[q] =
            [data |-> s1.registers[q].data, rev |-> s1.registers[q].rev,
             written |-> s1.registers[q].written /\ q \notin {asked}]
      BY <2>3, <3>1, <1>2 DEF Register, NodeTypeOK, NodeState
    <3>3. \A q \in Reg : s1.registers[q] =
            IF q = r THEN [data |-> node[n].registers[q].data + 1, rev |-> NextRevision(rev[r]),
                           written |-> TRUE]
            ELSE node[n].registers[q]
      BY <1>b, <2>1
    <3>4. DOMAIN s.registers = Reg /\ s.registers = [q \in Reg |-> s.registers[q]]
      BY <2>3 DEF NodeTypeOK, NodeState
    <3>5. \A q \in Reg : s.registers[q] =
            [data |-> IF q = r THEN node[n].registers[q].data + 1 ELSE node[n].registers[q].data,
             rev |-> IF q = r THEN NextRevision(rev[r]) ELSE node[n].registers[q].rev,
             written |-> (q = r \/ node[n].registers[q].written) /\ q \notin {asked}]
      <4> TAKE q \in Reg
      <4>1. CASE q = r
        <5>1. s1.registers[q] = [data |-> node[n].registers[q].data + 1,
                                 rev |-> NextRevision(rev[r]), written |-> TRUE]
          BY <3>3, <4>1
        <5> DEFINE new == s1.registers[q]
        <5>2. s.registers[q] = [data |-> new.data, rev |-> new.rev,
                                written |-> new.written /\ q \notin {asked}]
          BY <3>2
        <5>3. /\ new.data = node[n].registers[q].data + 1
              /\ new.rev = NextRevision(rev[r])
              /\ new.written = TRUE
          BY <5>1
        <5> HIDE DEF new
        <5> QED BY <4>1, <5>2, <5>3
      <4>2. CASE q # r
        BY <3>2, <3>3, <4>2
      <4> QED BY <4>1, <4>2
    <3> QED BY <3>4, <3>5
  <2>5. Sends(node[n], s)
    <3>1. \A q \in Reg : s1.registers[q] \in Register
      BY <2>1 DEF NodeTypeOK, NodeState
    <3>2. \A q \in Reg : /\ s.registers[q].data = s1.registers[q].data
                          /\ s.registers[q].rev = s1.registers[q].rev
      BY <2>1, <2>3, <3>1 DEF Register, NodeTypeOK, NodeState
    <3>3. \A q \in Reg, b \in BOOLEAN : CopyOf(s1, q, b) = CopyOf(s, q, b)
      BY <3>2 DEF CopyOf
    <3> QED BY <2>1, <2>3, <3>3 DEF Sends
  <2>6. /\ node'[n].registers = s.registers
        /\ \A k \in Node \ {n} : node'[k].registers = node[k].registers
        /\ \A k \in Node : Sends(node[k], node'[k])
    BY <2>2, <2>3, <2>5, TickSends
  <2>7. Publishes(n, r, {asked})
    BY <2>2, <2>4, <2>6 DEF Publishes, Tick
  <2> QED BY <2>2, <2>6, <2>7 DEF Visible
<1>3. ASSUME NEW n \in Node, TimerExpires(n)
      PROVE  Visible /\ \A k \in Node : Sends(node[k], node'[k])
  <2> DEFINE s1 == [node[n] EXCEPT !.mesh_timer = "off", !.ticked = {}]
             s == broadcast_next_message(s1)
  <2>1. NodeTypeOK(s1) /\ s1.registers = node[n].registers /\ s1.adv = node[n].adv
    <3>1. NodeTypeOK(s1)
      BY <1>0, StopsKeepType
    <3>2. s1.registers = node[n].registers /\ s1.adv = node[n].adv
      BY <1>0 DEF NodeTypeOK, NodeState
    <3> QED BY <3>1, <3>2
  <2>2. node' = [node EXCEPT ![n] = s] /\ UNCHANGED <<rev, count, writes>>
    BY <1>3 DEF TimerExpires, mesh_timer_timeout_handler
  <2> HIDE DEF s1
  <2>3. s.registers = s1.registers /\ Sends(s1, s)
    BY <2>1, BroadcastSends
  <2> HIDE DEF s
  <2>4. \A k \in Node : node'[k] = IF k = n THEN s ELSE node[k]
    BY <2>2 DEF TypeOK
  <2> QED BY <2>1, <2>2, <2>3, <2>4 DEF Visible, Quiet, Sends
<1>4. ASSUME NEW n \in Node, AdvertisingTimeout(n)
      PROVE  Visible /\ \A k \in Node : Sends(node[k], node'[k])
  <2> DEFINE s == advertising_stop(node[n])
  <2>1. s.registers = node[n].registers /\ s.adv = {}
    BY <1>0 DEF advertising_stop, NodeTypeOK, NodeState
  <2>2. \A k \in Node : node'[k] = IF k = n THEN s ELSE node[k]
    BY <1>4 DEF AdvertisingTimeout, TypeOK
  <2> HIDE DEF s
  <2> QED BY <1>4, <2>1, <2>2 DEF Visible, Quiet, Sends, AdvertisingTimeout
<1>5. ASSUME NEW m \in Node, NEW n \in Node, Hear(m, n)
      PROVE  Visible /\ \A k \in Node : Sends(node[k], node'[k])
  <2>1. PICK message \in node[m].adv :
          node' = [node EXCEPT ![n] = ble_evt_adv_report(@, message),
                               ![m].heard = @ \union ({n} \intersect ReliableListeners(m))]
    BY <1>5 DEF Hear
  <2>2. m # n /\ UNCHANGED <<rev, count, writes>>
    BY <1>5, MeshAssumption DEF Hear
  <2> DEFINE s1 == ble_evt_adv_report(node[n], message)
             s2 == [node[m] EXCEPT !.heard = @ \union ({n} \intersect ReliableListeners(m))]
  <2>3. message \in Message
    BY <1>0 DEF NodeTypeOK, NodeState
  <2>4. Sends(node[n], s1) /\ (s1.registers = node[n].registers \/ Takes(node[n], message, s1))
    BY <1>0, <2>3, ReportSends
  <2>5. s2.registers = node[m].registers /\ s2.adv = node[m].adv
    BY <1>0 DEF NodeTypeOK, NodeState
  <2>6. node' = [node EXCEPT ![n] = s1, ![m] = s2]
    BY <2>1, <2>2 DEF TypeOK
  <2> HIDE DEF s1, s2
  <2>7. \A k \in Node : node'[k] = IF k = m THEN s2 ELSE IF k = n THEN s1 ELSE node[k]
    BY <2>6, <2>2 DEF TypeOK
  <2>8. \A k \in Node : Sends(node[k], node'[k])
    BY <2>4, <2>5, <2>7 DEF Sends
  <2>9. \A k \in Node \ {n} : node'[k].registers = node[k].registers
    BY <2>5, <2>7
  <2>10. node'[n] = s1
    BY <2>2, <2>7
  <2>11. Quiet \/ Learns(n, message)
    BY <2>2, <2>4, <2>9, <2>10 DEF Quiet, Learns
  <2> QED BY <2>8, <2>11 DEF Visible
<1> QED BY <1>1, <1>2, <1>3, <1>4, <1>5 DEF Next
-----------------------------------------------------------------------------
(***************************************************************************)
(* What the network holds.  The owner is the only source of new data, but  *)
(* it reads the data it increments from a register that the mesh writes    *)
(* too, and the revision from a counter of its own: both stay together     *)
(* because no echo looks newer than the owner's last write.  For that,     *)
(* copies on air must be recent (AirIsRecent), the assumption that limits  *)
(* the comparison of revisions; and an owner that asked for its own        *)
(* register would take any answer.                                         *)
(***************************************************************************)
OwnersDoNotAsk == \A r \in AppReg : r \notin Requested[Owner[r]]

\* A register or a message is what the owner wrote once, of w writes.
Genuine(c, w) == c.rev = RevisionOf(c.data) /\ c.data <= w

AllGenuine ==
  \A n \in Node, r \in AppReg :
    /\ Genuine(node[n].registers[r], writes[r])
    /\ \A m \in node[n].adv : m.reg = r => Genuine(m, writes[r])

\* The owner's counter of revisions keeps step, and after its first write
\* byte 25 of its own register is set.
OwnerKnows ==
  \A r \in AppReg :
    /\ rev[r] = RevisionOf(writes[r])
    /\ writes[r] > 0 => node[Owner[r]].registers[r].written

Safe == AllGenuine /\ OwnerIsNewest /\ OwnerKnows

LEMMA AllGenuineSuffices ==
  ASSUME AllGenuine
  PROVE  NeverMixed
BY DEF AllGenuine, NeverMixed, Held, Genuine

\* ++rev is the revision of the next write.
LEMMA NextRevisionIsNext ==
  ASSUME NEW k \in Nat
  PROVE  NextRevision(RevisionOf(k)) = RevisionOf(k + 1)
<1> DEFINE M == MAX_REVISION + 1
<1>1. M \in Nat /\ M > 1
  BY RevisionAssumption
<1> HIDE DEF M
<1>2. k % M \in 0 .. M - 1 /\ (k + 1) % M \in 0 .. M - 1
  BY <1>1
<1>3. ((k + 1) % M) - (k % M) = 1 \/ ((k + 1) % M) - (k % M) = 1 - M
  <2> DEFINE j == k + 1
  <2>1. j \in Nat /\ k <= j /\ j - k = 1 /\ j - k < M
    BY <1>1
  <2>2. M > 0
    BY <1>1
  <2> HIDE DEF j
  <2>3. (j % M) - (k % M) = j - k \/ (j % M) - (k % M) = j - k - M
    BY <1>1, <2>1, <2>2, RemaindersOfNear
  <2>4. (j % M) - (k % M) = 1 \/ (j % M) - (k % M) = 1 - M
    BY <2>1, <2>3
  <2> QED BY <2>4 DEF j
<1>4. ((k % M) + 1) % M = (k + 1) % M
  <2>1. CASE (k + 1) % M = (k % M) + 1
    <3>1. \A x \in 0 .. M - 1 : x % M = x
      BY <1>1
    <3> QED BY <1>2, <2>1, <3>1
  <2>2. CASE k % M = M - 1 /\ (k + 1) % M = 0
    <3>1. M % M = 0
      BY <1>1
    <3> QED BY <1>1, <2>2, <3>1
  <2> QED BY <1>1, <1>2, <1>3, <2>1, <2>2
<1> QED BY <1>4 DEF NextRevision, RevisionOf, M

\* Who ticks is the owner.
LEMMA OwnerTicks ==
  ASSUME TypeOK, NEW n \in Node, NEW r \in AppReg,
         r = Rota[n][count[n] + 1], count[n] < Len(Rota[n])
  PROVE  Owner[r] = n
<1>1. count[n] + 1 \in DOMAIN Rota[n]
  BY MeshAssumption DEF TypeOK
<1>2. PICK owner \in Node : \A m \in Node : m = owner <=> \E i \in DOMAIN Rota[m] : Rota[m][i] = r
  BY MeshAssumption
<1>3. n = owner
  BY <1>1, <1>2
<1>4. Owner[r] = CHOOSE m \in Node : \E i \in DOMAIN Rota[m] : Rota[m][i] = r
  BY DEF Owner
<1>5. \A m \in Node : (\E i \in DOMAIN Rota[m] : Rota[m][i] = r) <=> m = n
  BY <1>2, <1>3
<1> QED BY <1>4, <1>5

LEMMA OwnerIsNode ==
  ASSUME NEW r \in AppReg
  PROVE  Owner[r] \in Node
<1>1. \E m \in Node : \E i \in DOMAIN Rota[m] : Rota[m][i] = r
  BY MeshAssumption
<1> QED BY <1>1 DEF Owner

\* Among genuine copies a recent message only looks newer than what it follows.
LEMMA RecentLooksRight ==
  ASSUME NEW c, NEW m, NEW w \in Nat, c.data \in Nat, m.data \in Nat,
         Genuine(c, w), Genuine(m, w), w - m.data < HALF_REVISION
  PROVE  /\ m.data < c.data => ~ NEWER_REVISION(m.rev, c.rev)
         /\ m.data = c.data => m.rev = c.rev /\ ~ NEWER_REVISION(m.rev, c.rev)
<1>0. HALF_REVISION \in Nat
  BY RevisionAssumption DEF HALF_REVISION
<1>1. CASE m.data < c.data
  <2>1. c.data - m.data < HALF_REVISION
    BY <1>0, <1>1 DEF Genuine
  <2>2. ~ NEWER_REVISION(RevisionOf(m.data), RevisionOf(c.data))
    BY <1>1, <2>1, ComparisonIsRight
  <2> QED BY <1>1, <2>2 DEF Genuine
<1>2. CASE m.data = c.data
  <2>1. RevisionOf(c.data) \in Int
    BY RevisionAssumption DEF RevisionOf
  <2> QED BY <1>0, <1>2, <2>1 DEF Genuine, NEWER_REVISION
<1>3. CASE ~ (m.data < c.data) /\ m.data # c.data
  BY <1>3
<1> QED BY <1>1, <1>2, <1>3

LEMMA DataIsNat ==
  ASSUME TypeOK
  PROVE  \A n \in Node, r \in AppReg : /\ DOMAIN node[n].registers = Reg
                                       /\ r \in Reg
                                       /\ node[n].registers[r].data \in Nat
                                       /\ writes[r] \in Nat
                                       /\ node[n].adv \subseteq Message
BY MeshAssumption DEF TypeOK, NodeTypeOK, NodeState, Register

\* A message that is taken in replaces genuine data by genuine data, in one
\* register of one node; the owner takes in nothing but what it has.
LEMMA LearningIsSafe ==
  ASSUME OwnersDoNotAsk, TypeOK, Safe, AirIsRecent,
         NEW k \in Node, NEW m \in node[k].adv, NEW n \in Node, Learns(n, m)
  PROVE  /\ \A j \in Node, r \in AppReg : Genuine(node'[j].registers[r], writes'[r])
         /\ OwnerIsNewest' /\ OwnerKnows'
<1>1. /\ ~ m.req /\ Accepts(node[n], m) /\ UNCHANGED <<rev, writes>>
      /\ m.data \in Nat /\ m \in Message
  BY DataIsNat, AirIsRecent DEF Learns, Takes, TypeOK, NodeTypeOK, NodeState, Message
<1>2. \A j \in Node, r \in AppReg :
        node'[j].registers[r] =
          IF j = n /\ r = m.reg THEN [data |-> m.data, rev |-> m.rev, written |-> TRUE]
          ELSE node[j].registers[r]
  BY DataIsNat DEF Learns, Takes
<1>3. \A r \in AppReg : r = m.reg => Genuine(m, writes[r]) /\ writes[r] - m.data < HALF_REVISION
  BY <1>1 DEF Safe, AllGenuine, AirIsRecent
<1>4. \A j \in Node, r \in AppReg : Genuine(node'[j].registers[r], writes'[r])
  BY <1>1, <1>2, <1>3 DEF Safe, AllGenuine, Genuine
<1>5. ASSUME NEW r \in AppReg, Owner[r] = n, r = m.reg
      PROVE  m.data = writes[r] /\ m.rev = rev[r]
  <2> DEFINE own == node[n].registers[r]
  <2>1. /\ own.data = writes[r] /\ own.rev = rev[r] /\ Genuine(own, writes[r])
        /\ writes[r] > 0 => own.written
        /\ own.data \in Nat /\ writes[r] \in Nat
    BY <1>5, DataIsNat DEF Safe, OwnerIsNewest, OwnerKnows, AllGenuine
  <2>2. m.data <= writes[r]
    BY <1>3, <1>5 DEF Genuine
  <2>3. NEWER_REVISION(m.rev, own.rev) \/ ~ own.written
    BY <1>1, <1>5 DEF Accepts
  <2>4. /\ m.data < own.data => ~ NEWER_REVISION(m.rev, own.rev)
        /\ m.data = own.data => m.rev = own.rev /\ ~ NEWER_REVISION(m.rev, own.rev)
    BY <1>1, <1>3, <1>5, <2>1, RecentLooksRight
  <2>5. ~ (m.data < own.data)
    BY <1>1, <2>1, <2>2, <2>3, <2>4
  <2> QED BY <1>1, <2>1, <2>2, <2>4, <2>5
<1>6. OwnerIsNewest'
  BY <1>1, <1>2, <1>5, OwnerIsNode DEF OwnerIsNewest, Safe
<1>7. OwnerKnows'
  BY <1>1, <1>2, OwnerIsNode DEF OwnerKnows, Safe
<1> QED BY <1>4, <1>6, <1>7

\* A tick moves the owner's data, its revision and its counter together.
LEMMA PublishingIsSafe ==
  ASSUME OwnersDoNotAsk, TypeOK, Safe,
         NEW n \in Node, NEW r \in AppReg, NEW asked \in SUBSET Reg,
         asked \subseteq Requested[n], Publishes(n, r, asked)
  PROVE  /\ \A j \in Node, q \in AppReg : Genuine(node'[j].registers[q], writes'[q])
         /\ OwnerIsNewest' /\ OwnerKnows'
<1>1. Owner[r] = n
  BY OwnerTicks DEF Publishes
<1>2. \A q \in AppReg :
        /\ writes'[q] = IF q = r THEN writes[q] + 1 ELSE writes[q]
        /\ rev'[q] = IF q = r THEN NextRevision(rev[q]) ELSE rev[q]
  BY DEF Publishes, TypeOK
<1>3. \A j \in Node, q \in AppReg :
        /\ node'[j].registers[q].data =
             IF j = n /\ q = r THEN node[j].registers[q].data + 1 ELSE node[j].registers[q].data
        /\ node'[j].registers[q].rev =
             IF j = n /\ q = r THEN NextRevision(rev[r]) ELSE node[j].registers[q].rev
  BY DataIsNat DEF Publishes
<1>4. /\ node[n].registers[r].data = writes[r] /\ rev[r] = RevisionOf(writes[r])
      /\ writes[r] \in Nat
  BY <1>1, DataIsNat DEF Safe, OwnerIsNewest, OwnerKnows
<1>5. NextRevision(rev[r]) = RevisionOf(writes[r] + 1)
  BY <1>4, NextRevisionIsNext
<1>6. \A j \in Node, q \in AppReg : Genuine(node'[j].registers[q], writes'[q])
  <2> TAKE j \in Node, q \in AppReg
  <2>1. Genuine(node[j].registers[q], writes[q]) /\ node[j].registers[q].data \in Nat
        /\ writes[q] \in Nat
    BY DataIsNat DEF Safe, AllGenuine
  <2>2. CASE j = n /\ q = r
    BY <1>2, <1>3, <1>4, <1>5, <2>2 DEF Genuine
  <2>3. CASE ~ (j = n /\ q = r)
    BY <1>2, <1>3, <2>1, <2>3 DEF Genuine
  <2> QED BY <2>2, <2>3
<1>7. OwnerIsNewest'
  BY <1>1, <1>2, <1>3, <1>4, OwnerIsNode DEF OwnerIsNewest, Safe
<1>8. ASSUME NEW q \in AppReg
      PROVE  /\ rev'[q] = RevisionOf(writes'[q])
             /\ writes'[q] > 0 => node'[Owner[q]].registers[q].written
  <2>0. /\ rev[q] = RevisionOf(writes[q])
        /\ writes[q] > 0 => node[Owner[q]].registers[q].written
        /\ Owner[q] \in Node /\ q \in Reg
    BY DataIsNat, OwnerIsNode DEF Safe, OwnerKnows
  <2>1. rev'[q] = RevisionOf(writes'[q])
    <3>1. CASE q = r
      BY <1>2, <1>5, <3>1
    <3>2. CASE q # r
      BY <1>2, <2>0, <3>2
    <3> QED BY <3>1, <3>2
  <2>2. Owner[q] = n => q \notin asked
    BY DEF OwnersDoNotAsk
  <2>3. CASE Owner[q] # n
    BY <1>1, <1>2, <2>0, <2>1, <2>3 DEF Publishes
  <2>4. CASE Owner[q] = n /\ q = r
    <3>1. node'[n].registers[q].written = ((q = r \/ node[n].registers[q].written) /\ q \notin asked)
      BY <2>0 DEF Publishes
    <3> QED BY <2>1, <2>2, <2>4, <3>1
  <2>5. CASE Owner[q] = n /\ q # r
    <3>1. node'[n].registers[q].written = ((q = r \/ node[n].registers[q].written) /\ q \notin asked)
      BY <2>0 DEF Publishes
    <3> QED BY <1>2, <2>0, <2>1, <2>2, <2>5, <3>1
  <2> QED BY <2>3, <2>4, <2>5
<1> QED BY <1>6, <1>7, <1>8 DEF OwnerKnows

LEMMA StepIsSafe ==
  ASSUME OwnersDoNotAsk, TypeOK, NoStall, Safe, AirIsRecent, [Next]_vars
  PROVE  Safe'
<1>1. CASE Next
  <2>1. Visible /\ \A k \in Node : Sends(node[k], node'[k])
    BY <1>1, StepIsVisible
  <2>2. TypeOK' /\ \A r \in AppReg : writes'[r] >= writes[r]
    <3>1. TypeOK'
      BY StepPaces
    <3>2. \A r \in AppReg : writes'[r] = writes[r] \/ writes'[r] = writes[r] + 1
      BY <2>1 DEF Visible, Quiet, Learns, Publishes, TypeOK
    <3> QED BY <3>1, <3>2 DEF TypeOK
  <2>3. /\ \A j \in Node, r \in AppReg : Genuine(node'[j].registers[r], writes'[r])
        /\ OwnerIsNewest' /\ OwnerKnows'
    <3>1. CASE Quiet
      BY <3>1, OwnerIsNode DEF Quiet, Safe, AllGenuine, OwnerIsNewest, OwnerKnows
    <3>2. ASSUME NEW k \in Node, NEW m \in node[k].adv, NEW n \in Node, Learns(n, m)
          PROVE  /\ \A j \in Node, r \in AppReg : Genuine(node'[j].registers[r], writes'[r])
                 /\ OwnerIsNewest' /\ OwnerKnows'
      BY <3>2, LearningIsSafe
    <3>3. ASSUME NEW n \in Node, NEW r \in AppReg, NEW asked \in SUBSET Reg,
                 asked \subseteq Requested[n], Publishes(n, r, asked)
          PROVE  /\ \A j \in Node, q \in AppReg : Genuine(node'[j].registers[q], writes'[q])
                 /\ OwnerIsNewest' /\ OwnerKnows'
      BY <3>3, PublishingIsSafe
    <3> QED BY <2>1, <3>1, <3>2, <3>3 DEF Visible
  <2>4. ASSUME NEW k \in Node, NEW r \in AppReg, NEW m \in node'[k].adv, m.reg = r
        PROVE  Genuine(m, writes'[r])
    <3>1. CASE m \in node[k].adv
      <4>1. Genuine(m, writes[r]) /\ m \in Message
        BY <2>4, <3>1, DataIsNat DEF Safe, AllGenuine
      <4> QED BY <2>2, <4>1, DataIsNat DEF Genuine, Message, TypeOK
    <3>2. CASE \E q \in Reg, c \in BOOLEAN : m = CopyOf(node'[k], q, c)
      <4>1. m.rev = node'[k].registers[r].rev /\ m.data = node'[k].registers[r].data
        BY <2>4, <3>2 DEF CopyOf
      <4> QED BY <2>3, <4>1 DEF Genuine
    <3> QED BY <2>1, <3>1, <3>2 DEF Sends
  <2> QED BY <2>3, <2>4 DEF Safe, AllGenuine
<1>2. CASE UNCHANGED vars
  BY <1>2 DEF vars, Safe, AllGenuine, OwnerIsNewest, OwnerKnows
<1> QED BY <1>1, <1>2

IsBlank(c) == c.data = 0 /\ c.rev = 0 /\ c.written = FALSE

\* What main leaves in the registers and on air is blank.
LEMMA BootIsBlank ==
  ASSUME NEW n \in Node, NEW s \in Booted(n)
  PROVE  /\ \A r \in Reg : IsBlank(s.registers[r])
         /\ \A m \in s.adv : m.data = 0 /\ m.rev = 0
<1>1. ASSUME NEW lit \in BOOLEAN
      PROVE  LET t == mesh_init(ResetNode(lit))
             IN  /\ t.registers = [r \in Reg |-> BlankRegister]
                 /\ \A m \in t.adv : m.data = 0 /\ m.rev = 0
  <2> DEFINE s0 == ResetNode(lit)
             s1 == mesh_timer_start(s0, "boot")
             m == mesh_copy_message(s1, 0)
  <2>1. s1 = [s0 EXCEPT !.mesh_timer = "boot", !.ticked = {}]
    BY DEF mesh_timer_start, ResetNode
  <2>2. s0.registers = [r \in Reg |-> BlankRegister]
    BY DEF ResetNode
  <2>3. mesh_copy_message(s0, 0).data = 0 /\ mesh_copy_message(s0, 0).rev = 0
    BY <2>2, NodeAssumption DEF mesh_copy_message, CopyOf, BlankRegister
  <2>4. mesh_init(s0) = advertise(s1, mesh_copy_message(s0, 0))
    BY DEF mesh_init
  <2>5. /\ mesh_init(s0).registers = s0.registers
        /\ mesh_init(s0).adv = {mesh_copy_message(s0, 0)}
    <3>1. s1.registers = s0.registers /\ {"registers", "adv", "heard"} \subseteq DOMAIN s1
      BY <2>1 DEF ResetNode
    <3> HIDE DEF s0, s1
    <3>2. /\ advertise(s1, mesh_copy_message(s0, 0)).registers = s1.registers
          /\ advertise(s1, mesh_copy_message(s0, 0)).adv = {mesh_copy_message(s0, 0)}
      BY <3>1 DEF advertise
    <3> QED BY <2>4, <3>1, <3>2
  <2> QED BY <2>2, <2>3, <2>5
<1>2. CASE Requested[n] = {}
  <2>1. s = mesh_init(ResetNode(FALSE))
    BY <1>2 DEF Booted
  <2>2. \A r \in Reg : s.registers[r] = BlankRegister
    BY <1>1, <2>1
  <2>3. BlankRegister.data = 0 /\ BlankRegister.rev = 0 /\ BlankRegister.written = FALSE
    BY DEF BlankRegister
  <2>4. \A m \in s.adv : m.data = 0 /\ m.rev = 0
    BY <1>1, <2>1
  <2> QED BY <2>2, <2>3, <2>4 DEF IsBlank
<1>3. CASE Requested[n] # {}
  <2> DEFINE s0 == mesh_init(ResetNode(TRUE))
  <2>1. PICK asked \in Requested[n] : s = mesh_request_reg(s0, asked)
    BY <1>3 DEF Booted
  <2>2. /\ NodeTypeOK(s0) /\ asked \in Reg
        /\ s0.registers = [r \in Reg |-> BlankRegister]
        /\ \A m \in s0.adv : m.data = 0 /\ m.rev = 0
    BY <1>1, InitPaces, MeshAssumption
  <2> HIDE DEF s0
  <2>3. /\ s.registers = [s0.registers EXCEPT ![asked] = [@ EXCEPT !.written = FALSE]]
        /\ Sends(s0, s)
    BY <2>1, <2>2, RequestSends
  <2>4. \A r \in Reg : IsBlank(s.registers[r])
    <3>1. BlankRegister.data = 0 /\ BlankRegister.rev = 0 /\ BlankRegister.written = FALSE
      BY DEF BlankRegister
    <3>2. \A r \in Reg \ {asked} : s.registers[r] = BlankRegister
      BY <2>2, <2>3
    <3>3. IsBlank([BlankRegister EXCEPT !.written = FALSE])
      BY DEF IsBlank, BlankRegister
    <3>4. s.registers[asked] = [BlankRegister EXCEPT !.written = FALSE]
      BY <2>2, <2>3
    <3> QED BY <3>1, <3>2, <3>3, <3>4 DEF IsBlank
  <2>5. \A r \in Reg, b \in BOOLEAN : CopyOf(s, r, b).data = 0 /\ CopyOf(s, r, b).rev = 0
    BY <2>4 DEF CopyOf, IsBlank
  <2>6. \A m \in s.adv : m.data = 0 /\ m.rev = 0
    BY <2>2, <2>3, <2>5 DEF Sends
  <2> QED BY <2>4, <2>6
<1> QED BY <1>2, <1>3

LEMMA InitialIsSafe ==
  ASSUME Init
  PROVE  Safe
<1>1. \A n \in Node : node[n] \in Booted(n)
  BY DEF Init
<1>2. \A n \in Node : /\ \A r \in AppReg : IsBlank(node[n].registers[r])
                      /\ \A m \in node[n].adv : m.data = 0 /\ m.rev = 0
  BY <1>1, BootIsBlank, MeshAssumption
<1>3. RevisionOf(0) = 0
  BY RevisionAssumption DEF RevisionOf
<1>4. \A r \in AppReg : rev[r] = 0 /\ writes[r] = 0
  BY DEF Init
<1> QED BY <1>2, <1>3, <1>4, OwnerIsNode
        DEF Safe, AllGenuine, Genuine, OwnerIsNewest, OwnerKnows, IsBlank

\* A written register only takes a later write.
LEMMA LearningIsLater ==
  ASSUME TypeOK, Safe, AirIsRecent, NEW k \in Node, NEW m \in node[k].adv, NEW n \in Node,
         Learns(n, m), m.reg \in AppReg, node[n].registers[m.reg].written
  PROVE  m.data > node[n].registers[m.reg].data
<1> DEFINE c == node[n].registers[m.reg]
<1>1. /\ m.data \in Nat /\ c.data \in Nat /\ writes[m.reg] \in Nat
      /\ Genuine(m, writes[m.reg]) /\ Genuine(c, writes[m.reg])
  BY DataIsNat DEF Message, Safe, AllGenuine
<1>2. writes[m.reg] - m.data < HALF_REVISION
  BY DEF AirIsRecent, Learns, Takes
<1>3. NEWER_REVISION(m.rev, c.rev)
  BY DEF Learns, Takes, Accepts
<1> HIDE DEF c
<1>4. ~ (m.data < c.data) /\ m.data # c.data
  BY <1>1, <1>2, <1>3, RecentLooksRight
<1>5. m.data > c.data
  BY <1>1, <1>4
<1> QED BY <1>5 DEF c

LEMMA StepIsNeverOlder ==
  ASSUME TypeOK, NoStall, Safe, AirIsRecent, [Next]_vars
  PROVE  \A n \in Node, r \in AppReg :
           node[n].registers[r].written =>
             node'[n].registers[r].data >= node[n].registers[r].data
<1> SUFFICES ASSUME NEW n \in Node, NEW r \in AppReg, node[n].registers[r].written
             PROVE  node'[n].registers[r].data >= node[n].registers[r].data
  OBVIOUS
<1>0. r \in Reg /\ node[n].registers[r].data \in Nat
  BY DataIsNat
<1>1. CASE Next
  <2>1. CASE Quiet
    BY <1>0, <2>1 DEF Quiet
  <2>2. ASSUME NEW k \in Node, NEW m \in node[k].adv, NEW j \in Node, Learns(j, m)
        PROVE  node'[n].registers[r].data >= node[n].registers[r].data
    <3>1. CASE j = n /\ m.reg = r
      <4>1. m.data > node[n].registers[r].data /\ m.data \in Nat
        BY <2>2, <3>1, LearningIsLater, DataIsNat DEF Message
      <4>2. node'[n].registers[r].data = m.data
        BY <1>0, <2>2, <3>1, DataIsNat DEF Learns, Takes
      <4> QED BY <1>0, <4>1, <4>2
    <3>2. CASE ~ (j = n /\ m.reg = r)
      BY <1>0, <2>2, <3>2, DataIsNat DEF Learns, Takes
    <3> QED BY <3>1, <3>2
  <2>3. ASSUME NEW j \in Node, NEW q \in AppReg, NEW asked \in SUBSET Reg, Publishes(j, q, asked)
        PROVE  node'[n].registers[r].data >= node[n].registers[r].data
    BY <1>0, <2>3 DEF Publishes
  <2>4. Visible
    BY <1>1, StepIsVisible
  <2> QED BY <2>1, <2>2, <2>3, <2>4 DEF Visible
<1>2. CASE UNCHANGED vars
  BY <1>0, <1>2 DEF vars
<1> QED BY <1>1, <1>2

IsTable(F) == F = [n \in Node |-> [r \in AppReg |-> F[n][r]]]

\* Tables by node and register are equal when their entries are.
LEMMA SameTable ==
  ASSUME NEW F, NEW G, IsTable(F), IsTable(G),
         \A n \in Node, r \in AppReg : F[n][r] = G[n][r]
  PROVE  F = G
<1>1. \A n \in Node : F[n] = G[n]
  <2> SUFFICES ASSUME NEW n \in Node PROVE F[n] = G[n]
    OBVIOUS
  <2>1. /\ F[n] = [r \in AppReg |-> F[n][r]]
        /\ G[n] = [r \in AppReg |-> G[n][r]]
    BY DEF IsTable
  <2>2. [r \in AppReg |-> F[n][r]] = [r \in AppReg |-> G[n][r]]
    OBVIOUS
  <2> QED BY <2>1, <2>2
<1>2. F = [n \in Node |-> F[n]] /\ G = [n \in Node |-> G[n]]
  BY DEF IsTable
<1>3. [n \in Node |-> F[n]] = [n \in Node |-> G[n]]
  BY <1>1
<1> QED BY <1>2, <1>3

\* A table that differs in one entry is the table with that entry replaced.
LEMMA OneEntryDiffers ==
  ASSUME NEW F, NEW G, IsTable(F), IsTable(G), NEW n \in Node, NEW r \in AppReg, NEW v,
         \A j \in Node, q \in AppReg : G[j][q] = IF j = n /\ q = r THEN v ELSE F[j][q]
  PROVE  G = [F EXCEPT ![n][r] = v]
<1> DEFINE H == [F EXCEPT ![n][r] = v]
<1>1. DOMAIN F = Node /\ \A j \in Node : F[j] = [q \in AppReg |-> F[j][q]]
  BY DEF IsTable
<1>2. H = [j \in Node |-> H[j]]
  BY <1>1
<1>3. \A j \in Node : H[j] = IF j = n THEN [F[n] EXCEPT ![r] = v] ELSE F[j]
  BY <1>1
<1>4. \A j \in Node : H[j] = [q \in AppReg |-> H[j][q]]
  BY <1>1, <1>3
<1>5. \A j \in Node, q \in AppReg : H[j][q] = IF j = n /\ q = r THEN v ELSE F[j][q]
  <2>1. \A j \in Node \ {n}, q \in AppReg : H[j][q] = F[j][q]
    BY <1>3
  <2>2. H[n] = [F[n] EXCEPT ![r] = v] /\ DOMAIN F[n] = AppReg
    BY <1>1, <1>3
  <2> HIDE DEF H
  <2>3. \A q \in AppReg : H[n][q] = IF q = r THEN v ELSE F[n][q]
    BY <2>2
  <2> QED BY <2>1, <2>3
<1> HIDE DEF H
<1>6. IsTable(H)
  BY <1>2, <1>4 DEF IsTable
<1>7. G = H
  BY <1>5, <1>6, SameTable
<1> QED BY <1>7 DEF H

\* A step of the mesh is a step of the replicas: a tick publishes, a message that
\* is taken in is learnt, and everything else stutters.
LEMMA StepOfReplicas ==
  ASSUME TypeOK, NoStall, Safe, AirIsRecent, [Next]_vars
  PROVE  [Copies!Next]_(Copies!vars)
<1> DEFINE held == [n \in Node |-> [r \in AppReg |-> node[n].registers[r].data]]
           known == [n \in Node |-> [r \in AppReg |-> node[n].registers[r].written]]
<1>0. /\ IsTable(held) /\ IsTable(held') /\ IsTable(known) /\ IsTable(known')
      /\ \A n \in Node, r \in AppReg :
           /\ held[n][r] = node[n].registers[r].data
           /\ held'[n][r] = node'[n].registers[r].data
           /\ known[n][r] = node[n].registers[r].written
           /\ known'[n][r] = node'[n].registers[r].written
  BY DEF IsTable
<1>1. ASSUME \A n \in Node : node'[n].registers = node[n].registers, UNCHANGED writes
      PROVE  UNCHANGED Copies!vars
  BY <1>1 DEF Copies!vars
<1>2. ASSUME NEW k \in Node, NEW m \in node[k].adv, NEW n \in Node, Learns(n, m)
      PROVE  [Copies!Next]_(Copies!vars)
  <2>0. \A j \in Node, q \in AppReg :
          node'[j].registers[q] =
            IF j = n /\ q = m.reg THEN [data |-> m.data, rev |-> m.rev, written |-> TRUE]
            ELSE node[j].registers[q]
    BY <1>2, DataIsNat DEF Learns, Takes
  <2>1. CASE m.reg \in AppReg
    <3> DEFINE r == m.reg
    <3>1. m.data \in 0 .. writes[r] /\ UNCHANGED writes
      BY <1>2, <2>1, DataIsNat DEF Learns, Safe, AllGenuine, Genuine, Message
    <3>2. node[n].registers[r].written => m.data > node[n].registers[r].data
      BY <1>2, <2>1, LearningIsLater
    <3>a. /\ r \in AppReg
          /\ \A j \in Node, q \in AppReg :
               held'[j][q] = IF j = n /\ q = r THEN m.data ELSE held[j][q]
      BY <1>0, <2>0, <2>1
    <3> HIDE DEF r, held, known
    <3>3. held' = [held EXCEPT ![n][r] = m.data]
      BY <1>0, <3>a, OneEntryDiffers DEF IsTable
    <3>b. ASSUME NEW v, v = TRUE
          PROVE  known' = [known EXCEPT ![n][r] = v]
      <4>1. \A j \in Node, q \in AppReg :
               node'[j].registers[q].written = IF j = n /\ q = r THEN v ELSE node[j].registers[q].written
        <5>1. ASSUME NEW j \in Node, NEW q \in AppReg, j = n /\ q = r
              PROVE  node'[j].registers[q].written = v
          <6>1. node'[j].registers[q] = [data |-> m.data, rev |-> m.rev, written |-> TRUE]
            BY <2>0, <5>1 DEF r
          <6>2. [data |-> m.data, rev |-> m.rev, written |-> TRUE].written = TRUE
            OBVIOUS
          <6> QED BY <3>b, <6>1, <6>2
        <5>2. ASSUME NEW j \in Node, NEW q \in AppReg, ~ (j = n /\ q = r)
              PROVE  node'[j].registers[q] = node[j].registers[q]
          BY <2>0, <5>2 DEF r
        <5> QED BY <5>1, <5>2
      <4>2. \A j \in Node, q \in AppReg :
               known'[j][q] = IF j = n /\ q = r THEN v ELSE known[j][q]
        BY <1>0, <4>1
      <4> QED BY <1>0, <3>a, <4>2, OneEntryDiffers DEF IsTable
    <3>4. known' = [known EXCEPT ![n][r] = TRUE]
      BY <3>b
    <3>6. known[n][r] => m.data > held[n][r]
      BY <1>0, <3>2, <3>a
    <3>7. Copies!Learn(n, r, m.data)
      BY <3>1, <3>3, <3>4, <3>6 DEF Copies!Learn, held, known
    <3> QED BY <3>1, <3>a, <3>7 DEF Copies!Next
  <2>2. CASE m.reg \notin AppReg
    <3>1. held' = held /\ known' = known /\ UNCHANGED writes
      BY <1>2, <2>0, <2>2 DEF Learns
    <3> QED BY <3>1 DEF Copies!vars
  <2> QED BY <2>1, <2>2
<1>3. ASSUME NEW n \in Node, NEW r \in AppReg, NEW asked \in SUBSET Reg, Publishes(n, r, asked)
      PROVE  Copies!Next
  <2> DEFINE a == asked \intersect AppReg
  <2>0. AppReg \subseteq Reg /\ Owner[r] = n
    BY <1>3, MeshAssumption, OwnerTicks DEF Publishes
  <2>1. writes' = [writes EXCEPT ![r] = @ + 1]
    BY <1>3 DEF Publishes
  <2>2. held' = [held EXCEPT ![n][r] = writes[r] + 1]
    <3>1. node[n].registers[r].data = writes[r]
      BY <2>0 DEF Safe, OwnerIsNewest
    <3>2. \A j \in Node, q \in AppReg :
            node'[j].registers[q].data =
              IF j = n /\ q = r THEN writes[r] + 1 ELSE node[j].registers[q].data
      BY <1>3, <2>0, <3>1 DEF Publishes
    <3>3. \A j \in Node, q \in AppReg :
            held'[j][q] = IF j = n /\ q = r THEN writes[r] + 1 ELSE held[j][q]
      BY <1>0, <3>2
    <3> HIDE DEF held
    <3> QED BY <1>0, <1>3, <3>3, OneEntryDiffers DEF IsTable
  <2>3. known' = [known EXCEPT ![n] = [q \in AppReg |-> (q = r \/ @[q]) /\ q \notin a]]
    <3>1. \A q \in AppReg :
            node'[n].registers[q].written = ((q = r \/ node[n].registers[q].written) /\ q \notin a)
      <4> SUFFICES ASSUME NEW q \in AppReg
                   PROVE  node'[n].registers[q].written
                            = ((q = r \/ node[n].registers[q].written) /\ q \notin a)
        OBVIOUS
      <4>1. node'[n].registers[q].written
              = ((q = r \/ node[n].registers[q].written) /\ q \notin asked)
        <5>1. q \in Reg
          BY <2>0
        <5> QED BY <1>3, <5>1 DEF Publishes
      <4>2. (q \notin asked) = (q \notin a)
        OBVIOUS
      <4> HIDE DEF a
      <4> QED BY <4>1, <4>2
    <3>2. \A j \in Node \ {n} : node'[j].registers = node[j].registers
      BY <1>3 DEF Publishes
    <3>3. known'[n] = [q \in AppReg |-> (q = r \/ known[n][q]) /\ q \notin a]
      BY <3>1
    <3>4. \A j \in Node \ {n} : known'[j] = known[j]
      BY <3>2
    <3>5. DOMAIN known' = Node /\ DOMAIN known = Node
      OBVIOUS
    <3> HIDE DEF known
    <3> QED BY <3>3, <3>4, <3>5 DEF known
  <2>4. Copies!Publish(r, a)
    BY <2>0, <2>1, <2>2, <2>3 DEF Copies!Publish
  <2> QED BY <2>4 DEF Copies!Next
<1>4. CASE Next
  <2>1. Visible
    BY <1>4, StepIsVisible
  <2>2. CASE Quiet
    BY <1>1, <2>2 DEF Quiet
  <2> QED BY <1>2, <1>3, <2>1, <2>2 DEF Visible
<1>5. CASE UNCHANGED vars
  BY <1>1, <1>5 DEF vars
<1> QED BY <1>4, <1>5

LEMMA InitOfReplicas ==
  ASSUME Init
  PROVE  Copies!Init
<1>1. \A n \in Node, r \in AppReg : IsBlank(node[n].registers[r])
  BY BootIsBlank, MeshAssumption DEF Init
<1>2. writes = [r \in AppReg |-> 0]
  BY DEF Init
<1> DEFINE held == [n \in Node |-> [r \in AppReg |-> node[n].registers[r].data]]
           known == [n \in Node |-> [r \in AppReg |-> node[n].registers[r].written]]
           None == [n \in Node |-> [r \in AppReg |-> 0]]
           Never == [n \in Node |-> [r \in AppReg |-> FALSE]]
<1>3. /\ IsTable(held) /\ IsTable(known) /\ IsTable(None) /\ IsTable(Never)
      /\ \A n \in Node, r \in AppReg :
           /\ held[n][r] = None[n][r]
           /\ known[n][r] = Never[n][r]
  BY <1>1 DEF IsTable, IsBlank
<1> HIDE DEF held, known, None, Never
<1>4. held = None /\ known = Never
  BY <1>3, SameTable
<1> QED BY <1>2, <1>4 DEF Copies!Init, held, known, None, Never
-----------------------------------------------------------------------------
\* While what is on air is recent, revision and data of one write stay together
\* in every register and every message, through every relay, loss and request.
THEOREM RevisionFollowsData ==
  OwnersDoNotAsk => (Spec /\ []AirIsRecent => []NeverMixed)
<1> SUFFICES ASSUME OwnersDoNotAsk PROVE Spec /\ []AirIsRecent => []NeverMixed
  OBVIOUS
<1> DEFINE IInv == TypeOK /\ NoStall /\ Safe
<1>1. Init => IInv
  BY InitialPaces, InitialIsSafe
<1>2. IInv /\ AirIsRecent /\ [Next]_vars => IInv'
  BY StepPaces, StepIsSafe
<1>3. IInv => NeverMixed
  BY AllGenuineSuffices DEF Safe
<1> QED BY <1>1, <1>2, <1>3, PTL DEF Spec

\* And the owner's register is its last write, whatever it hears back.
THEOREM OwnerStaysNewest ==
  OwnersDoNotAsk => (Spec /\ []AirIsRecent => []OwnerIsNewest)
<1> SUFFICES ASSUME OwnersDoNotAsk PROVE Spec /\ []AirIsRecent => []OwnerIsNewest
  OBVIOUS
<1> DEFINE IInv == TypeOK /\ NoStall /\ Safe
<1>1. Init => IInv
  BY InitialPaces, InitialIsSafe
<1>2. IInv /\ AirIsRecent /\ [Next]_vars => IInv'
  BY StepPaces, StepIsSafe
<1>3. IInv => OwnerIsNewest
  BY DEF Safe
<1> QED BY <1>1, <1>2, <1>3, PTL DEF Spec

\* No written copy is replaced by an older one, however far it is behind itself:
\* only what is on air needs to be recent.
THEOREM CopiesNeverGoBack ==
  OwnersDoNotAsk => (Spec /\ []AirIsRecent => NeverOlder)
<1> SUFFICES ASSUME OwnersDoNotAsk PROVE Spec /\ []AirIsRecent => NeverOlder
  OBVIOUS
<1> DEFINE IInv == TypeOK /\ NoStall /\ Safe
           Later == \A n \in Node, r \in AppReg :
                      node[n].registers[r].written =>
                        node'[n].registers[r].data >= node[n].registers[r].data
<1>1. Init => IInv
  BY InitialPaces, InitialIsSafe
<1>2. IInv /\ AirIsRecent /\ [Next]_vars => IInv'
  BY StepPaces, StepIsSafe
<1>3. IInv /\ AirIsRecent /\ [Next]_vars => [Later]_vars
  BY StepIsNeverOlder
<1> QED BY <1>1, <1>2, <1>3, PTL DEF Spec, NeverOlder

\* Seen through its registers the mesh is a set of replicas.
THEOREM MeshRefinesReplicas ==
  OwnersDoNotAsk => (Spec /\ []AirIsRecent => ImplementsReplicas)
<1> SUFFICES ASSUME OwnersDoNotAsk PROVE Spec /\ []AirIsRecent => ImplementsReplicas
  OBVIOUS
<1> DEFINE IInv == TypeOK /\ NoStall /\ Safe
<1>1. Init => IInv /\ Copies!Init
  BY InitialPaces, InitialIsSafe, InitOfReplicas
<1>2. IInv /\ AirIsRecent /\ [Next]_vars => IInv'
  BY StepPaces, StepIsSafe
<1>3. IInv /\ AirIsRecent /\ [Next]_vars => [Copies!Next]_(Copies!vars)
  BY StepOfReplicas
<1> QED BY <1>1, <1>2, <1>3, PTL DEF Spec, ImplementsReplicas, Copies!Spec
-----------------------------------------------------------------------------
(***************************************************************************)
(* How old a copy on air can be.  Nobody asks here: a copy moves because   *)
(* it was news to a node.  Each node that has the write of a copy has      *)
(* delayed it by at most one window for every register that its queue may  *)
(* hand out first and one for the message on air, and an owner ticks at    *)
(* most once in a window.                                                  *)
(***************************************************************************)

\* The windows that one node delays a copy by, at most.
WindowsPerHop == Cardinality(AppReg) + 1

\* The nodes that have this write of r, or a later one.
Holders(r, d) == {n \in Node : node[n].registers[r].data >= d}

\* The windows that are left to a copy of write d of register r.
Slack ==
  [r \in AppReg |-> [d \in Nat |->
     Cardinality(Holders(r, d)) * WindowsPerHop - (writes[r] - d)]]

Slacks == [AppReg -> [Nat -> Int]]

\* The owner of r may tick once more before the mesh timer of s expires.
Fresh(s, r) == IF Owner[r] \in s.ticked THEN 0 ELSE 1

\* The registers that a queue would hand out before bit i, were they in it.
InFront(q, i) ==
  {r \in AppReg \ {0} : ScanDistance(q, r - 1) < ScanDistance(q, i)}

Ahead(q, i) == Cardinality(InFront(q, i))

\* What is queued has the windows it may have to wait for, and margin more.
CanWait(s, L, margin) ==
  \A i \in s.send_queue.data :
    /\ i + 1 \in AppReg
    /\ s.registers[i + 1].data > 0
    /\ L[i + 1][s.registers[i + 1].data] >= Ahead(s.send_queue, i) + 1 + margin[i + 1]

Margin(s) == [r \in AppReg |-> Fresh(s, r)]

NoMargin == [r \in AppReg |-> 0]

\* The message on air has the tick that may come while it is.
AirInTime(s, L) ==
  /\ s.adv # {} => s.mesh_timer # "off"
  /\ \A m \in s.adv :
       /\ ~ m.req
       /\ m.reg # 0 => m.reg \in AppReg /\ m.data > 0
       /\ m.reg \in AppReg => L[m.reg][m.data] >= Fresh(s, m.reg)

InTime(s, L) ==
  /\ s.request_queue.data = {}
  /\ CanWait(s, L, Margin(s))
  /\ AirInTime(s, L)

LEMMA AppRegIsFinite ==
  /\ AppReg \subseteq Reg /\ Reg \subseteq Nat
  /\ \A r \in AppReg : r < QUEUE_BITS
  /\ IsFiniteSet(AppReg) /\ Cardinality(AppReg) \in Nat
<1>1. AppReg \subseteq Reg /\ Reg \subseteq 0 .. QUEUE_BITS - 1
  BY MeshAssumption, NodeAssumption DEF RegisterNumbers
<1>2. IsFiniteSet(0 .. QUEUE_BITS - 1)
  BY QueueAssumption, FS_Interval
<1>3. IsFiniteSet(AppReg)
  BY <1>1, <1>2, FS_Subset
<1> QED BY <1>1, <1>3, FS_CardinalityType, QueueAssumption

\* A queue hands out at most the other registers first.
LEMMA AheadIsBounded ==
  ASSUME NEW q \in Queue, NEW i \in Bits, i + 1 \in AppReg
  PROVE  /\ IsFiniteSet(InFront(q, i))
         /\ Ahead(q, i) \in Nat /\ Ahead(q, i) <= Cardinality(AppReg) - 1
<1> DEFINE Others == AppReg \ {i + 1}
<1>1. InFront(q, i) \subseteq Others
  <2>1. (i + 1) - 1 = i /\ ScanDistance(q, i) \in Int
    BY QueueAssumption DEF Bits, Queue, ScanDistance
  <2> QED BY <2>1 DEF InFront
<1>2. IsFiniteSet(Others) /\ Cardinality(Others) = Cardinality(AppReg) - 1
  BY AppRegIsFinite, FS_RemoveElement
<1> HIDE DEF Others
<1>3. IsFiniteSet(InFront(q, i)) /\ Cardinality(InFront(q, i)) <= Cardinality(Others)
  BY <1>1, <1>2, FS_Subset
<1> QED BY <1>2, <1>3, FS_CardinalityType DEF Ahead

\* After a pop every bit that is left is nearer by one register.
LEMMA PopBringsNearer ==
  ASSUME NEW q \in Queue, q_has_data(q), NextBit(q) + 1 \in AppReg,
         NEW i \in q_pop(q).data, i + 1 \in AppReg
  PROVE  Ahead(q_pop(q), i) + 1 <= Ahead(q, i)
<1> DEFINE b == NextBit(q)
           p == q_pop(q)
           D(j) == ScanDistance(q, j)
           E(j) == ScanDistance(p, j)
<1>1. b \in Bits /\ i \in Bits /\ i # b /\ D(b) <= D(i)
  BY NextBitIsSet DEF q_pop, Queue
<1>2. /\ QUEUE_BITS \in Nat /\ QUEUE_BITS >= 8 /\ q.ptr \in 0 .. QUEUE_BITS - 1
      /\ p.ptr = (b + 1) % QUEUE_BITS
  BY QueueAssumption DEF q_pop, Queue, Bits
<1>3. p.ptr = IF b = QUEUE_BITS - 1 THEN 0 ELSE b + 1
  <2>1. CASE b = QUEUE_BITS - 1
    BY <1>2, <2>1
  <2>2. CASE b # QUEUE_BITS - 1
    BY <1>1, <1>2, <2>2 DEF Bits
  <2> QED BY <2>1, <2>2
<1>p. p \in Queue
  BY PopTakesQueued
<1> HIDE DEF b, p
<1>4. \A j \in Bits : D(j) \in 0 .. QUEUE_BITS - 1
  BY <1>2 DEF Bits, ScanDistance
<1>5. D(b) # D(i)
  BY <1>1, <1>2 DEF Bits, ScanDistance
<1>6. \A j \in Bits :
        E(j) = IF D(j) > D(b) THEN D(j) - D(b) - 1 ELSE D(j) - D(b) - 1 + QUEUE_BITS
  <2> TAKE j \in Bits
  <2>1. /\ j \in Int /\ b \in Int /\ 0 <= j /\ j < QUEUE_BITS /\ 0 <= b /\ b < QUEUE_BITS
        /\ q.ptr \in Int /\ 0 <= q.ptr /\ q.ptr < QUEUE_BITS
    BY <1>1, <1>2 DEF Bits
  <2>2. /\ D(j) = IF j >= q.ptr THEN j - q.ptr ELSE j + QUEUE_BITS - q.ptr
        /\ D(b) = IF b >= q.ptr THEN b - q.ptr ELSE b + QUEUE_BITS - q.ptr
        /\ E(j) = IF j >= p.ptr THEN j - p.ptr ELSE j + QUEUE_BITS - p.ptr
    BY DEF ScanDistance
  <2> HIDE DEF D, E
  <2>3. CASE b = QUEUE_BITS - 1
    BY <1>2, <1>3, <2>1, <2>2, <2>3
  <2>4. CASE b # QUEUE_BITS - 1
    BY <1>2, <1>3, <2>1, <2>2, <2>4
  <2> QED BY <2>3, <2>4
<1> HIDE DEF D, E
<1>7. D(b) < D(i)
  BY <1>1, <1>4, <1>5
<1>8. \A j \in Bits : E(j) < E(i) => D(b) < D(j) /\ D(j) < D(i)
  BY <1>1, <1>2, <1>4, <1>6, <1>7
<1>9. \A r \in AppReg \ {0} : r - 1 \in Bits
  BY AppRegIsFinite, QueueAssumption DEF Bits
<1>10. InFront(p, i) \subseteq InFront(q, i) \ {b + 1}
  <2> SUFFICES ASSUME NEW r \in AppReg \ {0}, E(r - 1) < E(i)
               PROVE  D(r - 1) < D(i) /\ r # b + 1
    BY DEF InFront, D, E
  <2>1. D(b) < D(r - 1) /\ D(r - 1) < D(i) /\ r - 1 \in Bits
    BY <1>8, <1>9
  <2>2. r = b + 1 => r - 1 = b
    BY <1>1 DEF Bits
  <2> QED BY <1>1, <1>4, <2>1, <2>2
<1>11. b + 1 \in InFront(q, i)
  <2>1. (b + 1) - 1 = b /\ b + 1 # 0
    BY <1>1 DEF Bits
  <2>2. b + 1 \in AppReg
    BY DEF b
  <2> QED BY <1>7, <2>1, <2>2 DEF InFront, D
<1>12. IsFiniteSet(InFront(q, i)) /\ Ahead(q, i) \in Nat
  BY <1>1, AheadIsBounded
<1>13. /\ IsFiniteSet(InFront(q, i) \ {b + 1})
       /\ Cardinality(InFront(q, i) \ {b + 1}) = Ahead(q, i) - 1
  BY <1>11, <1>12, FS_RemoveElement DEF Ahead
<1>14. Ahead(p, i) <= Ahead(q, i) - 1
  BY <1>10, <1>13, FS_Subset DEF Ahead
<1>15. Ahead(p, i) \in Nat
  BY <1>1, <1>p, AheadIsBounded
<1> QED BY <1>12, <1>14, <1>15 DEF p
LEMMA QueueEntry ==
  ASSUME NEW s, NodeTypeOK(s), NEW L \in Slacks, NEW i \in s.send_queue.data, i + 1 \in AppReg
  PROVE  /\ s.send_queue \in Queue /\ i \in Bits /\ i \in Nat /\ i + 1 \in Reg
         /\ s.registers[i + 1].data \in Nat
         /\ L[i + 1][s.registers[i + 1].data] \in Int
         /\ Ahead(s.send_queue, i) \in Nat
<1>1. s.send_queue \in Queue /\ i \in Bits /\ i + 1 \in Reg
  BY AppRegIsFinite DEF NodeTypeOK, NodeState, Queue
<1>2. s.registers[i + 1].data \in Nat
  BY <1>1 DEF NodeTypeOK, NodeState, Register
<1> QED BY <1>1, <1>2, AheadIsBounded DEF Slacks, Bits

\* Whoever has a margin has none.
LEMMA MarginCanBeSpent ==
  ASSUME NEW s, NodeTypeOK(s), NEW L \in Slacks, NEW t, CanWait(s, L, Margin(t))
  PROVE  CanWait(s, L, NoMargin)
<1> SUFFICES ASSUME NEW i \in s.send_queue.data
             PROVE  /\ i + 1 \in AppReg
                    /\ s.registers[i + 1].data > 0
                    /\ L[i + 1][s.registers[i + 1].data] >= Ahead(s.send_queue, i) + 1 + 0
  BY DEF CanWait, NoMargin
<1>1. /\ i + 1 \in AppReg
      /\ s.registers[i + 1].data > 0
      /\ L[i + 1][s.registers[i + 1].data] >= Ahead(s.send_queue, i) + 1 + Margin(t)[i + 1]
  BY DEF CanWait
<1>2. Margin(t)[i + 1] \in {0, 1}
  BY <1>1 DEF Margin, Fresh
<1>3. /\ L[i + 1][s.registers[i + 1].data] \in Int
      /\ Ahead(s.send_queue, i) \in Nat
  BY <1>1, QueueEntry
<1> QED BY <1>1, <1>2, <1>3

\* A queue with a window for each of its registers: the popped one goes on air with
\* at least one left, and the others gain one.
LEMMA PopIsInTime ==
  ASSUME NEW s, NodeTypeOK(s), NEW L \in Slacks, CanWait(s, L, NoMargin),
         q_has_data(s.send_queue)
  PROVE  LET q == q_pop(s.send_queue)
         IN  /\ q \in Queue /\ q.data \subseteq s.send_queue.data
             /\ q.ptr \in AppReg /\ s.registers[q.ptr].data > 0
             /\ L[q.ptr][s.registers[q.ptr].data] >= 1
             /\ \A i \in q.data :
                  L[i + 1][s.registers[i + 1].data] >= Ahead(q, i) + 1 + 1
<1> DEFINE q == q_pop(s.send_queue)
           b == NextBit(s.send_queue)
<1>1. s.send_queue \in Queue
  BY DEF NodeTypeOK, NodeState
<1>2. b \in s.send_queue.data /\ b \in Bits /\ q \in Queue
  BY <1>1, NextBitIsSet, PopTakesQueued
<1>3. \A i \in s.send_queue.data :
        /\ i + 1 \in AppReg
        /\ s.registers[i + 1].data > 0
        /\ L[i + 1][s.registers[i + 1].data] >= Ahead(s.send_queue, i) + 1
  <2> TAKE i \in s.send_queue.data
  <2>1. /\ i + 1 \in AppReg
        /\ s.registers[i + 1].data > 0
        /\ L[i + 1][s.registers[i + 1].data] >= Ahead(s.send_queue, i) + 1 + 0
    BY DEF CanWait, NoMargin
  <2>2. Ahead(s.send_queue, i) \in Nat
    BY <2>1, QueueEntry
  <2> QED BY <2>1, <2>2
<1>4. q.data \subseteq s.send_queue.data
  BY DEF q_pop
<1>5. q.ptr = b + 1
  <2>1. b + 1 \in AppReg
    BY <1>2, <1>3
  <2>2. b + 1 \in Nat /\ b + 1 < QUEUE_BITS
    BY <2>1, AppRegIsFinite
  <2>3. (b + 1) % QUEUE_BITS = b + 1
    BY <2>2, QueueAssumption
  <2>4. q.ptr = (b + 1) % QUEUE_BITS
    BY DEF q_pop
  <2> QED BY <2>3, <2>4
<1>6. \A i \in q.data : L[i + 1][s.registers[i + 1].data] >= Ahead(q, i) + 1 + 1
  <2> TAKE i \in q.data
  <2>1. i \in s.send_queue.data /\ i + 1 \in AppReg /\ b + 1 \in AppReg /\ i \in Bits
    BY <1>2, <1>3, <1>4 DEF Queue
  <2>2. Ahead(q, i) + 1 <= Ahead(s.send_queue, i)
    BY <1>1, <2>1, PopBringsNearer
  <2>3. Ahead(q, i) \in Nat /\ Ahead(s.send_queue, i) \in Nat
    BY <1>1, <1>2, <2>1, AheadIsBounded
  <2>4. /\ L[i + 1][s.registers[i + 1].data] \in Int
        /\ L[i + 1][s.registers[i + 1].data] >= Ahead(s.send_queue, i) + 1
    BY <1>3, <2>1, QueueEntry
  <2> HIDE DEF q
  <2> QED BY <2>2, <2>3, <2>4
<1>7. L[b + 1][s.registers[b + 1].data] >= 1
  <2>1. /\ Ahead(s.send_queue, b) \in Nat /\ L[b + 1][s.registers[b + 1].data] \in Int
        /\ L[b + 1][s.registers[b + 1].data] >= Ahead(s.send_queue, b) + 1
    BY <1>2, <1>3, QueueEntry
  <2> HIDE DEF b
  <2> QED BY <2>1
<1>8. b + 1 \in AppReg /\ s.registers[b + 1].data > 0
  BY <1>2, <1>3
<1> HIDE DEF q, b
<1> QED BY <1>2, <1>4, <1>5, <1>6, <1>7, <1>8 DEF q

\* Whatever a node did, after broadcast_next_message it is in time.
LEMMA BroadcastIsInTime ==
  ASSUME NEW s, NodeTypeOK(s), NEW L \in Slacks, s.request_queue.data = {},
         CanWait(s, L, NoMargin)
  PROVE  InTime(broadcast_next_message(s), L)
<1>0. ~ q_has_data(s.request_queue)
  BY DEF q_has_data
<1>1. CASE q_has_data(s.send_queue)
  <2> DEFINE s1 == [s EXCEPT !.m_broadcasting = TRUE]
             q == q_pop(s.send_queue)
             s2 == [s1 EXCEPT !.send_queue = q]
             m == mesh_copy_message(s1, q.ptr)
             s3 == advertise(s2, m)
             t == mesh_timer_start(s3, "window")
  <2>1. broadcast_next_message(s) = t
    <3>1. MessagesWaiting(s)
      BY <1>1 DEF MessagesWaiting
    <3>2. /\ s1.request_queue = s.request_queue /\ s1.send_queue = s.send_queue
          /\ s1.registers = s.registers
      BY DEF NodeTypeOK, NodeState
    <3>3. mesh_assemble_next_message(s1) = [node |-> s2, message |-> m]
      BY <1>0, <3>2 DEF mesh_assemble_next_message
    <3> HIDE DEF s1, s2, m
    <3> QED BY <3>1, <3>3 DEF broadcast_next_message, s1
  <2>2. /\ q \in Queue /\ q.data \subseteq s.send_queue.data
        /\ q.ptr \in AppReg /\ s.registers[q.ptr].data > 0
        /\ L[q.ptr][s.registers[q.ptr].data] >= 1
        /\ \A i \in q.data : L[i + 1][s.registers[i + 1].data] >= Ahead(q, i) + 1 + 1
    BY <1>1, PopIsInTime
  <2> HIDE DEF q
  <2>3. m = [req |-> FALSE, reg |-> q.ptr, rev |-> s.registers[q.ptr].rev,
             data |-> s.registers[q.ptr].data]
    BY DEF mesh_copy_message, CopyOf, NodeTypeOK, NodeState
  <2> HIDE DEF m
  <2>4. /\ t.registers = s.registers /\ t.send_queue = q /\ t.request_queue = s.request_queue
        /\ t.adv = {m} /\ t.mesh_timer # "off"
    BY DEF mesh_timer_start, advertise, NodeTypeOK, NodeState
  <2> HIDE DEF t
  <2>5. \A r \in AppReg : Fresh(t, r) \in {0, 1} /\ Margin(t)[r] \in {0, 1}
    BY DEF Fresh, Margin
  <2>6. CanWait(t, L, Margin(t))
    <3> SUFFICES ASSUME NEW i \in q.data
                 PROVE  /\ i + 1 \in AppReg
                        /\ s.registers[i + 1].data > 0
                        /\ L[i + 1][s.registers[i + 1].data] >= Ahead(q, i) + 1 + Margin(t)[i + 1]
      BY <2>4 DEF CanWait
    <3>1. i \in s.send_queue.data /\ i + 1 \in AppReg /\ s.registers[i + 1].data > 0
      BY <2>2 DEF CanWait
    <3>2. L[i + 1][s.registers[i + 1].data] \in Int /\ i \in Bits
      BY <3>1, QueueEntry
    <3>3. Ahead(q, i) \in Nat
      BY <2>2, <3>1, <3>2, AheadIsBounded
    <3>4. L[i + 1][s.registers[i + 1].data] >= Ahead(q, i) + 1 + 1
      BY <2>2
    <3>5. Margin(t)[i + 1] \in {0, 1}
      BY <2>5, <3>1
    <3> QED BY <3>1, <3>2, <3>3, <3>4, <3>5
  <2>7. AirInTime(t, L)
    <3>1. s.registers[q.ptr].data \in Nat
      BY <2>2, AppRegIsFinite DEF NodeTypeOK, NodeState, Register
    <3>2. L[m.reg][m.data] \in Int /\ L[m.reg][m.data] >= 1 /\ m.reg \in AppReg /\ ~ m.req
          /\ m.data > 0
      BY <2>2, <2>3, <3>1 DEF Slacks
    <3>3. Fresh(t, m.reg) \in {0, 1}
      BY <2>5, <3>2
    <3>4. L[m.reg][m.data] >= Fresh(t, m.reg)
      BY <3>2, <3>3
    <3> QED BY <2>4, <3>2, <3>4 DEF AirInTime
  <2> QED BY <2>1, <2>4, <2>6, <2>7 DEF InTime
<1>2. CASE ~ q_has_data(s.send_queue)
  <2> DEFINE t == advertising_stop([s EXCEPT !.m_broadcasting = FALSE])
  <2>1. broadcast_next_message(s) = t
    BY <1>0, <1>2 DEF broadcast_next_message, MessagesWaiting
  <2>2. t.adv = {} /\ t.send_queue.data = {} /\ t.request_queue.data = {}
    BY <1>2 DEF advertising_stop, NodeTypeOK, NodeState, q_has_data
  <2> HIDE DEF t
  <2> QED BY <2>1, <2>2 DEF InTime, CanWait, AirInTime
<1> QED BY <1>1, <1>2

LEMMA BroadcastIfIdleIsInTime ==
  ASSUME NEW s, NodeTypeOK(s), NEW L \in Slacks, InTime(s, L)
  PROVE  InTime(BroadcastIfIdle(s), L)
<1>1. s.request_queue.data = {} /\ CanWait(s, L, NoMargin)
  BY MarginCanBeSpent DEF InTime
<1> QED BY <1>1, BroadcastIsInTime DEF BroadcastIfIdle

\* What InTime depends on; more ticks only help.
LEMMA SameIsInTime ==
  ASSUME NEW s, NodeTypeOK(s), NEW L \in Slacks, InTime(s, L), NEW t,
         t.registers = s.registers, t.send_queue = s.send_queue,
         t.request_queue = s.request_queue, t.adv \subseteq s.adv,
         t.mesh_timer = s.mesh_timer, s.ticked \subseteq t.ticked,
         NEW M \in Slacks, \A r \in AppReg, d \in Nat : M[r][d] >= L[r][d]
  PROVE  InTime(t, M)
<1>1. \A r \in AppReg : /\ Fresh(t, r) \in {0, 1} /\ Fresh(s, r) \in {0, 1}
                        /\ Fresh(t, r) <= Fresh(s, r)
  BY DEF Fresh
<1>2. CanWait(t, M, Margin(t))
  <2> SUFFICES ASSUME NEW i \in s.send_queue.data
               PROVE  /\ i + 1 \in AppReg
                      /\ s.registers[i + 1].data > 0
                      /\ M[i + 1][s.registers[i + 1].data]
                           >= Ahead(s.send_queue, i) + 1 + Margin(t)[i + 1]
    BY DEF CanWait
  <2>1. /\ i + 1 \in AppReg
        /\ s.registers[i + 1].data > 0
        /\ L[i + 1][s.registers[i + 1].data] >= Ahead(s.send_queue, i) + 1 + Margin(s)[i + 1]
    BY DEF InTime, CanWait
  <2>2. /\ s.registers[i + 1].data \in Nat
        /\ Ahead(s.send_queue, i) \in Nat
        /\ L[i + 1][s.registers[i + 1].data] \in Int
        /\ M[i + 1][s.registers[i + 1].data] \in Int
    BY <2>1, QueueEntry
  <2>3. M[i + 1][s.registers[i + 1].data] >= L[i + 1][s.registers[i + 1].data]
    BY <2>1, <2>2
  <2>4. Margin(s)[i + 1] = Fresh(s, i + 1) /\ Margin(t)[i + 1] = Fresh(t, i + 1)
    BY <2>1 DEF Margin
  <2>5. Fresh(t, i + 1) \in {0, 1} /\ Fresh(s, i + 1) \in {0, 1}
        /\ Fresh(t, i + 1) <= Fresh(s, i + 1)
    BY <1>1, <2>1
  <2> QED BY <2>1, <2>2, <2>3, <2>4, <2>5
<1>3. AirInTime(t, M)
  <2>1. t.adv # {} => t.mesh_timer # "off"
    BY DEF InTime, AirInTime
  <2>2. ASSUME NEW m \in t.adv
        PROVE  /\ ~ m.req
               /\ m.reg # 0 => m.reg \in AppReg /\ m.data > 0
               /\ m.reg \in AppReg => M[m.reg][m.data] >= Fresh(t, m.reg)
    <3>1. /\ ~ m.req
          /\ m.reg # 0 => m.reg \in AppReg /\ m.data > 0
          /\ m.reg \in AppReg => L[m.reg][m.data] >= Fresh(s, m.reg)
      BY <2>2 DEF InTime, AirInTime
    <3>2. ASSUME m.reg \in AppReg
          PROVE  M[m.reg][m.data] >= Fresh(t, m.reg)
      <4>1. m.data \in Nat
        BY <2>2 DEF NodeTypeOK, NodeState, Message
      <4>2. /\ M[m.reg][m.data] \in Int /\ L[m.reg][m.data] \in Int
            /\ M[m.reg][m.data] >= L[m.reg][m.data]
        BY <3>2, <4>1 DEF Slacks
      <4>3. Fresh(t, m.reg) \in {0, 1} /\ Fresh(s, m.reg) \in {0, 1}
            /\ Fresh(t, m.reg) <= Fresh(s, m.reg)
        BY <1>1, <3>2
      <4> QED BY <3>1, <3>2, <4>2, <4>3
    <3> QED BY <3>1, <3>2
  <2> QED BY <2>1, <2>2 DEF AirInTime
<1> QED BY <1>2, <1>3 DEF InTime

\* The push of a register, with the windows of a hop ahead of it.
LEMMA WriteIsInTime ==
  ASSUME NEW s, NodeTypeOK(s), NEW L \in Slacks, InTime(s, L),
         NEW r \in Reg, NEW d \in Nat, NEW v \in Revisions,
         r # 0 => r \in AppReg /\ d > 0 /\ L[r][d] >= WindowsPerHop
  PROVE  InTime(mesh_write_reg(s, r, d, v), L)
<1> DEFINE q == q_push(s.send_queue, r)
           c == [data |-> d, rev |-> v, written |-> TRUE]
           s1 == [s EXCEPT !.registers[r] = c, !.send_queue = q]
<1>1. mesh_write_reg(s, r, d, v) = BroadcastIfIdle(s1)
  BY DEF mesh_write_reg
<1>2. q \in Queue /\ Queued(q) \subseteq Reg /\ s.send_queue \in Queue
  BY PushKeepsType DEF NodeTypeOK, NodeState
<1>3. q.ptr = s.send_queue.ptr /\ q.data = s.send_queue.data \union PushBits(r)
  BY <1>2 DEF q_push, Queue
<1>4. c \in Register /\ c.data = d
  BY DEF Register
<1> HIDE DEF q, c
<1>5. /\ NodeTypeOK(s1)
      /\ s1.registers = [s.registers EXCEPT ![r] = c] /\ s1.send_queue = q
      /\ s1.request_queue = s.request_queue /\ s1.adv = s.adv
      /\ s1.mesh_timer = s.mesh_timer /\ s1.ticked = s.ticked
  BY <1>2, <1>4 DEF NodeTypeOK, NodeState
<1> HIDE DEF s1
<1>6. \A i : Ahead(q, i) = Ahead(s.send_queue, i)
  BY <1>3 DEF Ahead, InFront, ScanDistance
<1>7. \A x \in AppReg : Margin(s1)[x] = Margin(s)[x] /\ Margin(s1)[x] \in {0, 1}
                        /\ Fresh(s1, x) = Fresh(s, x)
  BY <1>5 DEF Margin, Fresh
<1>8. CanWait(s1, L, Margin(s1))
  <2> SUFFICES ASSUME NEW i \in q.data
               PROVE  /\ i + 1 \in AppReg
                      /\ s1.registers[i + 1].data > 0
                      /\ L[i + 1][s1.registers[i + 1].data] >= Ahead(q, i) + 1 + Margin(s1)[i + 1]
    BY <1>5 DEF CanWait
  <2>0. i \in Bits /\ i \in Nat /\ i + 1 # 0
    BY <1>2 DEF Queue, Bits
  <2>1. CASE i + 1 = r
    <3>1. r \in AppReg /\ d > 0 /\ L[r][d] >= WindowsPerHop /\ L[r][d] \in Int
      BY <2>0, <2>1 DEF Slacks
    <3>2. s1.registers[r].data = d
      BY <1>4, <1>5 DEF NodeTypeOK, NodeState
    <3>3. Ahead(q, i) \in Nat /\ Ahead(q, i) <= Cardinality(AppReg) - 1
      BY <1>2, <2>0, <2>1, <3>1, AheadIsBounded
    <3>4. Margin(s1)[r] \in {0, 1}
      BY <1>7, <3>1
    <3>5. L[r][d] >= Ahead(q, i) + 1 + Margin(s1)[r]
      BY <3>1, <3>3, <3>4, AppRegIsFinite DEF WindowsPerHop
    <3> QED BY <2>1, <3>1, <3>2, <3>5
  <2>2. CASE i + 1 # r
    <3>1. i \in s.send_queue.data
      <4>1. i \notin PushBits(r)
        BY <2>0, <2>2, AppRegIsFinite DEF PushBits
      <4> QED BY <1>3, <4>1
    <3>2. /\ i + 1 \in AppReg
          /\ s.registers[i + 1].data > 0
          /\ L[i + 1][s.registers[i + 1].data] >= Ahead(s.send_queue, i) + 1 + Margin(s)[i + 1]
      BY <3>1 DEF InTime, CanWait
    <3>3. s1.registers[i + 1] = s.registers[i + 1]
      BY <1>5, <2>2, <3>2, AppRegIsFinite DEF NodeTypeOK, NodeState
    <3> QED BY <1>6, <1>7, <3>2, <3>3
  <2> QED BY <2>1, <2>2
<1>9. AirInTime(s1, L)
  BY <1>5, <1>7 DEF InTime, AirInTime
<1>10. InTime(s1, L)
  BY <1>5, <1>8, <1>9 DEF InTime
<1> QED BY <1>1, <1>5, <1>10, BroadcastIfIdleIsInTime

\* A node that hears a copy: if it is news, a hop of windows comes with it.
LEMMA ReportIsInTime ==
  ASSUME NEW s, NodeTypeOK(s), Paced(s), NEW L \in Slacks, InTime(s, L),
         NEW m \in Message, ~ m.req,
         NEW M \in Slacks, \A r \in AppReg, d \in Nat : M[r][d] >= L[r][d],
         Accepts(s, m) /\ m.reg # 0 =>
           m.reg \in AppReg /\ m.data > 0 /\ M[m.reg][m.data] >= WindowsPerHop
  PROVE  InTime(ble_evt_adv_report(s, m), M)
<1>1. CASE Accepts(s, m)
  <2> DEFINE s1 == CountReception(s, m)
             s2 == mesh_write_reg(s1, m.reg, m.data, m.rev)
  <2>0. m.reg \in Reg /\ m.data \in Nat /\ m.rev \in Revisions
    BY DEF Message
  <2>1. /\ NodeTypeOK(s1) /\ Armed(s1) /\ s1.registers = s.registers /\ s1.adv = s.adv
        /\ s1.send_queue = s.send_queue /\ s1.request_queue = s.request_queue
        /\ s1.mesh_timer = s.mesh_timer /\ s1.ticked = s.ticked
    <3>1. \A k \in 0 .. COUNT_MOD - 1 : (k + 1) % COUNT_MOD \in 0 .. COUNT_MOD - 1
      BY CounterAssumption
    <3> QED BY <3>1 DEF CountReception, NodeTypeOK, NodeState, Armed, Paced
  <2>2. ble_evt_adv_report(s, m) = set_leds(s2)
    BY <1>1 DEF ble_evt_adv_report, ReceiveCopy
  <2> HIDE DEF s1
  <2>3. InTime(s1, M)
    BY <2>1, SameIsInTime
  <2>4. NodeTypeOK(s2) /\ InTime(s2, M)
    BY <1>1, <2>0, <2>1, <2>3, WritePaces, WriteIsInTime
  <2> HIDE DEF s2, Accepts
  <2>5. /\ set_leds(s2).registers = s2.registers /\ set_leds(s2).adv = s2.adv
        /\ set_leds(s2).send_queue = s2.send_queue
        /\ set_leds(s2).request_queue = s2.request_queue
        /\ set_leds(s2).mesh_timer = s2.mesh_timer /\ set_leds(s2).ticked = s2.ticked
    BY <2>4 DEF set_leds, NodeTypeOK, NodeState
  <2>6. \A r \in AppReg, d \in Nat : M[r][d] >= M[r][d]
    BY DEF Slacks
  <2>7. InTime(set_leds(s2), M)
    BY <2>4, <2>5, <2>6, SameIsInTime
  <2> QED BY <2>2, <2>7
<1>2. CASE ~ Accepts(s, m)
  <2>1. ble_evt_adv_report(s, m) = s
    BY <1>2 DEF ble_evt_adv_report, ReceiveCopy
  <2> QED BY <2>1, SameIsInTime
<1> QED BY <1>1, <1>2

\* No broadcast makes up a tick.
LEMMA BroadcastForgetsTicks ==
  ASSUME NEW s, NodeTypeOK(s)
  PROVE  BroadcastIfIdle(s).ticked \subseteq s.ticked
<1>1. CASE MessagesWaiting(s)
  <2> DEFINE s1 == [s EXCEPT !.m_broadcasting = TRUE]
             next == mesh_assemble_next_message(s1)
             s2 == advertise(next.node, next.message)
  <2>1. NodeTypeOK(s1) /\ MessagesWaiting(s1) /\ s1.ticked = s.ticked
    BY <1>1 DEF NodeTypeOK, NodeState, MessagesWaiting
  <2>2. broadcast_next_message(s) = mesh_timer_start(s2, "window")
    BY <1>1 DEF broadcast_next_message
  <2> HIDE DEF s1
  <2>3. NodeTypeOK(next.node)
    BY <2>1, AssembleTakesOne
  <2>4. next.node.ticked = s1.ticked
    BY <2>1 DEF mesh_assemble_next_message, NodeTypeOK, NodeState
  <2> HIDE DEF next
  <2>5. s2.ticked = next.node.ticked /\ NodeTypeOK(next.node)
    BY <2>3 DEF advertise, NodeTypeOK, NodeState
  <2>6. mesh_timer_start(s2, "window").ticked \subseteq s2.ticked
    BY <2>3 DEF mesh_timer_start, advertise, NodeTypeOK, NodeState
  <2> HIDE DEF s2
  <2> QED BY <2>1, <2>2, <2>4, <2>5, <2>6 DEF BroadcastIfIdle
<1>2. CASE ~ MessagesWaiting(s)
  BY <1>2 DEF BroadcastIfIdle, broadcast_next_message, advertising_stop, NodeTypeOK, NodeState
<1> QED BY <1>1, <1>2

\* A tick that the mesh timer of a node has waited for takes a window from the
\* copies of one register, and that tick was allowed for.
LEMMA TickIsInTime ==
  ASSUME NEW s, NodeTypeOK(s), Paced(s), NEW L \in Slacks, InTime(s, L),
         NEW r \in AppReg, Owner[r] \notin s.ticked,
         NEW t, t = IF s.mesh_timer = "off" THEN s ELSE [s EXCEPT !.ticked = @ \union {Owner[r]}],
         NEW M \in Slacks,
         \A p \in AppReg, d \in Nat : M[p][d] >= L[p][d] - (IF p = r THEN 1 ELSE 0)
  PROVE  InTime(t, M)
<1>1. CASE s.mesh_timer = "off"
  <2>1. s.adv = {} /\ s.request_queue.data = {} /\ s.send_queue.data = {}
    BY <1>1 DEF InTime, AirInTime, Paced, MessagesWaiting, q_has_data
  <2> QED BY <1>1, <2>1 DEF InTime, CanWait, AirInTime
<1>2. CASE s.mesh_timer # "off"
  <2>1. /\ t.registers = s.registers /\ t.send_queue = s.send_queue /\ t.adv = s.adv
        /\ t.request_queue = s.request_queue /\ t.mesh_timer = s.mesh_timer
        /\ t.ticked = s.ticked \union {Owner[r]}
    BY <1>2 DEF NodeTypeOK, NodeState
  <2>2. \A p \in AppReg : /\ Fresh(s, p) \in {0, 1} /\ Fresh(t, p) \in {0, 1}
                          /\ Fresh(t, p) + (IF p = r THEN 1 ELSE 0) <= Fresh(s, p)
    BY <2>1 DEF Fresh
  <2>3. CanWait(t, M, Margin(t))
    <3> SUFFICES ASSUME NEW i \in s.send_queue.data
                 PROVE  /\ i + 1 \in AppReg
                        /\ s.registers[i + 1].data > 0
                        /\ M[i + 1][s.registers[i + 1].data]
                             >= Ahead(s.send_queue, i) + 1 + Margin(t)[i + 1]
      BY <2>1 DEF CanWait
    <3> DEFINE d == s.registers[i + 1].data
               taken == IF i + 1 = r THEN 1 ELSE 0
    <3>1. /\ i + 1 \in AppReg /\ d > 0
          /\ L[i + 1][d] >= Ahead(s.send_queue, i) + 1 + Margin(s)[i + 1]
      BY DEF InTime, CanWait
    <3>2. /\ d \in Nat /\ Ahead(s.send_queue, i) \in Nat
          /\ L[i + 1][d] \in Int /\ M[i + 1][d] \in Int
      BY <3>1, QueueEntry
    <3> HIDE DEF d
    <3>3. M[i + 1][d] >= L[i + 1][d] - taken
      BY <3>1, <3>2
    <3>4. /\ Margin(s)[i + 1] \in {0, 1} /\ Margin(t)[i + 1] \in {0, 1} /\ taken \in {0, 1}
          /\ Margin(t)[i + 1] + taken <= Margin(s)[i + 1]
      BY <2>2, <3>1 DEF Margin
    <3> HIDE DEF taken
    <3>5. M[i + 1][d] >= Ahead(s.send_queue, i) + 1 + Margin(t)[i + 1]
      BY <3>1, <3>2, <3>3, <3>4
    <3> QED BY <3>1, <3>5 DEF d
  <2>4. AirInTime(t, M)
    <3> SUFFICES ASSUME NEW m \in s.adv
                 PROVE  /\ ~ m.req
                        /\ m.reg # 0 => m.reg \in AppReg /\ m.data > 0
                        /\ m.reg \in AppReg => M[m.reg][m.data] >= Fresh(t, m.reg)
      BY <1>2, <2>1 DEF AirInTime
    <3>1. /\ ~ m.req
          /\ m.reg # 0 => m.reg \in AppReg /\ m.data > 0
          /\ m.reg \in AppReg => L[m.reg][m.data] >= Fresh(s, m.reg)
      BY DEF InTime, AirInTime
    <3>2. ASSUME m.reg \in AppReg
          PROVE  M[m.reg][m.data] >= Fresh(t, m.reg)
      <4> DEFINE taken == IF m.reg = r THEN 1 ELSE 0
      <4>1. m.data \in Nat
        BY DEF NodeTypeOK, NodeState, Message
      <4>2. /\ M[m.reg][m.data] \in Int /\ L[m.reg][m.data] \in Int
            /\ M[m.reg][m.data] >= L[m.reg][m.data] - taken
        BY <3>2, <4>1 DEF Slacks
      <4>3. /\ Fresh(t, m.reg) \in {0, 1} /\ Fresh(s, m.reg) \in {0, 1} /\ taken \in {0, 1}
            /\ Fresh(t, m.reg) + taken <= Fresh(s, m.reg)
        BY <2>2, <3>2
      <4> HIDE DEF taken
      <4> QED BY <3>1, <3>2, <4>2, <4>3
    <3> QED BY <3>1, <3>2
  <2> QED BY <2>1, <2>3, <2>4 DEF InTime
<1> QED BY <1>1, <1>2

NobodyAsks == \A n \in Node : Requested[n] = {}

\* Every node is in time, and a register that was never written is blank.
AllInTime == \A n \in Node : InTime(node[n], Slack)

UnwrittenIsBlank ==
  \A n \in Node, r \in AppReg :
    ~ node[n].registers[r].written => node[n].registers[r].data = 0

LEMMA MoreHoldersMoreWindows ==
  ASSUME NEW a \in Nat, NEW b \in Nat, NEW k \in Nat, a <= b
  PROVE  a * k \in Nat /\ b * k \in Nat /\ a * k <= b * k /\ (a + 1) * k = a * k + k
<1>1. a * k \in Nat /\ b * k \in Nat /\ (b - a) * k \in Nat
  <2>1. b - a \in Nat
    OBVIOUS
  <2> QED BY <2>1
<1>2. b * k = a * k + (b - a) * k /\ (a + 1) * k = a * k + k
  OBVIOUS
<1> QED BY <1>1, <1>2

LEMMA HoldersAreFinite ==
  ASSUME IsFiniteSet(Node), NEW r \in AppReg, NEW d \in Nat
  PROVE  /\ IsFiniteSet(Holders(r, d)) /\ Cardinality(Holders(r, d)) \in Nat
         /\ Cardinality(Node) \in Nat /\ Cardinality(Holders(r, d)) <= Cardinality(Node)
<1>1. Holders(r, d) \subseteq Node
  BY DEF Holders
<1> QED BY <1>1, FS_Subset, FS_CardinalityType

SlackIsRight ==
  /\ Slack \in Slacks
  /\ WindowsPerHop \in Nat /\ WindowsPerHop >= 1
  /\ \A r \in AppReg, d \in Nat :
       /\ Slack[r][d] = Cardinality(Holders(r, d)) * WindowsPerHop - (writes[r] - d)
       /\ Cardinality(Holders(r, d)) * WindowsPerHop \in Nat
       /\ writes[r] \in Nat

LEMMA SlackOf == TypeOK /\ IsFiniteSet(Node) => SlackIsRight
<1> SUFFICES ASSUME TypeOK, IsFiniteSet(Node) PROVE SlackIsRight
  OBVIOUS
<1>1. WindowsPerHop \in Nat /\ WindowsPerHop >= 1
  BY AppRegIsFinite DEF WindowsPerHop
<1>2. \A r \in AppReg, d \in Nat : Cardinality(Holders(r, d)) * WindowsPerHop \in Nat
  <2> TAKE r \in AppReg, d \in Nat
  <2>1. Cardinality(Holders(r, d)) \in Nat
    BY HoldersAreFinite
  <2> QED BY <1>1, <2>1, MoreHoldersMoreWindows
<1>3. \A r \in AppReg : writes[r] \in Nat
  BY DEF TypeOK
<1>4. \A r \in AppReg, d \in Nat :
        Slack[r][d] = Cardinality(Holders(r, d)) * WindowsPerHop - (writes[r] - d)
  BY DEF Slack
<1>5. \A r \in AppReg, d \in Nat :
        Cardinality(Holders(r, d)) * WindowsPerHop - (writes[r] - d) \in Int
  BY <1>2, <1>3
<1>6. Slack \in Slacks
  BY <1>5 DEF Slack, Slacks
<1> QED BY <1>1, <1>2, <1>3, <1>4, <1>6 DEF SlackIsRight

LEMMA SlackOfNext == TypeOK' /\ IsFiniteSet(Node) => SlackIsRight'
<1> SUFFICES ASSUME IsFiniteSet(Node) PROVE TypeOK' => SlackIsRight'
  OBVIOUS
<1>1. TypeOK => SlackIsRight
  BY SlackOf
<1> QED BY <1>1, PTL

\* What is on air in time is recent, in a network that is small for the window.
LEMMA InTimeIsRecent ==
  ASSUME TypeOK, AllInTime, IsFiniteSet(Node),
         Cardinality(Node) * WindowsPerHop < HALF_REVISION
  PROVE  AirIsRecent
<1> SUFFICES ASSUME NEW n \in Node, NEW m \in node[n].adv, m.reg \in AppReg
             PROVE  writes[m.reg] - m.data < HALF_REVISION
  BY DEF AirIsRecent
<1> DEFINE r == m.reg
           d == m.data
           c == Cardinality(Holders(r, d))
<1>1. r \in AppReg /\ d \in Nat
  BY DataIsNat DEF Message
<1>2. Slack[r][d] >= Fresh(node[n], r) /\ Fresh(node[n], r) \in {0, 1}
  BY DEF AllInTime, InTime, AirInTime, Fresh
<1>3. /\ Slack[r][d] = c * WindowsPerHop - (writes[r] - d) /\ c * WindowsPerHop \in Nat
      /\ writes[r] \in Nat /\ WindowsPerHop \in Nat
  BY <1>1, SlackOf DEF SlackIsRight
<1>4. c \in Nat /\ Cardinality(Node) \in Nat /\ c <= Cardinality(Node)
  BY <1>1, HoldersAreFinite
<1> HIDE DEF c, r, d
<1>5. c * WindowsPerHop <= Cardinality(Node) * WindowsPerHop
      /\ Cardinality(Node) * WindowsPerHop \in Nat
  BY <1>3, <1>4, MoreHoldersMoreWindows
<1>6. HALF_REVISION \in Nat
  BY RevisionAssumption DEF HALF_REVISION
<1>7. writes[r] - d < HALF_REVISION
  <2> DEFINE x == c * WindowsPerHop
             y == Cardinality(Node) * WindowsPerHop
  <2>1. x \in Nat /\ y \in Nat /\ x <= y /\ y < HALF_REVISION /\ Slack[r][d] = x - (writes[r] - d)
    BY <1>3, <1>5
  <2> HIDE DEF x, y
  <2> QED BY <1>1, <1>2, <1>3, <1>6, <2>1
<1> QED BY <1>7 DEF r, d

\* Data never decreases, also where byte 25 is not set.
LEMMA DataGrows ==
  ASSUME TypeOK, NoStall, Safe, AirIsRecent, UnwrittenIsBlank, [Next]_vars
  PROVE  \A n \in Node, r \in AppReg :
           node'[n].registers[r].data >= node[n].registers[r].data
<1> SUFFICES ASSUME NEW n \in Node, NEW r \in AppReg
             PROVE  node'[n].registers[r].data >= node[n].registers[r].data
  OBVIOUS
<1>1. CASE node[n].registers[r].written
  BY <1>1, StepIsNeverOlder
<1>2. CASE ~ node[n].registers[r].written
  <2>1. node[n].registers[r].data = 0
    BY <1>2 DEF UnwrittenIsBlank
  <2>2. TypeOK'
    BY StepPaces
  <2>3. node'[n].registers[r].data \in Nat
    BY <2>2, MeshAssumption DEF TypeOK, NodeTypeOK, NodeState, Register
  <2> QED BY <2>1, <2>3
<1> QED BY <1>1, <1>2

LEMMA UnwrittenStaysBlank ==
  ASSUME NobodyAsks, TypeOK, NoStall, UnwrittenIsBlank, [Next]_vars
  PROVE  UnwrittenIsBlank'
<1> SUFFICES ASSUME NEW n \in Node, NEW r \in AppReg, ~ node'[n].registers[r].written
             PROVE  node'[n].registers[r].data = 0
  BY DEF UnwrittenIsBlank
<1>0. r \in Reg
  BY MeshAssumption
<1>1. CASE Next
  <2>1. CASE Quiet
    BY <2>1 DEF Quiet, UnwrittenIsBlank
  <2>2. ASSUME NEW k \in Node, NEW m \in node[k].adv, NEW j \in Node, Learns(j, m)
        PROVE  node'[n].registers[r].data = 0
    <3>1. CASE j = n /\ m.reg = r
      <4>1. node'[n].registers[r] = [data |-> m.data, rev |-> m.rev, written |-> TRUE]
        BY <1>0, <2>2, <3>1, DataIsNat DEF Learns, Takes
      <4> QED BY <4>1
    <3>2. CASE ~ (j = n /\ m.reg = r)
      <4>1. node'[n].registers[r] = node[n].registers[r]
        BY <1>0, <2>2, <3>2, DataIsNat DEF Learns, Takes
      <4> QED BY <4>1 DEF UnwrittenIsBlank
    <3> QED BY <3>1, <3>2
  <2>3. ASSUME NEW j \in Node, NEW q \in AppReg, NEW asked \in SUBSET Reg,
               asked \subseteq Requested[j], Publishes(j, q, asked)
        PROVE  node'[n].registers[r].data = 0
    <3>1. asked = {}
      BY <2>3 DEF NobodyAsks
    <3>2. CASE j = n
      <4>1. node'[n].registers[r] =
              [data |-> IF r = q THEN node[n].registers[r].data + 1 ELSE node[n].registers[r].data,
               rev |-> IF r = q THEN NextRevision(rev[q]) ELSE node[n].registers[r].rev,
               written |-> (r = q \/ node[n].registers[r].written) /\ r \notin asked]
        BY <1>0, <2>3, <3>2 DEF Publishes
      <4>2. node'[n].registers[r].written = ((r = q \/ node[n].registers[r].written) /\ r \notin asked)
        BY <4>1
      <4>3. r # q /\ ~ node[n].registers[r].written
        BY <3>1, <4>2
      <4>4. node'[n].registers[r].data = node[n].registers[r].data
        BY <4>1, <4>3
      <4> QED BY <4>3, <4>4 DEF UnwrittenIsBlank
    <3>3. CASE j # n
      BY <2>3, <3>3 DEF Publishes, UnwrittenIsBlank
    <3> QED BY <3>2, <3>3
  <2>4. Visible
    BY <1>1, StepIsVisible
  <2> QED BY <2>1, <2>2, <2>3, <2>4 DEF Visible
<1>2. CASE UNCHANGED vars
  BY <1>2 DEF vars, UnwrittenIsBlank
<1> QED BY <1>1, <1>2

\* Where data grows, holders do not get fewer.
LEMMA HoldersGrow ==
  ASSUME TypeOK, TypeOK', IsFiniteSet(Node), NEW r \in AppReg, NEW d \in Nat,
         \A n \in Node : node'[n].registers[r].data >= node[n].registers[r].data
  PROVE  /\ Holders(r, d) \subseteq Holders(r, d)'
         /\ IsFiniteSet(Holders(r, d)') /\ Cardinality(Holders(r, d)') \in Nat
         /\ Cardinality(Holders(r, d)) <= Cardinality(Holders(r, d)')
<1>1. \A n \in Node : node[n].registers[r].data \in Nat /\ node'[n].registers[r].data \in Nat
  <2>1. \A n \in Node : node[n].registers[r].data \in Nat
    BY DataIsNat
  <2>2. r \in Reg
    BY MeshAssumption
  <2>3. \A n \in Node : node'[n].registers[r].data \in Nat
    BY <2>2 DEF TypeOK, NodeTypeOK, NodeState, Register
  <2> QED BY <2>1, <2>3
<1>2. Holders(r, d) \subseteq Holders(r, d)'
  BY <1>1 DEF Holders
<1>3. Holders(r, d)' \subseteq Node
  BY DEF Holders
<1>4. IsFiniteSet(Holders(r, d)')
  BY <1>3, FS_Subset
<1> QED BY <1>2, <1>4, FS_Subset, FS_CardinalityType

\* So a copy has the more windows left, the ticks aside.
LEMMA SlackGrows ==
  ASSUME TypeOK, TypeOK', IsFiniteSet(Node),
         \A n \in Node, r \in AppReg : node'[n].registers[r].data >= node[n].registers[r].data
  PROVE  /\ Slack' \in Slacks
         /\ \A r \in AppReg, d \in Nat : Slack'[r][d] >= Slack[r][d] - (writes'[r] - writes[r])
<1>1. SlackIsRight /\ SlackIsRight'
  BY SlackOf, SlackOfNext
<1>2. Slack' \in Slacks
  BY <1>1 DEF SlackIsRight
<1>3. ASSUME NEW r \in AppReg, NEW d \in Nat
      PROVE  Slack'[r][d] >= Slack[r][d] - (writes'[r] - writes[r])
  <2> DEFINE x == Cardinality(Holders(r, d)) * WindowsPerHop
             y == Cardinality(Holders(r, d)') * WindowsPerHop
  <2>1. /\ Slack[r][d] = x - (writes[r] - d) /\ x \in Nat /\ writes[r] \in Nat
        /\ WindowsPerHop \in Nat
    BY <1>1 DEF SlackIsRight
  <2>2. Slack'[r][d] = y - (writes'[r] - d) /\ y \in Nat /\ writes'[r] \in Nat
    BY <1>1 DEF SlackIsRight, WindowsPerHop
  <2>3. /\ Cardinality(Holders(r, d)) \in Nat /\ Cardinality(Holders(r, d)') \in Nat
        /\ Cardinality(Holders(r, d)) <= Cardinality(Holders(r, d)')
    BY HoldersGrow, HoldersAreFinite
  <2>4. x <= y
    BY <2>1, <2>3, MoreHoldersMoreWindows
  <2> HIDE DEF x, y
  <2> QED BY <2>1, <2>2, <2>4
<1> QED BY <1>2, <1>3

\* The owner's write is on its way with all the windows of a hop.
LEMMA WriteOwnIsInTime ==
  ASSUME TypeOK, NoStall, NEW n \in Node, NEW r \in AppReg,
         NEW L \in Slacks, InTime(node[n], L),
         L[r][node[n].registers[r].data + 1] >= WindowsPerHop
  PROVE  /\ InTime(WriteOwn(node[n], r), L)
         /\ WriteOwn(node[n], r).ticked \subseteq node[n].ticked
<1> DEFINE d == node[n].registers[r].data + 1
           v == NextRevision(rev[r])
           c == [data |-> d, rev |-> v, written |-> TRUE]
           q == q_push(node[n].send_queue, r)
           s0 == [node[n] EXCEPT !.registers[r] = c, !.send_queue = q]
           s1 == mesh_write_reg(node[n], r, d, v)
<1>1. NodeTypeOK(node[n]) /\ Armed(node[n]) /\ r \in Reg
  BY MeshAssumption DEF TypeOK, NoStall, Paced, Armed
<1>2. d \in Nat /\ d > 0
  <2>1. node[n].registers[r].data \in Nat
    BY DataIsNat
  <2> QED BY <2>1
<1>3. v \in Revisions
  BY RevisionAssumption DEF TypeOK, NextRevision, Revisions
<1>4. WriteOwn(node[n], r) = set_leds(s1) /\ s1 = BroadcastIfIdle(s0)
  BY DEF WriteOwn, mesh_write_reg
<1>5. q \in Queue /\ Queued(q) \subseteq Reg /\ c \in Register
  BY <1>1, <1>2, <1>3, PushKeepsType DEF NodeTypeOK, NodeState, Register
<1>6. L[r][d] >= WindowsPerHop
  OBVIOUS
<1> HIDE DEF d, v, q, c
<1>7. NodeTypeOK(s0) /\ s0.ticked = node[n].ticked
  BY <1>1, <1>5 DEF NodeTypeOK, NodeState
<1> HIDE DEF s0
<1>8. NodeTypeOK(s1) /\ InTime(s1, L)
  BY <1>1, <1>2, <1>3, <1>6, WritePaces, WriteIsInTime
<1> HIDE DEF s1
<1>9. s1.ticked \subseteq node[n].ticked
  BY <1>4, <1>7, BroadcastForgetsTicks
<1>10. /\ set_leds(s1).registers = s1.registers /\ set_leds(s1).adv = s1.adv
       /\ set_leds(s1).send_queue = s1.send_queue
       /\ set_leds(s1).request_queue = s1.request_queue
       /\ set_leds(s1).mesh_timer = s1.mesh_timer /\ set_leds(s1).ticked = s1.ticked
  BY <1>8 DEF set_leds, NodeTypeOK, NodeState
<1>11. \A x \in AppReg, y \in Nat : L[x][y] >= L[x][y]
  BY DEF Slacks
<1>12. InTime(set_leds(s1), L)
  BY <1>8, <1>10, <1>11, SameIsInTime
<1> QED BY <1>4, <1>9, <1>10, <1>12

\* A tick: one node has the new write, and all others had a tick in hand.
LEMMA AppTickIsInTime ==
  ASSUME IsFiniteSet(Node), TypeOK, NoStall, Safe, AirIsRecent, AllInTime, UnwrittenIsBlank,
         NEW n \in Node, NEW r \in AppReg, AppTick(n, r)
  PROVE  AllInTime'
<1> DEFINE s == WriteOwn(node[n], r)
           L == [q \in AppReg |-> [d \in Nat |-> Slack'[q][d] + (IF q = r THEN 1 ELSE 0)]]
           own == node[n].registers[r].data + 1
<1>0. [Next]_vars
  BY DEF Next
<1>1. /\ Tick(n, r, s) /\ r = Rota[n][count[n] + 1] /\ count[n] < Len(Rota[n])
      /\ \A k \in Node : n \notin node[k].ticked
  BY DEF AppTick, MayTick
<1>2. Owner[r] = n
  BY <1>1, OwnerTicks
<1>3. /\ NodeTypeOK(s) /\ Paced(s) /\ Sends(node[n], s)
      /\ s.registers = [node[n].registers EXCEPT
                          ![r] = [data |-> @.data + 1, rev |-> NextRevision(rev[r]),
                                  written |-> TRUE]]
  BY WriteOwnSends
<1>4. TypeOK' /\ \A k \in Node, q \in AppReg :
                   node'[k].registers[q].data >= node[k].registers[q].data
  BY <1>0, StepPaces, DataGrows
<1>5. writes' = [writes EXCEPT ![r] = @ + 1] /\ writes \in [AppReg -> Nat]
  BY <1>1 DEF Tick, TypeOK
<1>6. /\ Slack' \in Slacks /\ Slack \in Slacks
      /\ \A q \in AppReg, d \in Nat : Slack'[q][d] >= Slack[q][d] - (writes'[q] - writes[q])
  BY <1>4, SlackGrows, SlackOf DEF SlackIsRight
<1>7. L \in Slacks /\ \A q \in AppReg, d \in Nat : L[q][d] >= Slack[q][d]
  <2>1. ASSUME NEW q \in AppReg, NEW d \in Nat
        PROVE  L[q][d] \in Int /\ L[q][d] >= Slack[q][d]
    <3>1. Slack'[q][d] \in Int /\ Slack[q][d] \in Int
      BY <1>6 DEF Slacks
    <3>2. writes'[q] - writes[q] = IF q = r THEN 1 ELSE 0
      BY <1>5
    <3>3. Slack'[q][d] >= Slack[q][d] - (IF q = r THEN 1 ELSE 0)
      BY <1>6, <3>2
    <3>4. L[q][d] = Slack'[q][d] + (IF q = r THEN 1 ELSE 0)
      OBVIOUS
    <3> HIDE DEF L
    <3> QED BY <3>1, <3>3, <3>4
  <2>2. L = [q \in AppReg |-> [d \in Nat |-> L[q][d]]]
    OBVIOUS
  <2> HIDE DEF L
  <2> QED BY <2>1, <2>2 DEF Slacks
<1>8. L[r][own] >= WindowsPerHop /\ own \in Nat
  <2>1. node[n].registers[r].data = writes[r] /\ writes[r] \in Nat /\ r \in Reg
    BY <1>2, DataIsNat DEF Safe, OwnerIsNewest
  <2>2. own = writes'[r] /\ own \in Nat
    BY <1>5, <2>1
  <2> SUFFICES ASSUME NEW d \in Nat, d = own
               PROVE  L[r][d] >= WindowsPerHop
    BY <2>2
  <2>3. node'[n].registers = s.registers
    BY <1>1, <1>3, TickSends
  <2>4. node'[n].registers[r].data = d
    BY <1>3, <2>1, <2>3, DataIsNat
  <2>5. writes'[r] = d
    BY <2>2
  <2> HIDE DEF own
  <2>6. n \in Holders(r, d)'
    BY <2>4 DEF Holders
  <2>7. IsFiniteSet(Holders(r, d)') /\ Cardinality(Holders(r, d)') \in Nat
    BY <1>4, HoldersGrow
  <2>8. Cardinality(Holders(r, d)') >= 1
    <3>1. {n} \subseteq Holders(r, d)'
      BY <2>6
    <3>2. Cardinality({n}) = 1
      BY FS_Singleton
    <3>3. Cardinality({n}) <= Cardinality(Holders(r, d)')
      BY <2>7, <3>1, FS_Subset
    <3> QED BY <2>7, <3>2, <3>3
  <2>9. SlackIsRight'
    BY <1>4, SlackOfNext
  <2>10. /\ Slack'[r][d] = Cardinality(Holders(r, d)') * WindowsPerHop - (writes'[r] - d)
         /\ WindowsPerHop \in Nat
    BY <2>9 DEF SlackIsRight, WindowsPerHop
  <2> DEFINE c == Cardinality(Holders(r, d)')
  <2>11. 1 * WindowsPerHop <= c * WindowsPerHop /\ c * WindowsPerHop \in Nat
    <3>1. c \in Nat /\ 1 <= c
      BY <2>7, <2>8
    <3> HIDE DEF c
    <3> QED BY <2>10, <3>1, MoreHoldersMoreWindows
  <2>12. L[r][d] = Slack'[r][d] + 1
    OBVIOUS
  <2> HIDE DEF L
  <2>13. Slack'[r][d] = c * WindowsPerHop - (d - d)
    BY <2>5, <2>10
  <2> HIDE DEF c
  <2> QED BY <2>10, <2>11, <2>12, <2>13
<1> DEFINE base(k) == IF k = n THEN s ELSE node[k]
<1>9. \A k \in Node : NodeTypeOK(base(k)) /\ Paced(base(k)) /\ n \notin base(k).ticked
                      /\ InTime(base(k), L)
  <2>1. \A k \in Node : InTime(node[k], L) /\ NodeTypeOK(node[k]) /\ Paced(node[k])
    <3> TAKE k \in Node
    <3>1. NodeTypeOK(node[k]) /\ Paced(node[k]) /\ InTime(node[k], Slack)
      BY DEF TypeOK, NoStall, AllInTime
    <3> HIDE DEF L
    <3> QED BY <1>6, <1>7, <3>1, SameIsInTime
  <2>2. InTime(s, L) /\ s.ticked \subseteq node[n].ticked
    <3> HIDE DEF L
    <3> QED BY <1>7, <1>8, <2>1, WriteOwnIsInTime
  <2> HIDE DEF s, L
  <2> QED BY <1>1, <1>3, <2>1, <2>2
<1>10. \A k \in Node : node'[k] = IF base(k).mesh_timer = "off" THEN base(k)
                                  ELSE [base(k) EXCEPT !.ticked = @ \union {n}]
  BY <1>1 DEF Tick
<1>11. \A q \in AppReg, d \in Nat : Slack'[q][d] >= L[q][d] - (IF q = r THEN 1 ELSE 0)
  <2> TAKE q \in AppReg, d \in Nat
  <2>1. L[q][d] = Slack'[q][d] + (IF q = r THEN 1 ELSE 0) /\ Slack'[q][d] \in Int
    BY <1>6 DEF Slacks
  <2> HIDE DEF L
  <2> QED BY <2>1
<1> HIDE DEF base, L, s
<1>12. \A k \in Node : InTime(node'[k], Slack')
  <2> TAKE k \in Node
  <2> DEFINE u == base(k)
             t == node'[k]
  <2>1. /\ NodeTypeOK(u) /\ Paced(u) /\ InTime(u, L) /\ Owner[r] \notin u.ticked
        /\ t = IF u.mesh_timer = "off" THEN u ELSE [u EXCEPT !.ticked = @ \union {Owner[r]}]
    BY <1>2, <1>9, <1>10
  <2> HIDE DEF u, t
  <2>2. InTime(t, Slack')
    BY <1>6, <1>7, <1>11, <2>1, TickIsInTime
  <2> QED BY <2>2 DEF t
<1>13. \A k \in Node : InTime(node'[k], Slack') => InTime(node[k], Slack)'
  BY DEF InTime, CanWait, Margin, AirInTime, Fresh, Ahead, InFront, Owner
<1> QED BY <1>12, <1>13 DEF AllInTime
-----------------------------------------------------------------------------
LEMMA NodesSuffice ==
  ASSUME \A k \in Node : InTime(node'[k], Slack')
  PROVE  AllInTime'
<1>1. \A k \in Node : InTime(node'[k], Slack') => InTime(node[k], Slack)'
  BY DEF InTime, CanWait, Margin, AirInTime, Fresh, Ahead, InFront, Owner
<1> QED BY <1>1 DEF AllInTime

\* A step that is no tick takes a window from no copy.
LEMMA OnlyTicksCost ==
  ASSUME IsFiniteSet(Node), TypeOK, NoStall, Safe, AirIsRecent, UnwrittenIsBlank,
         [Next]_vars, UNCHANGED writes
  PROVE  /\ Slack \in Slacks /\ Slack' \in Slacks
         /\ \A r \in AppReg, d \in Nat : Slack'[r][d] >= Slack[r][d]
<1>1. TypeOK' /\ \A k \in Node, q \in AppReg :
                   node'[k].registers[q].data >= node[k].registers[q].data
  BY StepPaces, DataGrows
<1>2. /\ Slack' \in Slacks /\ Slack \in Slacks
      /\ \A r \in AppReg, d \in Nat : Slack'[r][d] >= Slack[r][d] - (writes'[r] - writes[r])
  BY <1>1, SlackGrows, SlackOf DEF SlackIsRight
<1> SUFFICES ASSUME NEW r \in AppReg, NEW d \in Nat
             PROVE  Slack'[r][d] >= Slack[r][d]
  BY <1>2
<1>3. writes'[r] - writes[r] = 0
  BY DEF TypeOK
<1>4. Slack'[r][d] \in Int /\ Slack[r][d] \in Int
  BY <1>2 DEF Slacks
<1> HIDE DEF Slack
<1> QED BY <1>2, <1>3, <1>4

\* One node changes, and is in time by the windows there were.
LEMMA OneNodeInTime ==
  ASSUME IsFiniteSet(Node), TypeOK, NoStall, Safe, AirIsRecent, UnwrittenIsBlank, AllInTime, Next,
         NEW n \in Node, NEW s, NodeTypeOK(s), InTime(s, Slack),
         node' = [node EXCEPT ![n] = s], UNCHANGED <<rev, count, writes>>
  PROVE  AllInTime'
<1>1. /\ Slack \in Slacks /\ Slack' \in Slacks
      /\ \A r \in AppReg, d \in Nat : Slack'[r][d] >= Slack[r][d]
  BY OnlyTicksCost
<1>2. \A k \in Node : NodeTypeOK(node'[k]) /\ InTime(node'[k], Slack)
  BY DEF TypeOK, AllInTime
<1>3. \A k \in Node : InTime(node'[k], Slack')
  <2> TAKE k \in Node
  <2> DEFINE t == node'[k]
  <2>1. NodeTypeOK(t) /\ InTime(t, Slack)
    BY <1>2
  <2> HIDE DEF t
  <2>2. InTime(t, Slack')
    BY <1>1, <2>1, SameIsInTime
  <2> QED BY <2>2 DEF t
<1> QED BY <1>3, NodesSuffice

\* When its timer expires a node has spent no tick that it had not allowed for.
LEMMA TimerExpiresInTime ==
  ASSUME IsFiniteSet(Node), TypeOK, NoStall, Safe, AirIsRecent, UnwrittenIsBlank, AllInTime,
         NEW n \in Node, TimerExpires(n)
  PROVE  AllInTime'
<1> DEFINE s == [node[n] EXCEPT !.mesh_timer = "off", !.ticked = {}]
           t == broadcast_next_message(s)
<1>1. NodeTypeOK(node[n]) /\ InTime(node[n], Slack) /\ Slack \in Slacks
  BY SlackOf DEF TypeOK, AllInTime, SlackIsRight
<1>2. /\ NodeTypeOK(s) /\ s.registers = node[n].registers
      /\ s.send_queue = node[n].send_queue /\ s.request_queue = node[n].request_queue
  BY <1>1, StopsKeepType DEF NodeTypeOK, NodeState
<1>3. CanWait(node[n], Slack, NoMargin)
  BY <1>1, MarginCanBeSpent DEF InTime
<1>4. node' = [node EXCEPT ![n] = t] /\ UNCHANGED <<rev, count, writes>> /\ Next
  BY DEF TimerExpires, mesh_timer_timeout_handler, Next
<1> HIDE DEF s
<1>5. CanWait(s, Slack, NoMargin) /\ s.request_queue.data = {}
  BY <1>1, <1>2, <1>3 DEF CanWait, InTime
<1>6. NodeTypeOK(t) /\ InTime(t, Slack)
  BY <1>1, <1>2, <1>5, BroadcastPaces, BroadcastIsInTime
<1> HIDE DEF t
<1> QED BY <1>4, <1>6, OneNodeInTime

LEMMA AdvertisingTimeoutInTime ==
  ASSUME IsFiniteSet(Node), TypeOK, NoStall, Safe, AirIsRecent, UnwrittenIsBlank, AllInTime,
         NEW n \in Node, AdvertisingTimeout(n)
  PROVE  AllInTime'
<1> DEFINE t == advertising_stop(node[n])
<1>1. NodeTypeOK(node[n]) /\ Paced(node[n]) /\ InTime(node[n], Slack) /\ Slack \in Slacks
  BY SlackOf DEF TypeOK, NoStall, AllInTime, SlackIsRight
<1>2. NodeTypeOK(t)
  BY <1>1, StopsKeepType
<1>3. /\ t.registers = node[n].registers /\ t.send_queue = node[n].send_queue
      /\ t.request_queue = node[n].request_queue /\ t.adv \subseteq node[n].adv
      /\ t.mesh_timer = node[n].mesh_timer /\ node[n].ticked \subseteq t.ticked
  BY <1>1 DEF advertising_stop, NodeTypeOK, NodeState
<1>4. node' = [node EXCEPT ![n] = t] /\ UNCHANGED <<rev, count, writes>> /\ Next
  BY DEF AdvertisingTimeout, Next
<1>5. \A r \in AppReg, d \in Nat : Slack[r][d] >= Slack[r][d]
  BY <1>1 DEF Slacks
<1> HIDE DEF t
<1>6. InTime(t, Slack)
  BY <1>1, <1>3, <1>5, SameIsInTime
<1> QED BY <1>2, <1>4, <1>6, OneNodeInTime

\* A copy that a node learns has one holder more, which is a hop of windows.
LEMMA LearningGivesWindows ==
  ASSUME IsFiniteSet(Node), TypeOK, NoStall, Safe, AirIsRecent, UnwrittenIsBlank, AllInTime, Next,
         NEW k \in Node, NEW m \in node[k].adv, NEW n \in Node, Learns(n, m),
         m.reg # 0
  PROVE  m.reg \in AppReg /\ m.data > 0 /\ Slack'[m.reg][m.data] >= WindowsPerHop
<1> DEFINE r == m.reg
<1>1. /\ r \in AppReg /\ m.data > 0 /\ Slack[r][m.data] >= Fresh(node[k], r)
      /\ m.data \in Nat
  BY DataIsNat DEF AllInTime, InTime, AirInTime, Message
<1>2. TypeOK' /\ \A j \in Node, q \in AppReg :
                   node'[j].registers[q].data >= node[j].registers[q].data
  BY StepPaces, DataGrows
<1>3. SlackIsRight /\ SlackIsRight' /\ writes'[r] = writes[r]
  BY <1>2, SlackOf, SlackOfNext DEF Learns
<1>4. PICK d \in Nat : d = m.data
  BY <1>1
<1>5. n \notin Holders(r, d)
  <2>1. CASE node[n].registers[r].written
    <3>1. m.data > node[n].registers[r].data
      BY <1>1, <2>1, LearningIsLater
    <3> QED BY <1>1, <1>4, <3>1, DataIsNat DEF Holders
  <2>2. CASE ~ node[n].registers[r].written
    <3>1. node[n].registers[r].data = 0
      BY <1>1, <2>2 DEF UnwrittenIsBlank
    <3> QED BY <1>1, <1>4, <3>1 DEF Holders
  <2> QED BY <2>1, <2>2
<1>6. node'[n].registers[r].data = d
  BY <1>1, <1>4, DataIsNat DEF Learns, Takes
<1>7. /\ Holders(r, d) \subseteq Holders(r, d)'
      /\ IsFiniteSet(Holders(r, d)') /\ Cardinality(Holders(r, d)') \in Nat
  BY <1>1, <1>2, HoldersGrow
<1>8. n \in Holders(r, d)'
  BY <1>4, <1>6 DEF Holders
<1>9. Cardinality(Holders(r, d)) + 1 <= Cardinality(Holders(r, d)')
  <2>1. Holders(r, d) \union {n} \subseteq Holders(r, d)'
    BY <1>7, <1>8
  <2>2. IsFiniteSet(Holders(r, d))
    BY <1>1, HoldersAreFinite
  <2>3. Cardinality(Holders(r, d) \union {n}) = Cardinality(Holders(r, d)) + 1
    BY <1>5, <2>2, FS_AddElement
  <2> QED BY <1>7, <2>1, <2>3, FS_Subset
<1>10. /\ Slack[r][d] = Cardinality(Holders(r, d)) * WindowsPerHop - (writes[r] - d)
       /\ Slack'[r][d] = Cardinality(Holders(r, d)') * WindowsPerHop - (writes[r] - d)
       /\ WindowsPerHop \in Nat /\ writes[r] \in Nat
  BY <1>1, <1>3 DEF SlackIsRight, WindowsPerHop
<1>11. Slack[r][d] >= 0
  <2>1. Fresh(node[k], r) \in {0, 1} /\ Slack[r][d] \in Int
    BY <1>1, <1>3 DEF Fresh, SlackIsRight, Slacks
  <2> QED BY <1>1, <1>4, <2>1
<1> DEFINE c0 == Cardinality(Holders(r, d))
           c1 == Cardinality(Holders(r, d)')
<1>12. c0 \in Nat /\ c1 \in Nat /\ c0 + 1 <= c1
  BY <1>1, <1>7, <1>9, HoldersAreFinite
<1>13. Slack'[r][d] >= WindowsPerHop
  <2> HIDE DEF c0, c1, r
  <2> DEFINE x == c0 * WindowsPerHop
             y == c1 * WindowsPerHop
  <2>1. x \in Nat /\ y \in Nat /\ (c0 + 1) * WindowsPerHop = x + WindowsPerHop
        /\ (c0 + 1) * WindowsPerHop <= y
    BY <1>10, <1>12, MoreHoldersMoreWindows
  <2>2. Slack[r][d] = x - (writes[r] - d) /\ Slack'[r][d] = y - (writes[r] - d)
    BY <1>10 DEF c0, c1
  <2> HIDE DEF x, y
  <2> QED BY <1>10, <1>11, <2>1, <2>2
<1> QED BY <1>1, <1>4, <1>13

\* A node that hears: what it learns has a hop of windows; the sender stays as it is.
LEMMA HearIsInTime ==
  ASSUME IsFiniteSet(Node), TypeOK, NoStall, Safe, AirIsRecent, UnwrittenIsBlank, AllInTime,
         NEW k \in Node, NEW n \in Node, Hear(k, n)
  PROVE  AllInTime'
<1>0. /\ \A j \in Node : NodeTypeOK(node[j]) /\ Paced(node[j]) /\ InTime(node[j], Slack)
      /\ Next /\ k # n /\ UNCHANGED <<rev, count, writes>>
  BY MeshAssumption DEF Hear, Next, TypeOK, NoStall, AllInTime
<1>1. PICK m \in node[k].adv :
        node' = [node EXCEPT ![n] = ble_evt_adv_report(@, m),
                             ![k].heard = @ \union ({n} \intersect ReliableListeners(k))]
  BY DEF Hear
<1> DEFINE s == node[n]
           t == ble_evt_adv_report(s, m)
           u == [node[k] EXCEPT !.heard = @ \union ({n} \intersect ReliableListeners(k))]
<1>2. m \in Message /\ ~ m.req
  BY <1>0 DEF NodeTypeOK, NodeState, InTime, AirInTime
<1>3. /\ Slack \in Slacks /\ Slack' \in Slacks
      /\ \A r \in AppReg, d \in Nat : Slack'[r][d] >= Slack[r][d]
  BY <1>0, OnlyTicksCost
<1>4. /\ u.registers = node[k].registers /\ u.send_queue = node[k].send_queue
      /\ u.request_queue = node[k].request_queue /\ u.adv = node[k].adv
      /\ u.mesh_timer = node[k].mesh_timer /\ u.ticked = node[k].ticked
  BY <1>0 DEF NodeTypeOK, NodeState
<1>5. node' = [node EXCEPT ![n] = t, ![k] = u]
  BY <1>0, <1>1 DEF TypeOK
<1>6. NodeTypeOK(s) /\ Paced(s) /\ InTime(s, Slack)
  BY <1>0
<1> HIDE DEF t, u
<1>7. \A j \in Node : node'[j] = IF j = k THEN u ELSE IF j = n THEN t ELSE node[j]
  BY <1>0, <1>5 DEF TypeOK
<1>8. ASSUME Accepts(s, m), m.reg # 0
      PROVE  m.reg \in AppReg /\ m.data > 0 /\ Slack'[m.reg][m.data] >= WindowsPerHop
  <2>1. Takes(s, m, t)
    <3> HIDE DEF s
    <3> QED BY <1>2, <1>6, <1>8, ReportSends DEF t
  <2>2. node'[n] = t /\ \A j \in Node \ {n} : node'[j].registers = node[j].registers
    BY <1>0, <1>4, <1>7
  <2>3. Learns(n, m)
    BY <1>0, <2>1, <2>2 DEF Learns
  <2> QED BY <1>0, <1>8, <2>3, LearningGivesWindows
<1> HIDE DEF s
<1>9. InTime(t, Slack')
  BY <1>2, <1>3, <1>6, <1>8, ReportIsInTime DEF t
<1>10. InTime(u, Slack')
  <2> DEFINE o == node[k]
  <2>1. NodeTypeOK(o) /\ InTime(o, Slack)
    BY <1>0
  <2>2. /\ u.registers = o.registers /\ u.send_queue = o.send_queue
        /\ u.request_queue = o.request_queue /\ u.adv \subseteq o.adv
        /\ u.mesh_timer = o.mesh_timer /\ o.ticked \subseteq u.ticked
    BY <1>4
  <2> HIDE DEF o
  <2> QED BY <1>3, <2>1, <2>2, SameIsInTime
<1>11. ASSUME NEW j \in Node, j # k, j # n
       PROVE  InTime(node[j], Slack')
  <2> DEFINE o == node[j]
  <2>1. NodeTypeOK(o) /\ InTime(o, Slack)
    BY <1>0
  <2> HIDE DEF o
  <2>2. InTime(o, Slack')
    BY <1>3, <2>1, SameIsInTime
  <2> QED BY <2>2 DEF o
<1>12. \A j \in Node : InTime(node'[j], Slack')
  BY <1>7, <1>9, <1>10, <1>11
<1> QED BY <1>12, NodesSuffice

\* The inductive step: being in time makes up for the assumption that it implies.
LEMMA StepIsInTime ==
  ASSUME NobodyAsks, IsFiniteSet(Node), TypeOK, NoStall, Safe, AirIsRecent, UnwrittenIsBlank,
         AllInTime, [Next]_vars
  PROVE  AllInTime'
<1>1. ASSUME NEW n \in Node, NEW r \in AppReg, NEW asked \in Reg, RequestTick(n, r, asked)
      PROVE  AllInTime'
  BY <1>1 DEF RequestTick, NobodyAsks
<1>2. CASE UNCHANGED vars
  <2>1. Slack' = Slack /\ \A k \in Node : node'[k] = node[k]
    BY <1>2 DEF vars, Slack, Holders
  <2>2. \A k \in Node : InTime(node'[k], Slack')
    BY <2>1 DEF AllInTime
  <2> QED BY <2>2, NodesSuffice
<1>3. ASSUME NEW n \in Node, NEW r \in AppReg, AppTick(n, r)
      PROVE  AllInTime'
  BY <1>3, AppTickIsInTime
<1>4. ASSUME NEW n \in Node, TimerExpires(n)
      PROVE  AllInTime'
  BY <1>4, TimerExpiresInTime
<1>5. ASSUME NEW n \in Node, AdvertisingTimeout(n)
      PROVE  AllInTime'
  BY <1>5, AdvertisingTimeoutInTime
<1>6. ASSUME NEW k \in Node, NEW n \in Node, Hear(k, n)
      PROVE  AllInTime'
  BY <1>6, HearIsInTime
<1> QED BY <1>1, <1>2, <1>3, <1>4, <1>5, <1>6 DEF Next

\* What mesh_init leaves.
LEMMA InitialQueues ==
  LET t == mesh_init(ResetNode(FALSE))
  IN  /\ t.send_queue.data = {} /\ t.request_queue.data = {}
      /\ t.mesh_timer = "boot" /\ t.registers = [r \in Reg |-> BlankRegister]
      /\ \A m \in t.adv : ~ m.req /\ m.reg = 0 /\ m.data = 0
<1> DEFINE s0 == ResetNode(FALSE)
           s1 == mesh_timer_start(s0, "boot")
           m == mesh_copy_message(s0, 0)
<1>1. s1 = [s0 EXCEPT !.mesh_timer = "boot", !.ticked = {}]
  BY DEF mesh_timer_start, ResetNode
<1>2. /\ s1.send_queue.data = {} /\ s1.request_queue.data = {} /\ s1.mesh_timer = "boot"
      /\ s1.registers = [r \in Reg |-> BlankRegister]
      /\ {"registers", "send_queue", "request_queue", "mesh_timer", "adv", "heard"} \subseteq DOMAIN s1
  <2>1. /\ s0.send_queue = EmptyQueue /\ s0.request_queue = EmptyQueue
        /\ s0.registers = [r \in Reg |-> BlankRegister]
        /\ {"registers", "send_queue", "request_queue", "mesh_timer", "ticked", "adv", "heard"}
             \subseteq DOMAIN s0
    BY DEF ResetNode
  <2>2. EmptyQueue.data = {}
    BY DEF EmptyQueue
  <2> HIDE DEF s0
  <2>3. /\ s1.send_queue = s0.send_queue /\ s1.request_queue = s0.request_queue
        /\ s1.registers = s0.registers /\ s1.mesh_timer = "boot" /\ DOMAIN s1 = DOMAIN s0
    BY <1>1, <2>1
  <2> HIDE DEF s1
  <2> QED BY <2>1, <2>2, <2>3
<1>3. ~ m.req /\ m.reg = 0 /\ m.data = 0
  BY NodeAssumption DEF mesh_copy_message, CopyOf, BlankRegister, ResetNode
<1>4. mesh_init(ResetNode(FALSE)) = advertise(s1, m)
  BY DEF mesh_init
<1> HIDE DEF s0, s1, m
<1>5. /\ advertise(s1, m).registers = s1.registers /\ advertise(s1, m).adv = {m}
      /\ advertise(s1, m).send_queue = s1.send_queue
      /\ advertise(s1, m).request_queue = s1.request_queue
      /\ advertise(s1, m).mesh_timer = s1.mesh_timer
  BY <1>2 DEF advertise
<1> QED BY <1>2, <1>3, <1>4, <1>5

LEMMA InitialIsInTime ==
  ASSUME NobodyAsks, IsFiniteSet(Node), Init
  PROVE  AllInTime /\ UnwrittenIsBlank
<1>1. \A n \in Node : node[n] = mesh_init(ResetNode(FALSE))
  BY DEF Init, Booted, NobodyAsks
<1>2. UnwrittenIsBlank
  <2>1. BlankRegister.data = 0
    BY DEF BlankRegister
  <2>2. \A n \in Node : node[n].registers = [r \in Reg |-> BlankRegister]
    BY <1>1, InitialQueues
  <2> QED BY <2>1, <2>2, MeshAssumption DEF UnwrittenIsBlank
<1>3. TypeOK
  BY InitialPaces
<1> SUFFICES ASSUME NEW n \in Node
             PROVE  InTime(node[n], Slack)
  BY <1>2 DEF AllInTime
<1>4. ASSUME NEW r \in AppReg, r = 0
      PROVE  Slack[r][0] >= Fresh(node[n], r)
  <2>1. Holders(r, 0) = Node
    BY <1>3, DataIsNat DEF Holders
  <2>2. SlackIsRight /\ writes[r] = 0
    BY <1>3, SlackOf DEF Init
  <2>3. Slack[r][0] = Cardinality(Node) * WindowsPerHop - (0 - 0) /\ WindowsPerHop \in Nat
        /\ WindowsPerHop >= 1
    BY <2>1, <2>2 DEF SlackIsRight
  <2>4. Cardinality(Node) \in Nat /\ 1 <= Cardinality(Node)
    <3>1. {n} \subseteq Node /\ Cardinality({n}) = 1
      BY FS_Singleton
    <3> QED BY <3>1, FS_Subset, FS_CardinalityType
  <2>5. 1 * WindowsPerHop <= Cardinality(Node) * WindowsPerHop
        /\ Cardinality(Node) * WindowsPerHop \in Nat
    BY <2>3, <2>4, MoreHoldersMoreWindows
  <2>6. Fresh(node[n], r) \in {0, 1}
    BY DEF Fresh
  <2> DEFINE x == Cardinality(Node) * WindowsPerHop
  <2>7. 1 <= x /\ Slack[r][0] = x
    <3>1. 1 * WindowsPerHop = WindowsPerHop
      BY <2>3
    <3> HIDE DEF WindowsPerHop
    <3> QED BY <2>3, <2>5, <3>1
  <2> HIDE DEF x
  <2> QED BY <2>5, <2>6, <2>7 DEF x
<1> QED BY <1>1, <1>4, InitialQueues DEF InTime, CanWait, AirInTime
-----------------------------------------------------------------------------
\* In a network with fewer hops of windows than half the revisions, and where nobody
\* asks, a copy on air is recent: what the earlier theorems assume, proved.
THEOREM AirStaysRecent ==
  NobodyAsks /\ IsFiniteSet(Node) /\ Cardinality(Node) * WindowsPerHop < HALF_REVISION
    => (Spec => []AirIsRecent)
<1> SUFFICES ASSUME NobodyAsks, IsFiniteSet(Node),
                    Cardinality(Node) * WindowsPerHop < HALF_REVISION
             PROVE  Spec => []AirIsRecent
  OBVIOUS
<1> DEFINE IInv == TypeOK /\ NoStall /\ Safe /\ UnwrittenIsBlank /\ AllInTime
<1>0. OwnersDoNotAsk
  BY OwnerIsNode DEF NobodyAsks, OwnersDoNotAsk
<1>1. Init => IInv
  BY InitialPaces, InitialIsSafe, InitialIsInTime
<1>2. IInv => AirIsRecent
  BY InTimeIsRecent
<1>3. IInv /\ [Next]_vars => IInv'
  BY <1>0, <1>2, StepPaces, StepIsSafe, UnwrittenStaysBlank, StepIsInTime
<1> QED BY <1>1, <1>2, <1>3, PTL DEF Spec

\* So in such a network nothing is assumed of the air: revision and data stay together,
\* the owner's register is its last write, no copy goes back, and the network refines
\* Replicas.
THEOREM SmallMeshIsSafe ==
  NobodyAsks /\ IsFiniteSet(Node) /\ Cardinality(Node) * WindowsPerHop < HALF_REVISION
    => (Spec => []NeverMixed /\ []OwnerIsNewest /\ NeverOlder /\ ImplementsReplicas)
<1> SUFFICES ASSUME NobodyAsks, IsFiniteSet(Node),
                    Cardinality(Node) * WindowsPerHop < HALF_REVISION
             PROVE  Spec => []NeverMixed /\ []OwnerIsNewest /\ NeverOlder /\ ImplementsReplicas
  OBVIOUS
<1>1. OwnersDoNotAsk
  BY OwnerIsNode DEF NobodyAsks, OwnersDoNotAsk
<1>2. Spec => []AirIsRecent
  BY AirStaysRecent
<1>3. Spec /\ []AirIsRecent => []NeverMixed
  BY <1>1, RevisionFollowsData
<1>4. Spec /\ []AirIsRecent => []OwnerIsNewest
  BY <1>1, OwnerStaysNewest
<1>5. Spec /\ []AirIsRecent => NeverOlder
  BY <1>1, CopiesNeverGoBack
<1>6. Spec /\ []AirIsRecent => ImplementsReplicas
  BY <1>1, MeshRefinesReplicas
<1> QED BY <1>2, <1>3, <1>4, <1>5, <1>6
=============================================================================
