-------------------------------- MODULE Mesh --------------------------------
(***************************************************************************)
(* Nodes of simple_mesh that run the applications proj_beef, proj_cafe,    *)
(* proj_feed (write one's own register at every tick) and                  *)
(* proj_beef_request (write, then ask the neighbours for a register).      *)
(*                                                                         *)
(* A node hears the advertisement that a neighbour repeats: any number of  *)
(* times while it is on air, or never.  Nothing is acknowledged.  At the   *)
(* start all the nodes have booted and the application timer of none has   *)
(* fired.                                                                  *)
(***************************************************************************)
EXTENDS MeshNode, Sequences

CONSTANTS
  Link,          \* <<m, n>>: n is in radio range of m
  Reliable,      \* the links on which a window that is not cut short is heard
  AppReg,        \* the registers the applications write
  Rota,          \* the registers that a node's ticks write, in turn
  Requested,     \* the registers a node asks for
  MaxWrites,     \* bound: how often each register is written
  BootTogether   \* the nodes boot within 1170 ms: the first tick comes after
                 \* the mesh timer of every mesh_init

ASSUME MeshAssumption ==
  /\ Link \subseteq Node \X Node
  /\ \A n \in Node : <<n, n>> \notin Link
  /\ Reliable \subseteq Link
  /\ AppReg \subseteq Reg
  /\ Rota \in [Node -> Seq(AppReg)]
  /\ \A r \in AppReg : \E n \in Node : \A m \in Node :
       m = n <=> \E i \in DOMAIN Rota[m] : Rota[m][i] = r
  /\ Requested \in [Node -> SUBSET Reg]
  /\ MaxWrites \in [AppReg -> Nat]
  /\ BootTogether \in BOOLEAN

VARIABLES
  node,     \* the state of each node's mesh_protocol.h
  rev,      \* static uint8_t rev[12] of each owner's timer0_timeout_handler
  count,    \* static uint8_t count, modulo the length of the rota
  writes    \* auxiliary: how often each register was written by its owner

vars == <<node, rev, count, writes>>

Owner == [r \in AppReg |-> CHOOSE n \in Node : \E i \in DOMAIN Rota[n] : Rota[n][i] = r]

ReliableListeners(m) == {n \in Node : <<m, n>> \in Reliable}

\* main of proj_beef, proj_cafe and proj_feed calls mesh_init and set_leds.
\* main of proj_beef_request calls mesh_init and mesh_request_reg, here before
\* any handler runs (MeshMain has them run in between); it does not set the
\* LEDs, which light while their pins are low.
Booted(n) ==
  IF Requested[n] = {}
  THEN {mesh_init(ResetNode(FALSE))}
  ELSE {mesh_request_reg(mesh_init(ResetNode(TRUE)), asked) : asked \in Requested[n]}

Init ==
  /\ node \in {boot \in [Node -> UNION {Booted(n) : n \in Node}] :
                 \A n \in Node : boot[n] \in Booted(n)}
  /\ rev = [r \in AppReg |-> 0]
  /\ count = [n \in Node |-> 0]
  /\ writes = [r \in AppReg |-> 0]
-----------------------------------------------------------------------------
\* An owner ticks every 2240 ms (proj_beef_request: 5000 ms) and a mesh timer
\* runs for 1070 ms, so no owner ticks twice while one mesh timer runs, nor
\* before the timer that its own mesh_init started has expired.
MayTick(n, r) ==
  /\ count[n] < Len(Rota[n]) /\ r = Rota[n][count[n] + 1]
  /\ writes[r] < MaxWrites[r]
  /\ node[n].mesh_timer # "boot"
  /\ \A m \in Node : /\ n \notin node[m].ticked
                     /\ BootTogether => node[m].mesh_timer # "boot"

\* mesh_read_reg, byte 23 + 1, mesh_write_reg with ++rev, set_leds.
WriteOwn(s, r) ==
  set_leds(mesh_write_reg(s, r, s.registers[r].data + 1, NextRevision(rev[r])))

\* What a tick does beside the handler's work on node n.  (1 + 3 * count) % 12
\* and the wrap of count at 256 agree on a rota of four registers.
Tick(n, r, s) ==
  /\ node' = [m \in Node |->
                LET t == IF m = n THEN s ELSE node[m]
                IN  IF t.mesh_timer = "off" THEN t
                    ELSE [t EXCEPT !.ticked = @ \union {n}]]
  /\ rev' = [rev EXCEPT ![r] = NextRevision(@)]
  /\ count' = [count EXCEPT ![n] = (@ + 1) % Len(Rota[n])]
  /\ writes' = [writes EXCEPT ![r] = @ + 1]

\* timer0_timeout_handler of proj_beef, proj_cafe and proj_feed.
AppTick(n, r) ==
  /\ MayTick(n, r)
  /\ Requested[n] = {}
  /\ Tick(n, r, WriteOwn(node[n], r))

\* timer0_timeout_handler of proj_beef_request.
RequestTick(n, r, asked) ==
  /\ MayTick(n, r)
  /\ asked \in Requested[n]
  /\ Tick(n, r, mesh_request_reg(WriteOwn(node[n], r), asked))

\* The single-shot mesh timer of n expires.  The advertising timeout (1040 ms)
\* of a message started together with the timer (1070 ms) comes first.
TimerExpires(n) ==
  /\ node[n].mesh_timer # "off"
  /\ node[n].mesh_timer = "window" => node[n].adv = {}
  /\ node' = [node EXCEPT ![n] = mesh_timer_timeout_handler(@)]
  /\ UNCHANGED <<rev, count, writes>>

\* BLE_ADV_TIMEOUT: the radio stops by itself.  On a reliable link the ten
\* or so repetitions of a full window have been heard by then.
AdvertisingTimeout(n) ==
  /\ node[n].adv # {}
  /\ ReliableListeners(n) \subseteq node[n].heard
  /\ node' = [node EXCEPT ![n] = advertising_stop(@)]
  /\ UNCHANGED <<rev, count, writes>>

\* n receives a repetition of what m has on air.
Hear(m, n) ==
  /\ <<m, n>> \in Link
  /\ \E message \in node[m].adv :
       node' = [node EXCEPT ![n] = ble_evt_adv_report(@, message),
                            ![m].heard = @ \union ({n} \intersect ReliableListeners(m))]
  /\ UNCHANGED <<rev, count, writes>>

Next ==
  \/ \E n \in Node, r \in AppReg : AppTick(n, r)
  \/ \E n \in Node, r \in AppReg, asked \in Reg : RequestTick(n, r, asked)
  \/ \E n \in Node : TimerExpires(n)
  \/ \E n \in Node : AdvertisingTimeout(n)
  \/ \E m, n \in Node : Hear(m, n)

Spec == Init /\ [][Next]_vars

\* Timers expire and the radio stops by itself: hardware does both.  A window
\* that is heard at all on a reliable link is heard before it ends.  Nothing
\* is assumed of the applications or of the other links.
Fairness ==
  /\ \A n \in Node : WF_vars(TimerExpires(n)) /\ WF_vars(AdvertisingTimeout(n))
  /\ \A l \in Reliable : WF_vars(Hear(l[1], l[2]) /\ l[2] \notin node[l[1]].heard)

FairSpec == Spec /\ Fairness
-----------------------------------------------------------------------------
\* Every variable holds a value of its type, and the queues name registers of
\* the instance only (mesh_data_t and the static variables beside it).
TypeOK ==
  /\ node \in [Node -> NodeState]
  /\ \A n \in Node : NodeTypeOK(node[n])
  /\ rev \in [AppReg -> Revisions]
  /\ count \in [Node -> Nat]
  /\ writes \in [AppReg -> Nat]

\* Every node is paced: what mesh_write_reg, mesh_request_reg and
\* ble_evt_adv_report push without calling broadcast_next_message
\* ("if (!m_broadcasting)") will be popped by a timer that is running.
NoStall == \A n \in Node : Paced(node[n])

\* What the network holds of register r: every copy and every message on air.
Held(r) ==
  {node[n].registers[r] : n \in Node}
    \union UNION {{m \in node[n].adv : m.reg = r} : n \in Node}

\* No copy and no message ever joins the data of one write and the revision
\* of another, whatever relays, requests and losses came between, and none is
\* ahead of the owner (the revision and the data are copied by separate
\* statements in mesh_write_reg and mesh_copy_message).
NeverMixed ==
  \A r \in AppReg : \A c \in Held(r) : c.rev = RevisionOf(c.data) /\ c.data <= writes[r]

\* The owner's own register always is its last write: what it hears back from
\* the mesh never replaces it, across the wrap of the revision as well.
OwnerIsNewest ==
  \A r \in AppReg : LET own == node[Owner[r]].registers[r]
                    IN  own.data = writes[r] /\ own.rev = rev[r]

\* A copy on air is less than half the window behind its owner: a relay passes on
\* what is news to it, once, and does not come back to it later.
AirIsRecent ==
  \A n \in Node : \A m \in node[n].adv :
    m.reg \in AppReg /\ ~ m.req => writes[m.reg] - m.data < HALF_REVISION

\* A register that was written (byte 25) is never replaced by an older write:
\* the check of ble_evt_adv_report is "if register is newer than before".
NeverOlder ==
  [][\A n \in Node, r \in AppReg :
       node[n].registers[r].written =>
         node'[n].registers[r].data >= node[n].registers[r].data]_vars

\* Seen through its registers only, the network is Replicas: every copy is
\* some write of the owner, and only replaced by a later one unless its node
\* has asked for the register.
Copies == INSTANCE Replicas WITH
  latest <- writes,
  held <- [n \in Node |-> [r \in AppReg |-> node[n].registers[r].data]],
  known <- [n \in Node |-> [r \in AppReg |-> node[n].registers[r].written]]

ImplementsReplicas == Copies!Spec

\* The air falls silent when the applications stop writing: a message is
\* passed on by those it is news to, and by them once per time it is heard.
FallsSilent ==
  <>[](\A n \in Node : node[n].adv = {} /\ ~ node[n].m_broadcasting)

\* A register in the send queue is on air in the end: it does not stay there,
\* and never leaves it but for the air.
QueuedIsSent ==
  /\ \A n \in Node, r \in AppReg : []<>(r \notin Queued(node[n].send_queue))
  /\ [][\A n \in Node : \A r \in Queued(node[n].send_queue) :
          \/ r \in Queued(node'[n].send_queue)
          \/ \E m \in node'[n].adv : m.reg = r /\ ~ m.req]_vars

\* The nodes that a path of reliable links leads to from m.
ReachedReliably(m) ==
  {n \in Node : \A S \in SUBSET Node :
     m \in S /\ (\A l \in Reliable : l[1] \in S => l[2] \in S) => n \in S}

\* Every node that reliable links lead to from the owner ends up with its last write.
\* An answer to a request may bring back an older one, and a node that passes the
\* write on may forget it so: then it takes another one that hears the owner.
Converges ==
  <>[](\A r \in AppReg, n \in Node :
          n \in ReachedReliably(Owner[r]) => node[n].registers[r].data = writes[r])

\* A request on a reliable link is answered: byte 25 is set again.
RequestIsAnswered ==
  \A n \in Node : \A r \in Requested[n] :
    (r \in Queued(node[n].request_queue)) ~> node[n].registers[r].written
=============================================================================
