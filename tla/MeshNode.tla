------------------------------ MODULE MeshNode ------------------------------
(***************************************************************************)
(* One node of simple_mesh/mesh_protocol.h (FORMAT2): its registers, its   *)
(* two queues, the advertisement its radio repeats and the mesh timer that *)
(* paces the messages.  Each function of the header is an operator from    *)
(* the node's state to its next state, so that the handlers of the         *)
(* applications, which call several of them, are compositions.             *)
(*                                                                         *)
(* A node's handlers run to completion: the app_timer handlers and the BLE *)
(* events have the same interrupt priority.                                *)
(***************************************************************************)
EXTENDS BitQueue, Revision

CONSTANTS
  Node,       \* the nodes of the network
  Reg,        \* the registers of the instance (256 in the code)
  LedReg      \* the registers shown on LEDs (1, 2 and 3 in the applications)

ASSUME NodeAssumption ==
  /\ Reg \subseteq RegisterNumbers
  /\ 0 \in Reg
  /\ LedReg \subseteq Reg

\* Bytes 0-23 (only byte 23 is ever used, counted here without its wrap at 256:
\* the code reads nothing of it but the parity), byte 24 and byte 25.
Register == [data : Nat, rev : Revisions, written : BOOLEAN]

\* Bytes 3, 4, 5 and 7-30 of an advertisement with the mesh key.
Message == [req : BOOLEAN, reg : Reg, rev : Revisions, data : Nat]

\* The mesh timer: not running, started by mesh_init, or started with the
\* message on air by broadcast_next_message.
MeshTimer == {"off", "boot", "window"}

NodeState ==
  [registers : [Reg -> Register],
   send_queue : Queue,
   request_queue : Queue,
   m_broadcasting : BOOLEAN,
   adv : SUBSET Message,    \* what the radio repeats: nothing or one message
   heard : SUBSET Node,     \* auxiliary: which nodes have received it
   ticked : SUBSET Node,    \* auxiliary: which nodes ticked while the timer ran
   mesh_timer : MeshTimer,
   drops : 0 .. COUNT_MOD - 1,
   recv_count : 0 .. COUNT_MOD - 1,
   leds : [LedReg -> BOOLEAN]]

\* The queues name registers of the instance only.
NodeTypeOK(s) ==
  /\ s \in NodeState
  /\ Queued(s.send_queue) \subseteq Reg
  /\ Queued(s.request_queue) \subseteq Reg
-----------------------------------------------------------------------------
\* The message that carries register reg_num of node s: mesh_copy_message and
\* mesh_copy_request differ in the request flag only.
CopyOf(s, reg_num, is_request) ==
  [req |-> is_request, reg |-> reg_num,
   rev |-> s.registers[reg_num].rev, data |-> s.registers[reg_num].data]

mesh_copy_message(s, reg_num) == CopyOf(s, reg_num, FALSE)

mesh_copy_request(s, reg_num) == CopyOf(s, reg_num, TRUE)

\* app_timer_start ignores a timer that is already running.
mesh_timer_start(s, from) ==
  IF s.mesh_timer = "off" THEN [s EXCEPT !.mesh_timer = from, !.ticked = {}] ELSE s

advertise(s, message) == [s EXCEPT !.adv = {message}, !.heard = {}]

advertising_stop(s) == [s EXCEPT !.adv = {}, !.heard = {}]

set_leds(s) ==
  [s EXCEPT !.leds = [r \in LedReg |-> s.registers[r].data % 2 = 1]]

BlankRegister == [data |-> 0, rev |-> 0, written |-> FALSE]

\* The static variables at reset, and whether the LEDs are lit until set_leds.
ResetNode(lit) ==
  [registers |-> [r \in Reg |-> BlankRegister],
   send_queue |-> EmptyQueue, request_queue |-> EmptyQueue,
   m_broadcasting |-> FALSE, adv |-> {}, heard |-> {},
   mesh_timer |-> "off", ticked |-> {}, drops |-> 0, recv_count |-> 0,
   leds |-> [r \in LedReg |-> lit]]

\* Register 0, still zero, goes on air and the mesh timer runs, while
\* m_broadcasting is 0.
mesh_init(s) == advertise(mesh_timer_start(s, "boot"), mesh_copy_message(s, 0))
-----------------------------------------------------------------------------
\* Fault: copies are forgotten.
RequestsWaiting(s) == q_has_data(s.request_queue)

\* mesh_assemble_next_message: requests go before copies.
MessagesWaiting(s) == q_has_data(s.request_queue) \/ q_has_data(s.send_queue)

\* A node with something queued is broadcasting, and a node that is
\* broadcasting has its mesh timer running.
Paced(s) ==
  /\ MessagesWaiting(s) => s.m_broadcasting
  /\ s.m_broadcasting => s.mesh_timer # "off"

mesh_assemble_next_message(s) ==
  IF q_has_data(s.request_queue)
  THEN LET q == q_pop(s.request_queue)
       IN  [node |-> [s EXCEPT !.request_queue = q],
            message |-> mesh_copy_request(s, q.ptr)]
  ELSE LET q == q_pop(s.send_queue)
       IN  [node |-> [s EXCEPT !.send_queue = q],
            message |-> mesh_copy_message(s, q.ptr)]

\* Faults: m_broadcasting stays set when there is nothing to send, or a
\* message goes on air without its timer.
BroadcastStaysBusy(s) ==
  IF MessagesWaiting(s)
  THEN LET next == mesh_assemble_next_message([s EXCEPT !.m_broadcasting = TRUE])
       IN  mesh_timer_start(advertise(next.node, next.message), "window")
  ELSE advertising_stop([s EXCEPT !.m_broadcasting = TRUE])

BroadcastUntimed(s) ==
  IF MessagesWaiting(s)
  THEN LET next == mesh_assemble_next_message([s EXCEPT !.m_broadcasting = TRUE])
       IN  advertise(next.node, next.message)
  ELSE advertising_stop([s EXCEPT !.m_broadcasting = FALSE])

broadcast_next_message(s) ==
  IF MessagesWaiting(s)
  THEN LET next == mesh_assemble_next_message([s EXCEPT !.m_broadcasting = TRUE])
       IN  mesh_timer_start(advertise(next.node, next.message), "window")
  ELSE advertising_stop([s EXCEPT !.m_broadcasting = FALSE])

\* Fault: an idle node waits for a timer that does not run.
WaitForTimer(s) == s

\* if (!m_broadcasting) broadcast_next_message();
BroadcastIfIdle(s) == IF s.m_broadcasting THEN s ELSE broadcast_next_message(s)

\* The timer is single shot: it is off when its handler runs.
mesh_timer_timeout_handler(s) ==
  broadcast_next_message([s EXCEPT !.mesh_timer = "off", !.ticked = {}])

\* Fault: byte 24 is not stored.
WriteKeepingRevision(s, reg_num, data, revision) ==
  BroadcastIfIdle(
    [s EXCEPT
      !.registers[reg_num] = [@ EXCEPT !.data = data, !.written = TRUE],
      !.send_queue = q_push(@, reg_num)])

mesh_write_reg(s, reg_num, data, revision) ==
  BroadcastIfIdle(
    [s EXCEPT
      !.registers[reg_num] = [data |-> data, rev |-> revision, written |-> TRUE],
      !.send_queue = q_push(@, reg_num)])

mesh_request_reg(s, reg_num) ==
  BroadcastIfIdle(
    [s EXCEPT
      !.request_queue = q_push(@, reg_num),
      !.registers[reg_num] = [@ EXCEPT !.written = FALSE]])
-----------------------------------------------------------------------------
\* ble_evt_adv_report, an advertisement that carries a register.
Accepts(s, message) ==
  \/ NEWER_REVISION(message.rev, s.registers[message.reg].rev)
  \/ ~ s.registers[message.reg].written

CountsAsDrop(s, message) ==
  /\ message.rev - s.registers[message.reg].rev > 1
  /\ s.registers[message.reg].written

CountReception(s, message) ==
  [s EXCEPT !.drops = IF CountsAsDrop(s, message) THEN (@ + 1) % COUNT_MOD ELSE @,
            !.recv_count = (@ + 1) % COUNT_MOD]

\* The callback of the applications is set_leds.
ReceiveCopy(s, message) ==
  IF Accepts(s, message)
  THEN set_leds(mesh_write_reg(CountReception(s, message),
                               message.reg, message.data, message.rev))
  ELSE s

ReceiveRequest(s, message) ==
  BroadcastIfIdle([s EXCEPT !.send_queue = q_push(@, message.reg)])

\* Fault: requests are ignored.
HearCopiesOnly(s, message) == IF message.req THEN s ELSE ReceiveCopy(s, message)

ble_evt_adv_report(s, message) ==
  IF message.req THEN ReceiveRequest(s, message) ELSE ReceiveCopy(s, message)
=============================================================================
