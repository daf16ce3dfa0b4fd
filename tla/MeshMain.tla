------------------------------ MODULE MeshMain ------------------------------
(***************************************************************************)
(* The main function of proj_beef_request after mesh_init: it calls        *)
(* mesh_request_reg in thread mode, where the BLE event handler preempts   *)
(* it.  Every access of the function to state that the handlers share is a *)
(* step of its own; a handler runs to completion between two of them.      *)
(*                                                                         *)
(* main reaches its idle loop within the 1070 ms of the mesh timer that    *)
(* mesh_init started, so only BLE events come in between.  A neighbour     *)
(* that holds the requested register answers when it hears the request.    *)
(***************************************************************************)
EXTENDS MeshNode

CONSTANTS
  Asked,     \* the register main asks for (2 in the code)
  Traffic,   \* the messages heard from other nodes
  Answer     \* the neighbour's message that carries the register

ASSUME MainAssumption ==
  /\ Asked \in Reg
  /\ Traffic \subseteq Message
  /\ Answer \in Message /\ Answer.reg = Asked /\ ~ Answer.req

VARIABLES
  node,       \* what main and the handlers share
  pc,         \* the statement of mesh_request_reg that main is about to run
  byte,       \* what main has loaded of the send queue's map
  ble_data,   \* the message main assembles
  asked       \* whether the neighbour has heard the request

vars == <<node, pc, byte, ble_data, asked>>

\* main never calls set_leds: the pins, low after reset, light every LED.
Init ==
  /\ node = mesh_init(ResetNode(TRUE))
  /\ pc = "push"
  /\ byte = {}
  /\ ble_data = {}
  /\ asked = FALSE

At(from, to) == pc = from /\ pc' = to
-----------------------------------------------------------------------------
\* mesh_request_reg.  No handler pushes a request, and none pops one while
\* the queue is empty: the push is one step.
PushRequest ==
  /\ At("push", "reset")
  /\ node' = [node EXCEPT !.request_queue = q_push(@, Asked)]
  /\ UNCHANGED <<byte, ble_data, asked>>

ResetWritten ==
  /\ At("reset", "check")
  /\ node' = [node EXCEPT !.registers[Asked].written = FALSE]
  /\ UNCHANGED <<byte, ble_data, asked>>

CheckBroadcasting ==
  /\ At("check", IF node.m_broadcasting THEN "idle" ELSE "begin")
  /\ UNCHANGED <<node, byte, ble_data, asked>>

\* broadcast_next_message and mesh_assemble_next_message.
SetBroadcasting ==
  /\ At("begin", "look_request")
  /\ node' = [node EXCEPT !.m_broadcasting = TRUE]
  /\ UNCHANGED <<byte, ble_data, asked>>

\* q_has_data and q_pop of the request queue.  m_broadcasting is set: no
\* handler pops, so what was there is there.
PopRequest ==
  /\ q_has_data(node.request_queue)
  /\ At("look_request", "copy_data")
  /\ LET q == q_pop(node.request_queue) IN
       /\ node' = [node EXCEPT !.request_queue = q]
       /\ ble_data' = {mesh_copy_request(node, q.ptr)}
  /\ UNCHANGED <<byte, asked>>

NoRequest ==
  /\ ~ q_has_data(node.request_queue)
  /\ At("look_request", "look_send")
  /\ UNCHANGED <<node, byte, ble_data, asked>>

\* Fault: q_pop without q_has_data.
LookAtNothing ==
  /\ At("look_send", "load_send")
  /\ UNCHANGED <<node, byte, ble_data, asked>>

LookSend ==
  /\ At("look_send", IF q_has_data(node.send_queue) THEN "load_send" ELSE "give_up")
  /\ UNCHANGED <<node, byte, ble_data, asked>>

\* q_pop of the send queue reads a byte of the map, and writes it back with
\* one bit cleared.
LoadSend ==
  /\ pc = "load_send"
  /\ pc' = IF PopHalts(node.send_queue) THEN "halted" ELSE "store_send"
  /\ byte' = node.send_queue.data
  /\ UNCHANGED <<node, ble_data, asked>>

StoreSend ==
  /\ At("store_send", "copy_data")
  /\ LET q == q_pop([node.send_queue EXCEPT !.data = byte]) IN
       /\ node' = [node EXCEPT !.send_queue = q]
       /\ ble_data' = {mesh_copy_message(node, q.ptr)}
  /\ byte' = {}
  /\ UNCHANGED asked

\* mesh_copy_message reads the revision first and the data by a memcpy of its
\* own: a handler may have written the register in between.
CopyData ==
  /\ At("copy_data", "air")
  /\ ble_data' = {[m EXCEPT !.data = node.registers[m.reg].data] : m \in ble_data}
  /\ UNCHANGED <<node, byte, asked>>

\* advertising_stop, copy_adv_data, advertising_start, mesh_timer_start:
\* handlers only push meanwhile.
PutOnAir ==
  /\ At("air", "idle")
  /\ \E m \in ble_data : node' = mesh_timer_start(advertise(node, m), "window")
  /\ ble_data' = {}
  /\ UNCHANGED <<byte, asked>>

GiveUp ==
  /\ At("give_up", "clear")
  /\ node' = advertising_stop(node)
  /\ UNCHANGED <<byte, ble_data, asked>>

ClearBroadcasting ==
  /\ At("clear", "idle")
  /\ node' = [node EXCEPT !.m_broadcasting = FALSE]
  /\ UNCHANGED <<byte, ble_data, asked>>

Main ==
  \/ PushRequest \/ ResetWritten \/ CheckBroadcasting \/ SetBroadcasting
  \/ PopRequest \/ NoRequest \/ LookSend \/ LoadSend \/ StoreSend
  \/ CopyData \/ PutOnAir \/ GiveUp \/ ClearBroadcasting
-----------------------------------------------------------------------------
\* The BLE event handler, on a message of another node or on the answer.
Report(m) ==
  /\ pc # "halted"
  /\ node' = ble_evt_adv_report(node, m)
  /\ UNCHANGED <<pc, byte, ble_data, asked>>

HearTraffic == \E m \in Traffic : Report(m)

HearAnswer == asked /\ Report(Answer)

\* The neighbour hears the request; of a window that ends by itself it has.
NeighbourHears ==
  /\ ~ asked
  /\ \E m \in node.adv : m.req /\ m.reg = Asked
  /\ asked' = TRUE
  /\ UNCHANGED <<node, pc, byte, ble_data>>

\* The timeout of the radio and the mesh timer, as in Mesh.  main's request
\* starts right after the timer of mesh_init: its window is a whole one too.
AdvertisingTimeout ==
  /\ pc = "idle"
  /\ node.adv # {}
  /\ \A m \in node.adv : m.req => asked
  /\ node' = advertising_stop(node)
  /\ UNCHANGED <<pc, byte, ble_data, asked>>

TimerExpires ==
  /\ pc = "idle"
  /\ node.mesh_timer # "off"
  /\ (node.mesh_timer = "window" \/ \E m \in node.adv : m.req) => node.adv = {}
  /\ node' = mesh_timer_timeout_handler(node)
  /\ UNCHANGED <<pc, byte, ble_data, asked>>

Next ==
  \/ Main \/ HearTraffic \/ HearAnswer \/ NeighbourHears
  \/ AdvertisingTimeout \/ TimerExpires

Spec ==
  /\ Init /\ [][Next]_vars
  /\ WF_vars(Main) /\ WF_vars(NeighbourHears) /\ WF_vars(HearAnswer)
  /\ WF_vars(AdvertisingTimeout) /\ WF_vars(TimerExpires)
-----------------------------------------------------------------------------
\* main never pops an empty queue: "Errors when the queue is empty. Always
\* check the the queue has data first".  The check and the pop are apart;
\* m_broadcasting, set before both, keeps the handlers from popping.
PopFindsData == pc # "halted"

\* When main is done, what the handlers pushed is not stranded: a timer runs
\* that will send it, even if main cleared m_broadcasting after the push.
NothingStranded ==
  pc = "idle" /\ MessagesWaiting(node) => node.mesh_timer # "off"

\* Once main is done and the air is quiet the node is paced like any other.
SettlesDown == <>[](~ node.m_broadcasting /\ node.adv = {} /\ ~ MessagesWaiting(node))
=============================================================================
