--------------------------- MODULE MeshMainProofs ---------------------------
(***************************************************************************)
(* main of proj_beef_request, interleaved with the handlers, never pops an *)
(* empty queue and strands nothing: for every network, whatever is heard   *)
(* and whenever it comes.                                                  *)
(*                                                                         *)
(* Half way through mesh_request_reg the node is not paced.  What carries  *)
(* the proof instead is who may pop: once main has set m_broadcasting no   *)
(* handler does, so what main has seen in a queue is still there when it   *)
(* pops; and who drives the node: the timer of mesh_init runs until main   *)
(* is idle.                                                                *)
(***************************************************************************)
EXTENDS MeshMain, MeshNodeProofs

USE DEF MeshTimer

\* The statements that main runs with m_broadcasting set.
Sending ==
  {"look_request", "look_send", "load_send", "store_send", "copy_data", "air", "give_up", "clear"}

Labels == Sending \union {"push", "reset", "check", "begin", "idle", "halted"}

\* Every variable holds a value of its type.
TypeOK ==
  /\ NodeTypeOK(node)
  /\ pc \in Labels
  /\ byte \subseteq Bits
  /\ ble_data \subseteq Message
  /\ asked \in BOOLEAN

\* What main has seen of the send queue is still there.
SeenIsThere ==
  /\ pc = "load_send" => q_has_data(node.send_queue)
  /\ pc = "store_send" => byte # {} /\ byte \subseteq node.send_queue.data

\* A timer runs until main is idle, and then while there is something to do.
Attended ==
  pc # "idle" \/ MessagesWaiting(node) \/ node.m_broadcasting => node.mesh_timer # "off"

MainInv ==
  /\ TypeOK
  /\ PopFindsData
  /\ pc \in Sending => node.m_broadcasting
  /\ SeenIsThere
  /\ Attended

LEMMA InitMainInv == Init => MainInv
<1> SUFFICES ASSUME Init PROVE MainInv
  OBVIOUS
<1>1. node = mesh_init(ResetNode(TRUE)) /\ pc = "push" /\ byte = {} /\ ble_data = {}
      /\ asked = FALSE
  BY DEF Init
<1>2. NodeTypeOK(node)
  BY <1>1, InitPaces
<1>3. node.mesh_timer = "boot"
  BY <1>1 DEF mesh_init, advertise, mesh_timer_start, ResetNode
<1>4. TypeOK
  BY <1>1, <1>2 DEF TypeOK, Labels
<1> QED BY <1>1, <1>3, <1>4 DEF MainInv, PopFindsData, Sending, SeenIsThere, Attended

\* A step of the handlers: main stays where it is, and the node changes to one
\* that still has what main relies on.
LEMMA HandlerKeepsMainInv ==
  ASSUME MainInv, UNCHANGED <<pc, byte, ble_data>>, asked' \in BOOLEAN,
         NodeTypeOK(node'),
         MessagesWaiting(node') \/ node'.m_broadcasting => node'.mesh_timer # "off",
         pc # "idle" => /\ node'.mesh_timer # "off"
                        /\ node.m_broadcasting =>
                             /\ node'.m_broadcasting
                             /\ node.send_queue.data \subseteq node'.send_queue.data
  PROVE  MainInv'
<1>1. TypeOK'
  BY DEF MainInv, TypeOK
<1>2. PopFindsData'
  BY DEF MainInv, PopFindsData
<1>3. pc \in Sending => pc # "idle"
  BY DEF Sending
<1>4. pc' \in Sending => node'.m_broadcasting
  BY <1>3 DEF MainInv
<1>5. SeenIsThere'
  <2>1. "load_send" \in Sending /\ "store_send" \in Sending
    BY DEF Sending
  <2> QED BY <1>3, <2>1 DEF MainInv, SeenIsThere, q_has_data
<1>6. Attended'
  BY DEF Attended
<1> QED BY <1>1, <1>2, <1>4, <1>5, <1>6 DEF MainInv

LEMMA ReportKeepsMainInv ==
  ASSUME MainInv, NEW m \in Message, Report(m)
  PROVE  MainInv'
<1>1. /\ node' = ble_evt_adv_report(node, m) /\ UNCHANGED <<pc, byte, ble_data, asked>>
      /\ NodeTypeOK(node) /\ asked \in BOOLEAN
  BY DEF Report, MainInv, TypeOK
<1>2. Armed(node)
  BY DEF MainInv, Attended, Armed
<1>3. /\ NodeTypeOK(node') /\ (node' = node \/ Paced(node'))
      /\ node.mesh_timer # "off" => node'.mesh_timer # "off"
      /\ node.m_broadcasting =>
           node'.m_broadcasting /\ node.send_queue.data \subseteq node'.send_queue.data
  BY <1>1, <1>2, ReportOfArmed
<1>4. MessagesWaiting(node') \/ node'.m_broadcasting => node'.mesh_timer # "off"
  BY <1>3 DEF MainInv, Attended, Paced
<1>5. pc # "idle" => node'.mesh_timer # "off"
  BY <1>3 DEF MainInv, Attended
<1> QED BY <1>1, <1>3, <1>4, <1>5, HandlerKeepsMainInv

\* The timers, once main is idle.
LEMMA TimersKeepMainInv ==
  ASSUME MainInv, AdvertisingTimeout \/ TimerExpires
  PROVE  MainInv'
<1>0. NodeTypeOK(node) /\ asked \in BOOLEAN
  BY DEF MainInv, TypeOK
<1>1. CASE AdvertisingTimeout
  <2>1. /\ node' = advertising_stop(node) /\ pc = "idle"
        /\ UNCHANGED <<pc, byte, ble_data, asked>>
    BY <1>1 DEF AdvertisingTimeout
  <2>2. NodeTypeOK(node')
    BY <1>0, <2>1, StopsKeepType
  <2>3. /\ MessagesWaiting(node') = MessagesWaiting(node)
        /\ node'.m_broadcasting = node.m_broadcasting
        /\ node'.mesh_timer = node.mesh_timer
    BY <1>0, <2>1 DEF advertising_stop, MessagesWaiting, NodeTypeOK, NodeState
  <2> QED BY <1>0, <2>1, <2>2, <2>3, HandlerKeepsMainInv DEF MainInv, Attended
<1>2. CASE TimerExpires
  <2> DEFINE s == [node EXCEPT !.mesh_timer = "off", !.ticked = {}]
  <2>1. /\ node' = broadcast_next_message(s) /\ pc = "idle"
        /\ UNCHANGED <<pc, byte, ble_data, asked>>
    BY <1>2 DEF TimerExpires, mesh_timer_timeout_handler
  <2>2. NodeTypeOK(s)
    BY <1>0, StopsKeepType
  <2> HIDE DEF s
  <2>3. NodeTypeOK(node') /\ Paced(node')
    BY <2>1, <2>2, BroadcastPaces
  <2> QED BY <1>0, <2>1, <2>3, HandlerKeepsMainInv DEF Paced
<1> QED BY <1>1, <1>2

\* The statements of main before it pops.
LEMMA EntryKeepsMainInv ==
  ASSUME MainInv, PushRequest \/ ResetWritten \/ CheckBroadcasting \/ SetBroadcasting
  PROVE  MainInv'
<1>0. /\ NodeTypeOK(node) /\ node.mesh_timer # "off" /\ pc' \in Labels /\ pc' # "halted"
      /\ pc' \notin {"load_send", "store_send"} /\ UNCHANGED <<byte, ble_data, asked>>
  <2>1. /\ pc \in {"push", "reset", "check", "begin"}
        /\ pc' \in {"reset", "check", "begin", "idle", "look_request"}
        /\ UNCHANGED <<byte, ble_data, asked>>
    BY DEF PushRequest, ResetWritten, CheckBroadcasting, SetBroadcasting, At
  <2>2. pc # "idle"
    BY <2>1
  <2>3. NodeTypeOK(node) /\ node.mesh_timer # "off"
    BY <2>2 DEF MainInv, TypeOK, Attended
  <2> QED BY <2>1, <2>3 DEF Labels, Sending
<1>1. CASE PushRequest
  <2> DEFINE q == q_push(node.request_queue, Asked)
  <2>1. q \in Queue /\ Queued(q) \subseteq Reg
    BY <1>0, PushKeepsType, MainAssumption DEF NodeTypeOK, NodeState
  <2>2. node' = [node EXCEPT !.request_queue = q] /\ pc' = "reset"
    BY <1>1 DEF PushRequest, At
  <2> HIDE DEF q
  <2>3. NodeTypeOK(node') /\ node'.mesh_timer # "off"
    BY <1>0, <2>1, <2>2 DEF NodeTypeOK, NodeState
  <2> QED BY <1>0, <2>2, <2>3 DEF MainInv, TypeOK, PopFindsData, Sending, SeenIsThere, Attended
<1>2. CASE ResetWritten
  <2> DEFINE c == [node.registers[Asked] EXCEPT !.written = FALSE]
  <2>1. c \in Register
    <3>1. ASSUME NEW old \in Register
          PROVE  [old EXCEPT !.written = FALSE] \in Register
      BY DEF Register
    <3> QED BY <1>0, <3>1, MainAssumption DEF NodeTypeOK, NodeState
  <2>2. node' = [node EXCEPT !.registers[Asked] = c] /\ pc' = "check"
    BY <1>2 DEF ResetWritten, At
  <2> HIDE DEF c
  <2>3. NodeTypeOK(node') /\ node'.mesh_timer # "off"
    BY <1>0, <2>1, <2>2 DEF NodeTypeOK, NodeState
  <2> QED BY <1>0, <2>2, <2>3 DEF MainInv, TypeOK, PopFindsData, Sending, SeenIsThere, Attended
<1>3. CASE CheckBroadcasting
  <2>1. node' = node /\ pc' \in {"idle", "begin"}
    BY <1>3 DEF CheckBroadcasting, At
  <2> QED BY <1>0, <2>1 DEF MainInv, TypeOK, PopFindsData, Sending, SeenIsThere, Attended
<1>4. CASE SetBroadcasting
  <2>1. node' = [node EXCEPT !.m_broadcasting = TRUE] /\ pc' = "look_request"
    BY <1>4 DEF SetBroadcasting, At
  <2>2. NodeTypeOK(node') /\ node'.mesh_timer # "off" /\ node'.m_broadcasting
    BY <1>0, <2>1 DEF NodeTypeOK, NodeState
  <2> QED BY <1>0, <2>1, <2>2 DEF MainInv, TypeOK, PopFindsData, Sending, SeenIsThere, Attended
<1> QED BY <1>1, <1>2, <1>3, <1>4

\* mesh_assemble_next_message: main pops what it has seen.
LEMMA PopsKeepMainInv ==
  ASSUME MainInv, PopRequest \/ NoRequest \/ LookSend \/ LoadSend \/ StoreSend
  PROVE  MainInv'
<1>0. /\ NodeTypeOK(node) /\ node.mesh_timer # "off" /\ node.m_broadcasting
      /\ node.send_queue \in Queue /\ Queued(node.send_queue) \subseteq Reg
      /\ node.request_queue \in Queue /\ Queued(node.request_queue) \subseteq Reg
  <2>1. pc \in Sending /\ pc # "idle"
    BY DEF PopRequest, NoRequest, LookSend, LoadSend, StoreSend, At, Sending
  <2> QED BY <2>1 DEF MainInv, TypeOK, Attended, NodeTypeOK, NodeState
<1>1. CASE PopRequest
  <2> DEFINE q == q_pop(node.request_queue)
  <2>1. q \in Queue /\ q.ptr \in Reg /\ Queued(q) \subseteq Reg
    BY <1>0, <1>1, PopTakesQueued DEF PopRequest
  <2>2. /\ node' = [node EXCEPT !.request_queue = q] /\ pc' = "copy_data"
        /\ ble_data' = {mesh_copy_request(node, q.ptr)} /\ UNCHANGED <<byte, asked>>
    BY <1>1 DEF PopRequest, At
  <2> HIDE DEF q
  <2>3. NodeTypeOK(node') /\ node'.mesh_timer # "off" /\ node'.m_broadcasting
    BY <1>0, <2>1, <2>2 DEF NodeTypeOK, NodeState
  <2>4. ble_data' \subseteq Message
    BY <1>0, <2>1, <2>2, CopyIsMessage DEF mesh_copy_request
  <2>5. TypeOK'
    BY <2>2, <2>3, <2>4 DEF MainInv, TypeOK, Labels, Sending
  <2> QED BY <2>2, <2>3, <2>5 DEF MainInv, PopFindsData, SeenIsThere, Attended
<1>2. CASE NoRequest \/ LookSend
  <2>1. /\ node' = node /\ UNCHANGED <<byte, ble_data, asked>>
        /\ pc' \in {"look_send", "load_send", "give_up"}
        /\ pc' = "load_send" => q_has_data(node.send_queue)
    BY <1>2 DEF NoRequest, LookSend, At
  <2>2. TypeOK'
    BY <2>1 DEF MainInv, TypeOK, Labels, Sending
  <2> QED BY <1>0, <2>1, <2>2 DEF MainInv, PopFindsData, SeenIsThere, Attended
<1>3. CASE LoadSend
  <2>1. node.send_queue.data # {}
    BY <1>3 DEF LoadSend, MainInv, SeenIsThere, q_has_data
  <2>2. /\ node' = node /\ UNCHANGED <<ble_data, asked>>
        /\ pc' = "store_send" /\ byte' = node.send_queue.data
    BY <1>3, <2>1 DEF LoadSend, PopHalts, q_has_data
  <2>3. TypeOK'
    BY <1>0, <2>2 DEF MainInv, TypeOK, Labels, Sending, Queue
  <2> QED BY <1>0, <2>1, <2>2, <2>3 DEF MainInv, PopFindsData, SeenIsThere, Attended
<1>4. CASE StoreSend
  <2> DEFINE loaded == [node.send_queue EXCEPT !.data = byte]
             q == q_pop(loaded)
  <2>1. byte # {} /\ byte \subseteq node.send_queue.data
    BY <1>4 DEF StoreSend, At, MainInv, SeenIsThere
  <2>2. loaded \in Queue /\ q_has_data(loaded)
    BY <1>0, <2>1 DEF Queue, q_has_data
  <2>3. Queued(loaded) \subseteq Reg
    <3>1. loaded.data = byte
      BY <1>0 DEF Queue
    <3> QED BY <1>0, <2>1, <3>1 DEF Queued
  <2>4. /\ node' = [node EXCEPT !.send_queue = q] /\ pc' = "copy_data"
        /\ ble_data' = {mesh_copy_message(node, q.ptr)} /\ byte' = {} /\ UNCHANGED asked
    BY <1>4 DEF StoreSend, At
  <2>5. q \in Queue /\ q.ptr \in Reg /\ Queued(q) \subseteq Reg
    <3> HIDE DEF loaded
    <3> QED BY <2>2, <2>3, PopTakesQueued
  <2> HIDE DEF q
  <2>6. NodeTypeOK(node') /\ node'.mesh_timer # "off" /\ node'.m_broadcasting
    BY <1>0, <2>4, <2>5 DEF NodeTypeOK, NodeState
  <2>7. ble_data' \subseteq Message
    BY <1>0, <2>4, <2>5, CopyIsMessage DEF mesh_copy_message
  <2>8. TypeOK'
    BY <2>4, <2>6, <2>7 DEF MainInv, TypeOK, Labels, Sending
  <2> QED BY <2>4, <2>6, <2>8 DEF MainInv, PopFindsData, SeenIsThere, Attended
<1> QED BY <1>1, <1>2, <1>3, <1>4

\* The rest of broadcast_next_message.
LEMMA ExitKeepsMainInv ==
  ASSUME MainInv, CopyData \/ PutOnAir \/ GiveUp \/ ClearBroadcasting
  PROVE  MainInv'
<1>0. /\ NodeTypeOK(node) /\ node.mesh_timer # "off" /\ node.m_broadcasting
      /\ ble_data \subseteq Message /\ UNCHANGED <<byte, asked>>
  <2>1. pc \in Sending /\ pc # "idle"
    BY DEF CopyData, PutOnAir, GiveUp, ClearBroadcasting, At, Sending
  <2>2. UNCHANGED <<byte, asked>>
    BY DEF CopyData, PutOnAir, GiveUp, ClearBroadcasting
  <2> QED BY <2>1, <2>2 DEF MainInv, TypeOK, Attended
<1>1. CASE CopyData
  <2>1. /\ node' = node /\ pc' = "air"
        /\ ble_data' = {[m EXCEPT !.data = node.registers[m.reg].data] : m \in ble_data}
    BY <1>1 DEF CopyData, At
  <2>2. ASSUME NEW m \in Message
        PROVE  [m EXCEPT !.data = node.registers[m.reg].data] \in Message
    <3>1. node.registers[m.reg].data \in Nat
      BY <1>0 DEF NodeTypeOK, NodeState, Register, Message
    <3> QED BY <3>1 DEF Message
  <2>3. ble_data' \subseteq Message
    BY <1>0, <2>1, <2>2
  <2>4. TypeOK'
    BY <1>0, <2>1, <2>3 DEF MainInv, TypeOK, Labels, Sending
  <2> QED BY <1>0, <2>1, <2>4 DEF MainInv, PopFindsData, SeenIsThere, Attended
<1>2. CASE PutOnAir
  <2>1. PICK m \in ble_data : node' = mesh_timer_start(advertise(node, m), "window")
    BY <1>2 DEF PutOnAir
  <2>2. pc' = "idle" /\ ble_data' = {}
    BY <1>2 DEF PutOnAir, At
  <2>3. NodeTypeOK(node') /\ node'.mesh_timer # "off"
    BY <1>0, <2>1 DEF mesh_timer_start, advertise, NodeTypeOK, NodeState
  <2>4. TypeOK'
    BY <1>0, <2>2, <2>3 DEF MainInv, TypeOK, Labels
  <2> QED BY <2>2, <2>3, <2>4 DEF MainInv, PopFindsData, Sending, SeenIsThere, Attended
<1>3. CASE GiveUp \/ ClearBroadcasting
  <2>1. \/ node' = advertising_stop(node) /\ pc' = "clear"
        \/ node' = [node EXCEPT !.m_broadcasting = FALSE] /\ pc' = "idle"
    BY <1>3 DEF GiveUp, ClearBroadcasting, At
  <2>2. ble_data' = ble_data
    BY <1>3 DEF GiveUp, ClearBroadcasting
  <2>3. NodeTypeOK(node') /\ node'.mesh_timer # "off" /\ (pc' = "clear" => node'.m_broadcasting)
    BY <1>0, <2>1 DEF advertising_stop, NodeTypeOK, NodeState
  <2>4. TypeOK'
    BY <1>0, <2>1, <2>2, <2>3 DEF MainInv, TypeOK, Labels, Sending
  <2> QED BY <2>1, <2>3, <2>4 DEF MainInv, PopFindsData, Sending, SeenIsThere, Attended
<1> QED BY <1>1, <1>2, <1>3

LEMMA StepMainInv ==
  ASSUME MainInv, [Next]_vars
  PROVE  MainInv'
<1>1. CASE Main
  BY <1>1, EntryKeepsMainInv, PopsKeepMainInv, ExitKeepsMainInv DEF Main
<1>2. CASE HearTraffic \/ HearAnswer
  BY <1>2, ReportKeepsMainInv, MainAssumption DEF HearTraffic, HearAnswer
<1>3. CASE NeighbourHears
  <2>1. UNCHANGED <<node, pc, byte, ble_data>> /\ asked' = TRUE
    BY <1>3 DEF NeighbourHears
  <2> QED BY <2>1, HandlerKeepsMainInv DEF MainInv, TypeOK, Attended
<1>4. CASE AdvertisingTimeout \/ TimerExpires
  BY <1>4, TimersKeepMainInv
<1>5. CASE UNCHANGED vars
  BY <1>5 DEF vars, MainInv, TypeOK, PopFindsData, SeenIsThere, Attended
<1> QED BY <1>1, <1>2, <1>3, <1>4, <1>5 DEF Next

\* Type correctness of main and the node it shares with the handlers.
THEOREM MainTypeCorrect == Spec => []TypeOK
<1>1. MainInv => TypeOK
  BY DEF MainInv
<1> QED BY <1>1, InitMainInv, StepMainInv, PTL DEF Spec

\* main never pops an empty queue, however the handlers come in between.
THEOREM MainPopsData == Spec => []PopFindsData
<1>1. MainInv => PopFindsData
  BY DEF MainInv
<1> QED BY <1>1, InitMainInv, StepMainInv, PTL DEF Spec

\* When main is done a timer runs that will send what the handlers pushed.
THEOREM MainStrandsNothing == Spec => []NothingStranded
<1>1. MainInv => NothingStranded
  BY DEF MainInv, Attended, NothingStranded
<1> QED BY <1>1, InitMainInv, StepMainInv, PTL DEF Spec
=============================================================================
