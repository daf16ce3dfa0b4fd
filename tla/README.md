# nu-wirelessiot-base: TLA+ models, model checking and proofs

The repository holds the course base of Northwestern's wireless IoT class and, in
`src/software/simple_mesh`, the program that is its own: a flooding mesh over BLE
advertisements, run by the `proj_*` applications on nRF52840 boards. The mesh is modelled
first and in full. The models then follow the two other concurrent programs of the
repository: Nordic's BLE sniffer for Wireshark (`apps/ble_wireshark/extcap`), from the
serial port to the capture pipe, and the central of `apps/ble_connect`. The rest is course
examples, board files and scripts.

## 1. Inventory

### The mesh

A network has 256 *registers* of 24 bytes. Each has one *owner*, an application that
writes it at every tick of its timer with the next revision (one byte, wrapping).
A node that receives a newer copy stores it and forwards it by advertising it in turn.
There are no acknowledgements, no retransmissions and no addresses.

| component | state | operations |
|---|---|---|
| register queue, `ring_buffer.c` | bit map of 256 bits, scan position `ptr` | `q_push`, `q_pop`, `q_has_data` |
| one node, `mesh_protocol.h` | `registers[256][26]` (data, revision, byte 25 "written"), `send_queue`, `request_queue`, `m_broadcasting`, `ble_data` (the advertisement), `drops`, `recv_count` | `mesh_init`, `mesh_write_reg`, `mesh_read_reg`, `mesh_request_reg`, `broadcast_next_message`, `mesh_timer_timeout_handler`, `ble_evt_adv_report` |
| timers, `timer.h` | the repeated application timer, the single-shot mesh timer | `timers_init`, `mesh_timer_start`, `timer0_start` |
| writers, `proj_beef`, `proj_cafe`, `proj_feed` | `rev[12]`, three LEDs | `timer0_timeout_handler` (registers 1, 2, 3), `set_leds` |
| requester, `proj_beef_request` | the same and `count` | writes 1, 4, 7, 10 in turn and asks for register 2 at every tick, and once in `main` |
| slow sender, `proj_cafe_slow_send` | `rev`, `count` | writes register 2 when `count` is 0 |
| queue test, `proj_test_q` | one queue | pushes and pops in `main` |

How they interact. The application's timer handler and the BLE event handler call into
`mesh_protocol.h`; both push registers into a queue and, when `m_broadcasting` is 0,
start the first broadcast. From then on the mesh timer drives: its handler takes the next
register out of a queue, puts it on air and starts the timer again, until both queues
are empty. Nodes interact over the radio only: what one repeats for its window (1040 ms,
about ten times) another may hear. All handlers have one interrupt priority and run to
completion; `main` runs in thread mode and is preempted by them.

What is hard here: revisions that wrap and are compared in a window; the queue's two
off-by-ones that must cancel; a pacing flag and a timer that must agree; echoes and relays
that reorder; loss without retransmission; requests answered by nodes that do not know;
`main` calling `mesh_request_reg` without masking interrupts.

What makes each part correct:

- queue: a pushed register is popped, once, and not passed over more than once per
  register (a set with round-robin service);
- node: what is queued gets sent; a broadcasting node has a running timer; data and
  revision of one write stay together;
- network: the owner's copy is never overridden; a written copy is never replaced by an
  older one; the air falls silent; on reliable links everybody converges and requests are
  answered; seen through the registers alone it is a set of replicas;
- counters: `drops` counts what was missed;
- `main`: what it does between two handlers leaves the node as a handler would.

### The sniffer

A board reports every BLE packet it hears over a serial line; a Python program turns the
reports into a capture that Wireshark reads from a pipe. Four threads take part.

| component | state | operations |
|---|---|---|
| serial port, `UART.py` | a deque of bytes, an Event, the flag `_reading`, the worker thread | `_read_worker`, `_read_queue_extend`, `_read_queue_get`, `readByte`, `close` |
| framing, `Packet.py: PacketReader` | SLIP decoder, packet counters of both directions | `encodeToSLIP`, `decodeFromSLIP`, `getPacket`, `sendPacket` |
| packets, `Packet.py: Packet, BlePacket` | one list of bytes and what was read from it | `readHeader`, `readPayload`, `extractName`, ... |
| collector, `SnifferCollector.py`, `Devices.py`, `Sniffer.py`, `Notifications.py` | packet buffer, device list, followed device, state, callbacks under a lock | `_continuouslyPipe`, `_processBLEPacket`, `getPackets`, `scan`, `follow`, `_doExit` |
| extcap, `nrf_sniffer_ble.py` | mode, filter, key, the pipes of Wireshark | `sniffer_capture`, the control loops, `new_packet`, `device_added` |

How they interact. The worker thread fills the deque; the sniffer thread takes bytes, decodes
frames, files packets and calls `new_packet` and `device_added` under the notifier's lock; the
main thread obeys the toolbar by calling `scan` and `follow`, and cleans up at the end.

What is hard: an Event and a deque that are atomic each but not together; a frame that breaks off;
a counter that wraps; a structure whose length comes from the air; a buffer that is cut while
another thread fetches from it; a pipe closed under a thread that writes to it; a board pulled out.

What makes it correct: every byte once and in order, no lost wake-up; whole packets in order, and
resynchronisation after damage; a packet that claims to be complete has what its readers read; the
device list agrees with what was heard and what was announced; nothing is written to a closed pipe
or before the defaults; both threads end, and for a known reason only.

### The central

`ble_connect/main.c` scans for a name, connects, starts a service discovery and answers the peer.
State is in the SoftDevice; the program reacts to its events, which are handled later than they
happen, and `APP_ERROR_CHECK` stops the board at the first error
(`boards/*/better_error_handling.c`). It is correct if it only ever stops for an event that came too
late, and if it looks for a new link whenever it has none.

### Everything else

| part | state and operations | hard behaviour |
|---|---|---|
| `proj_adv_root`, `proj_scan` | a counter in an advertisement; nothing | none |
| course examples (`ble_adv_*`, `lab*`, `blink`, `button*`, `thread_*`, ...) | straight-line calls of SDK libraries | their libraries' |

`PROJECT.json` lists every component with its status, and every hazard at its line.

## 2. Modules

| module | models | abstracts |
|---|---|---|
| `Revision` | `NEWER_REVISION`, `++rev`, the width of a revision | nothing; the width is a constant |
| `BitQueue` | `ring_buffer.c` | the byte array is the set of its set bits |
| `SendQueue` | one queue between handlers that push and the timer that pops | who pushes |
| `PendingSet` | what a queue promises: a set, weakly fair to every member | |
| `MeshNode` | `mesh_protocol.h`, one operator per function, from node state to node state | message bytes, key/type/length test, printing |
| `Mesh` | a network of nodes and their applications; one action per handler | the radio: see 4 |
| `Replicas` | what the network promises: a copy is a write of the owner, replaced only by a later one unless asked for | messages, revisions, queues |
| `RegisterCopy` | one register, one owner, one listener, 8-bit revisions | everything else |
| `MeshMain` | `main` of `proj_beef_request` step by step against the BLE handler | the neighbours are two fixed messages |
| `SnifferUart` | `UART.py`: worker, reader and closer, one access to the deque or the Event per step | bytes are their numbers |
| `ByteStream` | what the serial port promises | |
| `SnifferFraming` | `PacketReader`: encoder, decoder, counters, over a line that loses bytes and reads that time out | a header is a length and a counter |
| `PacketChannel` | what framing promises: a subsequence, whole unless damaged | |
| `SnifferPacket` | how a list of bytes becomes a packet: flags, padding, lengths, names | addresses and fields that are only copied |
| `SnifferCollector` | the packet buffer and the device list, between the sniffer thread and its user | a report is its kind, device, name and strength |
| `SnifferCapture` | `sniffer_capture` with the main and the sniffer thread, Wireshark and the board | packets but for their strength; which device is followed; what keys and hops are but readable or not |
| `BleConnect` | the central, event by event; the SoftDevice and its event queue are external | what is discovered, parameters, PHYs |
| `MCMesh`, `MCMeshMain`, `MCFraming`, `MCPacket`, `MCCollector` | instances for TLC | |
| `MeshNodeProofs` | lemmas about `BitQueue`, `Revision` and every operator of `MeshNode`, for the next three | |
| `QueueAndCopyProofs`, `MeshProofs`, `MeshMainProofs` | theorems about `SendQueue` and `RegisterCopy`, `Mesh`, `MeshMain` | |
| `SnifferSerialProofs` | theorems about `SnifferUart`, `SnifferFraming` and `SnifferPacket` | |
| `SnifferCollectorProofs`, `SnifferCaptureProofs`, `BleConnectProofs` | theorems | |

`Mesh` and `MeshMain` compose `MeshNode`, which composes `BitQueue` and `Revision`.
`SendQueue` refines `PendingSet`; `Mesh` refines `Replicas`; `SnifferUart` refines `ByteStream`;
`SnifferFraming` refines `PacketChannel`. The sniffer's modules are layers: each takes what the one
below promises as its input (`SnifferFraming` a line of bytes, `SnifferCollector` parsed reports,
`SnifferCapture` packets), with losses and time-outs on top.

Correspondence worth knowing:

- Operators of `MeshNode` bear the names of the C functions. A function that calls another
  applies its operator, so a handler is one composition and one action.
- `q_pop` returns the new `ptr`; the popped register is `q_pop(q).ptr`.
- The shift by -1 in `q_push` is undefined in C. The shifter of the Cortex-M4 takes the low
  byte of the count and gives 0, and a result above bit 7 would be cut off by the store:
  every outcome the build can produce leaves the byte as it was (`PushBits`).
- Byte 23, the only byte of a register an application uses, is a number without wrap: the
  code reads its parity only (`set_leds`) and increments it. So `data` is also the true
  number of the write, which `NeverMixed` and `Replicas` use. The revision does wrap.
- `heard`, `ticked`, `writes` (and `waiting`, `overtaken` in `SendQueue`) are auxiliary:
  no operator that models code reads them except through `MayTick` and `AdvertisingTimeout`,
  which stand for time.
- `count` of `proj_beef_request` selects register `(1 + 3*count) % 12`: registers 1, 4, 7, 10
  in turn, also across its wrap at 256. `Rota` lists them and `count` is kept modulo its length.
- In `SnifferUart` a step is one access to the deque, to the Event or to a flag: that is what
  CPython makes atomic. `read_queue` and `data_read` hold the numbers of the bytes.
- `callbackLock` of `SnifferCapture` is an RLock. What the sniffer thread does under it, a write to a
  pipe of Wireshark's, is a step of its own (`Write`, `TellDevice`); the main thread's notifications
  (`STATE_CHANGE`, `DEVICE_FOLLOWED`, `TK_SENT`, `APP_EXIT` and so on) call nothing that blocks, so that they
  are one step that waits for the lock (`Announce`, `RequestScan`, `RequestFollow`, `AppExit`).
- A pipe that Wireshark has stopped reading is "stalls": a write or a log line to it is then not enabled. That
  stands for a full pipe; one that still has room is a pipe that is read. To a closed one a write
  raises, on whichever thread it is.
- `_processBLEPacket` reads the state twice: `ListIfFollowing` and `ListIfScanning` of `SnifferCollector`.
- An event of `BleConnect` waits in a queue with the number of its link, and `Called` gives the
  error that a call for that link returns once the link is gone or going.
- Definitions whose comment starts with "Fault" are not part of any specification: each is a
  faulty variant of the definition after it, kept to show that a property notices.

## 3. Runs

| run | question | bounds |
|---|---|---|
| `mesh_line` | is anything stalled, mixed, overridden, replaced by older, on lossy links? | beef - feed - cafe in a line, one register, 3-bit revisions, 18 writes: the revision wraps twice. A copy may fall behind as far as losses let it; what is on air is recent (`AirIsRecent`), since nobody repeats an old copy unasked |
| `mesh_answers` | on reliable links, are requests answered, is only an asked-for copy replaced by an older one, and does everybody end up silent and equal? | beef and feed hear cafe and each other, cafe hears nobody. Cafe writes register 2 twice; beef asks for it at boot and again when it writes register 1, so that it may hold a write and be answered by feed with an older one, or a blank one. Register 0 is what `mesh_init` puts on air |
| `mesh_replaced_by_older` | is a copy ever replaced by an older one when nodes answer without knowing? | 6 writes of register 2, past half the window: *violated*, see 6 |
| `queue_round_robin` | is the queue a fair set? | 16 bits; 1, 7, 9, 15: both ends of both bytes |
| `copy_window` | the comparison and the drop counters at full width | revisions of 8 bits, 300 writes, messages up to 126 writes old |
| `main_request` | does `main` harm what it shares? | one asked register, three foreign messages, one answer |
| `uart` | does the serial port hand over every byte, wake its reader and close? | 4 bytes in reads of 1 or 2, so that the worker extends a deque the reader is in the middle of; an unplugging at any time |
| `framing` | what does a decoder make of damaged frames? | 4 packets of bytes that must all be escaped, counters modulo 3, so that they wrap; one byte lost, one read timed out, anywhere |
| `packet_parse` | is what is handed on consistent, for any input? | every input of `MCPacket`: both versions, all mixes of advertising structures up to the bound, each cut off after every byte |
| `collector` | do buffer, device list and announcements agree? | two devices that may be named, weak or strong, four reports, a buffer that is cut when it holds two: fetches come before, between and after the cuts |
| `capture` | do the threads keep apart, and end? | three toolbar commands in any order, one waiting at a time, one of them perhaps unreadable; one packet under a capture filter; with or without control pipes; every pipe left unread or closed, and the board unplugged, at any time |
| `connect` | does the central only stop for late events, and never idle? | four links, five waiting events |

The queue is scaled to 8 or 16 bits and the revision to 3: what matters is that the map has
more than one byte, that both its ends and the scan's wrap are used, and that the revision wraps with copies
in flight; the proofs of section 5 do not depend on the sizes. In `mesh_*` the counters are cut
to one value (`COUNT_MOD = 1`): no other state depends on them, and `copy_window` follows them.
The bounds of `uart`, `capture` and `connect` are those of the smallest instance in which two rounds
overlap; the theorems of section 5 hold without them.

`CHECK_DEADLOCK FALSE` in the `mesh_*` runs: the bounds on writes end every behaviour in a quiet
network, which is where the real one waits for the next tick; in `framing` and `packet_parse`, which
end when the input is used up; and in `connect`, where the peer may stop doing anything. The other
runs check deadlock.

## 4. The environment and fairness

External code is modelled from how it is used, and marked so in the map:

- `Hear(m, n)` may happen any number of times while `m`'s message is on air, or never. On a
  link in `Reliable` a message whose window is not cut short is heard at least once: about ten
  repetitions in 1040 ms.
- `app_timer_start` ignores a running timer. It cannot fail in the models.
- The advertising timeout (`BLE_ADV_TIMEOUT`, 1040 ms) precedes the mesh timer (1070 ms) of the
  same broadcast: `TimerExpires` waits for it when the timer was started with the message.
- Ticks are 2240 ms or 5000 ms apart, more than two mesh timers: no node ticks twice while one
  mesh timer runs (`ticked`). `BootTogether` says in addition that nodes are switched on within
  1170 ms of each other; `mesh_line` does without.
- The handlers of `app_timer` and of BLE events have the same priority: actions of `Mesh` are
  atomic. `MeshMain` is the one place where something runs at a lower one.
- `MeshMain` also assumes that `main` reaches its idle loop within the 1070 ms of the first
  mesh timer.

Fairness (`Fairness` in `Mesh`): weak for `TimerExpires` and `AdvertisingTimeout`, which are
hardware timers, and for the first reception on a reliable link, which the timeout waits for.
None for the applications: they may stop writing, and `FallsSilent` and `Converges` speak of what
follows when they have. `MeshMain` adds weak fairness of `main`; `SendQueue` of the pop, which the
mesh timer repeats while the queue has data.

`SnifferUart` has weak fairness of each thread's own steps (the interpreter runs them), none of the
bytes, the unplugging or the call of `close`; `CloseEndsThreads` asks in addition that a wait has
a time-out, and says so in its statement, since `readByte` may be called without one. `SnifferFraming`
has it for the reader that takes a byte that is there. `SnifferCapture` has strong fairness of its two
threads: both wait for a lock that the other keeps releasing, and an RLock goes to a thread that keeps
asking. Nothing is assumed of Wireshark or of the process's exit: a write to a pipe that Wireshark
leaves unread is not enabled, so that fairness does not finish it. `StopEndsCapture` has what it needs of Wireshark
as its premise: that the pipes which are written under the lock are read again or closed some time (`CaptureMoves`,
`ControlsMove`). Without the premise it is false, see 6. `BleConnect` has weak fairness of the
event handler, an interrupt; none of the SoftDevice or the peer.

## 5. Proofs

Checked by TLAPS for all values of the constants, under the `ASSUME`s of the modules. Every safety
invariant that a run checks is a theorem.

### The queue and one register

- `QueueIsExact`, `RoundRobin`, `RefinesPendingSet` (`QueueAndCopyProofs`): under `Representable`,
  no pushed register is a multiple of 8. Exactness is inductive with the type. Round robin needs
  to know where the scan is: a register overtaken by `x` lies between the scan position and `x`,
  so `x` will not come again before it. The refinement covers the safety part of `PendingSet`.
- `ComparisonIsRight` (`MeshNodeProofs`): two writes less than `HALF_REVISION` apart are compared
  like their numbers, whatever they are modulo the width.
- `ListenerNotLockedOut`, `ListenerNeverGoesBack`, `DropsAreLosses` (`QueueAndCopyProofs`): under
  `WithinWindow`. For the drops: a listener's counters move only when a message is accepted, and
  then the difference of the revisions is that of the writes unless a wrap lies between them.
  (`RegisterCopy` bears prefixes, `CopySpec` and so on, so that one module can extend it and `SendQueue`.)

### The mesh

- `TypeCorrect`, `NeverStalls` (`MeshProofs`): `Spec => []TypeOK` and `Spec => []NoStall`. The
  inductive invariant is their conjunction: `NoStall` needs the type of the queues to know that a
  pop finds a register, and `TypeOK` of an advertised message needs that registers named by the
  queues exist. Within a handler pacing is broken between a push and the broadcast that follows,
  so the lemmas go function by function: each asks for `Armed` (a broadcasting node's timer runs)
  and gives `Paced` (and everything queued is being broadcast).
- `RevisionFollowsData`, `OwnerStaysNewest`, `CopiesNeverGoBack`, `MeshRefinesReplicas`,
  for every network: the four say what its registers hold, and need one argument. A step is seen
  through the registers only: it is `Quiet`, or one node `Learns` a message on air, or the owner
  `Publishes` (`StepIsVisible`; `Sends` says that what comes on air is a copy of a register). The
  invariant `Safe` joins `NeverMixed` with `OwnerIsNewest` and the equality of the owner's `rev` with
  the revision in its register: the owner increments the data it finds in a register that the mesh
  may write, and the revision in a counter of its own, so neither property is inductive alone.
  An echo does not replace the owner's write because it looks older, which `ComparisonIsRight` gives
  for recent ones. Therefore the four theorems assume `[]AirIsRecent`, which is about messages only: a
  copy may be any number of writes behind. Without it `NeverOlder` is
  false, as `mesh_replaced_by_older` shows. They also assume that no owner asks for its own
  register (`OwnersDoNotAsk`), since a register that was asked for takes any answer.
- `AirStaysRecent` proves that assumption where nobody asks (`NobodyAsks`: networks of `proj_beef`,
  `proj_cafe` and `proj_feed`) and the network is small for the revisions:
  `Cardinality(Node) * (Cardinality(AppReg) + 1) < HALF_REVISION`. In the code `HALF_REVISION` is 127,
  so three nodes with their three registers (12) are well within it, and nine nodes with the twelve
  registers of `rev[12]` (117) still are. `SmallMeshIsSafe` draws the conclusion: in
  such a network, of any shape and however lossy, the four theorems need no assumption on the air.

  The argument counts windows, the time for which one mesh timer runs; an owner ticks at most once in
  each (section 4). A copy waits in a node's queue while the registers before it in the scan go out (`Ahead`), then
  for its own turn on air: at most `WindowsPerHop == Cardinality(AppReg) + 1` windows. `Slack[r][d]` is
  what a copy of write `d` has left: `WindowsPerHop` for every node that has this write or a later one
  (`Holders`), less the writes since. A node forwards only what is news to it, so each copy that is
  queued anew comes with one more holder (`LearningGivesWindows`), a tick costs one
  (`TickIsInTime`, against `ticked`: the tick that may still come while this timer runs is set
  aside as `Fresh`), and a pop brings whatever remains nearer by one place (`PopBringsNearer`). The invariant
  `InTime` says that every queued register has slack for its place in the queue, and what is on air
  for one tick more. `Slack` is at most `Cardinality(Node) * WindowsPerHop` minus the age, hence the
  bound. Two more facts are needed: registers do not go back (`DataGrows`, from `Safe`), since
  otherwise holders were lost, and `UnwrittenIsBlank`, since a node with byte 25 clear takes anything. So
  `AirIsRecent` and `Safe` are proved together: each step uses the recency of the state before it.
  The bound is not tight: `mesh_line` checks `AirIsRecent` in a network with a smaller
  window than the theorem asks for. With requests `AirIsRecent` is false in general: that is
  what `mesh_replaced_by_older` finds.
- `MainTypeCorrect`, `MainPopsData`, `MainStrandsNothing` (`MeshMainProofs`): wherever the handlers
  interrupt `main`. `MainInv` adds to the type and `PopFindsData`: while `main` runs
  `broadcast_next_message`, `m_broadcasting` is set, so that a handler only pushes and never pops;
  what `main` has seen in the send queue is therefore still there (`SeenIsThere`); and a timer
  runs until `main` is idle and as long as there is something to do (`Attended`), which is why
  the push that `main` overlooks when it clears `m_broadcasting` is still sent.

### The sniffer and the central

- `WakeUpsAreKept`, `RefinesByteStream` (`SnifferSerialProofs`): the invariant says where
  each byte is: `delivered`, the deque and the worker's last read are consecutive stretches of what
  came in (`InOrder`), from which a pop is a step of `ByteStream`. For the wake-ups one more fact is
  needed: only the reader clears the Event, so it is still set when the woken reader clears it.
- `GapsAreReal` and `FramingIsChannel` (`SnifferSerialProofs`): any payloads of bytes, any wrap of the counter, any
  number of packets and timeouts. The invariant `FramingInv` says what the line and the decoder have to do with
  each other. The line is what remains of the encodings, in order (`Places` names for each byte the packet and the
  place in its encoding). The decoder, whose next byte is the byte `p` of packet `n` (`DecoderAt`), looks for a
  START; or has what the bytes before `p` mean (`InStep`); or has lost a byte of this packet (`OutOfStep`); or has
  missed an END and `RunsOn`. Each lemma `...GoesOn` follows one of these over a byte. Out of step, the decoder may return a
  wrong packet at END, which is why the channel allows it for a packet that lost a byte. Running on, it never
  returns one: its bytes are as many as their length says before the next START is added, and that START, which is
  not escaped, makes them more. `GapsAreReal` holds for any number of lost bytes, `FramingIsChannel` for at most
  one (`FewLost`), and for two it is false: if a packet loses its length byte and its END, its counter is taken for
  the length, which may fit the two packets together. The channel has no fairness, so that the theorem is the whole of
  `ImplementsPacketChannel`.

  The encoder is the library's `FlattenSeq`, a recursive function. That it puts the pieces behind each other
  (`FlattenIsRecursive`, `FlattenPlaces`) is proved by induction over the number of pieces, in the form that the provers
  can take: a set of numbers with 0 and every successor is all of them (`NatSetInduction`, from the
  well-foundedness of `<`). (`SnifferFraming`'s operators are called `FramingSpec` and so on, so that
  one module can extend it and `SnifferUart`.)
- `PaddingGoesAway`, `OKMeansComplete`, `NamesAreFound` (`SnifferSerialProofs`): for every list of bytes, as long as the
  board sends a byte of padding behind the first six bytes of the packet (`InputsAssumption`, which also says
  what an input was made of). The invariant is that the packet is the one made of the list; the
  work is in what `Packet` makes of it. `ShorterIsRight`: the list without the padding, its length written back in one
  byte or in two, counts itself, and since only the padding is missing, `AirComesBack`. `OKIsWhole`: the only way to
  `OK` is an event packet that reaches beyond the padding, so that every attribute that `BlePacket` reads is there.
  The loop over the advertising data is a recursive function. `WalkExists` shows that there is one, from the
  end of the list downwards, since the walk only goes up; `StructuresLie` carries the places of the flattened
  structures over to the packet; `WalkFindsName` then goes from the last structure to the first. What ends the
  structures is arbitrary: nothing, a zero, or bytes that claim a structure that does not fit.
- `FetchesAreInOrder` (`SnifferCollectorProofs`): `PacketInv` states the order of each list by itself and
  that everything fetched or trimmed came before everything buffered (`Before`); the lemmas
  `OrderOfConcat` and `OrderOfAppend` turn that into the order of the concatenation. Whether a
  fetch, a trim or an arrival comes first does not matter to it.
- `DevicesAreListedOnce`, `NotificationsKeepUp`: `DeviceInv` keeps for each listed device what a
  subscriber was shown. The code announces an update only if name or strength changed enough; what it does
  not announce it does not store either, which is why the two still agree.
- `PipeOutlivesWrites`, `DefaultsComeFirst`, `ModesStayTogether` (`SnifferCaptureProofs`):
  `WritesToOpenPipe` is not inductive, since it says nothing of a thread that is about to be notified
  when the pipe is closed. `PipeClosedLast` adds it: once main is past `clearCallbacks`, there are no
  callbacks, and no write is under way because the lock was free.
- `EndsHaveReasons` proves the action property `ThreadsEndForAReason`, in which the exit code tells the
  causes apart. Its invariant `ReasonsInv` says that the exit code is only set on the way out, and that past
  the setup the board is there or was unplugged, so that a request which raises has that cause; the work is to
  go through all steps that end a thread.
- `HaltsAreLate`, `LooksForLinks` (`BleConnectProofs`): why does the event of one link never meet the
  discovery of another? Because the disconnection is the last event of the queue while it waits
  (`LastWord`): nothing is looked for before it is handled, and then nothing of the old link is left
  (`CleanStart`). The lemmas `Appending` and `Taking` say what a queue operation does to "an event
  waits", "at most one waits" and "only the last".

### Model-checked only

- Liveness and the fairness part of the refinements (`FallsSilent`, `QueuedIsSent`, `Converges`,
  `RequestIsAnswered`, `SettlesDown`, `CloseEndsThreads`, `StopEndsCapture`, `NoLinkHangs`, `Resync`;
  `ImplementsPendingSet` and `ImplementsByteStream`, whose safety parts are theorems): outside TLAPS.
- `ImplementsReplicas` where somebody asks and copies on air may be old: the run has it, the theorem assumes
  `AirIsRecent`.
- `ImplementsPacketChannel` where two bytes or more are lost: it fails (above).
- `AirIsRecent` where somebody asks: it depends on who is asked when, and fails in general.

## 6. Disagreements between the code and what it says

Of the mesh:

1. `q_push` loses registers 0, 8, 16, ...: the shift count is -1. The comment beside it describes a
   bit for every register. `QueueIsExact` therefore assumes `Representable`.
2. A written register can be replaced by an older value (`mesh_replaced_by_older`): a node that never had
   the register answers a request with revision 0, newer than 128..255 by `NEWER_REVISION`. The
   comment says "if register is newer than before".
3. `drops` is not counted when the revision wraps within the gap; `DropsCountLosses` states
   the exception.
4. The request of `proj_beef_request`'s `main` can be lost without ever being on air for a window,
   when a report arrives between the test of `m_broadcasting` and the broadcast; a comment in `main`
   expects light 2 to be set on at once.
5. A request can lose a write for good. `mesh_request_reg` clears byte 25 while the node's own copy may still wait in
   its send queue; an older answer is then stored, and it is the older one that is forwarded. In `mesh_answers` a
   neighbour hears the owner itself and puts it right; where the asking node is the only one that hears the
   owner (`Link` and `Reliable` without `<<cafe, feed>>`), `Converges` fails.

Of the sniffer, as `SnifferUart`, `SnifferFraming` and `SnifferCapture` show it:

6. The Event may be set for a deque that is empty: a read then returns nothing long before its
   time-out is over, which `decodeFromSLIP` takes for a time-out. And the Event that `close` sets may
   be consumed before the reader waits, so that `close` alone does not end a read without a time-out.
7. The log line about missed packets is written, but `missedPackets` is never counted up.
8. `getPackets(-1)`, the default of its argument, returns all packets but the last.
9. The comment at `nrf_sniffer_ble.py:91-93` says that no packet is written until the selected device is found. The
   code holds packets back until the defaults are written, and never again: `write_new_packets` is set once, and
   `follow_device` declares it global and does not touch it. `NothingBeforeDefaults` states what the code does.
10. Closing the controls before INIT leaves `control_read_initial_values` in a loop (`InitAtEnd`).
    This is why `StopEndsCapture` speaks of a capture that was initialised.
11. A Wireshark that stops reading a pipe without closing it holds the capture up: the sniffer thread waits in
    a write under the notifier's lock (`Write`, `TellDevice`), and the main thread waits for the lock, to obey a
    command or to exit. `StopEndsCapture` therefore asks that the pipe is read again or closed some time.
12. A key entered before INIT is kept as bytes, and writing the defaults then fails on encoding it
    (`DefaultsFail`): the capture ends. `ThreadsEndForAReason` names this reason.
13. A key that the pattern at line 318 lets through need not be hexadecimal (`[0-9A-Za-z]`), and a hop sequence is not
    tested at all: `int`, or `sendHopSequence`, raises, and the capture ends with an internal error
    (`CommandUnreadable`).
14. With no board the `finally` block fails on the unbound `sniffer`, and the exit code is lost
    (`SetupFails`).
15. When the board is pulled out the worker ends and nobody is told; the capture goes on without
    packets, until the next command is a request to the board. A malformed packet under a capture filter raises
    in `new_packet` and ends the sniffer thread (`Raises`), and nobody is told either.
16. `_processBLEPacket` reads the state twice: a scan response is listed by neither test when a follow comes
    between them.

Of the central:

17. `db_disc_handler` does not pass the event on to the LED button client, so the notifications that
    the comment in `lbs_c_evt_handler` enables never are (`DiscoveryCompletes`).
18. A connection attempt that times out is not followed by another scan (`gave_up` in `NeverIdle`);
    the configuration sets no such time-out.

## 7. Not modelled

- Restarts of a node. The code saves nothing and recovers nothing: an owner that restarts begins with
  revision 0, and is taken for old until it has passed what the others hold.
- `main`'s `set_leds`; failures of `app_timer` (they halt the board, for good); the acceptance filter on
  key, type and length; FORMAT1 and the ring-buffer variant, which are not compiled; the slow sender (an
  owner that writes rarely) and the queue test.
- The sniffer: finding its port, the baud-rate negotiation (never started), flow control, the capture
  file (one file, appended to by one thread, its header lost if the program ends between opening and
  writing it, and an error of writing it would end the sniffer thread), a keyboard interrupt that comes elsewhere
  than in the loop that waits for it, control messages that are cut short or whose payload is no text or no device that
  `device_added` has sent (each ends the main thread like an unreadable key), logging (the standard library's rotation; `clearLog` never finds its handler), the
  sample programs, the extcap queries that only print.
- The course examples, boards and scripts: no state of their own, or state inside SDK libraries that
  are not in the repository.

## 8. What could come next

1. `Mesh` with a node that resets, and what a request after the restart restores.
2. Requests in `AirStaysRecent`: a node that answers puts an old copy on air; with a bound on how far
   behind the asked nodes are, the argument by windows should go through.
3. `MeshMain` with a second real node and `set_leds` in steps; which registers a torn `q_pop` loses.
4. A tight bound in `AirStaysRecent`, from the length of a path instead of the number of nodes.
