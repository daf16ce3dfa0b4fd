--------------------------- MODULE SnifferCapture ---------------------------
(***************************************************************************)
(* nrf_sniffer_ble.py with the threads of SnifferAPI: the main thread that *)
(* sets up a capture, obeys the toolbar and cleans up; the sniffer thread  *)
(* that passes packets on through callbacks, under the notifier's lock;    *)
(* Wireshark, which sends commands, may stop reading its pipes for as long *)
(* as it likes and may close them; the board, which may be missing or be   *)
(* unplugged.                                                              *)
(*                                                                         *)
(* How a port is closed is SnifferUart, what packets are SnifferPacket.    *)
(* A control message is taken to be whole, its payload to be text, and a   *)
(* device in it to be one that device_added has sent.                      *)
(***************************************************************************)
EXTENDS Naturals, Sequences

CONSTANTS
  MaxCommands,   \* bound: commands of the toolbar, INIT among them
  MaxWaiting,    \* bound: commands that main has not read yet
  MaxPackets,    \* bound: packets that reach new_packet
  RssiFilter     \* whether a capture filter was given

ASSUME CaptureAssumption ==
  /\ MaxCommands \in Nat /\ MaxWaiting \in Nat /\ MaxPackets \in Nat
  /\ RssiFilter \in BOOLEAN

STATE_INITIALIZING == 0
STATE_SCANNING == 1
STATE_FOLLOWING == 2
ERROR_INTERNAL == 4

VARIABLES
  main, sniffer,      \* where the two threads are
  commands,           \* what is in the control-in pipe
  sent,               \* how many commands the toolbar has sent
  controls,           \* whether Wireshark reads the control pipes, lets them fill up
                      \* ("stalls") or has closed them; "none" if it gave none
  capture,            \* the same of the capture pipe
  board,              \* "missing", "plugged" or "unplugged"
  state,              \* Sniffer.state
  in_follow_mode, write_new_packets,
  key_set,            \* last_used_key has been replaced by a command's payload
  exit_set,           \* Sniffer._exit
  callbacks,          \* the notifier still has its callbacks
  callbackLock,       \* "free" or the thread that holds it
  log_handler,        \* logging also goes to the control-out pipe
  fn_capture,         \* main's end of the capture pipe is open
  packet,             \* the RSSI of the packet that is to be notified
  packets,            \* how many packets there have been
  exit_code

env == <<commands, sent, controls, capture, board>>
modes == <<state, in_follow_mode, write_new_packets, key_set>>
shared == <<exit_set, callbacks, callbackLock, log_handler, fn_capture>>
vars == <<main, sniffer, env, modes, shared, packet, packets, exit_code>>

\* A key that passes the test of set_passkey_or_OOB need not be hexadecimal, nor a hop
\* sequence made of channels: int(), or sendHopSequence, raises.  The toolbar asks
\* Wireshark to let neither through; nothing here relies on it.
Unreadable == {"odd key", "odd hop"}
Commands == {"INIT", "scan", "follow", "key", "hop"} \cup Unreadable

\* A packet's RSSI passes the filter or not; a malformed packet has none.
Packets == {"strong", "weak", "unset"}

Init ==
  /\ main = "setup" /\ sniffer = "off"
  /\ commands = <<>> /\ sent = 0
  /\ controls \in {"none", "reads"} /\ capture = "reads"
  /\ board \in {"missing", "plugged"}
  /\ state = STATE_INITIALIZING
  /\ in_follow_mode = FALSE /\ write_new_packets = FALSE /\ key_set = FALSE
  /\ exit_set = FALSE /\ callbacks = FALSE /\ callbackLock = "free"
  /\ log_handler = (controls # "none") /\ fn_capture = TRUE
  /\ packet = "none" /\ packets = 0
  /\ exit_code = 0

MainAt(from, to) == main = from /\ main' = to
SnifferAt(from, to) == main # "exited" /\ sniffer = from /\ sniffer' = to
-----------------------------------------------------------------------------
\* A request to a board that is gone raises.
Reaches == board = "plugged"

\* A log line is also written to the control-out pipe: it raises when Wireshark has
\* closed it, and does not return while Wireshark does not read it.
LogReturns == log_handler => controls # "stalls"
LogRaises == log_handler /\ controls = "closed"

\* What follows a request to the board and a log line.
Unless(raises, to) == IF raises THEN "teardown" ELSE to

\* Setting up.  Without the board the way out leads through finally, where
\* sniffer is not bound: the UnboundLocalError replaces the exit code, and
\* nothing after it is done.
SetupFails ==
  /\ LogReturns
  /\ ~ Reaches \/ LogRaises \/ capture = "closed"
  /\ MainAt("setup", "exited")
  /\ log_handler' = FALSE
  /\ exit_code' = ERROR_INTERNAL
  /\ UNCHANGED <<sniffer, env, modes, exit_set, callbacks, callbackLock, fn_capture,
                 packet, packets>>

\* The header finds room in the pipe, the Sniffer is made, new_packet and device_added are
\* subscribed.
Setup ==
  /\ LogReturns /\ Reaches /\ ~ LogRaises /\ capture # "closed"
  /\ MainAt("setup", "created")
  /\ callbacks' = TRUE
  /\ UNCHANGED <<sniffer, env, modes, exit_set, callbackLock, log_handler, fn_capture,
                 packet, packets, exit_code>>

\* The first request, announced while main is the only thread.
SetHops ==
  /\ LogReturns
  /\ MainAt("created", Unless(~ Reaches \/ LogRaises, "start"))
  /\ UNCHANGED <<sniffer, env, modes, shared, packet, packets, exit_code>>

Start ==
  /\ LogReturns
  /\ MainAt("start", Unless(LogRaises, "scan"))
  /\ SnifferAt("off", "loop")
  /\ UNCHANGED <<env, modes, shared, packet, packets, exit_code>>

\* sniffer.scan() before the control loop: its state is set, and then announced.
FirstScan ==
  /\ LogReturns
  /\ MainAt("scan", Unless(LogRaises, "scan_told"))
  /\ state' = IF LogRaises THEN state ELSE STATE_SCANNING
  /\ UNCHANGED <<sniffer, env, in_follow_mode, write_new_packets, key_set, shared, packet,
                 packets, exit_code>>

\* Without control pipes packets pass at once, until the keyboard interrupts.
NoControls ==
  /\ controls = "none"
  /\ MainAt("init", "idle")
  /\ write_new_packets' = TRUE
  /\ UNCHANGED <<sniffer, env, state, in_follow_mode, key_set, shared, packet, packets, exit_code>>
-----------------------------------------------------------------------------
\* The control loops.
TakeCommand(command) ==
  /\ commands # <<>> /\ Head(commands) = command
  /\ commands' = Tail(commands)
  /\ UNCHANGED <<sniffer, sent, controls, capture, board, exit_set, callbacks,
                 callbackLock, log_handler, fn_capture, packet, packets>>

\* Whether the initial values are still being read.
Initialising == ~ write_new_packets

Reading == IF Initialising THEN "init" ELSE "loop"

\* In control_read_initial_values INIT ends the loop; later it does nothing.
CommandInit ==
  /\ TakeCommand("INIT")
  /\ MainAt(Reading, IF Initialising THEN "defaults" ELSE "loop")
  /\ UNCHANGED <<modes, exit_code>>

\* What the sniffer has done is announced under the notifier's lock; main waits for it.
Announce ==
  /\ callbackLock = "free"
  /\ \/ MainAt("scan_sent", "scanned")
     \/ MainAt("rescan_sent", "rescanned")
     \/ MainAt("follow_sent", "followed")
     \/ MainAt("key_sent", Reading)
     \/ MainAt("hop_sent", "hopped")
  /\ UNCHANGED <<sniffer, env, modes, shared, packet, packets, exit_code>>

\* A log line at the end.
LogDone ==
  /\ LogReturns
  /\ \E from \in {"scanned", "entered", "hopped", "defaulted"} :
       MainAt(from, Unless(LogRaises, Reading))
  /\ UNCHANGED <<sniffer, env, modes, shared, packet, packets, exit_code>>

\* scan_for_devices: a sniffer that follows scans first.
CommandScan ==
  /\ TakeCommand("scan")
  /\ IF state = STATE_FOLLOWING
       THEN /\ LogReturns
            /\ MainAt(Reading, Unless(LogRaises, "rescan_told"))
            /\ state' = IF LogRaises THEN state ELSE STATE_SCANNING
       ELSE MainAt(Reading, "rescanned") /\ UNCHANGED state
  /\ UNCHANGED <<in_follow_mode, write_new_packets, key_set, exit_code>>

\* _startScanning announces its state before its requests: to scan, and for the key.
RequestScan ==
  /\ callbackLock = "free" /\ LogReturns
  /\ \/ MainAt("scan_told", Unless(~ Reaches \/ LogRaises, "scan_sent"))
     \/ MainAt("rescan_told", Unless(~ Reaches \/ LogRaises, "rescan_sent"))
  /\ UNCHANGED <<sniffer, env, modes, shared, packet, packets, exit_code>>

\* Fault: the mode is kept.
KeepFollowMode ==
  /\ MainAt("rescanned", Reading)
  /\ UNCHANGED <<sniffer, env, modes, shared, packet, packets, exit_code>>

LeaveFollowMode ==
  /\ MainAt("rescanned", Reading)
  /\ in_follow_mode' = FALSE
  /\ UNCHANGED <<sniffer, env, state, write_new_packets, key_set, shared, packet, packets, exit_code>>

\* follow_device logs; DEVICE_FOLLOWED is announced, then the board is asked.
CommandFollow ==
  /\ LogReturns
  /\ TakeCommand("follow")
  /\ MainAt(Reading, Unless(LogRaises, "follow_told"))
  /\ UNCHANGED <<modes, exit_code>>

RequestFollow ==
  /\ callbackLock = "free" /\ LogReturns
  /\ IF Reaches /\ ~ LogRaises
       THEN MainAt("follow_told", "follow_sent") /\ state' = STATE_FOLLOWING
       ELSE MainAt("follow_told", "teardown") /\ UNCHANGED state
  /\ UNCHANGED <<sniffer, env, in_follow_mode, write_new_packets, key_set, shared, packet,
                 packets, exit_code>>

\* The mode is entered 100 ms later.
EnterFollowMode ==
  /\ MainAt("followed", "entered")
  /\ in_follow_mode' = TRUE
  /\ UNCHANGED <<sniffer, env, state, write_new_packets, key_set, shared, packet, packets, exit_code>>

\* set_passkey_or_OOB keeps the payload, as bytes, for the defaults.
CommandKey ==
  /\ LogReturns
  /\ TakeCommand("key")
  /\ MainAt(Reading, Unless(~ Reaches \/ LogRaises, "key_sent"))
  /\ key_set' = TRUE
  /\ UNCHANGED <<state, in_follow_mode, write_new_packets, exit_code>>

\* set_advhop keeps a string, and logs at the end only.
CommandHop ==
  /\ TakeCommand("hop")
  /\ MainAt(Reading, Unless(~ Reaches, "hop_sent"))
  /\ UNCHANGED <<modes, exit_code>>

\* The ValueError of int(), or an InvalidAdvChannel, is no OSError: it goes on to the
\* caller when finally is done.  A key is logged first.
CommandUnreadable ==
  /\ \E command \in Unreadable :
       /\ command = "odd key" => LogReturns
       /\ TakeCommand(command)
       /\ key_set' = (key_set \/ command = "odd key")
       /\ exit_code' = IF command = "odd key" /\ LogRaises THEN exit_code ELSE ERROR_INTERNAL
  /\ MainAt(Reading, "teardown")
  /\ UNCHANGED <<state, in_follow_mode, write_new_packets>>

\* control_write_defaults, and packets are let through.  Bytes cannot be encoded
\* as text: the AttributeError ends the capture before anything is written.
DefaultsFail ==
  /\ key_set
  /\ MainAt("defaults", "teardown")
  /\ exit_code' = ERROR_INTERNAL
  /\ UNCHANGED <<sniffer, env, modes, shared, packet, packets>>

WriteDefaults ==
  /\ ~ key_set /\ LogReturns
  /\ MainAt("defaults", Unless(LogRaises, "defaulted"))
  /\ write_new_packets' = ~ LogRaises
  /\ UNCHANGED <<sniffer, env, state, in_follow_mode, key_set, shared, packet, packets, exit_code>>

\* control_read at the end of the file ends control_loop, and only that one.
EndOfFile == controls = "closed" /\ commands = <<>>

\* Fault: the end of the file is not noticed in the control loop either.
ControlSpins ==
  /\ EndOfFile
  /\ MainAt("loop", "loop")
  /\ UNCHANGED <<sniffer, env, modes, shared, packet, packets, exit_code>>

ControlEnds ==
  /\ EndOfFile
  /\ MainAt("loop", "teardown")
  /\ UNCHANGED <<sniffer, env, modes, shared, packet, packets, exit_code>>

InitAtEnd ==
  /\ EndOfFile
  /\ MainAt("init", "init")
  /\ UNCHANGED <<sniffer, env, modes, shared, packet, packets, exit_code>>
-----------------------------------------------------------------------------
\* The finally block.
Teardown ==
  /\ MainAt("teardown", "exit")
  /\ log_handler' = FALSE
  /\ UNCHANGED <<sniffer, env, modes, exit_set, callbacks, callbackLock, fn_capture,
                 packet, packets, exit_code>>

\* _doExit: _exit is set; APP_EXIT is sent under the lock, and the port is closed.
SetExit ==
  /\ MainAt("exit", "app_exit")
  /\ exit_set' = TRUE
  /\ UNCHANGED <<sniffer, env, modes, callbacks, callbackLock, log_handler, fn_capture,
                 packet, packets, exit_code>>

AppExit ==
  /\ callbackLock = "free"
  /\ MainAt("app_exit", "clear")
  /\ UNCHANGED <<sniffer, env, modes, shared, packet, packets, exit_code>>

\* Fault: the callbacks stay.
ClearNoCallbacks ==
  /\ MainAt("clear", "close_pipes")
  /\ UNCHANGED <<sniffer, env, modes, shared, packet, packets, exit_code>>

\* clearCallbacks waits for a notification that is under way.
ClearCallbacks ==
  /\ MainAt("clear", "close_pipes")
  /\ callbackLock = "free"
  /\ callbacks' = FALSE
  /\ UNCHANGED <<sniffer, env, modes, exit_set, callbackLock, log_handler, fn_capture,
                 packet, packets, exit_code>>

ClosePipes ==
  /\ MainAt("close_pipes", "returned")
  /\ fn_capture' = FALSE
  /\ UNCHANGED <<sniffer, env, modes, exit_set, callbacks, callbackLock, log_handler,
                 packet, packets, exit_code>>

\* The process ends with its main thread.
ProcessExits ==
  /\ MainAt("returned", "exited")
  /\ UNCHANGED <<sniffer, env, modes, shared, packet, packets, exit_code>>

Main ==
  \/ SetupFails \/ Setup \/ SetHops \/ Start \/ FirstScan \/ NoControls
  \/ CommandInit \/ Announce \/ LogDone \/ CommandScan \/ RequestScan \/ LeaveFollowMode
  \/ CommandFollow \/ RequestFollow \/ EnterFollowMode \/ CommandKey \/ CommandHop
  \/ CommandUnreadable \/ DefaultsFail \/ WriteDefaults \/ ControlEnds \/ InitAtEnd
  \/ Teardown \/ SetExit \/ AppExit \/ ClearCallbacks \/ ClosePipes
-----------------------------------------------------------------------------
\* The sniffer thread: Sniffer.run and _continuouslyPipe.
LoopTest ==
  /\ SnifferAt("loop", IF exit_set THEN "dead" ELSE "read")
  /\ UNCHANGED <<main, env, modes, shared, packet, packets, exit_code>>

\* After an unplugging or a close it is what is left in the queue.
GetPacket ==
  /\ packets < MaxPackets /\ packets' = packets + 1
  /\ packet' \in Packets
  /\ SnifferAt("read", "notify")
  /\ UNCHANGED <<main, env, modes, shared, exit_code>>

\* Fault: a timeout is not caught.
TimeoutRaises ==
  /\ SnifferAt("read", "dead")
  /\ UNCHANGED <<main, env, modes, shared, packet, packets, exit_code>>

\* SnifferTimeout is logged, as is a gap; the log may be a broken pipe.
GetPacketTimesOut ==
  /\ LogReturns
  /\ SnifferAt("read", IF LogRaises THEN "dead" ELSE "loop")
  /\ UNCHANGED <<main, env, modes, shared, packet, packets, exit_code>>

\* Fault: packets go out before the toolbar is initialised.
PassesEarly == ~ RssiFilter \/ in_follow_mode \/ packet = "strong"

\* What new_packet lets through.
Passes ==
  /\ write_new_packets
  /\ ~ RssiFilter \/ in_follow_mode \/ packet = "strong"

\* new_packet reads packet.RSSI, which a malformed packet does not have.
Raises == write_new_packets /\ RssiFilter /\ ~ in_follow_mode /\ packet = "unset"

\* notify takes the lock and calls new_packet; the lock is held while that writes, and
\* free again when it returns or raises.
Notify ==
  /\ callbackLock = "free"
  /\ SnifferAt("notify", IF callbacks /\ Raises THEN "dead"
                         ELSE IF callbacks /\ Passes THEN "write" ELSE "devices")
  /\ callbackLock' = IF callbacks /\ Passes THEN "sniffer" ELSE "free"
  /\ packet' = "none"
  /\ UNCHANGED <<main, env, modes, exit_set, callbacks, log_handler, fn_capture, packets,
                 exit_code>>

\* capture_write returns when Wireshark reads, and not before; a broken pipe ends the
\* thread.
Write ==
  /\ capture # "stalls"
  /\ SnifferAt("write", IF capture = "closed" THEN "dead" ELSE "devices")
  /\ callbackLock' = "free"
  /\ UNCHANGED <<main, env, modes, exit_set, callbacks, log_handler, fn_capture, packet,
                 packets, exit_code>>

\* The device list may have news, for device_added and under the lock.
NoNews ==
  /\ SnifferAt("devices", "loop")
  /\ UNCHANGED <<main, env, modes, shared, packet, packets, exit_code>>

NotifyDevice ==
  /\ callbackLock = "free" /\ callbacks
  /\ SnifferAt("devices", "tell")
  /\ callbackLock' = "sniffer"
  /\ UNCHANGED <<main, env, modes, exit_set, callbacks, log_handler, fn_capture, packet,
                 packets, exit_code>>

\* device_added's control_write; that the pipe is broken is logged, to the same pipe.
TellDevice ==
  /\ controls # "stalls"
  /\ SnifferAt("tell", IF LogRaises THEN "dead" ELSE "loop")
  /\ callbackLock' = "free"
  /\ UNCHANGED <<main, env, modes, exit_set, callbacks, log_handler, fn_capture, packet,
                 packets, exit_code>>

Sniffer ==
  \/ LoopTest \/ GetPacket \/ GetPacketTimesOut \/ Notify \/ Write
  \/ NoNews \/ NotifyDevice \/ TellDevice
-----------------------------------------------------------------------------
\* Wireshark, its user and the board.
SendCommand ==
  /\ controls \in {"reads", "stalls"} /\ main # "exited"
  /\ Len(commands) < MaxWaiting
  /\ sent < MaxCommands /\ sent' = sent + 1
  /\ \E command \in Commands : commands' = Append(commands, command)
  /\ UNCHANGED <<main, sniffer, controls, capture, board, modes, shared, packet, packets,
                 exit_code>>

\* Wireshark stops reading a pipe, reads it again, or closes it.
ChangesTo(pipe) == CASE pipe = "reads" -> {"stalls", "closed"}
                     [] pipe = "stalls" -> {"reads", "closed"}
                     [] OTHER -> {}

ChangeControls ==
  /\ main # "exited" /\ controls' \in ChangesTo(controls)
  /\ UNCHANGED <<main, sniffer, commands, sent, capture, board, modes, shared, packet,
                 packets, exit_code>>

ChangeCapture ==
  /\ main # "exited" /\ capture' \in ChangesTo(capture)
  /\ UNCHANGED <<main, sniffer, commands, sent, controls, board, modes, shared, packet,
                 packets, exit_code>>

Unplug ==
  /\ main # "exited" /\ board = "plugged" /\ board' = "unplugged"
  /\ UNCHANGED <<main, sniffer, commands, sent, controls, capture, modes, shared,
                 packet, packets, exit_code>>

Interrupt ==
  /\ MainAt("idle", "teardown")
  /\ UNCHANGED <<sniffer, env, modes, shared, packet, packets, exit_code>>

Environment == SendCommand \/ ChangeControls \/ ChangeCapture \/ Unplug \/ Interrupt

Exited == main = "exited" /\ UNCHANGED vars

Next == Main \/ Sniffer \/ Environment \/ ProcessExits \/ Exited

Spec == Init /\ [][Next]_vars

\* Both threads run: a read ends by its timeout, and the lock goes to a thread that
\* keeps asking for it.  A write to a pipe that Wireshark does not read is not enabled,
\* and nothing makes Wireshark read.  How soon the process ends is left open.
FairSpec ==
  /\ Spec
  /\ SF_vars(Main)
  /\ SF_vars(Sniffer)
-----------------------------------------------------------------------------
\* The capture pipe is never written after main has closed it, nor after its
\* return; clearing the callbacks under the lock is what keeps the thread away.
WritesToOpenPipe == sniffer = "write" => fn_capture

\* Wireshark gets no packet before the toolbar has its defaults, so that none
\* lands in the capture under settings the user does not see.
NothingBeforeDefaults ==
  sniffer = "write" =>
    main \notin {"setup", "created", "start", "scan", "scan_told", "scan_sent", "scanned",
                 "init", "defaults"}

\* Whenever the next command is read, the filter's mode is that of the sniffer.
ModesAgree ==
  main \in {"init", "idle", "loop"} => (in_follow_mode <=> state = STATE_FOLLOWING)

\* For ever is how long Wireshark may leave the pipes unread that a thread writes to.
Ended == main \in {"returned", "exited"} /\ ~ fn_capture
CaptureMoves == []<>(capture # "stalls")
ControlsMove == []<>(controls # "stalls")

\* A capture that was initialised ends when Wireshark closes its controls, and its own
\* pipes are closed.  An unplugged board is noticed by the next command that is for it.
\* The sniffer thread that is told to exit does, unless the process ends first.  All
\* this as long as Wireshark does not leave unread for ever the pipe that the sniffer
\* thread writes to under the lock: then main waits for the lock, and so does its end.
StopEndsCapture ==
  /\ CaptureMoves => ((write_new_packets /\ controls = "closed") ~> Ended)
  /\ CaptureMoves /\ ControlsMove =>
       /\ (/\ main = "loop" /\ board = "unplugged"
           /\ commands # <<>> /\ Head(commands) \in {"follow", "key", "hop"}) ~> Ended
       /\ exit_set ~> (sniffer \in {"off", "dead"} \/ main = "exited")

\* Both threads end for a known reason only, and the exit code tells which.  The main
\* thread: without an error because Wireshark has closed the controls, the board did not
\* get a request, or the user interrupts; with one because a key was to be sent back as
\* a default or a command could not be read.  Neither the lock nor what the sniffer thread
\* does makes it end.  The sniffer thread, which nobody watches: because it was told to,
\* Wireshark has gone, or a malformed packet meets a capture filter; not for a timeout,
\* and not for a board that is unplugged.
ThreadsEndForAReason ==
  [][/\ main' = "teardown" /\ main # "teardown" =>
          IF exit_code' = 0
            THEN controls = "closed" \/ board = "unplugged" \/ main = "idle"
            ELSE \/ main = "defaults" /\ key_set
                 \/ commands # <<>> /\ Head(commands) \in Unreadable
     /\ sniffer' = "dead" /\ sniffer # "dead" =>
          \/ exit_set \/ controls = "closed" \/ capture = "closed"
          \/ RssiFilter /\ packet = "unset"]_vars
=============================================================================
