------------------------ MODULE SnifferCaptureProofs ------------------------
(***************************************************************************)
(* What keeps the two threads of a capture apart, for any number of        *)
(* commands and packets, with or without a capture filter.                 *)
(***************************************************************************)
EXTENDS SnifferCapture, TLAPS

\* The notifier's lock.
LockHeld == callbackLock = IF sniffer \in {"write", "tell"} THEN "sniffer" ELSE "free"

\* Until main has cleared the callbacks the pipe is open; from then on the sniffer
\* thread cannot get to a write.  WritesToOpenPipe alone says nothing of a thread
\* that is about to be notified when the pipe is closed.
PipeClosedLast ==
  /\ fn_capture \/ main \in {"returned", "exited"}
  /\ main \in {"close_pipes", "returned"} => ~ callbacks
  /\ main \in {"close_pipes", "returned", "exited"} => sniffer # "write"
  /\ main = "setup" => sniffer = "off"

\* Packets are let through by the defaults, and never held back again.
PassingAfterDefaults ==
  /\ write_new_packets =>
       main \notin {"setup", "created", "start", "scan", "scan_told", "scan_sent", "scanned",
                    "init", "defaults"}
  /\ sniffer = "write" => write_new_packets

\* Within a command the modes differ: it has already changed the sniffer's.
ModesWithinCommand ==
  /\ main \in {"setup", "created", "start", "scan", "scan_told", "scan_sent", "scanned", "init",
              "idle", "defaults", "defaulted", "loop", "follow_told", "entered", "key_sent",
              "hop_sent", "hopped"} =>
       (in_follow_mode <=> state = STATE_FOLLOWING)
  /\ main \in {"rescan_told", "rescan_sent", "rescanned"} => state # STATE_FOLLOWING
  /\ main \in {"follow_sent", "followed"} => state = STATE_FOLLOWING
  /\ main \in {"setup", "created", "start", "scan"} => ~ in_follow_mode

CaptureInv == LockHeld /\ PipeClosedLast /\ PassingAfterDefaults /\ ModesWithinCommand

\* The invariant holds at the start.
LEMMA CaptureInit == Init => CaptureInv
BY DEF Init, CaptureInv, LockHeld, PipeClosedLast, PassingAfterDefaults, ModesWithinCommand,
       STATE_INITIALIZING, STATE_FOLLOWING

\* What the environment does concerns neither thread; an interrupt only ends the idling.
LEMMA EnvironmentStep == CaptureInv /\ Environment => CaptureInv'
<1> SUFFICES ASSUME CaptureInv, Environment PROVE CaptureInv'
  OBVIOUS
<1>1. CASE SendCommand \/ ChangeControls \/ ChangeCapture \/ Unplug
  BY <1>1 DEF SendCommand, ChangeControls, ChangeCapture, Unplug, modes, shared,
       CaptureInv, LockHeld, PipeClosedLast, PassingAfterDefaults, ModesWithinCommand
<1>2. CASE Interrupt
  BY <1>2 DEF Interrupt, MainAt, modes, shared,
       CaptureInv, LockHeld, PipeClosedLast, PassingAfterDefaults, ModesWithinCommand
<1> QED BY <1>1, <1>2 DEF Environment

\* Setting up.
LEMMA SetupStep ==
  ASSUME CaptureInv, SetupFails \/ Setup \/ SetHops \/ Start \/ FirstScan \/ NoControls
  PROVE  CaptureInv'
<1> USE DEF CaptureInv, LockHeld, PipeClosedLast, PassingAfterDefaults, ModesWithinCommand,
            MainAt, SnifferAt, Unless, modes, shared
<1>1. CASE SetupFails BY <1>1 DEF SetupFails
<1>2. CASE Setup BY <1>2 DEF Setup
<1>3. CASE SetHops BY <1>3 DEF SetHops
<1>4. CASE Start BY <1>4 DEF Start
<1>5. CASE FirstScan
  <2>1. CASE LogRaises BY <1>5, <2>1 DEF FirstScan
  <2>2. CASE ~ LogRaises BY <1>5, <2>2 DEF FirstScan, STATE_SCANNING, STATE_FOLLOWING
  <2> QED BY <2>1, <2>2
<1>6. CASE NoControls BY <1>6 DEF NoControls
<1> QED BY <1>1, <1>2, <1>3, <1>4, <1>5, <1>6

\* Where main reads its commands, and that it may go back to.
LEMMA ReadingPlace ==
  ASSUME CaptureInv, main = Reading
  PROVE  /\ main \in {"init", "loop"}
         /\ main = "init" <=> ~ write_new_packets
         /\ in_follow_mode <=> state = STATE_FOLLOWING
BY DEF Reading, Initialising, CaptureInv, ModesWithinCommand

\* What a command leaves alone for the sniffer thread, and what it must see to for the
\* rest of the invariant.
LEMMA CommandKeepsPipes ==
  ASSUME CaptureInv,
         UNCHANGED <<sniffer, callbacks, callbackLock, fn_capture>>,
         main \notin {"setup", "close_pipes", "returned", "exited"},
         main' \notin {"setup", "close_pipes", "returned", "exited"}
  PROVE  LockHeld' /\ PipeClosedLast'
BY DEF CaptureInv, LockHeld, PipeClosedLast

\* The commands of the toolbar.
LEMMA CommandStep ==
  ASSUME CaptureInv,
         \/ CommandInit \/ CommandScan \/ CommandFollow \/ CommandKey \/ CommandHop
         \/ CommandUnreadable
  PROVE  CaptureInv'
<1>1. main = Reading
  BY DEF CommandInit, CommandScan, CommandFollow, CommandKey, CommandHop, CommandUnreadable, MainAt
<1>2. /\ main \in {"init", "loop"}
      /\ main = "init" <=> ~ write_new_packets
      /\ in_follow_mode <=> state = STATE_FOLLOWING
  BY <1>1, ReadingPlace
<1>3. UNCHANGED <<sniffer, callbacks, callbackLock, fn_capture, write_new_packets, in_follow_mode>>
  BY DEF CommandInit, CommandScan, CommandFollow, CommandKey, CommandHop, CommandUnreadable,
         TakeCommand, modes
<1>4. main' \in {"init", "loop", "defaults", "rescan_told", "rescanned", "follow_told",
                 "key_sent", "hop_sent", "teardown"}
  BY <1>1, <1>2 DEF CommandInit, CommandScan, CommandFollow, CommandKey, CommandHop,
                   CommandUnreadable, MainAt, Unless
<1>5. LockHeld' /\ PipeClosedLast'
  BY <1>2, <1>3, <1>4, CommandKeepsPipes
<1>6. PassingAfterDefaults'
  <2>1. write_new_packets => main' \notin {"init", "defaults"}
    BY <1>1, <1>2 DEF CommandInit, CommandScan, CommandFollow, CommandKey, CommandHop,
                     CommandUnreadable, MainAt, Unless, Initialising
  <2> QED BY <1>3, <1>4, <2>1 DEF PassingAfterDefaults, CaptureInv
<1>7. ModesWithinCommand'
  <2>1. CASE CommandScan
    <3>1. CASE main' \in {"rescan_told", "rescanned"}
      BY <2>1, <3>1 DEF CommandScan, MainAt, Unless, ModesWithinCommand, STATE_SCANNING,
                       STATE_FOLLOWING
    <3>2. CASE main' = "teardown"
      BY <3>2 DEF ModesWithinCommand
    <3> QED BY <2>1, <3>1, <3>2 DEF CommandScan, MainAt, Unless
  <2>2. CASE ~ CommandScan
    <3>1. UNCHANGED state
      BY <2>2 DEF CommandInit, CommandFollow, CommandKey, CommandHop, CommandUnreadable, modes
    <3>2. main' \notin {"rescan_told", "rescanned"}
      BY <1>1, <1>2, <2>2 DEF CommandInit, CommandFollow, CommandKey, CommandHop,
                             CommandUnreadable, MainAt, Unless
    <3> QED BY <1>2, <1>3, <1>4, <3>1, <3>2 DEF ModesWithinCommand
  <2> QED BY <2>1, <2>2
<1> QED BY <1>5, <1>6, <1>7 DEF CaptureInv

\* What follows a command, and the end of the commands.
LEMMA RequestStep ==
  ASSUME CaptureInv,
         \/ Announce \/ LogDone \/ RequestScan \/ LeaveFollowMode \/ RequestFollow
         \/ EnterFollowMode \/ DefaultsFail \/ WriteDefaults \/ ControlEnds \/ InitAtEnd
  PROVE  CaptureInv'
<1> USE DEF CaptureInv, LockHeld, PipeClosedLast, PassingAfterDefaults, ModesWithinCommand,
            MainAt, Unless, Reading, Initialising, modes, shared
<1>1. CASE Announce BY <1>1 DEF Announce
<1>2. CASE LogDone BY <1>2 DEF LogDone
<1>3. CASE RequestScan BY <1>3 DEF RequestScan
<1>4. CASE LeaveFollowMode BY <1>4 DEF LeaveFollowMode
<1>5. CASE RequestFollow BY <1>5 DEF RequestFollow
<1>6. CASE EnterFollowMode BY <1>6 DEF EnterFollowMode
<1>7. CASE DefaultsFail BY <1>7 DEF DefaultsFail
<1>8. CASE WriteDefaults BY <1>8 DEF WriteDefaults
<1>9. CASE ControlEnds BY <1>9 DEF ControlEnds
<1>10. CASE InitAtEnd BY <1>10 DEF InitAtEnd
<1> QED BY <1>1, <1>2, <1>3, <1>4, <1>5, <1>6, <1>7, <1>8, <1>9, <1>10

\* Cleaning up: with the lock free, ClearCallbacks finds no write under way.
LEMMA CleanUpStep ==
  ASSUME CaptureInv,
         Teardown \/ SetExit \/ AppExit \/ ClearCallbacks \/ ClosePipes \/ ProcessExits
  PROVE  CaptureInv'
<1> USE DEF CaptureInv, LockHeld, PipeClosedLast, PassingAfterDefaults, ModesWithinCommand,
            MainAt, modes, shared
<1>1. CASE Teardown BY <1>1 DEF Teardown
<1>2. CASE SetExit BY <1>2 DEF SetExit
<1>3. CASE AppExit BY <1>3 DEF AppExit
<1>4. CASE ClearCallbacks BY <1>4 DEF ClearCallbacks
<1>5. CASE ClosePipes BY <1>5 DEF ClosePipes
<1>6. CASE ProcessExits BY <1>6 DEF ProcessExits
<1> QED BY <1>1, <1>2, <1>3, <1>4, <1>5, <1>6

\* The sniffer thread: Notify needs callbacks, and so is never a way to a write
\* once they are cleared.
LEMMA SnifferStep ==
  ASSUME CaptureInv, Sniffer
  PROVE  CaptureInv'
<1> USE DEF CaptureInv, LockHeld, PipeClosedLast, PassingAfterDefaults, ModesWithinCommand,
            SnifferAt, env, modes, shared
<1>1. CASE LoopTest BY <1>1 DEF LoopTest
<1>2. CASE GetPacket BY <1>2 DEF GetPacket
<1>3. CASE GetPacketTimesOut BY <1>3 DEF GetPacketTimesOut
<1>4. CASE Notify
  <2>1. CASE callbacks /\ Passes
    <3>1. write_new_packets /\ ~ Raises
      BY <2>1 DEF Passes, Raises
    <3> QED BY <1>4, <2>1, <3>1 DEF Notify
  <2>2. CASE ~ (callbacks /\ Passes)
    BY <1>4, <2>2 DEF Notify
  <2> QED BY <2>1, <2>2
<1>5. CASE Write BY <1>5 DEF Write
<1>6. CASE NoNews BY <1>6 DEF NoNews
<1>7. CASE NotifyDevice BY <1>7 DEF NotifyDevice
<1>8. CASE TellDevice BY <1>8 DEF TellDevice
<1> QED BY <1>1, <1>2, <1>3, <1>4, <1>5, <1>6, <1>7, <1>8 DEF Sniffer

\* Every step keeps the invariant.
LEMMA CaptureStep == CaptureInv /\ [Next]_vars => CaptureInv'
<1> SUFFICES ASSUME CaptureInv, [Next]_vars PROVE CaptureInv'
  OBVIOUS
<1>1. CASE Main
  BY <1>1, SetupStep, CommandStep, RequestStep, CleanUpStep DEF Main
<1>2. CASE Sniffer
  BY <1>2, SnifferStep
<1>3. CASE Environment
  BY <1>3, EnvironmentStep
<1>4. CASE ProcessExits
  BY <1>4, CleanUpStep
<1>5. CASE UNCHANGED vars
  BY <1>5 DEF vars, shared, modes, CaptureInv, LockHeld, PipeClosedLast,
              PassingAfterDefaults, ModesWithinCommand
<1> QED BY <1>1, <1>2, <1>3, <1>4, <1>5 DEF Next, Exited

LEMMA CaptureInvariant == Spec => []CaptureInv
<1>1. Init => CaptureInv BY CaptureInit
<1>2. CaptureInv /\ [Next]_vars => CaptureInv' BY CaptureStep
<1> QED BY <1>1, <1>2, PTL DEF Spec

\* new_packet never writes to a pipe that sniffer_capture has closed.
THEOREM PipeOutlivesWrites == Spec => []WritesToOpenPipe
<1>1. CaptureInv => WritesToOpenPipe
  BY DEF CaptureInv, PipeClosedLast, WritesToOpenPipe
<1> QED BY <1>1, CaptureInvariant, PTL

\* No packet passes before control_write_defaults.
THEOREM DefaultsComeFirst == Spec => []NothingBeforeDefaults
<1>1. CaptureInv => NothingBeforeDefaults
  BY DEF CaptureInv, PassingAfterDefaults, NothingBeforeDefaults
<1> QED BY <1>1, CaptureInvariant, PTL

\* Between two commands in_follow_mode is the state of the sniffer.
THEOREM ModesStayTogether == Spec => []ModesAgree
<1>1. CaptureInv => ModesAgree
  BY DEF CaptureInv, ModesWithinCommand, ModesAgree
<1> QED BY <1>1, CaptureInvariant, PTL
-----------------------------------------------------------------------------
\* What the reasons for the threads' ends rest on: without a board no command is
\* ever obeyed, and an exit code is set on the way out only.
Leaving == {"teardown", "exit", "app_exit", "clear", "close_pipes", "returned", "exited"}

ReasonsInv ==
  /\ board \in {"missing", "plugged", "unplugged"}
  /\ board = "missing" => main \in {"setup", "exited"}
  /\ exit_code = 0 \/ main \in Leaving

LEMMA ReasonsInit == Init => ReasonsInv
BY DEF Init, ReasonsInv

\* Setting up: it ends at once without a board.
LEMMA ReasonsSetupStep ==
  ASSUME ReasonsInv, SetupFails \/ Setup \/ SetHops \/ Start \/ FirstScan \/ NoControls
  PROVE  ReasonsInv'
<1> USE DEF ReasonsInv, Leaving, MainAt, env
<1>1. CASE SetupFails BY <1>1 DEF SetupFails
<1>2. CASE Setup BY <1>2 DEF Setup, Reaches
<1>3. CASE SetHops BY <1>3 DEF SetHops
<1>4. CASE Start BY <1>4 DEF Start
<1>5. CASE FirstScan BY <1>5 DEF FirstScan
<1>6. CASE NoControls BY <1>6 DEF NoControls
<1> QED BY <1>1, <1>2, <1>3, <1>4, <1>5, <1>6

\* The control loops leave the exit code alone but for two errors, which end them.
LEMMA ReasonsLoopStep ==
  ASSUME ReasonsInv,
         \/ CommandInit \/ Announce \/ LogDone \/ CommandScan \/ RequestScan
         \/ LeaveFollowMode \/ CommandFollow \/ RequestFollow \/ EnterFollowMode
         \/ CommandKey \/ CommandHop \/ CommandUnreadable \/ DefaultsFail \/ WriteDefaults
         \/ ControlEnds \/ InitAtEnd
  PROVE  ReasonsInv'
<1>1. UNCHANGED board
  BY DEF CommandInit, Announce, LogDone, CommandScan, RequestScan, LeaveFollowMode,
         CommandFollow, RequestFollow, EnterFollowMode, CommandKey, CommandHop,
         CommandUnreadable, DefaultsFail, WriteDefaults, ControlEnds, InitAtEnd, TakeCommand, env
<1>2. main \notin Leaving /\ main # "setup"
  BY DEF CommandInit, Announce, LogDone, CommandScan, RequestScan, LeaveFollowMode,
         CommandFollow, RequestFollow, EnterFollowMode, CommandKey, CommandHop,
         CommandUnreadable, DefaultsFail, WriteDefaults, ControlEnds, InitAtEnd, MainAt,
         Reading, Leaving
<1>3. UNCHANGED exit_code \/ main' = "teardown"
  BY DEF CommandInit, Announce, LogDone, CommandScan, RequestScan, LeaveFollowMode,
         CommandFollow, RequestFollow, EnterFollowMode, CommandKey, CommandHop,
         CommandUnreadable, DefaultsFail, WriteDefaults, ControlEnds, InitAtEnd, MainAt
<1> QED BY <1>1, <1>2, <1>3 DEF ReasonsInv, Leaving

\* On the way out nothing changes any more.
LEMMA ReasonsCleanUpStep ==
  ASSUME ReasonsInv,
         Teardown \/ SetExit \/ AppExit \/ ClearCallbacks \/ ClosePipes \/ ProcessExits
  PROVE  ReasonsInv'
<1>1. UNCHANGED <<board, exit_code>>
  BY DEF Teardown, SetExit, AppExit, ClearCallbacks, ClosePipes, ProcessExits, env
<1>2. main \notin {"setup", "exited"} /\ main' \in Leaving
  BY DEF Teardown, SetExit, AppExit, ClearCallbacks, ClosePipes, ProcessExits, MainAt, Leaving
<1> QED BY <1>1, <1>2 DEF ReasonsInv

LEMMA ReasonsOtherStep ==
  ASSUME ReasonsInv, Sniffer \/ Environment \/ UNCHANGED vars
  PROVE  ReasonsInv'
<1>1. CASE Sniffer \/ UNCHANGED vars
  BY <1>1 DEF Sniffer, LoopTest, GetPacket, GetPacketTimesOut, Notify, Write, NoNews,
              NotifyDevice, TellDevice, env, vars, ReasonsInv
<1>2. CASE SendCommand \/ ChangeControls \/ ChangeCapture \/ Unplug
  BY <1>2 DEF SendCommand, ChangeControls, ChangeCapture, Unplug, ReasonsInv
<1>3. CASE Interrupt
  BY <1>3 DEF Interrupt, MainAt, env, ReasonsInv, Leaving
<1> QED BY <1>1, <1>2, <1>3 DEF Environment

LEMMA ReasonsStep == ReasonsInv /\ [Next]_vars => ReasonsInv'
<1> SUFFICES ASSUME ReasonsInv, [Next]_vars PROVE ReasonsInv'
  OBVIOUS
<1>1. CASE Main \/ ProcessExits
  BY <1>1, ReasonsSetupStep, ReasonsLoopStep, ReasonsCleanUpStep DEF Main
<1>2. CASE Sniffer \/ Environment \/ UNCHANGED vars
  BY <1>2, ReasonsOtherStep
<1> QED BY <1>1, <1>2 DEF Next, Exited

\* A step that fails has met a broken pipe or an unplugged board.
LEMMA FailureHasReason ==
  ASSUME ReasonsInv, main \notin {"setup", "exited"}, ~ Reaches \/ LogRaises
  PROVE  controls = "closed" \/ board = "unplugged"
BY DEF ReasonsInv, Reaches, LogRaises

\* Why main is on its way out, and with which code.
MainHasReason ==
  IF exit_code' = 0
    THEN controls = "closed" \/ board = "unplugged" \/ main = "idle"
    ELSE \/ main = "defaults" /\ key_set
         \/ commands # <<>> /\ Head(commands) \in Unreadable

\* Setting up, and the first scan.
LEMMA SetupEndHasReason ==
  ASSUME ReasonsInv, SetupFails \/ Setup \/ SetHops \/ Start \/ FirstScan \/ NoControls,
         main' = "teardown"
  PROVE  MainHasReason
<1>1. SetHops \/ Start \/ FirstScan
  BY DEF SetupFails, Setup, NoControls, MainAt
<1>2. main \notin {"setup", "exited"} /\ main \notin Leaving /\ exit_code' = exit_code
  BY <1>1 DEF SetHops, Start, FirstScan, MainAt, Leaving
<1>3. ~ Reaches \/ LogRaises
  BY <1>1 DEF SetHops, Start, FirstScan, MainAt, Unless
<1> QED BY <1>2, <1>3, FailureHasReason DEF MainHasReason, ReasonsInv

\* The control loops.
LEMMA LoopEndHasReason ==
  ASSUME ReasonsInv, main' = "teardown",
         \/ CommandInit \/ Announce \/ LogDone \/ CommandScan \/ RequestScan
         \/ LeaveFollowMode \/ CommandFollow \/ RequestFollow \/ EnterFollowMode
         \/ CommandKey \/ CommandHop \/ CommandUnreadable \/ DefaultsFail \/ WriteDefaults
         \/ ControlEnds \/ InitAtEnd
  PROVE  MainHasReason
<1>1. main \notin Leaving /\ main \notin {"setup", "exited"}
  BY DEF CommandInit, Announce, LogDone, CommandScan, RequestScan, LeaveFollowMode,
         CommandFollow, RequestFollow, EnterFollowMode, CommandKey, CommandHop,
         CommandUnreadable, DefaultsFail, WriteDefaults, ControlEnds, InitAtEnd, MainAt,
         Reading, Leaving
<1>2. exit_code = 0
  BY <1>1 DEF ReasonsInv
<1>3. CASE LogDone \/ CommandScan \/ RequestScan \/ CommandFollow \/ RequestFollow
           \/ CommandKey \/ CommandHop \/ WriteDefaults
  <2>1. UNCHANGED exit_code
    BY <1>3 DEF LogDone, CommandScan, RequestScan, CommandFollow, RequestFollow, CommandKey,
                CommandHop, WriteDefaults
  <2>2. ~ Reaches \/ LogRaises
    BY <1>3 DEF LogDone, CommandScan, RequestScan, CommandFollow, RequestFollow, CommandKey,
                CommandHop, WriteDefaults, MainAt, Unless, Reading
  <2> QED BY <1>1, <1>2, <2>1, <2>2, FailureHasReason DEF MainHasReason
<1>4. CASE CommandUnreadable
  <2>1. commands # <<>> /\ Head(commands) \in Unreadable
    BY <1>4 DEF CommandUnreadable, TakeCommand
  <2>2. CASE LogRaises
    BY <2>1, <2>2 DEF MainHasReason, LogRaises
  <2>3. CASE ~ LogRaises
    <3>1. PICK command \in Unreadable :
            exit_code' = IF command = "odd key" /\ LogRaises THEN exit_code ELSE ERROR_INTERNAL
      BY <1>4 DEF CommandUnreadable
    <3>2. exit_code' = ERROR_INTERNAL
      BY <2>3, <3>1
    <3> QED BY <2>1, <3>2 DEF MainHasReason, ERROR_INTERNAL
  <2> QED BY <2>2, <2>3
<1>5. CASE DefaultsFail
  BY <1>5 DEF DefaultsFail, MainAt, MainHasReason, ERROR_INTERNAL
<1>6. CASE ControlEnds
  BY <1>2, <1>6 DEF ControlEnds, EndOfFile, MainHasReason
<1>7. CASE CommandInit \/ Announce \/ LeaveFollowMode \/ EnterFollowMode \/ InitAtEnd
  BY <1>7 DEF CommandInit, Announce, LeaveFollowMode, EnterFollowMode, InitAtEnd, MainAt, Reading
<1> QED BY <1>3, <1>4, <1>5, <1>6, <1>7

LEMMA TeardownHasReason ==
  ASSUME ReasonsInv, [Next]_vars, main' = "teardown", main # "teardown"
  PROVE  MainHasReason
<1>1. CASE Interrupt
  BY <1>1 DEF Interrupt, MainAt, MainHasReason, ReasonsInv, Leaving
<1>2. CASE Teardown \/ SetExit \/ AppExit \/ ClearCallbacks \/ ClosePipes \/ ProcessExits
  BY <1>2 DEF Teardown, SetExit, AppExit, ClearCallbacks, ClosePipes, ProcessExits, MainAt
<1>3. CASE Sniffer \/ SendCommand \/ ChangeControls \/ ChangeCapture \/ Unplug \/ UNCHANGED vars
  <2>1. main' = main
    BY <1>3 DEF Sniffer, LoopTest, GetPacket, GetPacketTimesOut, Notify, Write, NoNews,
                NotifyDevice, TellDevice, SendCommand, ChangeControls, ChangeCapture, Unplug, vars
  <2> QED BY <2>1
<1> QED BY <1>1, <1>2, <1>3, SetupEndHasReason, LoopEndHasReason
        DEF Next, Main, Environment, Exited

\* Why the sniffer thread ends.
SnifferHasReason ==
  \/ exit_set \/ controls = "closed" \/ capture = "closed"
  \/ RssiFilter /\ packet = "unset"

LEMMA DeathHasReason ==
  ASSUME [Next]_vars, sniffer' = "dead", sniffer # "dead"
  PROVE  SnifferHasReason
<1> USE DEF SnifferHasReason
<1>1. CASE LoopTest
  BY <1>1 DEF LoopTest, SnifferAt
<1>2. CASE GetPacketTimesOut
  BY <1>2 DEF GetPacketTimesOut, SnifferAt, LogRaises
<1>3. CASE Notify
  BY <1>3 DEF Notify, SnifferAt, Raises
<1>4. CASE Write
  BY <1>4 DEF Write, SnifferAt
<1>5. CASE TellDevice
  BY <1>5 DEF TellDevice, SnifferAt, LogRaises
<1>6. CASE GetPacket \/ NoNews \/ NotifyDevice \/ Start
  BY <1>6 DEF GetPacket, NoNews, NotifyDevice, Start, SnifferAt
<1>7. CASE \/ SetupFails \/ Setup \/ SetHops \/ FirstScan \/ NoControls
           \/ CommandInit \/ Announce \/ LogDone \/ CommandScan \/ RequestScan
           \/ LeaveFollowMode \/ CommandFollow \/ RequestFollow \/ EnterFollowMode
           \/ CommandKey \/ CommandHop \/ CommandUnreadable \/ DefaultsFail
           \/ WriteDefaults \/ ControlEnds \/ InitAtEnd
           \/ Teardown \/ SetExit \/ AppExit \/ ClearCallbacks \/ ClosePipes
           \/ ProcessExits \/ Environment \/ UNCHANGED vars
  <2>1. sniffer' = sniffer
    BY <1>7 DEF SetupFails, Setup, SetHops, FirstScan, NoControls, CommandInit, Announce,
                LogDone, CommandScan, RequestScan, LeaveFollowMode, CommandFollow,
                RequestFollow, EnterFollowMode, CommandKey, CommandHop, CommandUnreadable,
                DefaultsFail, WriteDefaults, ControlEnds, InitAtEnd, Teardown, SetExit,
                AppExit, ClearCallbacks, ClosePipes, ProcessExits, TakeCommand, Environment,
                SendCommand, ChangeControls, ChangeCapture, Unplug, Interrupt, vars
  <2> QED BY <2>1
<1> QED BY <1>1, <1>2, <1>3, <1>4, <1>5, <1>6, <1>7 DEF Next, Main, Sniffer, Exited

\* Neither thread ends without one of the known reasons, whatever the toolbar sends, and
\* the exit code of the main thread tells an error from a stop.
THEOREM EndsHaveReasons == Spec => ThreadsEndForAReason
<1> DEFINE MainEnds == main' = "teardown" /\ main # "teardown" => MainHasReason
           SnifferEnds == sniffer' = "dead" /\ sniffer # "dead" => SnifferHasReason
<1>1. ReasonsInv /\ [Next]_vars => MainEnds /\ SnifferEnds
  BY TeardownHasReason, DeathHasReason
<1> QED BY <1>1, ReasonsInit, ReasonsStep, PTL
        DEF Spec, ThreadsEndForAReason, MainHasReason, SnifferHasReason
=============================================================================
