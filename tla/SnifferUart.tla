----------------------------- MODULE SnifferUart -----------------------------
(***************************************************************************)
(* SnifferAPI/UART.py, class Uart: a worker thread moves bytes from the    *)
(* serial port into a deque and sets an Event; the sniffer thread takes    *)
(* them out one at a time; close is called by a third thread.  The deque   *)
(* and the Event are each atomic, what is done with the two together is    *)
(* not: every call on one of them is a step.                               *)
(*                                                                         *)
(* Bytes are numbered in the order in which they come in after             *)
(* reset_input_buffer.  The port can be unplugged.                         *)
(***************************************************************************)
EXTENDS Naturals, Sequences

CONSTANTS
  MaxBytes,   \* bound: how many bytes come in
  MaxChunk    \* bound: how many of them one serial read returns

ASSUME UartAssumption == MaxBytes \in Nat /\ MaxChunk \in Nat \ {0}

VARIABLES
  read_queue,            \* the deque
  read_queue_has_data,   \* the Event
  reading,               \* the flag the worker loop tests
  data_read,             \* the worker's last read
  cancelled,             \* cancel_read has been called and no read has seen it
  worker, reader, closer,   \* the next statement of each thread
  arrived,               \* how many bytes have come in
  delivered              \* history: the bytes readByte returned, in order

vars ==
  <<read_queue, read_queue_has_data, reading, data_read, cancelled,
    worker, reader, closer, arrived, delivered>>

WorkerLabels == {"loop", "read", "extend", "set", "done"}
ReaderLabels == {"wait", "clear", "pop", "look", "set", "returned_none", "gone"}
CloserLabels == {"open", "wake", "cancel", "join", "closed"}

Init ==
  /\ read_queue = <<>>
  /\ read_queue_has_data = FALSE
  /\ reading = TRUE
  /\ data_read = <<>>
  /\ cancelled = FALSE
  /\ worker = "loop" /\ reader = "wait" /\ closer = "open"
  /\ arrived = 0
  /\ delivered = <<>>

WorkerAt(from, to) == worker = from /\ worker' = to /\ UNCHANGED <<reader, closer>>
ReaderAt(from, to) == reader = from /\ reader' = to /\ UNCHANGED <<worker, closer>>
CloserAt(from, to) == closer = from /\ closer' = to /\ UNCHANGED <<worker, reader>>
-----------------------------------------------------------------------------
\* _read_worker.
LoopTest ==
  /\ WorkerAt("loop", IF reading THEN "read" ELSE "done")
  /\ UNCHANGED <<read_queue, read_queue_has_data, reading, data_read, cancelled,
                 arrived, delivered>>

\* ser.read(ser.in_waiting or 1) returns what came in, at least one byte.
SerialRead(n) ==
  /\ WorkerAt("read", "extend")
  /\ arrived + n <= MaxBytes
  /\ data_read' = [i \in 1 .. n |-> arrived + i]
  /\ arrived' = arrived + n
  /\ UNCHANGED <<read_queue, read_queue_has_data, reading, cancelled, delivered>>

\* cancel_read makes the read, or the next one, return no bytes; extending
\* by nothing does not set the Event.
ReadCancelled ==
  /\ cancelled
  /\ WorkerAt("read", "loop")
  /\ cancelled' = FALSE
  /\ UNCHANGED <<read_queue, read_queue_has_data, reading, data_read, arrived,
                 delivered>>

\* SerialException: the board is unplugged.  The worker ends; nobody is told.
ReadFails ==
  /\ WorkerAt("read", "done")
  /\ reading' = FALSE
  /\ UNCHANGED <<read_queue, read_queue_has_data, data_read, cancelled, arrived,
                 delivered>>

\* Fault: extendleft.
ExtendLeft ==
  /\ WorkerAt("extend", "set")
  /\ read_queue' = data_read \o read_queue
  /\ data_read' = <<>>
  /\ UNCHANGED <<read_queue_has_data, reading, cancelled, arrived, delivered>>

\* _read_queue_extend.
Extend ==
  /\ WorkerAt("extend", "set")
  /\ read_queue' = read_queue \o data_read
  /\ data_read' = <<>>
  /\ UNCHANGED <<read_queue_has_data, reading, cancelled, arrived, delivered>>

SetEvent ==
  /\ WorkerAt("set", "loop")
  /\ read_queue_has_data' = TRUE
  /\ UNCHANGED <<read_queue, reading, data_read, cancelled, arrived, delivered>>

Worker ==
  \/ LoopTest \/ ReadCancelled \/ ReadFails \/ Extend \/ SetEvent
  \/ \E n \in 1 .. MaxChunk : SerialRead(n)
-----------------------------------------------------------------------------
\* _read_queue_get: the wait ends because the Event is set, or times out.
Wait ==
  /\ read_queue_has_data
  /\ ReaderAt("wait", "clear")
  /\ UNCHANGED <<read_queue, read_queue_has_data, reading, data_read, cancelled,
                 arrived, delivered>>

WaitTimesOut ==
  /\ ~ read_queue_has_data
  /\ ReaderAt("wait", "returned_none")
  /\ UNCHANGED <<read_queue, read_queue_has_data, reading, data_read, cancelled,
                 arrived, delivered>>

Clear ==
  /\ ReaderAt("clear", "pop")
  /\ read_queue_has_data' = FALSE
  /\ UNCHANGED <<read_queue, reading, data_read, cancelled, arrived, delivered>>

PopLeft ==
  /\ read_queue # <<>>
  /\ ReaderAt("pop", "look")
  /\ delivered' = Append(delivered, Head(read_queue))
  /\ read_queue' = Tail(read_queue)
  /\ UNCHANGED <<read_queue_has_data, reading, data_read, cancelled, arrived>>

\* IndexError: None is returned without another look at the deque.
PopFails ==
  /\ read_queue = <<>>
  /\ ReaderAt("pop", "returned_none")
  /\ UNCHANGED <<read_queue, read_queue_has_data, reading, data_read, cancelled,
                 arrived, delivered>>

\* Fault: the deque is not looked at again.
LookNoMore ==
  /\ ReaderAt("look", "wait")
  /\ UNCHANGED <<read_queue, read_queue_has_data, reading, data_read, cancelled,
                 arrived, delivered>>

\* len(read_queue) > 0; a byte has been returned, the caller asks for the next.
Look ==
  /\ ReaderAt("look", IF Len(read_queue) > 0 THEN "set" ELSE "wait")
  /\ UNCHANGED <<read_queue, read_queue_has_data, reading, data_read, cancelled,
                 arrived, delivered>>

SetAgain ==
  /\ ReaderAt("set", "wait")
  /\ read_queue_has_data' = TRUE
  /\ UNCHANGED <<read_queue, reading, data_read, cancelled, arrived, delivered>>

\* getSerialByte raises SnifferTimeout, which leads to the test of _exit in
\* _continuouslyPipe; _exit was set before close was called.
AfterNone ==
  /\ ReaderAt("returned_none", IF closer = "open" THEN "wait" ELSE "gone")
  /\ UNCHANGED <<read_queue, read_queue_has_data, reading, data_read, cancelled,
                 arrived, delivered>>

Reader == Wait \/ Clear \/ PopLeft \/ PopFails \/ Look \/ SetAgain \/ AfterNone
-----------------------------------------------------------------------------
\* close: reading is cleared, the queue's reader woken, the serial read
\* cancelled, the worker joined, the port closed.
StopReading ==
  /\ CloserAt("open", "wake")
  /\ reading' = FALSE
  /\ UNCHANGED <<read_queue, read_queue_has_data, data_read, cancelled, arrived,
                 delivered>>

Wake ==
  /\ CloserAt("wake", "cancel")
  /\ read_queue_has_data' = TRUE
  /\ UNCHANGED <<read_queue, reading, data_read, cancelled, arrived, delivered>>

\* Fault: the serial read is not cancelled.
CancelNothing ==
  /\ CloserAt("cancel", "join")
  /\ UNCHANGED <<read_queue, read_queue_has_data, reading, data_read, cancelled,
                 arrived, delivered>>

CancelRead ==
  /\ CloserAt("cancel", "join")
  /\ cancelled' = TRUE
  /\ UNCHANGED <<read_queue, read_queue_has_data, reading, data_read, arrived,
                 delivered>>

JoinWorker ==
  /\ worker = "done"
  /\ CloserAt("join", "closed")
  /\ UNCHANGED <<read_queue, read_queue_has_data, reading, data_read, cancelled,
                 arrived, delivered>>

Closer == StopReading \/ Wake \/ CancelRead \/ JoinWorker
-----------------------------------------------------------------------------
\* Everything has ended.
Ended ==
  /\ worker = "done" /\ closer = "closed" /\ reader = "gone"
  /\ UNCHANGED vars

Next == Worker \/ Reader \/ WaitTimesOut \/ Closer \/ Ended

Spec == Init /\ [][Next]_vars

\* The threads run; what comes in on the line, whether the board is pulled out
\* and whether somebody calls close is up to the environment.
Threads ==
  /\ WF_vars(LoopTest \/ ReadCancelled \/ Extend \/ SetEvent)
  /\ WF_vars(Reader)
  /\ WF_vars(Wake \/ CancelRead \/ JoinWorker)

FairSpec == Spec /\ Threads

-----------------------------------------------------------------------------
\* Types of the shared state and of the threads' positions; no byte is returned
\* that did not come in.
TypeOK ==
  /\ read_queue \in Seq(Nat) /\ data_read \in Seq(Nat) /\ delivered \in Seq(Nat)
  /\ Len(delivered) <= arrived
  /\ read_queue_has_data \in BOOLEAN /\ reading \in BOOLEAN /\ cancelled \in BOOLEAN
  /\ worker \in WorkerLabels /\ reader \in ReaderLabels /\ closer \in CloserLabels
  /\ arrived \in Nat

\* No wake-up is lost: while bytes lie in the deque, the Event is set, or the
\* worker is about to set it, or the reader will look at the deque again.
\* (The reader clears the Event before it takes a byte, and looks afterwards.)
NoLostWakeUp ==
  read_queue # <<>> =>
    \/ read_queue_has_data
    \/ worker = "set"
    \/ reader \in {"pop", "look", "set"}

\* The two queues of the threads together are a byte stream: nothing is lost,
\* doubled or reordered, and without any timeout every byte is delivered.
Stream == INSTANCE ByteStream WITH open <- reading

ImplementsByteStream == Stream!Spec

\* close ends both threads.  It returns, whatever they are doing: the worker it joins
\* is not left in a serial read.  The reader of a closed port ends when its wait has
\* a timeout, the 12 seconds of the sniffer thread: the Event that close sets may
\* already be cleared by then.
CloseEndsThreads ==
  /\ (closer = "wake") ~> (closer = "closed")
  /\ WF_vars(WaitTimesOut) => ((closer = "closed") ~> (reader = "gone"))
=============================================================================
