------------------------- MODULE SnifferSerialProofs -------------------------
(***************************************************************************)
(* The sniffer's serial line, from the port to the packets.                *)
(*                                                                         *)
(* SnifferUart, the hand-over of UART.py: for any number of bytes and any  *)
(* size of the serial reads no wake-up is lost, and the two queues of the  *)
(* worker and the reader are together one byte stream.                     *)
(*                                                                         *)
(* SnifferFraming, the packets of Packet.py: for any payloads, any number  *)
(* of packets and of timeouts, and any wrap of the counter, a logged gap   *)
(* is a missed packet or a lost byte; and while at most one byte is lost   *)
(* the decoder returns packets that were sent, in order and at most once,  *)
(* and whole but for the one that lost it.                                 *)
(*                                                                         *)
(* SnifferPacket, what Packet.py makes of one list: for every list of      *)
(* bytes, the padding leaves no trace, a packet that is OK is complete,    *)
(* and the name is the last one among the advertising structures.          *)
(***************************************************************************)
EXTENDS SnifferUart, SnifferFraming, SnifferPacket, SequenceTheorems, WellFoundedInduction,
        TLAPS

\* Where the bytes are: the reader has the first ones, the deque the next, the
\* worker's last read the others.  This is what the refinement rests on.
InOrder ==
  /\ Len(delivered) + Len(read_queue) + Len(data_read) = arrived
  /\ \A i \in 1 .. Len(read_queue) : read_queue[i] = Len(delivered) + i
  /\ \A i \in 1 .. Len(data_read) :
       data_read[i] = Len(delivered) + Len(read_queue) + i
  /\ worker # "extend" => data_read = <<>>

\* NoLostWakeUp does not carry itself over Clear: only the reader clears the
\* Event, so it is still set when the reader, woken by it, comes to clear it.
SetUntilCleared == reader = "clear" => read_queue_has_data

UartInv == TypeOK /\ InOrder /\ SetUntilCleared /\ NoLostWakeUp

\* Appending moves no element of a sequence, taking the head moves all by one.
LEMMA Appended ==
  ASSUME NEW s \in Seq(Nat), NEW t \in Seq(Nat)
  PROVE  /\ s \o t \in Seq(Nat)
         /\ Len(s \o t) = Len(s) + Len(t)
         /\ \A i \in 1 .. Len(s) + Len(t) :
              (s \o t)[i] = IF i <= Len(s) THEN s[i] ELSE t[i - Len(s)]
  OBVIOUS

LEMMA Taken ==
  ASSUME NEW s \in Seq(Nat), s # <<>>
  PROVE  /\ Head(s) = s[1] /\ Head(s) \in Nat
         /\ Tail(s) \in Seq(Nat) /\ Len(Tail(s)) = Len(s) - 1
         /\ Len(s) \in Nat \ {0}
         /\ \A i \in 1 .. Len(s) - 1 : Tail(s)[i] = s[i + 1]
  OBVIOUS

\* The invariant holds at the start.
LEMMA UartInit == Init => UartInv
<1> SUFFICES ASSUME Init PROVE UartInv
  OBVIOUS
<1>1. /\ read_queue = <<>> /\ data_read = <<>> /\ delivered = <<>> /\ arrived = 0
      /\ Len(read_queue) = 0 /\ Len(data_read) = 0 /\ Len(delivered) = 0
  BY DEF Init
<1>2. read_queue \in Seq(Nat) /\ data_read \in Seq(Nat) /\ delivered \in Seq(Nat)
  BY <1>1
<1>3. TypeOK
  <2>1. Len(delivered) <= arrived /\ arrived \in Nat
    BY <1>1
  <2>2. read_queue_has_data \in BOOLEAN /\ reading \in BOOLEAN /\ cancelled \in BOOLEAN
    BY DEF Init
  <2>3. worker \in WorkerLabels /\ reader \in ReaderLabels /\ closer \in CloserLabels
    BY DEF Init, WorkerLabels, ReaderLabels, CloserLabels
  <2> QED BY <1>2, <2>1, <2>2, <2>3 DEF TypeOK
<1>4. InOrder
  BY <1>1 DEF InOrder
<1>5. SetUntilCleared /\ NoLostWakeUp
  BY <1>1 DEF Init, SetUntilCleared, NoLostWakeUp
<1> QED BY <1>3, <1>4, <1>5 DEF UartInv

\* The steps that leave the bytes where they are.
LEMMA Unmoved ==
  ASSUME UartInv,
         UNCHANGED <<read_queue, data_read, delivered, arrived>>,
         worker' # "extend" => worker # "extend" \/ data_read = <<>>
  PROVE  InOrder'
<1>1. read_queue' = read_queue /\ data_read' = data_read /\ delivered' = delivered /\ arrived' = arrived
  OBVIOUS
<1> QED BY <1>1 DEF UartInv, InOrder

\* Every step keeps the invariant.
LEMMA UartStep == UartInv /\ [Next]_vars => UartInv'
<1> SUFFICES ASSUME UartInv, [Next]_vars PROVE UartInv'
  OBVIOUS
<1> USE DEF UartInv
<1>1. CASE LoopTest
  <2>1. InOrder' BY <1>1, Unmoved DEF LoopTest, WorkerAt
  <2> QED BY <1>1, <2>1 DEF LoopTest, WorkerAt, TypeOK, SetUntilCleared, NoLostWakeUp, WorkerLabels
<1>2. CASE ReadCancelled
  <2>1. InOrder' BY <1>2, Unmoved DEF ReadCancelled, WorkerAt
  <2> QED BY <1>2, <2>1 DEF ReadCancelled, WorkerAt, TypeOK, SetUntilCleared, NoLostWakeUp, WorkerLabels
<1>3. CASE ReadFails
  <2>1. InOrder' BY <1>3, Unmoved DEF ReadFails, WorkerAt
  <2> QED BY <1>3, <2>1 DEF ReadFails, WorkerAt, TypeOK, SetUntilCleared, NoLostWakeUp, WorkerLabels
<1>4. CASE Extend
  <2>1. /\ read_queue' \in Seq(Nat) /\ data_read' = <<>> /\ delivered' = delivered
        /\ arrived' = arrived /\ Len(read_queue') = Len(read_queue) + Len(data_read)
        /\ \A i \in 1 .. Len(read_queue) + Len(data_read) :
             read_queue'[i] = IF i <= Len(read_queue) THEN read_queue[i]
                              ELSE data_read[i - Len(read_queue)]
    BY <1>4, Appended DEF Extend, TypeOK
  <2>2. InOrder'
    <3>1. \A i \in 1 .. Len(read_queue') : read_queue'[i] = Len(delivered') + i
      <4> SUFFICES ASSUME NEW i \in 1 .. Len(read_queue')
                   PROVE  read_queue'[i] = Len(delivered') + i
        OBVIOUS
      <4>0. Len(read_queue) \in Nat /\ Len(data_read) \in Nat /\ Len(delivered) \in Nat
        BY DEF TypeOK
      <4>1. CASE i <= Len(read_queue)
        <5>1. i \in 1 .. Len(read_queue) /\ read_queue'[i] = read_queue[i]
          BY <2>1, <4>0, <4>1
        <5>2. read_queue[i] = Len(delivered) + i
          BY <5>1 DEF InOrder
        <5> QED BY <2>1, <5>1, <5>2
      <4>2. CASE i > Len(read_queue)
        <5>1. /\ i - Len(read_queue) \in 1 .. Len(data_read)
              /\ read_queue'[i] = data_read[i - Len(read_queue)]
          BY <2>1, <4>0, <4>2
        <5>2. data_read[i - Len(read_queue)] = Len(delivered) + Len(read_queue) + (i - Len(read_queue))
          BY <5>1 DEF InOrder
        <5> QED BY <2>1, <4>0, <4>2, <5>1, <5>2
      <4> QED BY <4>0, <4>1, <4>2
    <3>2. Len(data_read') = 0
      BY <2>1
    <3> QED BY <2>1, <3>1, <3>2 DEF InOrder, TypeOK
  <2>3. TypeOK'
    BY <1>4, <2>1 DEF Extend, WorkerAt, TypeOK, WorkerLabels
  <2> QED BY <1>4, <2>2, <2>3 DEF Extend, WorkerAt, SetUntilCleared, NoLostWakeUp
<1>5. CASE SetEvent
  <2>1. InOrder' BY <1>5, Unmoved DEF SetEvent, WorkerAt
  <2> QED BY <1>5, <2>1 DEF SetEvent, WorkerAt, TypeOK, SetUntilCleared, NoLostWakeUp, WorkerLabels
<1>6. ASSUME NEW n \in 1 .. MaxChunk, SerialRead(n) PROVE UartInv'
  <2>1. n \in Nat /\ n > 0 /\ data_read = <<>> /\ arrived \in Nat
    BY <1>6, UartAssumption DEF InOrder, SerialRead, WorkerAt, TypeOK
  <2>2. /\ data_read' \in Seq(Nat) /\ Len(data_read') = n
        /\ \A i \in 1 .. n : data_read'[i] = arrived + i
    BY <1>6, <2>1 DEF SerialRead
  <2>3. InOrder'
    <3>1. /\ Len(data_read) = 0 /\ Len(delivered) \in Nat /\ Len(read_queue) \in Nat
          /\ Len(delivered) + Len(read_queue) = arrived
      BY <2>1 DEF InOrder, TypeOK
    <3>2. /\ UNCHANGED <<read_queue, delivered>> /\ arrived' = arrived + n
          /\ worker' = "extend"
      BY <1>6 DEF SerialRead, WorkerAt
    <3> QED BY <2>1, <2>2, <3>1, <3>2 DEF InOrder
  <2>4. TypeOK'
    BY <1>6, <2>1, <2>2 DEF SerialRead, WorkerAt, TypeOK, WorkerLabels
  <2> QED BY <1>6, <2>3, <2>4 DEF SerialRead, WorkerAt, SetUntilCleared, NoLostWakeUp
<1>7. CASE Wait
  <2>1. InOrder' BY <1>7, Unmoved DEF Wait, ReaderAt
  <2> QED BY <1>7, <2>1 DEF Wait, ReaderAt, TypeOK, SetUntilCleared, NoLostWakeUp, ReaderLabels
<1>8. CASE WaitTimesOut
  <2>1. InOrder' BY <1>8, Unmoved DEF WaitTimesOut, ReaderAt
  <2> QED BY <1>8, <2>1 DEF WaitTimesOut, ReaderAt, TypeOK, SetUntilCleared, NoLostWakeUp, ReaderLabels
<1>9. CASE Clear
  <2>1. InOrder' BY <1>9, Unmoved DEF Clear, ReaderAt
  <2> QED BY <1>9, <2>1 DEF Clear, ReaderAt, TypeOK, SetUntilCleared, NoLostWakeUp, ReaderLabels
<1>10. CASE PopLeft
  <2>1. /\ Head(read_queue) \in Nat
        /\ read_queue' \in Seq(Nat) /\ Len(read_queue') = Len(read_queue) - 1
        /\ Len(read_queue) \in Nat \ {0}
        /\ \A i \in 1 .. Len(read_queue) - 1 : read_queue'[i] = read_queue[i + 1]
    BY <1>10, Taken DEF PopLeft, TypeOK
  <2>2. delivered' \in Seq(Nat) /\ Len(delivered') = Len(delivered) + 1
    BY <1>10, <2>1 DEF PopLeft, TypeOK
  <2>3. InOrder'
    <3>1. Len(delivered) \in Nat /\ Len(data_read) \in Nat /\ arrived \in Nat
      BY DEF TypeOK
    <3>2. UNCHANGED <<data_read, worker, arrived>>
      BY <1>10 DEF PopLeft, ReaderAt
    <3>3. Len(delivered') + Len(read_queue') = Len(delivered) + Len(read_queue)
      BY <2>1, <2>2, <3>1
    <3>4. \A i \in 1 .. Len(read_queue') : read_queue'[i] = Len(delivered') + i
      <4> SUFFICES ASSUME NEW i \in 1 .. Len(read_queue')
                   PROVE  read_queue'[i] = Len(delivered') + i
        OBVIOUS
      <4>1. i + 1 \in 1 .. Len(read_queue) /\ read_queue'[i] = read_queue[i + 1]
        BY <2>1
      <4>2. read_queue[i + 1] = Len(delivered) + (i + 1)
        BY <4>1 DEF InOrder
      <4> QED BY <2>2, <3>1, <4>1, <4>2
    <3> QED BY <2>1, <2>2, <3>1, <3>2, <3>3, <3>4 DEF InOrder
  <2>4. Len(delivered') <= arrived'
    BY <1>10, <2>1, <2>2 DEF PopLeft, InOrder, TypeOK
  <2>5. TypeOK'
    BY <1>10, <2>1, <2>2, <2>4 DEF PopLeft, ReaderAt, TypeOK, ReaderLabels
  <2> QED BY <1>10, <2>3, <2>5 DEF PopLeft, ReaderAt, SetUntilCleared, NoLostWakeUp
<1>11. CASE PopFails
  <2>1. InOrder' BY <1>11, Unmoved DEF PopFails, ReaderAt
  <2> QED BY <1>11, <2>1 DEF PopFails, ReaderAt, TypeOK, SetUntilCleared, NoLostWakeUp, ReaderLabels
<1>12. CASE Look
  <2>1. InOrder' BY <1>12, Unmoved DEF Look, ReaderAt
  <2>2. read_queue # <<>> => Len(read_queue) > 0
    BY Taken DEF TypeOK
  <2> QED BY <1>12, <2>1, <2>2 DEF Look, ReaderAt, TypeOK, SetUntilCleared, NoLostWakeUp, ReaderLabels
<1>13. CASE SetAgain
  <2>1. InOrder' BY <1>13, Unmoved DEF SetAgain, ReaderAt
  <2> QED BY <1>13, <2>1 DEF SetAgain, ReaderAt, TypeOK, SetUntilCleared, NoLostWakeUp, ReaderLabels
<1>14. CASE AfterNone
  <2>1. InOrder' BY <1>14, Unmoved DEF AfterNone, ReaderAt
  <2> QED BY <1>14, <2>1 DEF AfterNone, ReaderAt, TypeOK, SetUntilCleared, NoLostWakeUp, ReaderLabels
<1>15. CASE Closer
  <2>1. InOrder'
    BY <1>15, Unmoved DEF Closer, StopReading, Wake, CancelRead, JoinWorker, CloserAt
  <2> QED
    BY <1>15, <2>1 DEF Closer, StopReading, Wake, CancelRead, JoinWorker, CloserAt, TypeOK,
                       SetUntilCleared, NoLostWakeUp, CloserLabels
<1>16. CASE UNCHANGED vars
  BY <1>16 DEF vars, TypeOK, InOrder, SetUntilCleared, NoLostWakeUp
<1> QED
  BY <1>1, <1>2, <1>3, <1>4, <1>5, <1>6, <1>7, <1>8, <1>9, <1>10, <1>11, <1>12, <1>13,
     <1>14, <1>15, <1>16 DEF Next, Worker, Reader, Ended

\* UART.py's hand-over of bytes keeps where they are, and every wake-up.
LEMMA UartInvariant == Spec => []UartInv
<1>1. Init => UartInv BY UartInit
<1>2. UartInv /\ [Next]_vars => UartInv' BY UartStep
<1> QED BY <1>1, <1>2, PTL DEF Spec

\* Every variable of the three threads keeps its type, and no byte is returned
\* that did not come in.
THEOREM UartTypes == Spec => []TypeOK
<1>1. UartInv => TypeOK BY DEF UartInv
<1> QED BY <1>1, UartInvariant, PTL

\* While bytes lie in the deque the reader is woken, or is awake and will look at
\* it again: clear, pop, look and set of _read_queue_get against extend and set.
THEOREM WakeUpsAreKept == Spec => []NoLostWakeUp
<1>1. UartInv => NoLostWakeUp BY DEF UartInv
<1> QED BY <1>1, UartInvariant, PTL

\* Every step of the threads is a step of the byte stream, or none.
LEMMA StreamStep ==
  ASSUME UartInv, [Next]_vars
  PROVE  [Stream!Next]_Stream!vars
<1> USE DEF Stream!Next, Stream!vars, Stream!Stop, Stream!Arrive, Stream!DeliverNext
<1>1. CASE PopLeft
  <2>1. /\ Head(read_queue) = read_queue[1] /\ Len(read_queue) \in Nat \ {0}
    BY <1>1, Taken DEF PopLeft, UartInv, TypeOK
  <2>2. /\ Head(read_queue) = Len(delivered) + 1
        /\ Len(delivered) < arrived
    BY <2>1 DEF UartInv, InOrder, TypeOK
  <2> QED BY <1>1, <2>2 DEF PopLeft
<1>2. ASSUME NEW n \in 1 .. MaxChunk, SerialRead(n) PROVE [Stream!Next]_Stream!vars
  <2>1. n \in Nat /\ n > 0 /\ arrived \in Nat
    BY UartAssumption DEF UartInv, TypeOK
  <2> QED BY <1>2, <2>1 DEF SerialRead
<1>3. CASE ReadFails \/ StopReading
  BY <1>3 DEF ReadFails, StopReading, UartInv, TypeOK
<1>4. CASE \/ LoopTest \/ ReadCancelled \/ Extend \/ SetEvent \/ Wait \/ WaitTimesOut \/ Clear
           \/ PopFails \/ Look \/ SetAgain \/ AfterNone \/ Wake \/ CancelRead \/ JoinWorker
  BY <1>4 DEF LoopTest, ReadCancelled, Extend, SetEvent, Wait, WaitTimesOut, Clear, PopFails,
              Look, SetAgain, AfterNone, Wake, CancelRead, JoinWorker
<1>5. CASE UNCHANGED vars
  BY <1>5 DEF vars
<1> QED
  BY <1>1, <1>2, <1>3, <1>4, <1>5 DEF Next, Worker, Reader, Closer, Ended

\* The safety part of ImplementsByteStream: the bytes come out each once and in the
\* order of the line, whatever the interleaving of worker, reader and close.
THEOREM RefinesByteStream == Spec => Stream!Init /\ [][Stream!Next]_Stream!vars
<1>1. Init => Stream!Init
  BY DEF Init, Stream!Init
<1>2. UartInv /\ [Next]_vars => [Stream!Next]_Stream!vars
  BY StreamStep
<1> QED BY <1>1, <1>2, UartInvariant, PTL DEF Spec

-----------------------------------------------------------------------------
\* The numbers of a set that holds 0 and every successor: the least number outside
\* of it would have a predecessor outside of it.
LEMMA NatSetInduction ==
  ASSUME NEW S, 0 \in S, \A n \in Nat : n \in S => n + 1 \in S
  PROVE  \A n \in Nat : n \in S
<1> SUFFICES ASSUME Nat \ S # {} PROVE FALSE
  OBVIOUS
<1>1. PICK x \in Nat \ S : \A y \in Nat \ S : ~ (<<y, x>> \in OpToRel(<, Nat))
  <2> DEFINE T == Nat \ S
  <2>1. T \subseteq Nat /\ T # {}
    OBVIOUS
  <2> HIDE DEF T
  <2>2. \E x \in T : \A y \in T : ~ (<<y, x>> \in OpToRel(<, Nat))
    BY <2>1, NatLessThanWellFounded, WFMin
  <2> QED BY <2>2 DEF T
<1>2. x # 0 /\ x - 1 \in Nat /\ x - 1 < x /\ (x - 1) + 1 = x
  OBVIOUS
<1>3. x - 1 \in Nat \ S
  BY <1>2
<1> QED BY <1>1, <1>2, <1>3 DEF OpToRel

\* FlattenSeq puts the sequences of s behind each other: f[i] are the first i of
\* them.  The library defines it by a recursive function, so that such a function
\* exists, and that it is the only one, is shown by induction.
LEMMA FlattenIsRecursive ==
  ASSUME NEW S, NEW s \in Seq(Seq(S)), Len(s) > 0
  PROVE  \E f \in [1 .. Len(s) -> Seq(S)] :
           /\ FlattenSeq(s) = f[Len(s)]
           /\ f[1] = s[1]
           /\ \A i \in 2 .. Len(s) : f[i] = f[i - 1] \o s[i]
<1> DEFINE Step(f, m) == \A i \in 1 .. m : f[i] = IF i = 1 THEN s[i] ELSE f[i - 1] \o s[i]
           Good(m) == \E f \in [1 .. m -> Seq(S)] : Step(f, m)
           G == {m \in Nat : m <= Len(s) => Good(m)}
<1>1. \A i \in 1 .. Len(s) : s[i] \in Seq(S)
  OBVIOUS
<1>2. 0 \in G
  <2> DEFINE f == [i \in 1 .. 0 |-> <<>>]
  <2>1. f \in [1 .. 0 -> Seq(S)] /\ Step(f, 0)
    OBVIOUS
  <2> QED BY <2>1
<1>3. \A m \in Nat : m \in G => m + 1 \in G
  <2> SUFFICES ASSUME NEW m \in Nat, m + 1 <= Len(s),
                      NEW f \in [1 .. m -> Seq(S)], Step(f, m)
               PROVE  \E g \in [1 .. m + 1 -> Seq(S)] : Step(g, m + 1)
    <3> HIDE DEF Good
    <3>1. \A m \in Nat : m + 1 <= Len(s) => m <= Len(s)
      OBVIOUS
    <3>2. SUFFICES ASSUME NEW m \in Nat, m + 1 <= Len(s), Good(m) PROVE Good(m + 1)
      BY <3>1
    <3> QED BY <3>2 DEF Good
  <2> DEFINE new == IF m = 0 THEN s[1] ELSE f[m] \o s[m + 1]
             g == [i \in 1 .. m + 1 |-> IF i <= m THEN f[i] ELSE new]
  <2>1. new \in Seq(S)
    <3>1. CASE m = 0
      BY <1>1, <3>1
    <3>2. CASE m # 0
      <4>1. f[m] \in Seq(S) /\ s[m + 1] \in Seq(S)
        BY <1>1, <3>2
      <4> QED BY <4>1, <3>2
    <3> QED BY <3>1, <3>2
  <2> HIDE DEF new
  <2>2. g \in [1 .. m + 1 -> Seq(S)]
    BY <2>1
  <2>3. ASSUME NEW i \in 1 .. m + 1
        PROVE  g[i] = IF i = 1 THEN s[i] ELSE g[i - 1] \o s[i]
    <3>1. CASE i <= m
      <4>1. g[i] = f[i]
        BY <3>1
      <4>2. i # 1 => g[i - 1] = f[i - 1]
        BY <3>1
      <4>3. f[i] = IF i = 1 THEN s[i] ELSE f[i - 1] \o s[i]
        <5>1. i \in 1 .. m
          BY <3>1
        <5> HIDE DEF g, new
        <5> QED BY <5>1
      <4> HIDE DEF g
      <4> QED BY <4>1, <4>2, <4>3
    <3>2. CASE i = m + 1
      <4>1. g[i] = new
        BY <3>2
      <4>2. i # 1 => g[i - 1] = f[m]
        BY <3>2
      <4> QED BY <4>1, <4>2, <3>2 DEF new
    <3> QED BY <3>1, <3>2
  <2> HIDE DEF g
  <2> QED BY <2>2, <2>3
<1> HIDE DEF G
<1>4. Len(s) \in G
  <2>1. Len(s) \in Nat
    OBVIOUS
  <2>2. \A m \in Nat : m \in G
    BY <1>2, <1>3, NatSetInduction
  <2> QED BY <2>1, <2>2
<1>5. PICK f \in [1 .. Len(s) -> Seq(S)] : Step(f, Len(s))
  BY <1>4 DEF G
<1> DEFINE flatten[i \in 1 .. Len(s)] == IF i = 1 THEN s[i] ELSE flatten[i - 1] \o s[i]
<1>6. f = [i \in 1 .. Len(s) |-> IF i = 1 THEN s[i] ELSE f[i - 1] \o s[i]]
  BY <1>5
<1>7. flatten = [i \in 1 .. Len(s) |-> IF i = 1 THEN s[i] ELSE flatten[i - 1] \o s[i]]
  BY <1>6
<1>8. FlattenSeq(s) = flatten[Len(s)]
  BY <1>4 DEF FlattenSeq
<1> HIDE DEF flatten
<1> DEFINE H == {m \in Nat : m \in 1 .. Len(s) => flatten[m] = f[m]}
<1>9. 0 \in H
  OBVIOUS
<1>10. \A m \in Nat : m \in H => m + 1 \in H
  <2> SUFFICES ASSUME NEW m \in Nat, m \in H, m + 1 \in 1 .. Len(s)
               PROVE  flatten[m + 1] = f[m + 1]
    OBVIOUS
  <2>1. CASE m = 0
    BY <1>6, <1>7, <2>1
  <2>2. CASE m # 0
    <3>1. m \in 1 .. Len(s) /\ (m + 1) - 1 = m /\ m + 1 # 1
      BY <2>2
    <3>2. flatten[m] = f[m]
      BY <3>1
    <3>3. flatten[m + 1] = flatten[m] \o s[m + 1]
      BY <1>7, <3>1
    <3>4. f[m + 1] = f[m] \o s[m + 1]
      BY <1>6, <3>1
    <3> QED BY <3>2, <3>3, <3>4
  <2> QED BY <2>1, <2>2
<1>11. \A m \in Nat : m \in H
  <2> HIDE DEF H
  <2> QED BY <1>9, <1>10, NatSetInduction
<1>12. FlattenSeq(s) = f[Len(s)]
  <2>1. Len(s) \in Nat /\ Len(s) \in 1 .. Len(s)
    OBVIOUS
  <2> QED BY <1>8, <1>11, <2>1
<1>13. f[1] = s[1]
  <2>1. 1 \in 1 .. Len(s)
    OBVIOUS
  <2> QED BY <1>5, <2>1
<1>14. ASSUME NEW i \in 2 .. Len(s) PROVE f[i] = f[i - 1] \o s[i]
  <2>1. i \in 1 .. Len(s) /\ i # 1
    OBVIOUS
  <2> QED BY <1>5, <2>1
<1> QED BY <1>12, <1>13, <1>14

\* place[k] is where the sequence s[k] begins in the flattened one.
FlatPlace(s, place) ==
  /\ place \in [1 .. Len(s) + 1 -> Nat]
  /\ place[1] = 1
  /\ place[Len(s) + 1] = Len(FlattenSeq(s)) + 1
  /\ \A k \in 1 .. Len(s) :
       /\ 1 <= place[k] /\ place[k + 1] <= Len(FlattenSeq(s)) + 1
       /\ place[k + 1] = place[k] + Len(s[k])
       /\ \A j \in 1 .. Len(s[k]) : FlattenSeq(s)[place[k] + j - 1] = s[k][j]

\* Every sequence lies unchanged in the flattened one, and no gap between them.
LEMMA FlattenPlaces ==
  ASSUME NEW S, NEW s \in Seq(Seq(S)), Len(s) > 0
  PROVE  FlattenSeq(s) \in Seq(S) /\ \E place : FlatPlace(s, place)
<1>1. PICK f \in [1 .. Len(s) -> Seq(S)] :
        /\ FlattenSeq(s) = f[Len(s)]
        /\ f[1] = s[1]
        /\ \A i \in 2 .. Len(s) : f[i] = f[i - 1] \o s[i]
  BY FlattenIsRecursive
<1>2. \A i \in 1 .. Len(s) :
        s[i] \in Seq(S) /\ f[i] \in Seq(S) /\ Len(s[i]) \in Nat /\ Len(f[i]) \in Nat
  <2> TAKE i \in 1 .. Len(s)
  <2>1. s[i] \in Seq(S)
    OBVIOUS
  <2>2. f[i] \in Seq(S)
    OBVIOUS
  <2> QED BY <2>1, <2>2
<1>3. ASSUME NEW k \in 2 .. Len(s)
      PROVE  /\ Len(f[k]) = Len(f[k - 1]) + Len(s[k])
             /\ \A q \in 1 .. Len(f[k - 1]) : f[k][q] = f[k - 1][q]
             /\ \A j \in 1 .. Len(s[k]) : f[k][Len(f[k - 1]) + j] = s[k][j]
  <2> DEFINE a == f[k - 1]
             b == s[k]
             c == f[k]
  <2>1. c = a \o b
    BY <1>1
  <2>2. k - 1 \in 1 .. Len(s) /\ k \in 1 .. Len(s)
    OBVIOUS
  <2>3. a \in Seq(S) /\ b \in Seq(S)
    BY <1>2, <2>2
  <2> HIDE DEF a, b, c
  <2>4. /\ Len(c) = Len(a) + Len(b)
        /\ \A q \in 1 .. Len(a) : c[q] = a[q]
        /\ \A j \in 1 .. Len(b) : c[Len(a) + j] = b[j]
    BY <2>1, <2>3
  <2> QED BY <2>4 DEF a, b, c
<1> DEFINE l == [k \in 1 .. Len(s) |-> Len(f[k])]
           w == [k \in 1 .. Len(s) |-> Len(s[k])]
           n == Len(s)
<1>4. l \in [1 .. n -> Nat] /\ w \in [1 .. n -> Nat] /\ n \in Nat /\ n \in 1 .. n
  BY <1>2
<1>5. \A k \in 1 .. n : l[k] = Len(f[k]) /\ w[k] = Len(s[k])
  OBVIOUS
<1>6. ASSUME NEW k \in 2 .. n
      PROVE  /\ k \in 1 .. n /\ k - 1 \in 1 .. n
             /\ l[k] = l[k - 1] + w[k]
             /\ \A q \in 1 .. l[k - 1] : f[k][q] = f[k - 1][q]
             /\ \A j \in 1 .. w[k] : f[k][l[k - 1] + j] = s[k][j]
  <2>1. k \in 1 .. n /\ k - 1 \in 1 .. n
    OBVIOUS
  <2>2. l[k] = Len(f[k]) /\ l[k - 1] = Len(f[k - 1]) /\ w[k] = Len(s[k])
    BY <2>1
  <2> HIDE DEF l, w
  <2> QED BY <1>3, <2>1, <2>2
<1>7. l[1] = w[1] /\ f[1] = s[1]
  BY <1>1
<1> HIDE DEF l, w, n
<1> DEFINE place == [k \in 1 .. n + 1 |-> IF k = 1 THEN 1 ELSE l[k - 1] + 1]
<1>8. place[1] = 1 /\ place[n + 1] = l[n] + 1 /\ place \in [1 .. n + 1 -> Nat]
  BY <1>4
<1>9. ASSUME NEW k \in 1 .. n
      PROVE  /\ place[k] \in Nat /\ 1 <= place[k]
             /\ place[k + 1] = l[k] + 1
             /\ place[k + 1] = place[k] + w[k]
             /\ \A j \in 1 .. w[k] : f[k][place[k] + j - 1] = s[k][j]
  <2>1. place[k + 1] = l[k] + 1
    BY <1>4
  <2>2. CASE k = 1
    <3>1. place[k] = 1
      BY <1>4, <2>2
    <3> HIDE DEF place
    <3>2. \A j \in 1 .. w[k] : place[k] + j - 1 = j
      BY <1>4, <3>1
    <3>3. l[k] = w[k] /\ f[k] = s[k] /\ w[k] \in Nat
      BY <1>4, <1>7, <2>2
    <3>4. place[k + 1] = place[k] + w[k]
      BY <2>1, <3>1, <3>3
    <3>5. \A j \in 1 .. w[k] : f[k][place[k] + j - 1] = s[k][j]
      BY <3>2, <3>3
    <3> QED BY <2>1, <3>1, <3>4, <3>5
  <2>3. CASE k # 1
    <3>1. k \in 2 .. n /\ k - 1 \in 1 .. n
      BY <1>4, <2>3
    <3>2. place[k] = l[k - 1] + 1
      BY <1>4, <2>3, <3>1
    <3> HIDE DEF place
    <3>3. l[k - 1] \in Nat /\ w[k] \in Nat /\ l[k] \in Nat /\ l[k] = l[k - 1] + w[k]
      BY <1>4, <1>6, <3>1
    <3>4. \A j \in 1 .. w[k] : place[k] + j - 1 = l[k - 1] + j
      BY <3>2, <3>3
    <3>5. \A j \in 1 .. w[k] : f[k][l[k - 1] + j] = s[k][j]
      BY <1>6, <3>1
    <3>6. \A j \in 1 .. w[k] : f[k][place[k] + j - 1] = s[k][j]
      BY <3>4, <3>5
    <3> QED BY <2>1, <3>2, <3>3, <3>6
  <2> QED BY <2>2, <2>3
<1> HIDE DEF place
<1> DEFINE Prefix(m) ==
             \A k \in 1 .. m : l[k] <= l[m] /\ \A q \in 1 .. l[k] : f[m][q] = f[k][q]
           G == {m \in Nat : m <= n => Prefix(m)}
<1>10. Prefix(n)
  <2>1. 0 \in G
    OBVIOUS
  <2>2. \A m \in Nat : m \in G => m + 1 \in G
    <3> HIDE DEF Prefix
    <3>1. \A m \in Nat : m + 1 <= n => m <= n
      BY <1>4
    <3>2. SUFFICES ASSUME NEW m \in Nat, m + 1 <= n, Prefix(m) PROVE Prefix(m + 1)
      BY <3>1
    <3>3. SUFFICES ASSUME NEW k \in 1 .. m + 1
                   PROVE  l[k] <= l[m + 1] /\ \A q \in 1 .. l[k] : f[m + 1][q] = f[k][q]
      BY DEF Prefix
    <3>4. CASE k = m + 1
      BY <1>4, <3>2, <3>4
    <3>5. CASE k # m + 1
      <4>1. k \in 1 .. m /\ k \in 1 .. n /\ m \in 1 .. n /\ m + 1 \in 2 .. n /\ (m + 1) - 1 = m
        BY <1>4, <3>2, <3>5
      <4>2. l[k] <= l[m] /\ \A q \in 1 .. l[k] : f[m][q] = f[k][q]
        BY <3>2, <4>1 DEF Prefix
      <4>3. /\ m + 1 \in 1 .. n /\ l[m + 1] = l[m] + w[m + 1]
            /\ \A q \in 1 .. l[m] : f[m + 1][q] = f[m][q]
        BY <1>6, <4>1
      <4>4. l[m] \in Nat /\ w[m + 1] \in Nat /\ l[k] \in Nat /\ l[m + 1] \in Nat
        BY <1>4, <4>1, <4>3
      <4>5. \A q \in 1 .. l[k] : q \in 1 .. l[m]
        BY <4>2, <4>4
      <4>6. l[k] <= l[m + 1]
        BY <4>2, <4>3, <4>4
      <4> QED BY <4>2, <4>3, <4>5, <4>6
    <3> QED BY <3>4, <3>5
  <2>3. \A m \in Nat : m \in G
    <3> HIDE DEF G
    <3> QED BY <2>1, <2>2, NatSetInduction
  <2> HIDE DEF Prefix
  <2> QED BY <1>4, <2>3
<1>11. ASSUME NEW k \in 1 .. n, NEW j \in 1 .. w[k]
       PROVE  f[n][place[k] + j - 1] = s[k][j]
  <2>1. place[k] + j - 1 \in 1 .. l[k]
    <3>1. place[k] \in Nat /\ 1 <= place[k] /\ l[k] \in Nat /\ w[k] \in Nat
      BY <1>4, <1>9
    <3>2. l[k] + 1 = place[k] + w[k]
      BY <1>9
    <3> QED BY <3>1, <3>2
  <2>2. f[n][place[k] + j - 1] = f[k][place[k] + j - 1]
    BY <1>10, <2>1
  <2> QED BY <1>9, <2>2
<1>12. \A k \in 1 .. n : place[k + 1] <= l[n] + 1
  <2> TAKE k \in 1 .. n
  <2>1. l[k] <= l[n] /\ l[k] \in Nat /\ l[n] \in Nat
    BY <1>4, <1>10
  <2> QED BY <1>9, <2>1
<1> HIDE DEF Prefix
<1>13. FlattenSeq(s) = f[n] /\ FlattenSeq(s) \in Seq(S) /\ Len(FlattenSeq(s)) = l[n]
  BY <1>1, <1>2, <1>4, <1>5 DEF n
<1>14. \A k \in 1 .. n :
         /\ 1 <= place[k] /\ place[k + 1] <= l[n] + 1
         /\ place[k + 1] = place[k] + Len(s[k])
         /\ \A j \in 1 .. Len(s[k]) : FlattenSeq(s)[place[k] + j - 1] = s[k][j]
    <2> TAKE k \in 1 .. n
  <2>1. w[k] = Len(s[k])
    BY <1>5
  <2> QED BY <1>9, <1>11, <1>13, <1>12, <2>1
<1>15. FlatPlace(s, place)
  BY <1>8, <1>13, <1>14 DEF n, FlatPlace
<1> QED BY <1>13, <1>15

\* What encodeToSLIP makes of one byte: itself, or ESC and a byte that the decoder
\* turns back into it.  START and END never come out of it.
LEMMA Escapes ==
  ASSUME NEW byte \in Nat
  PROVE  /\ EscapeByte(byte) \in Seq(Nat \ {SLIP_START, SLIP_END})
         /\ Len(EscapeByte(byte)) \in 1 .. 2
         /\ EscapeByte(byte)[1] # SLIP_END
         /\ Len(EscapeByte(byte)) = 1 => EscapeByte(byte)[1] = byte /\ byte # SLIP_ESC
         /\ Len(EscapeByte(byte)) = 2 =>
              /\ EscapeByte(byte)[1] = SLIP_ESC
              /\ EscapeByte(byte)[2] \in Nat \ {SLIP_END, SLIP_ESC}
              /\ Unescaped(EscapeByte(byte)[2]) = byte
<1> USE DEF EscapeByte, Unescaped, SLIP_START, SLIP_END, SLIP_ESC, SLIP_ESC_START,
            SLIP_ESC_END, SLIP_ESC_ESC
<1>1. CASE byte = SLIP_START
  BY <1>1
<1>2. CASE byte = SLIP_END
  BY <1>2
<1>3. CASE byte = SLIP_ESC
  BY <1>3
<1>4. CASE byte \notin {SLIP_START, SLIP_END, SLIP_ESC}
  BY <1>4
<1> QED BY <1>1, <1>2, <1>3, <1>4

\* The lists that sendPacket builds, as far as the framing can tell: the header says
\* the length.
Packets == {list \in Seq(Nat) : Len(list) >= SHORT_HEADER_LENGTH /\ list[1] + SHORT_HEADER_LENGTH = Len(list)}

\* place[k] is where the byte k of a list is in its encoding; END is last.
IsPlace(list, place) ==
  /\ place \in [1 .. Len(list) + 1 -> Nat]
  /\ place[1] = 2
  /\ place[Len(list) + 1] = Len(encodeToSLIP(list))
  /\ \A k \in 1 .. Len(list) :
       LET escaped == EscapeByte(list[k])
       IN  /\ place[k + 1] = place[k] + Len(escaped)
           /\ encodeToSLIP(list)[place[k]] = escaped[1]
           /\ Len(escaped) = 2 => encodeToSLIP(list)[place[k] + 1] = escaped[2]

\* The place of every byte, which the list determines.
Place(list) == CHOOSE place : IsPlace(list, place)

\* encodeToSLIP begins with its only START and ends with its only END, and has every
\* byte of the list in between, escaped where it must be.
LEMMA EncodingHasPlaces ==
  ASSUME NEW list \in Seq(Nat), Len(list) > 0
  PROVE  /\ encodeToSLIP(list) \in Seq(Nat)
         /\ Len(encodeToSLIP(list)) \in Nat /\ Len(encodeToSLIP(list)) > 1
         /\ encodeToSLIP(list)[1] = SLIP_START
         /\ encodeToSLIP(list)[Len(encodeToSLIP(list))] = SLIP_END
         /\ \A p \in 2 .. Len(encodeToSLIP(list)) : encodeToSLIP(list)[p] # SLIP_START
         /\ \A p \in 1 .. Len(encodeToSLIP(list)) - 1 : encodeToSLIP(list)[p] # SLIP_END
         /\ IsPlace(list, Place(list))
<1> DEFINE S == Nat \ {SLIP_START, SLIP_END}
           n == Len(list)
           s == [i \in DOMAIN list |-> EscapeByte(list[i])]
           flat == FlattenSeq(s)
           e == encodeToSLIP(list)
<1>1. s \in Seq(Seq(S)) /\ Len(s) = n /\ \A k \in 1 .. n : s[k] = EscapeByte(list[k])
  <2>1. \A k \in 1 .. n : list[k] \in Nat
    OBVIOUS
  <2>2. \A k \in 1 .. n : EscapeByte(list[k]) \in Seq(S)
    BY <2>1, Escapes
  <2>3. DOMAIN list = 1 .. n
    OBVIOUS
  <2> QED BY <2>2, <2>3
<1> HIDE DEF s
<1>2. flat \in Seq(S)
  BY <1>1, FlattenPlaces
<1>3. PICK place : FlatPlace(s, place)
  BY <1>1, FlattenPlaces
<1>4. /\ place \in [1 .. n + 1 -> Nat]
      /\ place[1] = 1
      /\ place[n + 1] = Len(flat) + 1
      /\ \A k \in 1 .. n :
           /\ 1 <= place[k] /\ place[k + 1] <= Len(flat) + 1
           /\ place[k + 1] = place[k] + Len(s[k])
           /\ \A j \in 1 .. Len(s[k]) : flat[place[k] + j - 1] = s[k][j]
  <2> HIDE DEF n
  <2> QED BY <1>1, <1>3 DEF FlatPlace
<1>5. e = <<SLIP_START>> \o flat \o <<SLIP_END>>
  BY DEF encodeToSLIP, s
<1> HIDE DEF flat, e
<1>6. SLIP_START \in Nat /\ SLIP_END \in Nat /\ SLIP_START # SLIP_END
  BY DEF SLIP_START, SLIP_END
<1>7. /\ e \in Seq(Nat) /\ Len(e) = Len(flat) + 2 /\ Len(flat) \in Nat
      /\ e[1] = SLIP_START /\ e[Len(e)] = SLIP_END
      /\ \A p \in 1 .. Len(flat) : e[p + 1] = flat[p] /\ flat[p] \in S
  <2>1. flat \in Seq(Nat) /\ \A p \in 1 .. Len(flat) : flat[p] \in S
    BY <1>2
  <2>2. Len(flat) \in Nat /\ \A p \in 1 .. Len(flat) : flat[p] \in Nat
    BY <2>1
  <2> HIDE DEF S
  <2>3. e \in Seq(Nat) /\ Len(e) = Len(flat) + 2
    BY <1>5, <1>6, <2>1
  <2>4. e[1] = SLIP_START /\ e[Len(e)] = SLIP_END
    BY <1>5, <1>6, <2>1
  <2>5. \A p \in 1 .. Len(flat) : e[p + 1] = flat[p]
    BY <1>5, <1>6, <2>1
  <2> QED BY <2>1, <2>2, <2>3, <2>4, <2>5
<1>8. ASSUME NEW p \in 1 .. Len(e) - 1 PROVE e[p] # SLIP_END
  <2>1. CASE p = 1
    BY <1>6, <1>7, <2>1
  <2>2. CASE p # 1
    <3>1. p - 1 \in 1 .. Len(flat) /\ (p - 1) + 1 = p
      BY <1>7, <2>2
    <3>2. e[(p - 1) + 1] \in S
      BY <1>7, <3>1
    <3> QED BY <3>1, <3>2
  <2> QED BY <2>1, <2>2
<1>9. ASSUME NEW p \in 2 .. Len(e) PROVE e[p] # SLIP_START
  <2>1. CASE p = Len(e)
    BY <1>6, <1>7, <2>1
  <2>2. CASE p # Len(e)
    <3>1. p - 1 \in 1 .. Len(flat) /\ (p - 1) + 1 = p
      BY <1>7, <2>2
    <3>2. e[(p - 1) + 1] \in S
      BY <1>7, <3>1
    <3> QED BY <3>1, <3>2
  <2> QED BY <2>1, <2>2
<1> DEFINE m == Len(flat)
           here == [k \in 1 .. n + 1 |-> place[k] + 1]
<1>10. n \in Nat /\ n > 0 /\ Len(s) = n /\ place \in [1 .. n + 1 -> Nat] /\ m \in Nat
  BY <1>1, <1>4, <1>7
<1>11. /\ place[1] = 1 /\ place[n + 1] = m + 1 /\ Len(e) = m + 2
       /\ \A p \in 1 .. m : e[p + 1] = flat[p]
  BY <1>1, <1>4, <1>7
<1> HIDE DEF n, m
<1>12. here \in [1 .. n + 1 -> Nat] /\ here[1] = 2 /\ here[n + 1] = Len(e)
  BY <1>10, <1>11
<1>13. ASSUME NEW k \in 1 .. n
       PROVE  /\ here[k + 1] = here[k] + Len(EscapeByte(list[k]))
              /\ e[here[k]] = EscapeByte(list[k])[1]
              /\ Len(EscapeByte(list[k])) = 2 => e[here[k] + 1] = EscapeByte(list[k])[2]
  <2> DEFINE escaped == EscapeByte(list[k])
             w == Len(escaped)
  <2>1. s[k] = escaped /\ list[k] \in Nat
    BY <1>1 DEF n
  <2>2. w \in 1 .. 2
    BY <2>1, Escapes
  <2>3. place[k + 1] = place[k] + w /\ place[k] \in Nat /\ place[k + 1] \in Nat
    <3>1. place[k] \in Nat /\ place[k + 1] \in Nat
      BY <1>10
    <3>2. place[k + 1] = place[k] + Len(s[k])
      BY <1>4, <1>10
    <3> QED BY <2>1, <3>1, <3>2
  <2>4. \A j \in 1 .. w : flat[place[k] + j - 1] = escaped[j]
    BY <1>4, <1>10, <2>1
  <2>5. here[k] = place[k] + 1 /\ here[k + 1] = place[k + 1] + 1
    BY <1>10
  <2>6. 1 <= place[k] /\ place[k + 1] <= m + 1
    BY <1>4, <1>10 DEF m
  <2> HIDE DEF here, escaped, w
  <2>7. e[here[k]] = escaped[1]
    <3>1. place[k] \in 1 .. m /\ 1 \in 1 .. w /\ place[k] + 1 - 1 = place[k]
      BY <1>10, <2>2, <2>3, <2>6
    <3> QED BY <1>11, <2>4, <2>5, <3>1
  <2>8. w = 2 => e[here[k] + 1] = escaped[2]
    <3> SUFFICES ASSUME w = 2 PROVE e[here[k] + 1] = escaped[2]
      OBVIOUS
    <3>1. /\ place[k] + 1 \in 1 .. m /\ 2 \in 1 .. w
          /\ place[k] + 2 - 1 = place[k] + 1 /\ here[k] + 1 = (place[k] + 1) + 1
      <4> DEFINE q == place[k]
                 r == place[k + 1]
                 i == here[k]
      <4>1. q \in Nat /\ r = q + w /\ 1 <= q /\ r <= m + 1 /\ i = q + 1 /\ m \in Nat
        BY <1>10, <2>3, <2>5, <2>6
      <4> HIDE DEF q, r, i
      <4>2. q + 1 \in 1 .. m /\ 2 \in 1 .. w /\ q + 2 - 1 = q + 1 /\ i + 1 = (q + 1) + 1
        BY <4>1
      <4> QED BY <4>2 DEF q, i
    <3>2. e[(place[k] + 1) + 1] = flat[place[k] + 1]
      BY <1>11, <3>1
    <3>3. flat[place[k] + 2 - 1] = escaped[2]
      BY <2>4, <3>1
    <3> QED BY <3>1, <3>2, <3>3
  <2>9. here[k + 1] = here[k] + w
    BY <2>3, <2>5, <2>2
  <2> QED BY <2>7, <2>8, <2>9 DEF escaped, w
<1> HIDE DEF here
<1>14. IsPlace(list, here)
  BY <1>12, <1>13 DEF IsPlace, e, n
<1>15. IsPlace(list, Place(list))
  BY <1>14 DEF Place
<1> QED BY <1>7, <1>9, <1>15, <1>8 DEF e

-----------------------------------------------------------------------------
\* Where decodeFromSLIP can be.
DecoderModes == {"hunt", "body", "escape"}

\* The encoding of a list, for short.
Enc(list) == encodeToSLIP(list)

\* Whether the byte k of a list takes two bytes on the line.
Escaped(list, k) == Len(EscapeByte(list[k])) = 2

\* What is on the line for the byte k of a packet.
LEMMA PacketBytes ==
  ASSUME NEW list \in Packets, NEW k \in 1 .. Len(list)
  PROVE  /\ Place(list)[k] \in Nat /\ k \in 1 .. Len(list) + 1 /\ k + 1 \in 1 .. Len(list) + 1
         /\ list[k] \in Nat
         /\ ~ Escaped(list, k) =>
              /\ Place(list)[k + 1] = Place(list)[k] + 1
              /\ Enc(list)[Place(list)[k]] = list[k]
              /\ list[k] \notin {SLIP_END, SLIP_ESC}
         /\ Escaped(list, k) =>
              /\ Place(list)[k + 1] = Place(list)[k] + 2
              /\ Enc(list)[Place(list)[k]] = SLIP_ESC
              /\ Enc(list)[Place(list)[k] + 1] \in Nat \ {SLIP_END, SLIP_ESC}
              /\ Unescaped(Enc(list)[Place(list)[k] + 1]) = list[k]
         /\ Append(SubSeq(list, 1, k - 1), list[k]) = SubSeq(list, 1, k)
         /\ (k + 1) - 1 = k
<1> DEFINE place == Place(list)
           e == Enc(list)
           escaped == EscapeByte(list[k])
<1>1. list \in Seq(Nat) /\ Len(list) > 0 /\ Len(list) \in Nat
  BY DEF Packets, SHORT_HEADER_LENGTH
<1>2. IsPlace(list, place)
  BY <1>1, EncodingHasPlaces
<1>3. k \in 1 .. Len(list) + 1 /\ k + 1 \in 1 .. Len(list) + 1 /\ (k + 1) - 1 = k
  BY <1>1
<1>4. list[k] \in Nat
  BY <1>1
<1>5. /\ place[k] \in Nat
      /\ place[k + 1] = place[k] + Len(escaped)
      /\ e[place[k]] = escaped[1]
      /\ Len(escaped) = 2 => e[place[k] + 1] = escaped[2]
  BY <1>2, <1>3 DEF IsPlace, Enc
<1>6. /\ Len(escaped) \in 1 .. 2
      /\ escaped[1] # SLIP_END
      /\ Len(escaped) = 1 => escaped[1] = list[k] /\ list[k] # SLIP_ESC
      /\ Len(escaped) = 2 =>
           /\ escaped[1] = SLIP_ESC
           /\ escaped[2] \in Nat \ {SLIP_END, SLIP_ESC}
           /\ Unescaped(escaped[2]) = list[k]
  BY <1>4, Escapes
<1>7. Append(SubSeq(list, 1, k - 1), list[k]) = SubSeq(list, 1, k)
  BY <1>1
<1> HIDE DEF escaped, place, e
<1>8. Escaped(list, k) <=> Len(escaped) = 2
  BY DEF Escaped, escaped
<1>9. ~ Escaped(list, k) => Len(escaped) = 1
  BY <1>6, <1>8
<1> QED BY <1>3, <1>4, <1>5, <1>6, <1>7, <1>8, <1>9 DEF place, e

\* The frame of a packet, and its length.
LEMMA PacketEnds ==
  ASSUME NEW list \in Packets
  PROVE  /\ Len(Enc(list)) \in Nat /\ Len(Enc(list)) > 1
         /\ Enc(list) \in Seq(Nat)
         /\ Enc(list)[1] = SLIP_START
         /\ Enc(list)[Len(Enc(list))] = SLIP_END
         /\ \A p \in 2 .. Len(Enc(list)) : Enc(list)[p] # SLIP_START
         /\ \A p \in 1 .. Len(Enc(list)) - 1 : Enc(list)[p] # SLIP_END
         /\ Place(list)[1] = 2
         /\ Place(list)[Len(list) + 1] = Len(Enc(list))
         /\ list \in Seq(Nat) /\ Len(list) \in Nat /\ Len(list) >= 2 /\ list[1] + 2 = Len(list)
         /\ SubSeq(list, 1, 0) = <<>> /\ SubSeq(list, 1, Len(list)) = list
<1>1. /\ list \in Seq(Nat) /\ Len(list) \in Nat /\ Len(list) > 0
      /\ Len(list) >= 2 /\ list[1] + 2 = Len(list)
  BY DEF Packets, SHORT_HEADER_LENGTH
<1>2. SubSeq(list, 1, 0) = <<>> /\ SubSeq(list, 1, Len(list)) = list
  BY <1>1
<1> QED BY <1>1, <1>2, EncodingHasPlaces DEF IsPlace, Enc

\* The decoder has what the bytes before p mean: the next byte begins the byte k
\* of the list, or is the second half of it.
InStep(md, buf, list, p) ==
  \/ /\ md = "body"
     /\ \E k \in 1 .. Len(list) + 1 : p = Place(list)[k] /\ buf = SubSeq(list, 1, k - 1)
  \/ /\ md = "escape"
     /\ \E k \in 1 .. Len(list) :
          Escaped(list, k) /\ p = Place(list)[k] + 1 /\ buf = SubSeq(list, 1, k - 1)

\* One byte of the packet was lost before p: the decoder has too few bytes, or has
\* taken half an escape.  After an escape that lost its second half it takes END
\* for that half, and has then all bytes but the last.
OutOfStep(md, buf, list, p) ==
  \/ md = "body" /\ \E k \in 1 .. Len(list) + 1 : p = Place(list)[k]
  \/ /\ md \in {"body", "escape"}
     /\ \E k \in 1 .. Len(list) : Escaped(list, k) /\ p = Place(list)[k] + 1
  \/ /\ md = "escape"
     /\ \E k \in 1 .. Len(list) + 1 :
          /\ p = Place(list)[k]
          /\ k = Len(list) + 1 => buf = SubSeq(list, 1, Len(list) - 1)

\* The decoder has missed the END of a packet and goes on into the next.  It has
\* more bytes than the length says as soon as the next START is one of them, and
\* never returns to that length.
RunsOn(md, buf, p) ==
  /\ md \in {"body", "escape"}
  /\ buf # <<>> /\ buf[1] + SHORT_HEADER_LENGTH <= Len(buf)
  /\ IF p = 1 THEN md = "body" ELSE buf[1] + SHORT_HEADER_LENGTH # Len(buf)

\* What getPacket does not find valid changes none of these.
NothingReceived == UNCHANGED <<received, lastReceivedPacket, gaps>>

\* The three bytes of the protocol differ, and an escaped byte stands for a byte.
LEMMA BytesAreNat ==
  /\ {SLIP_START, SLIP_END, SLIP_ESC} \subseteq Nat
  /\ SLIP_START # SLIP_END /\ SLIP_START # SLIP_ESC /\ SLIP_END # SLIP_ESC
  /\ \A b : Unescaped(b) \in Nat
BY DEF SLIP_START, SLIP_END, SLIP_ESC, Unescaped

\* A byte of a packet keeps the decoder in step with it (or looking for a START),
\* and nothing is received before END; at END it is the packet itself.
LEMMA InStepGoesOn ==
  ASSUME NEW list \in Packets, NEW p \in 1 .. Len(Enc(list)), NEW number,
         mode = "hunt" \/ InStep(mode, dataBuffer, list, p),
         Decode(number, Enc(list)[p])
  PROVE  /\ p < Len(Enc(list)) =>
              NothingReceived /\ (mode' = "hunt" \/ InStep(mode', dataBuffer', list, p + 1))
         /\ p = Len(Enc(list)) =>
              mode' = "hunt" /\ (NothingReceived \/ (dataBuffer = list /\ getPacket(number)))
<1> DEFINE e == Enc(list)
           n == Len(list)
           place == Place(list)
           b == e[p]
<1>1. /\ Len(e) \in Nat /\ Len(e) > 1 /\ n \in Nat /\ n >= 2
      /\ e[1] = SLIP_START /\ e[Len(e)] = SLIP_END
      /\ \A q \in 2 .. Len(e) : e[q] # SLIP_START
      /\ place[1] = 2 /\ place[n + 1] = Len(e)
      /\ SubSeq(list, 1, 0) = <<>> /\ SubSeq(list, 1, n) = list
  BY PacketEnds
<1>2. CASE mode = "hunt"
  <2>1. mode' = (IF b = SLIP_START THEN "body" ELSE "hunt") /\ dataBuffer' = <<>> /\ NothingReceived
    BY <1>2 DEF Decode, NothingReceived
  <2>2. CASE p = 1
    <3>1. mode' = "body" /\ 1 \in 1 .. n + 1 /\ 1 - 1 = 0 /\ p + 1 = place[1] /\ p # Len(e)
      BY <1>1, <2>1, <2>2
    <3>2. InStep(mode', dataBuffer', list, p + 1)
      BY <1>1, <2>1, <3>1 DEF InStep
    <3> QED BY <2>1, <3>1, <3>2
  <2>3. CASE p # 1
    <3>1. b # SLIP_START
      BY <1>1, <2>3
    <3> QED BY <2>1, <3>1
  <2> QED BY <2>2, <2>3
<1>3. ASSUME mode = "body", NEW k \in 1 .. n, p = place[k], dataBuffer = SubSeq(list, 1, k - 1)
      PROVE  p # Len(e) /\ NothingReceived /\ InStep(mode', dataBuffer', list, p + 1)
  <2>1. CASE ~ Escaped(list, k)
    <3>1. b = list[k] /\ b \notin {SLIP_END, SLIP_ESC} /\ place[k + 1] = p + 1 /\ k + 1 \in 1 .. n + 1
          /\ Append(dataBuffer, b) = SubSeq(list, 1, (k + 1) - 1)
      BY <1>3, <2>1, PacketBytes
    <3>2. mode' = "body" /\ dataBuffer' = Append(dataBuffer, b) /\ NothingReceived
      BY <1>3, <3>1 DEF Decode, NothingReceived
    <3>3. InStep(mode', dataBuffer', list, p + 1)
      BY <3>1, <3>2 DEF InStep
    <3> QED BY <1>1, <3>1, <3>2, <3>3
  <2>2. CASE Escaped(list, k)
    <3>1. b = SLIP_ESC /\ b # SLIP_END
      BY <1>3, <2>2, PacketBytes, BytesAreNat
    <3>2. mode' = "escape" /\ dataBuffer' = dataBuffer /\ NothingReceived
      BY <1>3, <3>1 DEF Decode, NothingReceived
    <3>3. InStep(mode', dataBuffer', list, p + 1)
      BY <1>3, <2>2, <3>2 DEF InStep
    <3> QED BY <1>1, <3>1, <3>2, <3>3
  <2> QED BY <2>1, <2>2
<1>4. ASSUME mode = "body", p = place[n + 1], dataBuffer = SubSeq(list, 1, (n + 1) - 1)
      PROVE  p = Len(e) /\ mode' = "hunt" /\ dataBuffer = list /\ getPacket(number)
  <2>1. p = Len(e) /\ b = SLIP_END /\ (n + 1) - 1 = n
    BY <1>1, <1>4
  <2> QED BY <1>1, <1>4, <2>1 DEF Decode
<1>5. ASSUME mode = "escape", NEW k \in 1 .. n, Escaped(list, k), p = place[k] + 1,
             dataBuffer = SubSeq(list, 1, k - 1)
      PROVE  p # Len(e) /\ NothingReceived /\ InStep(mode', dataBuffer', list, p + 1)
  <2>1. /\ b # SLIP_END /\ Unescaped(b) = list[k] /\ place[k + 1] = p + 1 /\ k + 1 \in 1 .. n + 1
        /\ Append(dataBuffer, list[k]) = SubSeq(list, 1, (k + 1) - 1)
    BY <1>5, PacketBytes
  <2>2. mode' = "body" /\ dataBuffer' = Append(dataBuffer, Unescaped(b)) /\ NothingReceived
    BY <1>5 DEF Decode, NothingReceived
  <2>3. InStep(mode', dataBuffer', list, p + 1)
    BY <2>1, <2>2 DEF InStep
  <2> QED BY <1>1, <2>1, <2>2, <2>3
<1>6. CASE InStep(mode, dataBuffer, list, p)
  <2>1. CASE mode = "body"
    <3>1. PICK k \in 1 .. n + 1 : p = place[k] /\ dataBuffer = SubSeq(list, 1, k - 1)
      BY <1>6, <2>1 DEF InStep
    <3>2. CASE k \in 1 .. n
      BY <1>3, <2>1, <3>1, <3>2
    <3>3. CASE k = n + 1
      BY <1>1, <1>4, <2>1, <3>1, <3>3
    <3> QED BY <1>1, <3>2, <3>3
  <2>2. CASE mode = "escape"
    BY <1>5, <1>6, <2>2 DEF InStep
  <2> QED BY <1>6, <2>1, <2>2 DEF InStep
<1> QED BY <1>2, <1>6

\* A decoder out of step stays so up to END.  There it hands something to getPacket
\* and looks for a START, or has taken the END for data and runs on.
LEMMA OutOfStepGoesOn ==
  ASSUME NEW list \in Packets, NEW p \in 1 .. Len(Enc(list)), NEW number,
         dataBuffer \in Seq(Nat), OutOfStep(mode, dataBuffer, list, p),
         Decode(number, Enc(list)[p])
  PROVE  /\ p < Len(Enc(list)) => NothingReceived /\ OutOfStep(mode', dataBuffer', list, p + 1)
         /\ p = Len(Enc(list)) =>
              \/ mode' = "hunt" /\ getPacket(number)
              \/ NothingReceived /\ RunsOn(mode', dataBuffer', 1)
<1> DEFINE e == Enc(list)
           n == Len(list)
           place == Place(list)
           b == e[p]
<1>1. /\ Len(e) \in Nat /\ Len(e) > 1 /\ n \in Nat /\ n >= 2
      /\ e[Len(e)] = SLIP_END /\ place[n + 1] = Len(e)
      /\ list \in Seq(Nat) /\ list[1] + 2 = n
  BY PacketEnds
<1>2. ASSUME mode = "body", NEW k \in 1 .. n, p = place[k]
      PROVE  p # Len(e) /\ NothingReceived /\ OutOfStep(mode', dataBuffer', list, p + 1)
  <2>1. CASE ~ Escaped(list, k)
    <3>1. /\ b = list[k] /\ list[k] \notin {SLIP_END, SLIP_ESC}
          /\ place[k + 1] = p + 1 /\ k + 1 \in 1 .. n + 1
      BY <1>2, <2>1, PacketBytes
    <3>2. mode' = "body" /\ NothingReceived
      BY <1>2, <3>1 DEF Decode, NothingReceived
    <3>3. OutOfStep(mode', dataBuffer', list, p + 1)
      BY <3>1, <3>2 DEF OutOfStep
    <3> QED BY <1>1, <3>1, <3>2, <3>3
  <2>2. CASE Escaped(list, k)
    <3>1. b = SLIP_ESC /\ b # SLIP_END
      BY <1>2, <2>2, PacketBytes, BytesAreNat
    <3>2. mode' = "escape" /\ NothingReceived
      BY <1>2, <3>1 DEF Decode, NothingReceived
    <3>3. OutOfStep(mode', dataBuffer', list, p + 1)
      BY <1>2, <2>2, <3>2 DEF OutOfStep
    <3> QED BY <1>1, <3>1, <3>2, <3>3
  <2> QED BY <2>1, <2>2
<1>3. ASSUME mode = "body", p = place[n + 1]
      PROVE  p = Len(e) /\ mode' = "hunt" /\ getPacket(number)
  <2>1. p = Len(e) /\ b = SLIP_END
    BY <1>1, <1>3
  <2> QED BY <1>3, <2>1 DEF Decode
<1>4. ASSUME mode \in {"body", "escape"}, NEW k \in 1 .. n, Escaped(list, k), p = place[k] + 1
      PROVE  p # Len(e) /\ NothingReceived /\ OutOfStep(mode', dataBuffer', list, p + 1)
  <2>1. b \notin {SLIP_END, SLIP_ESC} /\ place[k + 1] = p + 1 /\ k + 1 \in 1 .. n + 1
    BY <1>4, PacketBytes
  <2>2. mode' = "body" /\ NothingReceived
    BY <1>4, <2>1 DEF Decode, NothingReceived
  <2>3. OutOfStep(mode', dataBuffer', list, p + 1)
    BY <2>1, <2>2 DEF OutOfStep
  <2> QED BY <1>1, <2>1, <2>2, <2>3
<1>5. ASSUME mode = "escape", NEW k \in 1 .. n, p = place[k]
      PROVE  p # Len(e) /\ NothingReceived /\ OutOfStep(mode', dataBuffer', list, p + 1)
  <2>1. mode' = "body" /\ NothingReceived
    BY <1>5 DEF Decode, NothingReceived
  <2>2. b # SLIP_END
    <3>1. (b = list[k] /\ list[k] # SLIP_END) \/ b = SLIP_ESC
      BY <1>5, PacketBytes
    <3> QED BY <3>1, BytesAreNat
  <2>3. CASE ~ Escaped(list, k)
    <3>1. place[k + 1] = p + 1 /\ k + 1 \in 1 .. n + 1
      BY <1>5, <2>3, PacketBytes
    <3> QED BY <1>1, <2>1, <2>2, <3>1 DEF OutOfStep
  <2>4. CASE Escaped(list, k)
    <3>1. p + 1 = place[k] + 1
      BY <1>5
    <3> QED BY <1>1, <2>1, <2>2, <2>4, <3>1 DEF OutOfStep
  <2> QED BY <2>3, <2>4
<1>6. ASSUME mode = "escape", p = place[n + 1], dataBuffer = SubSeq(list, 1, n - 1)
      PROVE  p = Len(e) /\ NothingReceived /\ RunsOn(mode', dataBuffer', 1)
  <2> DEFINE c == Unescaped(b)
             d == Append(dataBuffer, c)
  <2>1. mode' = "body" /\ dataBuffer' = d /\ NothingReceived
    BY <1>6 DEF Decode, NothingReceived
  <2>2. c \in Nat
    BY BytesAreNat
  <2> DEFINE x == SubSeq(list, 1, n - 1)
  <2>3. x \in Seq(Nat) /\ Len(x) = n - 1 /\ x[1] = list[1]
    BY <1>1
  <2>4. d = Append(x, c)
    BY <1>6
  <2> HIDE DEF c, x, d
  <2>5. d[1] = list[1] /\ Len(d) = n /\ d # <<>>
    BY <1>1, <2>2, <2>3, <2>4
  <2>6. RunsOn(mode', dataBuffer', 1)
    BY <1>1, <2>1, <2>5 DEF RunsOn, SHORT_HEADER_LENGTH
  <2> QED BY <1>1, <1>6, <2>1, <2>6
<1>7. CASE mode = "body" /\ \E k \in 1 .. n + 1 : p = place[k]
  <2>1. PICK k \in 1 .. n + 1 : p = place[k]
    BY <1>7
  <2>2. CASE k \in 1 .. n
    BY <1>2, <1>7, <2>1, <2>2
  <2>3. CASE k = n + 1
    BY <1>1, <1>3, <1>7, <2>1, <2>3
  <2> QED BY <1>1, <2>2, <2>3
<1>8. CASE mode \in {"body", "escape"} /\ \E k \in 1 .. n : Escaped(list, k) /\ p = place[k] + 1
  BY <1>4, <1>8
<1>9. CASE /\ mode = "escape"
           /\ \E k \in 1 .. n + 1 : p = place[k] /\ (k = n + 1 => dataBuffer = SubSeq(list, 1, n - 1))
  <2>1. PICK k \in 1 .. n + 1 : p = place[k] /\ (k = n + 1 => dataBuffer = SubSeq(list, 1, n - 1))
    BY <1>9
  <2>2. CASE k \in 1 .. n
    BY <1>5, <1>9, <2>1, <2>2
  <2>3. CASE k = n + 1
    BY <1>1, <1>6, <1>9, <2>1, <2>3
  <2> QED BY <1>1, <2>2, <2>3
<1> QED BY <1>7, <1>8, <1>9 DEF OutOfStep

\* A decoder that runs on never hands a valid packet to getPacket.
LEMMA RunsOnGoesOn ==
  ASSUME NEW list \in Packets, NEW p \in 1 .. Len(Enc(list)), NEW number,
         dataBuffer \in Seq(Nat), RunsOn(mode, dataBuffer, p),
         Decode(number, Enc(list)[p])
  PROVE  /\ NothingReceived
         /\ \/ mode' = "hunt"
            \/ RunsOn(mode', dataBuffer', IF p < Len(Enc(list)) THEN p + 1 ELSE 1)
<1> DEFINE e == Enc(list)
           b == e[p]
           q == IF p < Len(e) THEN p + 1 ELSE 1
<1>1. /\ Len(e) \in Nat /\ Len(e) > 1 /\ e \in Seq(Nat) /\ e[1] = SLIP_START /\ e[Len(e)] = SLIP_END
  BY PacketEnds
<1>2. b \in Nat
  BY <1>1
<1>3. dataBuffer # <<>> /\ dataBuffer[1] \in Nat /\ Len(dataBuffer) \in Nat
      /\ dataBuffer[1] + 2 <= Len(dataBuffer)
      /\ IF p = 1 THEN mode = "body" ELSE dataBuffer[1] + 2 # Len(dataBuffer)
  BY DEF RunsOn, SHORT_HEADER_LENGTH
<1>4. ASSUME NEW c \in Nat, mode' = "body", dataBuffer' = Append(dataBuffer, c)
      PROVE  RunsOn(mode', dataBuffer', q)
  <2> DEFINE d == Append(dataBuffer, c)
  <2>1. d[1] = dataBuffer[1] /\ Len(d) = Len(dataBuffer) + 1 /\ d # <<>>
    BY <1>3
  <2> HIDE DEF d
  <2>2. d[1] + 2 <= Len(d) /\ d[1] + 2 # Len(d)
    BY <1>3, <2>1
  <2>3. dataBuffer' = d
    BY <1>4 DEF d
  <2> QED BY <1>4, <2>1, <2>2, <2>3 DEF RunsOn, SHORT_HEADER_LENGTH
<1>5. CASE mode = "escape"
  <2>1. mode' = "body" /\ dataBuffer' = Append(dataBuffer, Unescaped(b)) /\ NothingReceived
    BY <1>5 DEF Decode, NothingReceived
  <2> QED BY <1>4, <2>1, BytesAreNat
<1>6. CASE mode = "body" /\ b = SLIP_END
  <2>1. mode' = "hunt" /\ getPacket(number)
    BY <1>6 DEF Decode
  <2>2. p # 1
    BY <1>1, <1>6, BytesAreNat
  <2>3. ~ Valid(dataBuffer)
    BY <1>3, <2>2 DEF Valid, SHORT_HEADER_LENGTH
  <2> QED BY <2>1, <2>3 DEF getPacket, NothingReceived
<1>7. CASE mode = "body" /\ b = SLIP_ESC
  <2>1. mode' = "escape" /\ dataBuffer' = dataBuffer /\ NothingReceived
    BY <1>7, BytesAreNat DEF Decode, NothingReceived
  <2>2. p # 1 /\ p # Len(e)
    BY <1>1, <1>7, BytesAreNat
  <2>3. q # 1
    BY <1>1, <2>2
  <2>4. RunsOn(mode', dataBuffer', q)
    BY <1>3, <2>1, <2>2, <2>3 DEF RunsOn, SHORT_HEADER_LENGTH
  <2> QED BY <2>1, <2>4
<1>8. CASE mode = "body" /\ b \notin {SLIP_END, SLIP_ESC}
  <2>1. mode' = "body" /\ dataBuffer' = Append(dataBuffer, b) /\ NothingReceived
    BY <1>8 DEF Decode, NothingReceived
  <2> QED BY <1>2, <1>4, <2>1
<1> QED BY <1>5, <1>6, <1>7, <1>8 DEF RunsOn

\* Losing a byte takes the decoder from in step to out of step, or, when the byte
\* is END, into the next packet.
LEMMA LossBreaksStep ==
  ASSUME NEW list \in Packets, NEW p \in 1 .. Len(Enc(list)), NEW md, NEW buf,
         InStep(md, buf, list, p)
  PROVE  /\ p < Len(Enc(list)) => OutOfStep(md, buf, list, p + 1)
         /\ p = Len(Enc(list)) => RunsOn(md, buf, 1)
<1> DEFINE e == Enc(list)
           n == Len(list)
           place == Place(list)
<1>1. /\ Len(e) \in Nat /\ Len(e) > 1 /\ n \in Nat /\ n >= 2
      /\ e[Len(e)] = SLIP_END /\ place[n + 1] = Len(e)
      /\ list \in Seq(Nat) /\ list[1] + 2 = n /\ SubSeq(list, 1, n) = list
  BY PacketEnds
<1>2. ASSUME md = "body", NEW k \in 1 .. n, p = place[k]
      PROVE  p # Len(e) /\ OutOfStep(md, buf, list, p + 1)
  <2>1. e[p] # SLIP_END /\ k + 1 \in 1 .. n + 1
    BY <1>2, PacketBytes, BytesAreNat
  <2>2. CASE ~ Escaped(list, k)
    <3>1. place[k + 1] = p + 1
      BY <1>2, <2>2, PacketBytes
    <3> QED BY <1>1, <1>2, <2>1, <3>1 DEF OutOfStep
  <2>3. CASE Escaped(list, k)
    BY <1>1, <1>2, <2>1, <2>3 DEF OutOfStep
  <2> QED BY <2>2, <2>3
<1>3. ASSUME md = "body", p = place[n + 1], buf = SubSeq(list, 1, (n + 1) - 1)
      PROVE  p = Len(e) /\ RunsOn(md, buf, 1)
  <2>1. (n + 1) - 1 = n /\ buf = list
    BY <1>1, <1>3
  <2>2. list # <<>>
    BY <1>1
  <2> QED BY <1>1, <1>3, <2>1, <2>2 DEF RunsOn, SHORT_HEADER_LENGTH
<1>4. ASSUME md = "escape", NEW k \in 1 .. n, Escaped(list, k), p = place[k] + 1,
             buf = SubSeq(list, 1, k - 1)
      PROVE  p # Len(e) /\ OutOfStep(md, buf, list, p + 1)
  <2>1. e[p] # SLIP_END /\ k + 1 \in 1 .. n + 1 /\ place[k + 1] = p + 1
    BY <1>4, PacketBytes
  <2>2. k + 1 = n + 1 => buf = SubSeq(list, 1, n - 1)
    <3>1. k + 1 = n + 1 => k = n
      <4> HIDE DEF n
      <4> QED BY <1>1
    <3> QED BY <1>4, <3>1
  <2> QED BY <1>1, <1>4, <2>1, <2>2 DEF OutOfStep
<1>5. CASE md = "body"
  <2>1. PICK k \in 1 .. n + 1 : p = place[k] /\ buf = SubSeq(list, 1, k - 1)
    BY <1>5 DEF InStep
  <2>2. CASE k \in 1 .. n
    BY <1>2, <1>5, <2>1, <2>2
  <2>3. CASE k = n + 1
    BY <1>1, <1>3, <1>5, <2>1, <2>3
  <2> QED BY <1>1, <2>2, <2>3
<1>6. CASE md = "escape"
  BY <1>4, <1>6 DEF InStep
<1> QED BY <1>5, <1>6 DEF InStep

-----------------------------------------------------------------------------
\* What is on the line: bytes that carry the number of their packet.
Bytes == Nat \X Nat

\* The packet of the byte i of a line; behind its last byte that is the next packet
\* to be sent.
NumberAt(ln, snt, i) == IF i \in 1 .. Len(ln) THEN ln[i][1] ELSE Len(snt) + 1

\* Which byte of its packet's encoding it is; the next packet begins with its first.
PosAt(ln, pos, i) == IF i \in 1 .. Len(ln) THEN pos[i] ELSE 1

\* A line is what remains of the encodings of the packets snt, in order: pos[i] says
\* which byte of its packet's encoding the byte i is, and after each comes the next
\* byte of its packet or the first of the next packet.
Places(ln, snt, pos) ==
  /\ pos \in [1 .. Len(ln) -> Nat]
  /\ \A i \in 1 .. Len(ln) :
       /\ ln[i][1] \in 1 .. Len(snt)
       /\ pos[i] \in 1 .. Len(Enc(snt[ln[i][1]]))
       /\ ln[i][2] = Enc(snt[ln[i][1]])[pos[i]]
       /\ IF pos[i] = Len(Enc(snt[ln[i][1]]))
            THEN NumberAt(ln, snt, i + 1) = ln[i][1] + 1 /\ PosAt(ln, pos, i + 1) = 1
            ELSE NumberAt(ln, snt, i + 1) = ln[i][1] /\ PosAt(ln, pos, i + 1) = pos[i] + 1

\* A line without its first byte is still one.
LEMMA TakingFromLine ==
  ASSUME NEW snt \in Seq(Packets), NEW ln \in Seq(Bytes), NEW pos, Places(ln, snt, pos), ln # <<>>
  PROVE  \E q : /\ Places(Tail(ln), snt, q)
                /\ NumberAt(Tail(ln), snt, 1) = NumberAt(ln, snt, 2)
                /\ PosAt(Tail(ln), q, 1) = PosAt(ln, pos, 2)
<1> DEFINE n == Len(ln)
           t == Tail(ln)
           m == Len(t)
           q == [i \in 1 .. m |-> pos[i + 1]]
<1>1. n \in Nat /\ n > 0 /\ m \in Nat /\ n = m + 1 /\ \A i \in 1 .. m : t[i] = ln[i + 1]
  BY DEF Bytes
<1>2. pos \in [1 .. n -> Nat]
  BY DEF Places
<1> HIDE DEF n, t, m
<1>3. q \in [1 .. m -> Nat] /\ \A i \in 1 .. m : q[i] = pos[i + 1]
  BY <1>1, <1>2
<1> HIDE DEF q
<1>4. \A i \in 1 .. m + 1 :
        /\ NumberAt(t, snt, i) = NumberAt(ln, snt, i + 1)
        /\ PosAt(t, q, i) = PosAt(ln, pos, i + 1)
  <2> TAKE i \in 1 .. m + 1
  <2>1. CASE i \in 1 .. m
    <3>1. i + 1 \in 1 .. n
      BY <1>1, <2>1
    <3> QED BY <1>1, <1>3, <2>1, <3>1 DEF NumberAt, PosAt, m, n
  <2>2. CASE i = m + 1
    <3>1. i + 1 \notin 1 .. n /\ i \notin 1 .. m
      BY <1>1, <2>2
    <3> QED BY <3>1 DEF NumberAt, PosAt, m, n
  <2> QED BY <1>1, <2>1, <2>2
<1>5. ASSUME NEW i \in 1 .. m
      PROVE  /\ t[i][1] \in 1 .. Len(snt)
             /\ q[i] \in 1 .. Len(Enc(snt[t[i][1]]))
             /\ t[i][2] = Enc(snt[t[i][1]])[q[i]]
             /\ IF q[i] = Len(Enc(snt[t[i][1]]))
                  THEN NumberAt(t, snt, i + 1) = t[i][1] + 1 /\ PosAt(t, q, i + 1) = 1
                  ELSE NumberAt(t, snt, i + 1) = t[i][1] /\ PosAt(t, q, i + 1) = q[i] + 1
  <2> DEFINE k == i + 1
  <2>1. k \in 1 .. n /\ k \in 1 .. m + 1
    BY <1>1
  <2>2. t[i] = ln[k] /\ q[i] = pos[k]
    BY <1>1, <1>3
  <2>3. /\ ln[k][1] \in 1 .. Len(snt)
        /\ pos[k] \in 1 .. Len(Enc(snt[ln[k][1]]))
        /\ ln[k][2] = Enc(snt[ln[k][1]])[pos[k]]
        /\ IF pos[k] = Len(Enc(snt[ln[k][1]]))
             THEN NumberAt(ln, snt, k + 1) = ln[k][1] + 1 /\ PosAt(ln, pos, k + 1) = 1
             ELSE NumberAt(ln, snt, k + 1) = ln[k][1] /\ PosAt(ln, pos, k + 1) = pos[k] + 1
    <3> HIDE DEF k
    <3> QED BY <2>1 DEF Places, n
  <2>4. NumberAt(t, snt, k) = NumberAt(ln, snt, k + 1) /\ PosAt(t, q, k) = PosAt(ln, pos, k + 1)
    BY <1>4, <2>1
  <2> QED BY <2>2, <2>3, <2>4
<1>6. Places(t, snt, q)
  BY <1>3, <1>5 DEF Places, m
<1>7. 1 \in 1 .. m + 1 /\ 1 + 1 = 2
  BY <1>1
<1> QED BY <1>4, <1>6, <1>7 DEF t

\* The bytes of a packet with its number.
Tagged(number, e) == [i \in DOMAIN e |-> <<number, e[i]>>]

\* A line that has grown by a packet, and still begins with the same byte.
Grown(ln, snt, pos, new, more, q) ==
  /\ new \in Seq(Bytes) /\ more \in Seq(Packets)
  /\ Places(new, more, q)
  /\ NumberAt(new, more, 1) = NumberAt(ln, snt, 1)
  /\ PosAt(new, q, 1) = PosAt(ln, pos, 1)

\* sendPacket puts the encoding of the next packet behind the line.
LEMMA PuttingOnLine ==
  ASSUME NEW snt \in Seq(Packets), NEW ln \in Seq(Bytes), NEW pos, Places(ln, snt, pos),
         NEW list \in Packets
  PROVE  \E q : Grown(ln, snt, pos, ln \o Tagged(Len(snt) + 1, Enc(list)), Append(snt, list), q)
<1> DEFINE e == Enc(list)
           tagged == Tagged(Len(snt) + 1, e)
           new == ln \o tagged
           more == Append(snt, list)
           n == Len(ln)
           m == Len(e)
           s == Len(snt)
           q == [i \in 1 .. n + m |-> IF i <= n THEN pos[i] ELSE i - n]
<1>1. e \in Seq(Nat) /\ m \in Nat /\ m > 1
  BY PacketEnds
<1>2. /\ more \in Seq(Packets) /\ Len(more) = s + 1 /\ s \in Nat /\ more[s + 1] = list
      /\ \A k \in 1 .. s : more[k] = snt[k]
  OBVIOUS
<1>3. tagged \in Seq(Bytes) /\ Len(tagged) = m /\ \A i \in 1 .. m : tagged[i] = <<s + 1, e[i]>>
  <2>1. DOMAIN e = 1 .. m /\ \A i \in 1 .. m : e[i] \in Nat
    BY <1>1
  <2> HIDE DEF e, m
  <2>2. \A i \in 1 .. m : <<s + 1, e[i]>> \in Bytes
    BY <1>2, <2>1 DEF Bytes
  <2> HIDE DEF s
  <2> QED BY <1>1, <2>1, <2>2 DEF s, Tagged
<1> HIDE DEF tagged
<1>4. /\ new \in Seq(Bytes) /\ Len(new) = n + m /\ n \in Nat
      /\ \A i \in 1 .. n : new[i] = ln[i]
      /\ \A i \in 1 .. m : new[n + i] = <<s + 1, e[i]>>
  <2> HIDE DEF e, m, s
  <2>1. new \in Seq(Bytes) /\ Len(new) = n + m /\ n \in Nat
    <3>1. new \in Seq(Bytes)
      BY <1>3
    <3>2. Len(new) = Len(ln) + Len(tagged) /\ n \in Nat
      BY <1>3, ConcatProperties, LenProperties
    <3> QED BY <1>3, <3>1, <3>2
  <2>2. \A i \in 1 .. n : new[i] = ln[i]
    BY <1>1, <1>3
  <2>3. \A i \in 1 .. m : new[n + i] = tagged[i]
    BY <1>1, <1>3
  <2> QED BY <1>3, <2>1, <2>2, <2>3
<1>5. pos \in [1 .. n -> Nat]
  BY DEF Places
<1> HIDE DEF e, new, more, n, m, s
<1>6. /\ q \in [1 .. n + m -> Nat]
      /\ \A i \in 1 .. n : q[i] = pos[i]
      /\ \A i \in 1 .. m : q[n + i] = i
  <2>1. ASSUME NEW i \in 1 .. n + m PROVE (IF i <= n THEN pos[i] ELSE i - n) \in Nat
    <3>1. i <= n => i \in 1 .. n
      BY <1>1, <1>4
    <3> QED BY <1>1, <1>4, <1>5, <3>1
  <2> QED BY <1>1, <1>4, <2>1
<1> HIDE DEF q
<1>7. /\ \A i \in 1 .. n : NumberAt(new, more, i) = ln[i][1] /\ PosAt(new, q, i) = pos[i]
      /\ \A i \in 1 .. m : NumberAt(new, more, n + i) = s + 1 /\ PosAt(new, q, n + i) = i
      /\ NumberAt(new, more, n + m + 1) = s + 2 /\ PosAt(new, q, n + m + 1) = 1
  <2>1. ASSUME NEW i \in 1 .. n
        PROVE  NumberAt(new, more, i) = ln[i][1] /\ PosAt(new, q, i) = pos[i]
    <3>1. i \in 1 .. Len(new)
      BY <1>1, <1>4
    <3> QED BY <1>4, <1>6, <3>1 DEF NumberAt, PosAt
  <2>2. ASSUME NEW i \in 1 .. m
        PROVE  NumberAt(new, more, n + i) = s + 1 /\ PosAt(new, q, n + i) = i
    <3>1. n + i \in 1 .. Len(new)
      BY <1>1, <1>4
    <3> QED BY <1>4, <1>6, <3>1 DEF NumberAt, PosAt
  <2>3. NumberAt(new, more, n + m + 1) = s + 2 /\ PosAt(new, q, n + m + 1) = 1
    <3>1. n + m + 1 \notin 1 .. Len(new)
      BY <1>1, <1>4
    <3> QED BY <1>2, <3>1 DEF NumberAt, PosAt
  <2> QED BY <2>1, <2>2, <2>3
\* What comes at a place of the old line is what came there before.
<1>8. \A i \in 1 .. n + 1 :
        NumberAt(new, more, i) = NumberAt(ln, snt, i) /\ PosAt(new, q, i) = PosAt(ln, pos, i)
  <2> TAKE i \in 1 .. n + 1
  <2>1. CASE i \in 1 .. n
    BY <1>7, <2>1 DEF NumberAt, PosAt, n
  <2>2. CASE i = n + 1
    <3>1. i \notin 1 .. n /\ 1 \in 1 .. m
      BY <1>1, <1>4, <2>2
    <3> QED BY <1>7, <2>2, <3>1 DEF NumberAt, PosAt, n, s
  <2> QED BY <1>4, <2>1, <2>2
<1>9. ASSUME NEW i \in 1 .. n + m
      PROVE  /\ new[i][1] \in 1 .. Len(more)
             /\ q[i] \in 1 .. Len(Enc(more[new[i][1]]))
             /\ new[i][2] = Enc(more[new[i][1]])[q[i]]
             /\ IF q[i] = Len(Enc(more[new[i][1]]))
                  THEN NumberAt(new, more, i + 1) = new[i][1] + 1 /\ PosAt(new, q, i + 1) = 1
                  ELSE NumberAt(new, more, i + 1) = new[i][1] /\ PosAt(new, q, i + 1) = q[i] + 1
  <2>1. CASE i \in 1 .. n
    <3>1. /\ ln[i][1] \in 1 .. s
          /\ pos[i] \in 1 .. Len(Enc(snt[ln[i][1]]))
          /\ ln[i][2] = Enc(snt[ln[i][1]])[pos[i]]
          /\ IF pos[i] = Len(Enc(snt[ln[i][1]]))
               THEN NumberAt(ln, snt, i + 1) = ln[i][1] + 1 /\ PosAt(ln, pos, i + 1) = 1
               ELSE NumberAt(ln, snt, i + 1) = ln[i][1] /\ PosAt(ln, pos, i + 1) = pos[i] + 1
      BY <2>1 DEF Places, n, s
    <3>2. i + 1 \in 1 .. n + 1
      BY <1>4, <2>1
    <3>3. /\ NumberAt(new, more, i + 1) = NumberAt(ln, snt, i + 1)
          /\ PosAt(new, q, i + 1) = PosAt(ln, pos, i + 1)
      BY <1>8, <3>2
    <3>4. new[i] = ln[i] /\ q[i] = pos[i]
      BY <1>4, <1>6, <2>1
    <3>5. ln[i][1] \in 1 .. Len(more) /\ more[ln[i][1]] = snt[ln[i][1]]
      BY <1>2, <3>1
    <3> QED BY <3>1, <3>3, <3>4, <3>5
  <2>2. CASE i \notin 1 .. n
    <3> DEFINE k == i - n
    <3>1. k \in 1 .. m /\ i = n + k
      BY <1>1, <1>4, <2>2
    <3> HIDE DEF k
    <3>2. new[i] = <<s + 1, e[k]>> /\ q[i] = k
      BY <1>4, <1>6, <3>1
    <3>3. new[i][1] = s + 1 /\ new[i][2] = e[k] /\ Enc(more[s + 1]) = e /\ s + 1 \in 1 .. Len(more)
      BY <1>2, <3>2 DEF e
    <3>4. CASE k = m
      <4>1. i + 1 = n + m + 1
        BY <3>1, <3>4
      <4>2. NumberAt(new, more, i + 1) = (s + 1) + 1 /\ PosAt(new, q, i + 1) = 1
        BY <1>2, <1>7, <4>1
      <4> QED BY <1>1, <3>1, <3>2, <3>3, <3>4, <4>2 DEF m
    <3>5. CASE k # m
      <4>1. k + 1 \in 1 .. m /\ i + 1 = n + (k + 1)
        BY <1>1, <1>4, <3>1, <3>5
      <4>2. NumberAt(new, more, i + 1) = s + 1 /\ PosAt(new, q, i + 1) = k + 1
        BY <1>7, <4>1
      <4> QED BY <3>1, <3>2, <3>3, <3>5, <4>2 DEF m
    <3> QED BY <3>4, <3>5
  <2> QED BY <2>1, <2>2
<1>10. Places(new, more, q)
  BY <1>4, <1>6, <1>9 DEF Places
<1>11. 1 \in 1 .. n + 1
  BY <1>4
<1>12. new = ln \o Tagged(Len(snt) + 1, Enc(list)) /\ more = Append(snt, list)
  BY DEF new, more, tagged, e
<1>13. Grown(ln, snt, pos, new, more, q)
  BY <1>2, <1>4, <1>8, <1>10, <1>11 DEF Grown
<1> QED BY <1>12, <1>13

-----------------------------------------------------------------------------
\* The types; the packets carry the length of what follows their header.
FramingTypeOK ==
  /\ line \in Seq(Bytes) /\ mode \in DecoderModes /\ dataBuffer \in Seq(Nat)
  /\ sent \in Seq(Packets) /\ received \in Seq(Nat \X Seq(Nat))
  /\ lastReceivedPacket \in Nat \X Nat
  /\ hurt \subseteq 1 .. Len(sent) /\ lost \in Nat

\* The counter of a packet is its number, wrapped.
CountersCount == \A n \in 1 .. Len(sent) : sent[n][2] = (n - 1) % PACKET_COUNTER_CAP

\* Where the decoder is when the next byte on the line is the byte p of packet n:
\* looking for a START (at the beginning, after a packet, after a timeout), in step
\* with the packet, out of step with a packet that lost a byte, or in a packet whose
\* END was lost.
DecoderAt(n, p) ==
  \/ mode = "hunt"
  \/ n \in 1 .. Len(sent) /\ InStep(mode, dataBuffer, sent[n], p)
  \/ n \in hurt /\ lost > 0 /\ OutOfStep(mode, dataBuffer, sent[n], p)
  \/ lost > 0 /\ RunsOn(mode, dataBuffer, p)

\* The line is what remains of the encodings, and unless two bytes were lost the
\* decoder is where its next byte says.
LineInOrder ==
  \E pos, n, p :
    /\ Places(line, sent, pos)
    /\ n = NumberAt(line, sent, 1) /\ p = PosAt(line, pos, 1)
    /\ lost <= 1 => DecoderAt(n, p)

\* The last valid packet is the newest of the channel, and older than the line.
LastIsNewest ==
  /\ lastReceivedPacket[1] = Channel!Newest
  /\ lastReceivedPacket[1] < NumberAt(line, sent, 1)

\* While no byte was lost, the last valid packet has its own counter and every logged
\* gap is one.
HistoryIsExact ==
  lost = 0 =>
    /\ lastReceivedPacket # NoPacket =>
         /\ lastReceivedPacket[1] > 0
         /\ lastReceivedPacket[2] = (lastReceivedPacket[1] - 1) % PACKET_COUNTER_CAP
    /\ \A gap \in gaps : gap[2] > gap[1] + 1

\* The inductive invariant of the framing.
FramingInv ==
  FramingTypeOK /\ CountersCount /\ LineInOrder /\ LastIsNewest /\ HistoryIsExact

\* It holds at the start, which is the start of the channel.
LEMMA InitFramingInv == FramingInit => FramingInv /\ Channel!Init
<1> SUFFICES ASSUME FramingInit PROVE FramingInv /\ Channel!Init
  OBVIOUS
<1>1. line = <<>> /\ Len(line) = 0 /\ sent = <<>> /\ Len(sent) = 0 /\ mode = "hunt"
  BY DEF FramingInit
<1>2. FramingTypeOK
  BY DEF FramingInit, FramingTypeOK, DecoderModes, NoPacket
<1>3. CountersCount
  BY <1>1 DEF CountersCount
<1>4. LineInOrder
  <2> DEFINE pos == [i \in 1 .. 0 |-> 0]
  <2>1. Places(line, sent, pos)
    BY <1>1 DEF Places
  <2> QED BY <1>1, <2>1 DEF LineInOrder, DecoderAt
<1>5. LastIsNewest
  BY <1>1 DEF FramingInit, LastIsNewest, Channel!Newest, NumberAt, NoPacket
<1>6. HistoryIsExact
  BY DEF FramingInit, HistoryIsExact
<1> QED BY <1>2, <1>3, <1>4, <1>5, <1>6 DEF FramingInv, FramingInit, Channel!Init

\* What sendPacket builds is a packet with the next counter.
LEMMA HeaderMakesPacket ==
  ASSUME FramingInv, NEW payload \in Payloads
  PROVE  LET list == Header(payload) \o payload
         IN  list \in Packets /\ list[2] = Len(sent) % PACKET_COUNTER_CAP
<1>1. payload \in Seq(Nat)
  <2>1. payload \in Seq(0 .. 255)
    BY FramingAssumption
  <2>2. 0 .. 255 \subseteq Nat
    OBVIOUS
  <2> QED BY <2>1, <2>2, SeqMonotonic, Zenon
<1>2. Len(sent) \in Nat /\ Len(sent) % PACKET_COUNTER_CAP \in Nat
  BY FramingAssumption DEF FramingInv, FramingTypeOK
<1> DEFINE c == Len(sent) % PACKET_COUNTER_CAP
           list == <<Len(payload), c>> \o payload
<1> HIDE DEF c
<1>3. list \in Seq(Nat) /\ Len(list) = 2 + Len(payload) /\ Len(payload) \in Nat
      /\ list[1] = Len(payload) /\ list[2] = c
  BY <1>1, <1>2 DEF c
<1>4. list = Header(payload) \o payload
  BY DEF Header, c
<1> HIDE DEF list
<1>5. list \in Packets
  BY <1>3 DEF Packets, SHORT_HEADER_LENGTH
<1> QED BY <1>3, <1>4, <1>5 DEF c

\* Sending keeps the invariant, and is a Send of the channel.
LEMMA SendKeepsFramingInv ==
  ASSUME FramingInv, NEW payload \in Payloads, sendPacket(payload)
  PROVE  FramingInv' /\ Channel!Send
<1> DEFINE list == Header(payload) \o payload
           n == Len(sent)
<1>1. list \in Packets /\ list[2] = n % PACKET_COUNTER_CAP
  BY HeaderMakesPacket
<1>2. /\ sent' = Append(sent, list)
      /\ line' = line \o Tagged(Len(sent) + 1, Enc(list))
      /\ UNCHANGED <<mode, dataBuffer, lastReceivedPacket, received, gaps, hurt, lost>>
  BY DEF sendPacket, Enc, Tagged
<1> HIDE DEF list
<1>3. sent \in Seq(Packets) /\ line \in Seq(Bytes) /\ n \in Nat
  BY DEF FramingInv, FramingTypeOK
<1>4. PICK pos, k, p :
        /\ Places(line, sent, pos)
        /\ k = NumberAt(line, sent, 1) /\ p = PosAt(line, pos, 1)
        /\ lost <= 1 => DecoderAt(k, p)
  BY DEF FramingInv, LineInOrder
<1>5. PICK q : Grown(line, sent, pos, line', sent', q)
  BY <1>1, <1>2, <1>3, <1>4, PuttingOnLine
<1>6. /\ line' \in Seq(Bytes) /\ sent' \in Seq(Packets) /\ Places(line', sent', q)
      /\ NumberAt(line', sent', 1) = NumberAt(line, sent, 1)
      /\ PosAt(line', q, 1) = PosAt(line, pos, 1)
  BY <1>5 DEF Grown
<1>7. /\ Len(sent') = n + 1 /\ sent'[n + 1] = list
      /\ \A i \in 1 .. n : sent'[i] = sent[i]
  BY <1>1, <1>2, <1>3
<1>8. FramingTypeOK'
  <2>1. 1 .. Len(sent) \subseteq 1 .. Len(sent')
    BY <1>3, <1>7
  <2> QED BY <1>2, <1>5, <1>6, <2>1 DEF FramingInv, FramingTypeOK
<1>9. CountersCount'
  <2> SUFFICES ASSUME NEW i \in 1 .. n + 1 PROVE sent'[i][2] = (i - 1) % PACKET_COUNTER_CAP
    BY <1>7 DEF CountersCount
  <2>1. CASE i \in 1 .. n
    BY <1>7, <2>1 DEF FramingInv, CountersCount
  <2>2. CASE i = n + 1
    <3>1. i - 1 = n
      BY <1>3, <2>2
    <3> QED BY <1>1, <1>7, <2>2, <3>1
  <2> QED BY <1>3, <2>1, <2>2
<1>10. LineInOrder'
  <2>1. DecoderAt(k, p) => DecoderAt(k, p)'
    <3>1. k \in 1 .. n => k \in 1 .. Len(sent') /\ sent'[k] = sent[k]
      BY <1>3, <1>7
    <3>2. hurt \subseteq 1 .. n
      BY DEF FramingInv, FramingTypeOK
    <3> QED BY <1>2, <3>1, <3>2 DEF DecoderAt
  <2>2. Places(line', sent', q) /\ k = NumberAt(line', sent', 1) /\ p = PosAt(line', q, 1)
    BY <1>4, <1>5, <1>6
  <2>3. lost' <= 1 => DecoderAt(k, p)'
    BY <1>2, <1>4, <2>1
  <2> QED BY <2>2, <2>3 DEF LineInOrder
<1>11. LastIsNewest' /\ HistoryIsExact'
  BY <1>2, <1>5, <1>6 DEF FramingInv, LastIsNewest, HistoryIsExact, Channel!Newest
<1>12. Channel!Send
  <2>1. sent' # <<>> /\ sent'[Len(sent')] = list
    BY <1>3, <1>7
  <2> QED BY <1>2, <2>1 DEF Channel!Send
<1> QED BY <1>8, <1>9, <1>10, <1>11, <1>12 DEF FramingInv

\* The counter after a number is the number after its counter, wrapped.
LEMMA ModSuccessor ==
  ASSUME NEW c \in Nat \ {0}, NEW a \in Nat
  PROVE  ((a % c) + 1) % c = (a + 1) % c
<1>1. \A k \in Nat : \A r \in 0 .. c - 1 : (c * k + r) % c = r
  OBVIOUS
<1>2. PICK k \in Nat, r \in 0 .. c - 1 : a = c * k + r
  <2>1. a = c * (a \div c) + (a % c)
    OBVIOUS
  <2>2. (a % c) \in 0 .. c - 1 /\ (a \div c) \in Nat
    OBVIOUS
  <2> QED BY <2>1, <2>2
<1>3. (a % c) = r
  BY <1>1, <1>2
<1>4. CASE r + 1 < c
  <2>1. r + 1 \in 0 .. c - 1 /\ a + 1 = c * k + (r + 1)
    BY <1>2, <1>4
  <2>2. (a + 1) % c = r + 1
    BY <1>1, <2>1
  <2>3. (r + 1) % c = r + 1
    BY <2>1
  <2> QED BY <1>3, <2>2, <2>3
<1>5. CASE r + 1 = c
  <2>1. a + 1 = c * (k + 1) + 0 /\ k + 1 \in Nat /\ 0 \in 0 .. c - 1
    BY <1>2, <1>5
  <2>2. (a + 1) % c = 0
    BY <1>1, <2>1
  <2>3. c % c = 0
    OBVIOUS
  <2> QED BY <1>3, <1>5, <2>2, <2>3
<1> QED BY <1>4, <1>5

\* The next byte is the byte p of packet n; q says what comes after it.
AtByte(n, p, q) ==
  /\ n \in 1 .. Len(sent) /\ sent[n] \in Packets
  /\ p \in 1 .. Len(Enc(sent[n]))
  /\ n = NumberAt(line, sent, 1)
  /\ line[1] = <<n, Enc(sent[n])[p]>>
  /\ lost <= 1 => DecoderAt(n, p)
  /\ Tail(line) \in Seq(Bytes)
  /\ Places(Tail(line), sent, q)
  /\ IF p = Len(Enc(sent[n]))
       THEN NumberAt(Tail(line), sent, 1) = n + 1 /\ PosAt(Tail(line), q, 1) = 1
       ELSE NumberAt(Tail(line), sent, 1) = n /\ PosAt(Tail(line), q, 1) = p + 1

\* The first byte of a line is a byte of a packet.
LEMMA HeadOfLine ==
  ASSUME FramingInv, line # <<>>
  PROVE  \E n, p, q : AtByte(n, p, q)
<1>1. line \in Seq(Bytes) /\ sent \in Seq(Packets) /\ Len(line) \in Nat /\ 1 \in 1 .. Len(line)
  BY DEF FramingInv, FramingTypeOK
<1>2. PICK pos, n, p :
        /\ Places(line, sent, pos)
        /\ n = NumberAt(line, sent, 1) /\ p = PosAt(line, pos, 1)
        /\ lost <= 1 => DecoderAt(n, p)
  BY DEF FramingInv, LineInOrder
<1>3. PICK q : /\ Places(Tail(line), sent, q)
               /\ NumberAt(Tail(line), sent, 1) = NumberAt(line, sent, 2)
               /\ PosAt(Tail(line), q, 1) = PosAt(line, pos, 2)
  BY <1>1, <1>2, TakingFromLine
<1>4. n = line[1][1] /\ p = pos[1]
  BY <1>1, <1>2 DEF NumberAt, PosAt
<1>5. /\ n \in 1 .. Len(sent)
      /\ p \in 1 .. Len(Enc(sent[n]))
      /\ line[1][2] = Enc(sent[n])[p]
      /\ IF p = Len(Enc(sent[n]))
           THEN NumberAt(line, sent, 2) = n + 1 /\ PosAt(line, pos, 2) = 1
           ELSE NumberAt(line, sent, 2) = n /\ PosAt(line, pos, 2) = p + 1
  <2>1. 1 + 1 = 2
    OBVIOUS
  <2> QED BY <1>1, <1>2, <1>4, <2>1 DEF Places
<1>6. line[1] = <<n, Enc(sent[n])[p]>>
  <2>1. line[1] \in Nat \X Nat
    BY <1>1 DEF Bytes
  <2> QED BY <1>4, <1>5, <2>1
<1>7. sent[n] \in Packets
  BY <1>1, <1>5
<1>8. Tail(line) \in Seq(Bytes)
  BY <1>1
<1> QED BY <1>2, <1>3, <1>5, <1>6, <1>7, <1>8 DEF AtByte

\* The invariant after the first byte has gone, from what becomes of the decoder.
LEMMA FramingInvFrom ==
  ASSUME NEW n, NEW p, NEW q, AtByte(n, p, q),
         FramingTypeOK', CountersCount', LastIsNewest', HistoryIsExact',
         line' = Tail(line), sent' = sent,
         lost' <= 1 /\ p # Len(Enc(sent[n])) => DecoderAt(n, p + 1)',
         lost' <= 1 /\ p = Len(Enc(sent[n])) => DecoderAt(n + 1, 1)'
  PROVE  FramingInv'
<1>1. CASE p = Len(Enc(sent[n]))
  <2> DEFINE m == n + 1
  <2>1. Places(line', sent', q) /\ m = NumberAt(line', sent', 1) /\ 1 = PosAt(line', q, 1)
    BY <1>1 DEF AtByte
  <2>2. lost' <= 1 => DecoderAt(m, 1)'
    BY <1>1
  <2> HIDE DEF m
  <2>3. LineInOrder'
    BY <2>1, <2>2 DEF LineInOrder
  <2> QED BY <2>3 DEF FramingInv
<1>2. CASE p # Len(Enc(sent[n]))
  <2> DEFINE r == p + 1
  <2>1. Places(line', sent', q) /\ n = NumberAt(line', sent', 1) /\ r = PosAt(line', q, 1)
    BY <1>2 DEF AtByte
  <2>2. lost' <= 1 => DecoderAt(n, r)'
    BY <1>2
  <2> HIDE DEF r
  <2>3. LineInOrder'
    BY <2>1, <2>2 DEF LineInOrder
  <2> QED BY <2>3 DEF FramingInv
<1> QED BY <1>1, <1>2

\* A lost byte keeps the invariant, and is a Hurt of the channel.
LEMMA LoseKeepsFramingInv ==
  ASSUME FramingInv, LoseByte
  PROVE  FramingInv' /\ Channel!Hurt
<1>1. /\ line # <<>> /\ line' = Tail(line) /\ hurt' = hurt \union {line[1][1]} /\ lost' = lost + 1
      /\ UNCHANGED <<mode, dataBuffer, lastReceivedPacket, sent, received, gaps>>
  BY DEF LoseByte
<1>2. PICK n, p, q : AtByte(n, p, q)
  BY <1>1, HeadOfLine
<1> DEFINE list == sent[n]
           e == Enc(list)
<1>3. /\ n \in 1 .. Len(sent) /\ list \in Packets /\ p \in 1 .. Len(e) /\ line[1][1] = n
      /\ Tail(line) \in Seq(Bytes) /\ n = NumberAt(line, sent, 1)
      /\ lost <= 1 => DecoderAt(n, p)
      /\ IF p = Len(e) THEN NumberAt(Tail(line), sent, 1) = n + 1
                       ELSE NumberAt(Tail(line), sent, 1) = n
  BY <1>2 DEF AtByte
<1>4. hurt \subseteq hurt' /\ hurt' \subseteq 1 .. Len(sent) /\ n \in hurt' /\ lost \in Nat
  BY <1>1, <1>3 DEF FramingInv, FramingTypeOK
<1>5. FramingTypeOK' /\ CountersCount'
  BY <1>1, <1>3, <1>4 DEF FramingInv, FramingTypeOK, CountersCount
<1>6. HistoryIsExact'
  BY <1>1, <1>4 DEF HistoryIsExact
<1>7. LastIsNewest'
  <2>1. lastReceivedPacket[1] < n /\ lastReceivedPacket[1] \in Nat
    BY <1>3 DEF FramingInv, FramingTypeOK, LastIsNewest
  <2>2. lastReceivedPacket[1] < NumberAt(line', sent', 1)
    BY <1>1, <1>3, <2>1
  <2> QED BY <1>1, <2>2 DEF FramingInv, LastIsNewest, Channel!Newest
<1>8. ASSUME lost' <= 1
      PROVE  /\ p # Len(e) => DecoderAt(n, p + 1)'
             /\ p = Len(e) => DecoderAt(n + 1, 1)'
  <2>1. lost = 0 /\ lost' = 1 /\ (mode = "hunt" \/ InStep(mode, dataBuffer, list, p))
    BY <1>1, <1>3, <1>4, <1>8 DEF DecoderAt
  <2>2. CASE mode = "hunt"
    BY <1>1, <2>2 DEF DecoderAt
  <2>3. CASE InStep(mode, dataBuffer, list, p)
    <3>1. /\ p < Len(e) => OutOfStep(mode, dataBuffer, list, p + 1)
          /\ p = Len(e) => RunsOn(mode, dataBuffer, 1)
      BY <1>3, <2>3, LossBreaksStep
    <3>2. Len(e) \in Nat /\ (p # Len(e) => p < Len(e))
      BY <1>3, PacketEnds
    <3> QED BY <1>1, <1>3, <1>4, <2>1, <3>1, <3>2 DEF DecoderAt
  <2> QED BY <2>1, <2>2, <2>3
<1>9. FramingInv'
  BY <1>1, <1>2, <1>5, <1>6, <1>7, <1>8, FramingInvFrom
<1>10. Channel!Hurt
  BY <1>1, <1>4 DEF Channel!Hurt
<1> QED BY <1>9, <1>10

\* A read that times out keeps the invariant: the decoder looks for a START, and the
\* rest of the packet has none.  The channel sees nothing of it.
LEMMA TimeoutKeepsFramingInv ==
  ASSUME FramingInv, ReadTimesOut
  PROVE  FramingInv' /\ UNCHANGED <<hurt, sent, received>>
<1>1. /\ mode' = "hunt" /\ dataBuffer' = <<>>
      /\ UNCHANGED <<line, lastReceivedPacket, sent, received, gaps, hurt, lost>>
  BY DEF ReadTimesOut
<1>2. FramingTypeOK' /\ CountersCount' /\ LastIsNewest' /\ HistoryIsExact'
  BY <1>1 DEF FramingInv, FramingTypeOK, CountersCount, LastIsNewest, HistoryIsExact, Channel!Newest, DecoderModes
<1>3. LineInOrder'
  <2>1. PICK pos, n, p :
          Places(line, sent, pos) /\ n = NumberAt(line, sent, 1) /\ p = PosAt(line, pos, 1)
    BY DEF FramingInv, LineInOrder
  <2>2. Places(line', sent', pos) /\ n = NumberAt(line', sent', 1) /\ p = PosAt(line', pos, 1)
    BY <1>1, <2>1
  <2>3. DecoderAt(n, p)'
    BY <1>1 DEF DecoderAt
  <2> QED BY <2>2, <2>3 DEF LineInOrder
<1> QED BY <1>1, <1>2, <1>3 DEF FramingInv

\* A byte that is decoded keeps the invariant.  While at most one was lost, what it
\* completes is a Receive of the channel: the packet of its END, whole or damaged.
LEMMA TakeKeepsFramingInv ==
  ASSUME FramingInv, TakeByte
  PROVE  /\ FramingInv'
         /\ lost <= 1 => Channel!Receive \/ UNCHANGED <<hurt, sent, received>>
<1>1. /\ line # <<>> /\ line' = Tail(line) /\ Decode(line[1][1], line[1][2])
      /\ UNCHANGED <<sent, hurt, lost>>
  BY DEF TakeByte
<1>2. PICK n, p, q : AtByte(n, p, q)
  BY <1>1, HeadOfLine
<1> DEFINE list == sent[n]
           e == Enc(list)
           b == e[p]
<1>3. /\ n \in 1 .. Len(sent) /\ list \in Packets /\ p \in 1 .. Len(e)
      /\ Tail(line) \in Seq(Bytes) /\ n = NumberAt(line, sent, 1)
      /\ lost <= 1 => DecoderAt(n, p)
      /\ IF p = Len(e) THEN NumberAt(Tail(line), sent, 1) = n + 1
                       ELSE NumberAt(Tail(line), sent, 1) = n
      /\ line[1] = <<n, b>>
  BY <1>2 DEF AtByte
<1>4. Decode(n, b)
  BY <1>1, <1>3
<1>5. /\ mode \in DecoderModes /\ dataBuffer \in Seq(Nat) /\ lost \in Nat /\ n \in Nat
      /\ received \in Seq(Nat \X Seq(Nat)) /\ lastReceivedPacket \in Nat \X Nat
      /\ Len(sent) \in Nat
  BY <1>3 DEF FramingInv, FramingTypeOK
<1>6. /\ Len(e) \in Nat /\ Len(e) > 1 /\ b \in Nat
      /\ p # Len(e) => p < Len(e) /\ b # SLIP_END
  <2>1. /\ Len(e) \in Nat /\ Len(e) > 1 /\ e \in Seq(Nat)
        /\ \A r \in 1 .. Len(e) - 1 : e[r] # SLIP_END
    BY <1>3, PacketEnds
  <2>2. p # Len(e) => p < Len(e) /\ p \in 1 .. Len(e) - 1
    BY <1>3, <2>1
  <2>3. b \in Nat
    BY <1>3, <2>1
  <2> QED BY <2>1, <2>2, <2>3
<1> HIDE DEF b
<1>7. mode' \in DecoderModes /\ dataBuffer' \in Seq(Nat)
  <2>1. CASE mode = "hunt"
    BY <1>4, <2>1 DEF Decode, DecoderModes
  <2>2. CASE mode = "escape"
    <3>1. mode' = "body" /\ dataBuffer' = Append(dataBuffer, Unescaped(b)) /\ Unescaped(b) \in Nat
      BY <1>4, <2>2, BytesAreNat DEF Decode
    <3> QED BY <1>5, <3>1 DEF DecoderModes
  <2>3. CASE mode = "body" /\ b = SLIP_END
    BY <1>4, <1>5, <2>3 DEF Decode, DecoderModes
  <2>4. CASE mode = "body" /\ b # SLIP_END
    <3>1. mode' = (IF b = SLIP_ESC THEN "escape" ELSE "body")
      BY <1>4, <2>4 DEF Decode
    <3>2. dataBuffer' = IF b = SLIP_ESC THEN dataBuffer ELSE Append(dataBuffer, b)
      BY <1>4, <2>4 DEF Decode
    <3> QED BY <1>5, <1>6, <3>1, <3>2 DEF DecoderModes
  <2> QED BY <1>5, <2>1, <2>2, <2>3, <2>4 DEF DecoderModes
<1>8. NothingReceived \/ (p = Len(e) /\ Valid(dataBuffer) /\ getPacket(n))
  <2>1. NothingReceived \/ (b = SLIP_END /\ getPacket(n))
    BY <1>4, <1>5 DEF Decode, DecoderModes, NothingReceived
  <2>2. getPacket(n) => NothingReceived \/ Valid(dataBuffer)
    BY DEF getPacket, NothingReceived
  <2> QED BY <1>6, <2>1, <2>2
<1>9. ASSUME lost <= 1
      PROVE  /\ p # Len(e) => DecoderAt(n, p + 1)'
             /\ p = Len(e) => DecoderAt(n + 1, 1)'
             /\ \/ NothingReceived
                \/ dataBuffer = list
                \/ n \in hurt /\ lost > 0
  <2>1. CASE mode = "hunt" \/ InStep(mode, dataBuffer, list, p)
    <3>1. /\ p < Len(e) => NothingReceived /\ (mode' = "hunt" \/ InStep(mode', dataBuffer', list, p + 1))
          /\ p = Len(e) => mode' = "hunt" /\ (NothingReceived \/ (dataBuffer = list /\ getPacket(n)))
      BY <1>3, <1>4, <2>1, InStepGoesOn DEF b
    <3> QED BY <1>1, <1>3, <1>6, <3>1 DEF DecoderAt
  <2>2. CASE n \in hurt /\ lost > 0 /\ OutOfStep(mode, dataBuffer, list, p)
    <3>1. /\ p < Len(e) => NothingReceived /\ OutOfStep(mode', dataBuffer', list, p + 1)
          /\ p = Len(e) => \/ mode' = "hunt" /\ getPacket(n)
                           \/ NothingReceived /\ RunsOn(mode', dataBuffer', 1)
      BY <1>3, <1>4, <1>5, <2>2, OutOfStepGoesOn DEF b
    <3> QED BY <1>1, <1>3, <1>6, <2>2, <3>1 DEF DecoderAt
  <2>3. CASE lost > 0 /\ RunsOn(mode, dataBuffer, p)
    <3>1. /\ NothingReceived
          /\ mode' = "hunt" \/ RunsOn(mode', dataBuffer', IF p < Len(e) THEN p + 1 ELSE 1)
      BY <1>3, <1>4, <1>5, <2>3, RunsOnGoesOn DEF b
    <3> QED BY <1>1, <1>3, <1>6, <2>3, <3>1 DEF DecoderAt
  <2> QED BY <1>3, <1>9, <2>1, <2>2, <2>3 DEF DecoderAt
\* The two things that can happen to what is received.
<1>10. CASE NothingReceived
  <2>1. UNCHANGED <<received, lastReceivedPacket, gaps>>
    BY <1>10 DEF NothingReceived
  <2>2. FramingTypeOK' /\ CountersCount' /\ HistoryIsExact'
    BY <1>1, <1>3, <1>7, <2>1 DEF FramingInv, FramingTypeOK, CountersCount, HistoryIsExact
  <2>3. LastIsNewest'
    <3>1. lastReceivedPacket[1] < n /\ lastReceivedPacket[1] \in Nat
      BY <1>3, <1>5 DEF FramingInv, LastIsNewest
    <3>2. lastReceivedPacket[1] < NumberAt(line', sent', 1)
      BY <1>1, <1>3, <1>5, <3>1
    <3> QED BY <2>1, <3>2 DEF FramingInv, LastIsNewest, Channel!Newest
  <2>4. FramingInv'
    BY <1>1, <1>2, <1>9, <2>2, <2>3, FramingInvFrom
  <2> QED BY <1>1, <2>1, <2>4
<1>11. CASE ~ NothingReceived
  <2>1. p = Len(e) /\ Valid(dataBuffer) /\ getPacket(n)
    BY <1>8, <1>11
  <2> DEFINE counter == dataBuffer[2]
             new == <<n, dataBuffer>>
  <2>2. /\ received' = Append(received, new)
        /\ lastReceivedPacket' = <<n, counter>>
        /\ gaps' = IF Gap(lastReceivedPacket, counter)
                     THEN gaps \union {<<lastReceivedPacket[1], n>>} ELSE gaps
    BY <2>1 DEF getPacket
  <2>3. counter \in Nat
    BY <1>5, <2>1 DEF Valid, SHORT_HEADER_LENGTH
  <2>4. new \in Nat \X Seq(Nat) /\ new[1] = n /\ new[2] = dataBuffer
    BY <1>5
  <2> HIDE DEF new, counter
  <2>5. /\ received' \in Seq(Nat \X Seq(Nat)) /\ received' # <<>>
        /\ received'[Len(received')] = new
    <3> DEFINE T == Nat \X Seq(Nat)
    <3>1. received \in Seq(T) /\ new \in T /\ received' = Append(received, new)
      BY <1>5, <2>2, <2>4
    <3> HIDE DEF T
    <3>2. /\ received' \in Seq(T) /\ received' # <<>>
          /\ received'[Len(received')] = new
      BY <3>1
    <3> QED BY <3>2 DEF T
  <2>6. FramingTypeOK' /\ CountersCount'
    BY <1>1, <1>3, <1>5, <1>7, <2>2, <2>3, <2>5 DEF FramingInv, FramingTypeOK, CountersCount
  <2>7. lastReceivedPacket[1] < n /\ lastReceivedPacket[1] \in Nat /\ lastReceivedPacket[1] = Channel!Newest
    BY <1>3, <1>5 DEF FramingInv, LastIsNewest
  <2>8. LastIsNewest'
    <3>1. NumberAt(line', sent', 1) = n + 1
      BY <1>1, <1>3, <2>1
    <3>2. Channel!Newest' = n
      BY <2>4, <2>5 DEF Channel!Newest
    <3> QED BY <1>5, <2>2, <3>1, <3>2 DEF LastIsNewest
  <2>9. HistoryIsExact'
    <3> SUFFICES ASSUME lost = 0
                 PROVE  /\ n > 0 /\ counter = (n - 1) % PACKET_COUNTER_CAP
                        /\ \A gap \in gaps' : gap[2] > gap[1] + 1
      BY <1>1, <2>2 DEF HistoryIsExact
    <3>1. dataBuffer = list
      BY <1>9, <1>11
    <3>2. n > 0 /\ counter = (n - 1) % PACKET_COUNTER_CAP
      BY <1>3, <1>5, <3>1 DEF FramingInv, CountersCount, counter
    <3>3. ASSUME Gap(lastReceivedPacket, counter)
          PROVE  n > lastReceivedPacket[1] + 1
      <4> DEFINE a == lastReceivedPacket[1] - 1
      <4>1. /\ lastReceivedPacket # NoPacket
            /\ counter # (lastReceivedPacket[2] + 1) % PACKET_COUNTER_CAP
        BY <3>3 DEF Gap
      <4>2. lastReceivedPacket[1] > 0 /\ lastReceivedPacket[2] = a % PACKET_COUNTER_CAP
        BY <4>1 DEF FramingInv, HistoryIsExact
      <4>3. a \in Nat /\ a + 1 = lastReceivedPacket[1]
        BY <2>7, <4>2
      <4> HIDE DEF a
      <4>4. counter # (a + 1) % PACKET_COUNTER_CAP
        BY <4>1, <4>2, <4>3, ModSuccessor, FramingAssumption
      <4>5. n - 1 # lastReceivedPacket[1]
        BY <3>2, <4>3, <4>4
      <4> QED BY <1>5, <2>7, <4>5
    <3>4. \A gap \in gaps : gap[2] > gap[1] + 1
      BY DEF FramingInv, HistoryIsExact
    <3> DEFINE added == <<lastReceivedPacket[1], n>>
    <3>5. added[1] = lastReceivedPacket[1] /\ added[2] = n
      OBVIOUS
    <3>6. gaps' = IF Gap(lastReceivedPacket, counter) THEN gaps \union {added} ELSE gaps
      BY <2>2
    <3> HIDE DEF added
    <3> QED BY <3>2, <3>3, <3>4, <3>5, <3>6
  <2>10. FramingInv'
    BY <1>1, <1>2, <1>9, <2>6, <2>8, <2>9, FramingInvFrom
  <2>11. lost <= 1 => Channel!Receive
    <3>1. lost <= 1 => dataBuffer = list \/ n \in hurt
      BY <1>9, <1>11
    <3>2. n \in Channel!Newest + 1 .. Len(sent)
      BY <1>3, <1>5, <2>7
    <3> QED BY <1>1, <2>2, <2>4, <2>5, <3>1, <3>2 DEF Channel!Receive
  <2> QED BY <2>10, <2>11
<1> QED BY <1>10, <1>11

\* Every step keeps the invariant and, while at most one byte was lost, is a step of
\* the channel or none.
LEMMA NextKeepsFramingInv ==
  ASSUME FramingInv, [FramingNext]_framingVars
  PROVE  /\ FramingInv'
         /\ lost <= 1 => [Channel!Next]_Channel!vars
<1>1. ASSUME NEW payload \in Payloads, sendPacket(payload)
      PROVE  FramingInv' /\ Channel!Next
  BY <1>1, SendKeepsFramingInv DEF Channel!Next
<1>2. CASE TakeByte
  BY <1>2, TakeKeepsFramingInv DEF Channel!Next, Channel!vars
<1>3. CASE ReadTimesOut
  BY <1>3, TimeoutKeepsFramingInv DEF Channel!vars
<1>4. CASE LoseByte
  BY <1>4, LoseKeepsFramingInv DEF Channel!Next
<1>5. CASE UNCHANGED framingVars
  BY <1>5 DEF framingVars, FramingInv, FramingTypeOK, CountersCount, LineInOrder, DecoderAt, LastIsNewest,
              HistoryIsExact, Channel!Newest, Channel!vars
<1> QED BY <1>1, <1>2, <1>3, <1>4, <1>5 DEF FramingNext

\* The decoder of Packet.py is where the line says: whatever is sent, whenever a read
\* times out and whichever byte is lost, it is in step with the packet on the line,
\* or out of step with the packet that lost a byte, or looks for the next START.
THEOREM FramingIsInductive == FramingSpec => []FramingInv
<1>1. FramingInit => FramingInv
  BY InitFramingInv
<1>2. FramingInv /\ [FramingNext]_framingVars => FramingInv'
  BY NextKeepsFramingInv
<1> QED BY <1>1, <1>2, PTL DEF FramingSpec

\* handlePacketHistory logs a gap only when a packet was missed, or a byte was lost
\* that may have been a counter: for any length of the counter, however often it
\* wraps, however many reads time out.
THEOREM GapsAreReal == FramingSpec => []GapIsReal
<1>1. FramingInv => GapIsReal
  BY DEF FramingInv, FramingTypeOK, HistoryIsExact, GapIsReal
<1> QED BY <1>1, FramingIsInductive, PTL

\* At most one byte is lost.  If it is two, the length byte and the END of one packet,
\* its counter can be the length of what it becomes by running on into the next.
FewLost == MaxLost <= 1

\* encodeToSLIP and decodeFromSLIP are a channel for packets: what getPacket returns
\* was sent, comes in order and at most once, and is whole unless it lost a byte;
\* for any payloads, and reads that time out anywhere.
THEOREM FramingIsChannel == FewLost => (FramingSpec => ImplementsPacketChannel)
<1> SUFFICES ASSUME FewLost PROVE FramingSpec => ImplementsPacketChannel
  OBVIOUS
<1>1. FramingInit => lost <= MaxLost /\ Channel!Init
  BY InitFramingInv, FramingAssumption DEF FramingInit
<1>2. FramingInv /\ lost <= MaxLost /\ [FramingNext]_framingVars => (lost <= MaxLost)'
  <2> SUFFICES ASSUME FramingInv, lost <= MaxLost, [FramingNext]_framingVars
               PROVE  (lost <= MaxLost)'
    OBVIOUS
  <2>1. lost' = lost \/ (lost' = lost + 1 /\ lost < MaxLost)
    BY DEF FramingNext, framingVars, sendPacket, TakeByte, ReadTimesOut, LoseByte
  <2>2. lost \in Nat /\ MaxLost \in Nat
    BY FramingAssumption DEF FramingInv, FramingTypeOK
  <2> QED BY <2>1, <2>2
<1>3. FramingInv /\ lost <= MaxLost /\ [FramingNext]_framingVars => [Channel!Next]_Channel!vars
  <2>1. FramingInv /\ lost <= MaxLost => lost <= 1
    BY FramingAssumption DEF FramingInv, FramingTypeOK, FewLost
  <2> QED BY <2>1, NextKeepsFramingInv
<1> QED BY <1>1, <1>2, <1>3, FramingIsInductive, PTL
        DEF FramingSpec, ImplementsPacketChannel, Channel!Spec
-----------------------------------------------------------------------------
\* The bytes are the naturals below 256; stated once, for the provers list a range.
LEMMA Bytes256 == Byte \subseteq Nat /\ \A b \in Nat : b < 256 <=> b \in Byte
BY DEF Byte

\* Python's slices: what From and Slice hold, where they do not reach beyond the list.
LEMMA FromAndSlice ==
  ASSUME NEW S, NEW s \in Seq(S), NEW a \in Nat, NEW b \in Nat, a <= b, b <= Len(s)
  PROVE  /\ From(s, a) \in Seq(S) /\ Len(From(s, a)) = Len(s) - a
         /\ \A q \in 1 .. Len(s) - a : From(s, a)[q] = s[a + q]
         /\ Slice(s, a, b) \in Seq(S) /\ Len(Slice(s, a, b)) = b - a
         /\ \A q \in 1 .. b - a : Slice(s, a, b)[q] = s[a + q]
<1>1. Slice(s, a, b) = SubSeq(s, a + 1, b)
  BY DEF Slice
<1>2. From(s, a) = SubSeq(s, a + 1, Len(s))
  BY DEF From
<1> DEFINE f == SubSeq(s, a + 1, Len(s))
           l == SubSeq(s, a + 1, b)
<1>3. f \in Seq(S) /\ Len(f) = Len(s) - a /\ \A q \in 1 .. Len(s) - a : f[q] = s[a + q]
  <2>1. f \in Seq(S) /\ Len(f) = Len(s) - a
    OBVIOUS
  <2>2. \A q \in 1 .. Len(s) - a : f[q] = s[(a + 1) + q - 1]
    OBVIOUS
  <2>3. \A q \in 1 .. Len(s) - a : (a + 1) + q - 1 = a + q
    OBVIOUS
  <2> QED BY <2>1, <2>2, <2>3
<1>4. l \in Seq(S) /\ Len(l) = b - a /\ \A q \in 1 .. b - a : l[q] = s[a + q]
  <2>1. l \in Seq(S) /\ Len(l) = b - a
    OBVIOUS
  <2>2. \A q \in 1 .. b - a : l[q] = s[(a + 1) + q - 1]
    OBVIOUS
  <2>3. \A q \in 1 .. b - a : (a + 1) + q - 1 = a + q
    OBVIOUS
  <2> QED BY <2>1, <2>2, <2>3
<1> HIDE DEF f, l
<1> QED BY <1>1, <1>2, <1>3, <1>4 DEF f, l

\* Writing the length changes the two bytes in front of the version at most, and the
\* length is read back, in one byte or in two by version.
LEMMA LengthIsWritten ==
  ASSUME NEW x \in Seq(Byte), Len(x) > 2, NEW protover \in {1, 2}, At(x, PROTOVER_POS) = protover,
         NEW v \in Nat, v < 65536, protover = 1 => v \in Byte
  PROVE  LET w == WriteLength(x, protover, v)
         IN  /\ w \in Seq(Byte) /\ Len(w) = Len(x)
             /\ \A q \in 3 .. Len(x) : w[q] = x[q]
             /\ PayloadLength(w) = v
<1> DEFINE w == WriteLength(x, protover, v)
<1>0. x[3] = protover /\ Len(x) \in Nat /\ 2 \in 1 .. Len(x) /\ 3 \in 3 .. Len(x)
  BY DEF At, PROTOVER_POS
<1>1. CASE protover = 1
  <2>1. w = [x EXCEPT ![2] = v]
    BY <1>1 DEF WriteLength, PAYLOAD_LEN_POS_V1
  <2>2. w \in Seq(Byte) /\ Len(w) = Len(x) /\ w[2] = v /\ \A q \in 3 .. Len(x) : w[q] = x[q]
    BY <1>0, <1>1, <2>1
  <2> HIDE DEF w
  <2>3. PayloadLength(w) = v
    BY <1>0, <1>1, <2>2 DEF PayloadLength, At, PROTOVER_POS, PAYLOAD_LEN_POS_V1
  <2> QED BY <2>2, <2>3 DEF w
<1>2. CASE protover = 2
  <2> DEFINE a == v % 256
             b == (v \div 256) % 256
             r == From(x, 2)
  <2>1. a \in Byte /\ b \in Byte /\ a + 256 * b = v
    <3>1. a \in Nat /\ b \in Nat /\ a < 256 /\ b < 256 /\ a + 256 * b = v
      OBVIOUS
    <3> HIDE DEF a, b
    <3> QED BY <3>1, Bytes256
  <2>2. w = <<a, b>> \o r
    BY <1>2 DEF WriteLength, toLittleEndian
  <2>3. r \in Seq(Byte) /\ Len(r) = Len(x) - 2 /\ \A q \in 1 .. Len(x) - 2 : r[q] = x[2 + q]
    BY <1>0, FromAndSlice
  <2> HIDE DEF a, b, r, w
  <2>4. w \in Seq(Byte) /\ Len(w) = Len(x) /\ w[1] = a /\ w[2] = b
    BY <1>0, <2>1, <2>2, <2>3
  <2>5. ASSUME NEW q \in 3 .. Len(x) PROVE w[q] = x[q]
    <3>1. w[q] = r[q - 2]
      BY <1>0, <2>1, <2>2, <2>3
    <3>2. q - 2 \in 1 .. Len(x) - 2 /\ 2 + (q - 2) = q
      BY <1>0
    <3> QED BY <2>3, <3>1, <3>2
  <2>6. PayloadLength(w) = v
    <3>1. At(w, PROTOVER_POS) = 2
      BY <1>0, <1>2, <2>5 DEF At, PROTOVER_POS
    <3>2. PayloadLength(w) = parseLittleEndian(Slice(w, 0, 2))
      BY <3>1 DEF PayloadLength
    <3>3. Slice(w, 0, 2)[1] = w[1] /\ Slice(w, 0, 2)[2] = w[2]
      <4>1. /\ \A q \in 1 .. 2 - 0 : Slice(w, 0, 2)[q] = w[0 + q]
        BY <1>0, <2>4, FromAndSlice
      <4> QED BY <4>1
    <3> QED BY <2>1, <2>4, <3>2, <3>3 DEF parseLittleEndian
  <2> QED BY <2>4, <2>5, <2>6 DEF w
<1> QED BY <1>1, <1>2

\* RemoveAt closes the gap.
LEMMA Removed ==
  ASSUME NEW S, NEW s \in Seq(S), NEW p \in 1 .. Len(s), NEW x, x = RemoveAt(s, p)
  PROVE  /\ x \in Seq(S) /\ Len(x) = Len(s) - 1
         /\ \A q \in 1 .. p - 1 : x[q] = s[q]
         /\ \A q \in p .. Len(s) - 1 : x[q] = s[q + 1]
<1> DEFINE n == Len(s)
           a == SubSeq(s, 1, p - 1)
           b == From(s, p)
<1>1. n \in Nat /\ p \in 1 .. n
  OBVIOUS
<1>2. x = a \o b
  BY DEF RemoveAt, From
<1>3. a \in Seq(S) /\ Len(a) = p - 1 /\ \A q \in 1 .. p - 1 : a[q] = s[q]
  BY <1>1
<1>4. b \in Seq(S) /\ Len(b) = n - p /\ \A q \in 1 .. n - p : b[q] = s[p + q]
  <2> HIDE DEF b
  <2>1. p \in Nat /\ p <= n /\ n <= n
    BY <1>1
  <2> QED BY <1>1, <2>1, FromAndSlice DEF b
<1> HIDE DEF a, b
<1>5. /\ x \in Seq(S) /\ Len(x) = Len(a) + Len(b)
      /\ \A q \in 1 .. Len(a) : x[q] = a[q]
      /\ \A q \in 1 .. Len(b) : x[Len(a) + q] = b[q]
  <2>1. a \in Seq(S) /\ b \in Seq(S)
    BY <1>3, <1>4
  <2> QED BY <1>2, <2>1
<1> HIDE DEF n
<1>6. ASSUME NEW q \in p .. n - 1 PROVE x[q] = s[q + 1]
  <2>1. /\ q - (p - 1) \in 1 .. n - p /\ p + (q - (p - 1)) = q + 1
        /\ (p - 1) + (q - (p - 1)) = q
    BY <1>1
  <2>2. x[(p - 1) + (q - (p - 1))] = b[q - (p - 1)]
    BY <1>3, <1>4, <1>5, <2>1
  <2> QED BY <1>4, <2>1, <2>2
<1>7. Len(x) = n - 1
  BY <1>1, <1>3, <1>4, <1>5
<1> QED BY <1>3, <1>5, <1>6, <1>7 DEF n

\* The list without its byte of padding, and what it was made of.
LEMMA PaddingGoes ==
  ASSUME NEW list \in Seq(Byte), Len(list) > PADDING_POS, NEW x, x = RemovePadding(list)
  PROVE  /\ x \in Seq(Byte) /\ Len(x) = Len(list) - 1
         /\ \A q \in 1 .. PADDING_POS : x[q] = list[q]
         /\ \A q \in PADDING_POS + 1 .. Len(list) - 1 : x[q] = list[q + 1]
<1> DEFINE p == PADDING_POS + 1
<1>1. p \in 1 .. Len(list) /\ p - 1 = PADDING_POS
  BY DEF PADDING_POS, BLEPACKET_POS
<1>2. x = RemoveAt(list, p)
  BY DEF RemovePadding
<1> HIDE DEF p
<1>3. /\ x \in Seq(Byte) /\ Len(x) = Len(list) - 1
      /\ \A q \in 1 .. p - 1 : x[q] = list[q]
      /\ \A q \in p .. Len(list) - 1 : x[q] = list[q + 1]
  BY <1>1, <1>2, Removed, Zenon
<1> QED BY <1>1, <1>3 DEF p

-----------------------------------------------------------------------------
\* A walk over the positions of a list that has n of them: f[i] is the last named
\* position from i on, or 0.
WalkStep(n, stop, step, named, f, i) ==
  IF i >= n \/ i \in stop THEN 0
  ELSE IF f[step[i]] = 0 /\ i \in named THEN i ELSE f[step[i]]

\* The walk goes up and ends, so that there is such a function: from the end
\* downwards by induction.
LEMMA WalkExists ==
  ASSUME NEW n \in Nat, NEW stop, NEW named, NEW step \in [Nat -> Nat],
         \A i \in Nat : step[i] > i
  PROVE  \E f \in [Nat -> Nat] : \A i \in Nat : f[i] = WalkStep(n, stop, step, named, f, i)
<1> DEFINE Good(k) == \E f \in [Nat -> Nat] : \A i \in Nat : i + k >= n =>
                        f[i] = WalkStep(n, stop, step, named, f, i)
           G == {k \in Nat : Good(k)}
<1>1. 0 \in G
  <2> DEFINE f == [i \in Nat |-> 0]
  <2>1. f \in [Nat -> Nat] /\ \A i \in Nat : i + 0 >= n => f[i] = WalkStep(n, stop, step, named, f, i)
    BY DEF WalkStep
  <2> QED BY <2>1
<1>2. ASSUME NEW k \in Nat, k \in G PROVE k + 1 \in G
  <2>1. PICK f \in [Nat -> Nat] : \A i \in Nat : i + k >= n =>
               f[i] = WalkStep(n, stop, step, named, f, i)
    BY <1>2
  <2> DEFINE g == [i \in Nat |-> IF i + (k + 1) = n THEN WalkStep(n, stop, step, named, f, i)
                                 ELSE f[i]]
  <2>2. \A i \in Nat : WalkStep(n, stop, step, named, f, i) \in Nat
    BY DEF WalkStep
  <2>3. g \in [Nat -> Nat]
    BY <2>2
  <2>4. ASSUME NEW i \in Nat, i + (k + 1) >= n
        PROVE  g[i] = WalkStep(n, stop, step, named, g, i)
    <3>1. g[step[i]] = f[step[i]]
      <4>1. step[i] \in Nat /\ step[i] > i /\ step[i] + (k + 1) # n
        BY <2>4
      <4> QED BY <4>1
    <3>2. WalkStep(n, stop, step, named, g, i) = WalkStep(n, stop, step, named, f, i)
      BY <3>1 DEF WalkStep
    <3>3. CASE i + (k + 1) = n
      BY <3>2, <3>3
    <3>4. CASE i + (k + 1) # n
      <4>1. g[i] = f[i] /\ i + k >= n
        BY <2>4, <3>4
      <4> HIDE DEF g
      <4> QED BY <2>1, <3>2, <4>1
    <3> QED BY <3>3, <3>4
  <2> HIDE DEF g
  <2>5. Good(k + 1)
    BY <2>3, <2>4
  <2> QED BY <2>5
<1>3. n \in G
  <2> HIDE DEF G
  <2> QED BY <1>1, <1>2, NatSetInduction
<1>4. PICK f \in [Nat -> Nat] : \A i \in Nat : i + n >= n => f[i] = WalkStep(n, stop, step, named, f, i)
  BY <1>3
<1> QED BY <1>4

\* lastName is the function its definition asks for.
LEMMA LastNameIsRecursive ==
  ASSUME NEW ble \in Seq(Byte)
  PROVE  \A i \in Nat :
           lastName(ble)[i] =
             IF NoStructureAt(ble, i) THEN 0
             ELSE IF lastName(ble)[NextStructure(ble, i)] = 0 /\ IsName(ble, i) THEN i
                  ELSE lastName(ble)[NextStructure(ble, i)]
<1> DEFINE n == Len(ble)
           Stops(i) == NoStructureAt(ble, i)
           stop == {i \in Nat : Stops(i)}
           named == {i \in Nat : IsName(ble, i)}
           step == [i \in Nat |-> IF i < n THEN NextStructure(ble, i) ELSE i + 1]
           Step(f, i) == IF Stops(i) THEN 0
                         ELSE IF f[NextStructure(ble, i)] = 0 /\ IsName(ble, i) THEN i
                              ELSE f[NextStructure(ble, i)]
<1>1. n \in Nat
  OBVIOUS
<1>2. ASSUME NEW i \in Nat, i < n PROVE At(ble, i) \in Nat
  <2>1. i + 1 \in 1 .. n
    BY <1>1, <1>2
  <2>2. ble[i + 1] \in Byte
    BY <2>1
  <2> QED BY <2>2, Bytes256 DEF At
<1>3. step \in [Nat -> Nat] /\ \A i \in Nat : step[i] > i
  BY <1>1, <1>2 DEF NextStructure
<1> HIDE DEF n
<1>4. PICK f \in [Nat -> Nat] : \A i \in Nat : f[i] = WalkStep(n, stop, step, named, f, i)
  <2> HIDE DEF stop, named, step
  <2> QED BY <1>1, <1>3, WalkExists
<1>5. ASSUME NEW i \in Nat PROVE f[i] = Step(f, i)
  <2>1. i \in stop <=> Stops(i)
    OBVIOUS
  <2>2. i \in named <=> IsName(ble, i)
    OBVIOUS
  <2>3. i < n => step[i] = NextStructure(ble, i)
    OBVIOUS
  <2>4. i >= n => Stops(i)
    BY DEF NoStructureAt, n
  <2>5. ~ Stops(i) => i < n
    BY <1>1, <2>4
  <2> HIDE DEF stop, named, step, Stops
  <2>6. f[i] = WalkStep(n, stop, step, named, f, i)
    BY <1>4
  <2> QED BY <2>1, <2>2, <2>3, <2>4, <2>5, <2>6 DEF WalkStep
<1> DEFINE last[i \in Nat] == IF Stops(i) THEN 0
                              ELSE LET later == last[NextStructure(ble, i)]
                                   IN  IF later = 0 /\ IsName(ble, i) THEN i ELSE later
<1>6. f = [i \in Nat |-> IF Stops(i) THEN 0
                          ELSE LET later == f[NextStructure(ble, i)]
                               IN  IF later = 0 /\ IsName(ble, i) THEN i ELSE later]
  BY <1>5
<1>7. last = [i \in Nat |-> IF Stops(i) THEN 0
                            ELSE LET later == last[NextStructure(ble, i)]
                                 IN  IF later = 0 /\ IsName(ble, i) THEN i ELSE later]
  BY <1>6
<1>8. lastName(ble) = last
  BY DEF lastName, n
<1> HIDE DEF last
<1>9. \A i \in Nat : last[i] = Step(last, i)
  BY <1>7
<1> QED BY <1>8, <1>9 DEF n

\* place[k] is where the structure ss[k] begins, counted from 0: one behind the
\* other, from first on, and the end of the last one at last.
Lie(ble, ss, first, last, place) ==
  /\ place \in [1 .. Len(ss) + 1 -> Nat]
  /\ place[1] = first /\ place[Len(ss) + 1] = last
  /\ \A k \in 1 .. Len(ss) :
       /\ place[k] >= first
       /\ place[k + 1] = place[k] + Len(ss[k]) /\ place[k + 1] <= last
       /\ \A j \in 1 .. Len(ss[k]) : ble[place[k] + j] = ss[k][j]

StructurePlaces(ble, ss, place) ==
  \E last \in Nat :
    /\ Lie(ble, ss, 12, last, place)
    /\ Len(ss) > 0 => last <= Len(ble)
    /\ NoStructureAt(ble, last)

\* Behind the structures there is nothing that the walk takes for one.
LEMMA NothingAfterStructures ==
  ASSUME NEW ble \in Seq(Byte), NEW f \in Seq(Byte), NEW tail \in Seq(Byte), EndsStructures(tail),
         From(ble, 12) = f \o tail, Len(f) > 0 => Len(ble) >= 12
  PROVE  /\ NoStructureAt(ble, 12 + Len(f))
         /\ Len(f) > 0 => /\ 12 + Len(f) <= Len(ble)
                          /\ \A q \in 1 .. Len(f) : ble[12 + q] = f[q]
<1> DEFINE c == f \o tail
           n == Len(ble)
           d == 12
<1>1. n \in Nat /\ Len(f) \in Nat /\ Len(tail) \in Nat /\ d \in Nat
  OBVIOUS
<1>2. /\ c \in Seq(Byte) /\ Len(c) = Len(f) + Len(tail)
      /\ \A q \in 1 .. Len(f) : c[q] = f[q]
      /\ \A q \in 1 .. Len(tail) : c[Len(f) + q] = tail[q]
  OBVIOUS
<1>3. CASE n < 12
  <2>1. Len(f) = 0
    BY <1>1, <1>3
  <2> QED BY <1>1, <1>3, <2>1 DEF NoStructureAt
<1>4. CASE n >= 12
  <2> HIDE DEF c, n, d
  <2>1. /\ Len(From(ble, d)) = Len(ble) - d
        /\ \A q \in 1 .. Len(ble) - d : From(ble, d)[q] = ble[d + q]
    <3>1. d <= Len(ble) /\ Len(ble) <= Len(ble) /\ Len(ble) \in Nat
      BY <1>1, <1>4 DEF n, d
    <3> QED BY <1>1, <3>1, FromAndSlice
  <2>2. From(ble, d) = c
    BY DEF c, d
  <2>3. n - d = Len(f) + Len(tail) /\ \A q \in 1 .. Len(f) + Len(tail) : c[q] = ble[d + q]
    BY <1>2, <2>1, <2>2 DEF n
  <2>4. ASSUME NEW q \in 1 .. Len(f) PROVE ble[d + q] = f[q]
    <3>1. q \in 1 .. Len(f) + Len(tail)
      BY <1>1
    <3> QED BY <1>2, <2>3, <3>1
  <2>5. d + Len(f) <= n
    BY <1>1, <2>3
  <2>6. NoStructureAt(ble, d + Len(f))
    <3>1. CASE Len(tail) = 0
      BY <1>1, <2>3, <3>1 DEF NoStructureAt, n
    <3>2. CASE Len(tail) > 0
      <4>1. 1 \in 1 .. Len(tail) /\ Len(f) + 1 \in 1 .. Len(f) + Len(tail)
        BY <1>1, <3>2
      <4>2. c[Len(f) + 1] = tail[1]
        BY <1>2, <4>1
      <4>3. ble[d + (Len(f) + 1)] = tail[1]
        BY <2>3, <4>1, <4>2
      <4>4. d + (Len(f) + 1) = (d + Len(f)) + 1
        BY <1>1
      <4>5. At(ble, d + Len(f)) = tail[1]
        BY <4>3, <4>4 DEF At
      <4>6. tail # <<>>
        BY <3>2
      <4>7. tail[1] = 0 \/ tail[1] + 1 > Len(tail)
        BY <4>6 DEF EndsStructures
      <4>8. tail[1] \in Nat
        <5>1. tail[1] \in Byte
          BY <4>1
        <5> QED BY <5>1, Bytes256
      <4>9. tail[1] = 0 \/ (d + Len(f)) + tail[1] + 1 > n
        BY <1>1, <2>3, <4>7, <4>8
      <4> QED BY <4>5, <4>9 DEF NoStructureAt, n
    <3> QED BY <1>1, <3>1, <3>2
  <2> QED BY <2>4, <2>5, <2>6 DEF n, d
<1> QED BY <1>1, <1>3, <1>4

\* A BLE packet whose advertising data is these structures, ended by tail.
Laid(ble, ss, tail) ==
  /\ \A k \in DOMAIN ss : Structure(ss[k])
  /\ EndsStructures(tail)
  /\ From(ble, 12) = FlattenSeq(ss) \o tail

\* The places, moved by d.
Moved(m, d, pl) == [k \in 1 .. m + 1 |-> d + pl[k]]

\* Moved places are places.
LEMMA MovedBy ==
  ASSUME NEW m \in Nat, NEW d \in Nat, NEW pl \in [1 .. m + 1 -> Nat]
  PROVE  /\ Moved(m, d, pl) \in [1 .. m + 1 -> Nat]
         /\ \A k \in 1 .. m + 1 : Moved(m, d, pl)[k] = d + pl[k] /\ pl[k] \in Nat
  BY DEF Moved

\* Places in a part of a list are places in the list, moved by what comes before.
LEMMA PlacesMove ==
  ASSUME NEW b, NEW ss \in Seq(Seq(Byte)), NEW d \in Nat, NEW f, NEW l \in Nat,
         NEW pl, FlatPlace(ss, pl), f = FlattenSeq(ss), l = Len(f),
         \A q \in 1 .. l : b[(d + 1) + q] = f[q]
  PROVE  Lie(b, ss, d + 1, (d + 1) + l, Moved(Len(ss), d, pl))
<1> DEFINE m == Len(ss)
           place == Moved(m, d, pl)
<1>1. m \in Nat /\ \A k \in 1 .. m : Len(ss[k]) \in Nat
  OBVIOUS
<1>2. pl \in [1 .. m + 1 -> Nat] /\ pl[1] = 1 /\ pl[m + 1] = l + 1
  BY DEF FlatPlace
<1>3. \A k \in 1 .. m :
        /\ 1 <= pl[k] /\ pl[k + 1] <= l + 1
        /\ pl[k + 1] = pl[k] + Len(ss[k])
        /\ \A j \in 1 .. Len(ss[k]) : f[pl[k] + j - 1] = ss[k][j]
  BY DEF FlatPlace
<1> HIDE DEF m
<1>4. place \in [1 .. m + 1 -> Nat] /\ \A k \in 1 .. m + 1 : place[k] = d + pl[k] /\ pl[k] \in Nat
  BY <1>1, <1>2, MovedBy, Zenon
<1> HIDE DEF place
<1>5. place[1] = d + 1 /\ place[m + 1] = (d + 1) + l
  <2>1. 1 \in 1 .. m + 1 /\ m + 1 \in 1 .. m + 1
    BY <1>1
  <2>2. place[1] = d + pl[1] /\ place[m + 1] = d + pl[m + 1]
    BY <1>4, <2>1
  <2> DEFINE a == place[1]
             c == place[m + 1]
  <2>3. a = d + 1 /\ c = d + (l + 1)
    BY <1>2, <2>2
  <2>4. d + (l + 1) = (d + 1) + l
    OBVIOUS
  <2> QED BY <2>3, <2>4
<1>6. ASSUME NEW k \in 1 .. m
      PROVE  /\ place[k] >= d + 1
             /\ place[k + 1] = place[k] + Len(ss[k]) /\ place[k + 1] <= (d + 1) + l
             /\ \A j \in 1 .. Len(ss[k]) : b[place[k] + j] = ss[k][j]
  <2> DEFINE w == Len(ss[k])
             p == pl[k]
             e == pl[k + 1]
  <2>1. k \in 1 .. m + 1 /\ k + 1 \in 1 .. m + 1 /\ w \in Nat
    BY <1>1
  <2>2. place[k] = d + p /\ place[k + 1] = d + e /\ p \in Nat /\ e \in Nat
    BY <1>4, <2>1
  <2>3. 1 <= p /\ e <= l + 1 /\ e = p + w /\ \A j \in 1 .. w : f[p + j - 1] = ss[k][j]
    BY <1>3
  <2> HIDE DEF w, p, e
  <2>4. ASSUME NEW j \in 1 .. w PROVE b[(d + p) + j] = ss[k][j]
    <3>1. p + j - 1 \in 1 .. l /\ (d + 1) + (p + j - 1) = (d + p) + j
      BY <2>1, <2>2, <2>3
    <3>2. f[p + j - 1] = ss[k][j]
      BY <2>3
    <3> QED BY <3>1, <3>2
  <2>5. d + p >= d + 1 /\ d + e = (d + p) + w /\ d + e <= (d + 1) + l
    BY <2>1, <2>2, <2>3
  <2> QED BY <2>2, <2>4, <2>5 DEF w
<1> QED BY <1>4, <1>5, <1>6 DEF Lie, m, place

\* The structures lie one behind the other in the packet, the first one at 12.
LEMMA StructuresLie ==
  ASSUME NEW ble \in Seq(Byte), NEW ss \in Seq(Seq(Byte)), NEW tail \in Seq(Byte),
         Laid(ble, ss, tail)
  PROVE  \E place : StructurePlaces(ble, ss, place)
<1> DEFINE f == FlattenSeq(ss)
<1>1. Len(ss) \in Nat /\ Len(ble) \in Nat /\ \A k \in 1 .. Len(ss) : Len(ss[k]) \in Nat
  OBVIOUS
<1>2. \A k \in 1 .. Len(ss) : Len(ss[k]) >= 2
  BY DEF Laid, Structure
<1>3. EndsStructures(tail) /\ From(ble, 12) = f \o tail
  BY DEF Laid
<1>4. CASE Len(ss) = 0
  <2>1. f = <<>>
    BY <1>4 DEF FlattenSeq
  <2> DEFINE place == [k \in 1 .. 1 |-> 12]
  <2>2. f \in Seq(Byte) /\ Len(f) = 0
    BY <2>1
  <2> HIDE DEF f
  <2>3. NoStructureAt(ble, 12)
    <3>1. NoStructureAt(ble, 12 + Len(f))
      <4>1. Len(f) > 0 => Len(ble) >= 12
        BY <2>2
      <4> QED BY <1>3, <2>2, <4>1, NothingAfterStructures, Zenon
    <3> QED BY <2>2, <3>1
  <2>4. place \in [1 .. Len(ss) + 1 -> Nat] /\ place[1] = 12 /\ place[Len(ss) + 1] = 12
    BY <1>4
  <2>5. Lie(ble, ss, 12, 12, place)
    BY <1>4, <2>4 DEF Lie
  <2>6. StructurePlaces(ble, ss, place)
    BY <1>4, <2>3, <2>5 DEF StructurePlaces
  <2> QED BY <2>6
<1>5. CASE Len(ss) > 0
  <2>1. f \in Seq(Byte) /\ \E pl : FlatPlace(ss, pl)
    BY <1>5, FlattenPlaces
  <2>2. PICK pl : FlatPlace(ss, pl)
    BY <2>1
  <2> HIDE DEF f
  <2>5. Len(f) \in Nat /\ Len(f) > 0
    <3>1. 1 \in 1 .. Len(ss) /\ 1 + 1 \in 1 .. Len(ss) + 1 /\ Len(f) \in Nat
      BY <1>1, <1>5, <2>1
    <3>2. pl[1 + 1] = pl[1] + Len(ss[1]) /\ pl[1 + 1] <= Len(f) + 1 /\ pl[1] = 1
      BY <2>2, <3>1 DEF FlatPlace, f
    <3> QED BY <1>1, <1>2, <3>1, <3>2
  <2>6. Len(ble) >= 12
    <3>1. Len(f \o tail) > 0
      BY <2>1, <2>5
    <3>2. CASE Len(ble) < 12
      <4>1. SubSeq(ble, 12 + 1, Len(ble)) = <<>>
        BY <3>2
      <4>2. f \o tail = <<>>
        BY <1>3, <4>1 DEF From
      <4> QED BY <3>1, <4>2
    <3> QED BY <1>1, <3>2
  <2>7. /\ NoStructureAt(ble, 12 + Len(f)) /\ 12 + Len(f) <= Len(ble)
        /\ \A q \in 1 .. Len(f) : ble[12 + q] = f[q]
    BY <1>3, <2>1, <2>5, <2>6, NothingAfterStructures
  <2> DEFINE d == 11
             l == Len(f)
             place == Moved(Len(ss), d, pl)
  <2>8. d \in Nat /\ d + 1 = 12 /\ l \in Nat /\ \A q \in 1 .. l : ble[(d + 1) + q] = f[q]
    BY <2>5, <2>7
  <2> HIDE DEF d
  <2>9. Lie(ble, ss, d + 1, (d + 1) + l, place)
    BY <2>2, <2>8, PlacesMove, Zenon DEF f
  <2> HIDE DEF place
  <2>10. Lie(ble, ss, 12, 12 + l, place)
    BY <2>8, <2>9
  <2>11. StructurePlaces(ble, ss, place)
    BY <2>7, <2>8, <2>10 DEF StructurePlaces
  <2> QED BY <2>11
<1> QED BY <1>1, <1>4, <1>5

\* l is the place of the last name among the structures from k on, or 0.
IsLastName(ss, place, k, l) ==
  \/ l = 0 /\ \A q \in k .. Len(ss) : ss[q][2] \notin {8, 9}
  \/ \E q \in k .. Len(ss) :
       /\ ss[q][2] \in {8, 9} /\ l = place[q]
       /\ \A r \in q + 1 .. Len(ss) : ss[r][2] \notin {8, 9}

\* The walk sees a structure that fits: its length, its type and where the next begins.
LEMMA StructureIsSeen ==
  ASSUME NEW ble \in Seq(Byte), NEW s \in Seq(Byte), Structure(s), NEW i \in Nat,
         i + Len(s) <= Len(ble), \A j \in 1 .. Len(s) : ble[i + j] = s[j]
  PROVE  /\ ~ NoStructureAt(ble, i) /\ At(ble, i) = Len(s) - 1
         /\ NextStructure(ble, i) = i + Len(s)
         /\ IsName(ble, i) <=> s[2] \in {8, 9}
<1>1. Len(s) \in Nat /\ Len(ble) \in Nat /\ Len(s) >= 2 /\ s[1] = Len(s) - 1
  BY DEF Structure
<1>2. ble[i + 1] = s[1] /\ ble[i + 2] = s[2]
  BY <1>1
<1>3. At(ble, i) = Len(s) - 1
  BY <1>1, <1>2 DEF At
<1>4. At(ble, i + 1) = s[2]
  <2>1. (i + 1) + 1 = i + 2
    OBVIOUS
  <2> QED BY <1>2, <2>1 DEF At
<1>5. ~ NoStructureAt(ble, i)
  BY <1>1, <1>3 DEF NoStructureAt
<1>6. NextStructure(ble, i) = i + Len(s)
  BY <1>1, <1>3 DEF NextStructure
<1> QED BY <1>3, <1>4, <1>5, <1>6 DEF IsName

\* The walk finds the last name: from the last structure downwards by induction.
LEMMA WalkFindsName ==
  ASSUME NEW ble \in Seq(Byte), NEW ss \in Seq(Seq(Byte)), \A k \in DOMAIN ss : Structure(ss[k]),
         NEW place, StructurePlaces(ble, ss, place)
  PROVE  IsLastName(ss, place, 1, lastName(ble)[12])
<1> DEFINE m == Len(ss)
           f == lastName(ble)
<1>1. m \in Nat /\ \A k \in 1 .. m : ss[k] \in Seq(Byte) /\ Structure(ss[k]) /\ Len(ss[k]) \in Nat
  OBVIOUS
<1>2. PICK last \in Nat :
        Lie(ble, ss, 12, last, place) /\ (Len(ss) > 0 => last <= Len(ble)) /\ NoStructureAt(ble, last)
  BY DEF StructurePlaces
<1>3. /\ place \in [1 .. m + 1 -> Nat] /\ place[1] = 12 /\ place[m + 1] = last
      /\ \A k \in 1 .. m :
           /\ place[k] >= 12
           /\ place[k + 1] = place[k] + Len(ss[k]) /\ place[k + 1] <= last
           /\ \A j \in 1 .. Len(ss[k]) : ble[place[k] + j] = ss[k][j]
  BY <1>2 DEF Lie
<1>4. \A i \in Nat : f[i] = IF NoStructureAt(ble, i) THEN 0
                            ELSE IF f[NextStructure(ble, i)] = 0 /\ IsName(ble, i) THEN i
                                 ELSE f[NextStructure(ble, i)]
  BY LastNameIsRecursive
<1>5. ASSUME NEW k \in 1 .. m
      PROVE  f[place[k]] = IF f[place[k + 1]] = 0 /\ ss[k][2] \in {8, 9} THEN place[k]
                           ELSE f[place[k + 1]]
  <2> DEFINE i == place[k]
             s == ss[k]
  <2>1. s \in Seq(Byte) /\ Structure(s) /\ Len(s) \in Nat
    BY <1>1
  <2>2. k \in 1 .. m + 1 /\ m > 0
    BY <1>1
  <2>3. i \in Nat
    BY <1>3, <2>2
  <2>4. place[k + 1] = i + Len(s) /\ place[k + 1] <= last /\ \A j \in 1 .. Len(s) : ble[i + j] = s[j]
    BY <1>3
  <2>5. i + Len(s) <= Len(ble)
    <3>1. last <= Len(ble)
      BY <1>2, <2>2
    <3> HIDE DEF i, s
    <3>2. Len(ble) \in Nat
      OBVIOUS
    <3> QED BY <2>1, <2>3, <2>4, <3>1, <3>2
  <2> HIDE DEF i, s
  <2>6. /\ ~ NoStructureAt(ble, i) /\ NextStructure(ble, i) = i + Len(s)
        /\ IsName(ble, i) <=> s[2] \in {8, 9}
    BY <2>1, <2>3, <2>4, <2>5, StructureIsSeen
  <2> HIDE DEF f
  <2>7. f[i] = IF f[i + Len(s)] = 0 /\ s[2] \in {8, 9} THEN i ELSE f[i + Len(s)]
    BY <1>4, <2>3, <2>6
  <2> QED BY <2>4, <2>7 DEF i, s
<1>6. f[place[m + 1]] = 0
  <2> HIDE DEF f
  <2> QED BY <1>2, <1>3, <1>4
<1> HIDE DEF f
<1> DEFINE Right(k) == IsLastName(ss, place, k, f[place[k]])
           G == {d \in Nat : d <= m => Right(m + 1 - d)}
<1>7. 0 \in G
  BY <1>1, <1>6 DEF IsLastName
<1>8. ASSUME NEW d \in Nat, d \in G PROVE d + 1 \in G
  <2> HIDE DEF Right
  <2> SUFFICES ASSUME d + 1 <= m PROVE Right(m + 1 - (d + 1))
    OBVIOUS
  <2> DEFINE k == m - d
  <2>1. k \in 1 .. m /\ k + 1 = m + 1 - d /\ m + 1 - (d + 1) = k /\ d <= m
    BY <1>1
  <2>2. Right(k + 1)
    BY <1>8, <2>1
  <2> HIDE DEF k
  <2>3. Right(k)
    <3> DEFINE l == f[place[k + 1]]
    <3>1. IsLastName(ss, place, k + 1, l)
      BY <2>2 DEF Right
    <3>2. f[place[k]] = IF l = 0 /\ ss[k][2] \in {8, 9} THEN place[k] ELSE l
      BY <1>5, <2>1
    <3> HIDE DEF l
    <3>3. \A q \in k .. m : q = k \/ q \in k + 1 .. m
      BY <1>1, <2>1
    <3>4. \A q \in k + 1 .. m : q \in k .. m
      BY <1>1, <2>1
    <3>5. k \in k .. m
      BY <1>1, <2>1
    <3>6. CASE l = 0
      <4>1. \A q \in k + 1 .. m : ss[q][2] \notin {8, 9}
        <5>1. SUFFICES ASSUME NEW q \in k + 1 .. m, l = place[q] PROVE FALSE
          BY <3>1 DEF IsLastName
        <5>2. q \in 1 .. m
          BY <1>1, <2>1
        <5>3. place[q] >= 12
          BY <1>3, <5>2
        <5> QED BY <3>6, <5>1, <5>3
      <4>2. CASE ss[k][2] \in {8, 9}
        <5>1. f[place[k]] = place[k]
          BY <3>2, <3>6, <4>2
        <5> QED BY <3>5, <4>1, <4>2, <5>1 DEF IsLastName, Right
      <4>3. CASE ss[k][2] \notin {8, 9}
        <5>1. f[place[k]] = 0
          BY <3>2, <3>6, <4>3
        <5> QED BY <3>3, <4>1, <4>3, <5>1 DEF IsLastName, Right
      <4> QED BY <4>2, <4>3
    <3>7. CASE l # 0
      <4>1. f[place[k]] = l
        BY <3>2, <3>7
      <4>2. PICK q \in k + 1 .. m :
              /\ ss[q][2] \in {8, 9} /\ l = place[q]
              /\ \A r \in q + 1 .. m : ss[r][2] \notin {8, 9}
        BY <3>1, <3>7 DEF IsLastName
      <4> QED BY <3>4, <4>1, <4>2 DEF IsLastName, Right
    <3> QED BY <3>6, <3>7
  <2> QED BY <2>1, <2>3
<1>9. m \in G
  <2> HIDE DEF G, Right
  <2> QED BY <1>1, <1>7, <1>8, NatSetInduction
<1>10. Right(1)
  <2> HIDE DEF Right
  <2>1. m + 1 - m = 1 /\ m <= m
    BY <1>1
  <2> QED BY <1>9, <2>1
<1> QED BY <1>3, <1>10 DEF f

\* FromAndSlice for a slice alone.
LEMMA SliceIs ==
  ASSUME NEW S, NEW s \in Seq(S), NEW a \in Nat, NEW b \in Nat, a <= b, b <= Len(s)
  PROVE  /\ Slice(s, a, b) \in Seq(S) /\ Len(Slice(s, a, b)) = b - a
         /\ \A q \in 1 .. b - a : Slice(s, a, b)[q] = s[a + q]
  BY FromAndSlice

\* FromAndSlice for the rest of a list alone.
LEMMA FromIs ==
  ASSUME NEW S, NEW s \in Seq(S), NEW a \in Nat, a <= Len(s)
  PROVE  /\ From(s, a) \in Seq(S) /\ Len(From(s, a)) = Len(s) - a
         /\ \A q \in 1 .. Len(s) - a : From(s, a)[q] = s[a + q]
<1> DEFINE b == Len(s)
<1>1. b \in Nat /\ a <= b /\ b <= Len(s)
  OBVIOUS
<1> HIDE DEF b
<1> QED BY <1>1, FromAndSlice

\* s lies in ble behind its first p bytes.
LiesAt(ble, s, p) == \A j \in 1 .. Len(s) : ble[p + j] = s[j]

\* A slice of what lies in a list is a part of it.
LEMMA SliceIsFrom ==
  ASSUME NEW S, NEW ble \in Seq(S), NEW s \in Seq(S), NEW p \in Nat, NEW a \in Nat, NEW b \in Nat,
         a <= Len(s), p + a <= b, b <= Len(ble), b - (p + a) = Len(s) - a, LiesAt(ble, s, p)
  PROVE  Slice(ble, p + a, b) = From(s, a)
<1> DEFINE c == p + a
           x == Slice(ble, c, b)
           y == From(s, a)
           k == Len(s) - a
<1>1. Len(s) \in Nat /\ Len(ble) \in Nat /\ c \in Nat /\ c <= b /\ b <= Len(ble) /\ b - c = k /\ k \in Nat
  OBVIOUS
<1> HIDE DEF c
<1>2. x \in Seq(S) /\ Len(x) = b - c /\ \A q \in 1 .. b - c : x[q] = ble[c + q]
  <2>1. c \in Nat /\ b \in Nat /\ c <= b /\ b <= Len(ble)
    BY <1>1
  <2> QED BY <2>1, SliceIs, Zenon
<1>3. y \in Seq(S) /\ Len(y) = Len(s) - a /\ \A q \in 1 .. Len(s) - a : y[q] = s[a + q]
  BY FromIs, Zenon
<1>4. ASSUME NEW q \in 1 .. k PROVE x[q] = y[q]
  <2>1. a + q \in 1 .. Len(s) /\ p + (a + q) = c + q
    BY <1>1 DEF c
  <2>2. ble[p + (a + q)] = s[a + q]
    BY <2>1 DEF LiesAt
  <2> HIDE DEF x, y
  <2> QED BY <1>1, <1>2, <1>3, <2>1, <2>2
<1> HIDE DEF x, y
<1>5. x = y
  BY <1>1, <1>2, <1>3, <1>4, SeqEqual
<1> QED BY <1>5 DEF x, y, c

\* The data of a structure, cut out of the packet.
LEMMA SliceLies ==
  ASSUME NEW ble \in Seq(Byte), NEW s \in Seq(Byte), NEW p \in Nat,
         Len(s) >= 2, p + Len(s) <= Len(ble), LiesAt(ble, s, p)
  PROVE  Slice(ble, p + 2, p + Len(s)) = SubSeq(s, 3, Len(s))
<1> DEFINE a == 2
           b == p + Len(s)
<1>1. /\ a \in Nat /\ b \in Nat /\ a <= Len(s) /\ p + a <= b /\ b <= Len(ble)
      /\ b - (p + a) = Len(s) - a
  OBVIOUS
<1> HIDE DEF a, b
<1>2. Slice(ble, p + a, b) = From(s, a)
  BY <1>1, SliceIsFrom
<1> QED BY <1>2 DEF a, b, From

\* extractName finds the last name of the structures, whatever ends them.
LEMMA NameIsInStructures ==
  ASSUME NEW ble \in Seq(Byte), NEW ss \in Seq(Seq(Byte)), NEW tail \in Seq(Byte), Laid(ble, ss, tail),
         At(ble, 4) % 16 \in HasAdvData
  PROVE  extractName(ble) = NameIn(ss)
<1> DEFINE l == lastName(ble)[12]
           m == Len(ss)
           named == {k \in DOMAIN ss : ss[k][2] \in {8, 9}}
           t == At(ble, 4) % 16
<1>1. PICK place : StructurePlaces(ble, ss, place)
  BY StructuresLie
<1>2. IsLastName(ss, place, 1, l)
  <2>1. \A k \in DOMAIN ss : Structure(ss[k])
    BY DEF Laid
  <2> HIDE DEF l
  <2> QED BY <1>1, <2>1, WalkFindsName DEF l
<1>3. DOMAIN ss = 1 .. m /\ m \in Nat /\ \A k \in 1 .. m : ss[k] \in Seq(Byte) /\ Len(ss[k]) \in Nat
  OBVIOUS
<1>4. t # 1 /\ t \in HasAdvData
  BY DEF HasAdvData
<1>5. extractName(ble) = IF l # 0 THEN Slice(ble, l + 2, l + At(ble, l) + 1) ELSE <<>>
  <2> HIDE DEF l, t
  <2>1. extractName(ble) =
          CASE t = 1 -> NameOfDirect
            [] t \in HasAdvData /\ l # 0 -> Slice(ble, l + 2, l + At(ble, l) + 1)
            [] OTHER -> <<>>
    BY DEF extractName, l, t
  <2> QED BY <1>4, <2>1
<1> HIDE DEF l, m, t
<1>6. CASE l = 0 /\ \A q \in 1 .. m : ss[q][2] \notin {8, 9}
  <2>1. named = {}
    BY <1>3, <1>6
  <2>2. NameIn(ss) = <<>>
    BY <2>1 DEF NameIn
  <2> QED BY <1>5, <1>6, <2>2
<1>7. ASSUME NEW k \in 1 .. m, ss[k][2] \in {8, 9}, l = place[k],
             \A r \in k + 1 .. m : ss[r][2] \notin {8, 9}
      PROVE  extractName(ble) = NameIn(ss)
  <2> DEFINE s == ss[k]
             last == CHOOSE q \in named : \A r \in named : r <= q
  <2>1. named # {} /\ last = k
    <3>1. k \in named
      BY <1>3, <1>7
    <3>2. \A r \in named : r \in 1 .. m
      BY <1>3
    <3>3. ASSUME NEW r \in named PROVE r <= k
      <4>1. r \notin k + 1 .. m
        BY <1>7
      <4> HIDE DEF named
      <4> QED BY <1>3, <3>2, <4>1
    <3>4. \A q \in named : (\A r \in named : r <= q) => q = k
      <4> HIDE DEF named
      <4> QED BY <1>3, <3>1, <3>2, <3>3
    <3>5. last \in named /\ \A r \in named : r <= last
      <4> HIDE DEF named
      <4> QED BY <3>1, <3>3
    <3> QED BY <3>1, <3>4, <3>5
  <2>2. NameIn(ss) = SubSeq(s, 3, Len(s))
    <3>1. NameIn(ss) = IF named = {} THEN <<>> ELSE SubSeq(ss[last], 3, Len(ss[last]))
      BY DEF NameIn
    <3> HIDE DEF named, last
    <3> QED BY <2>1, <3>1
  <2> HIDE DEF named, last
  <2>3. PICK end \in Nat :
          Lie(ble, ss, 12, end, place) /\ (Len(ss) > 0 => end <= Len(ble))
    BY <1>1 DEF StructurePlaces
  <2>4. /\ place \in [1 .. m + 1 -> Nat] /\ l >= 12 /\ place[k + 1] = l + Len(s)
        /\ place[k + 1] <= end /\ \A j \in 1 .. Len(s) : ble[l + j] = s[j]
    BY <1>7, <2>3 DEF Lie, m
  <2>5. l \in Nat /\ s \in Seq(Byte) /\ Structure(s) /\ Len(s) \in Nat
    <3>1. k \in 1 .. m + 1
      BY <1>3
    <3> QED BY <1>3, <1>7, <2>4, <3>1 DEF Laid
  <2>6. l + Len(s) <= Len(ble)
    <3>1. m > 0
      BY <1>3
    <3>2. end <= Len(ble) /\ Len(ble) \in Nat
      BY <2>3, <3>1 DEF m
    <3> HIDE DEF s
    <3> QED BY <2>4, <2>5, <3>2
  <2> HIDE DEF s
  <2>7. Len(s) >= 2
    BY <2>5 DEF Structure
  <2>8. At(ble, l) = Len(s) - 1
    BY <2>4, <2>5, <2>6, StructureIsSeen
  <2>9. Slice(ble, l + 2, l + Len(s)) = SubSeq(s, 3, Len(s))
    BY <2>4, <2>5, <2>6, <2>7, SliceLies DEF LiesAt
  <2>10. l # 0 /\ l + At(ble, l) + 1 = l + Len(s)
    BY <2>4, <2>5, <2>8
  <2> QED BY <1>5, <2>2, <2>9, <2>10
<1> QED BY <1>2, <1>6, <1>7 DEF IsLastName, m

-----------------------------------------------------------------------------
\* readFlags passes a packet only with its CRC and, if it was encrypted, its MIC.
LEMMA FlagsAreRead ==
  ASSUME NEW list, NEW parts, HasFlags(list, parts), parts.crcOK \in BOOLEAN,
         parts.encrypted \in BOOLEAN, parts.micOK \in BOOLEAN, FlagsOK(At(list, FLAGS_POS))
  PROVE  parts.crcOK /\ (parts.encrypted => parts.micOK)
<1> DEFINE c == Bit(parts.crcOK)
           e == Bit(parts.encrypted)
           m == Bit(parts.micOK)
           flags == At(list, FLAGS_POS)
<1>1. PICK d \in 0 .. 1, r \in 0 .. 15 : flags = c + 2 * d + 4 * e + 8 * m + 16 * r
  BY DEF HasFlags
<1>2. /\ c \in 0 .. 1 /\ (c = 1 <=> parts.crcOK) /\ e \in 0 .. 1 /\ (e = 1 <=> parts.encrypted)
      /\ m \in 0 .. 1 /\ (m = 1 <=> parts.micOK)
  BY DEF Bit
<1> HIDE DEF c, e, m, flags
<1>3. flags % 2 = c
  BY <1>1, <1>2
<1>4. (flags \div 4) % 2 = e
  <2>1. flags \div 4 = e + 2 * m + 4 * r
    BY <1>1, <1>2
  <2> QED BY <1>2, <2>1
<1>5. (flags \div 8) % 2 = m
  <2>1. flags \div 8 = m + 2 * r
    BY <1>1, <1>2
  <2> QED BY <1>2, <2>1
<1>6. flags % 2 = 1 /\ ((flags \div 8) % 2 = 1 \/ ~ ((flags \div 4) % 2 = 1))
  BY DEF FlagsOK, flags
<1> QED BY <1>2, <1>3, <1>4, <1>5, <1>6

\* The length field of a packet holds two bytes, in version 1 one.
LEMMA LengthIsBounded ==
  ASSUME NEW list \in Seq(Byte), Len(list) > ID_POS, At(list, PROTOVER_POS) \in {1, 2}
  PROVE  /\ PayloadLength(list) \in Nat /\ PayloadLength(list) < 65536
         /\ At(list, PROTOVER_POS) = 1 => PayloadLength(list) < 256
<1>1. Len(list) \in Nat /\ 1 \in 1 .. Len(list) /\ 2 \in 1 .. Len(list)
  BY DEF ID_POS
<1>2. list[1] \in Byte /\ list[2] \in Byte
  BY <1>1
<1>3. list[1] \in Nat /\ list[1] < 256 /\ list[2] \in Nat /\ list[2] < 256
  BY <1>2, Bytes256
<1>4. CASE At(list, PROTOVER_POS) = 1
  <2>1. PayloadLength(list) = list[2]
    BY <1>4 DEF PayloadLength, At, PAYLOAD_LEN_POS_V1
  <2> QED BY <1>3, <2>1
<1>5. CASE At(list, PROTOVER_POS) = 2
  <2>1. PayloadLength(list) = parseLittleEndian(Slice(list, 0, 2))
    BY <1>5 DEF PayloadLength
  <2>2. \A q \in 1 .. 2 - 0 : Slice(list, 0, 2)[q] = list[0 + q]
    <3>1. 0 \in Nat /\ 2 \in Nat /\ 0 <= 2 /\ 2 <= Len(list)
      BY <1>1
    <3> QED BY <3>1, SliceIs, Zenon
  <2>3. Slice(list, 0, 2)[1] = list[1] /\ Slice(list, 0, 2)[2] = list[2]
    BY <2>2
  <2>4. PayloadLength(list) = list[1] + 256 * list[2]
    BY <2>1, <2>3 DEF parseLittleEndian
  <2> QED BY <1>3, <1>5, <2>4
<1> QED BY <1>4, <1>5

\* What Packet makes of an event packet that is whole.
Shorter(list) ==
  WriteLength(RemovePadding(list), At(list, PROTOVER_POS), PayloadLength(list) - 1)

\* An event packet that reaches beyond its byte of padding.
WholeEvent(list) ==
  /\ Len(list) > PADDING_POS
  /\ At(list, PROTOVER_POS) \in {1, 2}
  /\ PayloadLength(list) + HEADER_LENGTH = Len(list)

\* The shorter list: its length field counts it, and only the padding is missing.
LEMMA ShorterIsRight ==
  ASSUME NEW list \in Seq(Byte), WholeEvent(list)
  PROVE  /\ Shorter(list) \in Seq(Byte) /\ Len(Shorter(list)) = Len(list) - 1
         /\ PayloadLength(Shorter(list)) + HEADER_LENGTH = Len(Shorter(list))
         /\ \A q \in 3 .. PADDING_POS : Shorter(list)[q] = list[q]
         /\ \A q \in PADDING_POS + 1 .. Len(list) - 1 : Shorter(list)[q] = list[q + 1]
<1> DEFINE x == RemovePadding(list)
           protover == At(list, PROTOVER_POS)
           v == PayloadLength(list) - 1
           w == Shorter(list)
           n == Len(list)
           p == PADDING_POS
<1>1. p = 22
  BY DEF PADDING_POS, BLEPACKET_POS
<1>2. n \in Nat /\ n > p /\ protover \in {1, 2} /\ PayloadLength(list) + HEADER_LENGTH = n
  BY DEF WholeEvent
<1>3. n > ID_POS
  BY <1>1, <1>2 DEF ID_POS
<1>4. /\ PayloadLength(list) \in Nat /\ PayloadLength(list) < 65536
      /\ protover = 1 => PayloadLength(list) < 256
  BY <1>2, <1>3, LengthIsBounded
<1>5. /\ x \in Seq(Byte) /\ Len(x) = n - 1
      /\ \A q \in 1 .. p : x[q] = list[q]
      /\ \A q \in p + 1 .. n - 1 : x[q] = list[q + 1]
  BY <1>2, PaddingGoes
<1>6. v \in Nat /\ v < 65536 /\ (protover = 1 => v \in Byte) /\ v + HEADER_LENGTH = n - 1
  <2>1. v \in Nat /\ v < 65536 /\ (protover = 1 => v < 256) /\ v + HEADER_LENGTH = n - 1
    BY <1>1, <1>2, <1>4 DEF HEADER_LENGTH
  <2> HIDE DEF v
  <2> QED BY <2>1, Bytes256
<1> HIDE DEF x, n, p
<1>7. At(x, PROTOVER_POS) = protover
  <2>1. x[3] = list[3]
    BY <1>1, <1>5
  <2> QED BY <2>1 DEF At, PROTOVER_POS
<1>8. w = WriteLength(x, protover, v)
  BY DEF Shorter, x
<1> HIDE DEF w, v, protover
<1>9. /\ w \in Seq(Byte) /\ Len(w) = Len(x)
      /\ \A q \in 3 .. Len(x) : w[q] = x[q]
      /\ PayloadLength(w) = v
  <2>1. Len(x) > 2
    BY <1>1, <1>2, <1>5
  <2> QED BY <1>2, <1>5, <1>6, <1>7, <1>8, <2>1, LengthIsWritten
<1>10. ASSUME NEW q \in 3 .. p PROVE w[q] = list[q]
  <2>1. q \in 3 .. n - 1 /\ q \in 1 .. p
    BY <1>1, <1>2
  <2> QED BY <1>5, <1>9, <2>1
<1>11. ASSUME NEW q \in p + 1 .. n - 1 PROVE w[q] = list[q + 1]
  <2>1. q \in 3 .. n - 1
    BY <1>1, <1>2
  <2> QED BY <1>5, <1>9, <2>1
<1>12. Len(w) = n - 1 /\ PayloadLength(w) + HEADER_LENGTH = Len(w)
  BY <1>5, <1>6, <1>9
<1> QED BY <1>9, <1>10, <1>11, <1>12 DEF w, n, p

\* Without its padding, the packet is the one that was on air.
LEMMA AirComesBack ==
  ASSUME NEW list \in Seq(Byte), WholeEvent(list)
  PROVE  LET onAir == Slice(list, BLEPACKET_POS, PADDING_POS) \o From(list, PADDING_POS + 1)
         IN  From(Shorter(list), BLEPACKET_POS) = onAir /\ Len(onAir) >= 6
<1> DEFINE d == BLEPACKET_POS
           p == PADDING_POS
           w == Shorter(list)
           n == Len(list)
           a == Slice(list, d, p)
           b == From(list, p + 1)
           c == a \o b
           f == From(w, d)
<1>1. n \in Nat /\ n > p /\ d \in Nat /\ p \in Nat /\ p = d + 6 /\ d > 2
  BY DEF WholeEvent, PADDING_POS, BLEPACKET_POS
<1>2. /\ w \in Seq(Byte) /\ Len(w) = n - 1
      /\ \A q \in 3 .. p : w[q] = list[q]
      /\ \A q \in p + 1 .. n - 1 : w[q] = list[q + 1]
  BY ShorterIsRight
<1> HIDE DEF n, w, p, d
<1>3. a \in Seq(Byte) /\ Len(a) = p - d /\ \A q \in 1 .. p - d : a[q] = list[d + q]
  <2>1. d \in Nat /\ p \in Nat /\ d <= p /\ p <= Len(list)
    BY <1>1 DEF n
  <2> QED BY <2>1, SliceIs, Zenon
<1>4. b \in Seq(Byte) /\ Len(b) = n - (p + 1) /\ \A q \in 1 .. n - (p + 1) : b[q] = list[(p + 1) + q]
  <2> DEFINE e == p + 1
  <2>1. e \in Nat /\ e <= Len(list)
    BY <1>1 DEF n
  <2> HIDE DEF e
  <2>2. /\ From(list, e) \in Seq(Byte) /\ Len(From(list, e)) = Len(list) - e
        /\ \A q \in 1 .. Len(list) - e : From(list, e)[q] = list[e + q]
    BY <2>1, FromIs, Zenon
  <2> QED BY <2>2 DEF e, n
<1>5. f \in Seq(Byte) /\ Len(f) = (n - 1) - d /\ \A q \in 1 .. (n - 1) - d : f[q] = w[d + q]
  <2>1. d <= Len(w)
    BY <1>1, <1>2
  <2>2. f \in Seq(Byte) /\ Len(f) = Len(w) - d /\ \A q \in 1 .. Len(w) - d : f[q] = w[d + q]
    <3>1. w \in Seq(Byte) /\ d \in Nat
      BY <1>1, <1>2
    <3> QED BY <2>1, <3>1, FromIs, Zenon
  <2> HIDE DEF f
  <2> QED BY <1>2, <2>2
<1> HIDE DEF a, b, f
<1>6. /\ c \in Seq(Byte) /\ Len(c) = Len(a) + Len(b)
      /\ \A q \in 1 .. Len(a) : c[q] = a[q]
      /\ \A q \in 1 .. Len(b) : c[Len(a) + q] = b[q]
  <2>1. a \in Seq(Byte) /\ b \in Seq(Byte)
    BY <1>3, <1>4
  <2> QED BY <2>1
<1> HIDE DEF c
<1>7. Len(a) = 6 /\ Len(b) = n - (p + 1) /\ Len(c) = (n - 1) - d /\ Len(c) >= 6
  BY <1>1, <1>3, <1>4, <1>6
<1>8. ASSUME NEW q \in 1 .. (n - 1) - d PROVE f[q] = c[q]
  <2>1. f[q] = w[d + q]
    BY <1>5
  <2>2. CASE q <= 6
    <3>1. q \in 1 .. p - d /\ d + q \in 3 .. p /\ q \in 1 .. Len(a)
      BY <1>1, <1>7, <2>2
    <3> QED BY <1>2, <1>3, <1>6, <2>1, <3>1
  <2>3. CASE q > 6
    <3>1. /\ q - 6 \in 1 .. n - (p + 1) /\ d + q \in p + 1 .. n - 1 /\ q - 6 \in 1 .. Len(b)
          /\ 6 + (q - 6) = q /\ (p + 1) + (q - 6) = (d + q) + 1
      BY <1>1, <1>7, <2>3
    <3>2. c[6 + (q - 6)] = b[q - 6]
      BY <1>6, <1>7, <3>1
    <3>3. b[q - 6] = list[(p + 1) + (q - 6)]
      BY <1>4, <3>1
    <3>4. w[d + q] = list[(d + q) + 1]
      BY <1>2, <3>1
    <3> QED BY <2>1, <3>1, <3>2, <3>3, <3>4
  <2> QED BY <1>1, <2>2, <2>3
<1>9. f = c
  BY <1>5, <1>6, <1>7, <1>8, SeqEqual
<1> QED BY <1>7, <1>9 DEF f, c, a, b, w, d, p

\* A slice of bytes is bytes, even where it reaches beyond the list.
LEMMA SliceIsBytes ==
  ASSUME NEW s \in Seq(Byte), NEW a \in Nat, NEW b \in Nat
  PROVE  Slice(s, a, b) \in Seq(Byte)
<1> DEFINE e == IF b < Len(s) THEN b ELSE Len(s)
<1>1. e \in Nat /\ e <= Len(s)
  OBVIOUS
<1>2. Slice(s, a, b) = SubSeq(s, a + 1, e)
  BY DEF Slice
<1> HIDE DEF e
<1>3. a + 1 \in Nat /\ a + 1 >= 1
  OBVIOUS
<1> DEFINE c == a + 1
<1>4. c \in Nat /\ c >= 1
  BY <1>3
<1> HIDE DEF c
<1>5. SubSeq(s, c, e) \in Seq(Byte)
  BY <1>1, <1>4
<1> QED BY <1>2, <1>5 DEF c

\* A name is bytes: among the structures that are names there is a last one.
LEMMA NameIsBytes ==
  ASSUME NEW ss \in Seq(Seq(Byte)), \A k \in DOMAIN ss : Structure(ss[k])
  PROVE  NameIn(ss) \in Seq(Byte)
<1> DEFINE named == {k \in DOMAIN ss : ss[k][2] \in {8, 9}}
           last == CHOOSE k \in named : \A l \in named : l <= k
<1>1. NameIn(ss) = IF named = {} THEN <<>> ELSE SubSeq(ss[last], 3, Len(ss[last]))
  BY DEF NameIn
<1>2. CASE named = {}
  <2> HIDE DEF named, last
  <2> QED BY <1>1, <1>2
<1>3. CASE named # {}
  <2>1. named \subseteq Nat /\ named \subseteq DOMAIN ss /\ \A k \in named : k <= Len(ss)
    OBVIOUS
  <2>2. \E k \in named : \A l \in named : l <= k
    <3> DEFINE G == {d \in Nat : \A k \in named : k >= Len(ss) - d =>
                                   \E h \in named : \A l \in named : l <= h}
    <3> HIDE DEF named
    <3>1. 0 \in G
      BY <2>1
    <3>2. ASSUME NEW d \in Nat, d \in G PROVE d + 1 \in G
      <4> SUFFICES ASSUME NEW k \in named, k >= Len(ss) - (d + 1)
                   PROVE  \E h \in named : \A l \in named : l <= h
        OBVIOUS
      <4>1. CASE \A l \in named : l <= k
        BY <4>1
      <4>2. ASSUME NEW l \in named, ~ (l <= k) PROVE \E h \in named : \A r \in named : r <= h
        <5>1. l >= Len(ss) - d
          BY <2>1, <4>2
        <5> QED BY <3>2, <5>1
      <4> QED BY <4>1, <4>2
    <3> HIDE DEF G
    <3>3. Len(ss) \in G
      <4>1. Len(ss) \in Nat
        OBVIOUS
      <4> QED BY <3>1, <3>2, <4>1, NatSetInduction
    <3>4. PICK k \in named : TRUE
      BY <1>3
    <3>5. k >= Len(ss) - Len(ss)
      BY <2>1
    <3> QED BY <3>3, <3>5 DEF G
  <2>3. last \in named
    <3> HIDE DEF named
    <3> QED BY <2>2
  <2>4. ss[last] \in Seq(Byte)
    <3>1. last \in DOMAIN ss
      BY <2>1, <2>3
    <3> HIDE DEF last
    <3> QED BY <3>1
  <2> HIDE DEF last, named
  <2> DEFINE s == ss[last]
  <2>5. SubSeq(s, 3, Len(s)) \in Seq(Byte)
    <3> HIDE DEF s
    <3>1. s \in Seq(Byte)
      BY <2>4 DEF s
    <3> QED BY <3>1
  <2> QED BY <1>1, <1>3, <2>5
<1> QED BY <1>2, <1>3

\* An address, turned round and with its type, is bytes.
LEMMA ReverseIsBytes ==
  ASSUME NEW s \in Seq(Byte), NEW b \in Byte
  PROVE  Append(Reverse(s), b) \in Seq(Byte)
<1>1. Reverse(s) \in Seq(Byte)
  BY DEF Reverse
<1> QED BY <1>1

\* Every attribute of a BLE packet is set to what its readers expect.
LEMMA BlePacketIsTyped ==
  ASSUME NEW ble \in Seq(Byte), Len(ble) >= 6, NEW ss \in Seq(Seq(Byte)), NEW tail \in Seq(Byte),
         Laid(ble, ss, tail)
  PROVE  BlePacket(ble) \in BlePackets
<1> DEFINE advType == At(ble, 4) % 16
           txAdd == (At(ble, 4) \div 64) % 2
           advertising == Slice(ble, 0, 4) = ADV_ACCESS_ADDRESS
<1>1. At(ble, 4) \in Byte /\ At(ble, 5) \in Byte
  <2>1. 5 \in 1 .. Len(ble) /\ 6 \in 1 .. Len(ble)
    OBVIOUS
  <2>2. ble[5] \in Byte /\ ble[6] \in Byte
    BY <2>1
  <2>3. 4 + 1 = 5 /\ 5 + 1 = 6
    OBVIOUS
  <2> QED BY <2>2, <2>3 DEF At
<1>2. At(ble, 4) \in Nat
  BY <1>1, Bytes256
<1>3. advType \in 0 .. 15 /\ txAdd \in Byte
  <2>1. advType \in 0 .. 15 /\ txAdd \in Nat /\ txAdd < 256
    <3>1. \A v \in Nat : v % 16 \in 0 .. 15
      OBVIOUS
    <3>2. \A v \in Nat : (v \div 64) \in Nat /\ v % 2 \in Nat /\ v % 2 < 256
      OBVIOUS
    <3> DEFINE v == At(ble, 4)
    <3> HIDE DEF v
    <3>3. v \in Nat
      BY <1>2 DEF v
    <3>4. v % 16 \in 0 .. 15
      BY <3>1, <3>3
    <3>5. v \div 64 \in Nat
      BY <3>2, <3>3
    <3>6. (v \div 64) % 2 \in Nat /\ (v \div 64) % 2 < 256
      BY <3>2, <3>5
    <3> QED BY <3>4, <3>6 DEF v
  <2> HIDE DEF txAdd
  <2> QED BY <2>1, Bytes256
<1>4. extractAdvAddress(ble) \in Seq(Byte) \union {Unset}
  <2>1. Slice(ble, 6, 12) \in Seq(Byte) /\ Slice(ble, 12, 18) \in Seq(Byte)
    BY SliceIsBytes
  <2>2. /\ Append(Reverse(Slice(ble, 6, 12)), txAdd) \in Seq(Byte)
        /\ Append(Reverse(Slice(ble, 12, 18)), txAdd) \in Seq(Byte)
    <3> HIDE DEF txAdd
    <3> QED BY <1>3, <2>1, ReverseIsBytes
  <2> DEFINE x == Append(Reverse(Slice(ble, 6, 12)), txAdd)
             y == Append(Reverse(Slice(ble, 12, 18)), txAdd)
  <2>3. extractAdvAddress(ble) = CASE advType \in HasAdvAddress -> x
                                   [] advType \in HasTarget -> y
                                   [] OTHER -> Unset
    BY DEF extractAdvAddress
  <2> HIDE DEF x, y, advType
  <2>4. x \in Seq(Byte) /\ y \in Seq(Byte)
    BY <2>2 DEF x, y
  <2> QED BY <2>3, <2>4
<1>5. extractName(ble) \in Seq(Byte) \union {Unset, NameOfDirect}
  <2> DEFINE i == lastName(ble)[12]
             z == Slice(ble, i + 2, i + At(ble, i) + 1)
  <2>1. extractName(ble) = CASE advType = 1 -> NameOfDirect
                             [] advType \in HasAdvData /\ i # 0 -> z
                             [] OTHER -> <<>>
    BY DEF extractName
  <2>2. CASE advType \in HasAdvData
    <3>1. extractName(ble) = NameIn(ss)
      BY <2>2, NameIsInStructures
    <3>2. NameIn(ss) \in Seq(Byte)
      <4>1. \A k \in DOMAIN ss : Structure(ss[k])
        BY DEF Laid
      <4> QED BY <4>1, NameIsBytes
    <3> QED BY <3>1, <3>2
  <2>3. CASE advType \notin HasAdvData
    <3> HIDE DEF i, z, advType
    <3> QED BY <2>1, <2>3
  <2> QED BY <2>2, <2>3
<1>6. Slice(ble, 0, 4) \in Seq(Byte)
  BY SliceIsBytes
<1>7. From(ble, 6) \in Seq(Byte)
  <2> DEFINE d == 6
  <2>1. d \in Nat /\ d <= Len(ble)
    OBVIOUS
  <2> HIDE DEF d
  <2>2. From(ble, d) \in Seq(Byte)
    BY <2>1, FromIs, Zenon
  <2> QED BY <2>2 DEF d
<1> DEFINE a == Slice(ble, 0, 4)
           t == IF advertising THEN advType ELSE Unset
           r == IF advertising THEN extractAdvAddress(ble) ELSE Unset
           m == IF advertising THEN extractName(ble) ELSE Unset
           l == At(ble, 5)
           f == From(ble, 6)
<1>8. /\ a \in Seq(Byte) /\ t \in 0 .. 15 \union {Unset} /\ r \in Seq(Byte) \union {Unset}
      /\ m \in Seq(Byte) \union {Unset, NameOfDirect} /\ l \in Byte /\ f \in Seq(Byte)
  <2> HIDE DEF advertising, advType
  <2> QED BY <1>1, <1>3, <1>4, <1>5, <1>6, <1>7
<1>9. BlePacket(ble) = [accessAddress |-> a, advType |-> t, advAddress |-> r, name |-> m,
                        length |-> l, payload |-> f]
  BY DEF BlePacket
<1> HIDE DEF a, t, r, m, l, f
<1> QED BY <1>8, <1>9 DEF BlePackets

\* A packet that is OK comes from a whole event packet whose flags were good.
LEMMA OKIsWhole ==
  ASSUME NEW list \in Seq(Byte), Packet(list).OK
  PROVE  /\ WholeEvent(list) /\ FlagsOK(At(list, FLAGS_POS))
         /\ Packet(list) = [valid |-> TRUE, OK |-> TRUE, packetList |-> Shorter(list),
                            RSSI |-> - At(list, RSSI_POS),
                            blePacket |-> BlePacket(From(Shorter(list), BLEPACKET_POS))]
<1> DEFINE protover == At(list, PROTOVER_POS)
           length == PayloadLength(list)
           event == ReadEvent(list, protover, length)
           broken == BrokenOff(list)
           good == FlagsOK(At(list, FLAGS_POS))
           bad == \/ Len(list) <= ID_POS
                  \/ protover \notin {1, 2}
                  \/ length + HEADER_LENGTH # Len(list)
                  \/ At(list, ID_POS) \notin
                       {EVENT_PACKET, PING_RESP, SWITCH_BAUD_RATE_REQ, SWITCH_BAUD_RATE_RESP}
           short == \/ Len(list) <= PADDING_POS
                    \/ At(list, BLE_HEADER_LEN_POS) # BLE_HEADER_LENGTH
<1>1. Packet(list) = IF bad THEN Invalid
                     ELSE IF At(list, ID_POS) = EVENT_PACKET THEN event
                     ELSE [valid |-> TRUE, OK |-> FALSE, packetList |-> list, RSSI |-> Unset,
                           blePacket |-> Unset]
  BY DEF Packet
<1>2. event = IF short THEN broken
              ELSE [valid |-> TRUE, OK |-> good, packetList |-> Shorter(list),
                    RSSI |-> - At(list, RSSI_POS),
                    blePacket |-> IF good THEN BlePacket(From(Shorter(list), BLEPACKET_POS))
                                  ELSE Unset]
  BY DEF ReadEvent, Shorter
<1>3. ~ Invalid.OK /\ ~ broken.OK
  BY DEF Invalid, BrokenOff
<1> HIDE DEF event, broken, good
<1>4. ~ bad /\ ~ short /\ good /\ Packet(list) = event
  <2> HIDE DEF bad, short
  <2>1. ~ bad
    BY <1>1, <1>3
  <2>2. Packet(list) = event
    BY <1>1, <2>1
  <2>3. ~ short
    BY <1>2, <1>3, <2>2
  <2>4. good
    BY <1>2, <2>2, <2>3
  <2> QED BY <2>1, <2>2, <2>3, <2>4
<1>5. WholeEvent(list)
  <2>1. Len(list) > PADDING_POS
    <3>1. Len(list) \in Nat /\ PADDING_POS \in Nat
      BY DEF PADDING_POS, BLEPACKET_POS
    <3> QED BY <1>4, <3>1
  <2> QED BY <1>4, <2>1 DEF WholeEvent
<1>6. event = [valid |-> TRUE, OK |-> TRUE, packetList |-> Shorter(list),
               RSSI |-> - At(list, RSSI_POS),
               blePacket |-> BlePacket(From(Shorter(list), BLEPACKET_POS))]
  <2> HIDE DEF short
  <2>1. good = TRUE
    <3>1. good \in BOOLEAN
      BY DEF good, FlagsOK
    <3> QED BY <1>4, <3>1
  <2> QED BY <1>2, <1>4, <2>1
<1> QED BY <1>4, <1>5, <1>6 DEF good

\* The length field of a valid packet counts its bytes.
LEMMA ValidHasLength ==
  ASSUME NEW list \in Seq(Byte), Packet(list).valid
  PROVE  PayloadLength(Packet(list).packetList) + HEADER_LENGTH = Len(Packet(list).packetList)
<1> DEFINE protover == At(list, PROTOVER_POS)
           length == PayloadLength(list)
           event == ReadEvent(list, protover, length)
           bad == \/ Len(list) <= ID_POS
                  \/ protover \notin {1, 2}
                  \/ length + HEADER_LENGTH # Len(list)
                  \/ At(list, ID_POS) \notin
                       {EVENT_PACKET, PING_RESP, SWITCH_BAUD_RATE_REQ, SWITCH_BAUD_RATE_RESP}
           short == \/ Len(list) <= PADDING_POS
                    \/ At(list, BLE_HEADER_LEN_POS) # BLE_HEADER_LENGTH
           other == [valid |-> TRUE, OK |-> FALSE, packetList |-> list, RSSI |-> Unset,
                     blePacket |-> Unset]
<1>1. Packet(list) = IF bad THEN Invalid
                     ELSE IF At(list, ID_POS) = EVENT_PACKET THEN event ELSE other
  BY DEF Packet
<1>2. other.packetList = list /\ BrokenOff(list).packetList = list /\ ~ Invalid.valid
  BY DEF BrokenOff, Invalid
<1>3. event.packetList = IF short THEN list ELSE Shorter(list)
  BY <1>2 DEF ReadEvent, Shorter
<1> HIDE DEF event, other
<1>4. ~ bad
  <2> HIDE DEF bad
  <2> QED BY <1>1, <1>2
<1>5. length + HEADER_LENGTH = Len(list)
  BY <1>4
<1>6. ~ short => WholeEvent(list)
  <2>1. Len(list) \in Nat /\ PADDING_POS \in Nat
    BY DEF PADDING_POS, BLEPACKET_POS
  <2> QED BY <1>4, <2>1 DEF WholeEvent
<1>7. Packet(list).packetList = list \/ (Packet(list).packetList = Shorter(list) /\ WholeEvent(list))
  <2> HIDE DEF bad, short
  <2> QED BY <1>1, <1>2, <1>3, <1>4, <1>6
<1>8. WholeEvent(list) => PayloadLength(Shorter(list)) + HEADER_LENGTH = Len(Shorter(list))
  BY ShorterIsRight
<1> HIDE DEF bad, short
<1> QED BY <1>5, <1>7, <1>8

-----------------------------------------------------------------------------
\* What every property follows from: the packet is the one made of the list.
PacketInv ==
  /\ input \in Inputs
  /\ packet \in {Unset, Packet(input.list)}

\* PacketInv is inductive.
LEMMA PacketInvariant == ParseSpec => []PacketInv
<1>1. ParseInit => PacketInv
  BY DEF ParseInit, PacketInv
<1>2. PacketInv /\ [Parse]_parseVars => PacketInv'
  BY DEF PacketInv, Parse, parseVars
<1> QED BY <1>1, <1>2, PTL DEF ParseSpec

\* What is known of an input whose packet is OK.
LEMMA InputIsWhole ==
  ASSUME NEW parts \in Inputs, Packet(parts.list).OK
  PROVE  /\ parts.list \in Seq(Byte) /\ WholeEvent(parts.list)
         /\ parts.onAir \in Seq(Byte) /\ Len(parts.onAir) >= 6
         /\ From(Shorter(parts.list), BLEPACKET_POS) = parts.onAir
         /\ parts.structures \in Seq(Seq(Byte)) /\ parts.tail \in Seq(Byte)
         /\ Laid(parts.onAir, parts.structures, parts.tail)
         /\ parts.crcOK /\ (parts.encrypted => parts.micOK)
<1>1. /\ parts.list \in Seq(Byte) /\ parts.onAir \in Seq(Byte)
      /\ parts.structures \in Seq(Seq(Byte)) /\ parts.tail \in Seq(Byte)
      /\ {parts.crcOK, parts.encrypted, parts.micOK} \subseteq BOOLEAN
      /\ \A k \in DOMAIN parts.structures : Structure(parts.structures[k])
      /\ EndsStructures(parts.tail)
      /\ Len(parts.list) > PADDING_POS =>
           /\ HasFlags(parts.list, parts)
           /\ parts.onAir = Slice(parts.list, BLEPACKET_POS, PADDING_POS)
                              \o From(parts.list, PADDING_POS + 1)
           /\ From(parts.onAir, 12) = FlattenSeq(parts.structures) \o parts.tail
  BY InputsAssumption, Zenon
<1>2. WholeEvent(parts.list) /\ FlagsOK(At(parts.list, FLAGS_POS))
  BY <1>1, OKIsWhole
<1>3. Len(parts.list) > PADDING_POS
  BY <1>2 DEF WholeEvent
<1>4. From(Shorter(parts.list), BLEPACKET_POS) = parts.onAir /\ Len(parts.onAir) >= 6
  BY <1>1, <1>2, <1>3, AirComesBack, Zenon
<1>5. Laid(parts.onAir, parts.structures, parts.tail)
  BY <1>1, <1>3, Zenon DEF Laid
<1>6. parts.crcOK /\ (parts.encrypted => parts.micOK)
  BY <1>1, <1>2, <1>3, FlagsAreRead, Zenon
<1> QED BY <1>1, <1>2, <1>4, <1>5, <1>6, Zenon

\* For every list of bytes that the board can send, the list that is handed on
\* counts its own bytes and holds the packet that was on air, without the padding that
\* readPayload removes, in both versions of the protocol.
THEOREM PaddingGoesAway == ParseSpec => []PaddingIsGone
<1>1. PacketInv => PaddingIsGone
  <2> SUFFICES ASSUME PacketInv, Parsed PROVE PaddingIsGone
    BY DEF PaddingIsGone
  <2>1. input \in Inputs /\ packet = Packet(input.list)
    BY DEF PacketInv, Parsed
  <2>2. input.list \in Seq(Byte)
    BY <2>1, InputsAssumption
  <2>3. packet.valid => PayloadLength(packet.packetList) + HEADER_LENGTH = Len(packet.packetList)
    BY <2>1, <2>2, ValidHasLength
  <2>4. ASSUME packet.OK PROVE From(packet.packetList, BLEPACKET_POS) = input.onAir
    <3>1. Packet(input.list).OK
      BY <2>1, <2>4
    <3>2. packet.packetList = Shorter(input.list)
      BY <2>1, <2>2, <3>1, OKIsWhole
    <3> QED BY <2>1, <3>1, <3>2, InputIsWhole
  <2> QED BY <2>3, <2>4 DEF PaddingIsGone
<1> QED BY <1>1, PacketInvariant, PTL

\* Whatever arrives, a packet that Packet.__init__ calls OK has its RSSI and a BLE
\* packet with every attribute, and passed its CRC and, if it was encrypted, its MIC: no
\* index error can leave one half-made.
THEOREM OKMeansComplete == ParseSpec => []OKIsComplete
<1>1. PacketInv => OKIsComplete
  <2> SUFFICES ASSUME PacketInv, Parsed, packet.OK PROVE OKIsComplete
    BY DEF OKIsComplete
  <2>1. input \in Inputs /\ packet = Packet(input.list)
    BY DEF PacketInv, Parsed
  <2>2. Packet(input.list).OK
    BY <2>1
  <2>3. /\ input.list \in Seq(Byte) /\ WholeEvent(input.list)
        /\ input.onAir \in Seq(Byte) /\ Len(input.onAir) >= 6
        /\ From(Shorter(input.list), BLEPACKET_POS) = input.onAir
        /\ input.structures \in Seq(Seq(Byte)) /\ input.tail \in Seq(Byte)
        /\ Laid(input.onAir, input.structures, input.tail)
        /\ input.crcOK /\ (input.encrypted => input.micOK)
    BY <2>1, <2>2, InputIsWhole
  <2>4. packet = [valid |-> TRUE, OK |-> TRUE, packetList |-> Shorter(input.list),
                  RSSI |-> - At(input.list, RSSI_POS), blePacket |-> BlePacket(input.onAir)]
    BY <2>1, <2>2, <2>3, OKIsWhole
  <2>5. BlePacket(input.onAir) \in BlePackets
    BY <2>3, BlePacketIsTyped
  <2>6. - At(input.list, RSSI_POS) \in -255 .. 0
    <3> DEFINE list == input.list
    <3>1. Len(list) \in Nat /\ Len(list) > 22
      BY <2>3 DEF WholeEvent, PADDING_POS, BLEPACKET_POS
    <3>2. list[10] \in Byte
      <4>1. 10 \in 1 .. Len(list)
        BY <3>1
      <4> QED BY <2>3, <4>1
    <3>3. At(list, RSSI_POS) = list[10]
      BY DEF At, RSSI_POS
    <3> HIDE DEF list
    <3>4. \A b \in Byte : - b \in -255 .. 0
      BY DEF Byte
    <3> QED BY <3>2, <3>3, <3>4 DEF list
  <2> QED BY <2>3, <2>4, <2>5, <2>6 DEF OKIsComplete
<1> QED BY <1>1, PacketInvariant, PTL

\* For any number of advertising structures of any lengths, followed by anything that
\* ends them, the name that extractName finds is the last one among them.
THEOREM NamesAreFound == ParseSpec => []NameIsFound
<1>1. PacketInv => NameIsFound
  <2> SUFFICES ASSUME PacketInv, Parsed, packet.OK, packet.blePacket.advType \in HasAdvData
               PROVE  packet.blePacket.name = NameIn(input.structures)
    BY DEF NameIsFound
  <2>1. input \in Inputs /\ packet = Packet(input.list)
    BY DEF PacketInv, Parsed
  <2>2. Packet(input.list).OK
    BY <2>1
  <2> DEFINE ble == input.onAir
             t == At(ble, 4) % 16
  <2>3. /\ input.list \in Seq(Byte) /\ ble \in Seq(Byte)
        /\ From(Shorter(input.list), BLEPACKET_POS) = ble
        /\ input.structures \in Seq(Seq(Byte)) /\ input.tail \in Seq(Byte)
        /\ Laid(ble, input.structures, input.tail)
    BY <2>1, <2>2, InputIsWhole
  <2>4. packet.blePacket = BlePacket(ble)
    BY <2>1, <2>2, <2>3, OKIsWhole
  <2>5. BlePacket(ble).advType = t /\ BlePacket(ble).name = extractName(ble)
    <3> DEFINE advertising == Slice(ble, 0, 4) = ADV_ACCESS_ADDRESS
    <3>1. /\ BlePacket(ble).advType = IF advertising THEN t ELSE Unset
          /\ BlePacket(ble).name = IF advertising THEN extractName(ble) ELSE Unset
      BY DEF BlePacket
    <3>2. Unset \notin HasAdvData
      <4>1. HasAdvData \subseteq Int
        BY DEF HasAdvData
      <4> QED BY <4>1, InputsAssumption
    <3>3. advertising
      <4> HIDE DEF advertising, t, ble
      <4> QED BY <2>4, <3>1, <3>2
    <3> QED BY <3>1, <3>3
  <2>6. t \in HasAdvData
    BY <2>4, <2>5
  <2> QED BY <2>3, <2>4, <2>5, <2>6, NameIsInStructures
<1> QED BY <1>1, PacketInvariant, PTL
=============================================================================
