------------------------- MODULE QueueAndCopyProofs -------------------------
(***************************************************************************)
(* The two parts of a node that have modules of their own.                 *)
(*                                                                         *)
(* SendQueue: the queue keeps its promises for every size of the bit map   *)
(* and every set of registers without a multiple of 8.                     *)
(*                                                                         *)
(* RegisterCopy: for every width of the revision, as long as a listener    *)
(* and the messages it hears stay within half the window of the owner, it  *)
(* is never locked out and never goes back, and its drops are losses.      *)
(***************************************************************************)
EXTENDS SendQueue, RegisterCopy, MeshNodeProofs

\* The registers whose push sets a bit.
Representable == \A r \in Pushed : r % 8 # 0

\* NobodyOvertakesTwice does not carry itself: why has x not been popped
\* before?  Because a register popped while r waits is farther ahead of the
\* scan than r from then on.
OvertakenIsFarther ==
  \A r \in waiting : \A x \in Pushed :
    overtaken[r][x] > 0 => ScanDistance(queue, r - 1) < ScanDistance(queue, x - 1)

FreshWhenNotWaiting == \A r \in Pushed \ waiting : overtaken[r] = Nobody

QueueInv ==
  /\ TypeOK
  /\ QueueHoldsWaiting
  /\ NobodyOvertakesTwice
  /\ OvertakenIsFarther
  /\ FreshWhenNotWaiting

\* The bits of a queue that holds only representable registers.
LEMMA BitsAreRegisters ==
  ASSUME QueueInv, Representable
  PROVE  /\ queue.data \subseteq Bits
         /\ \A i \in queue.data : i + 1 \in waiting
         /\ \A r \in waiting : r - 1 \in queue.data
         /\ \A r \in Pushed : r \in Nat /\ 0 < r /\ r < QUEUE_BITS
<1>1. \A r \in Pushed : r \in Nat /\ 0 < r /\ r < QUEUE_BITS
  <2> TAKE r \in Pushed
  <2>1. r \in Nat /\ r < QUEUE_BITS /\ r % 8 # 0
    BY PushedAssumption, QueueAssumption DEF Representable, RegisterNumbers
  <2> QED BY <2>1
<1>2. queue.data \subseteq Bits
  BY DEF QueueInv, TypeOK, Queue
<1>3. \A i \in Bits : (i + 1) % QUEUE_BITS = IF i = QUEUE_BITS - 1 THEN 0 ELSE i + 1
  <2> TAKE i \in Bits
  <2>1. CASE i = QUEUE_BITS - 1
    BY <2>1, QueueAssumption DEF Bits
  <2>2. CASE i # QUEUE_BITS - 1
    BY <2>2, QueueAssumption DEF Bits
  <2> QED BY <2>1, <2>2
<1>4. waiting \subseteq Pushed /\ waiting = {(i + 1) % QUEUE_BITS : i \in queue.data}
  BY DEF QueueInv, TypeOK, QueueHoldsWaiting, Queued
<1>5. \A i \in queue.data : i + 1 \in waiting
  <2> TAKE i \in queue.data
  <2>1. (i + 1) % QUEUE_BITS \in waiting
    BY <1>4
  <2>2. (i + 1) % QUEUE_BITS # 0
    BY <1>1, <1>4, <2>1
  <2>3. i \in Bits
    BY <1>2
  <2> QED BY <1>3, <2>1, <2>2, <2>3
<1>6. \A r \in waiting : r - 1 \in queue.data
  <2> TAKE r \in waiting
  <2>1. PICK i \in queue.data : r = (i + 1) % QUEUE_BITS
    BY <1>4
  <2>2. i \in Bits /\ r = i + 1
    BY <1>1, <1>2, <1>3, <1>4, <2>1
  <2> QED BY <2>1, <2>2 DEF Bits
<1> QED BY <1>1, <1>2, <1>5, <1>6

LEMMA InitQueueInv == Init => QueueInv
<1> SUFFICES ASSUME Init PROVE QueueInv
  OBVIOUS
<1>1. EmptyQueue \in Queue /\ Queued(EmptyQueue) = {}
  BY QueueAssumption DEF EmptyQueue, Queue, Queued, Bits
<1>2. TypeOK /\ QueueHoldsWaiting
  BY <1>1 DEF Init, TypeOK, QueueHoldsWaiting, Nobody
<1>3. waiting = {} /\ FreshWhenNotWaiting
  BY DEF Init, FreshWhenNotWaiting
<1> QED BY <1>2, <1>3 DEF QueueInv, NobodyOvertakesTwice, OvertakenIsFarther

LEMMA PushKeepsQueueInv ==
  ASSUME QueueInv, Representable, NEW r \in Pushed, Push(r)
  PROVE  QueueInv'
<1>0. /\ queue' = q_push(queue, r) /\ waiting' = waiting \union {r}
      /\ overtaken' = overtaken /\ queue \in Queue /\ r \in RegisterNumbers
  BY PushedAssumption DEF Push, QueueInv, TypeOK
<1>1. queue' \in Queue /\ Queued(queue') = Queued(queue) \union {r}
  BY <1>0, PushAddsQueued DEF Representable
<1>2. queue'.ptr = queue.ptr
  BY <1>0 DEF q_push, Queue
<1>3. TypeOK' /\ QueueHoldsWaiting'
  BY <1>0, <1>1 DEF QueueInv, TypeOK, QueueHoldsWaiting
<1>4. \A i : ScanDistance(queue, i)' = ScanDistance(queue, i)
  BY <1>2 DEF ScanDistance
<1>5. r \notin waiting => \A x \in Pushed : overtaken[r][x] = 0
  BY DEF QueueInv, FreshWhenNotWaiting, Nobody
<1>6. NobodyOvertakesTwice'
  BY <1>0, <1>5 DEF QueueInv, NobodyOvertakesTwice
<1>7. OvertakenIsFarther'
  BY <1>0, <1>4, <1>5 DEF QueueInv, OvertakenIsFarther, ScanDistance
<1>8. FreshWhenNotWaiting'
  BY <1>0 DEF QueueInv, FreshWhenNotWaiting
<1> QED BY <1>3, <1>6, <1>7, <1>8 DEF QueueInv

\* A pop advances the scan past the nearest register; the order in which the
\* scan meets the others stays what it was, except that the popped one is
\* last now.
LEMMA PopKeepsQueueInv ==
  ASSUME QueueInv, Representable, Pop
  PROVE  QueueInv'
<1> DEFINE b == NextBit(queue)
           x == b + 1
           D(q, r) == ScanDistance(q, r - 1)
<1>0. queue \in Queue /\ q_has_data(queue) /\ queue' = q_pop(queue)
  BY DEF Pop, QueueInv, TypeOK
<1>1. b \in queue.data /\ b \in Bits /\ b + 1 \in waiting
  BY <1>0, NextBitIsSet, BitsAreRegisters
<1>2. \A i \in queue.data : ScanDistance(queue, b) <= ScanDistance(queue, i)
  BY <1>0, NextBitIsSet
<1>3. \A r \in Pushed : r \in Nat /\ 0 < r /\ r < QUEUE_BITS
  BY BitsAreRegisters
<1>4. waiting \subseteq Pushed
  BY DEF QueueInv, TypeOK
<1> HIDE DEF b
<1>5. x \in Nat /\ x < QUEUE_BITS /\ (b + 1) % QUEUE_BITS = x
  <2>1. b + 1 \in Nat /\ b + 1 < QUEUE_BITS
    BY <1>1, <1>3, <1>4
  <2> QED BY <2>1, QueueAssumption
<1>6. queue' = [data |-> queue.data \ {b}, ptr |-> x]
  BY <1>0, <1>5 DEF q_pop, b
<1>7. queue'.ptr = x /\ queue.ptr \in Bits
  BY <1>0, <1>6 DEF Queue
<1>8. queue' \in Queue /\ Queued(queue') = Queued(queue) \ {x}
  BY <1>0, <1>7, PopTakesQueued
<1> HIDE DEF x
<1>9. /\ waiting' = waiting \ {x}
      /\ overtaken' = [r \in Pushed |-> IF r \in waiting'
                                       THEN [overtaken[r] EXCEPT ![x] = @ + 1]
                                       ELSE Nobody]
  BY <1>7 DEF Pop
<1>10. TypeOK' /\ QueueHoldsWaiting'
  <2>1. overtaken \in [Pushed -> [Pushed -> Nat]] /\ Nobody \in [Pushed -> Nat]
    BY DEF QueueInv, TypeOK, Nobody
  <2>2. \A r \in Pushed : [overtaken[r] EXCEPT ![x] = @ + 1] \in [Pushed -> Nat]
    <3>1. x \in Pushed
      BY <1>1, <1>4 DEF x
    <3>2. ASSUME NEW f \in [Pushed -> Nat]
          PROVE  [f EXCEPT ![x] = @ + 1] \in [Pushed -> Nat]
      BY <3>1
    <3> QED BY <2>1, <3>2
  <2>3. overtaken' \in [Pushed -> [Pushed -> Nat]]
    BY <1>9, <2>1, <2>2
  <2> QED BY <1>8, <1>9, <2>3 DEF QueueInv, TypeOK, QueueHoldsWaiting
<1>11. FreshWhenNotWaiting'
  BY <1>9 DEF FreshWhenNotWaiting
\* r is met after x, so nothing popped while r waited is met before x.
<1>12. ASSUME NEW r \in waiting'
       PROVE  /\ r \in waiting /\ r # x /\ r \in Pushed
              /\ D(queue, x) < D(queue, r)
  <2>1. r \in waiting /\ r # x /\ r \in Pushed
    BY <1>4, <1>9
  <2>2. r - 1 \in queue.data
    BY <2>1, BitsAreRegisters
  <2>3. D(queue, x) <= D(queue, r)
    <3>1. x - 1 = b
      BY <1>1 DEF x, Bits
    <3> QED BY <1>2, <2>2, <3>1
  <2>4. r \in Nat /\ 0 < r /\ r < QUEUE_BITS /\ x \in Nat /\ 0 < x /\ x < QUEUE_BITS
    BY <1>1, <1>3, <1>4, <1>5, <2>1 DEF x
  <2> QED BY <1>7, <2>1, <2>3, <2>4, QueueAssumption DEF ScanDistance, Bits
<1>13. ASSUME NEW r \in waiting', NEW y \in Pushed, overtaken[r][y] > 0
       PROVE  /\ y # x
              /\ D(queue, r) < D(queue, y)
  <2>1. D(queue, r) < D(queue, y)
    BY <1>12, <1>13 DEF QueueInv, OvertakenIsFarther
  <2>2. D(queue, x) < D(queue, r)
    BY <1>12
  <2>3. D(queue, x) \in Int /\ D(queue, r) \in Int
    BY <1>1, <1>3, <1>4, <1>5, <1>7, <1>12, QueueAssumption DEF ScanDistance, Bits
  <2> QED BY <2>1, <2>2, <2>3
<1>14. \A r \in waiting' : \A y \in Pushed :
         overtaken'[r][y] = IF y = x THEN overtaken[r][y] + 1 ELSE overtaken[r][y]
  BY <1>4, <1>9, <1>12 DEF QueueInv, TypeOK
<1>15. \A r \in waiting', y \in Pushed : overtaken[r][y] \in Nat
  BY <1>12 DEF QueueInv, TypeOK
<1>16. NobodyOvertakesTwice'
  <2> SUFFICES ASSUME NEW r \in waiting', NEW y \in Pushed
               PROVE  overtaken'[r][y] <= 1
    BY DEF NobodyOvertakesTwice
  <2>1. CASE y = x
    <3>1. overtaken[r][y] = 0
      BY <1>13, <1>15, <2>1
    <3> QED BY <1>14, <2>1, <3>1
  <2>2. CASE y # x
    BY <1>12, <1>14, <2>2 DEF QueueInv, NobodyOvertakesTwice
  <2> QED BY <2>1, <2>2
<1>17. OvertakenIsFarther'
  <2> SUFFICES ASSUME NEW r \in waiting', NEW y \in Pushed, overtaken'[r][y] > 0
               PROVE  D(queue', r) < D(queue', y)
    BY DEF OvertakenIsFarther, ScanDistance
  <2>1. /\ r \in Nat /\ 0 < r /\ r < QUEUE_BITS /\ y \in Nat /\ 0 < y /\ y < QUEUE_BITS
        /\ x \in Nat /\ 0 < x /\ r # x
    BY <1>1, <1>3, <1>4, <1>12 DEF x
  <2>2. D(queue, x) < D(queue, r)
    BY <1>12
  <2>3. CASE y = x
    BY <1>5, <1>7, <2>1, <2>3, QueueAssumption DEF ScanDistance, Bits
  <2>4. CASE y # x
    <3>1. D(queue, r) < D(queue, y)
      BY <1>13, <1>14, <2>4
    <3> QED BY <1>5, <1>7, <2>1, <2>2, <3>1, QueueAssumption DEF ScanDistance, Bits
  <2> QED BY <2>3, <2>4
<1> QED BY <1>10, <1>11, <1>16, <1>17 DEF QueueInv

LEMMA StepKeepsQueueInv ==
  ASSUME QueueInv, Representable, [Next]_vars
  PROVE  QueueInv'
<1>1. CASE UNCHANGED vars
  BY <1>1 DEF vars, QueueInv, TypeOK, QueueHoldsWaiting, NobodyOvertakesTwice,
              OvertakenIsFarther, FreshWhenNotWaiting, ScanDistance
<1>2. CASE \E r \in Pushed : Push(r)
  BY <1>2, PushKeepsQueueInv
<1>3. CASE Pop
  BY <1>3, PopKeepsQueueInv
<1> QED BY <1>1, <1>2, <1>3 DEF Next

\* The bit map holds exactly the registers that wait.
THEOREM QueueIsExact ==
  ASSUME Representable
  PROVE  Spec => []QueueHoldsWaiting
<1>1. Init => QueueInv
  BY InitQueueInv
<1>2. QueueInv /\ [Next]_vars => QueueInv'
  BY StepKeepsQueueInv
<1>3. QueueInv => QueueHoldsWaiting
  BY DEF QueueInv
<1> QED BY <1>1, <1>2, <1>3, PTL DEF Spec

\* The bypass bound of the cyclic scan: between a push and its pop no other
\* register is popped twice.
THEOREM RoundRobin ==
  ASSUME Representable
  PROVE  Spec => []NobodyOvertakesTwice
<1>1. Init => QueueInv
  BY InitQueueInv
<1>2. QueueInv /\ [Next]_vars => QueueInv'
  BY StepKeepsQueueInv
<1>3. QueueInv => NobodyOvertakesTwice
  BY DEF QueueInv
<1> QED BY <1>1, <1>2, <1>3, PTL DEF Spec

\* Every step of the bit map is a step of the set of pending registers, or
\* changes nothing of it.
THEOREM RefinesPendingSet ==
  ASSUME Representable
  PROVE  Spec => Abstract!Safety
<1>1. Init => QueueInv
  BY InitQueueInv
<1>2. QueueInv /\ [Next]_vars => QueueInv'
  BY StepKeepsQueueInv
<1>3. Init => Abstract!Init
  BY DEF Init, Abstract!Init, EmptyQueue, Queued
<1>4. QueueInv /\ [Next]_vars => [Abstract!Next]_(Queued(queue))
  <2> SUFFICES ASSUME QueueInv, [Next]_vars
               PROVE  [Abstract!Next]_(Queued(queue))
    OBVIOUS
  <2>1. queue \in Queue /\ Queued(queue) = waiting /\ waiting \subseteq Pushed
    BY DEF QueueInv, TypeOK, QueueHoldsWaiting
  <2>2. ASSUME NEW r \in Pushed, Push(r)
        PROVE  Abstract!Push(r)
    BY <2>1, <2>2, PushAddsQueued, PushedAssumption DEF Push, Representable, Abstract!Push
  <2>3. ASSUME Pop
        PROVE  \E r \in Pushed : Abstract!Pop(r)
    <3>1. /\ queue'.ptr \in Queued(queue)
          /\ Queued(queue') = Queued(queue) \ {queue'.ptr}
      BY <2>1, <2>3, PopTakesQueued DEF Pop
    <3>2. Abstract!Pop(queue'.ptr)
      BY <3>1 DEF Abstract!Pop
    <3> QED BY <2>1, <3>1, <3>2
  <2>4. CASE UNCHANGED vars
    BY <2>4 DEF vars, Queued
  <2> QED BY <2>2, <2>3, <2>4 DEF Next, Abstract!Next
<1> QED BY <1>1, <1>2, <1>3, <1>4, PTL DEF Spec, Abstract!Safety
-----------------------------------------------------------------------------
\* The environment the theorems are about: losses and delays stay within half
\* the window (126 writes in the code).
WithinWindow ==
  /\ MaxLag < HALF_REVISION
  /\ \A age \in Ages : age < HALF_REVISION

CopyInv ==
  /\ CopyTypeOK
  /\ written - held < HALF_REVISION

LEMMA HalfIsPositive == HALF_REVISION \in Nat /\ HALF_REVISION >= 1
BY RevisionAssumption DEF HALF_REVISION

LEMMA InitCopyInv == CopyInit => CopyInv
<1> SUFFICES ASSUME CopyInit PROVE CopyInv
  OBVIOUS
<1>1. 0 \in 0 .. COUNT_MOD - 1
  BY CounterAssumption
<1>2. CopyTypeOK
  <2>1. known \in BOOLEAN
    BY DEF CopyInit
  <2>2. written \in Nat /\ held \in 0 .. written
    BY DEF CopyInit
  <2>3. drops \in 0 .. COUNT_MOD - 1 /\ recv_count \in 0 .. COUNT_MOD - 1
    BY <1>1 DEF CopyInit
  <2> QED BY <2>1, <2>2, <2>3 DEF CopyTypeOK
<1>3. written - held < HALF_REVISION
  BY HalfIsPositive DEF CopyInit
<1> QED BY <1>2, <1>3 DEF CopyInv

\* What is heard is no farther behind the owner than half the window.
LEMMA AudibleIsNear ==
  ASSUME WithinWindow, CopyTypeOK, NEW k \in Audible
  PROVE  k \in 0 .. written /\ written - k < HALF_REVISION
BY CopyAssumption DEF WithinWindow, CopyTypeOK, Audible

LEMMA StepCopyInv ==
  ASSUME WithinWindow, CopyInv, [CopyNext]_copyVars
  PROVE  CopyInv'
<1>0. /\ written \in Nat /\ held \in 0 .. written /\ HALF_REVISION \in Nat
      /\ \A c \in 0 .. COUNT_MOD - 1 : (c + 1) % COUNT_MOD \in 0 .. COUNT_MOD - 1
  BY HalfIsPositive, CounterAssumption DEF CopyInv, CopyTypeOK
<1>1. CASE Write
  BY <1>0, <1>1, CopyAssumption DEF Write, CopyInv, CopyTypeOK, WithinWindow
<1>2. ASSUME NEW k \in Audible, Receive(k)
      PROVE  CopyInv'
  <2>1. k \in 0 .. written /\ written - k < HALF_REVISION
    BY AudibleIsNear DEF CopyInv
  <2>2. drops' \in 0 .. COUNT_MOD - 1 /\ recv_count' \in 0 .. COUNT_MOD - 1
    BY <1>0, <1>2 DEF Receive, CopyInv, CopyTypeOK
  <2> QED BY <1>0, <1>2, <2>1, <2>2 DEF Receive, CopyInv, CopyTypeOK
<1>3. CASE Ask
  BY <1>3 DEF Ask, CopyInv, CopyTypeOK
<1>4. CASE UNCHANGED copyVars
  BY <1>4 DEF copyVars, CopyInv, CopyTypeOK
<1> QED BY <1>1, <1>2, <1>3, <1>4 DEF CopyNext

\* A listener behind by less than half the window is never locked out.
THEOREM ListenerNotLockedOut ==
  ASSUME WithinWindow
  PROVE  CopySpec => []NeverLockedOut
<1>1. CopyInit => CopyInv
  BY InitCopyInv
<1>2. CopyInv /\ [CopyNext]_copyVars => CopyInv'
  BY StepCopyInv
<1>3. CopyInv => NeverLockedOut
  <2> SUFFICES ASSUME CopyInv, held < written
               PROVE  LooksNewer(written)
    BY DEF NeverLockedOut
  <2>1. held \in Nat /\ written \in Nat /\ written - held < HALF_REVISION
    BY DEF CopyInv, CopyTypeOK
  <2> QED BY <2>1, ComparisonIsRight DEF LooksNewer
<1> QED BY <1>1, <1>2, <1>3, PTL DEF CopySpec

\* What a listener with a known copy takes is no older than that copy.
LEMMA TakenIsLater ==
  ASSUME WithinWindow, CopyInv, known, NEW k \in Audible, Receive(k)
  PROVE  k \in Nat /\ held <= k /\ k - held < HALF_REVISION
<1>0. held \in Nat /\ written \in Nat /\ held <= written /\ written - held < HALF_REVISION
  BY DEF CopyInv, CopyTypeOK
<1>1. k \in Nat /\ k <= written /\ written - k < HALF_REVISION
  BY AudibleIsNear, <1>0 DEF CopyInv
<1>2. held - k < HALF_REVISION /\ k - held < HALF_REVISION
  BY <1>0, <1>1, HalfIsPositive
<1>3. LooksNewer(k)
  BY DEF Receive
<1>4. ~ (k < held)
  BY <1>0, <1>1, <1>2, <1>3, ComparisonIsRight DEF LooksNewer
<1> QED BY <1>0, <1>1, <1>2, <1>4

\* A known copy is never replaced by an older write.
THEOREM ListenerNeverGoesBack ==
  ASSUME WithinWindow
  PROVE  CopySpec => NeverOlder
<1>1. CopyInit => CopyInv
  BY InitCopyInv
<1>2. CopyInv /\ [CopyNext]_copyVars => CopyInv'
  BY StepCopyInv
<1>3. CopyInv /\ [CopyNext]_copyVars => [known => held' >= held]_copyVars
  <2> SUFFICES ASSUME CopyInv, [CopyNext]_copyVars, known
               PROVE  held' >= held
    OBVIOUS
  <2>0. held \in Nat
    BY DEF CopyInv, CopyTypeOK
  <2>1. ASSUME NEW k \in Audible, Receive(k)
        PROVE  held' >= held
    <3>1. k \in Nat /\ held <= k /\ held' = k
      BY <2>1, TakenIsLater DEF Receive
    <3> QED BY <2>0, <3>1
  <2>2. CASE Write \/ Ask \/ UNCHANGED copyVars
    <3>1. held' = held
      BY <2>2 DEF Write, Ask, copyVars
    <3> QED BY <2>0, <3>1
  <2> QED BY <2>1, <2>2 DEF CopyNext
<1> QED BY <1>1, <1>2, <1>3, PTL DEF CopySpec, NeverOlder

\* Of two writes at most half the window apart, the revisions say by how much
\* the later one is ahead, unless the revision wraps between them: then the
\* difference is negative.
LEMMA DifferenceOfNear ==
  ASSUME NEW k \in Nat, NEW j \in Nat, j <= k, k - j < HALF_REVISION
  PROVE  /\ RevisionOf(k) - RevisionOf(j) > 1 => k > j + 1
         /\ RevisionOf(k) > RevisionOf(j) => RevisionOf(k) - RevisionOf(j) = k - j
<1> DEFINE M == MAX_REVISION + 1
<1>1. M \in Nat /\ M > 0 /\ k - j < M
  BY HalfIsPositive, RevisionAssumption DEF HALF_REVISION
<1>2. RevisionOf(k) = k % M /\ RevisionOf(j) = j % M
  BY DEF RevisionOf
<1> HIDE DEF M
<1>3. k % M \in Int /\ j % M \in Int
  BY <1>1
<1>4. (k % M) - (j % M) = k - j \/ (k % M) - (j % M) = k - j - M
  BY <1>1, RemaindersOfNear
<1> QED BY <1>1, <1>2, <1>3, <1>4

\* drops counts what was missed and, but for a wrap, all of it.
THEOREM DropsAreLosses ==
  ASSUME WithinWindow, COUNT_MOD > 1
  PROVE  CopySpec => DropsCountLosses
<1> DEFINE Counted == drops' # drops => held' > held + 1
           Missed == known /\ held' > held + 1 /\ RevisionOf(held') > RevisionOf(held)
                       => drops' # drops
<1>1. CopyInit => CopyInv
  BY InitCopyInv
<1>2. CopyInv /\ [CopyNext]_copyVars => CopyInv'
  BY StepCopyInv
<1>3. CopyInv /\ [CopyNext]_copyVars => [Counted /\ Missed]_copyVars
  <2> SUFFICES ASSUME CopyInv, [CopyNext]_copyVars
               PROVE  Counted /\ Missed
    OBVIOUS
  <2>0. held \in Nat /\ drops \in 0 .. COUNT_MOD - 1
    BY DEF CopyInv, CopyTypeOK
  <2>1. ASSUME NEW k \in Audible, Receive(k), known
        PROVE  Counted /\ Missed
    <3>1. k \in Nat /\ held <= k /\ k - held < HALF_REVISION /\ held' = k
      BY <2>1, TakenIsLater DEF Receive
    <3>2. /\ RevisionOf(k) - RevisionOf(held) > 1 => k > held + 1
          /\ RevisionOf(k) > RevisionOf(held) => RevisionOf(k) - RevisionOf(held) = k - held
      BY <2>0, <3>1, DifferenceOfNear
    <3>3. CASE RevisionOf(k) - RevisionOf(held) > 1
      <4>1. drops' = (drops + 1) % COUNT_MOD
        BY <2>1, <3>3 DEF Receive, LooksDropped
      <4>2. drops' # drops
        BY <2>0, <4>1, CounterAssumption
      <4> QED BY <3>1, <3>2, <3>3, <4>2
    <3>4. CASE ~ (RevisionOf(k) - RevisionOf(held) > 1)
      <4>1. drops' = drops
        BY <2>1, <3>4 DEF Receive, LooksDropped
      <4>2. RevisionOf(k) > RevisionOf(held) => ~ (k > held + 1)
        BY <2>0, <3>1, <3>2, <3>4
      <4> QED BY <3>1, <4>1, <4>2
    <3> QED BY <3>3, <3>4
  <2>2. ASSUME NEW k \in Audible, Receive(k), ~ known
        PROVE  Counted /\ Missed
    BY <2>2 DEF Receive, LooksDropped
  <2>3. CASE Write \/ Ask \/ UNCHANGED copyVars
    <3>1. held' = held /\ drops' = drops
      BY <2>3 DEF Write, Ask, copyVars
    <3> QED BY <2>0, <3>1
  <2> QED BY <2>1, <2>2, <2>3 DEF CopyNext
<1> QED BY <1>1, <1>2, <1>3, PTL DEF CopySpec, DropsCountLosses
=============================================================================
