----------------------------- MODULE SendQueue ------------------------------
(***************************************************************************)
(* The life of one queue of mesh_data_t: handlers push registers in any    *)
(* order and the mesh timer pops, always after q_has_data, as              *)
(* mesh_assemble_next_message does.                                        *)
(***************************************************************************)
EXTENDS BitQueue

CONSTANT Pushed   \* the registers that are pushed

ASSUME PushedAssumption == Pushed \subseteq RegisterNumbers

VARIABLES
  queue,     \* the queue_t
  waiting,   \* auxiliary: the registers pushed since they were last popped
  overtaken  \* auxiliary: how often x was popped while r was waiting

vars == <<queue, waiting, overtaken>>

Nobody == [x \in Pushed |-> 0]

Init ==
  /\ queue = EmptyQueue
  /\ waiting = {}
  /\ overtaken = [r \in Pushed |-> Nobody]

Push(r) ==
  /\ queue' = q_push(queue, r)
  /\ waiting' = waiting \union {r}
  /\ UNCHANGED overtaken

Pop ==
  /\ q_has_data(queue)
  /\ queue' = q_pop(queue)
  /\ LET x == queue'.ptr IN
       /\ waiting' = waiting \ {x}
       /\ overtaken' = [r \in Pushed |->
                          IF r \in waiting'
                          THEN [overtaken[r] EXCEPT ![x] = @ + 1]
                          ELSE Nobody]

Next == (\E r \in Pushed : Push(r)) \/ Pop

Spec == Init /\ [][Next]_vars

\* The mesh timer keeps popping while there is something to send.
FairSpec == Spec /\ WF_vars(Pop)
-----------------------------------------------------------------------------
\* queue_t, and the registers waiting are among those pushed.
TypeOK ==
  /\ queue \in Queue
  /\ waiting \subseteq Pushed
  /\ overtaken \in [Pushed -> [Pushed -> Nat]]

\* The bit map holds exactly the registers that wait: q_pop returns what
\* q_push was given (it returns the position after the bit it found), nothing
\* is handed out twice for one push and nothing is lost.
QueueHoldsWaiting == Queued(queue) = waiting

\* Round robin: between a push of r and its pop no other register is popped
\* twice, however often it is pushed again.
NobodyOvertakesTwice ==
  \A r \in waiting : \A x \in Pushed : overtaken[r][x] <= 1

\* The queue is an implementation of PendingSet.
Abstract == INSTANCE PendingSet WITH pending <- Queued(queue)

ImplementsPendingSet == Abstract!Spec
=============================================================================
