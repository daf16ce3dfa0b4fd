----------------------------- MODULE ByteStream -----------------------------
(***************************************************************************)
(* What SnifferAPI/UART.py promises to the thread that reads packets: the  *)
(* bytes of the serial line, each once and in order, and as long as the    *)
(* port is being read every one of them in the end.  A read may also       *)
(* return nothing.                                                         *)
(***************************************************************************)
EXTENDS Naturals, Sequences

VARIABLES
  arrived,     \* how many bytes have come in; they are numbered from 1
  delivered,   \* the bytes returned, in the order of the reads
  open         \* whether the port is being read

vars == <<arrived, delivered, open>>

Init == arrived = 0 /\ delivered = <<>> /\ open = TRUE

\* A read under way may still return bytes after Stop.
Arrive == arrived' \in Nat /\ arrived' > arrived /\ UNCHANGED <<delivered, open>>

\* The next byte, while the port is read or from what was left.
DeliverNext ==
  /\ Len(delivered) < arrived
  /\ delivered' = Append(delivered, Len(delivered) + 1)
  /\ UNCHANGED <<arrived, open>>

Stop == open /\ open' = FALSE /\ UNCHANGED <<arrived, delivered>>

Next == Arrive \/ DeliverNext \/ Stop

Spec == Init /\ [][Next]_vars /\ WF_vars(open /\ DeliverNext)
=============================================================================
