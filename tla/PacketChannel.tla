---------------------------- MODULE PacketChannel ----------------------------
(***************************************************************************)
(* What SLIP framing promises over a line on which bytes are lost and      *)
(* reads time out: packets come out in order, each at most once, and whole *)
(* unless a byte of theirs was lost; some are missing.                     *)
(***************************************************************************)
EXTENDS Naturals, Sequences

VARIABLES
  hurt,      \* packets that may come out changed, or not at all
  sent,      \* the packets sent, numbered from 1
  received   \* the packets received, as pairs of a number and a content

vars == <<hurt, sent, received>>

Init == hurt = {} /\ sent = <<>> /\ received = <<>>

Newest == IF received = <<>> THEN 0 ELSE received[Len(received)][1]

Send ==
  /\ sent' # <<>> /\ sent' = Append(sent, sent'[Len(sent')])
  /\ UNCHANGED <<hurt, received>>

Hurt ==
  /\ hurt \subseteq hurt' /\ hurt' \subseteq 1 .. Len(sent)
  /\ UNCHANGED <<sent, received>>

Receive ==
  /\ received' # <<>>
  /\ LET last == received'[Len(received')]
     IN  /\ received' = Append(received, last)
         /\ last[1] \in Newest + 1 .. Len(sent)
         /\ last[1] \notin hurt => last[2] = sent[last[1]]
  /\ UNCHANGED <<hurt, sent>>

Next == Send \/ Hurt \/ Receive

Spec == Init /\ [][Next]_vars
=============================================================================
