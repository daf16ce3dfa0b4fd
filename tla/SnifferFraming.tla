--------------------------- MODULE SnifferFraming ---------------------------
(***************************************************************************)
(* SnifferAPI/Packet.py, class PacketReader: packets with a length and a   *)
(* counter, SLIP framing, a decoder that takes one byte at a time and can  *)
(* time out before each, and the history of packet counters.  The board's  *)
(* encoder is taken to be that of the host, encodeToSLIP.                  *)
(*                                                                         *)
(* The header is cut down to the two fields that are used here: the length *)
(* of the payload and the counter.                                         *)
(***************************************************************************)
EXTENDS Naturals, FiniteSets, SequencesExt

CONSTANTS
  Payloads,            \* payloads that are sent
  PACKET_COUNTER_CAP,  \* the counter wraps here (65536 in the code)
  MaxPackets,          \* bound: packets sent
  MaxTimeouts,         \* bound: reads that time out
  MaxLost              \* bound: bytes lost on the line

ASSUME FramingAssumption ==
  /\ Payloads \subseteq Seq(0 .. 255)
  /\ PACKET_COUNTER_CAP \in Nat \ {0}
  /\ {MaxPackets, MaxTimeouts, MaxLost} \subseteq Nat

SLIP_START == 171
SLIP_END == 188
SLIP_ESC == 205
SLIP_ESC_START == SLIP_START + 1
SLIP_ESC_END == SLIP_END + 1
SLIP_ESC_ESC == SLIP_ESC + 1

SHORT_HEADER_LENGTH == 2

VARIABLES
  line,         \* bytes on the serial line: pairs of packet number and byte
  mode,         \* where decodeFromSLIP is
  dataBuffer,   \* what it has decoded
  lastReceivedPacket,   \* number and counter of the last valid packet
  sent,         \* history: the packets sent
  received,     \* history: numbers and contents of the valid packets
  gaps,         \* history: the gaps that were logged, as pairs of numbers
  hurt,         \* history: packets that lost a byte
  abandoned,    \* history: packets inside which a read timed out
  timeouts, lost   \* counters of the faults

framingVars ==
  <<line, mode, dataBuffer, lastReceivedPacket,
    sent, received, gaps, hurt, abandoned, timeouts, lost>>

NoPacket == <<0, 0>>

FramingInit ==
  /\ line = <<>>
  /\ mode = "hunt" /\ dataBuffer = <<>>
  /\ lastReceivedPacket = NoPacket
  /\ sent = <<>> /\ received = <<>> /\ gaps = {} /\ hurt = {} /\ abandoned = {}
  /\ timeouts = 0 /\ lost = 0
-----------------------------------------------------------------------------
\* Fault: END is not escaped.
EscapeSome(byte) ==
  CASE byte = SLIP_START -> <<SLIP_ESC, SLIP_ESC_START>>
    [] byte = SLIP_ESC   -> <<SLIP_ESC, SLIP_ESC_ESC>>
    [] OTHER             -> <<byte>>

EscapeByte(byte) ==
  CASE byte = SLIP_START -> <<SLIP_ESC, SLIP_ESC_START>>
    [] byte = SLIP_END   -> <<SLIP_ESC, SLIP_ESC_END>>
    [] byte = SLIP_ESC   -> <<SLIP_ESC, SLIP_ESC_ESC>>
    [] OTHER             -> <<byte>>

encodeToSLIP(byteList) ==
  <<SLIP_START>>
    \o FlattenSeq([i \in DOMAIN byteList |-> EscapeByte(byteList[i])])
    \o <<SLIP_END>>

\* Payload length and packet counter, which goes up by one with every packet.
Header(payload) == <<Len(payload), Len(sent) % PACKET_COUNTER_CAP>>

sendPacket(payload) ==
  LET packetList == Header(payload) \o payload
      bytes == encodeToSLIP(packetList)
  IN
  /\ Len(sent) < MaxPackets
  /\ sent' = Append(sent, packetList)
  /\ line' = line \o [i \in DOMAIN bytes |-> <<Len(sent) + 1, bytes[i]>>]
  /\ UNCHANGED <<mode, dataBuffer, lastReceivedPacket,
                 received, gaps, hurt, abandoned, timeouts, lost>>
-----------------------------------------------------------------------------
\* validatePacketList; a list without a header raises, which is the same.
Valid(packetList) ==
  Len(packetList) >= SHORT_HEADER_LENGTH /\ packetList[1] + SHORT_HEADER_LENGTH = Len(packetList)

\* Fault: the counters are compared without the wrap.
GapIgnoringWrap(last, counter) ==
  last # NoPacket /\ counter # last[2] + 1 /\ last[2] # 0

Gap(last, counter) ==
  last # NoPacket /\ counter # (last[2] + 1) % PACKET_COUNTER_CAP /\ last[2] # 0

\* getPacket on what was decoded: only a valid packet enters the history.
getPacket(number) ==
  IF Valid(dataBuffer)
    THEN /\ received' = Append(received, <<number, dataBuffer>>)
         /\ lastReceivedPacket' = <<number, dataBuffer[2]>>
         /\ gaps' = IF Gap(lastReceivedPacket, dataBuffer[2])
                      THEN gaps \union {<<lastReceivedPacket[1], number>>}
                      ELSE gaps
    ELSE UNCHANGED <<received, lastReceivedPacket, gaps>>

\* Fault: an escaped END is taken for an ESC.
UnescapedWrongly(byte) ==
  IF byte = SLIP_ESC_START THEN SLIP_START ELSE SLIP_ESC

\* What an escaped byte stands for; an unknown one becomes END.
Unescaped(byte) ==
  CASE byte = SLIP_ESC_START -> SLIP_START
    [] byte = SLIP_ESC_ESC   -> SLIP_ESC
    [] OTHER                 -> SLIP_END

\* One byte in decodeFromSLIP.
Decode(number, byte) ==
  CASE mode = "hunt" ->
         /\ mode' = IF byte = SLIP_START THEN "body" ELSE "hunt"
         /\ dataBuffer' = <<>>
         /\ UNCHANGED <<received, lastReceivedPacket, gaps>>
    [] mode = "escape" ->
         /\ mode' = "body"
         /\ dataBuffer' = Append(dataBuffer, Unescaped(byte))
         /\ UNCHANGED <<received, lastReceivedPacket, gaps>>
    [] mode = "body" /\ byte = SLIP_END ->
         /\ mode' = "hunt"
         /\ UNCHANGED dataBuffer
         /\ getPacket(number)
    [] OTHER ->
         /\ mode' = IF byte = SLIP_ESC THEN "escape" ELSE "body"
         /\ dataBuffer' = IF byte = SLIP_ESC THEN dataBuffer ELSE Append(dataBuffer, byte)
         /\ UNCHANGED <<received, lastReceivedPacket, gaps>>

TakeByte ==
  /\ line # <<>>
  /\ Decode(line[1][1], line[1][2])
  /\ line' = Tail(line)
  /\ UNCHANGED <<sent, hurt, abandoned, timeouts, lost>>

\* SnifferTimeout leaves decodeFromSLIP: what was decoded is dropped.  (START is
\* never escaped into, so the first byte of a packet can be told.)
ReadTimesOut ==
  /\ timeouts < MaxTimeouts
  /\ mode # "hunt"
  /\ mode' = "hunt"
  /\ dataBuffer' = <<>>
  /\ abandoned' = abandoned \union {line[i][1] : i \in {j \in DOMAIN line : j = 1 /\ line[j][2] # SLIP_START}}
  /\ timeouts' = timeouts + 1
  /\ UNCHANGED <<line, lastReceivedPacket, sent, received, gaps, hurt, lost>>

\* A byte is overrun on its way.
LoseByte ==
  /\ lost < MaxLost
  /\ line # <<>>
  /\ line' = Tail(line)
  /\ hurt' = hurt \union {line[1][1]}
  /\ lost' = lost + 1
  /\ UNCHANGED <<mode, dataBuffer, lastReceivedPacket,
                 sent, received, gaps, abandoned, timeouts>>

FramingNext ==
  \/ \E payload \in Payloads : sendPacket(payload)
  \/ TakeByte \/ ReadTimesOut \/ LoseByte

\* The reader is never kept from a byte that is there.
FramingSpec == FramingInit /\ [][FramingNext]_framingVars /\ WF_framingVars(TakeByte)
-----------------------------------------------------------------------------
\* What getPacket returns are packets that were sent, in order and at most once,
\* and whole unless a byte of theirs was lost: the decoder never takes the rest
\* of an abandoned packet, nor a packet that ran into the next, for another one.
Channel == INSTANCE PacketChannel

ImplementsPacketChannel == Channel!Spec

\* A gap is logged only when a packet was missed, or a byte was lost that may have
\* been its counter, however often the counter wraps.
GapIsReal == \A gap \in gaps : gap[2] > gap[1] + 1 \/ lost > 0

\* The decoder finds its way back: of two undamaged packets in a row the
\* second is received, whatever was lost or abandoned before them.
Resync ==
  \A n \in 1 .. MaxPackets :
    n \in DOMAIN sent ~>
      \/ {n - 1, n} \cap (hurt \union abandoned) # {}
      \/ n \in DOMAIN sent /\ \E i \in DOMAIN received : received[i] = <<n, sent[n]>>
=============================================================================
