---------------------------- MODULE SnifferPacket ----------------------------
(***************************************************************************)
(* SnifferAPI/Packet.py, classes Packet and BlePacket: what is made of one *)
(* decoded list of bytes.  Python's exceptions are modelled by what their  *)
(* handlers leave behind.                                                  *)
(*                                                                         *)
(* Bytes are counted from 0, as in the code.                               *)
(***************************************************************************)
EXTENDS Integers, SequencesExt

CONSTANTS
  Inputs,        \* the lists that are parsed, with what they were made of
  Unset,         \* an attribute that was never set
  NameOfDirect   \* the name given to the sender of ADV_DIRECT_IND

Byte == 0 .. 255

PAYLOAD_LEN_POS_V1 == 1
PROTOVER_POS == 2
ID_POS == 5
BLE_HEADER_LEN_POS == 6
FLAGS_POS == 7
RSSI_POS == 9
BLEPACKET_POS == 16
HEADER_LENGTH == 6
BLE_HEADER_LENGTH == 10
PADDING_POS == BLEPACKET_POS + 6

EVENT_PACKET == 6
PING_RESP == 14
SWITCH_BAUD_RATE_REQ == 19
SWITCH_BAUD_RATE_RESP == 20
ADV_ACCESS_ADDRESS == <<214, 190, 137, 142>>

At(list, pos) == list[pos + 1]
From(list, pos) == SubSeq(list, pos + 1, Len(list))
Slice(list, first, last) == SubSeq(list, first + 1, IF last < Len(list) THEN last ELSE Len(list))

\* Two bytes: the only size that is used for what is modelled here.
parseLittleEndian(list) == list[1] + 256 * list[2]

toLittleEndian(value) == <<value % 256, (value \div 256) % 256>>
-----------------------------------------------------------------------------
\* The advertising types that carry the advertiser's address first, and those
\* that carry data after it.
HasAdvAddress == {0, 1, 2, 4, 6}
HasAdvData == {0, 2, 4, 6}
HasTarget == {3, 5}

extractAdvAddress(ble) ==
  LET advType == At(ble, 4) % 16
      txAdd == (At(ble, 4) \div 64) % 2
  IN  CASE advType \in HasAdvAddress -> Append(Reverse(Slice(ble, 6, 12)), txAdd)
        [] advType \in HasTarget     -> Append(Reverse(Slice(ble, 12, 18)), txAdd)
        [] OTHER                     -> Unset

\* Fault: a structure's length is taken to include its own byte.
NextStructureShort(ble, i) == i + At(ble, i)

NextStructure(ble, i) == i + At(ble, i) + 1

IsName(ble, i) == At(ble, i + 1) \in {8, 9}

NoStructureAt(ble, i) ==
  i >= Len(ble) \/ At(ble, i) = 0 \/ i + At(ble, i) + 1 > Len(ble)

\* The walk over the advertising data: where the last name from i on is, or 0.
lastName(ble) ==
  LET last[i \in Nat] ==
        IF NoStructureAt(ble, i) THEN 0
        ELSE LET later == last[NextStructure(ble, i)]
             IN  IF later = 0 /\ IsName(ble, i) THEN i ELSE later
  IN  last

extractName(ble) ==
  LET i == lastName(ble)[12]
  IN  CASE At(ble, 4) % 16 = 1 -> NameOfDirect
        [] At(ble, 4) % 16 \in HasAdvData /\ i # 0 -> Slice(ble, i + 2, i + At(ble, i) + 1)
        [] OTHER -> <<>>

BlePacket(ble) ==
  LET accessAddress == Slice(ble, 0, 4)
      advertising == accessAddress = ADV_ACCESS_ADDRESS
  IN  [accessAddress |-> accessAddress,
       advType |-> IF advertising THEN At(ble, 4) % 16 ELSE Unset,
       advAddress |-> IF advertising THEN extractAdvAddress(ble) ELSE Unset,
       name |-> IF advertising THEN extractName(ble) ELSE Unset,
       length |-> At(ble, 5),
       payload |-> From(ble, 6)]
-----------------------------------------------------------------------------
\* readFlags.
FlagsOK(flags) ==
  LET crcOK == flags % 2 = 1
      encrypted == (flags \div 4) % 2 = 1
      micOK == (flags \div 8) % 2 = 1
  IN  crcOK /\ (micOK \/ ~ encrypted)

\* Fault: version 1 keeps its length.
WriteLengthOfV2(list, protover, length) ==
  IF protover >= 2 THEN toLittleEndian(length) \o From(list, 2) ELSE list

WriteLength(list, protover, length) ==
  IF protover >= 2 THEN toLittleEndian(length) \o From(list, 2)
  ELSE [list EXCEPT ![PAYLOAD_LEN_POS_V1 + 1] = length]

RemovePadding(list) == RemoveAt(list, PADDING_POS + 1)

Invalid == [valid |-> FALSE, OK |-> FALSE]

\* Fault: a packet that breaks off keeps the verdict of its flags.
BrokenOffOK(list) ==
  [valid |-> TRUE, OK |-> Len(list) > FLAGS_POS /\ FlagsOK(At(list, FLAGS_POS)),
   packetList |-> list, RSSI |-> Unset, blePacket |-> Unset]

\* An event packet that ends inside its header: reading raised, OK was reset.
BrokenOff(list) ==
  [valid |-> TRUE, OK |-> FALSE, packetList |-> list, blePacket |-> Unset,
   RSSI |-> IF Len(list) > RSSI_POS /\ At(list, BLE_HEADER_LEN_POS) = BLE_HEADER_LENGTH
              THEN - At(list, RSSI_POS) ELSE Unset]

\* readPayload for EVENT_PACKET.
ReadEvent(list, protover, payloadLength) ==
  IF \/ Len(list) <= PADDING_POS
     \/ At(list, BLE_HEADER_LEN_POS) # BLE_HEADER_LENGTH
  THEN BrokenOff(list)
  ELSE
    LET ok == FlagsOK(At(list, FLAGS_POS))
        shorter == WriteLength(RemovePadding(list), protover, payloadLength - 1)
    IN  [valid |-> TRUE, OK |-> ok, packetList |-> shorter,
         RSSI |-> - At(list, RSSI_POS),
         blePacket |-> IF ok THEN BlePacket(From(shorter, BLEPACKET_POS)) ELSE Unset]

PayloadLength(list) ==
  IF At(list, PROTOVER_POS) = 1 THEN At(list, PAYLOAD_LEN_POS_V1)
  ELSE parseLittleEndian(Slice(list, 0, 2))

\* Packet.__init__ and readPayload.  For any other id readPayload compares with
\* TEST_RESULT_ID, a name that is defined nowhere: the NameError makes the packet
\* invalid.
Packet(list) ==
  IF \/ Len(list) <= ID_POS
     \/ At(list, PROTOVER_POS) \notin {1, 2}
     \/ PayloadLength(list) + HEADER_LENGTH # Len(list)
     \/ At(list, ID_POS) \notin {EVENT_PACKET, PING_RESP, SWITCH_BAUD_RATE_REQ, SWITCH_BAUD_RATE_RESP}
  THEN Invalid
  ELSE IF At(list, ID_POS) = EVENT_PACKET
  THEN ReadEvent(list, At(list, PROTOVER_POS), PayloadLength(list))
  ELSE [valid |-> TRUE, OK |-> FALSE, packetList |-> list, RSSI |-> Unset, blePacket |-> Unset]
-----------------------------------------------------------------------------
\* An advertising structure: the number of its other bytes, its type, its data.
Structure(s) == Len(s) >= 2 /\ s[1] = Len(s) - 1

\* What ends the structures: nothing, a zero, or one that does not fit.
EndsStructures(tail) == tail = <<>> \/ tail[1] = 0 \/ tail[1] + 1 > Len(tail)

\* The flags, as the board sets them: CRC, direction, encrypted, MIC and the rest.
Bit(b) == IF b THEN 1 ELSE 0

HasFlags(list, parts) ==
  \E direction \in 0 .. 1, rest \in 0 .. 15 :
    At(list, FLAGS_POS) = Bit(parts.crcOK) + 2 * direction + 4 * Bit(parts.encrypted)
                            + 8 * Bit(parts.micOK) + 16 * rest

\* How the board sends a packet: behind its own header come the six bytes that
\* begin the packet, a byte of padding and the rest.  Behind the advertiser's
\* address are structures and what ends them; any bytes can be seen as that.
ASSUME InputsAssumption ==
  /\ Unset \notin Int
  /\ \A parts \in Inputs :
       /\ parts.list \in Seq(Byte) /\ parts.onAir \in Seq(Byte)
       /\ parts.structures \in Seq(Seq(Byte)) /\ parts.tail \in Seq(Byte)
       /\ {parts.crcOK, parts.encrypted, parts.micOK} \subseteq BOOLEAN
       /\ \A k \in DOMAIN parts.structures : Structure(parts.structures[k])
       /\ EndsStructures(parts.tail)
       /\ Len(parts.list) > PADDING_POS =>
            /\ HasFlags(parts.list, parts)
            /\ parts.onAir = Slice(parts.list, BLEPACKET_POS, PADDING_POS)
                               \o From(parts.list, PADDING_POS + 1)
            /\ From(parts.onAir, 12) = FlattenSeq(parts.structures) \o parts.tail

VARIABLES
  input,   \* a list, and the parts it was made of
  packet   \* what was made of it

parseVars == <<input, packet>>

ParseInit == input \in Inputs /\ packet = Unset

Parse == packet = Unset /\ packet' = Packet(input.list) /\ UNCHANGED input

ParseSpec == ParseInit /\ [][Parse]_parseVars

Parsed == packet # Unset

\* The padding byte leaves no trace in the list that goes to Wireshark and to the
\* capture file: its length field counts its bytes, and the BLE packet in it is the
\* one that was on air.
PaddingIsGone ==
  /\ Parsed /\ packet.valid =>
       PayloadLength(packet.packetList) + HEADER_LENGTH = Len(packet.packetList)
  /\ Parsed /\ packet.OK => From(packet.packetList, BLEPACKET_POS) = input.onAir

BlePackets ==
  [accessAddress : Seq(Byte), advType : 0 .. 15 \union {Unset},
   advAddress : Seq(Byte) \union {Unset}, name : Seq(Byte) \union {Unset, NameOfDirect},
   length : Byte, payload : Seq(Byte)]

\* What the collector relies on without a test: a packet that is OK has its RSSI and
\* a BLE packet whose every byte was there, and passed its CRC and, if it was
\* encrypted, its MIC.
OKIsComplete ==
  Parsed /\ packet.OK =>
    /\ packet.valid /\ packet.RSSI \in -255 .. 0 /\ packet.blePacket \in BlePackets
    /\ input.crcOK /\ (input.encrypted => input.micOK)

\* The last structure that is a name; it may be an empty one.
NameIn(structures) ==
  LET named == {k \in DOMAIN structures : structures[k][2] \in {8, 9}}
      last == structures[CHOOSE k \in named : \A l \in named : l <= k]
  IN  IF named = {} THEN <<>> ELSE SubSeq(last, 3, Len(last))

\* The walk finds the last name among the advertising structures, and stops at
\* a structure that does not fit, whatever its bytes look like.
NameIsFound ==
  Parsed /\ packet.OK /\ packet.blePacket.advType \in HasAdvData =>
    packet.blePacket.name = NameIn(input.structures)
=============================================================================
