------------------------------ MODULE MCPacket ------------------------------
(* Event packets for SnifferPacket, built part by part: whole ones with up *)
(* to two advertising structures and something after them, and one that is *)
(* cut off after each of its bytes, its length field right or wrong.       *)
EXTENDS SnifferPacket

Structures == {<<2, 1, 6>>, <<3, 9, 97, 98>>, <<1, 8>>, <<2, 9, 0>>}
Tails == {<<>>, <<0, 2, 9, 99>>, <<4, 9, 99>>}
AdvTypes == {0, 65, 2, 7}
\* crcOK, encrypted, micOK.
Flags == {<<TRUE, FALSE, FALSE>>, <<TRUE, TRUE, FALSE>>, <<TRUE, TRUE, TRUE>>,
          <<FALSE, TRUE, TRUE>>}

Addresses == {ADV_ACCESS_ADDRESS, <<80, 101, 131, 154>>}

OnAir(address, advType, body) ==
  address \o <<advType, Len(body) + 6>> \o <<1, 2, 3, 4, 5, 6>> \o body

EventBytes(protover, headerLength, flags, onAir) ==
  LET bits == Bit(flags[1]) + 4 * Bit(flags[2]) + 8 * Bit(flags[3])
      payload == <<headerLength, bits, 37, 60, 1, 0, 9, 0, 0, 0>>
                   \o SubSeq(onAir, 1, 6) \o <<255>> \o SubSeq(onAir, 7, Len(onAir))
      length == IF protover = 1 THEN <<6, Len(payload)>> ELSE toLittleEndian(Len(payload))
  IN  length \o <<protover, 200, 1, EVENT_PACKET>> \o payload

Whole(address, advType, protover, flags, structures, tail) ==
  LET onAir == OnAir(address, advType, FlattenSeq(structures) \o tail)
  IN  [list |-> EventBytes(protover, BLE_HEADER_LENGTH, flags, onAir),
       onAir |-> onAir,
       structures |-> structures, tail |-> tail,
       crcOK |-> flags[1], encrypted |-> flags[2], micOK |-> flags[3]]

\* A packet that ends after n bytes; id 5 is EVENT_CONNECT.
Cut(protover, headerLength, flags, id, n, right) ==
  LET body == <<2, 9, 97>>
      whole == EventBytes(protover, headerLength, flags, OnAir(ADV_ACCESS_ADDRESS, 0, body))
      list == [SubSeq(whole, 1, n) EXCEPT ![ID_POS + 1] = id]
      length == (IF n >= HEADER_LENGTH THEN n - HEADER_LENGTH ELSE 0) + (IF right THEN 0 ELSE 1)
  IN  [list |-> IF n <= ID_POS THEN SubSeq(whole, 1, n) ELSE WriteLength(list, protover, length),
       onAir |-> SubSeq(OnAir(ADV_ACCESS_ADDRESS, 0, body), 1, n - BLEPACKET_POS - 1),
       structures |-> IF n = Len(whole) THEN <<body>> ELSE <<>>,
       tail |-> IF n = Len(whole) THEN <<>> ELSE SubSeq(body, 1, n - (Len(whole) - Len(body))),
       crcOK |-> flags[1], encrypted |-> flags[2], micOK |-> flags[3]]

MCInputs ==
  {Whole(address, advType, protover, flags, structures, tail) :
     address \in Addresses, advType \in AdvTypes, protover \in 1 .. 3, flags \in Flags,
     structures \in UNION {[1 .. k -> Structures] : k \in 0 .. 2}, tail \in Tails}
  \union
  {Cut(protover, headerLength, flags, id, n, right) :
     protover \in {1, 2}, headerLength \in {9, 10},
     flags \in {<<TRUE, FALSE, FALSE>>, <<TRUE, TRUE, FALSE>>}, id \in {EVENT_PACKET, 5, PING_RESP}, n \in 0 .. 32, right \in BOOLEAN}
=============================================================================
