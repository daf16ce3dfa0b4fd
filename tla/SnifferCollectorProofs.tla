----------------------- MODULE SnifferCollectorProofs -----------------------
(***************************************************************************)
(* What the collector keeps, for any number of packets, any size of its    *)
(* buffer and any set of devices: the packets in order, each in one place, *)
(* and a device list that agrees with its notifications.                   *)
(***************************************************************************)
EXTENDS SnifferCollector, SequenceTheorems, TLAPS

(***************************************************************************)
(* The packets.  They are numbers, so a sequence is in order when it       *)
(* increases, and the order of two sequences is that of their elements.    *)
(***************************************************************************)

Increasing(s) == \A i, j \in 1 .. Len(s) : i < j => s[i] < s[j]

Before(A, B) == \A x \in A : \A y \in B : x < y

LEMMA ElementsOfSeq ==
  ASSUME NEW s \in Seq(Nat)
  PROVE  /\ ToSet(s) = {s[i] : i \in 1 .. Len(s)}
         /\ ToSet(s) \subseteq Nat
         /\ Len(s) \in Nat
         /\ \A i \in 1 .. Len(s) : s[i] \in Nat
BY DEF ToSet

LEMMA OrderOfConcat ==
  ASSUME NEW s \in Seq(Nat), NEW t \in Seq(Nat)
  PROVE  /\ s \o t \in Seq(Nat)
         /\ ToSet(s \o t) = ToSet(s) \union ToSet(t)
         /\ Increasing(s \o t) <=>
              Increasing(s) /\ Increasing(t) /\ Before(ToSet(s), ToSet(t))
<1> DEFINE u == s \o t
<1>1. /\ u \in Seq(Nat) /\ Len(u) = Len(s) + Len(t) /\ Len(s) \in Nat /\ Len(t) \in Nat
      /\ \A i \in 1 .. Len(s) : u[i] = s[i]
      /\ \A i \in 1 .. Len(t) : u[i + Len(s)] = t[i]
  OBVIOUS
<1>2. \A i \in 1 .. Len(u) :
        i \in 1 .. Len(s) \/ \E j \in 1 .. Len(t) : i = j + Len(s)
  <2> TAKE i \in 1 .. Len(u)
  <2>1. CASE i <= Len(s)
    BY <1>1, <2>1
  <2>2. CASE ~ (i <= Len(s))
    <3>1. i - Len(s) \in 1 .. Len(t) /\ i = (i - Len(s)) + Len(s)
      BY <1>1, <2>2
    <3> QED BY <3>1
  <2> QED BY <2>1, <2>2
<1>3. /\ \A i \in 1 .. Len(s) : i \in 1 .. Len(u)
      /\ \A i \in 1 .. Len(t) : i + Len(s) \in 1 .. Len(u)
  BY <1>1
<1> HIDE DEF u
<1>4. ToSet(u) = ToSet(s) \union ToSet(t)
  <2>1. /\ ToSet(u) = {u[i] : i \in 1 .. Len(u)}
        /\ ToSet(s) = {s[i] : i \in 1 .. Len(s)}
        /\ ToSet(t) = {t[i] : i \in 1 .. Len(t)}
    BY <1>1, ElementsOfSeq
  <2>2. ToSet(u) \subseteq ToSet(s) \union ToSet(t)
    <3> SUFFICES ASSUME NEW i \in 1 .. Len(u)
                 PROVE  u[i] \in ToSet(s) \union ToSet(t)
      BY <2>1
    <3>1. CASE i \in 1 .. Len(s)
      BY <1>1, <2>1, <3>1
    <3>2. ASSUME NEW j \in 1 .. Len(t), i = j + Len(s)
          PROVE  u[i] \in ToSet(t)
      BY <1>1, <2>1, <3>2
    <3> QED BY <1>2, <3>1, <3>2
  <2>3. ToSet(s) \subseteq ToSet(u)
    BY <1>1, <1>3, <2>1
  <2>4. ToSet(t) \subseteq ToSet(u)
    <3> SUFFICES ASSUME NEW i \in 1 .. Len(t)
                 PROVE  t[i] \in ToSet(u)
      BY <2>1
    <3>1. i + Len(s) \in 1 .. Len(u) /\ u[i + Len(s)] = t[i]
      BY <1>1, <1>3
    <3> QED BY <2>1, <3>1
  <2> QED BY <2>2, <2>3, <2>4
<1>5. ASSUME Increasing(u)
      PROVE  Increasing(s) /\ Increasing(t) /\ Before(ToSet(s), ToSet(t))
  <2>1. Increasing(s)
    BY <1>1, <1>3, <1>5 DEF Increasing
  <2>2. Increasing(t)
    <3> SUFFICES ASSUME NEW i \in 1 .. Len(t), NEW j \in 1 .. Len(t), i < j
                 PROVE  t[i] < t[j]
      BY DEF Increasing
    <3>1. i + Len(s) < j + Len(s)
      BY <1>1
    <3> QED BY <1>1, <1>3, <1>5, <3>1 DEF Increasing
  <2>3. Before(ToSet(s), ToSet(t))
    <3>0. /\ ToSet(s) = {s[i] : i \in 1 .. Len(s)}
          /\ ToSet(t) = {t[i] : i \in 1 .. Len(t)}
      BY ElementsOfSeq
    <3> SUFFICES ASSUME NEW i \in 1 .. Len(s), NEW j \in 1 .. Len(t)
                 PROVE  s[i] < t[j]
      BY <3>0, Zenon DEF Before
    <3>1. i < j + Len(s)
      BY <1>1
    <3> QED BY <1>1, <1>3, <1>5, <3>1 DEF Increasing
  <2> QED BY <2>1, <2>2, <2>3
<1>6. ASSUME Increasing(s), Increasing(t), Before(ToSet(s), ToSet(t))
      PROVE  Increasing(u)
  <2> SUFFICES ASSUME NEW i \in 1 .. Len(u), NEW j \in 1 .. Len(u), i < j
               PROVE  u[i] < u[j]
    BY DEF Increasing
  <2>1. CASE i \in 1 .. Len(s) /\ j \in 1 .. Len(s)
    BY <1>1, <1>6, <2>1 DEF Increasing
  <2>2. ASSUME i \in 1 .. Len(s), NEW l \in 1 .. Len(t), j = l + Len(s)
        PROVE  u[i] < u[j]
    BY <1>1, <1>6, <2>2, ElementsOfSeq DEF Before
  <2>3. ASSUME NEW k \in 1 .. Len(t), i = k + Len(s), NEW l \in 1 .. Len(t), j = l + Len(s)
        PROVE  u[i] < u[j]
    <3>1. k < l
      BY <1>1, <2>3
    <3> QED BY <1>1, <1>6, <2>3, <3>1 DEF Increasing
  <2>4. ~ (i \notin 1 .. Len(s) /\ j \in 1 .. Len(s))
    BY <1>1
  <2> QED BY <1>2, <2>1, <2>2, <2>3, <2>4
<1> QED BY <1>1, <1>4, <1>5, <1>6 DEF u

\* The two parts into which a cut after n elements takes an ordered sequence.
LEMMA OrderOfCut ==
  ASSUME NEW s \in Seq(Nat), Increasing(s), NEW n \in 0 .. Len(s)
  PROVE  LET a == SubSeq(s, 1, n)
             b == SubSeq(s, n + 1, Len(s))
         IN  /\ a \in Seq(Nat) /\ b \in Seq(Nat)
             /\ Increasing(a) /\ Increasing(b)
             /\ ToSet(a) \union ToSet(b) = ToSet(s)
             /\ Before(ToSet(a), ToSet(b))
<1> DEFINE a == SubSeq(s, 1, n)
           b == SubSeq(s, n + 1, Len(s))
<1>1. Len(s) \in Nat /\ n \in Nat /\ n <= Len(s) /\ \A i \in 1 .. Len(s) : s[i] \in Nat
  BY ElementsOfSeq
<1>2. a \in Seq(Nat) /\ b \in Seq(Nat)
  <2>1. \A i \in 1 .. n : s[i] \in Nat
    BY <1>1
  <2>2. \A i \in n + 1 .. Len(s) : s[i] \in Nat
    BY <1>1
  <2>3. 1 \in Int /\ n \in Int /\ n + 1 \in Int /\ Len(s) \in Int
    BY <1>1
  <2> QED BY <2>1, <2>2, <2>3, SubSeqProperties, Zenon
<1>3. a \o b = s
  <2>1. 1 \in 1 .. Len(s) + 1 /\ n \in 1 - 1 .. Len(s) /\ Len(s) \in n .. Len(s)
    BY <1>1
  <2>2. SubSeq(s, 1, n) \o SubSeq(s, n + 1, Len(s)) = SubSeq(s, 1, Len(s))
    BY <2>1, ConcatAdjacentSubSeq, Zenon
  <2>3. SubSeq(s, 1, Len(s)) = s
    BY SubSeqFull, Zenon
  <2> QED BY <2>2, <2>3 DEF a, b
<1> HIDE DEF a, b
<1>4. /\ Increasing(a) /\ Increasing(b) /\ Before(ToSet(a), ToSet(b))
      /\ ToSet(a) \union ToSet(b) = ToSet(s)
  <2>1. /\ ToSet(a \o b) = ToSet(a) \union ToSet(b)
        /\ Increasing(a \o b) =>
             Increasing(a) /\ Increasing(b) /\ Before(ToSet(a), ToSet(b))
    BY <1>2, OrderOfConcat
  <2> QED BY <1>3, <2>1
<1> QED BY <1>2, <1>4 DEF a, b

\* One number more, greater than all the others.
LEMMA OrderOfAppend ==
  ASSUME NEW s \in Seq(Nat), Increasing(s), NEW n \in Nat, Before(ToSet(s), {n})
  PROVE  /\ Append(s, n) \in Seq(Nat)
         /\ Increasing(Append(s, n))
         /\ ToSet(Append(s, n)) = ToSet(s) \union {n}
<1>1. Append(s, n) = s \o <<n>> /\ <<n>> \in Seq(Nat)
  <2>1. Append(s, n) = s \o <<n>>
    BY AppendIsConcat, Zenon
  <2> QED BY <2>1
<1>2. ToSet(<<n>>) = {n} /\ Increasing(<<n>>)
  <2>1. Len(<<n>>) = 1 /\ <<n>>[1] = n /\ \A i \in 1 .. 1 : i = 1
    OBVIOUS
  <2>2. ToSet(<<n>>) = {n}
    <3>1. ToSet(<<n>>) = {<<n>>[i] : i \in 1 .. Len(<<n>>)}
      BY <1>1, ElementsOfSeq
    <3> QED BY <2>1, <3>1
  <2>3. Increasing(<<n>>)
    BY <2>1 DEF Increasing
  <2> QED BY <2>2, <2>3
<1> DEFINE t == <<n>>
<1>3. t \in Seq(Nat) /\ Append(s, n) = s \o t /\ ToSet(t) = {n} /\ Increasing(t)
  BY <1>1, <1>2
<1> HIDE DEF t
<1>4. s \o t \in Seq(Nat) /\ ToSet(s \o t) = ToSet(s) \union ToSet(t) /\ Increasing(s \o t)
  BY <1>3, OrderOfConcat
<1> QED BY <1>3, <1>4

\* PacketsInOrder, in terms of the two lists and their elements.
PacketInv ==
  /\ packets \in Seq(Nat) /\ fetched \in Seq(Nat) /\ reported \in Nat
  /\ Increasing(fetched) /\ Increasing(packets)
  /\ Before(ToSet(fetched), ToSet(packets))
  /\ ToSet(fetched) \union ToSet(packets) \union trimmed = 1 .. reported
  /\ Before(trimmed, ToSet(packets))

LEMMA PacketInvIsOrder == PacketInv => PacketsInOrder
<1> SUFFICES ASSUME PacketInv PROVE PacketsInOrder
  OBVIOUS
<1> DEFINE kept == fetched \o packets
<1>1. /\ kept \in Seq(Nat) /\ Increasing(kept)
      /\ ToSet(kept) = ToSet(fetched) \union ToSet(packets)
  BY OrderOfConcat DEF PacketInv
<1> HIDE DEF kept
<1>2. DOMAIN kept = 1 .. Len(kept) /\ DOMAIN packets = 1 .. Len(packets)
  BY <1>1 DEF PacketInv
<1>3. \A i, j \in DOMAIN kept : i < j => kept[i] < kept[j]
  BY <1>1, <1>2 DEF Increasing
<1>4. \A old \in trimmed : \A i \in DOMAIN packets : old < packets[i]
  <2>1. \A i \in DOMAIN packets : packets[i] \in ToSet(packets)
    BY DEF ToSet
  <2> QED BY <2>1 DEF PacketInv, Before
<1>5. ToSet(kept) \union trimmed = 1 .. reported
  BY <1>1 DEF PacketInv
<1> QED BY <1>3, <1>4, <1>5 DEF PacketsInOrder, kept

LEMMA PacketInit == Init => PacketInv
<1> SUFFICES ASSUME Init PROVE PacketInv
  OBVIOUS
<1>1. packets = <<>> /\ fetched = <<>> /\ reported = 0 /\ trimmed = {}
  BY DEF Init
<1>2. ToSet(<<>>) = {} /\ Increasing(<<>>) /\ <<>> \in Seq(Nat) /\ 1 .. 0 = {}
  BY DEF ToSet, Increasing
<1> QED BY <1>1, <1>2 DEF PacketInv, Before

\* What is left of the buffer when its oldest packets are dropped.
LEMMA OrderOfTrimmed ==
  ASSUME NEW s \in Seq(Nat), Increasing(s)
  PROVE  /\ Trimmed(s) \in Seq(Nat) /\ Increasing(Trimmed(s))
         /\ ToSet(Trimmed(s)) \subseteq ToSet(s)
         /\ Before(ToSet(s) \ ToSet(Trimmed(s)), ToSet(Trimmed(s)))
<1>1. CASE Len(s) > BufferLimit
  <2>1. Trimmed(s) = SubSeq(s, BufferTrim + 1, Len(s))
    BY <1>1 DEF Trimmed
  <2>2. BufferTrim \in 0 .. Len(s)
    BY <1>1, CollectorAssumption
  <2>3. /\ SubSeq(s, BufferTrim + 1, Len(s)) \in Seq(Nat)
        /\ Increasing(SubSeq(s, BufferTrim + 1, Len(s)))
        /\ ToSet(SubSeq(s, 1, BufferTrim)) \union ToSet(SubSeq(s, BufferTrim + 1, Len(s)))
              = ToSet(s)
        /\ Before(ToSet(SubSeq(s, 1, BufferTrim)), ToSet(SubSeq(s, BufferTrim + 1, Len(s))))
    BY <2>2, OrderOfCut
  <2> QED BY <2>1, <2>3 DEF Before
<1>2. CASE ~ (Len(s) > BufferLimit)
  <2>1. Trimmed(s) = s
    BY <1>2 DEF Trimmed
  <2> QED BY <2>1 DEF Before
<1> QED BY <1>1, <1>2

\* A packet is numbered after all others; what is dropped for it is older than
\* what stays.
LEMMA ReceiveKeepsOrder ==
  ASSUME PacketInv, NEW report, ReceivePacket(report)
  PROVE  PacketInv'
<1> DEFINE left == Trimmed(packets)
           n == reported + 1
<1>1. /\ packets \in Seq(Nat) /\ Increasing(packets) /\ reported \in Nat
      /\ packets' = Append(left, n) /\ reported' = n /\ fetched' = fetched
      /\ trimmed' = trimmed \union (ToSet(packets) \ ToSet(packets'))
  BY DEF PacketInv, ReceivePacket
<1>2. /\ left \in Seq(Nat) /\ Increasing(left) /\ ToSet(left) \subseteq ToSet(packets)
      /\ Before(ToSet(packets) \ ToSet(left), ToSet(left))
  BY <1>1, OrderOfTrimmed
<1>3. n \in Nat /\ 1 .. n = (1 .. reported) \union {n} /\ \A x \in 1 .. reported : x < n
  BY <1>1
<1>4. Before(1 .. reported, {n}) /\ n \notin 1 .. reported
  BY <1>3 DEF Before
<1> HIDE DEF left, n
<1>5. ToSet(packets) \subseteq 1 .. reported /\ ToSet(fetched) \subseteq 1 .. reported
      /\ trimmed \subseteq 1 .. reported
  BY DEF PacketInv
<1>6. Before(ToSet(left), {n})
  BY <1>2, <1>4, <1>5 DEF Before
<1>7. /\ packets' \in Seq(Nat) /\ Increasing(packets')
      /\ ToSet(packets') = ToSet(left) \union {n}
  BY <1>1, <1>2, <1>3, <1>6, OrderOfAppend
<1>8. trimmed' = trimmed \union (ToSet(packets) \ ToSet(left))
  BY <1>1, <1>4, <1>5, <1>7
<1>9. Before(ToSet(fetched), ToSet(packets'))
  BY <1>2, <1>4, <1>5, <1>7 DEF PacketInv, Before
<1>10. Before(trimmed', ToSet(packets'))
  BY <1>2, <1>4, <1>5, <1>7, <1>8 DEF PacketInv, Before
<1>11. ToSet(fetched) \union ToSet(packets') \union trimmed' = 1 .. n
  BY <1>2, <1>3, <1>7, <1>8 DEF PacketInv
<1> QED BY <1>1, <1>3, <1>7, <1>9, <1>10, <1>11 DEF PacketInv

\* A fetch moves the head of the buffer behind what was fetched.
LEMMA FetchKeepsOrder ==
  ASSUME PacketInv, NEW number \in FetchSizes, getPackets(number)
  PROVE  PacketInv'
<1> DEFINE n == SliceLength(number, Len(packets))
           a == SubSeq(packets, 1, n)
           b == SubSeq(packets, n + 1, Len(packets))
<1>1. /\ packets \in Seq(Nat) /\ Increasing(packets) /\ fetched \in Seq(Nat)
      /\ Increasing(fetched)
      /\ fetched' = fetched \o a /\ packets' = b /\ UNCHANGED <<reported, trimmed>>
  BY DEF PacketInv, getPackets, RemainingAfter
<1>2. n \in 0 .. Len(packets)
  <2>1. number \in Int /\ Len(packets) \in Nat
    BY <1>1, CollectorAssumption
  <2> QED BY <2>1 DEF SliceLength
<1> HIDE DEF n
<1>3. /\ a \in Seq(Nat) /\ b \in Seq(Nat) /\ Increasing(a) /\ Increasing(b)
      /\ ToSet(a) \union ToSet(b) = ToSet(packets) /\ Before(ToSet(a), ToSet(b))
  BY <1>1, <1>2, OrderOfCut
<1> HIDE DEF a, b
<1>4. Before(ToSet(fetched), ToSet(a))
  BY <1>3 DEF PacketInv, Before
<1>5. /\ fetched \o a \in Seq(Nat) /\ Increasing(fetched \o a)
      /\ ToSet(fetched \o a) = ToSet(fetched) \union ToSet(a)
  BY <1>1, <1>3, <1>4, OrderOfConcat
<1>6. Before(ToSet(fetched'), ToSet(packets')) /\ Before(trimmed', ToSet(packets'))
  BY <1>1, <1>3, <1>5 DEF PacketInv, Before
<1>7. ToSet(fetched') \union ToSet(packets') \union trimmed' = 1 .. reported'
  BY <1>1, <1>3, <1>5 DEF PacketInv
<1> QED BY <1>1, <1>3, <1>5, <1>6, <1>7 DEF PacketInv

LEMMA PacketStep == PacketInv /\ [Next]_vars => PacketInv'
<1> SUFFICES ASSUME PacketInv, [Next]_vars PROVE PacketInv'
  OBVIOUS
<1>1. CASE UNCHANGED <<packets, fetched, reported, trimmed>>
  BY <1>1 DEF PacketInv
<1>2. CASE ListIfFollowing \/ ListIfScanning \/ scan \/ FollowOther \/ UNCHANGED vars
  BY <1>1, <1>2 DEF ListIfFollowing, ListIfScanning, scan, FollowOther, vars
<1>3. CASE \E i \in DOMAIN devices : FollowListed(i)
  BY <1>1, <1>3 DEF FollowListed
<1>4. CASE \E report \in Reports : ReceivePacket(report)
  BY <1>4, ReceiveKeepsOrder
<1>5. CASE \E number \in FetchSizes : getPackets(number)
  BY <1>5, FetchKeepsOrder
<1> QED BY <1>2, <1>3, <1>4, <1>5 DEF Next

\* No packet is lost but the oldest of a full buffer, none is fetched twice, and
\* they come out in the order of their arrival.
THEOREM FetchesAreInOrder == Spec => []PacketsInOrder
BY PacketInit, PacketStep, PacketInvIsOrder, PTL DEF Spec

(***************************************************************************)
(* The devices.  The list and what a subscriber was told of it agree at    *)
(* each address, because an update that is not announced changed nothing,  *)
(* and a mark of followed is not part of what is compared.                 *)
(***************************************************************************)

Listing == [address : Addresses, name : Names, RSSI : RSSIs, followed : BOOLEAN]

ListedAddresses == {devices[i].address : i \in DOMAIN devices}

\* The device that a subscriber sees is the one at the place of the list.
Agrees(device, view, last) ==
  /\ view.name = device.name /\ view.RSSI = device.RSSI
  /\ view.RSSI \in last - 5 .. last + 2

DeviceInv ==
  /\ devices \in Seq(Listing)
  /\ current \in Reports \union {NoReport}
  /\ shown \in [ListedAddresses -> Listing]
  /\ heard \in [ListedAddresses -> RSSIs]
  /\ \A i, j \in DOMAIN devices : devices[i].address = devices[j].address => i = j
  /\ \A i, j \in DOMAIN devices : devices[i].followed /\ devices[j].followed => i = j
  /\ \A i \in DOMAIN devices :
       Agrees(devices[i], shown[devices[i].address], heard[devices[i].address])

LEMMA DeviceInvIsFresh == DeviceInv => DevicesAreDistinct /\ ShownIsFresh
<1> SUFFICES ASSUME DeviceInv PROVE DevicesAreDistinct /\ ShownIsFresh
  OBVIOUS
<1>1. DevicesAreDistinct
  BY DEF DeviceInv, DevicesAreDistinct
<1>2. ShownIsFresh
  BY DEF DeviceInv, ShownIsFresh, ListedAddresses, Agrees
<1> QED BY <1>1, <1>2

LEMMA DeviceInit == Init => DeviceInv
<1> SUFFICES ASSUME Init PROVE DeviceInv
  OBVIOUS
<1>1. devices = <<>> /\ DOMAIN devices = {} /\ devices \in Seq(Listing)
  BY DEF Init
<1>2. ListedAddresses = {}
  BY <1>1 DEF ListedAddresses
<1> QED BY <1>1, <1>2 DEF Init, DeviceInv

\* What is appended is not in the list yet.
LEMMA AppendKeepsDevices ==
  ASSUME DeviceInv, NEW new \in Listing, ~ new.followed, Find(new.address) = {},
         appendOrUpdate(new),
         heard' = [a \in DOMAIN heard \union {new.address} |->
                     IF a = new.address THEN new.RSSI ELSE heard[a]],
         current' \in Reports \union {NoReport}
  PROVE  DeviceInv'
<1> DEFINE n == Len(devices)
           a == new.address
<1>1. /\ devices \in Seq(Listing) /\ n \in Nat /\ DOMAIN devices = 1 .. n
      /\ devices' = Append(devices, new)
      /\ shown' = [b \in DOMAIN shown \union {a} |-> IF b = a THEN new ELSE shown[b]]
  BY DEF DeviceInv, appendOrUpdate
<1>2. \A i \in 1 .. n : devices[i].address # a
  <2> SUFFICES ASSUME NEW i \in 1 .. n, devices[i].address = a
               PROVE  FALSE
    OBVIOUS
  <2>1. \A j \in 1 .. i - 1 : devices[j].address # a
    <3> SUFFICES ASSUME NEW j \in 1 .. i - 1 PROVE devices[j].address # a
      OBVIOUS
    <3>1. j \in 1 .. n /\ j # i
      BY <1>1
    <3> QED BY <1>1, <3>1 DEF DeviceInv
  <2> QED BY <1>1, <2>1 DEF Find
<1>3. /\ devices' \in Seq(Listing) /\ DOMAIN devices' = 1 .. n + 1
      /\ devices'[n + 1] = new
      /\ \A i \in 1 .. n : devices'[i] = devices[i] /\ devices[i] \in Listing
  BY <1>1
<1>4. 1 .. n + 1 = (1 .. n) \union {n + 1} /\ n + 1 \notin 1 .. n
  BY <1>1
<1>5. ListedAddresses' = ListedAddresses \union {a}
  BY <1>1, <1>3, <1>4 DEF ListedAddresses
<1>6. \A i \in 1 .. n : devices[i].address \in ListedAddresses /\ devices[i].address # a
  BY <1>1, <1>2 DEF ListedAddresses
<1> HIDE DEF n, a
<1>7. /\ DOMAIN shown = ListedAddresses /\ DOMAIN heard = ListedAddresses
      /\ \A b \in ListedAddresses : shown[b] \in Listing /\ heard[b] \in RSSIs
  BY DEF DeviceInv
<1>8. new.RSSI \in RSSIs
  BY DEF Listing
<1>9. /\ shown' \in [ListedAddresses' -> Listing] /\ shown'[a] = new
      /\ heard' \in [ListedAddresses' -> RSSIs] /\ heard'[a] = new.RSSI
      /\ \A b \in ListedAddresses : b # a => shown'[b] = shown[b] /\ heard'[b] = heard[b]
  BY <1>1, <1>5, <1>7, <1>8 DEF a
<1>10. new.RSSI \in new.RSSI - 5 .. new.RSSI + 2
  <2>1. \A r \in RSSIs : r \in r - 5 .. r + 2
    BY CollectorAssumption
  <2> QED BY <1>8, <2>1
<1>11. Agrees(new, shown'[a], heard'[a])
  BY <1>9, <1>10 DEF Agrees
<1>12. \A i \in DOMAIN devices' :
         Agrees(devices'[i], shown'[devices'[i].address], heard'[devices'[i].address])
  <2>1. \A i \in 1 .. n :
          Agrees(devices'[i], shown'[devices'[i].address], heard'[devices'[i].address])
    BY <1>1, <1>3, <1>6, <1>9 DEF DeviceInv
  <2> QED BY <1>3, <1>4, <1>11, <2>1 DEF a
<1>13. \A i, j \in DOMAIN devices' : devices'[i].address = devices'[j].address => i = j
  BY <1>1, <1>3, <1>4, <1>6 DEF DeviceInv, a
<1>14. \A i, j \in DOMAIN devices' : devices'[i].followed /\ devices'[j].followed => i = j
  BY <1>1, <1>3, <1>4 DEF DeviceInv
<1>15. \A i \in DOMAIN devices' :
         Agrees(devices[i], shown[devices[i].address], heard[devices[i].address])' 
           <=> Agrees(devices'[i], shown'[devices'[i].address], heard'[devices'[i].address])
  BY DEF Agrees
<1> QED BY <1>3, <1>9, <1>12, <1>13, <1>14, <1>15 DEF DeviceInv

\* At place i of the list the name is filled in and the RSSI follows: the address
\* and the mark stay, and an unannounced update changed nothing.
LEMMA UpdateKeepsDevices ==
  ASSUME DeviceInv, NEW new \in Listing, Find(new.address) # {},
         appendOrUpdate(new),
         heard' = [a \in DOMAIN heard \union {new.address} |->
                     IF a = new.address THEN new.RSSI ELSE heard[a]],
         current' \in Reports \union {NoReport}
  PROVE  DeviceInv'
<1> DEFINE Updated(old) ==
             [old EXCEPT !.name = IF @ = NoName THEN new.name ELSE @,
                         !.RSSI = IF Moved(@, new.RSSI) THEN new.RSSI ELSE @]
           a == new.address
<1>1. PICK i \in Find(a) :
        /\ devices' = [devices EXCEPT ![i] = Updated(devices[i])]
        /\ shown' = IF Announced(devices[i], Updated(devices[i]))
                    THEN [shown EXCEPT ![devices[i].address] = Updated(devices[i])]
                    ELSE shown
  BY DEF appendOrUpdate
<1>2. i \in DOMAIN devices /\ devices[i].address = a
  BY DEF Find
<1>3. devices \in Seq(Listing) /\ devices[i] \in Listing
  BY <1>2 DEF DeviceInv
<1> DEFINE old == devices[i]
           updated == Updated(old)
<1>4. /\ updated \in Listing /\ updated.address = a /\ updated.followed = old.followed
      /\ updated.RSSI = IF Moved(old.RSSI, new.RSSI) THEN new.RSSI ELSE old.RSSI
  BY <1>2, <1>3 DEF Listing
<1>5. updated.RSSI \in new.RSSI - 5 .. new.RSSI + 2
  <2>1. \A r, s \in RSSIs : (IF Moved(s, r) THEN r ELSE s) \in r - 5 .. r + 2
    BY CollectorAssumption DEF Moved
  <2>2. old.RSSI \in RSSIs /\ new.RSSI \in RSSIs
    BY <1>3 DEF Listing
  <2> QED BY <1>4, <2>1, <2>2
<1> HIDE DEF updated
<1>6. /\ devices' = [devices EXCEPT ![i] = updated]
      /\ shown' = IF Announced(old, updated) THEN [shown EXCEPT ![a] = updated] ELSE shown
  BY <1>1, <1>2 DEF updated
<1>7. /\ devices' \in Seq(Listing) /\ DOMAIN devices' = DOMAIN devices
      /\ devices'[i] = updated
      /\ \A j \in DOMAIN devices : j # i => devices'[j] = devices[j]
  BY <1>2, <1>3, <1>4, <1>6
<1>8. \A j \in DOMAIN devices :
        devices'[j].address = devices[j].address /\ devices'[j].followed = devices[j].followed
  BY <1>2, <1>4, <1>7
<1>9. ListedAddresses' = ListedAddresses /\ a \in ListedAddresses
  BY <1>2, <1>7, <1>8 DEF ListedAddresses
<1>10. shown \in [ListedAddresses -> Listing] /\ heard \in [ListedAddresses -> RSSIs]
  BY DEF DeviceInv
<1>11. /\ heard' \in [ListedAddresses' -> RSSIs] /\ heard'[a] = new.RSSI
       /\ \A b \in ListedAddresses : b # a => heard'[b] = heard[b]
  <2>1. new.RSSI \in RSSIs
    BY DEF Listing
  <2> QED BY <1>9, <1>10, <2>1
<1>12. /\ shown' \in [ListedAddresses' -> Listing]
       /\ \A b \in ListedAddresses : b # a => shown'[b] = shown[b]
  BY <1>4, <1>6, <1>9, <1>10
<1>13. Agrees(updated, shown'[a], heard'[a])
  <2>1. shown'[a].name = updated.name /\ shown'[a].RSSI = updated.RSSI
    <3>1. CASE updated = old
      <4>1. shown' = shown
        BY <1>6, <3>1 DEF Announced
      <4>2. Agrees(old, shown[a], heard[a])
        BY <1>2 DEF DeviceInv
      <4> QED BY <3>1, <4>1, <4>2 DEF Agrees
    <3>2. CASE updated # old
      BY <1>6, <1>9, <1>10, <3>2 DEF Announced
    <3> QED BY <3>1, <3>2
  <2> QED BY <1>5, <1>11, <2>1 DEF Agrees
<1>14. \A j \in DOMAIN devices' :
         Agrees(devices'[j], shown'[devices'[j].address], heard'[devices'[j].address])
  <2> SUFFICES ASSUME NEW j \in DOMAIN devices
               PROVE  Agrees(devices'[j], shown'[devices'[j].address],
                             heard'[devices'[j].address])
    BY <1>7
  <2>1. CASE j = i
    BY <1>2, <1>7, <1>8, <1>13, <2>1
  <2>2. CASE j # i
    <3>1. devices[j].address \in ListedAddresses
      BY DEF ListedAddresses
    <3>2. devices[j].address # a
      BY <1>2, <2>2 DEF DeviceInv
    <3>3. Agrees(devices[j], shown[devices[j].address], heard[devices[j].address])
      BY DEF DeviceInv
    <3> QED BY <1>7, <1>11, <1>12, <2>2, <3>1, <3>2, <3>3
  <2> QED BY <2>1, <2>2
<1>15. /\ \A j, k \in DOMAIN devices' : devices'[j].address = devices'[k].address => j = k
       /\ \A j, k \in DOMAIN devices' : devices'[j].followed /\ devices'[k].followed => j = k
  BY <1>7, <1>8 DEF DeviceInv
<1>16. \A j \in DOMAIN devices' :
         Agrees(devices[j], shown[devices[j].address], heard[devices[j].address])'
  BY <1>14 DEF Agrees
<1> QED BY <1>7, <1>11, <1>12, <1>15, <1>16 DEF DeviceInv

\* The device of a report that is listed.
LEMMA ReportIsDevice ==
  ASSUME current \in Reports \union {NoReport}, current.kind \in {"adv", "scan_rsp"}
  PROVE  /\ Device(current) \in Listing /\ ~ Device(current).followed
         /\ Device(current).address = current.address /\ Device(current).RSSI = current.RSSI
<1>1. current \in [kind : {"adv", "scan_rsp"}, address : Addresses, name : Names, RSSI : RSSIs]
  BY DEF Reports, NoReport
<1> QED BY <1>1 DEF Device, Listing

\* Following marks one device and takes the mark from the others.
LEMMA FollowKeepsDevices ==
  ASSUME DeviceInv, NEW i \in DOMAIN devices, FollowListed(i)
  PROVE  DeviceInv'
<1>1. /\ devices \in Seq(Listing)
      /\ devices' = [j \in DOMAIN devices |-> [devices[j] EXCEPT !.followed = j = i]]
      /\ UNCHANGED <<current, shown, heard>>
  BY DEF DeviceInv, FollowListed, MarkFollowed
<1>2. /\ DOMAIN devices = 1 .. Len(devices) /\ Len(devices) \in Nat
      /\ \A j \in DOMAIN devices : devices[j] \in Listing
  BY <1>1
<1>3. /\ DOMAIN devices' = DOMAIN devices
      /\ \A j \in DOMAIN devices : devices'[j] = [devices[j] EXCEPT !.followed = j = i]
  BY <1>1
<1>4. \A j \in DOMAIN devices :
        /\ devices'[j] \in Listing
        /\ devices'[j].address = devices[j].address /\ devices'[j].name = devices[j].name
        /\ devices'[j].RSSI = devices[j].RSSI /\ (devices'[j].followed <=> j = i)
  <2>1. \A d \in Listing : \A mark \in BOOLEAN :
          LET marked == [d EXCEPT !.followed = mark]
          IN  /\ marked \in Listing
              /\ marked.address = d.address /\ marked.name = d.name
              /\ marked.RSSI = d.RSSI /\ marked.followed = mark
    BY DEF Listing
  <2> TAKE j \in DOMAIN devices
  <2> DEFINE mark == j = i
  <2>2. mark \in BOOLEAN /\ devices'[j] = [devices[j] EXCEPT !.followed = mark]
    BY <1>3
  <2> HIDE DEF mark
  <2>3. /\ devices'[j] \in Listing
        /\ devices'[j].address = devices[j].address /\ devices'[j].name = devices[j].name
        /\ devices'[j].RSSI = devices[j].RSSI /\ devices'[j].followed = mark
    BY <1>2, <2>1, <2>2
  <2>4. devices'[j].followed <=> j = i
    BY <2>3 DEF mark
  <2> QED BY <2>3, <2>4
<1>5. devices' \in Seq(Listing)
  <2>1. devices' \in [1 .. Len(devices) -> Listing]
    BY <1>1, <1>2, <1>4
  <2> QED BY <1>2, <2>1
<1>6. ListedAddresses' = ListedAddresses
  BY <1>3, <1>4 DEF ListedAddresses
<1>7. \A j \in DOMAIN devices' :
        Agrees(devices[j], shown[devices[j].address], heard[devices[j].address])'
  BY <1>1, <1>3, <1>4 DEF DeviceInv, Agrees
<1>8. /\ \A j, k \in DOMAIN devices' : devices'[j].address = devices'[k].address => j = k
      /\ \A j, k \in DOMAIN devices' : devices'[j].followed /\ devices'[k].followed => j = k
  BY <1>3, <1>4 DEF DeviceInv
<1> QED BY <1>1, <1>5, <1>6, <1>7, <1>8 DEF DeviceInv

LEMMA DeviceStep == DeviceInv /\ [Next]_vars => DeviceInv'
<1> SUFFICES ASSUME DeviceInv, [Next]_vars PROVE DeviceInv'
  OBVIOUS
<1>1. ASSUME current' \in Reports \union {NoReport}, UNCHANGED <<devices, shown, heard>>
      PROVE  DeviceInv'
  <2>1. ListedAddresses' = ListedAddresses
    BY <1>1 DEF ListedAddresses
  <2>2. \A i \in DOMAIN devices :
          Agrees(devices[i], shown[devices[i].address], heard[devices[i].address])'
    BY <1>1 DEF DeviceInv, Agrees
  <2> QED BY <1>1, <2>1, <2>2 DEF DeviceInv
<1>2. CASE scan \/ FollowOther \/ UNCHANGED vars
  BY <1>1, <1>2 DEF scan, FollowOther, vars, DeviceInv
<1>3. CASE \E number \in FetchSizes : getPackets(number)
  BY <1>1, <1>3 DEF getPackets, DeviceInv
<1>4. CASE \E report \in Reports : ReceivePacket(report)
  BY <1>1, <1>4 DEF ReceivePacket
<1>5. ASSUME ListDevice, current.kind \in {"adv", "scan_rsp"},
             current' \in Reports \union {NoReport}
      PROVE  DeviceInv'
  <2> DEFINE new == Device(current)
  <2>1. /\ appendOrUpdate(new)
        /\ heard' = [a \in DOMAIN heard \union {current.address} |->
                       IF a = current.address THEN current.RSSI ELSE heard[a]]
    BY <1>5 DEF ListDevice
  <2>2. /\ new \in Listing /\ ~ new.followed
        /\ new.address = current.address /\ new.RSSI = current.RSSI
    BY <1>5, ReportIsDevice DEF DeviceInv
  <2> HIDE DEF new
  <2>3. heard' = [a \in DOMAIN heard \union {new.address} |->
                    IF a = new.address THEN new.RSSI ELSE heard[a]]
    BY <2>1, <2>2
  <2> QED BY <1>5, <2>1, <2>2, <2>3, AppendKeepsDevices, UpdateKeepsDevices
<1>6. CASE ListIfFollowing
  <2>1. current' \in Reports \union {NoReport}
    BY <1>6 DEF ListIfFollowing, DeviceInv
  <2> QED BY <1>1, <1>5, <1>6, <2>1 DEF ListIfFollowing
<1>7. CASE ListIfScanning
  BY <1>1, <1>5, <1>7 DEF ListIfScanning
<1>8. CASE \E i \in DOMAIN devices : FollowListed(i)
  BY <1>8, FollowKeepsDevices
<1> QED BY <1>2, <1>3, <1>4, <1>6, <1>7, <1>8 DEF Next

\* A device is listed once however its reports, scans and follows interleave, and
\* at most one device bears the mark of the followed one.
THEOREM DevicesAreListedOnce == Spec => []DevicesAreDistinct
BY DeviceInit, DeviceStep, DeviceInvIsFresh, PTL DEF Spec

\* The notifications carry the whole list: a subscriber knows every device, and
\* each RSSI shown is within the hysteresis of the last one filed.
THEOREM NotificationsKeepUp == Spec => []ShownIsFresh
BY DeviceInit, DeviceStep, DeviceInvIsFresh, PTL DEF Spec
=============================================================================
