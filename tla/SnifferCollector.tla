-------------------------- MODULE SnifferCollector --------------------------
(***************************************************************************)
(* SnifferAPI/SnifferCollector.py, Devices.py and the calls of Sniffer.py: *)
(* the sniffer thread files what the board reports; another thread starts  *)
(* scans, follows devices and fetches packets.                             *)
(*                                                                         *)
(* A report is [kind, address, name, RSSI]: "adv" and "scan_rsp" carry the *)
(* advertiser's address, "other" stands for what names no device (requests,*)
(* data, packets that are not OK).  Whether a listed device is the object  *)
(* passed to follow is a choice: the extcap passes one of its own.         *)
(***************************************************************************)
EXTENDS Integers, SequencesExt

CONSTANTS
  Addresses, Names,
  NoName,          \* '""', the name of a device that sent none
  RSSIs,           \* signal strengths
  BufferLimit,     \* packets held before the oldest are dropped (100000)
  BufferTrim,      \* how many are dropped then (20000)
  FetchSizes,      \* arguments of getPackets, -1 among them
  MaxPackets       \* bound: event packets reported

ASSUME CollectorAssumption ==
  /\ NoName \in Names
  /\ RSSIs \subseteq Int /\ FetchSizes \subseteq Int
  /\ BufferLimit \in Nat /\ BufferTrim \in 1 .. BufferLimit
  /\ MaxPackets \in Nat

STATE_INITIALIZING == 0
STATE_SCANNING == 1
STATE_FOLLOWING == 2

VARIABLES
  state,           \* _state
  packets,         \* _packets, by their numbers
  devices,         \* _devices.devices, as records
  current,         \* the report between _appendPacket and the device list
  branched,        \* whether its first test of the state is done
  reported,        \* history: how many packets have been reported
  fetched,         \* history: the packets getPackets returned
  trimmed,         \* history: the packets dropped from the full buffer
  shown,           \* what a subscriber of the device notifications knows
  heard            \* history: the last RSSI filed for each address

vars ==
  <<state, packets, devices, current, branched, reported, fetched, trimmed,
    shown, heard>>

NoReport == [kind |-> "none"]

Reports ==
  [kind : {"adv", "scan_rsp"}, address : Addresses, name : Names, RSSI : RSSIs]
    \union {[kind |-> "other"]}

Init ==
  /\ state = STATE_INITIALIZING
  /\ packets = <<>> /\ devices = <<>>
  /\ current = NoReport /\ branched = FALSE
  /\ reported = 0 /\ fetched = <<>> /\ trimmed = {}
  /\ shown = [address \in {} |-> NoReport]
  /\ heard = [address \in {} |-> 0]
-----------------------------------------------------------------------------
\* _appendPacket drops the oldest packets of a full buffer.
Trimmed(list) ==
  IF Len(list) > BufferLimit THEN SubSeq(list, BufferTrim + 1, Len(list)) ELSE list

\* _processBLEPacket, up to the notification: the packet is filed and numbered.
ReceivePacket(report) ==
  /\ current = NoReport
  /\ reported < MaxPackets
  /\ reported' = reported + 1
  /\ packets' = Append(Trimmed(packets), reported + 1)
  /\ trimmed' = trimmed \union (ToSet(packets) \ ToSet(packets'))
  /\ current' = report
  /\ UNCHANGED <<state, devices, branched, fetched, shown, heard>>

Device(report) ==
  [address |-> report.address, name |-> report.name, RSSI |-> report.RSSI, followed |-> FALSE]

\* Small changes of the RSSI are not shown.
Moved(shownRSSI, newRSSI) == shownRSSI < newRSSI - 5 \/ shownRSSI > newRSSI + 2

\* Devices.find: the place of the first device with the address, if there is one.
Find(address) ==
  {i \in DOMAIN devices :
     /\ devices[i].address = address
     /\ \A j \in 1 .. i - 1 : devices[j].address # address}

\* Fault: a name that becomes known is not announced.
AnnouncedMoves(old, new) == new.RSSI # old.RSSI

\* Whether DEVICE_UPDATED is sent.
Announced(old, new) == new # old

\* appendOrUpdate: a new device is appended; of a known one the name is filled in
\* once and the RSSI follows.
appendOrUpdate(new) ==
  IF Find(new.address) = {}
  THEN /\ devices' = Append(devices, new)
       /\ shown' = [a \in DOMAIN shown \union {new.address} |->
                      IF a = new.address THEN new ELSE shown[a]]
  ELSE \E i \in Find(new.address) :
         LET old == devices[i]
             updated == [old EXCEPT !.name = IF @ = NoName THEN new.name ELSE @,
                                    !.RSSI = IF Moved(@, new.RSSI) THEN new.RSSI ELSE @]
         IN  /\ devices' = [devices EXCEPT ![i] = updated]
             /\ shown' = IF Announced(old, updated) THEN [shown EXCEPT ![old.address] = updated]
                         ELSE shown

\* The report goes to the device list.
ListDevice ==
  /\ appendOrUpdate(Device(current))
  /\ heard' = [a \in DOMAIN heard \union {current.address} |->
                 IF a = current.address THEN current.RSSI ELSE heard[a]]

\* The rest of _processBLEPacket reads the state twice, first to list the scan
\* responses of a followed device; a scan or a follow may come before either.
ListIfFollowing ==
  /\ current # NoReport /\ ~ branched
  /\ branched' = TRUE
  /\ IF state = STATE_FOLLOWING /\ current.kind = "scan_rsp"
       THEN ListDevice
       ELSE UNCHANGED <<devices, shown, heard>>
  /\ UNCHANGED <<state, packets, current, reported, fetched, trimmed>>

ListIfScanning ==
  /\ branched
  /\ branched' = FALSE /\ current' = NoReport
  /\ IF state = STATE_SCANNING /\ current.kind \in {"adv", "scan_rsp"}
       THEN ListDevice
       ELSE UNCHANGED <<devices, shown, heard>>
  /\ UNCHANGED <<state, packets, reported, fetched, trimmed>>
-----------------------------------------------------------------------------
\* _startScanning, scan.
scan ==
  /\ state' = STATE_SCANNING
  /\ UNCHANGED <<packets, devices, current, branched, reported, fetched, trimmed,
                 shown, heard>>

\* Fault: the device followed before keeps its mark.
MarkOneMore(i) == [devices EXCEPT ![i].followed = TRUE]

MarkFollowed(i) ==
  [j \in DOMAIN devices |-> [devices[j] EXCEPT !.followed = j = i]]

\* _startFollowing with a device of the list: setFollowed tests for the object.
FollowListed(i) ==
  /\ state' = STATE_FOLLOWING
  /\ devices' = MarkFollowed(i)
  /\ UNCHANGED <<packets, current, branched, reported, fetched, trimmed,
                 shown, heard>>

\* The same with an object of the caller's own: no device is marked.
FollowOther ==
  /\ state' = STATE_FOLLOWING
  /\ UNCHANGED <<packets, devices, current, branched, reported, fetched, trimmed,
                 shown, heard>>

\* How many elements list[0:number] has.
SliceLength(number, length) ==
  IF number >= 0 THEN (IF number < length THEN number ELSE length)
  ELSE IF length + number > 0 THEN length + number ELSE 0

\* Fault: the slices overlap.
RemainingAfterOverlap(n) == SubSeq(packets, IF n > 0 THEN n ELSE 1, Len(packets))

RemainingAfter(n) == SubSeq(packets, n + 1, Len(packets))

getPackets(number) ==
  LET n == SliceLength(number, Len(packets))
  IN  /\ fetched' = fetched \o SubSeq(packets, 1, n)
      /\ packets' = RemainingAfter(n)
  /\ UNCHANGED <<state, devices, current, branched, reported, trimmed, shown,
                 heard>>

Next ==
  \/ \E report \in Reports : ReceivePacket(report)
  \/ ListIfFollowing \/ ListIfScanning
  \/ scan \/ FollowOther
  \/ \E i \in DOMAIN devices : FollowListed(i)
  \/ \E number \in FetchSizes : getPackets(number)

Spec == Init /\ [][Next]_vars
-----------------------------------------------------------------------------
\* Every packet is in one place: fetched, in the buffer, or dropped from it as one
\* of the oldest.  Fetches never overlap nor leave a hole.
PacketsInOrder ==
  LET kept == fetched \o packets
  IN  /\ \A i, j \in DOMAIN kept : i < j => kept[i] < kept[j]
      /\ ToSet(kept) \union trimmed = 1 .. reported
      /\ \A old \in trimmed : \A i \in DOMAIN packets : old < packets[i]

\* A device is listed once, and at most one is marked as followed.
DevicesAreDistinct ==
  \A i, j \in DOMAIN devices :
    devices[i].address = devices[j].address \/ (devices[i].followed /\ devices[j].followed)
      => i = j

\* Whoever follows the notifications knows the list, each device's name and RSSI,
\* and the list does not drift away from what is heard: its RSSI lags the last one
\* by at most the hysteresis.
ShownIsFresh ==
  /\ DOMAIN shown = {devices[i].address : i \in DOMAIN devices}
  /\ \A i \in DOMAIN devices :
       LET view == shown[devices[i].address]
           last == heard[devices[i].address]
       IN  /\ view.name = devices[i].name /\ view.RSSI = devices[i].RSSI
           /\ view.RSSI \in last - 5 .. last + 2
=============================================================================
