-------------------------- MODULE BleConnectProofs --------------------------
(***************************************************************************)
(* The central's way through its links, for any number of links and any    *)
(* length of the event queue: a new link is never mixed up with the events *)
(* of the one before it.                                                   *)
(***************************************************************************)
EXTENDS BleConnect, TLAPS

Events == [id : EventIds, conn : Nat]

Waits(q, id) == \E i \in 1 .. Len(q) : q[i].id = id

Once(q, id) == \A i, j \in 1 .. Len(q) : q[i].id = id /\ q[j].id = id => i = j

OnlyLast(q, id) == \A i \in 1 .. Len(q) : q[i].id = id => i = Len(q)

Posted == Waits(events, "BLE_GAP_EVT_ADV_REPORT")
Connected == Waits(events, "BLE_GAP_EVT_CONNECTED")
Disconnected == Waits(events, "BLE_GAP_EVT_DISCONNECTED")

\* A link that has ended is silent: its last event is the last of the queue, since
\* nothing is looked for or connected until that event has been handled.
LastWord ==
  /\ OnlyLast(events, "BLE_GAP_EVT_DISCONNECTED")
  /\ Disconnected => gap = "idle" /\ ~ scanning

\* Nothing is left of an earlier link while another is looked for or being made.
CleanStart ==
  /\ scanning \/ Posted => gap = "idle"
  /\ scanning \/ Posted \/ gap = "connecting" =>
       discovery = NoLink /\ ~ Connected /\ ~ Disconnected
  /\ Connected => discovery = NoLink
  /\ Once(events, "BLE_GAP_EVT_ADV_REPORT") /\ Once(events, "BLE_GAP_EVT_CONNECTED")

\* The event of a link's end is what brings the scan back.
ScanComesBack ==
  board = "running" /\ gap = "idle" => scanning \/ gave_up \/ Disconnected

\* main has not started anything yet.
Booting == board = "boot" => events = <<>> /\ gap = "idle" /\ discovery = NoLink

\* Nothing goes on after an error.
Halting == error # "NRF_SUCCESS" => board = "halted"

ConnectInv ==
  /\ Booting /\ Halting
  /\ events \in Seq(Events) /\ link \in Nat
  /\ LastWord /\ CleanStart /\ ScanComesBack /\ HaltsOnlyForLateEvents

\* What appending an event does to the three operators.
LEMMA Appending ==
  ASSUME NEW q \in Seq(Events), NEW e \in Events, NEW id
  PROVE  /\ Append(q, e) \in Seq(Events)
         /\ Waits(Append(q, e), id) <=> Waits(q, id) \/ e.id = id
         /\ Once(q, id) /\ (e.id = id => ~ Waits(q, id)) => Once(Append(q, e), id)
         /\ ~ Waits(q, id) => OnlyLast(Append(q, e), id)
<1> DEFINE r == Append(q, e)
<1>1. /\ r \in Seq(Events) /\ Len(r) = Len(q) + 1 /\ Len(q) \in Nat
      /\ r[Len(q) + 1] = e
      /\ \A i \in 1 .. Len(q) : r[i] = q[i]
  OBVIOUS
<1>2. \A i \in 1 .. Len(r) : i \in 1 .. Len(q) \/ i = Len(q) + 1
  BY <1>1
<1>3. 1 .. Len(q) \subseteq 1 .. Len(r) /\ Len(q) + 1 \in 1 .. Len(r)
  BY <1>1
<1> HIDE DEF r
<1>4. Waits(r, id) <=> Waits(q, id) \/ e.id = id
  BY <1>1, <1>2, <1>3 DEF Waits
<1>5. Once(q, id) /\ (e.id = id => ~ Waits(q, id)) => Once(r, id)
  BY <1>1, <1>2 DEF Once, Waits
<1>6. ~ Waits(q, id) => OnlyLast(r, id)
  BY <1>1, <1>2 DEF OnlyLast, Waits
<1> QED BY <1>1, <1>4, <1>5, <1>6 DEF r

LEMMA EmptyLength == \A s \in Seq(Events) : Len(s) = 0 => s = <<>>
OBVIOUS

\* What taking the head does to them.
LEMMA Taking ==
  ASSUME NEW q \in Seq(Events), q # <<>>, NEW id
  PROVE  /\ Tail(q) \in Seq(Events) /\ Head(q) \in Events
         /\ Waits(q, id) <=> Waits(Tail(q), id) \/ Head(q).id = id
         /\ Once(q, id) => /\ Once(Tail(q), id)
                           /\ Head(q).id = id => ~ Waits(Tail(q), id)
         /\ OnlyLast(q, id) => /\ OnlyLast(Tail(q), id)
                               /\ Head(q).id = id => Tail(q) = <<>>
<1> DEFINE r == Tail(q)
<1>1. /\ r \in Seq(Events) /\ Len(q) = Len(r) + 1 /\ Len(r) \in Nat
      /\ Head(q) = q[1] /\ q[1] \in Events
      /\ \A i \in 1 .. Len(r) : r[i] = q[i + 1]
  OBVIOUS
<1>2. \A i \in 1 .. Len(q) : i = 1 \/ (i - 1 \in 1 .. Len(r) /\ (i - 1) + 1 = i)
  BY <1>1
<1>3. \A i \in 1 .. Len(r) : i + 1 \in 1 .. Len(q) /\ i + 1 # 1
  BY <1>1
<1>4. 1 \in 1 .. Len(q)
  BY <1>1
<1>5. Len(r) = 0 => r = <<>>
  BY <1>1, EmptyLength
<1>6. \A i \in 1 .. Len(q) : i = 1 \/ r[i - 1] = q[i]
  <2> TAKE i \in 1 .. Len(q)
  <2>1. CASE i # 1
    BY <1>1, <1>2, <2>1
  <2> QED BY <2>1
<1> HIDE DEF r
<1>7. Waits(q, id) <=> Waits(r, id) \/ Head(q).id = id
  <2>1. ASSUME NEW i \in 1 .. Len(q), q[i].id = id PROVE Waits(r, id) \/ Head(q).id = id
    BY <1>1, <1>2, <1>6, <2>1 DEF Waits
  <2>2. ASSUME NEW i \in 1 .. Len(r), r[i].id = id PROVE Waits(q, id)
    BY <1>1, <1>3, <2>2 DEF Waits
  <2>3. Head(q).id = id => Waits(q, id)
    BY <1>1, <1>4 DEF Waits
  <2> QED BY <2>1, <2>2, <2>3 DEF Waits
<1>8. ASSUME Once(q, id) PROVE Once(r, id) /\ (Head(q).id = id => ~ Waits(r, id))
  BY <1>1, <1>3, <1>4, <1>8 DEF Once, Waits
<1>9. ASSUME OnlyLast(q, id) PROVE OnlyLast(r, id) /\ (Head(q).id = id => r = <<>>)
  BY <1>1, <1>3, <1>4, <1>5, <1>9 DEF OnlyLast
<1> QED BY <1>1, <1>7, <1>8, <1>9 DEF r

LEMMA NothingWaits == \A id : ~ Waits(<<>>, id) /\ Once(<<>>, id) /\ OnlyLast(<<>>, id)
BY DEF Waits, Once, OnlyLast

\* The invariant holds at the start.
LEMMA ConnectInit == Init => ConnectInv
BY NothingWaits DEF Init, Booting, Halting, ConnectInv, LastWord, CleanStart, ScanComesBack,
   HaltsOnlyForLateEvents, Posted, Connected, Disconnected, NoLink

\* The SoftDevice appends its events.
LEMMA SoftDeviceStep ==
  ASSUME ConnectInv, SoftDevice
  PROVE  ConnectInv'
<1> USE DEF ConnectInv, Booting, Halting, Posted, Connected, Disconnected, NoLink
<1>1. ASSUME NEW id \in EventIds, NEW conn \in Nat, Post(id, conn)
      PROVE  /\ events' \in Seq(Events) /\ board = "running" /\ board' = board /\ error' = error
             /\ \A x : Waits(events', x) <=> Waits(events, x) \/ id = x
             /\ \A x : Once(events, x) /\ (id = x => ~ Waits(events, x)) => Once(events', x)
             /\ \A x : ~ Waits(events, x) => OnlyLast(events', x)
  <2>1. [id |-> id, conn |-> conn] \in Events /\ [id |-> id, conn |-> conn].id = id
    BY DEF Events
  <2> QED BY <1>1, <2>1, Appending DEF Post
<1>2. CASE AdvReport
  <2>1. Waits(events, "BLE_GAP_EVT_ADV_REPORT") => FALSE
    BY <1>2 DEF AdvReport, Waits
  <2> QED
    BY <1>1, <1>2, <2>1 DEF AdvReport, radio, LastWord, CleanStart, ScanComesBack,
       HaltsOnlyForLateEvents, EventIds
<1>3. CASE Established
  <2>1. link' \in Nat /\ Post("BLE_GAP_EVT_CONNECTED", link')
    BY <1>3 DEF Established
  <2>2. /\ events' \in Seq(Events) /\ board = "running" /\ board' = board /\ error' = error
        /\ ~ Disconnected' /\ ~ Posted'
        /\ OnlyLast(events', "BLE_GAP_EVT_DISCONNECTED")
        /\ Once(events', "BLE_GAP_EVT_ADV_REPORT") /\ Once(events', "BLE_GAP_EVT_CONNECTED")
    BY <1>1, <1>3, <2>1 DEF Established, EventIds, CleanStart, LastWord
  <2> QED BY <1>3, <2>1, <2>2 DEF Established, LastWord, CleanStart, ScanComesBack,
             HaltsOnlyForLateEvents
<1>4. CASE ConnectionTimesOut
  BY <1>1, <1>4 DEF ConnectionTimesOut, LastWord, CleanStart, ScanComesBack,
     HaltsOnlyForLateEvents, EventIds
<1>5. CASE LinkEnds
  <2>1. Post("BLE_GAP_EVT_DISCONNECTED", link) /\ ~ Disconnected /\ ~ Posted /\ ~ scanning
    BY <1>5 DEF LinkEnds, LastWord, CleanStart
  <2>2. /\ events' \in Seq(Events) /\ board = "running" /\ board' = board /\ error' = error
        /\ Disconnected' /\ ~ Posted' /\ (Connected' <=> Connected)
        /\ OnlyLast(events', "BLE_GAP_EVT_DISCONNECTED")
        /\ Once(events', "BLE_GAP_EVT_ADV_REPORT") /\ Once(events', "BLE_GAP_EVT_CONNECTED")
    BY <1>1, <2>1 DEF EventIds, CleanStart
  <2> QED BY <1>5, <2>1, <2>2 DEF LinkEnds, LastWord, CleanStart, ScanComesBack,
             HaltsOnlyForLateEvents
<1>6. CASE PeerAsks
  BY <1>1, <1>6 DEF PeerAsks, LastWord, CleanStart, ScanComesBack, HaltsOnlyForLateEvents,
     EventIds, Requests
<1>7. CASE GattTimesOut
  BY <1>1, <1>7 DEF GattTimesOut, LastWord, CleanStart, ScanComesBack, HaltsOnlyForLateEvents,
     EventIds, Timeouts
<1>8. CASE DiscoveryCompletes
  BY <1>8 DEF DiscoveryCompletes, LastWord, CleanStart, ScanComesBack, HaltsOnlyForLateEvents
<1> QED BY <1>2, <1>3, <1>4, <1>5, <1>6, <1>7, <1>8, SoftDevice DEF SoftDevice

\* The handler takes them.
LEMMA HandlerStep ==
  ASSUME ConnectInv, ble_evt_handler
  PROVE  ConnectInv'
<1> USE DEF ConnectInv, Booting, Halting, Posted, Connected, Disconnected, NoLink
<1>1. ASSUME NEW ids, Take(ids)
      PROVE  /\ events' \in Seq(Events) /\ board = "running" /\ Head(events).id \in ids
             /\ Head(events).conn \in Nat
             /\ \A x : Waits(events, x) <=> Waits(events', x) \/ Head(events).id = x
             /\ \A x : Once(events, x) => /\ Once(events', x)
                                          /\ Head(events).id = x => ~ Waits(events', x)
             /\ \A x : OnlyLast(events, x) => /\ OnlyLast(events', x)
                                              /\ Head(events).id = x => events' = <<>>
  BY <1>1, Taking DEF Take, Events
<1>2. CASE OnAdvReport
  BY <1>1, <1>2 DEF OnAdvReport, APP_ERROR_CHECK, LastWord, CleanStart, ScanComesBack,
     HaltsOnlyForLateEvents
<1>3. CASE OnConnected
  BY <1>1, <1>3 DEF OnConnected, APP_ERROR_CHECK, Called, Alive, LastWord, CleanStart,
     ScanComesBack, HaltsOnlyForLateEvents
<1>4. CASE OnDisconnected
  BY <1>1, <1>4, NothingWaits DEF OnDisconnected, APP_ERROR_CHECK, LastWord, CleanStart,
     ScanComesBack, HaltsOnlyForLateEvents
<1>5. CASE OnTimeout
  BY <1>1, <1>5 DEF OnTimeout, radio, LastWord, CleanStart, ScanComesBack,
     HaltsOnlyForLateEvents
<1>6. CASE OnRequest
  BY <1>1, <1>6 DEF OnRequest, Requests, APP_ERROR_CHECK, Called, Alive, LastWord, CleanStart,
     ScanComesBack, HaltsOnlyForLateEvents
<1>7. CASE OnGattTimeout
  BY <1>1, <1>7 DEF OnGattTimeout, Timeouts, APP_ERROR_CHECK, Called, Alive, LastWord,
     CleanStart, ScanComesBack, HaltsOnlyForLateEvents
<1> QED BY <1>2, <1>3, <1>4, <1>5, <1>6, <1>7 DEF ble_evt_handler

\* Every step keeps the invariant.
LEMMA ConnectStep == ConnectInv /\ [Next]_vars => ConnectInv'
<1> SUFFICES ASSUME ConnectInv, [Next]_vars PROVE ConnectInv'
  OBVIOUS
<1>1. CASE Boot
  BY <1>1, NothingWaits DEF Boot, Booting, Halting, ConnectInv, LastWord, CleanStart,
     ScanComesBack, HaltsOnlyForLateEvents, Posted, Connected, Disconnected, NoLink
<1>2. CASE SoftDevice
  BY <1>2, SoftDeviceStep
<1>3. CASE ble_evt_handler
  BY <1>3, HandlerStep
<1>4. CASE UNCHANGED vars
  BY <1>4 DEF vars, radio, Booting, Halting, ConnectInv, LastWord, CleanStart, ScanComesBack,
     HaltsOnlyForLateEvents, Posted, Connected, Disconnected
<1> QED BY <1>1, <1>2, <1>3, <1>4 DEF Next, Halted

LEMMA ConnectInvariant == Spec => []ConnectInv
<1>1. Init => ConnectInv BY ConnectInit
<1>2. ConnectInv /\ [Next]_vars => ConnectInv' BY ConnectStep
<1> QED BY <1>1, <1>2, PTL DEF Spec

\* The board halts for an event whose link is gone or going, and for no other.
THEOREM HaltsAreLate == Spec => []HaltsOnlyForLateEvents
<1>1. ConnectInv => HaltsOnlyForLateEvents BY DEF ConnectInv
<1> QED BY <1>1, ConnectInvariant, PTL

\* A central without a link looks for one, unless a connection has timed out.
THEOREM LooksForLinks == Spec => []NeverIdle
<1>1. ConnectInv => NeverIdle
  BY NothingWaits DEF ConnectInv, ScanComesBack, Disconnected, NeverIdle
<1> QED BY <1>1, ConnectInvariant, PTL
=============================================================================
