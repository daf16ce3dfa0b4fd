----------------------------- MODULE BleConnect -----------------------------
(***************************************************************************)
(* apps/ble_connect/main.c: a central that scans for a name, connects and  *)
(* starts a service discovery.  The SoftDevice queues its events; by the   *)
(* time an event is handled the link it speaks of may be gone.  Every      *)
(* error that a call returns halts the board.                              *)
(*                                                                         *)
(* The SoftDevice and the SDK's scanning and discovery modules are         *)
(* external: what they do is what the calls of main.c rely on.             *)
(***************************************************************************)
EXTENDS Naturals, Sequences

CONSTANTS
  MaxLinks,    \* bound: connections
  MaxEvents    \* bound: events that wait to be handled

ASSUME ConnectAssumption == {MaxLinks, MaxEvents} \subseteq Nat

VARIABLES
  board,       \* "boot", "running" or "halted"
  error,       \* the error code that halted it
  events,      \* the SoftDevice's events: their ids and links
  scanning,    \* the radio scans
  gap,         \* "idle", "connecting", "connected" or "disconnecting"
  link,        \* the number of the latest link
  discovery,   \* the link whose services are being discovered, or NoLink
  asked,       \* the peer waits for an answer to its request
  timed_out,   \* a GATT procedure on the link has timed out
  gave_up      \* history: an attempt to connect has timed out

radio == <<scanning, gap, link, discovery, asked, timed_out, gave_up>>
vars == <<board, error, events, radio>>

NoLink == 0
Requests == {"BLE_GAP_EVT_CONN_PARAM_UPDATE_REQUEST", "BLE_GAP_EVT_PHY_UPDATE_REQUEST"}
Timeouts == {"BLE_GATTC_EVT_TIMEOUT", "BLE_GATTS_EVT_TIMEOUT"}
EventIds ==
  Requests \union Timeouts \union
  {"BLE_GAP_EVT_ADV_REPORT", "BLE_GAP_EVT_CONNECTED", "BLE_GAP_EVT_DISCONNECTED",
   "BLE_GAP_EVT_TIMEOUT"}

Init ==
  /\ board = "boot" /\ error = "NRF_SUCCESS"
  /\ events = <<>>
  /\ scanning = FALSE /\ gap = "idle" /\ link = NoLink
  /\ discovery = NoLink /\ asked = FALSE /\ timed_out = FALSE /\ gave_up = FALSE

\* main: the modules are set up, the scan is started.
Boot ==
  /\ board = "boot" /\ board' = "running"
  /\ scanning' = TRUE
  /\ UNCHANGED <<error, events, gap, link, discovery, asked, timed_out, gave_up>>
-----------------------------------------------------------------------------
\* The SoftDevice and the peer.
Post(id, conn) ==
  /\ board = "running"
  /\ Len(events) < MaxEvents
  /\ events' = Append(events, [id |-> id, conn |-> conn])
  /\ UNCHANGED <<board, error>>

\* An advertisement that carries the name; scanning pauses until it is handled.
AdvReport ==
  /\ scanning
  /\ \A i \in DOMAIN events : events[i].id # "BLE_GAP_EVT_ADV_REPORT"
  /\ Post("BLE_GAP_EVT_ADV_REPORT", NoLink)
  /\ UNCHANGED radio

Established ==
  /\ gap = "connecting" /\ gap' = "connected"
  /\ link < MaxLinks /\ link' = link + 1
  /\ timed_out' = FALSE
  /\ Post("BLE_GAP_EVT_CONNECTED", link')
  /\ UNCHANGED <<scanning, discovery, asked, gave_up>>

ConnectionTimesOut ==
  /\ gap = "connecting" /\ gap' = "idle"
  /\ gave_up' = TRUE
  /\ Post("BLE_GAP_EVT_TIMEOUT", NoLink)
  /\ UNCHANGED <<scanning, link, discovery, asked, timed_out>>

LinkEnds ==
  /\ gap \in {"connected", "disconnecting"} /\ gap' = "idle"
  /\ asked' = FALSE
  /\ Post("BLE_GAP_EVT_DISCONNECTED", link)
  /\ UNCHANGED <<scanning, link, discovery, timed_out, gave_up>>

PeerAsks ==
  /\ gap = "connected" /\ ~ asked
  /\ asked' = TRUE
  /\ \E id \in Requests : Post(id, link)
  /\ UNCHANGED <<scanning, gap, link, discovery, timed_out, gave_up>>

GattTimesOut ==
  /\ gap = "connected" /\ ~ timed_out
  /\ timed_out' = TRUE
  /\ \E id \in Timeouts : Post(id, link)
  /\ UNCHANGED <<scanning, gap, link, discovery, asked, gave_up>>

\* db_disc_handler leaves out the call of ble_lbs_on_db_disc_evt, so that the
\* client of the LED button service never hears of it.
DiscoveryCompletes ==
  /\ board = "running"
  /\ discovery = link /\ gap = "connected"
  /\ discovery' = NoLink
  /\ UNCHANGED <<board, error, events, scanning, gap, link, asked, timed_out, gave_up>>

SoftDevice ==
  \/ AdvReport \/ Established \/ ConnectionTimesOut \/ LinkEnds \/ PeerAsks
  \/ GattTimesOut \/ DiscoveryCompletes
-----------------------------------------------------------------------------
\* An event is taken from the queue and goes to all observers in one interrupt.
Take(ids) ==
  /\ board = "running"
  /\ events # <<>> /\ Head(events).id \in ids
  /\ events' = Tail(events)

Alive(conn) == conn = link /\ gap = "connected"

\* What a call for the link conn returns.
Called(conn) ==
  CASE Alive(conn)                              -> "NRF_SUCCESS"
    [] conn = link /\ gap = "disconnecting"     -> "NRF_ERROR_INVALID_STATE"
    [] OTHER                                    -> "BLE_ERROR_INVALID_CONN_HANDLE"

\* app_error_fault_handler disables the interrupts and blinks for ever.
APP_ERROR_CHECK(err_code) ==
  /\ error' = err_code
  /\ board' = IF err_code = "NRF_SUCCESS" THEN "running" ELSE "halted"

\* nrf_ble_scan has found the name: connect_if_match.  A connect that fails comes
\* to scan_evt_handler as NRF_BLE_SCAN_EVT_CONNECTING_ERROR.
OnAdvReport ==
  /\ Take({"BLE_GAP_EVT_ADV_REPORT"})
  /\ scanning' = FALSE
  /\ IF gap = "idle" THEN gap' = "connecting" /\ APP_ERROR_CHECK("NRF_SUCCESS")
     ELSE APP_ERROR_CHECK("NRF_ERROR_CONN_COUNT") /\ UNCHANGED gap
  /\ UNCHANGED <<link, discovery, asked, timed_out, gave_up>>

\* Fault: scanning goes on for more peripherals.
OnConnectedRescan ==
  /\ Take({"BLE_GAP_EVT_CONNECTED"})
  /\ discovery' = Head(events).conn
  /\ scanning' = TRUE
  /\ APP_ERROR_CHECK(IF discovery # NoLink THEN "NRF_ERROR_BUSY" ELSE Called(Head(events).conn))
  /\ UNCHANGED <<gap, link, asked, timed_out, gave_up>>

\* ble_db_discovery_start, one discovery at a time.
OnConnected ==
  /\ Take({"BLE_GAP_EVT_CONNECTED"})
  /\ discovery' = Head(events).conn
  /\ APP_ERROR_CHECK(IF discovery # NoLink THEN "NRF_ERROR_BUSY" ELSE Called(Head(events).conn))
  /\ UNCHANGED <<scanning, gap, link, asked, timed_out, gave_up>>

\* Fault: the scan is not started again.
OnDisconnectedStop ==
  /\ Take({"BLE_GAP_EVT_DISCONNECTED"})
  /\ discovery' = NoLink
  /\ APP_ERROR_CHECK("NRF_SUCCESS")
  /\ UNCHANGED <<scanning, gap, link, asked, timed_out, gave_up>>

\* The discovery module forgets the link; scan_start, which fails while an attempt
\* to connect is under way.
OnDisconnected ==
  /\ Take({"BLE_GAP_EVT_DISCONNECTED"})
  /\ discovery' = NoLink
  /\ scanning' = TRUE
  /\ APP_ERROR_CHECK(IF gap = "connecting" THEN "NRF_ERROR_INVALID_STATE" ELSE "NRF_SUCCESS")
  /\ UNCHANGED <<gap, link, asked, timed_out, gave_up>>

\* "Connection request timed out." is all that is done.
OnTimeout ==
  /\ Take({"BLE_GAP_EVT_TIMEOUT"})
  /\ UNCHANGED <<board, error, radio>>

\* sd_ble_gap_conn_param_update, sd_ble_gap_phy_update.
OnRequest ==
  /\ Take(Requests)
  /\ APP_ERROR_CHECK(Called(Head(events).conn))
  /\ asked' = IF Alive(Head(events).conn) THEN FALSE ELSE asked
  /\ UNCHANGED <<scanning, gap, link, discovery, timed_out, gave_up>>

\* Fault: only the client's timeout counts.
OnClientTimeout ==
  /\ Take(Timeouts)
  /\ LET gone == Head(events).id = "BLE_GATTC_EVT_TIMEOUT"
     IN  /\ APP_ERROR_CHECK(IF gone THEN Called(Head(events).conn) ELSE "NRF_SUCCESS")
         /\ gap' = IF gone /\ Alive(Head(events).conn) THEN "disconnecting" ELSE gap
  /\ UNCHANGED <<scanning, link, discovery, asked, timed_out, gave_up>>

\* sd_ble_gap_disconnect.
OnGattTimeout ==
  /\ Take(Timeouts)
  /\ APP_ERROR_CHECK(Called(Head(events).conn))
  /\ gap' = IF Alive(Head(events).conn) THEN "disconnecting" ELSE gap
  /\ UNCHANGED <<scanning, link, discovery, asked, timed_out, gave_up>>

ble_evt_handler ==
  OnAdvReport \/ OnConnected \/ OnDisconnected \/ OnTimeout \/ OnRequest \/ OnGattTimeout

Halted == board = "halted" /\ UNCHANGED vars

Next == Boot \/ SoftDevice \/ ble_evt_handler \/ Halted

\* Interrupts are served.
Spec == Init /\ [][Next]_vars /\ WF_vars(ble_evt_handler)
-----------------------------------------------------------------------------
\* The board only halts for an event that came too late, when its link was gone or
\* going: never because a discovery or an attempt to connect was already under
\* way, however the events of two links lie in the queue.
HaltsOnlyForLateEvents ==
  \/ error \in {"NRF_SUCCESS", "BLE_ERROR_INVALID_CONN_HANDLE"}
  \/ error = "NRF_ERROR_INVALID_STATE" /\ gap = "disconnecting"

\* Once all events are handled, a central without a link looks for one, unless an
\* attempt to connect has timed out: that is only printed.
NeverIdle ==
  board = "running" /\ events = <<>> /\ gap = "idle" => scanning \/ gave_up

\* No link is left hanging: a peer that asks for parameters or a PHY is answered, or
\* its link ends, and a link on which GATT has timed out, and which can carry no
\* further request, is given up.
NoLinkHangs ==
  /\ asked ~> (~ asked \/ board = "halted")
  /\ (timed_out /\ gap = "connected") ~> (gap # "connected" \/ board = "halted")
=============================================================================
