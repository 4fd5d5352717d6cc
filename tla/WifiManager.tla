---------------------------- MODULE WifiManager ----------------------------
(***************************************************************************)
(* class WifiManager (sw/src/wifiManager.cpp) in station mode, with the    *)
(* network stack and the radio under it as its environment.                *)
(*                                                                         *)
(* connect() runs in the caller's thread and waits on three binary         *)
(* semaphores; onWifiEvent runs in the network management thread, which is *)
(* cooperative: it can come between any two steps of the caller and runs   *)
(* to its end.  Nothing locks state, ipAddr or currentSSID.                *)
(*                                                                         *)
(* Time is left out: a wait with a timeout may end by its timeout whenever *)
(* its semaphore has not been given.                                       *)
(***************************************************************************)
EXTENDS Naturals, Sequences

CONSTANT
  MaxQueue   (* bound on the events the network stack has not delivered yet *)

ASSUME QueueAssumption == MaxQueue \in Nat \ {0}

VARIABLES
  state,     (* WifiState                                                   *)
  ipAddr,    (* there is an address in ipAddr                               *)
  ssid,      (* currentSSID is the configured network                       *)
  connectedSem, disconnectedSem, ipSem,   (* binary semaphores              *)
  wpc, ret,  (* where connect() is, and what it returned last               *)
  link, dhcp, leased,  (* the radio; the DHCP client runs; it has a lease   *)
  queue      (* events raised and not yet handled                           *)

manager == <<state, ipAddr, ssid>>
sems    == <<connectedSem, disconnectedSem, ipSem>>
network == <<link, dhcp, leased, queue>>
wvars   == <<manager, sems, wpc, ret, network>>

WifiStates == {"Disconnected", "Connecting", "Connected"}
Events     == {"connectOK", "connectFailed", "disconnected", "ipAdded"}
InConnect  == {"check", "disconnect", "waitDisconnected", "disconnectDone", "settle",
               "begin", "reset", "request", "waitConnected", "connectTimeout", "examine",
               "waitIP"}

WInit ==
  /\ state = "Disconnected" /\ ipAddr = FALSE /\ ssid = FALSE
  /\ connectedSem = 0 /\ disconnectedSem = 0 /\ ipSem = 0
  /\ wpc = "idle" /\ ret = "none"
  /\ link = "down" /\ dhcp = FALSE /\ leased = FALSE /\ queue = <<>>

-----------------------------------------------------------------------------
(* The radio and the DHCP client. *)

Raise(e) == /\ Len(queue) < MaxQueue
            /\ queue' = Append(queue, e)

JoinSucceeds ==
  /\ link = "joining" /\ link' = "up" /\ Raise("connectOK")
  /\ UNCHANGED <<dhcp, leased>>

JoinFails ==
  /\ link = "joining" /\ link' = "down" /\ Raise("connectFailed")
  /\ UNCHANGED <<dhcp, leased>>

(* The "ESP32 driver quirk": a disconnect event in the middle of a join. *)
SpuriousDisconnect ==
  /\ link = "joining" /\ Raise("disconnected")
  /\ UNCHANGED <<link, dhcp, leased>>

LinkLost ==
  /\ link = "up" /\ link' = "down" /\ leased' = FALSE /\ Raise("disconnected")
  /\ UNCHANGED dhcp

LeaseObtained ==
  /\ link = "up" /\ dhcp /\ ~leased /\ leased' = TRUE /\ Raise("ipAdded")
  /\ UNCHANGED <<link, dhcp>>

Radio ==
  /\ JoinSucceeds \/ JoinFails \/ SpuriousDisconnect \/ LinkLost \/ LeaseObtained
  /\ UNCHANGED <<manager, sems, wpc, ret>>

-----------------------------------------------------------------------------
(* onWifiEvent, for the event at the head of the queue. *)

(* Mutation of OnConnectResult: the semaphore counts instead of being binary. *)
OnConnectResultCounts ==
  /\ Head(queue) \in {"connectOK", "connectFailed"}
  /\ state' = IF Head(queue) = "connectOK" THEN "Connected" ELSE "Disconnected"
  /\ connectedSem' = connectedSem + 1
  /\ UNCHANGED <<ipAddr, ssid, disconnectedSem, ipSem>>

OnConnectResult ==
  /\ Head(queue) \in {"connectOK", "connectFailed"}
  /\ state' = IF Head(queue) = "connectOK" THEN "Connected" ELSE "Disconnected"
  /\ connectedSem' = 1
  /\ UNCHANGED <<ipAddr, ssid, disconnectedSem, ipSem>>

(* Mutation of OnDisconnectResult: ignored for as long as connect() runs. *)
OnDisconnectResultLater ==
  /\ Head(queue) = "disconnected"
  /\ IF wpc # "idle"
     THEN UNCHANGED <<manager, sems>>
     ELSE /\ state' = "Disconnected"
          /\ ipAddr' = FALSE
          /\ disconnectedSem' = 1
          /\ UNCHANGED <<ssid, connectedSem, ipSem>>

OnDisconnectResult ==
  /\ Head(queue) = "disconnected"
  /\ IF state = "Connecting"
     THEN UNCHANGED <<manager, sems>>
     ELSE /\ state' = "Disconnected"
          /\ ipAddr' = FALSE
          /\ disconnectedSem' = 1
          /\ UNCHANGED <<ssid, connectedSem, ipSem>>

OnAddressAdded ==
  /\ Head(queue) = "ipAdded"
  /\ ipAddr' = TRUE
  /\ ipSem' = 1
  /\ UNCHANGED <<state, ssid, connectedSem, disconnectedSem>>

OnWifiEvent ==
  /\ queue # <<>>
  /\ OnConnectResult \/ OnDisconnectResult \/ OnAddressAdded
  /\ queue' = Tail(queue)
  /\ UNCHANGED <<wpc, ret, link, dhcp, leased>>

-----------------------------------------------------------------------------
(* connect(ssid, password), step by step. *)

Step(from, to) == wpc = from /\ wpc' = to

Returns(result) == /\ wpc' = "idle"
                   /\ ret' = result

(* Already connected: nothing to do, or disconnect first. *)
CheckConnected ==
  /\ wpc = "check"
  /\ CASE state # "Connected" -> wpc' = "begin" /\ UNCHANGED ret
       [] state = "Connected" /\ ssid /\ ipAddr -> Returns("ok")
       [] OTHER -> wpc' = "disconnect" /\ UNCHANGED ret
  /\ UNCHANGED <<manager, sems, network>>

(* disconnect(): no request when an event has cleared the state already. *)
DisconnectRequest ==
  /\ wpc = "disconnect"
  /\ IF state = "Disconnected"
     THEN wpc' = "settle" /\ UNCHANGED network
     ELSE /\ wpc' = "waitDisconnected"
          /\ IF link = "down"
             THEN UNCHANGED <<link, leased, queue>>
             ELSE link' = "down" /\ leased' = FALSE /\ Raise("disconnected")
          /\ UNCHANGED dhcp
  /\ UNCHANGED <<manager, sems, ret>>

WaitDisconnected ==
  /\ Step("waitDisconnected", "disconnectDone")
  /\ disconnectedSem' = 0        \* taken, or zero already when the wait times out
  /\ UNCHANGED <<manager, connectedSem, ipSem, ret, network>>

DisconnectDone ==
  /\ Step("disconnectDone", "settle")
  /\ state' = "Disconnected" /\ ipAddr' = FALSE /\ ssid' = FALSE
  /\ UNCHANGED <<sems, ret, network>>

Settle ==
  /\ Step("settle", "begin")
  /\ UNCHANGED <<manager, sems, ret, network>>

BeginConnecting ==
  /\ Step("begin", "reset")
  /\ state' = "Connecting"
  /\ UNCHANGED <<ipAddr, ssid, sems, ret, network>>

ResetSemaphores ==
  /\ Step("reset", "request")
  /\ connectedSem' = 0 /\ ipSem' = 0
  /\ UNCHANGED <<manager, disconnectedSem, ret, network>>

(* The driver takes the request and starts to join, or refuses it. *)
ConnectRequest ==
  /\ wpc = "request"
  /\ \/ /\ link' = "joining" /\ leased' = FALSE
        /\ wpc' = "waitConnected" /\ ssid' = TRUE
        /\ UNCHANGED <<state, ret>>
     \/ /\ state' = "Disconnected"
        /\ Returns("refused")
        /\ UNCHANGED <<ssid, link, leased>>
  /\ UNCHANGED <<ipAddr, sems, dhcp, queue>>

WaitConnected ==
  /\ wpc = "waitConnected"
  /\ connectedSem' = 0
  /\ wpc' = IF connectedSem = 1 THEN "examine" ELSE "connectTimeout"
  /\ UNCHANGED <<manager, disconnectedSem, ipSem, ret, network>>

(* Mutation of ConnectTimeout: the state is not set back. *)
ConnectTimeoutKeeps ==
  /\ wpc = "connectTimeout"
  /\ Returns("timeout")
  /\ UNCHANGED <<manager, sems, network>>

ConnectTimeout ==
  /\ wpc = "connectTimeout"
  /\ state' = "Disconnected"
  /\ Returns("timeout")
  /\ UNCHANGED <<ipAddr, ssid, sems, network>>

(* The result: refused, or connected, and then the DHCP client is started. *)
ExamineResult ==
  /\ wpc = "examine"
  /\ IF state # "Connected"
     THEN Returns("refused") /\ UNCHANGED dhcp
     ELSE wpc' = "waitIP" /\ dhcp' = TRUE /\ UNCHANGED ret
  /\ UNCHANGED <<manager, sems, link, leased, queue>>

(* Mutation of WaitIP: no timeout. *)
WaitIPForever ==
  /\ wpc = "waitIP" /\ ipSem = 1
  /\ ipSem' = 0
  /\ Returns("ok")
  /\ UNCHANGED <<manager, connectedSem, disconnectedSem, network>>

WaitIP ==
  /\ wpc = "waitIP"
  /\ ipSem' = 0
  /\ Returns(IF ipSem = 1 THEN "ok" ELSE "timeout")
  /\ UNCHANGED <<manager, connectedSem, disconnectedSem, network>>

Connect ==
  \/ CheckConnected \/ DisconnectRequest \/ WaitDisconnected \/ DisconnectDone \/ Settle
  \/ BeginConnecting \/ ResetSemaphores \/ ConnectRequest \/ WaitConnected
  \/ ConnectTimeout \/ ExamineResult \/ WaitIP

(* connect() is called. *)
CallConnect ==
  /\ Step("idle", "check")
  /\ UNCHANGED <<manager, sems, ret, network>>

-----------------------------------------------------------------------------
(* The shape of every state. *)
WTypeOK ==
  /\ state \in WifiStates /\ ipAddr \in BOOLEAN /\ ssid \in BOOLEAN
  /\ connectedSem \in 0..1 /\ disconnectedSem \in 0..1 /\ ipSem \in 0..1
  /\ wpc \in InConnect \cup {"idle"} /\ ret \in {"none", "ok", "refused", "timeout"}
  /\ link \in {"down", "joining", "up"} /\ dhcp \in BOOLEAN /\ leased \in BOOLEAN
  /\ queue \in Seq(Events) /\ Len(queue) <= MaxQueue

(* The manager never stays in Connecting: outside of connect() the state   *)
(* is Connected or Disconnected, however the events of late or repeated    *)
(* attempts fall between the steps, so that no disconnect is ignored then. *)
ConnectingOnlyInConnect ==
  state = "Connecting" => wpc \in InConnect

(* A loss is never missed for good: once every event is handled, a manager *)
(* that says Connected has a link, or a join under way whose answer is     *)
(* still to come, wherever connect() is.                                   *)
ConnectedNotDown ==
  state = "Connected" /\ queue = <<>> => link # "down"
=============================================================================
