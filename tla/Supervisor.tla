----------------------------- MODULE Supervisor -----------------------------
(***************************************************************************)
(* The main thread (sw/src/main.cpp): it brings WiFi up, starts the web    *)
(* server, and then looks once a second whether WiFi is still connected.   *)
(***************************************************************************)
EXTENDS WifiManager

CONSTANT
  Configured   (* CONFIG_WSPR_WIFI_SSID is not empty                        *)

ASSUME ConfiguredAssumption == Configured \in BOOLEAN

VARIABLES
  mpc,            (* where main() is                                        *)
  phase,          (* the caller of wifiConnectWithRetry                     *)
  wasConnected,   (* what main remembers of the last look                   *)
  webServer       (* the web server has been started                        *)

mvars == <<mpc, phase, wasConnected, webServer>>
vars  == <<wvars, mvars>>

IsConnected == state = "Connected"

Init ==
  /\ WInit
  /\ mpc = "start" /\ phase = "init" /\ wasConnected = FALSE /\ webServer = FALSE

Main(from, to) == /\ mpc = from
                  /\ mpc' = to

(* wifiConnectWithRetry: without an SSID it gives up at once. *)
ConnectWithRetry ==
  /\ mpc = "start"
  /\ IF Configured
     THEN CallConnect /\ mpc' = "connecting"
     ELSE mpc' = "startWeb" /\ UNCHANGED wvars
  /\ UNCHANGED <<phase, wasConnected, webServer>>

(* connect() returned: done, or another attempt after the delay. *)
ConnectReturned ==
  /\ mpc = "connecting" /\ wpc = "idle"
  /\ mpc' = CASE ret # "ok" -> "start"
              [] ret = "ok" /\ phase = "init" -> "startWeb"
              [] ret = "ok" /\ phase = "loop" -> "remember"
  /\ UNCHANGED <<wvars, phase, wasConnected, webServer>>

StartWebServer ==
  /\ Main("startWeb", "remember")
  /\ webServer' = TRUE /\ phase' = "loop"
  /\ UNCHANGED <<wvars, wasConnected>>

(* wasConnected is read again after the look, not set from it. *)
Remember ==
  /\ Main("remember", "sleep")
  /\ wasConnected' = IsConnected
  /\ UNCHANGED <<wvars, phase, webServer>>

(* Mutation of Look: what was remembered is overwritten before it is used. *)
LookForgetful ==
  /\ mpc = "sleep"
  /\ wasConnected' = IsConnected
  /\ mpc' = IF wasConnected' /\ ~IsConnected THEN "start" ELSE "remember"
  /\ UNCHANGED <<wvars, phase, webServer>>

Look ==
  /\ mpc = "sleep"
  /\ mpc' = IF wasConnected /\ ~IsConnected THEN "start" ELSE "remember"
  /\ UNCHANGED <<wvars, phase, wasConnected, webServer>>

MainStep ==
  \/ ConnectWithRetry \/ ConnectReturned \/ StartWebServer \/ Remember \/ Look
  \/ Connect /\ UNCHANGED mvars

Next ==
  \/ MainStep
  \/ OnWifiEvent /\ UNCHANGED mvars
  \/ Radio /\ UNCHANGED mvars

Spec == Init /\ [][Next]_vars

(* Both threads run; nothing is assumed of the radio. *)
FairSpec == Spec /\ WF_vars(MainStep) /\ WF_vars(OnWifiEvent /\ UNCHANGED mvars)
-----------------------------------------------------------------------------
(* The shape of every state. *)
TypeOK ==
  /\ WTypeOK
  /\ mpc \in {"start", "connecting", "startWeb", "remember", "sleep"}
  /\ phase \in {"init", "loop"} /\ wasConnected \in BOOLEAN /\ webServer \in BOOLEAN

(* A loss that main has remembered a connection for is repaired: main      *)
(* connects again, or the late answer to an earlier attempt has arrived.   *)
RememberedLossRepaired ==
  (mpc = "sleep" /\ wasConnected /\ ~IsConnected) ~> state \in {"Connecting", "Connected"}

(* connect() always returns: each of its waits ends. *)
ConnectReturns == (wpc # "idle") ~> (wpc = "idle")

(* main.cpp:158: main monitors the connection and reconnects if needed.    *)
LossRepaired ==
  (Configured /\ webServer /\ ~IsConnected) ~> state \in {"Connecting", "Connected"}
=============================================================================
