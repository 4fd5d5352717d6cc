-------------------------- MODULE SupervisorProofs --------------------------
(***************************************************************************)
(* Proofs about Supervisor and the WifiManager it drives, for every length *)
(* of the event queue and with or without a configured network.            *)
(***************************************************************************)
EXTENDS Supervisor, TLAPS

USE QueueAssumption, ConfiguredAssumption

(* An event raised finds room in the queue and is one of the events. *)
LEMMA RaiseType ==
  ASSUME queue \in Seq(Events), Len(queue) <= MaxQueue, NEW e \in Events, Raise(e)
  PROVE  queue' \in Seq(Events) /\ Len(queue') <= MaxQueue
  BY DEF Raise

(* The radio only raises events. *)
LEMMA RadioType ==
  ASSUME TypeOK, Radio, UNCHANGED mvars
  PROVE  TypeOK'
<1> USE DEF TypeOK, WTypeOK, mvars, manager, sems
<1>1. /\ link' \in {"down", "joining", "up"} /\ dhcp' \in BOOLEAN /\ leased' \in BOOLEAN
      /\ queue' \in Seq(Events) /\ Len(queue') <= MaxQueue
  <2>1. CASE JoinSucceeds
    BY <2>1, RaiseType DEF JoinSucceeds, Events
  <2>2. CASE JoinFails
    BY <2>2, RaiseType DEF JoinFails, Events
  <2>3. CASE SpuriousDisconnect
    BY <2>3, RaiseType DEF SpuriousDisconnect, Events
  <2>4. CASE LinkLost
    BY <2>4, RaiseType DEF LinkLost, Events
  <2>5. CASE LeaseObtained
    BY <2>5, RaiseType DEF LeaseObtained, Events
  <2>6. QED
    BY <2>1, <2>2, <2>3, <2>4, <2>5 DEF Radio
<1>2. QED
  BY <1>1 DEF Radio

(* Handling an event keeps the state well formed. *)
LEMMA EventType ==
  ASSUME TypeOK, OnWifiEvent, UNCHANGED mvars
  PROVE  TypeOK'
<1> USE DEF TypeOK, WTypeOK, mvars, manager, sems, WifiStates
<1>1. queue' \in Seq(Events) /\ Len(queue') <= MaxQueue
  BY DEF OnWifiEvent
<1>2. CASE OnConnectResult
  BY <1>1, <1>2 DEF OnWifiEvent, OnConnectResult
<1>3. CASE OnDisconnectResult
  <2>1. CASE state = "Connecting"
    BY <1>1, <1>3, <2>1 DEF OnDisconnectResult, OnWifiEvent
  <2>2. CASE ~(state = "Connecting")
    <3>1. state' = "Disconnected" /\ ipAddr' = FALSE /\ disconnectedSem' = 1
      BY <1>3, <2>2 DEF OnDisconnectResult
    <3>2. UNCHANGED <<ssid, connectedSem, ipSem, wpc, ret, link, dhcp, leased>>
      BY <1>3, <2>2 DEF OnDisconnectResult, OnWifiEvent
    <3>3. state' \in WifiStates /\ ipAddr' \in BOOLEAN
      BY <3>1
    <3>4. disconnectedSem' \in 0..1
      BY <3>1
    <3>5. ssid' \in BOOLEAN /\ connectedSem' \in 0..1 /\ ipSem' \in 0..1
      BY <3>2
    <3>6. QED
      BY <1>1, <3>2, <3>3, <3>4, <3>5
  <2>3. QED
    BY <2>1, <2>2
<1>4. CASE OnAddressAdded
  BY <1>1, <1>4 DEF OnWifiEvent, OnAddressAdded
<1>5. QED
  BY <1>2, <1>3, <1>4 DEF OnWifiEvent

(* Every step of connect() keeps the state well formed. *)
LEMMA ConnectType ==
  ASSUME TypeOK, Connect, UNCHANGED mvars
  PROVE  TypeOK'
<1> USE DEF TypeOK, WTypeOK, mvars, manager, sems, network, WifiStates, InConnect, Step, Returns
<1>1. CASE CheckConnected
  BY <1>1 DEF CheckConnected
<1>2. CASE DisconnectRequest
  <2>1. /\ link' \in {"down", "joining", "up"} /\ dhcp' \in BOOLEAN /\ leased' \in BOOLEAN
        /\ queue' \in Seq(Events) /\ Len(queue') <= MaxQueue
    <3>1. CASE state = "Disconnected"
      BY <1>2, <3>1 DEF DisconnectRequest
    <3>2. CASE state # "Disconnected" /\ link = "down"
      BY <1>2, <3>2 DEF DisconnectRequest
    <3>3. CASE state # "Disconnected" /\ link # "down"
      BY <1>2, <3>3, RaiseType DEF DisconnectRequest, Events
    <3>4. QED
      BY <3>1, <3>2, <3>3
  <2>2. wpc' \in InConnect
    BY <1>2 DEF DisconnectRequest
  <2>3. QED
    BY <1>2, <2>1, <2>2 DEF DisconnectRequest
<1>3. CASE WaitDisconnected
  BY <1>3 DEF WaitDisconnected
<1>4. CASE DisconnectDone
  BY <1>4 DEF DisconnectDone
<1>5. CASE Settle
  BY <1>5 DEF Settle
<1>6. CASE BeginConnecting
  BY <1>6 DEF BeginConnecting
<1>7. CASE ResetSemaphores
  BY <1>7 DEF ResetSemaphores
<1>8. CASE ConnectRequest
  <2>1. CASE wpc' = "waitConnected"
    <3>1. link' = "joining" /\ leased' = FALSE /\ ssid' = TRUE /\ UNCHANGED <<state, ret>>
      BY <1>8, <2>1 DEF ConnectRequest
    <3>2. UNCHANGED <<ipAddr, sems, dhcp, queue>>
      BY <1>8 DEF ConnectRequest
    <3>3. QED
      BY <2>1, <3>1, <3>2
  <2>2. CASE ~(wpc' = "waitConnected")
    BY <1>8, <2>2 DEF ConnectRequest
  <2>3. QED
    BY <2>1, <2>2
<1>9. CASE WaitConnected
  BY <1>9 DEF WaitConnected
<1>10. CASE ConnectTimeout
  BY <1>10 DEF ConnectTimeout
<1>11. CASE ExamineResult
  <2>1. CASE state = "Connected"
    BY <1>11, <2>1 DEF ExamineResult
  <2>2. CASE ~(state = "Connected")
    BY <1>11, <2>2 DEF ExamineResult
  <2>3. QED
    BY <2>1, <2>2
<1>12. CASE WaitIP
  BY <1>12 DEF WaitIP
<1>13. QED
  BY <1>1, <1>2, <1>3, <1>4, <1>5, <1>6, <1>7, <1>8, <1>9, <1>10, <1>11, <1>12 DEF Connect

(* The steps of main outside of connect(). *)
MainOwn == ConnectWithRetry \/ ConnectReturned \/ StartWebServer \/ Remember \/ Look

LEMMA MainType ==
  ASSUME TypeOK, MainOwn
  PROVE  TypeOK'
<1> USE DEF TypeOK, WTypeOK, wvars, manager, sems, network, InConnect, Main, Step
<1>1. CASE ConnectWithRetry
  BY <1>1 DEF ConnectWithRetry, CallConnect
<1>2. CASE ConnectReturned
  BY <1>2 DEF ConnectReturned
<1>3. CASE StartWebServer
  BY <1>3 DEF StartWebServer
<1>4. CASE Remember
  BY <1>4 DEF Remember, IsConnected
<1>5. CASE Look
  BY <1>5 DEF Look
<1>6. QED
  BY <1>1, <1>2, <1>3, <1>4, <1>5 DEF MainOwn

(* Type correctness, for every value of the constants. *)
THEOREM Typing == Spec => []TypeOK
<1>1. Init => TypeOK
  <2>1. <<>> \in Seq(Events) /\ Len(<<>>) <= MaxQueue
    OBVIOUS
  <2>2. 0 \in 0..1
    OBVIOUS
  <2>3. Init => WTypeOK
    BY <2>1, <2>2 DEF Init, WInit, WTypeOK, WifiStates, InConnect
  <2>4. QED
    BY <2>3 DEF Init, TypeOK
<1>2. TypeOK /\ [Next]_vars => TypeOK'
  <2> SUFFICES ASSUME TypeOK, [Next]_vars PROVE TypeOK'
    OBVIOUS
  <2>1. CASE Radio /\ UNCHANGED mvars
    BY <2>1, RadioType
  <2>2. CASE OnWifiEvent /\ UNCHANGED mvars
    BY <2>2, EventType
  <2>3. CASE Connect /\ UNCHANGED mvars
    BY <2>3, ConnectType
  <2>4. CASE MainOwn
    BY <2>4, MainType
  <2>5. CASE UNCHANGED vars
    BY <2>5 DEF vars, wvars, mvars, manager, sems, network, TypeOK, WTypeOK
  <2>6. QED
    BY <2>1, <2>2, <2>3, <2>4, <2>5 DEF Next, MainStep, MainOwn
<1>3. QED
  BY <1>1, <1>2, PTL DEF Spec

-----------------------------------------------------------------------------
(* Where connect() can be while the state is Connecting.  A semaphore that *)
(* is given after its reset comes with a result, so that connect() finds   *)
(* the state decided when it goes past the wait.                           *)
Deciding ==
  /\ state = "Connecting" => wpc \in {"reset", "request", "waitConnected", "connectTimeout"}
  /\ wpc \in {"request", "waitConnected"} /\ connectedSem = 1 => state # "Connecting"

(* The manager never stays in Connecting: outside of connect() it is       *)
(* Connected or Disconnected, so that no loss of the link is ignored.      *)
THEOREM NeverStuckConnecting == Spec => []ConnectingOnlyInConnect
<1>1. Init => Deciding
  BY DEF Init, WInit, Deciding
<1>2. TypeOK /\ Deciding /\ [Next]_vars => Deciding'
  <2> SUFFICES ASSUME TypeOK, Deciding, [Next]_vars PROVE Deciding'
    OBVIOUS
  <2>t. connectedSem \in 0..1 /\ wpc \in InConnect \cup {"idle"}
    BY DEF TypeOK, WTypeOK
  <2> USE DEF Deciding, manager, sems, network, wvars, Step, Returns, InConnect
  <2>1. CASE Radio
    BY <2>1 DEF Radio
  <2>2. CASE OnWifiEvent
    BY <2>2, <2>t DEF OnWifiEvent, OnConnectResult, OnDisconnectResult, OnAddressAdded
  <2>3. CASE CheckConnected
    BY <2>3, <2>t DEF CheckConnected
  <2>4. CASE DisconnectRequest
    BY <2>4, <2>t DEF DisconnectRequest
  <2>5. CASE WaitDisconnected
    BY <2>5, <2>t DEF WaitDisconnected
  <2>6. CASE DisconnectDone
    BY <2>6, <2>t DEF DisconnectDone
  <2>7. CASE Settle
    BY <2>7, <2>t DEF Settle
  <2>8. CASE BeginConnecting
    BY <2>8, <2>t DEF BeginConnecting
  <2>9. CASE ResetSemaphores
    BY <2>9, <2>t DEF ResetSemaphores
  <2>10. CASE ConnectRequest
    BY <2>10, <2>t DEF ConnectRequest
  <2>11. CASE WaitConnected
    BY <2>11, <2>t DEF WaitConnected
  <2>12. CASE ConnectTimeout
    BY <2>12, <2>t DEF ConnectTimeout
  <2>13. CASE ExamineResult
    BY <2>13, <2>t DEF ExamineResult
  <2>14. CASE WaitIP
    BY <2>14, <2>t DEF WaitIP
  <2>15. CASE MainOwn
    BY <2>15, <2>t DEF MainOwn, ConnectWithRetry, CallConnect, ConnectReturned, StartWebServer,
                      Remember, Look
  <2>16. CASE UNCHANGED vars
    BY <2>16 DEF vars
  <2>17. QED
    BY <2>1, <2>2, <2>3, <2>4, <2>5, <2>6, <2>7, <2>8, <2>9, <2>10, <2>11, <2>12, <2>13, <2>14, <2>15, <2>16 DEF Next, MainStep, MainOwn, Connect
<1>3. Deciding => ConnectingOnlyInConnect
  BY DEF Deciding, ConnectingOnlyInConnect, InConnect
<1>4. QED
  BY Typing, <1>1, <1>2, <1>3, PTL DEF Spec
-----------------------------------------------------------------------------
(* While there is no link, the last event not yet handled is the one that  *)
(* tells so; once it is handled, the manager is not Connected.             *)
LossKnown ==
  link = "down" =>
    IF queue = <<>> THEN state # "Connected"
                    ELSE queue[Len(queue)] \in {"connectFailed", "disconnected"}

(* The radio tells each loss after everything it told before. *)
LEMMA RadioTellsLoss ==
  ASSUME TypeOK, LossKnown, Radio
  PROVE  LossKnown'
<1>q. queue \in Seq(Events) /\ state' = state
  BY DEF TypeOK, WTypeOK, Radio, manager
<1> USE DEF LossKnown, Raise
<1>1. CASE JoinSucceeds
  BY <1>1, <1>q DEF JoinSucceeds
<1>2. CASE JoinFails
  <2>1. queue' = Append(queue, "connectFailed")
    BY <1>2 DEF JoinFails
  <2>2. QED
    BY <2>1, <1>q
<1>3. CASE SpuriousDisconnect
  BY <1>3, <1>q DEF SpuriousDisconnect
<1>4. CASE LinkLost
  <2>1. queue' = Append(queue, "disconnected")
    BY <1>4 DEF LinkLost
  <2>2. QED
    BY <2>1, <1>q
<1>5. CASE LeaseObtained
  BY <1>5, <1>q DEF LeaseObtained
<1>6. QED
  BY <1>1, <1>2, <1>3, <1>4, <1>5 DEF Radio

(* What is handled is the oldest event, so the loss stays the last one;    *)
(* and when the loss itself is handled, the manager is Connected no more.  *)
LEMMA HandlingKnowsLoss ==
  ASSUME TypeOK, LossKnown, OnWifiEvent
  PROVE  LossKnown'
<1>q. queue \in Seq(Events) /\ queue # <<>> /\ queue' = Tail(queue) /\ link' = link
  BY DEF TypeOK, WTypeOK, OnWifiEvent
<1>1. CASE Len(queue) = 1
  <2>1. queue' = <<>> /\ Head(queue) = queue[Len(queue)]
    BY <1>1, <1>q
  <2>2. link = "down" => Head(queue) \in {"connectFailed", "disconnected"}
    BY <2>1, <1>q DEF LossKnown
  <2>3. Head(queue) \in {"connectFailed", "disconnected"} => state' # "Connected"
    BY DEF OnWifiEvent, OnConnectResult, OnDisconnectResult, OnAddressAdded, manager
  <2>4. QED
    BY <2>1, <2>2, <2>3, <1>q DEF LossKnown
<1>2. CASE Len(queue) # 1
  <2>1. Len(queue) \in Nat /\ Len(queue) >= 2
    BY <1>2, <1>q
  <2>2. Len(queue') = Len(queue) - 1 /\ \A i \in 1..Len(queue') : queue'[i] = queue[i + 1]
    BY <2>1, <1>q
  <2>3. queue' # <<>> /\ queue'[Len(queue')] = queue[Len(queue)]
    BY <2>1, <2>2
  <2>4. QED
    BY <2>3, <1>q DEF LossKnown
<1>3. QED
  BY <1>1, <1>2

(* A manager that says Connected when all events are handled has a link,   *)
(* or is joining, for every length of the queue and every order in which   *)
(* joins, losses and their events fall between the steps of connect().     *)
THEOREM LossIsNoticed == Spec => []ConnectedNotDown
<1>1. Init => LossKnown
  BY DEF Init, WInit, LossKnown
<1>2. TypeOK /\ LossKnown /\ [Next]_vars => LossKnown'
  <2> SUFFICES ASSUME TypeOK, LossKnown, [Next]_vars PROVE LossKnown'
    OBVIOUS
  <2>1. CASE Radio
    BY <2>1, RadioTellsLoss
  <2>2. CASE OnWifiEvent
    BY <2>2, HandlingKnowsLoss
  <2>3. CASE DisconnectRequest
    <3>1. CASE UNCHANGED network
      BY <2>3, <3>1 DEF DisconnectRequest, LossKnown, network, manager
    <3>2. CASE ~UNCHANGED network
      <4>1. queue \in Seq(Events)
        BY DEF TypeOK, WTypeOK
      <4>2. queue' = Append(queue, "disconnected")
        BY <2>3, <3>2 DEF DisconnectRequest, Raise, network
      <4>3. QED
        BY <4>1, <4>2 DEF LossKnown
    <3>3. QED
      BY <3>1, <3>2
  <2>4. CASE ConnectRequest
    BY <2>4 DEF ConnectRequest, LossKnown, Returns
  <2>5. CASE \/ CheckConnected \/ WaitDisconnected \/ DisconnectDone \/ Settle
             \/ BeginConnecting \/ ResetSemaphores \/ WaitConnected \/ ConnectTimeout
             \/ ExamineResult \/ WaitIP
    <3>1. UNCHANGED <<link, queue>> /\ (state' = "Connected" => state = "Connected")
      BY <2>5 DEF CheckConnected, WaitDisconnected, DisconnectDone, Settle, BeginConnecting,
                  ResetSemaphores, WaitConnected, ConnectTimeout, ExamineResult, WaitIP,
                  manager, network
    <3>2. QED
      BY <3>1 DEF LossKnown
  <2>6. CASE MainOwn \/ UNCHANGED vars
    <3>1. UNCHANGED <<link, queue, state>>
      BY <2>6 DEF MainOwn, ConnectWithRetry, CallConnect, ConnectReturned, StartWebServer,
                  Remember, Look, vars, wvars, manager, network
    <3>2. QED
      BY <3>1 DEF LossKnown
  <2>7. QED
    BY <2>1, <2>2, <2>3, <2>4, <2>5, <2>6 DEF Next, MainStep, MainOwn, Connect
<1>3. LossKnown => ConnectedNotDown
  BY DEF LossKnown, ConnectedNotDown
<1>4. QED
  BY Typing, <1>1, <1>2, <1>3, PTL DEF Spec
=============================================================================
