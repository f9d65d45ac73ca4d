------------------------------ MODULE HubProofs ------------------------------
(***************************************************************************)
(* Proofs about the broadcast hub of realtime-monitor.py: the registry     *)
(* `clients`, register_client, broadcast_event and the request_state       *)
(* answer keep every connected subscriber on the current system_state.     *)
(***************************************************************************)
EXTENDS MonitorProofs

(***************************************************************************)
(* SubscribersUpToDate is not inductive alone: Connect opens a connection, *)
(* which would make a registered but never connected client live with an  *)
(* old view.  No such client exists: a connection that was never opened   *)
(* has its handler idle and is not in the registry.                       *)
(***************************************************************************)
NeverOpenedIdle ==
    \A c \in Clients : conn[c] = "none" => handler[c] = "idle" /\ c \notin clients

HubIInv == TypeOK /\ SubscribersUpToDate /\ NeverOpenedIdle

LEMMA HubIInvInit == Init => HubIInv
BY InitTypeOK DEF Init, HubIInv, SubscribersUpToDate, NeverOpenedIdle, Live

LEMMA HubIInvNext == HubIInv /\ [Next]_vars => HubIInv'
<1> SUFFICES ASSUME TypeOK, SubscribersUpToDate, NeverOpenedIdle, [Next]_vars
             PROVE  SubscribersUpToDate' /\ NeverOpenedIdle'
  BY NextTypeOK DEF HubIInv
<1> USE DEF SubscribersUpToDate, NeverOpenedIdle, Live
<1>1. CASE UNCHANGED <<systemState, conn, handler, clients, view>>
  BY <1>1
<1>2. CASE UpdateAllStats
  BY <1>2 DEF UpdateAllStats, BroadcastState, hubVars
<1>3. CASE MonitorStep /\ ~UpdateAllStats
  <2>1. UNCHANGED <<systemState, conn, handler, clients, view>>
    BY <1>3 DEF MonitorStep, DetectHardwareChanges, DetectPoolChanges,
              BroadcastChange, EndHardwareChanges, EndPoolChanges, hubVars
  <2>2. QED
    BY <1>1, <2>1
<1>4. CASE Hardware
  <2>1. UNCHANGED <<systemState, conn, handler, clients, view>>
    BY <1>4 DEF Hardware, DiskPlugged, DiskPulled, DiskHeats, PoolChange,
              PoolExported, PoolImported,
              monVars, hubVars
  <2>2. QED
    BY <1>1, <2>1
<1>5. ASSUME NEW c \in Clients, PeerStep(c) \/ HandlerStep(c)
      PROVE  SubscribersUpToDate' /\ NeverOpenedIdle'
  <2>1. CASE Connect(c)
    BY <2>1 DEF Connect, monVars, TypeOK
  <2>2. CASE SendAuth(c)
    BY <2>2 DEF SendAuth, monVars
  <2>3. CASE Disconnect(c)
    BY <2>3 DEF Disconnect, monVars, TypeOK
  <2>4. CASE ServeMessage(c)
    BY <2>4 DEF ServeMessage, monVars, TypeOK
  <2>5. CASE AuthNoMessage(c) \/ AuthRejected(c)
    BY <2>5 DEF AuthNoMessage, AuthRejected, monVars, TypeOK
  <2>6. CASE RegisterClient(c)
    BY <2>6 DEF RegisterClient, monVars, TypeOK
  <2>7. CASE UnregisterClient(c)
    BY <2>7 DEF UnregisterClient, monVars, TypeOK
  <2>8. QED
    BY <1>5, <2>1, <2>2, <2>3, <2>4, <2>5, <2>6, <2>7 DEF PeerStep, HandlerStep
<1>6. CASE UNCHANGED vars
  BY <1>6, <1>1 DEF vars, monVars, hubVars
<1>7. QED
  BY <1>2, <1>3, <1>4, <1>5, <1>6 DEF Next

(***************************************************************************)
(* Every registered and open connection holds the current system_state,    *)
(* however handshakes, requests and ticks interleave, for any number of    *)
(* clients: register_client sends the state at once, each tick broadcasts  *)
(* the new one to all registered connections, and request_state answers   *)
(* with it.                                                                *)
(***************************************************************************)
THEOREM SubscribersCurrent == Spec => []SubscribersUpToDate
<1>1. Init => HubIInv
  BY HubIInvInit
<1>2. HubIInv /\ [Next]_vars => HubIInv'
  BY HubIInvNext
<1>3. HubIInv => SubscribersUpToDate
  BY DEF HubIInv
<1>4. QED
  BY <1>1, <1>2, <1>3, PTL DEF Spec

=============================================================================
