-------------------------- MODULE PlaybackHub_proofs --------------------------
(***************************************************************************)
(* Proofs about the hub of WebSocket connections and the playback sessions *)
(* over it, for any number of connections.                                 *)
(***************************************************************************)
EXTENDS PlaybackHub, TLAPS

\* A connection that joins leaves every entry of the map an open connection.
LEMMA ConnectKeepsHub ==
  ASSUME HubInv, NEW c \in Clients, Connect(c)
  PROVE  HubInv'
BY WsHubAssumption DEF HubInv, HubTypeOK, ListenersAreOpen, Connect

\* So does one that leaves: if the entry of its key is another's, that one is
\* gone from the map too, but no entry is left that is closed.
LEMMA LeaveKeepsHub ==
  ASSUME HubInv, NEW c \in Clients, Leave(c)
  PROVE  HubInv'
BY WsHubAssumption DEF HubInv, HubTypeOK, ListenersAreOpen, Leave

\* A channel is closed when its connection has no entry any more.
LEMMA CloseKeepsHub ==
  ASSUME HubInv, NEW c \in Clients, CloseSend(c)
  PROVE  HubInv'
BY WsHubAssumption DEF HubInv, HubTypeOK, ListenersAreOpen, CloseSend

\* Every step of the hub keeps its invariant.
LEMMA HubStep ==
  ASSUME HubInv, [HubNext]_hubVars
  PROVE  HubInv'
<1>1. CASE HubNext
  BY <1>1, ConnectKeepsHub, LeaveKeepsHub, CloseKeepsHub DEF HubNext
<1>2. CASE UNCHANGED hubVars
  BY <1>2 DEF HubInv, HubTypeOK, ListenersAreOpen, hubVars
<1>3. QED
  BY <1>1, <1>2

\* hub.go: a broadcast, which sends to whatever the map holds, never sends to
\* a closed channel.
THEOREM HubCorrect == HubSpec => []HubInv
<1>1. HubInit => HubInv
  BY WsHubAssumption DEF HubInit, HubInv, HubTypeOK, ListenersAreOpen
<1>2. QED
  BY <1>1, HubStep, PTL DEF HubSpec

-----------------------------------------------------------------------------
\* hub.go: a connection whose key no other connection has used is reached by
\* every broadcast while it is open.
THEOREM LoneClientIsReached == HubSpec => []LoneClientIsListener
<1>1. HubInit => LoneClientIsListener
  BY DEF HubInit, LoneClientIsListener
<1>2. HubInv /\ LoneClientIsListener /\ [HubNext]_hubVars => LoneClientIsListener'
  <2> SUFFICES ASSUME HubInv, LoneClientIsListener, [HubNext]_hubVars
               PROVE  LoneClientIsListener'
    OBVIOUS
  <2>1. ASSUME NEW c \in Clients, Connect(c)
        PROVE  LoneClientIsListener'
    BY <2>1, WsHubAssumption DEF HubInv, HubTypeOK, LoneClientIsListener, Connect
  <2>2. ASSUME NEW c \in Clients, Leave(c)
        PROVE  LoneClientIsListener'
    BY <2>2, WsHubAssumption DEF HubInv, HubTypeOK, LoneClientIsListener, Leave
  <2>3. ASSUME NEW c \in Clients, CloseSend(c)
        PROVE  LoneClientIsListener'
    BY <2>3, WsHubAssumption DEF HubInv, HubTypeOK, LoneClientIsListener, CloseSend
  <2>4. CASE UNCHANGED hubVars
    BY <2>4 DEF LoneClientIsListener, hubVars
  <2>5. QED
    BY <2>1, <2>2, <2>3, <2>4 DEF HubNext
<1>3. QED
  BY <1>1, <1>2, HubCorrect, PTL DEF HubSpec

-----------------------------------------------------------------------------
\* A step of the playback hub is a step of the hub below it, or leaves it.
LEMMA PlaybackUsesHub ==
  ASSUME [PlaybackNext]_vars
  PROVE  [HubNext]_hubVars
BY DEF PlaybackNext, PlayerStep, DeviceStep, Players, HubNext, vars, PlaybackConnect,
       RegisterReceiver, PairController, ForwardStep, ForwardLooksUp, ForwardReads, ForwardSends, ForwardPanics,
       PlaybackLeave, UnregisterPlayback, PlaybackClose

\* What a session has for a message is a client, or nothing.
LEMMA TargetType ==
  ASSUME PlaybackTypeOK, NEW d \in Receivers, NEW kind \in {"command", "event"}
  PROVE  Target(kind, d) \in Clients \cup {NoClient}
BY PlaybackAssumption DEF PlaybackTypeOK, Players, Target

\* The steps of forwarding a message keep what a goroutine forwards well formed.
LEMMA ForwardType ==
  ASSUME PlaybackTypeOK, NEW c \in Clients, ForwardStep(c)
  PROVE  fwd' \in [Clients -> {Idle, Panicked} \cup Forwards \cup Sends]
<1>1. \A m : m = Idle \/ m = Panicked => m.at # "lookedUp" /\ m.at # "read"
  BY DEF Idle, Panicked
<1>2. \A m \in Sends : m.at # "lookedUp"
  BY DEF Sends
<1>3. fwd[c].at = "lookedUp" => fwd[c] \in Forwards
  BY <1>1, <1>2 DEF PlaybackTypeOK
<1>4. ASSUME NEW kind \in {"command", "event"}, ForwardLooksUp(c, kind)
      PROVE  fwd' \in [Clients -> {Idle, Panicked} \cup Forwards \cup Sends]
  <2>1. deviceOf[c] \in Receivers
    BY <1>4 DEF ForwardLooksUp, PlaybackTypeOK
  <2>2. [at |-> "lookedUp", kind |-> kind, dev |-> deviceOf[c]] \in Forwards
    BY <2>1 DEF Forwards
  <2>3. QED
    BY <1>4, <2>2 DEF ForwardLooksUp, PlaybackTypeOK
<1>5. ASSUME ForwardReads(c)
      PROVE  fwd' \in [Clients -> {Idle, Panicked} \cup Forwards \cup Sends]
  <2> DEFINE to == Target(fwd[c].kind, fwd[c].dev)
             send == [at |-> "read", kind |-> fwd[c].kind, dev |-> fwd[c].dev, to |-> to]
  <2>1. fwd[c].kind \in {"command", "event"} /\ fwd[c].dev \in Receivers
    BY <1>3, <1>5 DEF ForwardReads, Forwards
  <2>2. to \in Clients \cup {NoClient}
    BY <2>1, TargetType
  <2>3. to # NoClient => send \in Sends
    BY <2>1, <2>2 DEF Sends
  <2>4. fwd' = [fwd EXCEPT ![c] = IF to = NoClient THEN Idle ELSE send]
    BY <1>5 DEF ForwardReads
  <2>5. QED
    BY <2>3, <2>4 DEF PlaybackTypeOK
<1>6. ASSUME ForwardSends(c) \/ ForwardPanics(c)
      PROVE  fwd' \in [Clients -> {Idle, Panicked} \cup Forwards \cup Sends]
  BY <1>6 DEF ForwardSends, ForwardPanics, PlaybackTypeOK
<1>7. QED
  BY <1>4, <1>5, <1>6 DEF ForwardStep

\* There are no sessions at the start.
LEMMA PlaybackInitInv == PlaybackInit => PlaybackInv
<1> SUFFICES ASSUME PlaybackInit
             PROVE  PlaybackInv
  OBVIOUS
<1>1. HubTypeOK /\ ListenersAreOpen
  BY WsHubAssumption DEF PlaybackInit, HubInit, HubTypeOK, ListenersAreOpen
<1>2. PlaybackTypeOK
  BY <1>1, WsHubAssumption, PlaybackAssumption DEF PlaybackInit, PlaybackTypeOK
<1>3. SessionForReceiver /\ ControllerIsPresent /\ FreshIdUnused
  BY WsHubAssumption, PlaybackAssumption
     DEF PlaybackInit, Players, SessionForReceiver, ControllerIsPresent, FreshIdUnused
<1>4. CleanupOrder
  BY DEF PlaybackInit, HubInit, CleanupOrder
<1>5. QED
  BY <1>1, <1>2, <1>3, <1>4 DEF PlaybackInv

\* Every step keeps the invariant of the sessions.
LEMMA PlaybackStep ==
  ASSUME PlaybackInv, [PlaybackNext]_vars
  PROVE  PlaybackInv'
<1>t. PlaybackTypeOK /\ NoClient \notin gone
  BY WsHubAssumption DEF PlaybackInv, PlaybackTypeOK
<1>h. HubTypeOK' /\ ListenersAreOpen'
  BY PlaybackUsesHub, HubStep DEF PlaybackInv, PlaybackTypeOK, HubInv
<1> USE DEF PlaybackInv
<1>1. ASSUME NEW c \in Clients, PlaybackConnect(c)
      PROVE  PlaybackInv'
  <2>1. UNCHANGED <<listed, controller, deviceOf, gone, fwd>>
    BY <1>1 DEF PlaybackConnect, sessionVars
  <2>2. PlaybackTypeOK' /\ SessionForReceiver' /\ ControllerIsPresent' /\ FreshIdUnused'
    BY <1>h, <2>1 DEF PlaybackTypeOK, SessionForReceiver, ControllerIsPresent, FreshIdUnused
  <2>3. CleanupOrder'
    BY <1>t, <1>1, <2>1 DEF CleanupOrder, PlaybackTypeOK, HubTypeOK, PlaybackConnect, Connect
  <2>4. QED
    BY <1>h, <2>2, <2>3
<1>2. ASSUME NEW c \in Clients, RegisterReceiver(c)
      PROVE  PlaybackInv'
  <2>1. PlaybackTypeOK'
    BY <1>h, <1>t, <1>2 DEF PlaybackTypeOK, RegisterReceiver
  <2>2. c \notin gone
    BY <1>2 DEF RegisterReceiver, CleanupOrder
  <2>3. SessionForReceiver'
    BY <1>t, <1>2, <2>2 DEF PlaybackTypeOK, SessionForReceiver, RegisterReceiver
  <2>4. ControllerIsPresent'
    BY <1>t, <1>2, <2>2 DEF PlaybackTypeOK, ControllerIsPresent, FreshIdUnused, RegisterReceiver
  <2>5. CleanupOrder' /\ FreshIdUnused'
    BY <1>t, <1>2, WsHubAssumption
       DEF PlaybackTypeOK, CleanupOrder, FreshIdUnused, RegisterReceiver, hubVars
  <2>6. QED
    BY <1>h, <2>1, <2>3, <2>4, <2>5
<1>3. ASSUME NEW c \in Clients, NEW d \in Receivers, PairController(c, d)
      PROVE  PlaybackInv'
  <2>1. PlaybackTypeOK'
    BY <1>h, <1>t, <1>3 DEF PlaybackTypeOK, PairController
  <2>2. c \notin gone
    BY <1>3 DEF PairController, Reading, CleanupOrder
  <2>3. SessionForReceiver'
    <3>1. d \in Clients /\ (d = c => d \notin gone)
      BY <2>2, PlaybackAssumption DEF Players
    <3>2. QED
      BY <1>t, <1>3, <2>2, <3>1 DEF PlaybackTypeOK, SessionForReceiver, PairController
  <2>4. ControllerIsPresent'
    BY <1>t, <1>3, <2>2 DEF PlaybackTypeOK, ControllerIsPresent, PairController
  <2>5. CleanupOrder'
    BY <1>3 DEF CleanupOrder, PairController, hubVars
  <2>6. FreshIdUnused'
    BY <1>t, <1>3, WsHubAssumption, PlaybackAssumption
       DEF PlaybackTypeOK, Players, FreshIdUnused, PairController
  <2>7. QED
    BY <1>h, <2>1, <2>3, <2>4, <2>5, <2>6
<1>4. ASSUME NEW c \in Clients, ForwardStep(c)
      PROVE  PlaybackInv'
  <2>1. UNCHANGED <<hubVars, sessionVars>>
    BY <1>4 DEF ForwardStep, ForwardLooksUp, ForwardReads, ForwardSends, ForwardPanics
  <2>2. PlaybackTypeOK'
    BY <1>h, <1>t, <1>4, <2>1, ForwardType DEF PlaybackTypeOK, sessionVars
  <2>3. QED
    BY <1>h, <2>1, <2>2 DEF SessionForReceiver, ControllerIsPresent, CleanupOrder, FreshIdUnused,
                            sessionVars, hubVars
<1>5. ASSUME NEW c \in Clients, PlaybackLeave(c)
      PROVE  PlaybackInv'
  <2>1. UNCHANGED <<listed, controller, deviceOf, gone, fwd>>
    BY <1>5 DEF PlaybackLeave, sessionVars
  <2>2. PlaybackTypeOK' /\ SessionForReceiver' /\ ControllerIsPresent' /\ FreshIdUnused'
    BY <1>h, <2>1 DEF PlaybackTypeOK, SessionForReceiver, ControllerIsPresent, FreshIdUnused
  <2>3. CleanupOrder'
    BY <1>t, <1>5, <2>1 DEF CleanupOrder, PlaybackTypeOK, HubTypeOK, PlaybackLeave, Leave
  <2>4. QED
    BY <1>h, <2>2, <2>3
<1>6. ASSUME NEW c \in Clients, UnregisterPlayback(c)
      PROVE  PlaybackInv'
  <2>1. PlaybackTypeOK'
    BY <1>h, <1>t, <1>6 DEF PlaybackTypeOK, UnregisterPlayback
  <2>2. SessionForReceiver'
    BY <1>t, <1>6 DEF PlaybackTypeOK, SessionForReceiver, UnregisterPlayback
  <2>3. ControllerIsPresent'
    <3> SUFFICES ASSUME NEW d \in listed', controller'[d] \in gone'
                 PROVE  deviceOf'[controller'[d]] # d
      BY DEF ControllerIsPresent
    <3>1. d \in listed /\ d \in Receivers
      BY <1>t, <1>6 DEF PlaybackTypeOK, UnregisterPlayback
    <3>2. deviceOf' = deviceOf /\ gone' = gone \cup {c}
      BY <1>6 DEF UnregisterPlayback
    <3>3. \/ controller'[d] = controller[d]
          \/ controller'[d] = NoClient
      BY <1>t, <1>6, <3>1 DEF PlaybackTypeOK, UnregisterPlayback
    <3>4. NoClient \notin gone'
      BY <1>t, <3>2, WsHubAssumption
    <3>5. controller'[d] = controller[d] /\ controller[d] \in gone \cup {c}
      BY <3>2, <3>3, <3>4
    <3>6. CASE controller[d] \in gone
      BY <3>1, <3>2, <3>5, <3>6 DEF ControllerIsPresent
    <3>7. CASE controller[d] = c /\ deviceOf[c] = d
      BY <1>t, <1>6, <3>1, <3>4, <3>5, <3>7 DEF PlaybackTypeOK, UnregisterPlayback
    <3>8. CASE controller[d] = c /\ deviceOf[c] # d
      BY <3>2, <3>5, <3>8
    <3>9. QED
      BY <3>5, <3>6, <3>7, <3>8
  <2>4. CleanupOrder'
    BY <1>t, <1>6 DEF PlaybackTypeOK, CleanupOrder, UnregisterPlayback, hubVars
  <2>5. FreshIdUnused'
    BY <1>t, <1>6 DEF PlaybackTypeOK, FreshIdUnused, UnregisterPlayback
  <2>6. QED
    BY <1>h, <2>1, <2>2, <2>3, <2>4, <2>5
<1>7. ASSUME NEW c \in Clients, PlaybackClose(c)
      PROVE  PlaybackInv'
  <2>1. UNCHANGED <<listed, controller, deviceOf, gone, fwd>>
    BY <1>7 DEF PlaybackClose, sessionVars
  <2>2. PlaybackTypeOK' /\ SessionForReceiver' /\ ControllerIsPresent' /\ FreshIdUnused'
    BY <1>h, <2>1 DEF PlaybackTypeOK, SessionForReceiver, ControllerIsPresent, FreshIdUnused
  <2>3. CleanupOrder'
    BY <1>t, <1>7, <2>1 DEF CleanupOrder, PlaybackTypeOK, HubTypeOK, PlaybackClose, CloseSend
  <2>4. QED
    BY <1>h, <2>2, <2>3
<1>8. ASSUME NEW c \in Clients, c \in Devices, DeviceStep(c)
      PROVE  PlaybackInv'
  <2>1. UNCHANGED <<listed, controller, deviceOf, gone, fwd>>
    BY <1>8 DEF DeviceStep, sessionVars
  <2>2. PlaybackTypeOK' /\ SessionForReceiver' /\ ControllerIsPresent' /\ FreshIdUnused'
    BY <1>h, <2>1 DEF PlaybackTypeOK, SessionForReceiver, ControllerIsPresent, FreshIdUnused
  <2>3. CleanupOrder'
    BY <1>t, <1>8, <2>1
       DEF CleanupOrder, PlaybackTypeOK, HubTypeOK, DeviceStep, Connect, Leave, CloseSend
  <2>4. QED
    BY <1>h, <2>2, <2>3
<1>9. CASE UNCHANGED vars
  BY <1>h, <1>9 DEF vars, sessionVars, hubVars, PlaybackTypeOK, SessionForReceiver,
                    ControllerIsPresent, CleanupOrder, FreshIdUnused
<1>10. QED
  BY <1>1, <1>2, <1>3, <1>4, <1>5, <1>6, <1>7, <1>8, <1>9
     DEF PlaybackNext, PlayerStep, Players

\* playback.go: the invariant of the sessions holds in every reachable state,
\* whatever messages the clients send and in whatever order they come and go.
THEOREM PlaybackCorrect == PlaybackSpec => []PlaybackInv
BY PlaybackInitInv, PlaybackStep, PTL DEF PlaybackSpec

\* With playback clients on the hub the same holds of it.
COROLLARY LoneDeviceIsReached == PlaybackSpec => []LoneClientIsListener
<1>1. PlaybackInit => HubInit
  BY DEF PlaybackInit
<1>2. PlaybackSpec => HubSpec
  BY <1>1, PlaybackUsesHub, PTL DEF PlaybackSpec, HubSpec
<1>3. QED
  BY <1>2, LoneClientIsReached, PTL

\* playback.go: a TV that keeps its id has its session until it has cleaned up.
THEOREM ReceiverHasSession == PlaybackSpec => []SessionForReceiver
<1>1. PlaybackInv => SessionForReceiver
  BY DEF PlaybackInv
<1>2. QED
  BY <1>1, PlaybackCorrect, PTL

\* playback.go: a phone that paired once and has cleaned up is in no session.
THEOREM NoControllerLeftBehind == PlaybackSpec => []ControllerIsPresent
<1>1. PlaybackInv => ControllerIsPresent
  BY DEF PlaybackInv
<1>2. QED
  BY <1>1, PlaybackCorrect, PTL
=============================================================================
