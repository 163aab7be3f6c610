------------------------------ MODULE PlaybackHub ------------------------------
(***************************************************************************)
(* pkg/ws/playback.go over the hub: a TV (receiver) that connects gets a   *)
(* device id and a session; a phone (controller) pairs with a device id;   *)
(* commands go from the phone to the TV, events from the TV to the phone.  *)
(*                                                                         *)
(* Every connection has one goroutine: it registers, handles one message   *)
(* after the other, and cleans up.  Forwarding a message takes three steps *)
(* of it, as the session is looked up under the lock of the hub, read      *)
(* under its own, and the message sent under none.  Device ids are fresh   *)
(* uuids: the id of a TV's session is the TV's connection itself.  Both    *)
(* kinds of client may send messages of every type, as the code looks at   *)
(* the type of the message only.  The hub's plain connections, devices     *)
(* that keep their key when they reconnect, are there beside them.         *)
(***************************************************************************)
EXTENDS WsHub

CONSTANTS
  Devices,   \* the Clients that are plain connections of the hub
  Receivers  \* the TVs among the other Clients; the rest are controllers

Players == Clients \ Devices

ASSUME PlaybackAssumption ==
  /\ Receivers \subseteq Players
  /\ Players \subseteq Keys   \* a playback client's key is its own

VARIABLES
  listed,      \* device ids in PlaybackHub.sessions
  controller,  \* controller[d]: PlaybackSession.Controller
  deviceOf,    \* deviceOf[c]: Client.deviceID
  gone,        \* connections that have called UnregisterPlayback
  fwd          \* fwd[c]: the message c's goroutine is forwarding

sessionVars == <<listed, controller, deviceOf, gone>>
vars == <<hubVars, sessionVars, fwd>>

Idle == [at |-> "idle"]
Panicked == [at |-> "panicked"]
Forwards == [at : {"lookedUp"}, kind : {"command", "event"}, dev : Receivers]
Sends == [at : {"read"}, kind : {"command", "event"}, dev : Receivers, to : Clients]

PlaybackTypeOK ==
  /\ HubTypeOK
  /\ listed \subseteq Receivers
  /\ controller \in [Receivers -> Clients \cup {NoClient}]
  /\ deviceOf \in [Clients -> Receivers \cup {NoClient}]
  /\ gone \subseteq Clients
  /\ fwd \in [Clients -> {Idle, Panicked} \cup Forwards \cup Sends]

PlaybackInit ==
  /\ HubInit
  /\ \A c \in Players : hubKey[c] = c
  /\ \A c \in Clients \cap Devices : hubKey[c] \notin Players
  /\ listed = {}
  /\ controller = [d \in Receivers |-> NoClient]
  /\ deviceOf = [c \in Clients |-> NoClient]
  /\ gone = {}
  /\ fwd = [c \in Clients |-> Idle]

-----------------------------------------------------------------------------
PlaybackConnect(c) ==
  /\ Connect(c)
  /\ UNCHANGED <<sessionVars, fwd>>

\* RegisterReceiver, before the TV's first message is read.
RegisterReceiver(c) ==
  /\ c \in Receivers
  /\ stage[c] = "open"
  /\ deviceOf[c] = NoClient
  /\ deviceOf' = [deviceOf EXCEPT ![c] = c]
  /\ listed' = listed \cup {c}
  /\ UNCHANGED <<hubVars, controller, gone, fwd>>

\* c's goroutine is in its reader loop.
Reading(c) ==
  /\ stage[c] = "open"
  /\ fwd[c] = Idle
  /\ c \in Receivers => deviceOf[c] # NoClient

\* A "pair" message for a session there is; for another it gets an error.
PairController(c, d) ==
  /\ Reading(c)
  /\ d \in listed
  /\ controller' = [controller EXCEPT ![d] = c]
  /\ deviceOf' = [deviceOf EXCEPT ![c] = d]
  /\ UNCHANGED <<hubVars, listed, gone, fwd>>

\* A "command" or an "event" of a client that has a device id: the session is
\* looked up; there may be none.
ForwardLooksUp(c, kind) ==
  /\ Reading(c)
  /\ deviceOf[c] \in listed
  /\ fwd' = [fwd EXCEPT ![c] = [at |-> "lookedUp", kind |-> kind, dev |-> deviceOf[c]]]
  /\ UNCHANGED <<hubVars, sessionVars>>

\* Whom the session has for a message of this kind.
Target(kind, d) == IF kind = "command" THEN d ELSE controller[d]

\* The session is read, be it listed still or not.
ForwardReads(c) ==
  /\ fwd[c].at = "lookedUp"
  /\ LET to == Target(fwd[c].kind, fwd[c].dev)
     IN  fwd' = [fwd EXCEPT ![c] =
           IF to = NoClient THEN Idle
           ELSE [at |-> "read", kind |-> fwd[c].kind, dev |-> fwd[c].dev, to |-> to]]
  /\ UNCHANGED <<hubVars, sessionVars>>

\* The message goes into the target's channel, or finds it full.
ForwardSends(c) ==
  /\ fwd[c].at = "read"
  /\ stage[fwd[c].to] # "closed"
  /\ fwd' = [fwd EXCEPT ![c] = Idle]
  /\ UNCHANGED <<hubVars, sessionVars>>

\* The target's channel is closed: the send panics, and the goroutine is left
\* with its deferred cleanup to do.
ForwardPanics(c) ==
  /\ fwd[c].at = "read"
  /\ stage[fwd[c].to] = "closed"
  /\ fwd' = [fwd EXCEPT ![c] = Panicked]
  /\ UNCHANGED <<hubVars, sessionVars>>

-----------------------------------------------------------------------------
\* The deferred cleanup, at the end of the reader loop or after a panic: the
\* entry of the hub goes ...
PlaybackLeave(c) ==
  /\ Reading(c) \/ fwd[c] = Panicked
  /\ Leave(c)
  /\ UNCHANGED <<sessionVars, fwd>>

\* Mutated UnregisterPlayback: only a TV's session is looked after; only a
\* phone is taken out of its session.
UnregisterReceiverOnly(c) ==
  /\ stage[c] = "leaving"
  /\ c \notin gone
  /\ gone' = gone \cup {c}
  /\ listed' = IF deviceOf[c] = c THEN listed \ {c} ELSE listed
  /\ UNCHANGED <<hubVars, controller, deviceOf, fwd>>

UnregisterControllerOnly(c) ==
  /\ stage[c] = "leaving"
  /\ c \notin gone
  /\ gone' = gone \cup {c}
  /\ controller' = IF deviceOf[c] \in listed /\ controller[deviceOf[c]] = c
                   THEN [controller EXCEPT ![deviceOf[c]] = NoClient]
                   ELSE controller
  /\ UNCHANGED <<hubVars, listed, deviceOf, fwd>>

\* ... then the client leaves the session of the device id it has: a TV takes
\* its session with it, a phone leaves the TV alone ...
UnregisterPlayback(c) ==
  /\ stage[c] = "leaving"
  /\ c \notin gone
  /\ gone' = gone \cup {c}
  /\ LET d == deviceOf[c]
     IN  \/ /\ d \in listed /\ d = c
            /\ listed' = listed \ {d}
            /\ UNCHANGED controller
         \/ /\ d \in listed /\ d # c /\ controller[d] = c
            /\ controller' = [controller EXCEPT ![d] = NoClient]
            /\ UNCHANGED listed
         \/ /\ d \in listed => d # c /\ controller[d] # c
            /\ UNCHANGED <<listed, controller>>
  /\ UNCHANGED <<hubVars, deviceOf, fwd>>

\* ... and the channel is closed.
PlaybackClose(c) ==
  /\ c \in gone
  /\ CloseSend(c)
  /\ UNCHANGED <<sessionVars, fwd>>

-----------------------------------------------------------------------------
ForwardStep(c) ==
  \/ \E kind \in {"command", "event"} : ForwardLooksUp(c, kind)
  \/ ForwardReads(c)
  \/ ForwardSends(c)
  \/ ForwardPanics(c)

PlayerStep(c) ==
  \/ PlaybackConnect(c)
  \/ RegisterReceiver(c)
  \/ \E d \in Receivers : PairController(c, d)
  \/ ForwardStep(c)
  \/ PlaybackLeave(c)
  \/ UnregisterPlayback(c)
  \/ PlaybackClose(c)

\* HandleWebSocket, the handler of a plain connection.
DeviceStep(c) ==
  /\ Connect(c) \/ Leave(c) \/ CloseSend(c)
  /\ UNCHANGED <<sessionVars, fwd>>

PlaybackNext ==
  \/ \E c \in Players : PlayerStep(c)
  \/ \E c \in Clients \cap Devices : DeviceStep(c)

PlaybackSpec == PlaybackInit /\ [][PlaybackNext]_vars

-----------------------------------------------------------------------------
\* A TV that keeps the device id it was given has its session from the moment
\* it knows the id until it has cleaned up, whatever phones come and go - and
\* no longer.
SessionForReceiver ==
  \A r \in Receivers :
    deviceOf[r] = r => (r \in listed <=> r \notin gone)

\* A session names a phone that has cleaned up only if that phone went on to
\* pair with another TV: phones that pair once leave nothing behind.
ControllerIsPresent ==
  \A d \in listed :
    controller[d] \in gone => deviceOf[controller[d]] # d

\* A panic's cause and the order of the cleanup: who has cleaned up is off the
\* hub's map, and a channel is closed after that.
CleanupOrder ==
  \A c \in Clients :
    /\ c \in gone => stage[c] \in {"leaving", "closed"}
    /\ stage[c] = "closed" => c \in gone \cup Devices

\* No session has an id that no TV has been given yet.
FreshIdUnused ==
  \A d \in Receivers :
    deviceOf[d] = NoClient => d \notin listed /\ controller[d] = NoClient

PlaybackInv ==
  /\ PlaybackTypeOK
  /\ ListenersAreOpen
  /\ SessionForReceiver
  /\ ControllerIsPresent
  /\ CleanupOrder
  /\ FreshIdUnused

-----------------------------------------------------------------------------
\* playback.go:127, "UnregisterPlayback removes a client from its playback
\* session.  Called on disconnect."  A phone that paired twice, or a TV that
\* paired, is removed from the session it paired with last only; the other
\* keeps a client whose channel is closed, and whoever forwards to it panics.
UnregisteredIsRemoved ==
  \A d \in listed : d \notin gone /\ controller[d] \notin gone
================================================================================
