-------------------------------- MODULE WsHub --------------------------------
(***************************************************************************)
(* pkg/ws/hub.go: the process-wide hub of WebSocket connections.  Every    *)
(* connection has a Client with a buffered send channel; the handler of    *)
(* the connection puts it into the map, reads until the socket fails, and  *)
(* then takes it out of the map, and closes the channel.                   *)
(*                                                                         *)
(* Broadcasts hold the hub's lock for reading while they send, and do not  *)
(* block: a message that finds the channel full is dropped.  What is in    *)
(* the channels is never read back and is left out; what matters of a      *)
(* broadcast is whom it sends to, as a send to a closed channel panics.    *)
(***************************************************************************)
CONSTANTS
  Clients,   \* connections; each connects at most once
  Keys,      \* userID-deviceID
  NoClient   \* the map has no entry for a key

ASSUME WsHubAssumption == NoClient \notin Clients /\ Keys # {}

VARIABLES
  clients,   \* Hub.clients
  hubKey,    \* hubKey[c]: the key c's handler computed
  stage      \* stage[c]: "new", "open", "leaving" (off the map), "closed"

hubVars == <<clients, hubKey, stage>>

HubTypeOK ==
  /\ clients \in [Keys -> Clients \cup {NoClient}]
  /\ hubKey \in [Clients -> Keys]
  /\ stage \in [Clients -> {"new", "open", "leaving", "closed"}]

HubInit ==
  /\ clients = [k \in Keys |-> NoClient]
  /\ hubKey \in [Clients -> Keys]
  /\ stage = [c \in Clients |-> "new"]

-----------------------------------------------------------------------------
\* Mutated Connect: the client is not put into the map.
ConnectUnlisted(c) ==
  /\ stage[c] = "new"
  /\ stage' = [stage EXCEPT ![c] = "open"]
  /\ UNCHANGED <<clients, hubKey>>

\* The client is put into the map, over any other with the same key.
Connect(c) ==
  /\ stage[c] = "new"
  /\ stage' = [stage EXCEPT ![c] = "open"]
  /\ clients' = [clients EXCEPT ![hubKey[c]] = c]
  /\ UNCHANGED hubKey

\* Mutated Leave: the entry stays in the map.
LeaveListed(c) ==
  /\ stage[c] = "open"
  /\ stage' = [stage EXCEPT ![c] = "leaving"]
  /\ UNCHANGED <<clients, hubKey>>

\* The reader loop is over: the entry of the key goes, whoever's it is by now.
Leave(c) ==
  /\ stage[c] = "open"
  /\ stage' = [stage EXCEPT ![c] = "leaving"]
  /\ clients' = [clients EXCEPT ![hubKey[c]] = NoClient]
  /\ UNCHANGED hubKey

\* close(client.send), outside the lock.
CloseSend(c) ==
  /\ stage[c] = "leaving"
  /\ stage' = [stage EXCEPT ![c] = "closed"]
  /\ UNCHANGED <<clients, hubKey>>

HubNext == \E c \in Clients : Connect(c) \/ Leave(c) \/ CloseSend(c)

HubSpec == HubInit /\ [][HubNext]_hubVars

\* Broadcast sends to these.
Listeners == {clients[k] : k \in Keys} \ {NoClient}

-----------------------------------------------------------------------------
\* No broadcast sends to a closed channel: although the channel is closed
\* outside the lock, and entries of the map are overwritten and deleted by
\* connections they do not belong to, every entry is an open connection.
ListenersAreOpen ==
  \A k \in Keys : clients[k] # NoClient =>
    /\ stage[clients[k]] = "open"
    /\ hubKey[clients[k]] = k

HubInv == HubTypeOK /\ ListenersAreOpen

\* A connection whose key no other connection uses is reached by every
\* broadcast for as long as it is open.
LoneClientIsListener ==
  \A c \in Clients :
    /\ stage[c] = "open"
    /\ \A d \in Clients \ {c} : hubKey[d] = hubKey[c] => stage[d] = "new"
    => clients[hubKey[c]] = c

\* hub.go:155, "Broadcast sends a message to all connected clients": a device
\* with a connection is sent to on one of its connections, if not on each.  A
\* device that reconnects before its old connection is found dead is taken off
\* the map by the old connection's handler, and reached on none.
BroadcastReachesAll ==
  \A c \in Clients : stage[c] = "open" => \E d \in Listeners : hubKey[d] = hubKey[c]
=============================================================================
