------------------------------- MODULE SyncPlay -------------------------------
(***************************************************************************)
(* pkg/syncplay: rooms in which users watch together.  A room is made by   *)
(* anyone for any id, joined and left; whoever sends a state changes the   *)
(* room and its other members are told, one after the other, through the   *)
(* hub.  The manager's lock is held all through, also while it tells.      *)
(*                                                                         *)
(* BroadcastToUser of the hub (pkg/ws/hub.go) puts a message into the      *)
(* channels of the connections whose key begins with the user's id, and    *)
(* drops it where the channel is full.  The item and the time of the last  *)
(* update are left out.                                                    *)
(***************************************************************************)
CONSTANTS
  SpUsers, SpRooms,
  IdBegins,    \* <<u, v>>: the id of v begins with that of u, as that of u does
  SpStates,    \* what a message says of the playback: state and position
  Paused0,     \* of them: paused at the beginning
  NoRoom

VARIABLES
  rooms,    \* id -> [host, members, state], or NoRoom
  telling,  \* the UpdateState that holds the manager's lock, or NoRoom
  screens,  \* history: the state of the room last sent to each user, or got from
            \* it, since the room was made and the user left, or NoRoom
  behind,   \* history: <<room, user>>: the room's state was not sent to the user
  inside    \* history: <<room, user>> that have joined the room there is since
            \* it was made and have not left

syncVars == <<rooms, telling, screens, behind, inside>>

Rooms == [host : SpUsers, members : SUBSET SpUsers, state : SpStates]

\* The room and the members yet to be told of its new state.
Tellings == [room : SpRooms, left : SUBSET SpUsers]

ASSUME SyncAssumption ==
  /\ IdBegins \subseteq SpUsers \X SpUsers
  /\ Paused0 \in SpStates /\ NoRoom \notin Rooms /\ NoRoom \notin Tellings

SyncInit ==
  /\ rooms = [r \in SpRooms |-> NoRoom]
  /\ screens = [r \in SpRooms |-> [u \in SpUsers |-> NoRoom]]
  /\ telling = NoRoom /\ behind = {} /\ inside = {}

Locked == telling # NoRoom

\* CreateRoom: a room of that id is replaced and its members are not told.
CreateRoom(r, u) ==
  /\ ~Locked
  /\ rooms' = [rooms EXCEPT ![r] = [host |-> u, members |-> {u}, state |-> Paused0]]
  /\ screens' = [screens EXCEPT ![r] = [v \in SpUsers |-> NoRoom]]
  /\ inside' = {e \in inside : e[1] # r} \cup {<<r, u>>}
  /\ behind' = {e \in behind : e[1] # r}
  /\ UNCHANGED telling

\* JoinRoom; the one who joins is not told the state.
JoinRoom(r, u) ==
  /\ ~Locked
  /\ rooms[r] # NoRoom
  /\ rooms' = [rooms EXCEPT ![r].members = @ \cup {u}]
  /\ inside' = inside \cup {<<r, u>>}
  /\ UNCHANGED <<telling, screens, behind>>

\* Mutated LeaveRoom: the room goes with its host.
LeaveWithHost(r, u) ==
  /\ ~Locked
  /\ rooms[r] # NoRoom
  /\ rooms' = [rooms EXCEPT ![r] =
       IF @.members \subseteq {u} \/ u = @.host THEN NoRoom
       ELSE [rooms[r] EXCEPT !.members = @ \ {u}]]
  /\ inside' = inside \ {<<r, u>>}
  /\ screens' = [screens EXCEPT ![r][u] = NoRoom]
  /\ UNCHANGED <<telling, behind>>

\* LeaveRoom: the last one's leaving ends the room; the host may leave it.
LeaveRoom(r, u) ==
  /\ ~Locked
  /\ rooms[r] # NoRoom
  /\ rooms' = [rooms EXCEPT ![r] =
       IF @.members \subseteq {u} THEN NoRoom ELSE [rooms[r] EXCEPT !.members = @ \ {u}]]
  /\ inside' = inside \ {<<r, u>>}
  /\ screens' = [screens EXCEPT ![r][u] = NoRoom]
  /\ UNCHANGED <<telling, behind>>

\* UpdateState of a room that is there, by anyone, a member or not: the members
\* but for the sender, who knows what it sent, are to be told, ...
UpdateState(r, u, state) ==
  /\ ~Locked
  /\ rooms[r] # NoRoom
  /\ rooms' = [rooms EXCEPT ![r].state = state]
  /\ telling' = [room |-> r, left |-> rooms[r].members \ {u}]
  /\ screens' = [screens EXCEPT ![r][u] = state]
  /\ behind' = (behind \cup {<<r, v>> : v \in SpUsers}) \ {<<r, u>>}
  /\ UNCHANGED inside

\* ... and BroadcastToUser is called for each: of the users whose connections it
\* takes for v's it reaches those who have one with room in its channel.
Tell(v) ==
  /\ Locked
  /\ v \in telling.left
  /\ telling' = [telling EXCEPT !.left = @ \ {v}]
  /\ \E reached \in SUBSET {w \in SpUsers : <<v, w>> \in IdBegins} :
       /\ screens' = [screens EXCEPT ![telling.room] =
            [w \in SpUsers |->
               IF w \in reached THEN rooms[telling.room].state ELSE screens[telling.room][w]]]
       /\ behind' = behind \ {<<telling.room, w>> : w \in reached}
  /\ UNCHANGED <<rooms, inside>>

UpdateReturns ==
  /\ Locked
  /\ telling.left = {}
  /\ telling' = NoRoom
  /\ UNCHANGED <<rooms, screens, behind, inside>>

\* HandleWSMessage: one of four types.
SyncNext ==
  \/ \E r \in SpRooms, u \in SpUsers :
       \/ CreateRoom(r, u)
       \/ JoinRoom(r, u)
       \/ LeaveRoom(r, u)
       \/ \E state \in SpStates : UpdateState(r, u, state)
  \/ \E v \in SpUsers : Tell(v)
  \/ UpdateReturns

SyncSpec == SyncInit /\ [][SyncNext]_syncVars

SyncTypeOK ==
  /\ rooms \in [SpRooms -> Rooms \cup {NoRoom}]
  /\ telling \in Tellings \cup {NoRoom}
  /\ screens \in [SpRooms -> [SpUsers -> SpStates \cup {NoRoom}]]
  /\ behind \subseteq SpRooms \X SpUsers
  /\ inside \subseteq SpRooms \X SpUsers

\* Whoever leaves, the host too, the others stay together: a room is there as
\* long as someone who joined it has not left, its members are those, and a room
\* nobody is in is gone.  The host need not be a member.  Messages are sent in
\* the order of the states they tell: what was sent last to somebody is the
\* room's state, unless that could not be sent to him, or has yet to be.
RoomsHold ==
  \A r \in SpRooms :
    IF rooms[r] = NoRoom THEN \A u \in SpUsers : <<r, u>> \notin inside
    ELSE /\ rooms[r].members = {u \in SpUsers : <<r, u>> \in inside}
         /\ rooms[r].members # {}
         /\ \A u \in SpUsers : <<r, u>> \notin behind => screens[r][u] \in {NoRoom, rooms[r].state}

\* While a state is told the room is there and nobody but its members is told.
TellsMembers ==
  Locked => /\ rooms[telling.room] # NoRoom
            /\ telling.left \subseteq rooms[telling.room].members

\* What holds of the rooms.
RoomsInv == SyncTypeOK /\ RoomsHold /\ TellsMembers
=============================================================================
