--------------------------- MODULE Devices_proofs ---------------------------
(****************************************************************************)
(* Theorems about the parts that serve devices and viewers, each as a      *)
(* specification of its own: the rooms of SyncPlay, playback sessions,     *)
(* sessions of Chromecast and AirPlay, the DLNA server, live TV, watch     *)
(* progress and chapters, manifests.                                       *)
(****************************************************************************)
EXTENDS SyncPlay, PlaybackSessions, CastSession, DlnaServer, LiveTV, WatchProgress, Manifests,
        FiniteSetTheorems, TLAPS

-----------------------------------------------------------------------------
(* Facts about numbers the proofs share.                                   *)

\* A set of naturals has a least one.
LEMMA LeastNat == ASSUME NEW T \in SUBSET Nat, T # {} PROVE \E x \in T : \A y \in T : x <= y
<1> DEFINE R == OpToRel(<,Nat)
<1>1. IsWellFoundedOn(R, Nat)
  BY NatLessThanWellFounded
<1>2. \A x, y \in Nat : y < x => <<y, x>> \in R
  BY DEF OpToRel
<1> HIDE DEF R
<1>3. PICK x \in T : \A y \in T : <<y, x>> \notin R
  BY <1>1, WFMin
<1>4. \A y \in T : ~(y < x)
  BY <1>2, <1>3
<1>5. T \subseteq Nat
  OBVIOUS
<1>6. \A y \in T : x <= y
  BY <1>4, <1>5
<1> QED BY <1>6

\* A bounded one that is not empty has a greatest.
LEMMA GreatestNat ==
  ASSUME NEW n \in Nat, NEW T \in SUBSET (1..n), T # {} PROVE \E x \in T : \A y \in T : y <= x
<1> DEFINE U == {k \in 0..n : n - k \in T}
<1>1. \A t \in T : t \in 1..n /\ n - t \in 0..n /\ n - (n - t) = t
  OBVIOUS
<1>2. U \in SUBSET Nat /\ U # {}
  <2>1. PICK t \in T : TRUE
    OBVIOUS
  <2>2. n - t \in U
    BY <1>1, <2>1
  <2>3. U \in SUBSET Nat
    OBVIOUS
  <2> QED BY <2>2, <2>3
<1>3. PICK k \in U : \A j \in U : k <= j
  BY <1>2, LeastNat
<1>4. \A t \in T : n - t \in U
  BY <1>1
<1>5. n - k \in T /\ k \in Nat
  BY <1>3
<1>6. \A t \in T : k <= n - t
  BY <1>3, <1>4
<1> HIDE DEF U
<1>7. \A t \in T : t <= n - k
  BY <1>1, <1>5, <1>6
<1> QED BY <1>5, <1>7

-----------------------------------------------------------------------------
(* SyncPlay.  The manager's lock is what keeps the members to be told      *)
(* members, and the state they are told the room's.                        *)

\* What RoomsHold says of one room.
RoomHolds(r) ==
  IF rooms[r] = NoRoom THEN \A u \in SpUsers : <<r, u>> \notin inside
  ELSE /\ rooms[r].members = {u \in SpUsers : <<r, u>> \in inside}
       /\ rooms[r].members # {}
       /\ \A u \in SpUsers : <<r, u>> \notin behind => screens[r][u] \in {NoRoom, rooms[r].state}

\* A step of a room r that keeps the types, the other rooms and what holds of r.
LEMMA OneRoom ==
  ASSUME RoomsInv, NEW r \in SpRooms, SyncTypeOK',
         \A q \in SpRooms \ {r} :
           /\ rooms'[q] = rooms[q] /\ screens'[q] = screens[q]
           /\ \A v \in SpUsers : <<q, v>> \in inside' <=> <<q, v>> \in inside
           /\ \A v \in SpUsers : <<q, v>> \in behind' <=> <<q, v>> \in behind,
         RoomHolds(r)', TellsMembers'
  PROVE  RoomsInv'
<1>1. ASSUME NEW q \in SpRooms \ {r} PROVE RoomHolds(q)'
  <2>1. RoomHolds(q)
    BY DEF RoomsInv, RoomsHold, RoomHolds
  <2>2. {v \in SpUsers : <<q, v>> \in inside'} = {v \in SpUsers : <<q, v>> \in inside}
    OBVIOUS
  <2> QED BY <2>1, <2>2 DEF RoomHolds
<1>2. RoomsHold'
  BY <1>1 DEF RoomsHold, RoomHolds
<1> QED BY <1>2 DEF RoomsInv

\* A new manager has no rooms, and nobody is in one.
LEMMA RoomsStart == SyncInit => RoomsInv
BY DEF SyncInit, RoomsInv, SyncTypeOK, RoomsHold, TellsMembers, Locked

\* A room made anew has its maker in it and nobody else.
LEMMA CreateKeepsRooms ==
  ASSUME RoomsInv, NEW r \in SpRooms, NEW u \in SpUsers, CreateRoom(r, u)
  PROVE  RoomsInv'
<1> DEFINE made == [host |-> u, members |-> {u}, state |-> Paused0]
<1>1. made \in Rooms /\ made # NoRoom
  BY SyncAssumption DEF Rooms
<1>2. /\ rooms' = [rooms EXCEPT ![r] = made]
      /\ screens' = [screens EXCEPT ![r] = [v \in SpUsers |-> NoRoom]]
      /\ inside' = {e \in inside : e[1] # r} \cup {<<r, u>>}
      /\ behind' = {e \in behind : e[1] # r}
      /\ telling' = telling /\ ~Locked
  BY DEF CreateRoom
<1>3. SyncTypeOK
  BY DEF RoomsInv
<1>4. SyncTypeOK'
  BY <1>1, <1>2, <1>3 DEF SyncTypeOK
<1>5. {v \in SpUsers : <<r, v>> \in inside'} = {u}
  BY <1>2
<1>6. rooms'[r] = made /\ \A v \in SpUsers : screens'[r][v] = NoRoom
  BY <1>2, <1>3 DEF SyncTypeOK
<1>7. RoomHolds(r)' /\ TellsMembers'
  BY <1>1, <1>2, <1>5, <1>6 DEF RoomHolds, TellsMembers, Locked
<1>8. \A q \in SpRooms \ {r} :
        /\ rooms'[q] = rooms[q] /\ screens'[q] = screens[q]
        /\ \A v \in SpUsers : <<q, v>> \in inside' <=> <<q, v>> \in inside
        /\ \A v \in SpUsers : <<q, v>> \in behind' <=> <<q, v>> \in behind
  BY <1>2, <1>3 DEF SyncTypeOK
<1> QED BY <1>4, <1>7, <1>8, OneRoom

\* One who joins is a member, and is sent nothing.
LEMMA JoinKeepsRooms ==
  ASSUME RoomsInv, NEW r \in SpRooms, NEW u \in SpUsers, JoinRoom(r, u)
  PROVE  RoomsInv'
<1> DEFINE joined == [rooms[r] EXCEPT !.members = @ \cup {u}]
<1>1. SyncTypeOK /\ rooms[r] \in Rooms /\ rooms[r] # NoRoom
  BY DEF RoomsInv, SyncTypeOK, JoinRoom
<1>2. /\ joined \in Rooms /\ joined # NoRoom
      /\ joined.members = rooms[r].members \cup {u} /\ joined.state = rooms[r].state
  BY <1>1, SyncAssumption DEF Rooms
<1>3. /\ rooms' = [rooms EXCEPT ![r] = joined]
      /\ inside' = inside \cup {<<r, u>>}
      /\ screens' = screens /\ behind' = behind /\ telling' = telling /\ ~Locked
  BY DEF JoinRoom
<1> HIDE DEF joined
<1>4. SyncTypeOK'
  BY <1>1, <1>2, <1>3 DEF SyncTypeOK
<1>5. rooms'[r] = joined
  BY <1>1, <1>3 DEF SyncTypeOK
<1>6. RoomHolds(r)
  BY DEF RoomsInv, RoomsHold, RoomHolds
<1>7. joined.members = {v \in SpUsers : <<r, v>> \in inside'}
  BY <1>1, <1>2, <1>3, <1>6 DEF RoomHolds
<1>8. RoomHolds(r)' /\ TellsMembers'
  BY <1>1, <1>2, <1>3, <1>5, <1>6, <1>7 DEF RoomHolds, TellsMembers, Locked
<1>9. \A q \in SpRooms \ {r} :
        /\ rooms'[q] = rooms[q] /\ screens'[q] = screens[q]
        /\ \A v \in SpUsers : <<q, v>> \in inside' <=> <<q, v>> \in inside
        /\ \A v \in SpUsers : <<q, v>> \in behind' <=> <<q, v>> \in behind
  BY <1>1, <1>3 DEF SyncTypeOK
<1> QED BY <1>4, <1>8, <1>9, OneRoom

\* Whoever leaves, the host as well, leaves the others in the room; the last
\* one's leaving ends it.
LEMMA LeaveKeepsRooms ==
  ASSUME RoomsInv, NEW r \in SpRooms, NEW u \in SpUsers, LeaveRoom(r, u)
  PROVE  RoomsInv'
<1> DEFINE rest == IF rooms[r].members \subseteq {u} THEN NoRoom
                   ELSE [rooms[r] EXCEPT !.members = @ \ {u}]
<1>1. SyncTypeOK /\ rooms[r] \in Rooms /\ rooms[r] # NoRoom
  BY DEF RoomsInv, SyncTypeOK, LeaveRoom
<1>2. /\ rest = NoRoom => rooms[r].members \subseteq {u}
      /\ rest # NoRoom =>
           /\ rest \in Rooms
           /\ rest.members = rooms[r].members \ {u} /\ rest.members # {}
           /\ rest.state = rooms[r].state
  <2> DEFINE fewer == [rooms[r] EXCEPT !.members = @ \ {u}]
  <2>1. fewer \in Rooms /\ fewer.members = rooms[r].members \ {u} /\ fewer.state = rooms[r].state
    BY <1>1 DEF Rooms
  <2>2. fewer # NoRoom
    BY <2>1, SyncAssumption
  <2> HIDE DEF fewer
  <2>3. rest = IF rooms[r].members \subseteq {u} THEN NoRoom ELSE fewer
    BY DEF fewer
  <2> HIDE DEF rest
  <2> QED BY <2>1, <2>2, <2>3
<1>3. /\ rooms' = [rooms EXCEPT ![r] = rest]
      /\ inside' = inside \ {<<r, u>>}
      /\ screens' = [screens EXCEPT ![r][u] = NoRoom]
      /\ behind' = behind /\ telling' = telling /\ ~Locked
  BY DEF LeaveRoom
<1> HIDE DEF rest
<1>4. SyncTypeOK'
  BY <1>1, <1>2, <1>3 DEF SyncTypeOK
<1>5. rooms'[r] = rest
  BY <1>1, <1>3 DEF SyncTypeOK
<1>6. RoomHolds(r)
  BY DEF RoomsInv, RoomsHold, RoomHolds
<1>7. rooms[r].members \ {u} = {v \in SpUsers : <<r, v>> \in inside'}
  BY <1>1, <1>3, <1>6 DEF RoomHolds
<1>8. \A v \in SpUsers : screens'[r][v] = IF v = u THEN NoRoom ELSE screens[r][v]
  BY <1>1, <1>3 DEF SyncTypeOK
<1>9. RoomHolds(r)'
  <2>1. CASE rest = NoRoom
    BY <2>1, <1>2, <1>5, <1>7 DEF RoomHolds
  <2>2. CASE rest # NoRoom
    <3>1. \A v \in SpUsers : <<r, v>> \notin behind => screens'[r][v] \in {NoRoom, rest.state}
      BY <2>2, <1>1, <1>2, <1>6, <1>8 DEF RoomHolds
    <3> QED BY <3>1, <2>2, <1>2, <1>3, <1>5, <1>7 DEF RoomHolds
  <2> QED BY <2>1, <2>2
<1>10. TellsMembers'
  BY <1>3 DEF TellsMembers, Locked
<1>11. \A q \in SpRooms \ {r} :
         /\ rooms'[q] = rooms[q] /\ screens'[q] = screens[q]
         /\ \A v \in SpUsers : <<q, v>> \in inside' <=> <<q, v>> \in inside
         /\ \A v \in SpUsers : <<q, v>> \in behind' <=> <<q, v>> \in behind
  BY <1>1, <1>3 DEF SyncTypeOK
<1> QED BY <1>4, <1>9, <1>10, <1>11, OneRoom

\* A new state: everybody but its sender is behind.
LEMMA UpdateKeepsRooms ==
  ASSUME RoomsInv, NEW r \in SpRooms, NEW u \in SpUsers, NEW state \in SpStates,
         UpdateState(r, u, state)
  PROVE  RoomsInv'
<1> DEFINE room == [rooms[r] EXCEPT !.state = state]
           list == [room |-> r, left |-> rooms[r].members \ {u}]
<1>1. SyncTypeOK /\ rooms[r] \in Rooms /\ rooms[r] # NoRoom
  BY DEF RoomsInv, SyncTypeOK, UpdateState
<1>2. /\ room \in Rooms /\ room # NoRoom
      /\ room.members = rooms[r].members /\ room.state = state
  BY <1>1, SyncAssumption DEF Rooms
<1>3. /\ rooms' = [rooms EXCEPT ![r] = room]
      /\ telling' = list
      /\ screens' = [screens EXCEPT ![r][u] = state]
      /\ behind' = (behind \cup {<<r, v>> : v \in SpUsers}) \ {<<r, u>>}
      /\ inside' = inside
  BY DEF UpdateState
<1>4. list \in Tellings /\ list.room = r /\ list.left \subseteq rooms[r].members
  BY <1>1 DEF Tellings, Rooms
<1> HIDE DEF room, list
<1>5. rooms' \in [SpRooms -> Rooms \cup {NoRoom}] /\ rooms'[r] = room
  BY <1>1, <1>2, <1>3 DEF SyncTypeOK
<1>6. screens' \in [SpRooms -> [SpUsers -> SpStates \cup {NoRoom}]] /\ screens'[r][u] = state
  BY <1>1, <1>3 DEF SyncTypeOK
<1>7. SyncTypeOK'
  BY <1>1, <1>3, <1>4, <1>5, <1>6 DEF SyncTypeOK
<1>8. RoomHolds(r)
  BY DEF RoomsInv, RoomsHold, RoomHolds
<1>9. RoomHolds(r)'
  <2>1. \A v \in SpUsers : <<r, v>> \notin behind' => v = u
    BY <1>3
  <2> QED BY <1>1, <1>2, <1>3, <1>5, <1>6, <1>8, <2>1 DEF RoomHolds
<1>10. TellsMembers'
  BY <1>2, <1>3, <1>4, <1>5 DEF TellsMembers
<1>11. \A q \in SpRooms \ {r} :
         /\ rooms'[q] = rooms[q] /\ screens'[q] = screens[q]
         /\ \A v \in SpUsers : <<q, v>> \in inside' <=> <<q, v>> \in inside
         /\ \A v \in SpUsers : <<q, v>> \in behind' <=> <<q, v>> \in behind
  BY <1>1, <1>3 DEF SyncTypeOK
<1> QED BY <1>7, <1>9, <1>10, <1>11, OneRoom

\* Whoever is reached is sent the state the room has.
LEMMA TellKeepsRooms ==
  ASSUME RoomsInv, NEW v \in SpUsers, Tell(v)
  PROVE  RoomsInv'
<1>a. SyncTypeOK /\ telling \in Tellings
  BY DEF RoomsInv, SyncTypeOK, Tell, Locked
<1>0. PICK r \in SpRooms : r = telling.room
  BY <1>a DEF Tellings
<1>b. rooms[r] # NoRoom
  BY <1>0 DEF RoomsInv, TellsMembers, Tell
<1>1. SyncTypeOK /\ telling \in Tellings /\ rooms[r] # NoRoom /\ rooms[r] \in Rooms
  BY <1>a, <1>b DEF SyncTypeOK
<1>2. PICK reached \in SUBSET {w \in SpUsers : <<v, w>> \in IdBegins} :
        /\ screens' = [screens EXCEPT ![r] =
             [w \in SpUsers |-> IF w \in reached THEN rooms[r].state ELSE screens[r][w]]]
        /\ behind' = behind \ {<<r, w>> : w \in reached}
  <2>1. PICK reached \in SUBSET {w \in SpUsers : <<v, w>> \in IdBegins} :
          /\ screens' = [screens EXCEPT ![telling.room] =
               [w \in SpUsers |->
                  IF w \in reached THEN rooms[telling.room].state ELSE screens[telling.room][w]]]
          /\ behind' = behind \ {<<telling.room, w>> : w \in reached}
    BY DEF Tell
  <2> QED BY <1>0, <2>1
<1>3. /\ telling' = [telling EXCEPT !.left = @ \ {v}]
      /\ rooms' = rooms /\ inside' = inside
  BY DEF Tell
<1>4. telling' \in Tellings /\ telling'.room = r /\ telling'.left = telling.left \ {v}
  BY <1>0, <1>1, <1>3 DEF Tellings
<1>5. /\ screens' \in [SpRooms -> [SpUsers -> SpStates \cup {NoRoom}]]
      /\ \A w \in SpUsers : screens'[r][w] = IF w \in reached THEN rooms[r].state ELSE screens[r][w]
  <2> DEFINE new == [w \in SpUsers |-> IF w \in reached THEN rooms[r].state ELSE screens[r][w]]
  <2>1. new \in [SpUsers -> SpStates \cup {NoRoom}]
    BY <1>1 DEF SyncTypeOK, Rooms
  <2>2. \A w \in SpUsers : new[w] = IF w \in reached THEN rooms[r].state ELSE screens[r][w]
    OBVIOUS
  <2> HIDE DEF new
  <2>3. screens' = [screens EXCEPT ![r] = new]
    BY <1>2 DEF new
  <2>4. screens' \in [SpRooms -> [SpUsers -> SpStates \cup {NoRoom}]] /\ screens'[r] = new
    BY <1>1, <2>1, <2>3 DEF SyncTypeOK
  <2> QED BY <2>2, <2>4
<1>6. SyncTypeOK'
  BY <1>1, <1>2, <1>3, <1>4, <1>5 DEF SyncTypeOK
<1>7. RoomHolds(r)
  BY <1>1 DEF RoomsInv, RoomsHold, RoomHolds
<1>8. RoomHolds(r)'
  BY <1>1, <1>2, <1>3, <1>5, <1>7 DEF RoomHolds
<1>9. TellsMembers'
  <2>1. telling.left \subseteq rooms[r].members
    BY <1>0 DEF RoomsInv, TellsMembers, Tell
  <2> QED BY <1>1, <1>3, <1>4, <2>1 DEF TellsMembers
<1>10. \A q \in SpRooms \ {r} :
         /\ rooms'[q] = rooms[q] /\ screens'[q] = screens[q]
         /\ \A w \in SpUsers : <<q, w>> \in inside' <=> <<q, w>> \in inside
         /\ \A w \in SpUsers : <<q, w>> \in behind' <=> <<q, w>> \in behind
  BY <1>1, <1>2, <1>3 DEF SyncTypeOK
<1> QED BY <1>1, <1>6, <1>8, <1>9, <1>10, OneRoom

\* The rooms hold their members, for any number of users and rooms: the host's
\* leaving does not scatter the others, no empty room stays in the manager's map,
\* and what was sent last to somebody is the room's state, unless that could not
\* be sent to him or has yet to be.
THEOREM RoomsCorrect == SyncSpec => []RoomsInv
<1>1. ASSUME RoomsInv, [SyncNext]_syncVars PROVE RoomsInv'
  <2>1. CASE UpdateReturns
    BY <1>1, <2>1 DEF UpdateReturns, RoomsInv, SyncTypeOK, RoomsHold, TellsMembers, Locked
  <2>2. CASE UNCHANGED syncVars
    BY <1>1, <2>2 DEF syncVars, RoomsInv, SyncTypeOK, RoomsHold, TellsMembers, Locked
  <2> QED BY <1>1, <2>1, <2>2, CreateKeepsRooms, JoinKeepsRooms, LeaveKeepsRooms,
             UpdateKeepsRooms, TellKeepsRooms DEF SyncNext
<1> QED BY RoomsStart, <1>1, PTL DEF SyncSpec

-----------------------------------------------------------------------------
(* PlaybackSessions.  A command that was not overtaken holds the row as it *)
(* is; of a session whose commands never overlapped at most one is under   *)
(* way, and what was told last is the row but while that one writes.       *)

\* A command is its owner's, of a session there has been.
CallOK(r) ==
  pbCalls[r] # NoSession =>
    /\ pbCalls[r] \in PbUnderWay /\ pbCalls[r].id \in pbUsed
    /\ pbCalls[r].copy.user = pbCalls[r].user
    /\ pbRows[pbCalls[r].id] # NoSession => pbRows[pbCalls[r].id].user = pbCalls[r].user

\* What a command holds that has not been overtaken.
CopyFresh(r) ==
  pbCalls[r] # NoSession /\ pbCalls[r].at = "read" /\ ~pbCalls[r].stale =>
    pbRows[pbCalls[r].id] \in {NoSession, pbCalls[r].copy}

\* Commands of a session never raced for.
AloneOK(r) ==
  pbCalls[r] # NoSession /\ pbCalls[r].id \notin pbRaced =>
    /\ \A q \in PbRequests : pbCalls[q] # NoSession /\ pbCalls[q].id = pbCalls[r].id => q = r
    /\ pbCalls[r].at = "written" => pbRows[pbCalls[r].id] \in {NoSession, pbCalls[r].copy}
    /\ ~pbCalls[r].stale \/ pbCalls[r].at = "written"

Writing(s) == \E r \in PbRequests : pbCalls[r] # NoSession /\ pbCalls[r].id = s /\ pbCalls[r].at = "written"

ToldUnlessWriting ==
  \A s \in PbIds \ pbRaced : pbRows[s] # NoSession /\ ~Writing(s) => pbTold[s] = Told(pbRows[s])

SessionsIInv ==
  /\ PlaybackTypeOK
  /\ DOMAIN pbTold = PbIds
  /\ \A r \in PbRequests : CallOK(r) /\ CopyFresh(r) /\ AloneOK(r)
  /\ ToldUnlessWriting

\* A command's change of a row: a row, of the same user, equal in what it does not set.
LEMMA ChangedRow ==
  ASSUME NEW copy \in SessionRows, NEW sets \in PbCommands
  PROVE  /\ Changed(copy, sets) \in SessionRows
         /\ Changed(copy, sets).user = copy.user
         /\ \A f \in DOMAIN copy \ DOMAIN sets : Changed(copy, sets)[f] = copy[f]
<1>1. DOMAIN copy = {"user", "state", "position", "volume"}
  BY DEF SessionRows
<1>2. DOMAIN sets \subseteq {"state", "position", "volume"}
  BY DEF PbCommands
<1>3. /\ "state" \in DOMAIN sets => sets["state"] \in States
      /\ "position" \in DOMAIN sets => sets["position"] \in PbPositions
      /\ "volume" \in DOMAIN sets => sets["volume"] \in PbVolumes
  BY DEF PbCommands, States
<1> DEFINE row == Changed(copy, sets)
<1>4. /\ DOMAIN row = DOMAIN copy
      /\ \A f \in DOMAIN copy : row[f] = IF f \in DOMAIN sets THEN sets[f] ELSE copy[f]
  BY DEF Changed
<1>5. row = [user |-> row["user"], state |-> row["state"],
             position |-> row["position"], volume |-> row["volume"]]
  BY <1>1 DEF Changed
<1>6. /\ row["user"] = copy["user"] /\ row["user"] \in PbUsers /\ row["state"] \in States
      /\ row["position"] \in PbPositions /\ row["volume"] \in PbVolumes
  BY <1>1, <1>2, <1>3, <1>4 DEF SessionRows
<1> HIDE DEF row
<1>7. row \in SessionRows /\ row.user = copy.user
  BY <1>5, <1>6 DEF SessionRows
<1> QED BY <1>4, <1>7 DEF row

\* The invariant's parts give what the run checks.
LEMMA SessionsIInvGives == SessionsIInv => SessionsInv
<1> SUFFICES ASSUME SessionsIInv, NEW s \in PbIds \ pbRaced, pbRows[s] # NoSession, ~Busy(s)
             PROVE  pbTold[s] = Told(pbRows[s])
  BY DEF SessionsIInv, SessionsInv, ToldAsStored
<1>1. ~Writing(s)
  BY DEF Writing, Busy
<1> QED BY <1>1 DEF SessionsIInv, ToldUnlessWriting

\* No session, no command.
LEMMA SessionsStart == PlaybackInit => SessionsIInv
BY DEF PlaybackInit, SessionsIInv, PlaybackTypeOK, CallOK, CopyFresh, AloneOK, ToldUnlessWriting

\* A session is started with a new id, of which there is no command but this one.
LEMMA StartKeeps ==
  ASSUME SessionsIInv, NEW r \in PbRequests, NEW u \in PbUsers, NEW s \in PbIds,
         HandleStart(r, u, s)
  PROVE  SessionsIInv'
<1> DEFINE row == [user |-> u, state |-> "playing", position |-> 0, volume |-> 100]
           call == [id |-> s, user |-> u, sets |-> [state |-> "playing"], copy |-> row,
                    at |-> "written", stale |-> FALSE]
<1>1. row \in SessionRows /\ row.user = u
  BY PlaybackSessionsAssumption DEF SessionRows, States
<1>2. /\ s \notin pbUsed /\ pbUsed' = pbUsed \cup {s}
      /\ pbRows' = [pbRows EXCEPT ![s] = row]
      /\ pbCalls' = [pbCalls EXCEPT ![r] = call]
      /\ pbTold' = pbTold /\ pbRaced' = pbRaced
  BY DEF HandleStart
<1> HIDE DEF row
<1>3. /\ call \in PbUnderWay /\ call.id = s /\ call.user = u /\ call.copy = row
      /\ call.at = "written" /\ call.stale = FALSE
  BY <1>1 DEF PbUnderWay, PbCommands, States
<1>4. call # NoSession
  BY <1>3, PlaybackSessionsAssumption
<1> HIDE DEF call
<1>5. PlaybackTypeOK /\ DOMAIN pbTold = PbIds /\ DOMAIN pbCalls = PbRequests
  BY DEF SessionsIInv, PlaybackTypeOK
<1>6. PlaybackTypeOK'
  BY <1>1, <1>2, <1>3, <1>5 DEF PlaybackTypeOK
<1>7. pbRows'[s] = row /\ \A q \in PbIds \ {s} : pbRows'[q] = pbRows[q]
  BY <1>2, <1>5 DEF PlaybackTypeOK
<1>8. pbCalls'[r] = call /\ \A q \in PbRequests \ {r} : pbCalls'[q] = pbCalls[q]
  BY <1>2, <1>5
<1>9. \A q \in PbRequests : pbCalls[q] # NoSession => pbCalls[q].id \in PbIds \ {s}
  BY <1>2 DEF SessionsIInv, CallOK, PbUnderWay
<1>10. (CallOK(r) /\ CopyFresh(r))'
  BY <1>1, <1>2, <1>3, <1>7, <1>8 DEF CallOK, CopyFresh
<1>11. AloneOK(r)'
  BY <1>3, <1>7, <1>8, <1>9 DEF AloneOK
<1>12. ASSUME NEW q \in PbRequests \ {r} PROVE (CallOK(q) /\ CopyFresh(q) /\ AloneOK(q))'
  <2>1. CallOK(q) /\ CopyFresh(q) /\ AloneOK(q) /\ pbCalls'[q] = pbCalls[q]
    BY <1>8 DEF SessionsIInv
  <2>2. pbCalls[q] # NoSession => pbRows'[pbCalls[q].id] = pbRows[pbCalls[q].id] /\ pbCalls[q].id # s
    BY <1>7, <1>9
  <2>3. (CallOK(q) /\ CopyFresh(q))'
    BY <1>2, <2>1, <2>2 DEF CallOK, CopyFresh
  <2>4. AloneOK(q)'
    <3> SUFFICES ASSUME pbCalls[q] # NoSession, pbCalls[q].id \notin pbRaced
                 PROVE  AloneOK(q)'
      BY <1>2, <2>1 DEF AloneOK
    <3>1. \A p \in PbRequests : pbCalls'[p] # NoSession /\ pbCalls'[p].id = pbCalls[q].id => p = q
      BY <1>3, <1>8, <2>1, <2>2 DEF AloneOK
    <3> QED BY <2>1, <2>2, <3>1 DEF AloneOK
  <2> QED BY <2>3, <2>4
<1>13. ToldUnlessWriting'
  <2> SUFFICES ASSUME NEW q \in PbIds \ pbRaced, pbRows'[q] # NoSession, ~Writing(q)'
               PROVE  pbTold[q] = Told(pbRows'[q])
    BY <1>2 DEF ToldUnlessWriting
  <2>1. q # s
    BY <1>3, <1>4, <1>8 DEF Writing
  <2>2. ~Writing(q)
    <3> SUFFICES ASSUME NEW p \in PbRequests, pbCalls[p] # NoSession, pbCalls[p].id = q, pbCalls[p].at = "written"
                 PROVE  FALSE
      BY DEF Writing
    <3>1. p # r
      BY DEF HandleStart
    <3> QED BY <1>8, <3>1 DEF Writing
  <2> QED BY <1>7, <2>1, <2>2 DEF SessionsIInv, ToldUnlessWriting
<1>14. DOMAIN pbCalls' = PbRequests /\ DOMAIN pbTold' = PbIds
  BY <1>2, <1>5
<1> QED BY <1>6, <1>10, <1>11, <1>12, <1>13, <1>14 DEF SessionsIInv

\* A command reads the row of its user's session; if another is under way, the
\* session counts as raced for.
LEMMA GetKeeps ==
  ASSUME SessionsIInv, NEW r \in PbRequests, NEW u \in PbUsers, NEW s \in PbIds,
         NEW command \in PbCommands, GetSession(r, u, s, command)
  PROVE  SessionsIInv'
<1> DEFINE call == [id |-> s, user |-> u, sets |-> command, copy |-> pbRows[s],
                    at |-> "read", stale |-> FALSE]
<1>1. /\ pbCalls[r] = NoSession /\ pbRows[s] # NoSession /\ pbRows[s].user = u
      /\ pbCalls' = [pbCalls EXCEPT ![r] = call]
      /\ pbRaced' = IF Busy(s) THEN pbRaced \cup {s} ELSE pbRaced
      /\ pbRows' = pbRows /\ pbUsed' = pbUsed /\ pbTold' = pbTold
  BY DEF GetSession
<1>2. PlaybackTypeOK /\ DOMAIN pbTold = PbIds /\ DOMAIN pbCalls = PbRequests
  BY DEF SessionsIInv, PlaybackTypeOK
<1>3. pbRows[s] \in SessionRows /\ s \in pbUsed
  BY <1>1, <1>2 DEF PlaybackTypeOK
<1>4. /\ call \in PbUnderWay /\ call.id = s /\ call.user = u /\ call.copy = pbRows[s]
      /\ call.at = "read" /\ call.stale = FALSE
  BY <1>3 DEF PbUnderWay
<1> HIDE DEF call
<1>5. PlaybackTypeOK'
  BY <1>1, <1>2, <1>3, <1>4 DEF PlaybackTypeOK
<1>6. pbCalls'[r] = call /\ \A q \in PbRequests \ {r} : pbCalls'[q] = pbCalls[q]
  BY <1>1, <1>2
<1>7. (CallOK(r) /\ CopyFresh(r))'
  BY <1>1, <1>3, <1>4, <1>6 DEF CallOK, CopyFresh
<1>8. AloneOK(r)'
  BY <1>1, <1>4, <1>6 DEF AloneOK, Busy
<1>9. ASSUME NEW q \in PbRequests \ {r} PROVE (CallOK(q) /\ CopyFresh(q) /\ AloneOK(q))'
  <2>1. CallOK(q) /\ CopyFresh(q) /\ AloneOK(q) /\ pbCalls'[q] = pbCalls[q]
    BY <1>6 DEF SessionsIInv
  <2>2. (CallOK(q) /\ CopyFresh(q))'
    BY <1>1, <2>1 DEF CallOK, CopyFresh
  <2>3. AloneOK(q)'
    <3> SUFFICES ASSUME pbCalls[q] # NoSession, pbCalls[q].id \notin pbRaced'
                 PROVE  AloneOK(q)'
      BY <2>1 DEF AloneOK
    <3>1. pbCalls[q].id # s
      BY <1>1 DEF Busy
    <3>2. pbCalls[q].id \notin pbRaced
      BY <1>1
    <3> QED BY <1>1, <1>4, <1>6, <2>1, <3>1, <3>2 DEF AloneOK
  <2> QED BY <2>2, <2>3
<1>10. ToldUnlessWriting'
  <2> SUFFICES ASSUME NEW q \in PbIds \ pbRaced', pbRows[q] # NoSession, ~Writing(q)'
               PROVE  pbTold[q] = Told(pbRows[q])
    BY <1>1 DEF ToldUnlessWriting
  <2>1. q \notin pbRaced
    BY <1>1
  <2>2. ~Writing(q)
    BY <1>1, <1>6 DEF Writing
  <2> QED BY <2>1, <2>2 DEF SessionsIInv, ToldUnlessWriting
<1>11. DOMAIN pbCalls' = PbRequests /\ DOMAIN pbTold' = PbIds
  BY <1>1, <1>2
<1> QED BY <1>5, <1>7, <1>8, <1>9, <1>10, <1>11 DEF SessionsIInv

\* The row a command writes.
NewRow(r) == Changed(pbCalls[r].copy, pbCalls[r].sets)

\* What UpdateSession does, in parts: the row becomes the copy with the change,
\* the other commands of the session are overtaken.
LEMMA UpdateParts ==
  ASSUME SessionsIInv, NEW r \in PbRequests, UpdateSession(r)
  PROVE  /\ pbCalls[r] \in PbUnderWay /\ pbCalls[r].at = "read"
         /\ pbCalls[r].id \in PbIds /\ pbCalls[r].id \in pbUsed
         /\ NewRow(r) \in SessionRows /\ NewRow(r).user = pbCalls[r].user
         /\ pbRows' = [pbRows EXCEPT ![pbCalls[r].id] =
                         IF pbRows[pbCalls[r].id] = NoSession THEN NoSession ELSE NewRow(r)]
         /\ pbUsed' = pbUsed /\ pbTold' = pbTold /\ pbRaced' = pbRaced
         /\ pbCalls' \in [PbRequests -> PbUnderWay \cup {NoSession}]
         /\ pbCalls'[r] \in PbUnderWay /\ pbCalls'[r].id = pbCalls[r].id
         /\ pbCalls'[r].user = pbCalls[r].user
         /\ pbCalls'[r].copy = NewRow(r) /\ pbCalls'[r].at = "written"
         /\ \A q \in PbRequests \ {r} :
              /\ pbCalls[q] = NoSession => pbCalls'[q] = NoSession
              /\ pbCalls[q] # NoSession =>
                   /\ pbCalls'[q] \in PbUnderWay /\ pbCalls'[q].id = pbCalls[q].id
                   /\ pbCalls'[q].user = pbCalls[q].user /\ pbCalls'[q].copy = pbCalls[q].copy
                   /\ pbCalls'[q].at = pbCalls[q].at
                   /\ pbCalls'[q].stale = (IF pbCalls[q].id = pbCalls[r].id THEN TRUE ELSE pbCalls[q].stale)
<1> DEFINE call == pbCalls[r]
           s == pbCalls[r].id
           row == Changed(pbCalls[r].copy, pbCalls[r].sets)
<1>1. /\ call # NoSession /\ call.at = "read"
      /\ pbRows' = [pbRows EXCEPT ![s] = IF pbRows[s] = NoSession THEN pbRows[s] ELSE row]
      /\ pbCalls' = [q \in PbRequests |->
           IF q = r THEN [call EXCEPT !.copy = row, !.at = "written"]
           ELSE IF pbCalls[q] # NoSession /\ pbCalls[q].id = s
                THEN [pbCalls[q] EXCEPT !.stale = TRUE] ELSE pbCalls[q]]
      /\ pbUsed' = pbUsed /\ pbTold' = pbTold /\ pbRaced' = pbRaced
  BY DEF UpdateSession
<1>2. \A q \in PbRequests : CallOK(q)
  BY DEF SessionsIInv
<1>3. call \in PbUnderWay /\ s \in PbIds /\ s \in pbUsed /\ call.copy.user = call.user
  BY <1>1, <1>2 DEF CallOK, PbUnderWay
<1>4. row \in SessionRows /\ row.user = call.user
  BY <1>3, ChangedRow DEF PbUnderWay
<1>5. pbCalls'[r] = [call EXCEPT !.copy = row, !.at = "written"]
  BY <1>1
<1>6. /\ pbCalls'[r] \in PbUnderWay /\ pbCalls'[r].id = s /\ pbCalls'[r].user = call.user
      /\ pbCalls'[r].copy = row /\ pbCalls'[r].at = "written"
  BY <1>3, <1>4, <1>5 DEF PbUnderWay
<1>7. ASSUME NEW q \in PbRequests \ {r}, pbCalls[q] # NoSession
      PROVE  /\ pbCalls'[q] \in PbUnderWay /\ pbCalls'[q].id = pbCalls[q].id
             /\ pbCalls'[q].user = pbCalls[q].user /\ pbCalls'[q].copy = pbCalls[q].copy
             /\ pbCalls'[q].at = pbCalls[q].at
             /\ pbCalls'[q].stale = (IF pbCalls[q].id = s THEN TRUE ELSE pbCalls[q].stale)
  <2>1. pbCalls[q] \in PbUnderWay
    BY <1>2, <1>7 DEF CallOK
  <2>2. CASE pbCalls[q].id = s
    <3>1. pbCalls'[q] = [pbCalls[q] EXCEPT !.stale = TRUE]
      BY <1>1, <1>7, <2>2
    <3> QED BY <2>1, <2>2, <3>1 DEF PbUnderWay
  <2>3. CASE pbCalls[q].id # s
    <3>1. pbCalls'[q] = pbCalls[q]
      BY <1>1, <2>3
    <3> QED BY <2>1, <2>3, <3>1
  <2> QED BY <2>2, <2>3
<1>8. \A q \in PbRequests \ {r} : pbCalls[q] = NoSession => pbCalls'[q] = NoSession
  BY <1>1
<1> HIDE DEF call
<1>9. pbCalls' \in [PbRequests -> PbUnderWay \cup {NoSession}]
  <2>1. DOMAIN pbCalls' = PbRequests /\ pbCalls' = [q \in PbRequests |-> pbCalls'[q]]
    BY <1>1
  <2>2. \A q \in PbRequests : pbCalls'[q] \in PbUnderWay \cup {NoSession}
    BY <1>6, <1>7, <1>8
  <2> QED BY <2>1, <2>2
<1>10. pbRows' = [pbRows EXCEPT ![s] = IF pbRows[s] = NoSession THEN NoSession ELSE row]
  BY <1>1
<1> HIDE DEF row
<1>11. NewRow(r) = row
  BY DEF NewRow, row
<1> QED BY <1>1, <1>3, <1>4, <1>6, <1>7, <1>8, <1>9, <1>10, <1>11 DEF call

\* The write: whoever read the row before is overtaken, and of a session never
\* raced for there is nobody else.
LEMMA UpdateKeeps ==
  ASSUME SessionsIInv, NEW r \in PbRequests, UpdateSession(r)
  PROVE  SessionsIInv'
<1> DEFINE s == pbCalls[r].id
           row == NewRow(r)
<1>1. /\ pbCalls[r] \in PbUnderWay /\ pbCalls[r].at = "read" /\ s \in PbIds /\ s \in pbUsed
      /\ row \in SessionRows /\ row.user = pbCalls[r].user
      /\ pbRows' = [pbRows EXCEPT ![s] = IF pbRows[s] = NoSession THEN NoSession ELSE row]
      /\ pbUsed' = pbUsed /\ pbTold' = pbTold /\ pbRaced' = pbRaced
      /\ pbCalls' \in [PbRequests -> PbUnderWay \cup {NoSession}]
      /\ pbCalls'[r] \in PbUnderWay /\ pbCalls'[r].id = s /\ pbCalls'[r].user = pbCalls[r].user
      /\ pbCalls'[r].copy = row /\ pbCalls'[r].at = "written"
  BY UpdateParts
<1>2. \A q \in PbRequests \ {r} :
        /\ pbCalls[q] = NoSession => pbCalls'[q] = NoSession
        /\ pbCalls[q] # NoSession =>
             /\ pbCalls'[q] \in PbUnderWay /\ pbCalls'[q].id = pbCalls[q].id
             /\ pbCalls'[q].user = pbCalls[q].user /\ pbCalls'[q].copy = pbCalls[q].copy
             /\ pbCalls'[q].at = pbCalls[q].at
             /\ pbCalls'[q].stale = (IF pbCalls[q].id = s THEN TRUE ELSE pbCalls[q].stale)
  BY UpdateParts
<1>3. PlaybackTypeOK /\ pbCalls[r] # NoSession /\ CallOK(r)
  BY DEF SessionsIInv, UpdateSession
<1> HIDE DEF s, row
<1>4. PlaybackTypeOK'
  BY <1>1, <1>3 DEF PlaybackTypeOK
<1>5. /\ pbRows'[s] = IF pbRows[s] = NoSession THEN NoSession ELSE row
      /\ \A q \in PbIds \ {s} : pbRows'[q] = pbRows[q]
  BY <1>1, <1>3 DEF PlaybackTypeOK
<1>6. (CallOK(r) /\ CopyFresh(r))'
  BY <1>1, <1>3, <1>5 DEF CallOK, CopyFresh, s
<1>7. \A q \in PbRequests \ {r} : pbCalls[q] # NoSession /\ pbCalls[q].id = s => s \in pbRaced
  BY <1>3 DEF SessionsIInv, AloneOK, s
<1>8. AloneOK(r)'
  <2> SUFFICES ASSUME s \notin pbRaced PROVE AloneOK(r)'
    BY <1>1 DEF AloneOK
  <2>1. \A q \in PbRequests : pbCalls'[q] # NoSession /\ pbCalls'[q].id = s => q = r
    BY <1>2, <1>7
  <2> QED BY <1>1, <1>5, <2>1 DEF AloneOK
<1>9. ASSUME NEW q \in PbRequests \ {r} PROVE (CallOK(q) /\ CopyFresh(q) /\ AloneOK(q))'
  <2>1. CallOK(q) /\ CopyFresh(q) /\ AloneOK(q)
    BY DEF SessionsIInv
  <2>2. CASE pbCalls[q] = NoSession
    BY <1>2, <2>2 DEF CallOK, CopyFresh, AloneOK
  <2>3. CASE pbCalls[q] # NoSession /\ pbCalls[q].id = s
    <3>1. s \in pbRaced /\ pbCalls'[q].stale = TRUE /\ pbCalls'[q].id = s
      BY <1>2, <1>7, <2>3
    <3>2. pbRows'[s] # NoSession => pbRows[s] # NoSession /\ pbRows'[s].user = pbCalls[r].user
      BY <1>1, <1>5
    <3>3. pbRows[s] # NoSession => pbCalls[q].user = pbCalls[r].user
      BY <1>3, <2>1, <2>3 DEF CallOK, s
    <3>4. CallOK(q)'
      BY <1>1, <1>2, <2>1, <2>3, <3>2, <3>3 DEF CallOK
    <3>5. (CopyFresh(q) /\ AloneOK(q))'
      BY <1>1, <3>1 DEF CopyFresh, AloneOK
    <3> QED BY <3>4, <3>5
  <2>4. CASE pbCalls[q] # NoSession /\ pbCalls[q].id # s
    <3>1. pbCalls[q].id \in PbIds /\ pbRows'[pbCalls[q].id] = pbRows[pbCalls[q].id]
      BY <1>5, <2>1, <2>4 DEF CallOK, PbUnderWay
    <3>2. (CallOK(q) /\ CopyFresh(q))'
      BY <1>1, <1>2, <2>1, <2>4, <3>1 DEF CallOK, CopyFresh
    <3>3. AloneOK(q)'
      <4> SUFFICES ASSUME pbCalls[q].id \notin pbRaced PROVE AloneOK(q)'
        BY <1>1, <1>2, <2>4 DEF AloneOK
      <4>1. \A p \in PbRequests : pbCalls'[p] # NoSession /\ pbCalls'[p].id = pbCalls[q].id => p = q
        BY <1>1, <1>2, <2>1, <2>4 DEF AloneOK
      <4> QED BY <1>1, <1>2, <2>1, <2>4, <3>1, <4>1 DEF AloneOK
    <3> QED BY <3>2, <3>3
  <2> QED BY <2>2, <2>3, <2>4
<1>10. ToldUnlessWriting'
  <2> SUFFICES ASSUME NEW p \in PbIds \ pbRaced, pbRows'[p] # NoSession, ~Writing(p)'
               PROVE  pbTold[p] = Told(pbRows'[p])
    BY <1>1 DEF ToldUnlessWriting
  <2>1. pbCalls'[r] # NoSession
    BY <1>1, <1>3, PlaybackSessionsAssumption
  <2>2. p # s
    BY <1>1, <2>1 DEF Writing
  <2>3. pbRows'[p] = pbRows[p]
    BY <1>5, <2>2
  <2>4. ~Writing(p)
    <3> SUFFICES ASSUME NEW q \in PbRequests, pbCalls[q] # NoSession, pbCalls[q].id = p, pbCalls[q].at = "written"
                 PROVE  FALSE
      BY DEF Writing
    <3>1. q # r
      BY <1>1
    <3>2. pbCalls'[q] \in PbUnderWay /\ pbCalls'[q].id = p /\ pbCalls'[q].at = "written"
      BY <1>2, <3>1
    <3> QED BY <3>2, PlaybackSessionsAssumption DEF Writing
  <2> QED BY <2>3, <2>4 DEF SessionsIInv, ToldUnlessWriting
<1> QED BY <1>1, <1>4, <1>6, <1>8, <1>9, <1>10 DEF SessionsIInv

\* The event tells what was written, unless the row has gone.
LEMMA ForwardKeeps ==
  ASSUME SessionsIInv, NEW r \in PbRequests, ForwardEvent(r)
  PROVE  SessionsIInv'
<1> DEFINE s == pbCalls[r].id
<1>1. /\ pbCalls[r] # NoSession /\ pbCalls[r].at = "written"
      /\ pbTold' = [pbTold EXCEPT ![s] = Told(pbCalls[r].copy)]
      /\ pbCalls' = [pbCalls EXCEPT ![r] = NoSession]
      /\ pbRows' = pbRows /\ pbUsed' = pbUsed /\ pbRaced' = pbRaced
  BY DEF ForwardEvent
<1>2. /\ PlaybackTypeOK /\ DOMAIN pbTold = PbIds /\ DOMAIN pbCalls = PbRequests
      /\ CallOK(r) /\ AloneOK(r)
  BY DEF SessionsIInv, PlaybackTypeOK
<1>3. s \in PbIds
  BY <1>1, <1>2 DEF CallOK, PbUnderWay
<1>4. pbCalls'[r] = NoSession /\ \A q \in PbRequests \ {r} : pbCalls'[q] = pbCalls[q]
  BY <1>1, <1>2
<1>5. pbTold'[s] = Told(pbCalls[r].copy) /\ \A p \in PbIds \ {s} : pbTold'[p] = pbTold[p]
  BY <1>1, <1>2, <1>3
<1>6. s \notin pbRaced => pbRows[s] \in {NoSession, pbCalls[r].copy}
  BY <1>1, <1>2 DEF AloneOK
<1>7. \A q \in PbRequests \ {r} : pbCalls[q] # NoSession /\ pbCalls[q].id = s => s \in pbRaced
  BY <1>1, <1>2 DEF AloneOK
<1> HIDE DEF s
<1>8. PlaybackTypeOK'
  BY <1>1, <1>2 DEF PlaybackTypeOK
<1>9. ASSUME NEW q \in PbRequests PROVE (CallOK(q) /\ CopyFresh(q) /\ AloneOK(q))'
  <2>1. CallOK(q) /\ CopyFresh(q) /\ AloneOK(q)
    BY DEF SessionsIInv
  <2> QED BY <1>1, <1>4, <2>1 DEF CallOK, CopyFresh, AloneOK
<1>10. ToldUnlessWriting'
  <2> SUFFICES ASSUME NEW p \in PbIds \ pbRaced, pbRows[p] # NoSession, ~Writing(p)'
               PROVE  pbTold'[p] = Told(pbRows[p])
    BY <1>1 DEF ToldUnlessWriting
  <2>1. CASE p = s
    BY <1>5, <1>6, <2>1
  <2>2. CASE p # s
    <3>1. ~Writing(p)
      BY <1>4, <2>2 DEF Writing, s
    <3> QED BY <1>5, <2>2, <3>1 DEF SessionsIInv, ToldUnlessWriting
  <2> QED BY <2>1, <2>2
<1> QED BY <1>1, <1>2, <1>8, <1>9, <1>10 DEF SessionsIInv

\* A command whose write fails leaves everything as it is.
LEMMA FailKeeps ==
  ASSUME SessionsIInv, NEW r \in PbRequests, UpdateFails(r)
  PROVE  SessionsIInv'
<1>1. /\ pbCalls[r] # NoSession /\ pbCalls[r].at = "read"
      /\ pbCalls' = [pbCalls EXCEPT ![r] = NoSession]
      /\ pbRows' = pbRows /\ pbUsed' = pbUsed /\ pbRaced' = pbRaced /\ pbTold' = pbTold
  BY DEF UpdateFails
<1>2. PlaybackTypeOK /\ DOMAIN pbTold = PbIds /\ DOMAIN pbCalls = PbRequests
  BY DEF SessionsIInv, PlaybackTypeOK
<1>3. pbCalls'[r] = NoSession /\ \A q \in PbRequests \ {r} : pbCalls'[q] = pbCalls[q]
  BY <1>1, <1>2
<1>4. PlaybackTypeOK'
  BY <1>1, <1>2 DEF PlaybackTypeOK
<1>5. ASSUME NEW q \in PbRequests PROVE (CallOK(q) /\ CopyFresh(q) /\ AloneOK(q))'
  <2>1. CallOK(q) /\ CopyFresh(q) /\ AloneOK(q)
    BY DEF SessionsIInv
  <2> QED BY <1>1, <1>3, <2>1 DEF CallOK, CopyFresh, AloneOK
<1>6. ToldUnlessWriting'
  <2> SUFFICES ASSUME NEW p \in PbIds \ pbRaced, pbRows[p] # NoSession, ~Writing(p)'
               PROVE  pbTold[p] = Told(pbRows[p])
    BY <1>1 DEF ToldUnlessWriting
  <2>1. ~Writing(p)
    BY <1>1, <1>3 DEF Writing
  <2> QED BY <2>1 DEF SessionsIInv, ToldUnlessWriting
<1> QED BY <1>1, <1>2, <1>4, <1>5, <1>6 DEF SessionsIInv

\* A row that is deleted is nobody's concern.
LEMMA DeleteKeeps ==
  ASSUME SessionsIInv, NEW s \in PbIds, DeleteSession(s)
  PROVE  SessionsIInv'
<1>1. /\ pbRows' = [pbRows EXCEPT ![s] = NoSession]
      /\ pbTold' = pbTold /\ pbCalls' = pbCalls /\ pbUsed' = pbUsed /\ pbRaced' = pbRaced
  BY DEF DeleteSession
<1>2. PlaybackTypeOK
  BY DEF SessionsIInv
<1>3. pbRows'[s] = NoSession /\ \A p \in PbIds \ {s} : pbRows'[p] = pbRows[p]
  BY <1>1, <1>2 DEF PlaybackTypeOK
<1>4. PlaybackTypeOK'
  BY <1>1, <1>2, <1>3 DEF PlaybackTypeOK
<1>5. ASSUME NEW q \in PbRequests PROVE (CallOK(q) /\ CopyFresh(q) /\ AloneOK(q))'
  <2>1. CallOK(q) /\ CopyFresh(q) /\ AloneOK(q)
    BY DEF SessionsIInv
  <2>2. pbCalls[q] # NoSession => pbRows'[pbCalls[q].id] \in {NoSession, pbRows[pbCalls[q].id]}
    BY <1>3, <2>1 DEF CallOK, PbUnderWay
  <2> QED BY <1>1, <2>1, <2>2 DEF CallOK, CopyFresh, AloneOK
<1>6. ToldUnlessWriting'
  BY <1>1, <1>3 DEF SessionsIInv, ToldUnlessWriting, Writing
<1> QED BY <1>1, <1>4, <1>5, <1>6 DEF SessionsIInv

\* Every step keeps the invariant.
LEMMA SessionsStep == SessionsIInv /\ [PlaybackNext]_playbackVars => SessionsIInv'
<1> SUFFICES ASSUME SessionsIInv, [PlaybackNext]_playbackVars PROVE SessionsIInv'
  OBVIOUS
<1>1. CASE PlaybackNext
  BY <1>1, StartKeeps, GetKeeps, UpdateKeeps, FailKeeps, ForwardKeeps, DeleteKeeps DEF PlaybackNext
<1>2. CASE UNCHANGED playbackVars
  BY <1>2 DEF playbackVars, SessionsIInv, PlaybackTypeOK, CallOK, CopyFresh, AloneOK,
              ToldUnlessWriting, Writing
<1> QED BY <1>1, <1>2

\* The sessions are as the devices that follow them were told, for any number of
\* users, sessions and commands at once, unless commands of one session overlap.
THEOREM SessionsCorrect == PlaybackSpec => []SessionsInv
BY SessionsStart, SessionsStep, SessionsIInvGives, PTL DEF PlaybackSpec

\* What a step may do to a row.
RowStep ==
  \A s \in PbIds :
    pbRows[s] # NoSession /\ pbRows'[s] # NoSession /\ pbRows'[s] # pbRows[s] =>
      \E r \in PbRequests :
        LET call == pbCalls[r]
        IN  /\ call # NoSession /\ call.id = s /\ call.user = pbRows[s].user
            /\ pbRows'[s].user = pbRows[s].user
            /\ \/ call.stale
               \/ \A f \in DOMAIN pbRows[s] \ DOMAIN call.sets :
                    pbRows'[s][f] = pbRows[s][f]

\* Commands that overlap may take each other's change back, and nothing else may:
\* a row is changed by its owner's commands alone, and one that was not overtaken
\* changes what it is there to set.
THEOREM OvertakenOnly == PlaybackSpec => OnlyOvertakenLose
<1>1. ASSUME SessionsIInv, PlaybackNext PROVE RowStep
  <2> SUFFICES ASSUME NEW s \in PbIds, pbRows[s] # NoSession, pbRows'[s] # NoSession,
                      pbRows'[s] # pbRows[s]
               PROVE  \E r \in PbRequests :
                        /\ pbCalls[r] # NoSession /\ pbCalls[r].id = s
                        /\ pbCalls[r].user = pbRows[s].user
                        /\ pbRows'[s].user = pbRows[s].user
                        /\ \/ pbCalls[r].stale
                           \/ \A f \in DOMAIN pbRows[s] \ DOMAIN pbCalls[r].sets :
                                pbRows'[s][f] = pbRows[s][f]
    BY DEF RowStep
  <2>1. PlaybackTypeOK
    BY <1>1 DEF SessionsIInv
  <2>2. ASSUME NEW q \in PbRequests, NEW u \in PbUsers, NEW p \in PbIds, HandleStart(q, u, p)
        PROVE  FALSE
    BY <2>1, <2>2 DEF HandleStart, PlaybackTypeOK
  <2>3. ASSUME NEW p \in PbIds, DeleteSession(p) PROVE FALSE
    BY <2>1, <2>3 DEF DeleteSession, PlaybackTypeOK
  <2>4. PICK r \in PbRequests : UpdateSession(r)
    BY <1>1, <2>2, <2>3 DEF PlaybackNext, GetSession, UpdateFails, ForwardEvent
  <2> DEFINE row == NewRow(r)
  <2>5. /\ pbCalls[r] \in PbUnderWay /\ pbCalls[r].at = "read" /\ pbCalls[r].id \in PbIds
        /\ row.user = pbCalls[r].user
        /\ pbRows' = [pbRows EXCEPT ![pbCalls[r].id] =
                        IF pbRows[pbCalls[r].id] = NoSession THEN NoSession ELSE row]
    BY <1>1, <2>4, UpdateParts
  <2>6. pbCalls[r] # NoSession /\ CallOK(r) /\ CopyFresh(r)
    BY <1>1, <2>4 DEF SessionsIInv, UpdateSession
  <2>7. \A f \in DOMAIN pbCalls[r].copy \ DOMAIN pbCalls[r].sets : row[f] = pbCalls[r].copy[f]
    BY <2>5, ChangedRow DEF PbUnderWay, NewRow
  <2> HIDE DEF row
  <2>8. pbCalls[r].id = s /\ pbRows'[s] = row
    BY <2>1, <2>5 DEF PlaybackTypeOK
  <2>9. pbCalls[r].user = pbRows[s].user /\ (~pbCalls[r].stale => pbRows[s] = pbCalls[r].copy)
    BY <2>5, <2>6, <2>8 DEF CallOK, CopyFresh
  <2> QED BY <2>5, <2>6, <2>7, <2>8, <2>9
<1>2. SessionsIInv /\ [PlaybackNext]_playbackVars => [RowStep]_playbackVars
  BY <1>1
<1>3. PlaybackSpec => [][RowStep]_playbackVars
  BY SessionsStart, SessionsStep, <1>2, PTL DEF PlaybackSpec
<1> QED BY <1>3 DEF RowStep, OnlyOvertakenLose

-----------------------------------------------------------------------------
(* CastSession.  LastSeen may be older than the last announcement by what  *)
(* the limit refuses, and no older: it is renewed whenever discoveryRate   *)
(* is, so what the limit refuses came within Rate ticks of it.             *)

\* What was seen is as young as the entry of the limiter.
SeenWithEntry(d) ==
  lastSeen[d] # Absent /\ discovery[d] # Absent => lastSeen[d] <= discovery[d]

\* What was announced is on the list, less than Rate older, or was pruned.
SeenInTime(d) ==
  announced[d] # Absent =>
    /\ discovery[d] # Absent
    /\ IF lastSeen[d] = Absent THEN announced[d] + Rate > Keep + 1
       ELSE lastSeen[d] < announced[d] + Rate

CastIInv ==
  /\ CastTypeOK /\ started \in 0..Starts
  /\ LoadingEnds
  /\ \A d \in CastDevices : SeenWithEntry(d) /\ SeenInTime(d)

\* The part about devices, and that about sessions, which no step of the other changes.
DevicesSeen ==
  /\ lastSeen \in [CastDevices -> Ticks \cup {Absent}]
  /\ discovery \in [CastDevices -> Ticks \cup {Absent}]
  /\ announced \in [CastDevices -> Ticks \cup {Absent}]
  /\ \A d \in CastDevices : SeenWithEntry(d) /\ SeenInTime(d)

LaunchesTold ==
  /\ sessions \in [CastIds -> Sessions \cup {Absent}]
  /\ launches \subseteq [number : 1..started, id : CastIds, device : CastDevices]
  /\ started \in 0..Starts
  /\ LoadingEnds

\* The invariant is one of devices and one of sessions.
LEMMA CastParts == CastIInv <=> DevicesSeen /\ LaunchesTold
BY DEF CastIInv, DevicesSeen, LaunchesTold, CastTypeOK

\* The invariant's parts give what the run checks.
LEMMA CastIInvGives == CastIInv => CastInv
<1> SUFFICES ASSUME CastIInv, NEW d \in CastDevices,
                    announced[d] # Absent, announced[d] + Rate <= Keep + 1
             PROVE  lastSeen[d] # Absent
  BY DEF CastIInv, CastInv, AnnouncedIsListed
<1>1. SeenInTime(d) /\ announced[d] \in Nat
  BY DEF CastIInv, CastTypeOK, Ticks
<1> QED BY <1>1, CastAssumption DEF SeenInTime

\* Nothing has been announced, and no session started.
LEMMA CastStart == CastInit => CastIInv
BY CastAssumption DEF CastInit, CastIInv, CastTypeOK, LoadingEnds, SeenWithEntry, SeenInTime

\* An announcement renews both entries or, when the limit refuses it, comes within
\* the limit of the last that did.
LEMMA DiscoverKeeps ==
  ASSUME DevicesSeen, NEW d \in CastDevices, Discover(d)
  PROVE  DevicesSeen'
<1>1. ASSUME NEW e \in CastDevices \ {d}
      PROVE  lastSeen'[e] = lastSeen[e] /\ discovery'[e] = discovery[e] /\ announced'[e] = announced[e]
  BY DEF Discover, Announces, RegisterDevice, DevicesSeen
<1>2. 0 \in Ticks
  BY CastAssumption DEF Ticks
<1>3. CASE AllowDiscovery(d)
  <2>1. /\ lastSeen' = [lastSeen EXCEPT ![d] = 0]
        /\ discovery' = [discovery EXCEPT ![d] = 0]
        /\ announced' = [announced EXCEPT ![d] = 0]
    BY <1>3 DEF Discover, Announces, RegisterDevice
  <2>2. lastSeen'[d] = 0 /\ discovery'[d] = 0 /\ announced'[d] = 0
    BY <2>1 DEF DevicesSeen
  <2>3. (SeenWithEntry(d) /\ SeenInTime(d))'
    BY <2>2, <1>2, CastAssumption, AbsentAssumption DEF SeenWithEntry, SeenInTime
  <2>4. \A e \in CastDevices \ {d} : (SeenWithEntry(e) /\ SeenInTime(e))'
    BY <1>1 DEF DevicesSeen, SeenWithEntry, SeenInTime
  <2> QED BY <2>1, <2>3, <2>4, <1>2 DEF DevicesSeen
<1>4. CASE ~AllowDiscovery(d)
  <2>1. /\ lastSeen' = lastSeen /\ discovery' = discovery
        /\ announced' = [announced EXCEPT ![d] = IF lastSeen[d] # Absent THEN 0 ELSE announced[d]]
    BY <1>4 DEF Discover, Announces
  <2>2. announced'[d] = IF lastSeen[d] # Absent THEN 0 ELSE announced[d]
    BY <2>1 DEF DevicesSeen
  <2>3. discovery[d] # Absent /\ discovery[d] \in Ticks /\ discovery[d] < Rate
    BY <1>4, CastAssumption DEF AllowDiscovery, DevicesSeen, Ticks
  <2>4. SeenWithEntry(d) /\ SeenInTime(d)
    BY DEF DevicesSeen
  <2>5. lastSeen[d] # Absent => lastSeen[d] \in Ticks /\ lastSeen[d] < Rate
    BY <2>3, <2>4, CastAssumption DEF SeenWithEntry, DevicesSeen, Ticks
  <2>6. (SeenWithEntry(d) /\ SeenInTime(d))'
    BY <2>1, <2>2, <2>3, <2>4, <2>5, <1>2, CastAssumption, AbsentAssumption
       DEF SeenWithEntry, SeenInTime, Ticks
  <2>7. \A e \in CastDevices \ {d} : (SeenWithEntry(e) /\ SeenInTime(e))'
    BY <1>1 DEF DevicesSeen, SeenWithEntry, SeenInTime
  <2>8. announced' \in [CastDevices -> Ticks \cup {Absent}]
    BY <2>1, <1>2 DEF DevicesSeen
  <2> QED BY <2>1, <2>6, <2>7, <2>8 DEF DevicesSeen
<1> QED BY <1>3, <1>4

\* A device added by hand was seen now and not announced; one that is removed has
\* not been announced either.
LEMMA AddKeeps ==
  ASSUME DevicesSeen, NEW d \in CastDevices, AddDevice(d, 0) \/ RemoveDevice(d)
  PROVE  DevicesSeen'
<1>1. PICK age \in {0, Absent} :
        /\ lastSeen' = [lastSeen EXCEPT ![d] = age]
        /\ announced' = [announced EXCEPT ![d] = Absent]
        /\ discovery' = discovery
  BY DEF AddDevice, RemoveDevice
<1>2. 0 \in Ticks
  BY CastAssumption DEF Ticks
<1>3. \A e \in CastDevices \ {d} :
        lastSeen'[e] = lastSeen[e] /\ discovery'[e] = discovery[e] /\ announced'[e] = announced[e]
  BY <1>1 DEF DevicesSeen
<1>4. lastSeen'[d] = age /\ announced'[d] = Absent /\ discovery[d] \in Ticks \cup {Absent}
  BY <1>1 DEF DevicesSeen
<1>5. (SeenWithEntry(d) /\ SeenInTime(d))'
  BY <1>1, <1>2, <1>4, CastAssumption, AbsentAssumption DEF SeenWithEntry, SeenInTime, Ticks
<1>6. \A e \in CastDevices \ {d} : (SeenWithEntry(e) /\ SeenInTime(e))'
  BY <1>3 DEF DevicesSeen, SeenWithEntry, SeenInTime
<1> QED BY <1>1, <1>2, <1>5, <1>6 DEF DevicesSeen

\* Only what was last announced long ago is pruned.
LEMMA PruneKeeps ==
  ASSUME DevicesSeen, PruneDevices
  PROVE  DevicesSeen'
<1>1. /\ lastSeen' = [d \in CastDevices |->
           IF lastSeen[d] # Absent /\ lastSeen[d] > Keep THEN Absent ELSE lastSeen[d]]
      /\ discovery' = discovery /\ announced' = announced
  BY DEF PruneDevices
<1>2. ASSUME NEW d \in CastDevices PROVE (SeenWithEntry(d) /\ SeenInTime(d))'
  <2>1. /\ SeenWithEntry(d) /\ SeenInTime(d)
        /\ lastSeen[d] \in Ticks \cup {Absent} /\ announced[d] \in Ticks \cup {Absent}
    BY DEF DevicesSeen
  <2>2. lastSeen'[d] = IF lastSeen[d] # Absent /\ lastSeen[d] > Keep THEN Absent ELSE lastSeen[d]
    BY <1>1
  <2> QED
    BY <1>1, <2>1, <2>2, CastAssumption DEF SeenWithEntry, SeenInTime, Ticks
<1>3. lastSeen' \in [CastDevices -> Ticks \cup {Absent}]
  BY <1>1 DEF DevicesSeen
<1> QED BY <1>1, <1>2, <1>3 DEF DevicesSeen

\* Ages grow together until they are capped.
LEMMA AgedTicks ==
  ASSUME NEW a \in Ticks \cup {Absent}
  PROVE  /\ Aged(a) \in Ticks \cup {Absent}
         /\ Aged(a) = Absent <=> a = Absent
         /\ a # Absent => Aged(a) = IF a = Keep + 1 THEN a ELSE a + 1
BY CastAssumption, AbsentAssumption DEF Aged, Ticks

\* A tick ages what was seen and announced alike.
LEMMA TickKeeps ==
  ASSUME DevicesSeen, Tick
  PROVE  DevicesSeen'
<1>1. /\ lastSeen' = [d \in CastDevices |-> Aged(lastSeen[d])]
      /\ discovery' = [d \in CastDevices |-> Aged(discovery[d])]
      /\ announced' = [d \in CastDevices |-> Aged(announced[d])]
  BY DEF Tick
<1>2. ASSUME NEW d \in CastDevices PROVE (SeenWithEntry(d) /\ SeenInTime(d))'
  <2>1. /\ SeenWithEntry(d) /\ SeenInTime(d)
        /\ lastSeen[d] \in Ticks \cup {Absent} /\ announced[d] \in Ticks \cup {Absent}
        /\ discovery[d] \in Ticks \cup {Absent}
    BY DEF DevicesSeen
  <2>2. /\ lastSeen'[d] = Aged(lastSeen[d]) /\ discovery'[d] = Aged(discovery[d])
        /\ announced'[d] = Aged(announced[d])
    BY <1>1
  <2>3. Keep \in Nat /\ Rate \in Nat \ {0} /\ Ticks = 0..(Keep + 1) /\ Absent \notin Ticks
    BY CastAssumption, AbsentAssumption DEF Ticks
  <2>4. /\ lastSeen[d] = Absent <=> lastSeen'[d] = Absent
        /\ discovery[d] = Absent <=> discovery'[d] = Absent
        /\ announced[d] = Absent <=> announced'[d] = Absent
    BY <2>1, <2>2, AgedTicks
  <2>5. /\ lastSeen[d] # Absent =>
             lastSeen'[d] = IF lastSeen[d] = Keep + 1 THEN lastSeen[d] ELSE lastSeen[d] + 1
        /\ discovery[d] # Absent =>
             discovery'[d] = IF discovery[d] = Keep + 1 THEN discovery[d] ELSE discovery[d] + 1
        /\ announced[d] # Absent =>
             announced'[d] = IF announced[d] = Keep + 1 THEN announced[d] ELSE announced[d] + 1
    BY <2>1, <2>2, AgedTicks
  <2>6. SeenWithEntry(d)'
    BY <2>1, <2>3, <2>4, <2>5 DEF SeenWithEntry
  <2>7. SeenInTime(d)'
    BY <2>1, <2>3, <2>4, <2>5 DEF SeenInTime
  <2> QED BY <2>6, <2>7
<1>3. /\ lastSeen' \in [CastDevices -> Ticks \cup {Absent}]
      /\ discovery' \in [CastDevices -> Ticks \cup {Absent}]
      /\ announced' \in [CastDevices -> Ticks \cup {Absent}]
  BY <1>1, AgedTicks DEF DevicesSeen
<1> QED BY <1>2, <1>3 DEF DevicesSeen

-----------------------------------------------------------------------------
\* A session that is started has its launch.
LEMMA StartSessionKeeps ==
  ASSUME LaunchesTold, NEW i \in CastIds, NEW d \in CastDevices, StartSession(i, d)
  PROVE  LaunchesTold'
<1> DEFINE s == [number |-> started + 1, device |-> d, state |-> "loading"]
           launch == [number |-> started + 1, id |-> i, device |-> d]
<1>1. /\ started \in 0..Starts /\ started < Starts /\ started' = started + 1
      /\ sessions' = [sessions EXCEPT ![i] = s] /\ launches' = launches \cup {launch}
  BY DEF StartSession, LaunchesTold
<1>2. s \in Sessions /\ started' \in 0..Starts
  BY <1>1, CastAssumption DEF Sessions, SessionStates
<1>3. sessions' \in [CastIds -> Sessions \cup {Absent}]
  BY <1>1, <1>2 DEF LaunchesTold
<1>4. launches' \subseteq [number : 1..started', id : CastIds, device : CastDevices]
  BY <1>1, CastAssumption DEF LaunchesTold
<1>5. ASSUME NEW j \in CastIds, sessions'[j] # Absent, sessions'[j].state = "loading"
      PROVE  [number |-> sessions'[j].number, id |-> j, device |-> sessions'[j].device] \in launches'
  <2>1. CASE j = i
    BY <1>1, <2>1 DEF LaunchesTold
  <2>2. CASE j # i
    <3>1. sessions'[j] = sessions[j]
      BY <1>1, <2>2 DEF LaunchesTold
    <3> QED BY <1>1, <1>5, <3>1 DEF LaunchesTold, LoadingEnds
  <2> QED BY <2>1, <2>2
<1> QED BY <1>2, <1>3, <1>4, <1>5 DEF LaunchesTold, LoadingEnds

\* A session that is set to a state other than loading, or that is gone, waits for no launch:
\* the launches of its id may go.
LEMMA SettledKeeps ==
  ASSUME LaunchesTold, NEW i \in CastIds, started' = started,
         launches' \subseteq launches, \A l \in launches \ launches' : l.id = i,
         NEW s \in Sessions \cup {Absent}, s # Absent => s.state # "loading",
         sessions' = [sessions EXCEPT ![i] = s]
  PROVE  LaunchesTold'
<1>1. ASSUME NEW j \in CastIds, sessions'[j] # Absent, sessions'[j].state = "loading"
      PROVE  [number |-> sessions'[j].number, id |-> j, device |-> sessions'[j].device] \in launches'
  <2>1. j # i /\ sessions'[j] = sessions[j]
    BY <1>1 DEF LaunchesTold
  <2>2. [number |-> sessions[j].number, id |-> j, device |-> sessions[j].device] \in launches
    BY <1>1, <2>1 DEF LaunchesTold, LoadingEnds
  <2> QED BY <2>1, <2>2
<1>2. sessions' \in [CastIds -> Sessions \cup {Absent}]
  BY DEF LaunchesTold
<1> QED BY <1>1, <1>2 DEF LaunchesTold, LoadingEnds

\* updateSessionState with a state that is not loading.
LEMMA UpdateSettles ==
  ASSUME LaunchesTold, NEW i \in CastIds, NEW state \in SessionStates \ {"loading"},
         UpdateSessionState(i, state)
  PROVE  \E s \in Sessions \cup {Absent} :
           (s # Absent => s.state # "loading") /\ sessions' = [sessions EXCEPT ![i] = s]
<1> DEFINE s == IF sessions[i] = Absent THEN Absent
                ELSE [number |-> sessions[i].number, device |-> sessions[i].device, state |-> state]
<1>1. sessions' = [sessions EXCEPT ![i] = s]
  BY DEF UpdateSessionState
<1>2. s \in Sessions \cup {Absent}
  BY DEF LaunchesTold, Sessions
<1>3. s # Absent => s.state # "loading"
  OBVIOUS
<1> HIDE DEF s
<1> QED BY <1>1, <1>2, <1>3

\* Every step keeps the invariant.
LEMMA CastStep == CastIInv /\ [CastNext]_castVars => CastIInv'
<1> SUFFICES ASSUME CastIInv, [CastNext]_castVars PROVE DevicesSeen' /\ LaunchesTold'
  BY CastParts DEF CastIInv, CastTypeOK, DevicesSeen, LaunchesTold
<1>1. DevicesSeen /\ LaunchesTold
  BY CastParts
<1>2. UNCHANGED <<lastSeen, discovery, announced>> => DevicesSeen'
  BY <1>1 DEF DevicesSeen, SeenWithEntry, SeenInTime
<1>3. UNCHANGED <<sessions, launches, started>> => LaunchesTold'
  BY <1>1 DEF LaunchesTold, LoadingEnds
<1>4. ASSUME NEW d \in CastDevices, Discover(d) \/ AddDevice(d, 0) \/ RemoveDevice(d)
      PROVE  DevicesSeen' /\ LaunchesTold'
  <2>1. DevicesSeen'
    BY <1>1, <1>4, DiscoverKeeps, AddKeeps
  <2>2. UNCHANGED <<sessions, launches, started>>
    BY <1>4 DEF Discover, AddDevice, RemoveDevice
  <2> QED BY <1>3, <2>1, <2>2
<1>5. CASE PruneDevices \/ Tick
  <2>1. UNCHANGED <<sessions, launches, started>>
    BY <1>5 DEF PruneDevices, Tick
  <2> QED BY <1>1, <1>3, <1>5, <2>1, PruneKeeps, TickKeeps
<1>6. ASSUME NEW i \in CastIds, NEW d \in CastDevices, StartSession(i, d)
      PROVE  DevicesSeen' /\ LaunchesTold'
  BY <1>1, <1>2, <1>6, StartSessionKeeps DEF StartSession
<1>7. ASSUME NEW i \in CastIds, StopSession(i)
      PROVE  DevicesSeen' /\ LaunchesTold'
  <2>1. /\ sessions' = [sessions EXCEPT ![i] = Absent]
        /\ UNCHANGED <<lastSeen, discovery, launches, started, announced>>
    BY <1>7 DEF StopSession
  <2> QED BY <1>1, <1>2, <2>1, SettledKeeps
<1>8. ASSUME NEW i \in CastIds, NEW state \in {"playing", "paused"}, Commands(i, state)
      PROVE  DevicesSeen' /\ LaunchesTold'
  <2>1. /\ UpdateSessionState(i, state) /\ state \in SessionStates \ {"loading"}
        /\ UNCHANGED <<lastSeen, discovery, launches, started, announced>>
    BY <1>8 DEF Commands, SessionStates
  <2>2. LaunchesTold'
    BY <1>1, <2>1, UpdateSettles, SettledKeeps
  <2> QED BY <1>2, <2>1, <2>2
<1>9. ASSUME NEW launch \in launches, NEW outcome \in {"done", "rejected", "fails"},
             LaunchEnds(launch, outcome)
      PROVE  DevicesSeen' /\ LaunchesTold'
  <2>1. PICK state \in {"idle", "playing"} : UpdateSessionState(launch.id, state)
    BY <1>9 DEF LaunchEnds
  <2>2. state \in SessionStates \ {"loading"} /\ launch.id \in CastIds
    BY <1>1 DEF SessionStates, LaunchesTold
  <2>3. /\ launches' = launches \ {launch}
        /\ UNCHANGED <<lastSeen, discovery, started, announced>>
    BY <1>9 DEF LaunchEnds
  <2>4. LaunchesTold'
    BY <1>1, <2>1, <2>2, <2>3, UpdateSettles, SettledKeeps
  <2> QED BY <1>2, <2>3, <2>4
<1>10. CASE UNCHANGED castVars
  BY <1>2, <1>3, <1>10 DEF castVars
<1> QED BY <1>4, <1>5, <1>6, <1>7, <1>8, <1>9, <1>10 DEF CastNext

\* For any number of devices and sessions: a session is loading only while its own launch
\* runs, and a device that is announced often enough is listed.
THEOREM CastCorrect == CastSpec => []CastInv
BY CastStart, CastStep, CastIInvGives, PTL DEF CastSpec

-----------------------------------------------------------------------------
(* DlnaServer.  The first answer a control point gets is the directory, so *)
(* what it has is the directory from then on, unless that has changed: no  *)
(* count matters, and the directories need not be finite.  A request that  *)
(* has checked an instance's media finds it there, unless it was overtaken.*)

ReaderFields == {"container", "count", "got", "index", "total", "whole"}

\* Nothing was read yet, or all there was.
ReadWhole ==
  reader # NoUri =>
    /\ DOMAIN reader = ReaderFields
    /\ reader.container \in Containers /\ reader.whole \in BOOLEAN
    /\ \/ reader.got = {} /\ reader.index = 0 /\ reader.total = 1
       \/ reader.whole => reader.got = directory[reader.container]

\* An instance at rest has media if it plays; what a request has looked up is
\* there, and has the media it checked for.
MediaAt(i) ==
  i \notin overlapped /\ transport[i] # NoUri /\ transport[i].state \in {"PLAYING", "PAUSED_PLAYBACK"} =>
    transport[i].uri # NoUri \/ UnderWay(i, {"set"})

CheckedAt(i) ==
  /\ UnderWay(i, {"set", "play", "pause"}) => transport[i] # NoUri
  /\ i \notin overlapped /\ UnderWay(i, {"play", "pause"}) => transport[i].uri # NoUri

Transports == \A i \in Instances : MediaAt(i) /\ CheckedAt(i)

DlnaIInv == DlnaTypeOK /\ ReadWhole /\ Transports

\* Nobody reads, and there are no instances yet.
LEMMA DlnaStart == DlnaInit => DlnaIInv
BY DEF DlnaInit, DlnaIInv, DlnaTypeOK, ReadWhole, Transports, MediaAt, CheckedAt, UnderWay

\* The invariant contains the property.
LEMMA DlnaIInvGives == DlnaIInv => DlnaInv
<1> SUFFICES ASSUME DlnaIInv, reader # NoUri, reader.index >= reader.total, reader.whole
             PROVE  reader.got = directory[reader.container]
  BY DEF DlnaIInv, DlnaInv, PagesAreWhole, TransportHasMedia, Transports, MediaAt
<1>1. ~(reader.index = 0 /\ reader.total = 1)
  OBVIOUS
<1> QED BY <1>1 DEF DlnaIInv, ReadWhole

\* A directory that changes is no longer the one that was read.
LEMMA ScanKeeps ==
  ASSUME DlnaIInv, NEW c \in Containers, NEW e \in DlnaEntries, Scan(c, e)
  PROVE  ReadWhole' /\ directory' \in [Containers -> SUBSET DlnaEntries]
<1>1. directory \in [Containers -> SUBSET DlnaEntries]
  BY DEF DlnaIInv, DlnaTypeOK
<1>2. directory' = [directory EXCEPT ![c] =
        IF e \in directory[c] THEN directory[c] \ {e} ELSE directory[c] \cup {e}]
  BY DEF Scan
<1>3. directory' \in [Containers -> SUBSET DlnaEntries]
  BY <1>1, <1>2
<1>4. ASSUME reader # NoUri PROVE ReadWhole'
  <2>1. /\ DOMAIN reader = ReaderFields
        /\ reader.container \in Containers /\ reader.whole \in BOOLEAN
        /\ \/ reader.got = {} /\ reader.index = 0 /\ reader.total = 1
           \/ reader.whole => reader.got = directory[reader.container]
    BY <1>4 DEF DlnaIInv, ReadWhole
  <2>2. reader' = [reader EXCEPT !.whole = (reader.whole /\ reader.container # c)]
    BY <1>4 DEF Scan
  <2>3. /\ DOMAIN reader' = ReaderFields /\ reader'.container = reader.container
        /\ reader'.got = reader.got /\ reader'.index = reader.index /\ reader'.total = reader.total
    BY <2>1, <2>2 DEF ReaderFields
  <2>4. reader'.whole = (reader.whole /\ reader.container # c)
    BY <2>1, <2>2 DEF ReaderFields
  <2>5. reader'.whole \in BOOLEAN
    BY <2>4, Zenon
  <2>6. reader'.whole => reader.whole /\ reader.container # c
    BY <2>4, Zenon
  <2>7. reader.container # c => directory'[reader.container] = directory[reader.container]
    BY <1>1, <1>2, <2>1
  <2> QED BY <2>1, <2>3, <2>5, <2>6, <2>7 DEF ReadWhole
<1>5. ASSUME reader = NoUri PROVE ReadWhole'
  BY <1>5 DEF Scan, ReadWhole
<1> QED BY <1>3, <1>4, <1>5

\* A page is the directory.
LEMMA BrowseKeeps ==
  ASSUME DlnaIInv, HandleBrowse
  PROVE  ReadWhole'
<1>1. reader # NoUri /\ directory' = directory
  BY DEF HandleBrowse
<1>2. /\ DOMAIN reader = ReaderFields
      /\ reader.container \in Containers /\ reader.whole \in BOOLEAN
      /\ \/ reader.got = {}
         \/ reader.whole => reader.got = directory[reader.container]
  BY <1>1 DEF DlnaIInv, ReadWhole
<1> DEFINE d == directory[reader.container]
<1>3. reader' = [reader EXCEPT !.got = reader.got \cup d, !.index = reader.index + Cardinality(d),
                               !.total = Cardinality(d)]
  BY DEF HandleBrowse, BuildBrowseResult
<1>4. /\ DOMAIN reader' = ReaderFields /\ reader'.container = reader.container
      /\ reader'.whole = reader.whole /\ reader'.got = reader.got \cup d
  BY <1>2, <1>3 DEF ReaderFields
<1> QED BY <1>1, <1>2, <1>4 DEF ReadWhole

\* An instance that is not there yet has no media and does not play.
LEMMA GetOrCreateType ==
  ASSUME DlnaIInv, NEW i \in Instances
  PROVE  /\ GetOrCreate(i) \in AVInfos
         /\ transport[i] # NoUri => GetOrCreate(i) = transport[i]
         /\ transport[i] = NoUri =>
              GetOrCreate(i).uri = NoUri /\ GetOrCreate(i).state = "NO_MEDIA_PRESENT"
<1>1. transport[i] # NoUri => transport[i] \in AVInfos
  BY DEF DlnaIInv, DlnaTypeOK
<1>2. [state |-> "NO_MEDIA_PRESENT", uri |-> NoUri, moved |-> FALSE] \in AVInfos
  BY DlnaAssumption DEF AVInfos, AVStates
<1> QED BY <1>1, <1>2 DEF GetOrCreate

Kinds == {"set", "play", "pause"}

\* One instance changes, and the requests of one: what is to be shown of it.
LEMMA InstanceKeeps ==
  ASSUME DlnaIInv, NEW i \in Instances, NEW info \in AVInfos,
         transport' = [transport EXCEPT ![i] = info],
         UNCHANGED <<server, alive, replies, directory, scans, reader>>,
         avCalls' \in [AvRequests -> AvUnderWay \cup {NoUri}],
         \A q \in Instances \ {i} : q \in overlapped' <=> q \in overlapped,
         overlapped' \subseteq Instances,
         \A q \in Instances \ {i}, K \in SUBSET Kinds : UnderWay(q, K)' <=> UnderWay(q, K),
         info.state \in {"PLAYING", "PAUSED_PLAYBACK"} /\ i \notin overlapped' =>
           info.uri # NoUri \/ UnderWay(i, {"set"})',
         UnderWay(i, {"play", "pause"})' /\ i \notin overlapped' => info.uri # NoUri
  PROVE  DlnaIInv'
<1>1. transport \in [Instances -> AVInfos \cup {NoUri}] /\ Transports /\ info # NoUri
  BY DlnaAssumption DEF DlnaIInv, DlnaTypeOK
<1>2. transport' \in [Instances -> AVInfos \cup {NoUri}] /\ transport'[i] = info
  BY <1>1
<1>3. (MediaAt(i) /\ CheckedAt(i))'
  BY <1>1, <1>2 DEF MediaAt, CheckedAt
<1>4. ASSUME NEW q \in Instances \ {i} PROVE (MediaAt(q) /\ CheckedAt(q))'
  <2>1. transport'[q] = transport[q] /\ (q \in overlapped' <=> q \in overlapped)
    BY <1>1
  <2>2. /\ UnderWay(q, {"set"})' <=> UnderWay(q, {"set"})
        /\ UnderWay(q, {"play", "pause"})' <=> UnderWay(q, {"play", "pause"})
        /\ UnderWay(q, {"set", "play", "pause"})' <=> UnderWay(q, {"set", "play", "pause"})
    <3>1. {"set"} \in SUBSET Kinds /\ {"play", "pause"} \in SUBSET Kinds
          /\ {"set", "play", "pause"} \in SUBSET Kinds
      BY DEF Kinds
    <3> QED BY <3>1
  <2> QED BY <1>1, <2>1, <2>2 DEF Transports, MediaAt, CheckedAt
<1>5. Transports'
  BY <1>3, <1>4 DEF Transports
<1>6. DlnaTypeOK' /\ ReadWhole'
  BY <1>2 DEF DlnaIInv, DlnaTypeOK, ReadWhole
<1> QED BY <1>5, <1>6 DEF DlnaIInv

\* A request begins or ends: the other instances' are as they were.
LEMMA OtherRequests ==
  ASSUME DlnaIInv, NEW i \in Instances, NEW k \in AvRequests,
         NEW c \in {a \in AvUnderWay : a.instance = i} \cup {NoUri},
         avCalls' = [avCalls EXCEPT ![k] = c],
         avCalls[k] = NoUri \/ avCalls[k].instance = i
  PROVE  /\ avCalls' \in [AvRequests -> AvUnderWay \cup {NoUri}]
         /\ \A q \in Instances \ {i}, K \in SUBSET Kinds : UnderWay(q, K)' <=> UnderWay(q, K)
         /\ \A K \in SUBSET Kinds :
              UnderWay(i, K)' => UnderWay(i, K) \/ (c # NoUri /\ c.kind \in K)
         /\ c # NoUri => \A K \in SUBSET Kinds : c.kind \in K => UnderWay(i, K)'
<1>1. avCalls \in [AvRequests -> AvUnderWay \cup {NoUri}]
  BY DEF DlnaIInv, DlnaTypeOK
<1>2. /\ avCalls' \in [AvRequests -> AvUnderWay \cup {NoUri}] /\ avCalls'[k] = c
      /\ \A l \in AvRequests \ {k} : avCalls'[l] = avCalls[l]
  BY <1>1
<1>3. c # NoUri => c.instance = i
  OBVIOUS
<1>4. ASSUME NEW q \in Instances \ {i}, NEW K \in SUBSET Kinds
      PROVE  UnderWay(q, K)' <=> UnderWay(q, K)
  BY <1>2, <1>3 DEF UnderWay
<1>5. ASSUME NEW K \in SUBSET Kinds
      PROVE  UnderWay(i, K)' => UnderWay(i, K) \/ (c # NoUri /\ c.kind \in K)
  <2> SUFFICES ASSUME UnderWay(i, K)' PROVE UnderWay(i, K) \/ (c # NoUri /\ c.kind \in K)
    OBVIOUS
  <2>1. PICK l \in AvRequests :
          avCalls'[l] # NoUri /\ avCalls'[l].instance = i /\ avCalls'[l].kind \in K
    BY DEF UnderWay
  <2>2. CASE l = k
    BY <1>2, <2>1, <2>2
  <2>3. CASE l # k
    <3>1. avCalls[l] # NoUri /\ avCalls[l].instance = i /\ avCalls[l].kind \in K
      BY <1>2, <2>1, <2>3
    <3> QED BY <3>1 DEF UnderWay
  <2> QED BY <2>2, <2>3
<1>6. ASSUME c # NoUri, NEW K \in SUBSET Kinds, c.kind \in K PROVE UnderWay(i, K)'
  BY <1>2, <1>3, <1>6 DEF UnderWay
<1> QED BY <1>2, <1>4, <1>5, <1>6

\* A request that checks first and sets its state later.
LEMMA RequestKeeps ==
  ASSUME DlnaIInv, NEW i \in Instances, NEW k \in AvRequests,
         HandlePlay(k, i) \/ HandlePause(k, i) \/ (\E uri \in Uris : HandleSetURI(k, i, uri))
  PROVE  DlnaIInv'
<1>1. /\ GetOrCreate(i) \in AVInfos
      /\ transport[i] # NoUri => GetOrCreate(i) = transport[i]
      /\ transport[i] = NoUri =>
           GetOrCreate(i).uri = NoUri /\ GetOrCreate(i).state = "NO_MEDIA_PRESENT"
  BY GetOrCreateType
<1>2. PICK info0 \in AVInfos : info0 = GetOrCreate(i)
  BY <1>1
<1>3. /\ MediaAt(i) /\ CheckedAt(i) /\ overlapped \subseteq Instances
      /\ {"set"} \in SUBSET Kinds /\ {"play", "pause"} \in SUBSET Kinds
  BY DEF DlnaIInv, DlnaTypeOK, Transports, Kinds
<1>4. ASSUME NEW kind \in Kinds, GoesOnToSet(k, i, kind)
      PROVE  /\ avCalls' \in [AvRequests -> AvUnderWay \cup {NoUri}]
             /\ \A q \in Instances \ {i}, K \in SUBSET Kinds : UnderWay(q, K)' <=> UnderWay(q, K)
             /\ \A K \in SUBSET Kinds : UnderWay(i, K)' => UnderWay(i, K) \/ kind \in K
             /\ \A K \in SUBSET Kinds : kind \in K => UnderWay(i, K)'
  <2>1. PICK c \in {a \in AvUnderWay : a.instance = i} : c = [instance |-> i, kind |-> kind]
    BY DEF AvUnderWay, Kinds
  <2>2. c # NoUri /\ c.kind = kind
    BY <2>1, DlnaAssumption
  <2>3. avCalls' = [avCalls EXCEPT ![k] = c] /\ avCalls[k] = NoUri
    BY <1>4, <2>1 DEF GoesOnToSet
  <2> QED BY <2>2, <2>3, OtherRequests
<1>5. CASE HandlePlay(k, i)
  <2>1. /\ info0.uri # NoUri /\ overlapped' = overlapped
        /\ transport' = [transport EXCEPT ![i] = info0]
        /\ UNCHANGED <<server, alive, replies, directory, scans, reader>>
        /\ GoesOnToSet(k, i, "play")
    BY <1>2, <1>5 DEF HandlePlay, Becomes
  <2>2. /\ avCalls' \in [AvRequests -> AvUnderWay \cup {NoUri}]
        /\ \A q \in Instances \ {i}, K \in SUBSET Kinds : UnderWay(q, K)' <=> UnderWay(q, K)
    BY <1>4, <2>1 DEF Kinds
  <2> QED BY <1>3, <2>1, <2>2, InstanceKeeps
<1>6. CASE HandlePause(k, i)
  <2>1. /\ info0.state = "PLAYING"
        /\ transport' = [transport EXCEPT ![i] = info0]
        /\ UNCHANGED <<server, alive, replies, directory, scans, reader>>
        /\ overlapped' = IF UnderWay(i, {"set"}) THEN overlapped \cup {i} ELSE overlapped
        /\ GoesOnToSet(k, i, "pause")
    BY <1>2, <1>6 DEF HandlePause, Becomes
  <2>2. /\ avCalls' \in [AvRequests -> AvUnderWay \cup {NoUri}]
        /\ \A q \in Instances \ {i}, K \in SUBSET Kinds : UnderWay(q, K)' <=> UnderWay(q, K)
    BY <1>4, <2>1 DEF Kinds
  <2>3. i \notin overlapped' => i \notin overlapped /\ ~UnderWay(i, {"set"})
    BY <2>1
  <2>4. transport[i] # NoUri /\ info0 = transport[i]
    BY <1>1, <1>2, <2>1
  <2>5. i \notin overlapped' => info0.uri # NoUri
    BY <1>3, <2>1, <2>3, <2>4 DEF MediaAt
  <2>6. overlapped' \subseteq Instances /\ \A q \in Instances \ {i} : q \in overlapped' <=> q \in overlapped
    BY <1>3, <2>1
  <2> QED BY <2>1, <2>2, <2>5, <2>6, InstanceKeeps
<1>7. ASSUME NEW uri \in Uris, HandleSetURI(k, i, uri) PROVE DlnaIInv'
  <2>1. PICK info \in AVInfos : info = [info0 EXCEPT !.uri = uri]
    BY DEF AVInfos
  <2>2. /\ transport' = [transport EXCEPT ![i] = info]
        /\ UNCHANGED <<server, alive, replies, directory, scans, reader>>
        /\ overlapped' = IF UnderWay(i, {"play", "pause"}) THEN overlapped \cup {i} ELSE overlapped
        /\ GoesOnToSet(k, i, "set")
    BY <1>2, <1>7, <2>1 DEF HandleSetURI, Becomes
  <2>3. /\ avCalls' \in [AvRequests -> AvUnderWay \cup {NoUri}]
        /\ \A q \in Instances \ {i}, K \in SUBSET Kinds : UnderWay(q, K)' <=> UnderWay(q, K)
        /\ UnderWay(i, {"play", "pause"})' => UnderWay(i, {"play", "pause"})
        /\ UnderWay(i, {"set"})'
    BY <1>3, <1>4, <2>2 DEF Kinds
  <2>4. overlapped' \subseteq Instances /\ \A q \in Instances \ {i} : q \in overlapped' <=> q \in overlapped
    BY <1>3, <2>2
  <2> QED BY <2>2, <2>3, <2>4, InstanceKeeps
<1> QED BY <1>5, <1>6, <1>7

\* A state that is set without looking: it has media if its request checked it
\* and was not overtaken.
LEMMA SetsStateKeeps ==
  ASSUME DlnaIInv, NEW k \in AvRequests, SetsState(k)
  PROVE  DlnaIInv'
<1>1. avCalls[k] \in AvUnderWay /\ avCalls[k] # NoUri
  BY DEF SetsState, DlnaIInv, DlnaTypeOK
<1>2. PICK i \in Instances, kind \in Kinds : avCalls[k].instance = i /\ avCalls[k].kind = kind
  BY <1>1 DEF AvUnderWay, Kinds
<1>3. /\ transport' = [transport EXCEPT ![i].state = LastlySet[kind]]
      /\ avCalls' = [avCalls EXCEPT ![k] = NoUri]
      /\ overlapped' = IF kind = "set" /\ ~UnderWay(i, {"play", "pause"}) THEN overlapped \ {i} ELSE overlapped
      /\ UNCHANGED <<server, alive, replies, directory, scans, reader>>
  BY <1>2 DEF SetsState
<1>4. /\ MediaAt(i) /\ CheckedAt(i) /\ overlapped \subseteq Instances
      /\ {"set"} \in SUBSET Kinds /\ {"play", "pause"} \in SUBSET Kinds
  BY DEF DlnaIInv, DlnaTypeOK, Transports, Kinds
<1>5. /\ avCalls' \in [AvRequests -> AvUnderWay \cup {NoUri}]
      /\ \A q \in Instances \ {i}, K \in SUBSET Kinds : UnderWay(q, K)' <=> UnderWay(q, K)
      /\ UnderWay(i, {"play", "pause"})' => UnderWay(i, {"play", "pause"})
  BY <1>2, <1>3, <1>4, OtherRequests
<1>6. UnderWay(i, {"set", "play", "pause"}) /\ (kind # "set" => UnderWay(i, {"play", "pause"}))
  BY <1>1, <1>2 DEF UnderWay, Kinds
<1>7. transport[i] \in AVInfos /\ transport[i] # NoUri
  BY <1>4, <1>6 DEF CheckedAt, DlnaIInv, DlnaTypeOK
<1>8. LastlySet[kind] \in AVStates /\ LastlySet["set"] = "STOPPED"
  BY DEF LastlySet, AVStates, Kinds
<1>9. PICK info \in AVInfos :
        info = [transport[i] EXCEPT !.state = LastlySet[kind]]
        /\ info.state = LastlySet[kind] /\ info.uri = transport[i].uri
  <2> DEFINE new == [transport[i] EXCEPT !.state = LastlySet[kind]]
  <2>1. new \in AVInfos /\ new.state = LastlySet[kind] /\ new.uri = transport[i].uri
    BY <1>7, <1>8 DEF AVInfos
  <2> QED BY <2>1
<1>10. transport' = [transport EXCEPT ![i] = info]
  BY <1>3, <1>9
<1>11. overlapped' \subseteq Instances /\ \A q \in Instances \ {i} : q \in overlapped' <=> q \in overlapped
  BY <1>3, <1>4
<1>12. info.state \in {"PLAYING", "PAUSED_PLAYBACK"} /\ i \notin overlapped' => info.uri # NoUri
  BY <1>3, <1>4, <1>6, <1>8, <1>9 DEF CheckedAt
<1>13. UnderWay(i, {"play", "pause"})' /\ i \notin overlapped' => info.uri # NoUri
  BY <1>3, <1>4, <1>5, <1>9 DEF CheckedAt
<1> QED BY <1>3, <1>5, <1>10, <1>11, <1>12, <1>13, InstanceKeeps

\* A stop, a seek or a question, which no request under way changes.
LEMMA AtOnceKeeps ==
  ASSUME DlnaIInv, NEW i \in Instances,
         HandleStop(i) \/ HandleGetInfo(i) \/ (\E known \in BOOLEAN : HandleSeek(i, known))
  PROVE  DlnaIInv'
<1>1. /\ GetOrCreate(i) \in AVInfos
      /\ transport[i] # NoUri => GetOrCreate(i) = transport[i]
      /\ transport[i] = NoUri =>
           GetOrCreate(i).uri = NoUri /\ GetOrCreate(i).state = "NO_MEDIA_PRESENT"
  BY GetOrCreateType
<1>2. PICK info0 \in AVInfos : info0 = GetOrCreate(i)
  BY <1>1
<1>3. /\ MediaAt(i) /\ CheckedAt(i) /\ overlapped \subseteq Instances
      /\ avCalls \in [AvRequests -> AvUnderWay \cup {NoUri}]
  BY DEF DlnaIInv, DlnaTypeOK, Transports
<1>4. PICK info \in AVInfos :
        /\ Becomes(i, info) /\ info.uri = info0.uri
        /\ \/ HandleStop(i) /\ info.state = "STOPPED"
           \/ overlapped' = overlapped /\ info.state = info0.state
  <2>1. CASE HandleStop(i)
    <3>1. PICK info \in AVInfos : /\ info = [info0 EXCEPT !.state = "STOPPED", !.moved = FALSE]
                                  /\ info.uri = info0.uri /\ info.state = "STOPPED"
      <4> DEFINE new == [info0 EXCEPT !.state = "STOPPED", !.moved = FALSE]
      <4>1. new \in AVInfos /\ new.uri = info0.uri /\ new.state = "STOPPED"
        BY DEF AVInfos, AVStates
      <4> QED BY <4>1
    <3> QED BY <1>2, <2>1, <3>1 DEF HandleStop
  <2>2. CASE HandleGetInfo(i)
    BY <1>2, <2>2 DEF HandleGetInfo
  <2>3. ASSUME NEW known \in BOOLEAN, HandleSeek(i, known)
        PROVE  \E info \in AVInfos :
                 /\ Becomes(i, info) /\ info.uri = info0.uri
                 /\ \/ HandleStop(i) /\ info.state = "STOPPED"
                    \/ overlapped' = overlapped /\ info.state = info0.state
    <3>1. PICK moved \in BOOLEAN : moved = (info0.moved \/ known)
      BY Zenon
    <3>2. PICK info \in AVInfos : /\ info = [info0 EXCEPT !.moved = moved]
                                  /\ info.uri = info0.uri /\ info.state = info0.state
      <4> DEFINE new == [info0 EXCEPT !.moved = moved]
      <4>1. new \in AVInfos /\ new.uri = info0.uri /\ new.state = info0.state
        BY DEF AVInfos
      <4> QED BY <4>1
    <3>3. Becomes(i, info) /\ overlapped' = overlapped
      BY <1>2, <2>3, <3>1, <3>2 DEF HandleSeek
    <3> QED BY <3>2, <3>3
  <2> QED BY <2>1, <2>2, <2>3
<1>5. /\ transport' = [transport EXCEPT ![i] = info]
      /\ UNCHANGED <<server, alive, replies, directory, scans, reader>>
      /\ avCalls' = avCalls
  BY <1>4 DEF Becomes, HandleStop, HandleGetInfo, HandleSeek
<1>6. /\ \A q \in Instances, K \in SUBSET Kinds : UnderWay(q, K)' <=> UnderWay(q, K)
      /\ UnderWay(i, {"set"})' <=> UnderWay(i, {"set"})
      /\ UnderWay(i, {"play", "pause"})' <=> UnderWay(i, {"play", "pause"})
  BY <1>5 DEF UnderWay
<1>7. UnderWay(i, {"play", "pause"}) => UnderWay(i, {"set", "play", "pause"})
  BY DEF UnderWay
<1>8. CASE HandleStop(i) /\ info.state = "STOPPED"
  <2>1. overlapped' = IF UnderWay(i, {"play", "pause"}) THEN overlapped ELSE overlapped \ {i}
    BY <1>8 DEF HandleStop
  <2>2. overlapped' \subseteq Instances /\ \A q \in Instances \ {i} : q \in overlapped' <=> q \in overlapped
    BY <1>3, <2>1
  <2>3. UnderWay(i, {"play", "pause"})' /\ i \notin overlapped' => info.uri # NoUri
    BY <1>1, <1>2, <1>3, <1>4, <1>6, <1>7, <2>1 DEF CheckedAt
  <2> QED BY <1>3, <1>5, <1>6, <1>8, <2>2, <2>3, InstanceKeeps
<1>9. CASE overlapped' = overlapped /\ info.state = info0.state
  <2>1. UnderWay(i, {"play", "pause"})' /\ i \notin overlapped' => info.uri # NoUri
    BY <1>1, <1>2, <1>3, <1>4, <1>6, <1>7, <1>9 DEF CheckedAt
  <2>2. info.state \in {"PLAYING", "PAUSED_PLAYBACK"} /\ i \notin overlapped' =>
          info.uri # NoUri \/ UnderWay(i, {"set"})'
    BY <1>1, <1>2, <1>3, <1>4, <1>6, <1>9 DEF MediaAt
  <2> QED BY <1>3, <1>5, <1>6, <1>9, <2>1, <2>2, InstanceKeeps
<1> QED BY <1>4, <1>8, <1>9

\* Every handler, scan and start or stop of the server keeps the invariant.
LEMMA DlnaStep == DlnaIInv /\ [DlnaNext]_dlnaVars => DlnaIInv'
<1> SUFFICES ASSUME DlnaIInv, [DlnaNext]_dlnaVars PROVE DlnaIInv'
  OBVIOUS
<1> DEFINE transports == <<transport, avCalls, overlapped>>
<1>a. ASSUME UNCHANGED transports PROVE Transports'
  BY <1>a DEF DlnaIInv, Transports, MediaAt, CheckedAt, UnderWay
<1>b. /\ directory \in [Containers -> SUBSET DlnaEntries] /\ ReadWhole
      /\ server \in {"down", "up", "stopped"} /\ alive \in 0..3 /\ replies \subseteq Matched
  BY DEF DlnaIInv, DlnaTypeOK
<1>c. ASSUME UNCHANGED transports, ReadWhole', directory' \in [Containers -> SUBSET DlnaEntries],
             server' \in {"down", "up", "stopped"}, alive' \in 0..3, replies' \subseteq Matched
      PROVE  DlnaIInv'
  BY <1>a, <1>c DEF DlnaIInv, DlnaTypeOK
<1>1. CASE ServerNext
  <2>1. UNCHANGED <<directory, reader>> /\ UNCHANGED transports
    BY <1>1 DEF ServerNext, StartServer, Announce, StopServer, Search, transportVars
  <2>2. server' \in {"down", "up", "stopped"} /\ alive' \in 0..3 /\ replies' \subseteq Matched
    BY <1>1, <1>b DEF ServerNext, StartServer, Announce, StopServer, Search
  <2>3. ReadWhole'
    BY <1>b, <2>1 DEF ReadWhole
  <2> QED BY <1>b, <1>c, <2>1, <2>2, <2>3
<1>2. ASSUME NEW c \in Containers, NEW e \in DlnaEntries, Scan(c, e) PROVE DlnaIInv'
  <2>1. UNCHANGED <<server, alive, replies>> /\ UNCHANGED transports
    BY <1>2 DEF Scan, transportVars
  <2> QED BY <1>2, <1>b, <1>c, <2>1, ScanKeeps
<1>3. ASSUME NEW c \in Containers, NEW n \in PageSizes, Opens(c, n) PROVE DlnaIInv'
  <2>1. ReadWhole'
    BY <1>3 DEF Opens, ReadWhole, ReaderFields
  <2>2. UNCHANGED <<server, alive, replies, directory>> /\ UNCHANGED transports
    BY <1>3 DEF Opens, transportVars
  <2> QED BY <1>b, <1>c, <2>1, <2>2
<1>4. CASE HandleBrowse
  <2>1. UNCHANGED <<server, alive, replies, directory>> /\ UNCHANGED transports
    BY <1>4 DEF HandleBrowse, transportVars
  <2> QED BY <1>4, <1>b, <1>c, <2>1, BrowseKeeps
<1>5. CASE Closes
  <2>1. /\ UNCHANGED <<server, alive, replies, directory>> /\ UNCHANGED transports
        /\ reader' = NoUri
    BY <1>5 DEF Closes, transportVars
  <2>2. ReadWhole'
    BY <2>1 DEF ReadWhole
  <2> QED BY <1>b, <1>c, <2>1, <2>2
<1>6. CASE TransportNext
  BY <1>6, RequestKeeps, SetsStateKeeps, AtOnceKeeps DEF TransportNext
<1>7. CASE UNCHANGED dlnaVars
  <2>1. UNCHANGED <<server, alive, replies, directory, reader>> /\ UNCHANGED transports
    BY <1>7 DEF dlnaVars
  <2>2. ReadWhole'
    BY <1>b, <2>1 DEF ReadWhole
  <2> QED BY <1>b, <1>c, <2>1, <2>2
<1> QED BY <1>1, <1>2, <1>3, <1>4, <1>5, <1>6, <1>7 DEF DlnaNext, BrowseNext

\* For any directories and any page sizes: a control point that stops when it has as many
\* entries as it was told there are has the whole of a directory that did not change.  For
\* any instances and requests: what plays has media, but where a new uri and a request to
\* play or pause overlapped.
THEOREM DlnaCorrect == DlnaSpec => []DlnaInv
BY DlnaStart, DlnaStep, DlnaIInvGives, PTL DEF DlnaSpec

-----------------------------------------------------------------------------
(* LiveTV.  In a buffer whose segments were all begun in seconds of their  *)
(* own the paths increase: what is written now is at the end, what is      *)
(* removed is named by no other segment, and what a failure leaves behind  *)
(* is named by none.                                                       *)

Clocked ==
  /\ second \in 0..Seconds /\ written \in Nat /\ crowded \in BOOLEAN
  /\ files \in [0..Seconds -> Nat]
  /\ segments \in Seq([path : 0..second, data : 1..written])
  /\ Len(segments) <= MaxSegments
  /\ left \subseteq 0..second

\* A sequence's length and members; a sequence over more.
LEMMA SeqMembers ==
  ASSUME NEW S, NEW s \in Seq(S)
  PROVE  /\ Len(s) \in Nat /\ \A i \in 1..Len(s) : s[i] \in S
         /\ \A T : S \subseteq T => s \in Seq(T)
<1>1. Len(s) \in Nat /\ s \in [1..Len(s) -> S]
  OBVIOUS
<1>2. ASSUME NEW T, S \subseteq T PROVE s \in Seq(T)
  <2>1. s \in [1..Len(s) -> T]
    BY <1>1, <1>2
  <2> QED BY <1>1, <2>1
<1> QED BY <1>1, <1>2

\* The names of the segments increase; each file is one segment's, with its data,
\* or was left by a failure.
InOrder ==
  \A i, j \in 1..Len(segments) : i < j => segments[i].path < segments[j].path

FilesNamed ==
  \A p \in 0..Seconds :
    files[p] # 0 => p \in left \/ \E i \in 1..Len(segments) : segments[i].path = p

LeftStays == \A p \in left : files[p] # 0

NamesHeld ==
  \A i \in 1..Len(segments) :
    files[segments[i].path] = segments[i].data /\ segments[i].path \notin left

OnDisk == InOrder /\ FilesNamed /\ LeftStays /\ NamesHeld

Recorded ==
  /\ channels \subseteq TvChannels
  /\ recs \in [Recordings -> [channel : TvChannels, status : Statuses, phase : Phases] \cup {NoChannel}]
  /\ RecordingsEnd

LiveIInv == Recorded /\ Clocked /\ (~crowded => OnDisk)

\* At the start nothing is recorded and the buffer is empty.
LEMMA LiveStart == LiveInit => LiveIInv
<1> SUFFICES ASSUME LiveInit PROVE LiveIInv
  OBVIOUS
<1>1. segments = <<>> /\ Len(segments) = 0
  BY DEF LiveInit
<1>2. segments \in Seq([path : 0..second, data : 1..written])
  BY <1>1
<1>3. Recorded /\ Clocked
  BY <1>1, <1>2, LiveAssumption DEF LiveInit, Recorded, RecordingsEnd, Clocked
<1>4. OnDisk
  BY <1>1 DEF LiveInit, OnDisk, InOrder, FilesNamed, LeftStays, NamesHeld
<1> QED BY <1>3, <1>4 DEF LiveIInv

\* The invariant gives the property.
LEMMA LiveIInvGives == LiveIInv => LiveInv
<1> SUFFICES ASSUME LiveIInv PROVE LiveInv
  OBVIOUS
<1>1. LiveTypeOK /\ RecordingsEnd
  BY DEF LiveIInv, Recorded, Clocked, LiveTypeOK
<1>2. ASSUME ~crowded PROVE PlaylistIsOnDisk
  <2>1. OnDisk /\ Clocked /\ InOrder
    BY <1>2 DEF LiveIInv, OnDisk
  <2>2. \A i \in 1..Len(segments) : segments[i].data # 0 /\ Len(segments) \in Nat
    <3>1. /\ Len(segments) \in Nat /\ written \in Nat
          /\ \A i \in 1..Len(segments) : segments[i] \in [path : 0..second, data : 1..written]
      BY <2>1, SeqMembers DEF Clocked
    <3> QED BY <3>1
  <2>3. ASSUME NEW i \in 1..Len(segments), i > 1
        PROVE  segments[i - 1].path < segments[i].path
    BY <2>1, <2>2, <2>3 DEF InOrder
  <2>4. ASSUME NEW p \in 0..Seconds
        PROVE  files[p] # 0 <=> p \in left \/ \E i \in 1..Len(segments) : segments[i].path = p
    BY <2>1, <2>2 DEF OnDisk, FilesNamed, LeftStays, NamesHeld
  <2> QED BY <2>1, <2>2, <2>3, <2>4 DEF PlaylistIsOnDisk, OnDisk, NamesHeld
<1> QED BY <1>1, <1>2 DEF LiveInv, PlaylistIsOnDisk

\* A segment that is written: which segments there are then.
LEMMA Written ==
  ASSUME Clocked, WriteSegment(written + 1)
  PROVE  /\ \/ /\ Len(segments) < MaxSegments /\ Len(segments') = Len(segments) + 1
               /\ \A i \in 1..Len(segments) : segments'[i] = segments[i]
               /\ files' = [files EXCEPT ![second] = written + 1]
               /\ left' = left \ {second}
            \/ /\ Len(segments) = MaxSegments /\ Len(segments') = Len(segments)
               /\ \A i \in 1..(Len(segments) - 1) : segments'[i] = segments[i + 1]
               /\ \/ /\ files' = [[files EXCEPT ![second] = written + 1] EXCEPT ![segments[1].path] = 0]
                     /\ left' = left \ {second}
                  \/ /\ files' = [files EXCEPT ![second] = written + 1]
                     /\ left' = (left \ {second}) \cup {segments[1].path}
         /\ segments'[Len(segments')] = [path |-> second, data |-> written + 1]
         /\ Clocked'
<1> DEFINE S == [path : 0..second, data : 1..(written + 1)]
           new == [path |-> second, data |-> written + 1]
           kept == IF Len(segments) >= MaxSegments THEN Tail(segments) ELSE segments
<1>1. /\ written \in Nat /\ written' = written + 1 /\ second' = second
      /\ second \in 0..Seconds /\ Seconds \in Nat /\ MaxSegments \in Nat \ {0}
      /\ segments' = Append(kept, new)
      /\ files \in [0..Seconds -> Nat] /\ crowded \in BOOLEAN /\ left \subseteq 0..second
  BY LiveAssumption DEF WriteSegment, Begun, Full, Clocked
<1>2. segments \in Seq(S) /\ Len(segments) \in Nat /\ Len(segments) <= MaxSegments
  <2>1. [path : 0..second, data : 1..written] \subseteq S
    BY <1>1
  <2> QED BY <2>1, SeqMembers DEF Clocked
<1>3. new \in S
  BY <1>1
<1>4. crowded' \in BOOLEAN
  BY <1>1, Zenon DEF WriteSegment, Begun
<1>5. CASE Len(segments) < MaxSegments
  <2>1. /\ segments' = Append(segments, new) /\ files' = [files EXCEPT ![second] = written + 1]
        /\ left' = left \ {second}
    BY <1>1, <1>2, <1>5 DEF WriteSegment, Full
  <2>2. /\ Len(segments') = Len(segments) + 1
        /\ \A i \in 1..Len(segments) : segments'[i] = segments[i]
        /\ segments'[Len(segments')] = new
        /\ segments' \in Seq(S)
    BY <1>2, <1>3, <2>1
  <2>3. files' \in [0..Seconds -> Nat] /\ left' \subseteq 0..second'
    BY <1>1, <2>1
  <2>4. Len(segments') <= MaxSegments
    BY <1>1, <1>2, <1>5, <2>2
  <2>5. /\ second' \in 0..Seconds /\ written' \in Nat
        /\ segments' \in Seq([path : 0..second', data : 1..written'])
    BY <1>1, <2>2
  <2>6. Clocked'
    BY <1>4, <2>3, <2>4, <2>5 DEF Clocked
  <2> QED BY <1>5, <2>1, <2>2, <2>6
<1>6. CASE Len(segments) >= MaxSegments
  <2>1. segments # <<>> /\ Len(segments) = MaxSegments /\ Head(segments) = segments[1]
    BY <1>1, <1>2, <1>6
  <2>2. /\ segments' = Append(Tail(segments), new)
        /\ \/ /\ files' = [[files EXCEPT ![second] = written + 1] EXCEPT ![segments[1].path] = 0]
              /\ left' = left \ {second}
           \/ /\ files' = [files EXCEPT ![second] = written + 1]
              /\ left' = (left \ {second}) \cup {segments[1].path}
    BY <1>1, <1>2, <1>6, <2>1 DEF WriteSegment, Full
  <2>3. /\ Tail(segments) \in Seq(S) /\ Len(Tail(segments)) = Len(segments) - 1
        /\ \A i \in 1..(Len(segments) - 1) : Tail(segments)[i] = segments[i + 1]
        /\ segments[1].path \in 0..second
    <3>1. 1 \in 1..Len(segments)
      BY <1>1, <2>1
    <3>2. segments[1] \in S
      BY <1>2, <3>1, SeqMembers
    <3>3. segments[1].path \in 0..second
      BY <3>2
    <3> QED BY <1>2, <2>1, <3>3
  <2>4. /\ Len(segments') = Len(segments)
        /\ \A i \in 1..(Len(segments) - 1) : segments'[i] = segments[i + 1]
        /\ segments'[Len(segments')] = new
        /\ segments' \in Seq(S)
    BY <1>2, <1>3, <2>1, <2>2, <2>3
  <2>5. files' \in [0..Seconds -> Nat] /\ left' \subseteq 0..second'
    <3>1. [files EXCEPT ![second] = written + 1] \in [0..Seconds -> Nat]
      BY <1>1
    <3>2. files' = [files EXCEPT ![second] = written + 1] \/
          files' = [[files EXCEPT ![second] = written + 1] EXCEPT ![segments[1].path] = 0]
      BY <2>2
    <3>4. files' \in [0..Seconds -> Nat]
      BY <3>1, <3>2
    <3>3. left' \subseteq left \cup {segments[1].path}
      BY <2>2
    <3> QED BY <1>1, <2>3, <3>3, <3>4
  <2>6. /\ second' \in 0..Seconds /\ written' \in Nat /\ Len(segments') <= MaxSegments
        /\ segments' \in Seq([path : 0..second', data : 1..written'])
    BY <1>1, <1>2, <2>4
  <2>7. Clocked'
    BY <1>4, <2>5, <2>6 DEF Clocked
  <2> QED BY <2>1, <2>2, <2>4, <2>7
<1> QED BY <1>2, <1>5, <1>6, <1>1

\* What is known of a buffer in which no segment was begun in this second.
LEMMA NotCrowded ==
  ASSUME LiveIInv, Begun(written + 1), ~crowded'
  PROVE  /\ OnDisk /\ ~crowded /\ second' = second
         /\ second \in 0..Seconds /\ written \in Nat /\ files \in [0..Seconds -> Nat]
         /\ Len(segments) \in Nat /\ Seconds \in Nat /\ MaxSegments \in Nat \ {0}
         /\ \A p \in left : p \in 0..Seconds
         /\ \A i \in 1..Len(segments) :
              /\ segments[i].path \in 0..Seconds /\ segments[i].path < second
              /\ segments[i].data \in 1..written
<1>1. ~crowded /\ second' = second /\ \A i \in 1..Len(segments) : segments[i].path # second
  BY DEF Begun, Crowds
<1>2. Clocked
  BY DEF LiveIInv
<1>3. /\ Len(segments) \in Nat
      /\ \A i \in 1..Len(segments) : segments[i] \in [path : 0..second, data : 1..written]
  BY <1>2, SeqMembers DEF Clocked
<1>4. second \in 0..Seconds /\ Seconds \in Nat /\ written \in Nat
  BY <1>2, LiveAssumption DEF Clocked
<1>5. ASSUME NEW i \in 1..Len(segments)
      PROVE  /\ segments[i].path \in 0..Seconds /\ segments[i].path < second
             /\ segments[i].data \in 1..written
  BY <1>1, <1>3, <1>4
<1>6. ASSUME NEW p \in left PROVE p \in 0..Seconds
  <2>1. p \in 0..second
    BY <1>2, <1>6 DEF Clocked
  <2> QED BY <1>4, <2>1
<1> QED BY <1>1, <1>2, <1>3, <1>4, <1>5, <1>6, LiveAssumption DEF Clocked, LiveIInv

\* As long as no second sees two segments, the buffer stays in order and on disk.
LEMMA WriteKeeps ==
  ASSUME LiveIInv, WriteSegment(written + 1)
  PROVE  LiveIInv'
<1>1. Clocked /\ Clocked' /\ Recorded'
  BY Written DEF LiveIInv, Recorded, RecordingsEnd, WriteSegment, Begun
<1>2. ASSUME ~crowded' PROVE OnDisk'
  <2>1. /\ OnDisk /\ ~crowded /\ second' = second
        /\ second \in 0..Seconds /\ written \in Nat /\ files \in [0..Seconds -> Nat]
        /\ Len(segments) \in Nat /\ Seconds \in Nat /\ MaxSegments \in Nat \ {0}
        /\ \A p \in left : p \in 0..Seconds
        /\ \A i \in 1..Len(segments) :
             /\ segments[i].path \in 0..Seconds /\ segments[i].path < second
             /\ segments[i].data \in 1..written
    BY <1>2, NotCrowded DEF WriteSegment
  <2>2. InOrder /\ FilesNamed /\ LeftStays /\ NamesHeld
    BY <2>1 DEF OnDisk
  <2>3. segments'[Len(segments')] = [path |-> second, data |-> written + 1]
    BY <1>1, Written
  <2>4. CASE /\ Len(segments) < MaxSegments /\ Len(segments') = Len(segments) + 1
             /\ \A i \in 1..Len(segments) : segments'[i] = segments[i]
             /\ files' = [files EXCEPT ![second] = written + 1]
             /\ left' = left \ {second}
    <3>1. ASSUME NEW i \in 1..Len(segments'), NEW j \in 1..Len(segments'), i < j
          PROVE  segments'[i].path < segments'[j].path
      <4>1. i \in 1..Len(segments) /\ segments'[i] = segments[i] /\ segments[i].path < second
        BY <2>1, <2>4, <3>1
      <4>2. CASE j = Len(segments')
        BY <2>3, <4>1, <4>2
      <4>3. CASE j # Len(segments')
        <5>1. j \in 1..Len(segments)
          BY <2>1, <2>4, <4>3
        <5>2. segments'[j] = segments[j]
          BY <2>4, <5>1
        <5> QED BY <2>2, <3>1, <4>1, <5>1, <5>2 DEF InOrder
      <4> QED BY <4>2, <4>3
    <3>2. ASSUME NEW p \in 0..Seconds, files'[p] # 0
          PROVE  p \in left' \/ \E i \in 1..Len(segments') : segments'[i].path = p
      <4>1. CASE p = second
        BY <2>1, <2>3, <2>4, <4>1
      <4>2. CASE p # second
        <5>1. p \in left \/ \E i \in 1..Len(segments) : segments[i].path = p
          BY <2>1, <2>2, <2>4, <3>2, <4>2 DEF FilesNamed
        <5> QED BY <2>1, <2>4, <4>2, <5>1
      <4> QED BY <4>1, <4>2
    <3>3. ASSUME NEW p \in left' PROVE files'[p] # 0
      <4>1. p \in left /\ p # second /\ p \in 0..Seconds /\ files[p] # 0
        BY <2>1, <2>2, <2>4, <3>3 DEF LeftStays
      <4> QED BY <2>1, <2>4, <4>1
    <3>4. ASSUME NEW i \in 1..Len(segments')
          PROVE  files'[segments'[i].path] = segments'[i].data /\ segments'[i].path \notin left'
      <4>1. CASE i = Len(segments')
        BY <2>1, <2>3, <2>4, <4>1
      <4>2. CASE i # Len(segments')
        <5>1. i \in 1..Len(segments)
          BY <2>1, <2>4, <4>2
        <5>2. segments'[i] = segments[i]
          BY <2>4, <5>1
        <5> QED BY <2>1, <2>2, <2>4, <5>1, <5>2 DEF NamesHeld
      <4> QED BY <4>1, <4>2
    <3> QED BY <3>1, <3>2, <3>3, <3>4 DEF OnDisk, InOrder, FilesNamed, LeftStays, NamesHeld
  <2>5. CASE /\ Len(segments) = MaxSegments /\ Len(segments') = Len(segments)
             /\ \A i \in 1..(Len(segments) - 1) : segments'[i] = segments[i + 1]
             /\ \/ /\ files' = [[files EXCEPT ![second] = written + 1] EXCEPT ![segments[1].path] = 0]
                   /\ left' = left \ {second}
                \/ /\ files' = [files EXCEPT ![second] = written + 1]
                   /\ left' = (left \ {second}) \cup {segments[1].path}
    <3> DEFINE old == segments[1].path
    <3>1. 1 \in 1..Len(segments) /\ old \in 0..Seconds /\ old < second /\ files[old] # 0
      <4>1. 1 \in 1..Len(segments)
        BY <2>1, <2>5
      <4>2. files[old] = segments[1].data /\ segments[1].data \in 1..written
        BY <2>1, <2>2, <4>1 DEF NamesHeld
      <4> QED BY <2>1, <4>1, <4>2
    <3>2. /\ files'[second] = written + 1
          /\ \A p \in 0..Seconds : p # second /\ p # old => files'[p] = files[p]
          /\ files'[old] # 0 <=> old \in left'
          /\ \A p \in 0..Seconds : p # old => (p \in left' <=> p \in left /\ p # second)
          /\ left' \subseteq left \cup {old}
      <4>1. old \notin left
        BY <2>2, <3>1 DEF NamesHeld
      <4> QED BY <2>1, <2>5, <3>1, <4>1
    <3> HIDE DEF old
    <3>3. \A i \in 1..(Len(segments) - 1) :
            /\ i + 1 \in 1..Len(segments) /\ segments'[i] = segments[i + 1]
            /\ segments[i + 1].path < second /\ old < segments[i + 1].path
            /\ segments[i + 1].path \in 0..Seconds
      <4> SUFFICES ASSUME NEW i \in 1..(Len(segments) - 1)
                   PROVE  /\ i + 1 \in 1..Len(segments) /\ segments'[i] = segments[i + 1]
                          /\ segments[i + 1].path < second /\ old < segments[i + 1].path
                          /\ segments[i + 1].path \in 0..Seconds
        OBVIOUS
      <4>1. i + 1 \in 1..Len(segments) /\ 1 < i + 1
        BY <2>1
      <4> QED BY <2>1, <2>2, <2>5, <3>1, <4>1 DEF InOrder, old
    <3>4. \A i \in 1..Len(segments') : i = Len(segments') \/ i \in 1..(Len(segments) - 1)
      BY <2>1, <2>5
    <3>5. ASSUME NEW i \in 1..Len(segments'), NEW j \in 1..Len(segments'), i < j
          PROVE  segments'[i].path < segments'[j].path
      <4>1. i \in 1..(Len(segments) - 1)
        BY <2>1, <2>5, <3>5
      <4>2. CASE j = Len(segments')
        BY <2>3, <3>3, <4>1, <4>2
      <4>3. CASE j # Len(segments')
        <5>1. j \in 1..(Len(segments) - 1) /\ i + 1 < j + 1
          BY <2>1, <3>4, <3>5, <4>1, <4>3
        <5> QED BY <2>2, <3>3, <4>1, <5>1 DEF InOrder
      <4> QED BY <4>2, <4>3
    <3>6. ASSUME NEW p \in 0..Seconds, files'[p] # 0
          PROVE  p \in left' \/ \E i \in 1..Len(segments') : segments'[i].path = p
      <4>1. CASE p = second
        BY <2>1, <2>3, <2>5, <4>1
      <4>2. CASE p = old
        BY <3>2, <3>6, <4>2
      <4>3. CASE p # second /\ p # old
        <5>1. files[p] # 0
          BY <3>2, <3>6, <4>3
        <5>2. CASE p \in left
          BY <3>2, <4>3, <5>2
        <5>3. ASSUME NEW i \in 1..Len(segments), segments[i].path = p
              PROVE  \E m \in 1..Len(segments') : segments'[m].path = p
          <6>1. i # 1
            BY <4>3, <5>3 DEF old
          <6>2. i - 1 \in 1..(Len(segments) - 1) /\ i - 1 \in 1..Len(segments') /\ (i - 1) + 1 = i
            BY <2>1, <2>5, <6>1
          <6> QED BY <3>3, <5>3, <6>2
        <5> QED BY <2>2, <5>1, <5>2, <5>3 DEF FilesNamed
      <4> QED BY <4>1, <4>2, <4>3
    <3>7. ASSUME NEW p \in left' PROVE files'[p] # 0
      <4>1. CASE p = old
        BY <3>2, <3>7, <4>1
      <4>2. CASE p # old
        <5>1. p \in left /\ p \in 0..Seconds
          BY <2>1, <3>2, <3>7, <4>2
        <5>2. p # second /\ files[p] # 0
          BY <2>2, <3>2, <3>7, <4>2, <5>1 DEF LeftStays
        <5> QED BY <3>2, <4>2, <5>1, <5>2
      <4> QED BY <4>1, <4>2
    <3>8. ASSUME NEW i \in 1..Len(segments')
          PROVE  files'[segments'[i].path] = segments'[i].data /\ segments'[i].path \notin left'
      <4>1. CASE i = Len(segments')
        BY <2>1, <2>3, <3>1, <3>2, <4>1
      <4>2. CASE i \in 1..(Len(segments) - 1)
        <5>1. files[segments[i + 1].path] = segments[i + 1].data /\ segments[i + 1].path \notin left
          BY <2>2, <3>3, <4>2 DEF NamesHeld
        <5>2. segments[i + 1].path # second /\ segments[i + 1].path # old
          BY <2>1, <3>1, <3>3, <4>2
        <5> QED BY <3>2, <3>3, <4>2, <5>1, <5>2
      <4> QED BY <3>4, <4>1, <4>2
    <3> QED BY <3>5, <3>6, <3>7, <3>8 DEF OnDisk, InOrder, FilesNamed, LeftStays, NamesHeld
  <2> QED BY <1>1, <2>4, <2>5, Written
<1> QED BY <1>1, <1>2 DEF LiveIInv

\* A write that fails changes no file the playlist names, but in a second that
\* has a segment already.
LEMMA FailedWriteKeeps ==
  ASSUME LiveIInv, WriteFails(written + 1)
  PROVE  LiveIInv'
<1>1. /\ written \in Nat /\ written' = written + 1 /\ second' = second /\ segments' = segments
      /\ second \in 0..Seconds /\ files \in [0..Seconds -> Nat] /\ left \subseteq 0..second
      /\ Len(segments) <= MaxSegments
      /\ \/ UNCHANGED <<files, left>>
         \/ files' = [files EXCEPT ![second] = written + 1] /\ left' = left \cup {second}
  BY DEF WriteFails, Begun, LiveIInv, Clocked
<1>2. Recorded'
  BY DEF WriteFails, Begun, LiveIInv, Recorded, RecordingsEnd
<1>3. Clocked'
  <2>1. segments \in Seq([path : 0..second, data : 1..(written + 1)])
    <3>1. [path : 0..second, data : 1..written] \subseteq [path : 0..second, data : 1..(written + 1)]
      BY <1>1
    <3> QED BY <3>1, SeqMembers DEF LiveIInv, Clocked
  <2>2. second \in 0..second
    BY <1>1, LiveAssumption
  <2>4. files' \in [0..Seconds -> Nat]
    BY <1>1
  <2>5. left' \subseteq 0..second'
    BY <1>1, <2>2
  <2>3. crowded' \in BOOLEAN
    BY Zenon DEF WriteFails, Begun, LiveIInv, Clocked
  <2> QED BY <1>1, <2>1, <2>3, <2>4, <2>5 DEF Clocked
<1>4. ASSUME ~crowded' PROVE OnDisk'
  <2>1. /\ OnDisk /\ second \in 0..Seconds /\ \A p \in left : p \in 0..Seconds
        /\ \A i \in 1..Len(segments) : segments[i].path \in 0..Seconds /\ segments[i].path # second
    BY <1>4, NotCrowded DEF WriteFails
  <2>2. InOrder'
    BY <1>1, <2>1 DEF OnDisk, InOrder
  <2>3. FilesNamed'
    BY <1>1, <2>1 DEF OnDisk, FilesNamed
  <2>5. LeftStays'
    <3>1. ASSUME NEW p \in left' PROVE files'[p] # 0
      <4>1. CASE p = second /\ files' = [files EXCEPT ![second] = written + 1]
        BY <1>1, <2>1, <4>1
      <4>2. CASE p \in left /\ (p # second \/ files' = files)
        <5>1. files[p] # 0 /\ p \in 0..Seconds
          BY <2>1, <4>2 DEF OnDisk, LeftStays
        <5> QED BY <1>1, <4>2, <5>1
      <4> QED BY <1>1, <3>1, <4>1, <4>2
    <3> QED BY <3>1 DEF LeftStays
  <2>4. NamesHeld'
    BY <1>1, <2>1 DEF OnDisk, NamesHeld
  <2> QED BY <2>2, <2>3, <2>4, <2>5 DEF OnDisk
<1> QED BY <1>2, <1>3, <1>4 DEF LiveIInv

\* Recordings, seconds and segments keep the invariant.
LEMMA LiveStep == LiveIInv /\ [LiveNext]_liveVars => LiveIInv'
<1> SUFFICES ASSUME LiveIInv, [LiveNext]_liveVars PROVE LiveIInv'
  OBVIOUS
<1> DEFINE buffer == <<second, segments, files, written, crowded, left>>
<1>1. ASSUME UNCHANGED buffer, Recorded' PROVE LiveIInv'
  BY <1>1 DEF LiveIInv, Clocked, OnDisk, InOrder, FilesNamed, LeftStays, NamesHeld
<1>2. ASSUME NEW c \in TvChannels, AddChannel(c) PROVE LiveIInv'
  BY <1>1, <1>2 DEF AddChannel, LiveIInv, Recorded, RecordingsEnd
<1>3. ASSUME NEW r \in Recordings, NEW c \in TvChannels, ScheduleRecording(r, c) \/ StartRecording(r, c)
      PROVE  LiveIInv'
  <2>1. PICK s \in {[channel |-> c, status |-> "scheduled", phase |-> "none"],
                    [channel |-> c, status |-> "recording", phase |-> "connect"]} :
          recs' = [recs EXCEPT ![r] = s]
    BY <1>3 DEF ScheduleRecording, StartRecording
  <2>2. s \in [channel : TvChannels, status : Statuses, phase : Phases]
    BY DEF Statuses, Phases
  <2>3. UNCHANGED buffer /\ channels' = channels
    BY <1>3 DEF ScheduleRecording, StartRecording
  <2>4. Recorded'
    BY <2>1, <2>2, <2>3 DEF LiveIInv, Recorded, RecordingsEnd
  <2> QED BY <1>1, <2>3, <2>4
<1>4. ASSUME NEW r \in Recordings,
             Connects(r) \/ Creates(r) \/ DurationOver(r) \/ StreamEnds(r) \/ RecordingFails(r)
      PROVE  LiveIInv'
  <2>1. PICK status \in Statuses, phase \in Phases :
          /\ recs[r] # NoChannel /\ GoesOn(r, status, phase)
          /\ status = "recording" <=> phase \in {"connect", "create", "copy", "over"}
          /\ status \in {"completed", "failed"} <=> phase = "ended"
    BY <1>4 DEF Connects, Creates, DurationOver, StreamEnds, RecordingFails, InPhase, Statuses, Phases
  <2>2. /\ recs' = [recs EXCEPT ![r] = [[recs[r] EXCEPT !.status = status] EXCEPT !.phase = phase]]
        /\ UNCHANGED buffer /\ channels' = channels
    BY <2>1 DEF GoesOn, LiveIInv, Recorded
  <2>3. Recorded'
    <3> DEFINE Rec == [channel : TvChannels, status : Statuses, phase : Phases]
               new == [[recs[r] EXCEPT !.status = status] EXCEPT !.phase = phase]
    <3>1. /\ recs \in [Recordings -> Rec \cup {NoChannel}] /\ RecordingsEnd
          /\ recs[r] # NoChannel /\ channels \subseteq TvChannels
      BY <2>1 DEF LiveIInv, Recorded
    <3>2. new \in Rec /\ new.status = status /\ new.phase = phase
      BY <3>1
    <3>3. recs' = [recs EXCEPT ![r] = new]
      BY <2>2
    <3> HIDE DEF new, Rec
    <3>4. recs' \in [Recordings -> Rec \cup {NoChannel}]
      BY <3>1, <3>2, <3>3
    <3>5. \A s \in Recordings : recs'[s] = IF s = r THEN new ELSE recs[s]
      BY <3>1, <3>3
    <3>6. RecordingsEnd'
      BY <2>1, <3>1, <3>2, <3>5 DEF RecordingsEnd
    <3> QED BY <2>2, <3>1, <3>4, <3>6 DEF Recorded, Rec
  <2> QED BY <1>1, <2>2, <2>3
<1>5. CASE WriteSegment(written + 1) \/ WriteFails(written + 1)
  BY <1>5, WriteKeeps, FailedWriteKeeps
<1>6. CASE SecondPasses
  <2>1. /\ second' = second + 1 /\ second \in 0..Seconds /\ second < Seconds /\ Seconds \in Nat
        /\ UNCHANGED <<channels, recs, segments, files, written, crowded, left>>
    BY <1>6, LiveAssumption DEF SecondPasses, LiveIInv, Clocked
  <2>2. segments' \in Seq([path : 0..second', data : 1..written'])
    <3>1. [path : 0..second, data : 1..written] \subseteq [path : 0..second', data : 1..written']
      BY <2>1
    <3> QED BY <2>1, <3>1, SeqMembers DEF LiveIInv, Clocked
  <2>3. second' \in 0..Seconds /\ 0..second \subseteq 0..second'
    BY <2>1
  <2>4. left' \subseteq 0..second'
    BY <2>1, <2>3 DEF LiveIInv, Clocked
  <2> QED BY <2>1, <2>2, <2>3, <2>4
          DEF LiveIInv, Recorded, RecordingsEnd, Clocked,
              OnDisk, InOrder, FilesNamed, LeftStays, NamesHeld
<1>7. CASE UNCHANGED liveVars
  BY <1>7, <1>1 DEF liveVars, LiveIInv, Recorded, RecordingsEnd
<1> QED BY <1>2, <1>3, <1>4, <1>5, <1>6, <1>7 DEF LiveNext

\* For any buffer and any time: as long as no two segments were begun within a second the
\* playlist names files that are there and hold what they were written with, whatever write
\* or removal failed, and the other files are those a failure left behind; and a recording
\* is said to run exactly as long as it does.
THEOREM LiveCorrect == LiveSpec => []LiveInv
BY LiveStart, LiveStep, LiveIInvGives, PTL DEF LiveSpec

-----------------------------------------------------------------------------
(* Watch progress: the entry of the history is there before the resume     *)
(* point is cleared, and no statement takes it out.                        *)

ReportRows ==
  [resume : SUBSET Viewings, told : SUBSET Viewings, entry : SUBSET Viewings,
   whole : BOOLEAN, ended : BOOLEAN]

\* What a report was to tell of and has not found a resume point of is in the
\* history, and then in the report.
ReportSound ==
  /\ report \in ReportRows
  /\ report.whole => \A v \in report.told : v \in report.resume \/ history[v] # Nothing
  /\ report.whole /\ report.ended => report.told \subseteq report.resume \cup report.entry

PlacesIInv ==
  /\ progress \in [Viewings -> ProgressRows \cup {Nothing}]
  /\ history \in [Viewings -> HistoryRows \cup {Nothing}]
  /\ markers \in [Markers -> [viewing : Viewings, clears : BOOLEAN] \cup {Nothing}]
  /\ served \subseteq Viewings /\ begun \subseteq Viewings
  /\ \A v \in Viewings : progress[v] # Nothing => v \in begun
  /\ \A v \in served : progress[v] # Nothing =>
       progress[v].dur > 0 /\ progress[v].pos >= 0 /\ progress[v].pct \in 0..100
  /\ \A v \in begun : progress[v] = Nothing => history[v] # Nothing
  /\ \A c \in Markers : markers[c] # Nothing => history[markers[c].viewing] # Nothing
  /\ report # Nothing => ReportSound

\* A resume point is written.
LEMMA UpsertKeeps ==
  ASSUME PlacesIInv, NEW v \in Viewings, NEW row \in ProgressRows, Upsert(v, row),
         UNCHANGED <<history, markers, report>>,
         \/ served' = served \cup {v} /\ row.dur > 0 /\ row.pos >= 0 /\ row.pct \in 0..100
         \/ served' = served \ {v}
  PROVE  PlacesIInv'
<1>1. /\ progress' \in [Viewings -> ProgressRows \cup {Nothing}] /\ progress'[v] = row
      /\ \A w \in Viewings \ {v} : progress'[w] = progress[w]
  BY DEF Upsert, PlacesIInv
<1>2. begun' = begun \cup {v} /\ row # Nothing
  BY WatchAssumption DEF Upsert
<1>3. served' \subseteq Viewings /\ begun' \subseteq Viewings
  BY <1>2 DEF PlacesIInv
<1>4. \A w \in served' : progress'[w] # Nothing =>
        progress'[w].dur > 0 /\ progress'[w].pos >= 0 /\ progress'[w].pct \in 0..100
  BY <1>1, <1>3 DEF PlacesIInv
<1>5. \A w \in Viewings : progress'[w] # Nothing => w \in begun'
  BY <1>1, <1>2 DEF PlacesIInv
<1>6. \A w \in begun' : progress'[w] = Nothing => history[w] # Nothing
  BY <1>1, <1>2, <1>3 DEF PlacesIInv
<1> QED BY <1>1, <1>3, <1>4, <1>5, <1>6 DEF PlacesIInv, ReportSound

\* An entry of the history is written, and the mark begun.
LEMMA EntryKeeps ==
  ASSUME PlacesIInv, NEW v \in Viewings, NEW row \in HistoryRows, history' = [history EXCEPT ![v] = row],
         UNCHANGED <<progress, report, served, begun>>,
         markers' \in [Markers -> [viewing : Viewings, clears : BOOLEAN] \cup {Nothing}],
         \A c \in Markers : markers'[c] # Nothing => markers'[c].viewing = v \/ markers'[c] = markers[c]
  PROVE  PlacesIInv'
<1>1. /\ history' \in [Viewings -> HistoryRows \cup {Nothing}] /\ history'[v] # Nothing
      /\ \A w \in Viewings : history[w] # Nothing => history'[w] # Nothing
  BY WatchAssumption DEF PlacesIInv
<1>3. report # Nothing => ReportSound'
  BY <1>1 DEF PlacesIInv, ReportSound, ReportRows
<1>2. ASSUME NEW c \in Markers, markers'[c] # Nothing PROVE history'[markers'[c].viewing] # Nothing
  <2>1. CASE markers'[c].viewing = v
    BY <1>1, <2>1
  <2>2. CASE markers'[c] = markers[c]
    <3>1. markers'[c].viewing \in Viewings
      BY <1>2
    <3> QED BY <1>1, <1>2, <2>2, <3>1 DEF PlacesIInv
  <2> QED BY <1>2, <2>1, <2>2
<1> QED BY <1>1, <1>2, <1>3 DEF PlacesIInv

\* Every report, deletion and marker of a viewing keeps the invariant of places.
LEMMA PlacesStep == PlacesIInv /\ WatchNext => PlacesIInv'
<1> SUFFICES ASSUME PlacesIInv, WatchNext PROVE PlacesIInv'
  OBVIOUS
<1>0. /\ \A r \in Reports : r \in ProgressRows /\ r.pos \in Int /\ r.dur \in Int /\ r.pct \in Int
      /\ markers \in [Markers -> [viewing : Viewings, clears : BOOLEAN] \cup {Nothing}]
  BY WatchAssumption DEF PlacesIInv, ProgressRows
<1>1. ASSUME NEW v \in Viewings, NEW r \in Reports, SaveProgress(v, r) PROVE PlacesIInv'
  <2> DEFINE pos == AtLeast(r.pos, 0)
             pct == AtMost(AtLeast(r.pct, 0), 100)
             row == [pos |-> pos, dur |-> r.dur, pct |-> pct]
  <2>1. pos \in Int /\ pos >= 0 /\ pct \in Int /\ pct \in 0..100
    BY <1>0 DEF AtLeast, AtMost
  <2> HIDE DEF pos, pct
  <2>2. row \in ProgressRows /\ row.pos = pos /\ row.dur = r.dur /\ row.pct = pct
    BY <1>0, <2>1 DEF ProgressRows
  <2>3. /\ r.dur > 0 /\ Upsert(v, row) /\ served' = served \cup {v} /\ UNCHANGED <<history, markers, report>>
    BY <1>1 DEF SaveProgress, pos, pct
  <2> HIDE DEF row
  <2> QED BY <2>1, <2>2, <2>3, UpsertKeeps
<1>2. ASSUME NEW v \in Viewings, NEW r \in Reports, SavePlaybackProgress(v, r) PROVE PlacesIInv'
  BY <1>0, <1>2, UpsertKeeps DEF SavePlaybackProgress
<1>3. ASSUME NEW v \in Viewings, NEW watched \in BOOLEAN, SaveWatchHistory(v, watched)
      PROVE  PlacesIInv'
  <2>1. [watched |-> watched] \in HistoryRows
    BY DEF HistoryRows
  <2> QED BY <1>0, <1>3, <2>1, EntryKeeps DEF SaveWatchHistory
<1>4. ASSUME NEW c \in Markers, NEW v \in Viewings, NEW r \in Reports, MarkWatched(c, v, r) PROVE PlacesIInv'
  <2> DEFINE pos == AtLeast(r.pos, 0)
             row == [watched |-> TRUE]
             mark == [viewing |-> v, clears |-> NearEnd(pos, r.dur)]
  <2>1. /\ history' = [history EXCEPT ![v] = row] /\ markers' = [markers EXCEPT ![c] = mark]
        /\ UNCHANGED <<progress, report, served, begun>>
    BY <1>4 DEF MarkWatched
  <2>2. row \in HistoryRows
    BY DEF HistoryRows
  <2>3. NearEnd(pos, r.dur) \in BOOLEAN
    BY DEF NearEnd
  <2>4. mark \in [viewing : Viewings, clears : BOOLEAN] /\ mark.viewing = v
    BY <2>3
  <2> HIDE DEF row, mark
  <2>5. /\ markers' \in [Markers -> [viewing : Viewings, clears : BOOLEAN] \cup {Nothing}]
        /\ \A d \in Markers : markers'[d] # Nothing => markers'[d].viewing = v \/ markers'[d] = markers[d]
    BY <1>0, <2>1, <2>4
  <2> QED BY <2>1, <2>2, <2>5, EntryKeeps
<1>5. ASSUME NEW c \in Markers, NEW v \in Viewings, MarkUnwatched(c, v) PROVE PlacesIInv'
  <2> DEFINE row == [watched |-> FALSE]
             mark == [viewing |-> v, clears |-> TRUE]
  <2>1. /\ history' = [history EXCEPT ![v] = row] /\ markers' = [markers EXCEPT ![c] = mark]
        /\ UNCHANGED <<progress, report, served, begun>>
    BY <1>5 DEF MarkUnwatched
  <2>2. row \in HistoryRows /\ mark \in [viewing : Viewings, clears : BOOLEAN] /\ mark.viewing = v
    BY DEF HistoryRows
  <2> HIDE DEF row, mark
  <2>3. /\ markers' \in [Markers -> [viewing : Viewings, clears : BOOLEAN] \cup {Nothing}]
        /\ \A d \in Markers : markers'[d] # Nothing => markers'[d].viewing = v \/ markers'[d] = markers[d]
    BY <1>0, <2>1, <2>2
  <2> QED BY <2>1, <2>2, <2>3, EntryKeeps
<1>6. ASSUME NEW c \in Markers, MarkClears(c) PROVE PlacesIInv'
  <2> DEFINE v == markers[c].viewing
  <2>1. /\ markers[c] # Nothing /\ markers' = [markers EXCEPT ![c] = Nothing]
        /\ progress' = [progress EXCEPT ![v] = Nothing] \/ progress' = progress
        /\ UNCHANGED <<history, report, served, begun>>
    BY <1>6 DEF MarkClears
  <2>2. v \in Viewings /\ history[v] # Nothing
    BY <1>0, <2>1 DEF PlacesIInv
  <2> HIDE DEF v
  <2>3. /\ progress' \in [Viewings -> ProgressRows \cup {Nothing}]
        /\ \A w \in Viewings : progress'[w] = progress[w] \/ (w = v /\ progress'[w] = Nothing)
    BY <2>1 DEF PlacesIInv
  <2>4. /\ markers' \in [Markers -> [viewing : Viewings, clears : BOOLEAN] \cup {Nothing}]
        /\ \A d \in Markers : markers'[d] # Nothing => markers'[d] = markers[d]
    BY <1>0, <2>1
  <2>5. \A w \in served : progress'[w] # Nothing =>
          progress'[w].dur > 0 /\ progress'[w].pos >= 0 /\ progress'[w].pct \in 0..100
    BY <2>3 DEF PlacesIInv
  <2>6. \A w \in begun : progress'[w] = Nothing => history[w] # Nothing
    BY <2>2, <2>3 DEF PlacesIInv
  <2>7. \A w \in Viewings : progress'[w] # Nothing => w \in begun
    BY <2>3 DEF PlacesIInv
  <2> QED BY <2>1, <2>3, <2>4, <2>5, <2>6, <2>7 DEF PlacesIInv, ReportSound
<1>7. ASSUME NEW v \in Viewings, DeleteProgress(v) PROVE PlacesIInv'
  <2>1. /\ progress' = [progress EXCEPT ![v] = Nothing] /\ begun' = begun \ {v}
        /\ UNCHANGED <<history, markers, report, served>>
    BY <1>7 DEF DeleteProgress
  <2>2. /\ progress' \in [Viewings -> ProgressRows \cup {Nothing}] /\ progress'[v] = Nothing
        /\ \A w \in Viewings \ {v} : progress'[w] = progress[w]
    BY <2>1 DEF PlacesIInv
  <2>3. \A w \in served : progress'[w] # Nothing =>
          progress'[w].dur > 0 /\ progress'[w].pos >= 0 /\ progress'[w].pct \in 0..100
    BY <2>2 DEF PlacesIInv
  <2>4. /\ \A w \in begun' : progress'[w] = Nothing => history[w] # Nothing
        /\ \A w \in Viewings : progress'[w] # Nothing => w \in begun'
    BY <2>1, <2>2 DEF PlacesIInv
  <2> QED BY <2>1, <2>2, <2>3, <2>4 DEF PlacesIInv, ReportSound
<1>8. CASE ReportReads
  <2>1. PICK resume \in Selections(progress) :
          report' = [resume |-> resume, told |-> begun, entry |-> {},
                     whole |-> Within(progress), ended |-> FALSE]
    BY <1>8 DEF ReportReads
  <2>2. UNCHANGED <<progress, history, markers, served, begun>>
    BY <1>8 DEF ReportReads
  <2>3. resume \subseteq Viewings /\ (Within(progress) => resume = RowsIn(progress))
    BY DEF Selections, Within, RowsIn
  <2>4. Within(progress) \in BOOLEAN
    BY DEF Within
  <2>5. report' \in ReportRows
    BY <2>1, <2>3, <2>4 DEF ReportRows, PlacesIInv
  <2>6. /\ report'.resume = resume /\ report'.told = begun /\ ~report'.ended
        /\ report'.whole <=> Within(progress)
    BY <2>1
  <2>7. ASSUME report'.whole, NEW v \in begun PROVE v \in resume \/ history[v] # Nothing
    BY <2>3, <2>6, <2>7 DEF PlacesIInv, RowsIn
  <2>8. ReportSound'
    BY <2>2, <2>5, <2>6, <2>7 DEF ReportSound
  <2> QED BY <2>2, <2>8 DEF PlacesIInv
<1>9. CASE ReportEnds
  <2>1. PICK entry \in Selections(history) :
          report' = [report EXCEPT !.entry = entry, !.ended = TRUE,
                                   !.whole = report.whole /\ Within(history)]
    BY <1>9 DEF ReportEnds
  <2>2. UNCHANGED <<progress, history, markers, served, begun>> /\ report # Nothing
    BY <1>9 DEF ReportEnds
  <2>3. entry \subseteq Viewings /\ (Within(history) => entry = RowsIn(history))
    BY DEF Selections, Within, RowsIn
  <2>4. PICK whole \in BOOLEAN : whole = (report.whole /\ Within(history))
    BY Zenon
  <2>5. report \in ReportRows /\ ReportSound
    BY <2>2 DEF PlacesIInv, ReportSound
  <2>6. report' = [report EXCEPT !.entry = entry, !.ended = TRUE, !.whole = whole]
    BY <2>1, <2>4
  <2>7. /\ report' \in ReportRows /\ report'.entry = entry /\ report'.whole = whole
        /\ report'.told = report.told /\ report'.resume = report.resume
    BY <2>3, <2>5, <2>6 DEF ReportRows
  <2>8. whole => report.whole /\ Within(history)
    BY <2>4, Zenon
  <2>9. report.told \subseteq Viewings
    BY <2>5 DEF ReportRows
  <2>10. ASSUME whole, NEW v \in report.told PROVE v \in report.resume \cup entry
    BY <2>3, <2>5, <2>8, <2>9, <2>10 DEF ReportSound, RowsIn
  <2>11. ReportSound'
    BY <2>2, <2>5, <2>7, <2>8, <2>10 DEF ReportSound
  <2> QED BY <2>2, <2>11 DEF PlacesIInv
<1> QED BY <1>1, <1>2, <1>3, <1>4, <1>5, <1>6, <1>7, <1>8, <1>9 DEF WatchNext

-----------------------------------------------------------------------------
(* Chapters: what is written so far is a beginning of the list found.      *)

ChaptersIInv ==
  /\ chapters \in ChapterLists \cup {<<>>}
  /\ scan # Nothing =>
       /\ scan = [list |-> scan.list, written |-> scan.written]
       /\ scan.list \in ChapterLists /\ scan.written \in Seq(Chapters)
       /\ Len(scan.written) <= Len(scan.list)
       /\ \A n \in 1..Len(scan.written) : scan.written[n] = scan.list[n]

\* A scan replaces the chapters by what was found.
LEMMA ChaptersStep == ChaptersIInv /\ ChapterNext => ChaptersIInv'
<1> SUFFICES ASSUME ChaptersIInv, ChapterNext PROVE ChaptersIInv'
  OBVIOUS
<1>1. ASSUME NEW list \in ChapterLists, ScanChapters(list) PROVE ChaptersIInv'
  <2> DEFINE new == [list |-> list, written |-> <<>>]
  <2>1. scan' = new /\ chapters' = chapters
    BY <1>1 DEF ScanChapters
  <2>2. new = [list |-> new.list, written |-> new.written] /\ new.list = list /\ new.written = <<>>
    OBVIOUS
  <2> HIDE DEF new
  <2>3. list \in Seq(Chapters)
    BY WatchAssumption
  <2> QED BY <2>1, <2>2, <2>3 DEF ChaptersIInv
<1>2. CASE WriteChapter
  <2> DEFINE w == scan.written
             l == scan.list
             longer == Append(w, l[Len(w) + 1])
             new == [scan EXCEPT !.written = longer]
  <2>1. scan # Nothing /\ Len(w) < Len(l) /\ scan' = new /\ chapters' = chapters
    BY <1>2 DEF WriteChapter
  <2>2. /\ scan = [list |-> l, written |-> w] /\ l \in ChapterLists /\ w \in Seq(Chapters) /\ l \in Seq(Chapters)
        /\ \A n \in 1..Len(w) : w[n] = l[n]
    BY <2>1, WatchAssumption DEF ChaptersIInv
  <2>3. /\ longer \in Seq(Chapters) /\ Len(longer) = Len(w) + 1
        /\ \A n \in 1..Len(longer) : longer[n] = l[n]
    BY <2>1, <2>2
  <2>4. Len(longer) <= Len(l)
    BY <2>1, <2>2, <2>3
  <2> HIDE DEF l, w, longer
  <2>5. new = [list |-> new.list, written |-> new.written] /\ new.list = l /\ new.written = longer
    BY <2>2
  <2> HIDE DEF new
  <2> QED BY <2>1, <2>2, <2>3, <2>4, <2>5 DEF ChaptersIInv
<1>3. CASE CommitChapters
  <2>1. scan # Nothing /\ Len(scan.written) = Len(scan.list) /\ chapters' = scan.written /\ scan' = Nothing
    BY <1>3 DEF CommitChapters
  <2>2. /\ scan.list \in ChapterLists /\ scan.written \in Seq(Chapters) /\ scan.list \in Seq(Chapters)
        /\ \A n \in 1..Len(scan.written) : scan.written[n] = scan.list[n]
    BY <2>1, WatchAssumption DEF ChaptersIInv
  <2>3. scan.written = scan.list
    BY <2>1, <2>2
  <2> QED BY <2>1, <2>2, <2>3 DEF ChaptersIInv
<1>4. CASE SaveChaptersFails
  BY <1>4 DEF SaveChaptersFails, ChaptersIInv
<1> QED BY <1>1, <1>2, <1>3, <1>4 DEF ChapterNext

\* Chapters that follow each other begin one after the other.
LEMMA ChaptersInOrder ==
  ASSUME NEW list \in Seq(Chapters), \A n \in DOMAIN list : list[n].start <= list[n].end,
         \A n \in 2..Len(list) : list[n].start = list[n - 1].end,
         NEW a \in 1..Len(list), NEW b \in a..Len(list)
  PROVE  list[a].start <= list[b].start
<1> DEFINE T == {k \in a..Len(list) : ~(list[a].start <= list[k].start)}
<1>0. /\ Len(list) \in Nat
      /\ \A n \in 1..Len(list) : list[n].start \in Int /\ list[n].end \in Int /\ list[n].start <= list[n].end
  <2>1. Len(list) \in Nat /\ DOMAIN list = 1..Len(list) /\ \A n \in 1..Len(list) : list[n] \in Chapters
    OBVIOUS
  <2> QED BY <2>1 DEF Chapters
<1>1. SUFFICES ASSUME T # {} PROVE FALSE
  OBVIOUS
<1>2. T \in SUBSET Nat
  BY <1>0
<1>3. PICK k \in T : \A j \in T : k <= j
  BY <1>1, <1>2, LeastNat
<1>4. k \in a..Len(list) /\ ~(list[a].start <= list[k].start) /\ k # a /\ k \in 1..Len(list)
  BY <1>0, <1>3
<1>5. k - 1 \in a..Len(list) /\ k - 1 \in 1..Len(list) /\ k \in 2..Len(list) /\ k - 1 \notin T
  BY <1>0, <1>3, <1>4
<1>6. list[a].start <= list[k - 1].start
  BY <1>5
<1>7. list[k - 1].start <= list[k].start
  BY <1>0, <1>5
<1> QED BY <1>0, <1>4, <1>5, <1>6, <1>7

\* The chapter at a position is the last that holds it.
LEMMA ChapterFound ==
  ASSUME chapters \in Seq(Chapters), \A n \in DOMAIN chapters : chapters[n].start <= chapters[n].end,
         NEW p \in Int, \A n \in 2..Len(chapters) : chapters[n].start = chapters[n - 1].end,
         chapters # <<>>, p < chapters[Len(chapters)].end
  PROVE  ChapterAt(p) = CurrentChapter(chapters, p)
<1> DEFINE Holding == {n \in DOMAIN chapters : chapters[n].start <= p /\ chapters[n].end > p}
           Started == {n \in DOMAIN chapters : chapters[n].start <= p}
           N == Len(chapters)
<1>0. /\ N \in Nat /\ N >= 1 /\ DOMAIN chapters = 1..N
      /\ \A n \in 1..N : chapters[n].start \in Int /\ chapters[n].end \in Int
  <2>1. N \in Nat /\ N >= 1 /\ DOMAIN chapters = 1..N /\ \A n \in 1..N : chapters[n] \in Chapters
    OBVIOUS
  <2> QED BY <2>1 DEF Chapters
<1>1. Holding \subseteq Started /\ Started \in SUBSET (1..N)
  BY <1>0
<1>2. CASE Started = {}
  <2>1. Holding = {}
    BY <1>1, <1>2
  <2> QED BY <1>2, <2>1 DEF ChapterAt, CurrentChapter
<1>3. CASE Started # {}
  <2>1. PICK m \in Started : \A n \in Started : n <= m
    BY <1>0, <1>1, <1>3, GreatestNat
  <2>2. m \in 1..N /\ chapters[m].start <= p
    BY <1>0, <2>1
  <2>3. m \in Holding
    <3>1. CASE m = N
      BY <1>0, <2>2, <3>1
    <3>2. CASE m # N
      <4>1. m + 1 \in 2..N /\ m + 1 \in 1..N
        BY <1>0, <2>2, <3>2
      <4>2. m + 1 \notin Started
        BY <1>0, <2>1, <2>2
      <4>3. ~(chapters[m + 1].start <= p)
        BY <1>0, <4>1, <4>2
      <4>4. chapters[m + 1].start = chapters[m].end
        BY <4>1, <2>2
      <4> QED BY <1>0, <2>2, <4>1, <4>3, <4>4
    <3> QED BY <3>1, <3>2
  <2>4. ASSUME NEW n \in Holding PROVE n = m
    <3>1. n \in 1..N /\ chapters[n].end > p /\ n <= m
      BY <1>0, <1>1, <2>1
    <3>2. CASE n < m
      <4>1. n + 1 \in 1..N /\ n + 1 \in 2..N /\ m \in (n + 1)..N
        BY <1>0, <2>2, <3>1, <3>2
      <4>2. chapters[n + 1].start <= chapters[m].start
        BY <4>1, ChaptersInOrder
      <4>3. chapters[n + 1].start = chapters[n].end
        BY <3>1, <4>1
      <4> QED BY <1>0, <2>2, <3>1, <4>1, <4>2, <4>3
    <3> QED BY <1>0, <2>2, <3>1, <3>2
  <2>5. Holding = {m}
    BY <2>3, <2>4
  <2>6. ChapterAt(p) = m
    <3>1. ChapterAt(p) = IF Holding = {} THEN 0 ELSE CHOOSE n \in Holding : \A k \in Holding : n <= k
      BY DEF ChapterAt
    <3>2. m <= m
      BY <2>2
    <3> HIDE DEF Holding
    <3> QED BY <2>5, <3>1, <3>2
  <2>7. CurrentChapter(chapters, p) = m
    <3>1. CurrentChapter(chapters, p) = CHOOSE n \in Started : \A k \in Started : n >= k
      BY <1>3 DEF CurrentChapter
    <3>2. \A n \in Started : (\A k \in Started : n >= k) <=> n = m
      BY <1>0, <1>1, <2>1
    <3> HIDE DEF Started
    <3> QED BY <2>1, <3>1, <3>2
  <2> QED BY <2>6, <2>7
<1> QED BY <1>2, <1>3

-----------------------------------------------------------------------------
WatchIInv == PlacesIInv /\ ChaptersIInv

\* Nothing was reported at the start.
LEMMA WatchStarts == WatchInit => WatchIInv
<1> SUFFICES ASSUME WatchInit PROVE WatchIInv
  OBVIOUS
<1>1. PlacesIInv
  BY DEF WatchInit, PlacesIInv, ReportSound
<1>2. ChaptersIInv
  BY DEF WatchInit, ChaptersIInv
<1> QED BY <1>1, <1>2 DEF WatchIInv

\* Places and chapters share no state: a step of one leaves the other.
LEMMA WatchStep == WatchIInv /\ [WatchNext \/ ChapterNext]_<<watchVars, chapterVars>> => WatchIInv'
<1> SUFFICES ASSUME WatchIInv, [WatchNext \/ ChapterNext]_<<watchVars, chapterVars>> PROVE WatchIInv'
  OBVIOUS
<1>1. UNCHANGED watchVars => PlacesIInv'
  BY DEF watchVars, WatchIInv, PlacesIInv, ReportSound
<1>2. UNCHANGED chapterVars => ChaptersIInv'
  BY DEF chapterVars, WatchIInv, ChaptersIInv
<1>3. CASE WatchNext
  BY <1>2, <1>3, PlacesStep DEF WatchNext, WatchIInv
<1>4. CASE ChapterNext
  BY <1>1, <1>4, ChaptersStep DEF ChapterNext, WatchIInv
<1>5. CASE UNCHANGED <<watchVars, chapterVars>>
  BY <1>1, <1>2, <1>5 DEF WatchIInv
<1> QED BY <1>3, <1>4, <1>5

\* Both invariants together give the property.
LEMMA WatchGives == WatchIInv => WatchInv
<1> SUFFICES ASSUME WatchIInv PROVE WatchInv
  OBVIOUS
<1>1. WatchTypeOK
  BY DEF WatchIInv, PlacesIInv, WatchTypeOK, ReportSound, ReportRows
<1>2. ServiceRowsAreSound
  BY DEF WatchIInv, PlacesIInv, ServiceRowsAreSound, ContinueWatching
<1>3. ReportsMissNothing /\ ChaptersAreWhole
  BY DEF WatchIInv, PlacesIInv, ReportSound, ReportsMissNothing, ChaptersIInv, ChaptersAreWhole
<1>4. ChaptersAgree
  <2>1. chapters \in Seq(Chapters) /\ \A n \in DOMAIN chapters : chapters[n].start <= chapters[n].end
    <3>1. CASE chapters \in ChapterLists
      BY <3>1, WatchAssumption
    <3>2. CASE chapters = <<>>
      BY <3>2
    <3> QED BY <3>1, <3>2 DEF WatchIInv, ChaptersIInv
  <2>2. ASSUME NEW p \in 0..10, \A n \in 2..Len(chapters) : chapters[n].start = chapters[n - 1].end,
               chapters # <<>>, p < chapters[Len(chapters)].end
        PROVE  ChapterAt(p) = CurrentChapter(chapters, p)
    <3>1. p \in Int
      OBVIOUS
    <3> QED BY <2>1, <2>2, <3>1, ChapterFound
  <2>3. \A p \in 0..10 : CurrentChapter(ListChapters, p) = 0
    BY DEF ListChapters, CurrentChapter
  <2> QED BY <2>2, <2>3 DEF ChaptersAgree
<1> QED BY <1>1, <1>2, <1>3, <1>4 DEF WatchInv

\* WatchInv holds of the resume points, the history and the chapters.
THEOREM WatchCorrect == WatchSpec => []WatchInv
<1>1. WatchSpec => []WatchIInv
  BY WatchStarts, WatchStep, PTL DEF WatchSpec
<1> QED BY <1>1, WatchGives, PTL

-----------------------------------------------------------------------------
(* HLS.  Only what is on disk and in a playlist is told.                   *)

\* What ffmpeg writes and the goroutines that are to start it.
HlsTyped ==
  /\ length \in ItemLengths /\ starting \in 0..launched /\ launched \in 0..Launches
  /\ disk \in [Made -> {NotThere} \cup [files : 0..length, listed : {NotThere} \cup 1..length]]
  /\ ffmpeg \in [at : 0..2, opened : 0..length] /\ again \in BOOLEAN
  /\ masters \in [Masters -> BOOLEAN] /\ told \subseteq Made
  /\ ffmpeg.at # 0 => There(Profile)

ToldStays == ~again => \A p \in told : There(p) /\ disk[p].listed # NotThere /\ disk[p].listed >= MinSegments

HlsIInv == HlsTyped /\ ToldStays

\* The profiles that are made, in the order ffmpeg is told of them.
LEMMA EncodedProfiles ==
  /\ Made = {"mobile", "tablet"} /\ Len(Encoded) = 2 /\ DOMAIN Encoded = {1, 2}
  /\ Encoded[1] = "mobile" /\ Encoded[2] = "tablet"
BY DEF Made, Encoded

\* What is on disk of a profile: some of its segments, listed or not.
LEMMA OutputThere ==
  ASSUME HlsTyped, NEW p \in Made
  PROVE  There(p) <=> disk[p] \in [files : 0..length, listed : {NotThere} \cup 1..length]
<1>1. length \in Nat
  BY ManifestsAssumption DEF HlsTyped
<1>2. [files : 0..length, listed : {NotThere} \cup 1..length] \subseteq Outputs
  BY <1>1 DEF Outputs
<1> QED BY <1>2, NotThereAssumption DEF There, HlsTyped

\* An output that ffmpeg starts to write.
LEMMA OpenedKeeps ==
  ASSUME HlsTyped, NEW i \in 1..2, Opened(i)
  PROVE  /\ disk' \in [Made -> {NotThere} \cup [files : 0..length, listed : {NotThere} \cup 1..length]]
         /\ There(Encoded[i])'
         /\ \A p \in Made : There(p) => disk'[p] = disk[p]
<1>1. Encoded[i] \in Made
  BY EncodedProfiles
<1>2. length \in Nat
  BY ManifestsAssumption DEF HlsTyped
<1>3. [files |-> 0, listed |-> NotThere] \in [files : 0..length, listed : {NotThere} \cup 1..length]
  BY <1>2
<1>4. [files |-> 0, listed |-> NotThere] # NotThere
  BY NotThereAssumption DEF Outputs
<1> QED BY <1>1, <1>3, <1>4 DEF Opened, There, HlsTyped

\* Nothing has been told at the start.
LEMMA HlsInitHolds == ManifestsInit => HlsIInv
<1> SUFFICES ASSUME ManifestsInit PROVE HlsIInv
  OBVIOUS
<1>1. length \in Nat \ {0} /\ Launches \in Nat
  BY ManifestsAssumption DEF ManifestsInit
<1>2. told = {} /\ again = FALSE /\ ffmpeg = [at |-> 0, opened |-> 0] /\ starting = 0 /\ launched = 0
  BY DEF ManifestsInit
<1>3. ffmpeg \in [at : 0..2, opened : 0..length] /\ ffmpeg.at = 0
  BY <1>1, <1>2
<1>4. HlsTyped
  <2>1. length \in ItemLengths /\ starting \in 0..launched /\ launched \in 0..Launches
    BY <1>1, <1>2 DEF ManifestsInit
  <2>2. disk \in [Made -> {NotThere} \cup [files : 0..length, listed : {NotThere} \cup 1..length]]
        /\ masters \in [Masters -> BOOLEAN] /\ told \subseteq Made /\ again \in BOOLEAN
    BY DEF ManifestsInit
  <2> QED BY <1>3, <2>1, <2>2 DEF HlsTyped
<1> QED BY <1>2, <1>4 DEF HlsIInv, ToldStays

\* Every step of the HLS part keeps its invariant.
LEMMA HlsKeeps ==
  ASSUME HlsIInv, HlsNext
  PROVE  HlsIInv'
<1> USE DEF HlsIInv
<1>0. length \in Nat \ {0} /\ Launches \in Nat /\ MinSegments \in Nat \ {0}
      /\ NotThere \notin Nat /\ launched \in Nat /\ starting \in Nat
  BY ManifestsAssumption, NotThereAssumption DEF HlsTyped
<1>1. ASSUME NEW m \in Masters, HandleHLSMaster(m) PROVE HlsIInv'
  BY <1>0, <1>1 DEF HandleHLSMaster, HlsTyped, ToldStays, There, Launch, Profile
<1>2. ASSUME NEW m \in Masters, MasterAnswers(m) PROVE HlsIInv'
  <2>1. HlsTyped'
    BY <1>2 DEF MasterAnswers, HlsTyped, ReadyProfiles, There, Profile
  <2>2. ASSUME NEW p \in ReadyProfiles
        PROVE  There(p) /\ disk[p].listed # NotThere /\ disk[p].listed >= MinSegments
    BY <1>0, <2>2 DEF ReadyProfiles, Listed
  <2> QED BY <1>2, <2>1, <2>2 DEF MasterAnswers, ToldStays, There
<1>3. ASSUME NEW m \in Masters, MasterGivesUp(m) PROVE HlsIInv'
  BY <1>3 DEF MasterGivesUp, HlsTyped, ToldStays, There, Profile
<1>4. CASE HandleDASHWaiting
  BY <1>0, <1>4 DEF HandleDASHWaiting, HlsTyped, ToldStays, There, Launch, Profile
<1>5. CASE Launched
  <2>1. CASE ffmpeg.at # 0
    BY <1>0, <1>5, <2>1 DEF Launched, HlsTyped, ToldStays, There, Profile
  <2>2. CASE ffmpeg.at = 0
    <3>1. Opened(1) /\ ffmpeg' = [at |-> 1, opened |-> 0] /\ again' = (again \/ ~NoOutput) /\ starting > 0
          /\ starting' = starting - 1 /\ UNCHANGED <<length, launched, masters, told>>
      BY <1>5, <2>2 DEF Launched
    <3>2. /\ disk' \in [Made -> {NotThere} \cup [files : 0..length, listed : {NotThere} \cup 1..length]]
          /\ There(Encoded[1])' /\ \A p \in Made : There(p) => disk'[p] = disk[p]
      BY <3>1, OpenedKeeps
    <3>3. Profile' = Encoded[1]
      BY <3>1 DEF Profile
    <3>4. HlsTyped'
      BY <1>0, <3>1, <3>2, <3>3 DEF HlsTyped, There
    <3>5. ToldStays'
      BY <3>1, <3>2 DEF ToldStays, There, HlsTyped
    <3> QED BY <3>4, <3>5
  <2> QED BY <2>1, <2>2
<1>6. CASE FfmpegOpens
  <2>1. Profile \in Made /\ There(Profile) /\ disk[Profile].files \in 0..length /\ ffmpeg.opened \in 0..length
    BY <1>6, EncodedProfiles, OutputThere DEF FfmpegOpens, HlsTyped, Profile
  <2>2. PICK n \in 0..length : disk' = [disk EXCEPT ![Profile].files = n]
    <3> DEFINE m == IF disk[Profile].files > ffmpeg.opened THEN disk[Profile].files ELSE ffmpeg.opened + 1
    <3>1. m \in 0..length
      BY <1>0, <1>6, <2>1 DEF FfmpegOpens
    <3>2. disk' = [disk EXCEPT ![Profile].files = m]
      BY <1>6 DEF FfmpegOpens
    <3> QED BY <3>1, <3>2
  <2>3. disk' = [disk EXCEPT ![Profile] = [@ EXCEPT !.files = n]]
    BY <2>2
  <2>4. \A p \in Made : p # Profile => disk'[p] = disk[p]
    BY <2>3 DEF HlsTyped
  <2>5. /\ disk'[Profile] \in [files : 0..length, listed : {NotThere} \cup 1..length]
        /\ disk'[Profile].listed = disk[Profile].listed
    BY <2>1, <2>3, OutputThere DEF HlsTyped
  <2>6. disk'[Profile] # NotThere
    BY <1>0, <2>5, NotThereAssumption DEF Outputs
  <2>7. Profile' = Profile /\ ffmpeg' \in [at : 0..2, opened : 0..length] /\ UNCHANGED <<length, starting, launched, again, masters, told>>
    BY <1>0, <1>6, <2>1 DEF FfmpegOpens, HlsTyped, Profile
  <2>8. HlsTyped'
    BY <2>1, <2>3, <2>4, <2>5, <2>6, <2>7 DEF HlsTyped, There
  <2>9. ToldStays'
    <3> SUFFICES ASSUME ~again', NEW p \in told'
                 PROVE  disk'[p] # NotThere /\ disk'[p].listed # NotThere /\ disk'[p].listed >= MinSegments
      BY DEF ToldStays, There
    <3>1. ~again /\ p \in told /\ p \in Made
      BY <2>7 DEF HlsTyped
    <3>2. disk[p] # NotThere /\ disk[p].listed # NotThere /\ disk[p].listed >= MinSegments
      BY <3>1 DEF ToldStays, There
    <3> QED BY <2>4, <2>5, <2>6, <3>1, <3>2
  <2> QED BY <2>8, <2>9
<1>7. CASE FfmpegLists
  <2>1. Profile \in Made /\ There(Profile) /\ disk[Profile] \in [files : 0..length, listed : {NotThere} \cup 1..length]
    BY <1>7, EncodedProfiles, OutputThere DEF FfmpegLists, HlsTyped, Profile
  <2>2. PICK n \in 1..ffmpeg.opened :
          (again \/ n > Listed(Profile)) /\ disk' = [disk EXCEPT ![Profile].listed = n]
    BY <1>7 DEF FfmpegLists
  <2>3. disk' = [disk EXCEPT ![Profile] = [@ EXCEPT !.listed = n]] /\ n \in 1..length
    BY <1>0, <2>2 DEF HlsTyped
  <2>4. \A p \in Made : p # Profile => disk'[p] = disk[p]
    BY <2>3 DEF HlsTyped
  <2>5. /\ disk'[Profile] \in [files : 0..length, listed : {NotThere} \cup 1..length]
        /\ disk'[Profile].listed = n
    BY <2>1, <2>3 DEF HlsTyped
  <2>6. disk'[Profile] # NotThere /\ n # NotThere /\ n \in Nat
    BY <1>0, <2>3, <2>5, NotThereAssumption DEF Outputs
  <2>7. Profile' = Profile /\ UNCHANGED <<length, starting, launched, ffmpeg, again, masters, told>>
    BY <1>7 DEF FfmpegLists, Profile
  <2>8. HlsTyped'
    BY <2>1, <2>3, <2>4, <2>5, <2>6, <2>7 DEF HlsTyped, There
  <2>9. ToldStays'
    <3>1. ASSUME ~again, Profile \in told PROVE n >= MinSegments
      BY <1>0, <2>1, <2>2, <2>6, <3>1 DEF ToldStays, Listed
    <3> SUFFICES ASSUME ~again', NEW p \in told'
                 PROVE  disk'[p] # NotThere /\ disk'[p].listed # NotThere /\ disk'[p].listed >= MinSegments
      BY DEF ToldStays, There
    <3>2. ~again /\ p \in told /\ p \in Made
      BY <2>7 DEF HlsTyped
    <3>3. disk[p] # NotThere /\ disk[p].listed # NotThere /\ disk[p].listed >= MinSegments
      BY <3>2 DEF ToldStays, There
    <3> QED BY <2>4, <2>5, <2>6, <3>1, <3>2, <3>3
  <2> QED BY <2>8, <2>9
<1>8. CASE FfmpegExits
  <2>1. CASE ffmpeg.at = Len(Encoded)
    BY <1>0, <1>8, <2>1 DEF FfmpegExits, HlsTyped, ToldStays, There, Profile
  <2>2. CASE ffmpeg.at # Len(Encoded)
    <3>1. ffmpeg.at = 1 /\ ffmpeg' = [at |-> 2, opened |-> 0] /\ Opened(2)
          /\ UNCHANGED <<length, starting, launched, again, masters, told>>
      BY <1>8, <2>2, EncodedProfiles DEF FfmpegExits, HlsTyped
    <3>2. /\ disk' \in [Made -> {NotThere} \cup [files : 0..length, listed : {NotThere} \cup 1..length]]
          /\ There(Encoded[2])' /\ \A p \in Made : There(p) => disk'[p] = disk[p]
      BY <3>1, OpenedKeeps
    <3>3. Profile' = Encoded[2]
      BY <3>1 DEF Profile
    <3>4. HlsTyped'
      BY <1>0, <3>1, <3>2, <3>3 DEF HlsTyped, There
    <3>5. ToldStays'
      BY <3>1, <3>2 DEF ToldStays, There, HlsTyped
    <3> QED BY <3>4, <3>5
  <2> QED BY <2>1, <2>2
<1>9. CASE FfmpegStops
  BY <1>0, <1>9 DEF FfmpegStops, HlsTyped, ToldStays, There, Profile
<1>10. CASE DeleteTranscode
  BY <1>0, <1>10 DEF DeleteTranscode, HlsTyped, ToldStays, There, Profile
<1> QED BY <1>1, <1>2, <1>3, <1>4, <1>5, <1>6, <1>7, <1>8, <1>9, <1>10 DEF HlsNext

\* What was told is still there to be served.
LEMMA ToldServed == HlsIInv => ToldIsServed
<1> SUFFICES ASSUME HlsIInv, ~again, NEW p \in told
             PROVE  /\ disk[p].listed # NotThere
                    /\ HandleHLSVariant(p).segments >= MinSegments
                    /\ HandleHLSVariant(p).ends => HandleHLSVariant(p).segments = length
  BY DEF ToldIsServed
<1>1. disk[p].listed # NotThere /\ disk[p].listed >= MinSegments
  BY DEF HlsIInv, ToldStays
<1> QED BY <1>1 DEF HandleHLSVariant

-----------------------------------------------------------------------------
(* Adaptive selection, and the periods.                                    *)

PlanIInv ==
  /\ \A i \in 1..Len(chosen) :
       /\ chosen[i].device \in DeviceTypes /\ chosen[i].kbps \in Nat
       /\ chosen[i].profile = SelectProfile(chosen[i].device, chosen[i].kbps, chosen[i].edge)
  /\ chosen = <<>> \/ Len(chosen) \in 1..2
  /\ periods.list = <<>> \/ \E d \in Nat :
       periods = [of |-> d, list |-> MultiPeriod(d), duration |-> FormatDuration(TotalDuration(MultiPeriod(d)))]

\* The thresholds of the ladder, in their order.
LEMMA Rungs ==
  /\ Rung("audio_only") = 1 /\ Rung("mobile_low") = 2 /\ Rung("mobile") = 3
  /\ Rung("tablet") = 4 /\ Rung("tv") = 5 /\ Rung("tv_4k") = 6
BY DEF Rung, Ladder

\* More bandwidth never selects a lower profile.
LEMMA SelectMonotone ==
  ASSUME NEW d \in DeviceTypes, NEW edge, NEW a \in Nat, NEW b \in Nat,
         (IF a = 0 THEN 5000 ELSE a) <= (IF b = 0 THEN 5000 ELSE b)
  PROVE  Rung(SelectProfile(d, a, edge)) <= Rung(SelectProfile(d, b, edge))
<1> DEFINE x == IF a = 0 THEN 5000 ELSE a
           y == IF b = 0 THEN 5000 ELSE b
<1>1. x \in Nat /\ y \in Nat /\ x <= y
  OBVIOUS
<1>2. CASE d = "mobile"
  BY <1>1, <1>2, Rungs DEF SelectProfile
<1>3. CASE d = "tablet"
  BY <1>1, <1>3, Rungs DEF SelectProfile
<1>4. CASE d = "tv"
  <2>1. ASSUME NEW k \in Nat
        PROVE  SelectProfile("tv", k, edge) = IF (IF k = 0 THEN 5000 ELSE k) < 8000 THEN "tablet"
                                              ELSE IF edge >= 2160 THEN "tv_4k" ELSE "tv"
    BY DEF SelectProfile
  <2>2. Rung(SelectProfile(d, a, edge)) = IF x < 8000 THEN 4 ELSE IF edge >= 2160 THEN 6 ELSE 5
    BY <1>4, <2>1, Rungs
  <2>3. Rung(SelectProfile(d, b, edge)) = IF y < 8000 THEN 4 ELSE IF edge >= 2160 THEN 6 ELSE 5
    BY <1>4, <2>1, Rungs
  <2> HIDE DEF x, y
  <2> QED BY <1>1, <2>2, <2>3
<1>5. CASE d = "other"
  <2> DEFINE level(k) == IF k < 1500 THEN 2 ELSE IF k < 3000 THEN 3 ELSE IF k < 6000 THEN 4
                         ELSE IF k < 15000 THEN 5 ELSE 6
  <2>1. ASSUME NEW k \in Nat, NEW r \in Nat, r = IF k = 0 THEN 5000 ELSE k
        PROVE  Rung(SelectProfile("other", k, edge)) = level(r)
    <3>1. SelectProfile("other", k, edge)
            = IF r < 1500 THEN "mobile_low" ELSE IF r < 3000 THEN "mobile" ELSE IF r < 6000 THEN "tablet"
              ELSE IF r < 15000 THEN "tv" ELSE "tv_4k"
      BY <2>1 DEF SelectProfile
    <3> QED BY <2>1, <3>1, Rungs
  <2>2. Rung(SelectProfile(d, a, edge)) = level(x) /\ Rung(SelectProfile(d, b, edge)) = level(y)
    BY <1>1, <1>5, <2>1
  <2> HIDE DEF x, y
  <2> QED BY <1>1, <2>2
<1> QED BY <1>2, <1>3, <1>4, <1>5 DEF DeviceTypes

\* Printing a duration loses no second.
LEMMA RoundTrip == \A s \in Nat : InSeconds(FormatDuration(s)) = s
BY DEF InSeconds, FormatDuration

\* Every period but the last is a chapter, and the last ends with the item.
LEMMA PeriodsOf ==
  ASSUME NEW d \in Nat
  PROVE  LET l == MultiPeriod(d)
             n == d \div Chapter + 1
         IN  /\ n \in Nat \ {0} /\ Len(l) = n /\ DOMAIN l = 1..n
             /\ \A i \in 1..n : InSeconds(l[i].start) = (i - 1) * 600
             /\ \A i \in 1..n : InSeconds(l[i].duration) = IF i < n THEN 600 ELSE d - (n - 1) * 600
             /\ (n - 1) * 600 <= d
<1> DEFINE n == d \div Chapter + 1
<1>1. n \in Nat \ {0} /\ (n - 1) * 600 <= d /\ d < n * 600
  BY DEF Chapter
<1>2. Len(MultiPeriod(d)) = n /\ DOMAIN MultiPeriod(d) = 1..n
  BY <1>1 DEF MultiPeriod
<1> HIDE DEF n
<1>3. ASSUME NEW i \in 1..n
      PROVE  /\ InSeconds(MultiPeriod(d)[i].start) = (i - 1) * 600
             /\ InSeconds(MultiPeriod(d)[i].duration) = IF i < n THEN 600 ELSE d - (n - 1) * 600
  <2> DEFINE start == (i - 1) * 600
             rest == IF start + 600 > d THEN d - start ELSE 600
  <2>1. MultiPeriod(d)[i] = [start |-> FormatDuration(start), duration |-> FormatDuration(rest)]
    BY <1>1 DEF MultiPeriod, Chapter, n
  <2>2. start \in Nat /\ rest \in Nat /\ rest = IF i < n THEN 600 ELSE d - (n - 1) * 600
    <3>1. i < n => start + 600 <= (n - 1) * 600
      BY <1>1
    <3>2. ~(i < n) => i = n
      BY <1>1
    <3> QED BY <1>1, <3>1, <3>2
  <2> HIDE DEF start, rest
  <2>3. InSeconds(FormatDuration(start)) = start /\ InSeconds(FormatDuration(rest)) = rest
    BY <2>2, RoundTrip
  <2> QED BY <2>1, <2>2, <2>3 DEF start
<1> QED BY <1>1, <1>2, <1>3 DEF n

\* The periods of an item add up to it.
LEMMA PeriodsAddUp ==
  ASSUME NEW d \in Nat
  PROVE  TotalDuration(MultiPeriod(d)) = d
<1> DEFINE l == MultiPeriod(d)
           n == d \div Chapter + 1
           P(f) == f = [i \in 0..n |-> IF i = 0 THEN 0 ELSE f[i - 1] + InSeconds(l[i].duration)]
           g == [i \in 0..n |-> IF i < n THEN i * 600 ELSE d]
           t == Elapsed(l)
           Wrong == {i \in 0..n : t[i] # g[i]}
<1>1. /\ n \in Nat \ {0} /\ Len(l) = n
      /\ \A i \in 1..n : InSeconds(l[i].duration) = IF i < n THEN 600 ELSE d - (n - 1) * 600
  BY PeriodsOf
<1>2. t = CHOOSE f : P(f)
  BY <1>1 DEF Elapsed
<1> HIDE DEF n, l
<1>3. ASSUME NEW i \in 1..n
      PROVE  g[i] = g[i - 1] + InSeconds(l[i].duration)
  <2>1. g[i - 1] = (i - 1) * 600 /\ i - 1 \in 0..n
    BY <1>1
  <2>2. i < n => g[i] = i * 600 /\ InSeconds(l[i].duration) = 600
    BY <1>1
  <2>3. ~(i < n) => i = n /\ g[i] = d /\ InSeconds(l[i].duration) = d - (n - 1) * 600
    BY <1>1
  <2> QED BY <1>1, <2>1, <2>2, <2>3
<1>4. g[0] = 0
  BY <1>1
<1>5. P(g)
  BY <1>1, <1>3, <1>4
<1> HIDE DEF P, t
<1>6. P(t)
  BY <1>2, <1>5
<1>7. t[0] = 0 /\ \A i \in 1..n : t[i] = t[i - 1] + InSeconds(l[i].duration)
  BY <1>1, <1>6 DEF P
<1> HIDE DEF g
<1>8. Wrong = {}
  <2> SUFFICES ASSUME Wrong # {} PROVE FALSE
    OBVIOUS
  <2>1. PICK i \in Wrong : \A j \in Wrong : i <= j
    <3>1. Wrong \in SUBSET Nat
      BY <1>1
    <3> HIDE DEF Wrong
    <3> QED BY <3>1, LeastNat
  <2>2. i \in 0..n /\ t[i] # g[i] /\ i # 0
    BY <1>4, <1>7
  <2>3. i \in 1..n /\ i - 1 \in 0..n /\ ~(i <= i - 1)
    BY <1>1, <2>2
  <2>4. t[i - 1] = g[i - 1]
    BY <2>1, <2>3
  <2> QED BY <1>3, <1>7, <2>2, <2>3, <2>4
<1>9. t[n] = d
  <2>1. n \in 0..n /\ n \notin Wrong
    BY <1>1, <1>8
  <2>2. t[n] = g[n]
    BY <2>1
  <2> QED BY <1>1, <2>2 DEF g
<1> QED BY <1>1, <1>9 DEF TotalDuration, t, l

\* Nothing is chosen at the start.
LEMMA PlanInitHolds == ManifestsInit => PlanIInv
BY DEF ManifestsInit, PlanIInv

\* What is chosen, or divided into periods, is so by the functions of the code.
LEMMA PlanKeeps ==
  /\ PlanIInv /\ AdaptivePlaylist /\ UNCHANGED periods => PlanIInv'
  /\ PlanIInv /\ PeriodManifest /\ UNCHANGED chosen => PlanIInv'
<1>1. ASSUME PlanIInv, AdaptivePlaylist, UNCHANGED periods PROVE PlanIInv'
  <2>1. PICK d \in DeviceTypes, k \in Kbps, e \in Edges :
          LET choice == [device |-> d, kbps |-> k, edge |-> e, profile |-> SelectProfile(d, k, e)]
          IN chosen' = IF chosen = <<>> THEN <<choice>> ELSE <<chosen[Len(chosen)], choice>>
    BY <1>1 DEF AdaptivePlaylist
  <2> DEFINE choice == [device |-> d, kbps |-> k, edge |-> e, profile |-> SelectProfile(d, k, e)]
  <2>2. k \in Nat
    BY ManifestsAssumption
  <2>3. /\ choice.device \in DeviceTypes /\ choice.kbps \in Nat
        /\ choice.profile = SelectProfile(choice.device, choice.kbps, choice.edge)
    BY <2>2
  <2>4. chosen' = IF chosen = <<>> THEN <<choice>> ELSE <<chosen[Len(chosen)], choice>>
    BY <2>1
  <2> HIDE DEF choice
  <2>5. CASE chosen = <<>>
    <3>1. Len(chosen') = 1 /\ chosen'[1] = choice
      BY <2>4, <2>5
    <3> QED BY <1>1, <2>3, <3>1 DEF PlanIInv
  <2>6. CASE chosen # <<>>
    <3>1. Len(chosen') = 2 /\ chosen'[1] = chosen[Len(chosen)] /\ chosen'[2] = choice
      BY <2>4, <2>6
    <3>2. Len(chosen) \in 1..Len(chosen)
      BY <1>1, <2>6 DEF PlanIInv
    <3>3. /\ chosen'[1].device \in DeviceTypes /\ chosen'[1].kbps \in Nat
          /\ chosen'[1].profile = SelectProfile(chosen'[1].device, chosen'[1].kbps, chosen'[1].edge)
      BY <1>1, <3>1, <3>2 DEF PlanIInv
    <3>4. \A i \in 1..Len(chosen') : i = 1 \/ i = 2
      BY <3>1
    <3> QED BY <1>1, <2>3, <3>1, <3>3, <3>4 DEF PlanIInv
  <2> QED BY <2>5, <2>6
<1>2. ASSUME PlanIInv, PeriodManifest, UNCHANGED chosen PROVE PlanIInv'
  BY <1>2, ManifestsAssumption DEF PeriodManifest, PlanIInv
<1> QED BY <1>1, <1>2

\* The choices grow with the bandwidth, and the periods tile the item.
LEMMA PlanHolds == PlanIInv => MoreBandwidthNoLess /\ PeriodsTile
<1> SUFFICES ASSUME PlanIInv PROVE MoreBandwidthNoLess /\ PeriodsTile
  OBVIOUS
<1>1. MoreBandwidthNoLess
  <2> SUFFICES ASSUME Len(chosen) = 2, chosen[1].device = chosen[2].device, chosen[1].edge = chosen[2].edge,
                      (IF chosen[1].kbps = 0 THEN 5000 ELSE chosen[1].kbps)
                        <= (IF chosen[2].kbps = 0 THEN 5000 ELSE chosen[2].kbps)
               PROVE  Rung(chosen[1].profile) <= Rung(chosen[2].profile)
    BY DEF MoreBandwidthNoLess
  <2>1. 1 \in 1..Len(chosen) /\ 2 \in 1..Len(chosen)
    OBVIOUS
  <2>2. /\ chosen[1].device \in DeviceTypes /\ chosen[1].kbps \in Nat /\ chosen[2].kbps \in Nat
        /\ chosen[1].profile = SelectProfile(chosen[1].device, chosen[1].kbps, chosen[1].edge)
        /\ chosen[2].profile = SelectProfile(chosen[1].device, chosen[2].kbps, chosen[1].edge)
    BY <2>1 DEF PlanIInv
  <2> QED BY <2>2, SelectMonotone
<1>2. PeriodsTile
  <2> SUFFICES ASSUME periods.list # <<>> PROVE PeriodsTile
    BY DEF PeriodsTile
  <2>1. PICK d \in Nat :
          periods = [of |-> d, list |-> MultiPeriod(d), duration |-> FormatDuration(TotalDuration(MultiPeriod(d)))]
    BY DEF PlanIInv
  <2> DEFINE l == periods.list
             n == d \div Chapter + 1
  <2>2. periods.of = d /\ l = MultiPeriod(d) /\ InSeconds(periods.duration) = d
    BY <2>1, PeriodsAddUp, RoundTrip
  <2>3. /\ n \in Nat \ {0} /\ Len(l) = n /\ (n - 1) * 600 <= d
        /\ \A i \in 1..n : InSeconds(l[i].start) = (i - 1) * 600
        /\ \A i \in 1..n : InSeconds(l[i].duration) = IF i < n THEN 600 ELSE d - (n - 1) * 600
    <3>1. /\ n \in Nat \ {0} /\ Len(MultiPeriod(d)) = n /\ (n - 1) * 600 <= d
          /\ \A i \in 1..n : InSeconds(MultiPeriod(d)[i].start) = (i - 1) * 600
          /\ \A i \in 1..n : InSeconds(MultiPeriod(d)[i].duration) = IF i < n THEN 600 ELSE d - (n - 1) * 600
      BY PeriodsOf
    <3> HIDE DEF n, l
    <3> QED BY <2>2, <3>1
  <2> HIDE DEF l, n
  <2>4. InSeconds(l[1].start) = 0
    BY <2>3
  <2>5. \A i \in 1..Len(l) - 1 : InSeconds(l[i + 1].start) = InSeconds(l[i].start) + InSeconds(l[i].duration)
    <3> TAKE i \in 1..Len(l) - 1
    <3>1. i \in 1..n /\ i + 1 \in 1..n /\ i < n
      BY <2>3
    <3>2. InSeconds(l[i + 1].start) = (i + 1 - 1) * 600 /\ InSeconds(l[i].start) = (i - 1) * 600
          /\ InSeconds(l[i].duration) = 600
      BY <2>3, <3>1
    <3> QED BY <3>1, <3>2
  <2>6. InSeconds(l[Len(l)].start) + InSeconds(l[Len(l)].duration) = d
    <3>1. InSeconds(l[n].start) = (n - 1) * 600 /\ InSeconds(l[n].duration) = d - (n - 1) * 600
      BY <2>3
    <3> QED BY <2>3, <3>1
  <2> QED BY <2>2, <2>4, <2>5, <2>6 DEF PeriodsTile, l
<1> QED BY <1>1, <1>2

-----------------------------------------------------------------------------
(* DASH.  A call prefixes the profiles of its list in their order, the     *)
(* first segment's name of each before the others'.                        *)

Listings ==
  {l \in Seq(Made) : Len(l) \in {1, 2} /\ l[1] = "mobile" /\ (Len(l) = 2 => l[2] = "tablet")}
MpdCallRows == [list : Listings, at : 1..3, field : 1..2, held : {NotThere} \cup PathPrefixes]

DashTyped ==
  /\ templates \in [Made -> [FieldNames -> PathPrefixes]]
  /\ mpdCalls \in [MpdCalls -> {NotThere} \cup MpdCallRows]
  /\ asked \in 0..Mpds /\ alone \in BOOLEAN
  /\ \A c \in MpdCalls : Working(c) => mpdCalls[c].at <= Len(mpdCalls[c].list) + 1
  /\ \A c \in MpdCalls : Working(c) /\ mpdCalls[c].held # NotThere => ~Prefixed(c)
  /\ \A c \in MpdCalls : Working(c) /\ Prefixed(c) => mpdCalls[c].field = 1

\* What is put before the names of a profile is its own directory, or torn.
OwnPrefixes ==
  /\ \A p \in Made, f \in FieldNames : Range(templates[p][f]) \subseteq {p, Torn}
  /\ \A c \in MpdCalls : Working(c) /\ mpdCalls[c].held # NotThere => Range(mpdCalls[c].held) \subseteq {At(c), Torn}

\* The place of a profile in the lists.
MpdPlace(p) == IF p = "mobile" THEN 1 ELSE 2

\* A call that has prefixed the first segment's name of p and not yet the others'.
MidField(c, p) == Working(c) /\ mpdCalls[c].at = MpdPlace(p) /\ mpdCalls[c].field = 2

OneAtATime ==
  /\ \A c, d \in MpdCalls : Working(c) /\ Working(d) => c = d
  /\ \A p \in Made, f \in FieldNames : Range(templates[p][f]) \subseteq {p}
  /\ \A c \in MpdCalls : Working(c) /\ mpdCalls[c].held # NotThere => mpdCalls[c].held = templates[At(c)][Field(c)]

Deeper(p) == <<p>> \o templates[p]["media"]

TemplatesInStep ==
  /\ \A p \in Made : templates[p]["init"] =
       IF \E c \in MpdCalls : MidField(c, p) THEN Deeper(p) ELSE templates[p]["media"]
  /\ \A p \in Made : Len(templates[p]["media"]) <= asked
  /\ \A c \in MpdCalls, p \in Made : Working(c) =>
       IF MpdPlace(p) < mpdCalls[c].at THEN Len(templates[p]["media"]) >= 1
       ELSE Len(templates[p]["media"]) + 1 <= asked

PathsInStep ==
  paths # NotThere => \A dir \in DOMAIN paths :
    /\ paths[dir]["init"] = paths[dir]["media"] /\ Range(paths[dir]["init"]) = {dir}
    /\ Len(paths[dir]["init"]) \in 2..asked + 1

DashIInv ==
  /\ DashTyped /\ OwnPrefixes
  /\ alone => OneAtATime
  /\ alone => TemplatesInStep
  /\ alone => PathsInStep

\* The templates are the configuration's own at the start.
LEMMA DashInitHolds == ManifestsInit => DashIInv
<1> SUFFICES ASSUME ManifestsInit PROVE DashIInv
  OBVIOUS
<1>1. \A c \in MpdCalls : ~Working(c)
  BY DEF ManifestsInit, Working
<1>2. \A p \in Made, f \in FieldNames : templates[p][f] = <<>>
  BY DEF ManifestsInit
<1>3. <<>> \in PathPrefixes /\ Range(<<>>) = {} /\ Len(<<>>) = 0
  BY DEF PathPrefixes, Range
<1>4. DashTyped
  <2>1. templates \in [Made -> [FieldNames -> PathPrefixes]]
    BY <1>3 DEF ManifestsInit
  <2>2. mpdCalls \in [MpdCalls -> {NotThere} \cup MpdCallRows] /\ asked \in 0..Mpds /\ alone \in BOOLEAN
    BY ManifestsAssumption DEF ManifestsInit
  <2> QED BY <1>1, <2>1, <2>2 DEF DashTyped
<1>5. OwnPrefixes /\ OneAtATime
  BY <1>1, <1>2, <1>3 DEF OwnPrefixes, OneAtATime
<1>6. "init" \in FieldNames /\ "media" \in FieldNames /\ asked = 0 /\ paths = NotThere
  BY DEF FieldNames, ManifestsInit
<1>7. TemplatesInStep /\ PathsInStep
  BY <1>1, <1>2, <1>3, <1>6 DEF TemplatesInStep, PathsInStep, MidField
<1> QED BY <1>4, <1>5, <1>7 DEF DashIInv

\* The profiles the encoder makes are in the ladder.
LEMMA ServedByItself == \A p \in Made : GetProfileByName(p) = p
BY EncodedProfiles DEF GetProfileByName, Ladder

\* A path with one more profile in front: its length, and the names in it.
LEMMA PrefixAdded ==
  ASSUME NEW p \in Made, NEW s \in PathPrefixes
  PROVE  /\ <<p>> \o s \in PathPrefixes /\ Len(s) \in Nat /\ Len(<<p>> \o s) = Len(s) + 1
         /\ Range(<<p>> \o s) = {p} \cup Range(s)
<1>1. <<p>> \o s \in PathPrefixes /\ Len(s) \in Nat /\ Len(<<p>> \o s) = Len(s) + 1
  BY DEF PathPrefixes
<1>2. (<<p>> \o s)[1] = p /\ \A i \in 1..Len(s) : (<<p>> \o s)[i + 1] = s[i]
  BY DEF PathPrefixes
<1>3. DOMAIN s = 1..Len(s) /\ DOMAIN (<<p>> \o s) = 1..(Len(s) + 1)
  BY <1>1 DEF PathPrefixes
<1> DEFINE t == <<p>> \o s
<1> HIDE DEF t
<1>4. ASSUME NEW x \in Range(t) PROVE x \in {p} \cup Range(s)
  <2>1. PICK i \in 1..(Len(s) + 1) : x = t[i]
    BY <1>3, <1>4 DEF Range, t
  <2>2. CASE i = 1
    BY <1>2, <2>1, <2>2 DEF t
  <2>3. CASE i # 1
    <3>1. i - 1 \in 1..Len(s) /\ (i - 1) + 1 = i
      BY <1>1, <2>3
    <3>2. t[(i - 1) + 1] = s[i - 1]
      BY <1>2, <3>1 DEF t
    <3> QED BY <1>3, <2>1, <3>1, <3>2 DEF Range
  <2> QED BY <2>2, <2>3
<1>5. ASSUME NEW x \in {p} \cup Range(s) PROVE x \in Range(t)
  <2>1. CASE x = p
    <3>1. 1 \in 1..(Len(s) + 1)
      BY <1>1
    <3> QED BY <1>2, <1>3, <2>1, <3>1 DEF Range, t
  <2>2. CASE x \in Range(s)
    <3>1. PICK i \in 1..Len(s) : x = s[i]
      BY <1>3, <2>2 DEF Range
    <3>2. i + 1 \in 1..(Len(s) + 1) /\ t[i + 1] = s[i]
      BY <1>1, <1>2, <3>1 DEF t
    <3> QED BY <1>3, <3>1, <3>2 DEF Range, t
  <2> QED BY <1>5, <2>1, <2>2
<1> QED BY <1>1, <1>4, <1>5 DEF t

\* What a working call is at.
LEMMA CallAt ==
  ASSUME DashTyped, NEW c \in MpdCalls
  PROVE  /\ Working(c) <=> mpdCalls[c] \in MpdCallRows
         /\ Working(c) /\ ~Prefixed(c) =>
              At(c) \in Made /\ Field(c) \in FieldNames /\ mpdCalls[c].at = MpdPlace(At(c))
<1>1. MpdCallRows \subseteq MpdRows
  <2>1. Listings \subseteq Seq(Made)
    BY EncodedProfiles DEF Listings
  <2> QED BY <2>1 DEF MpdCallRows, MpdRows
<1>2. Working(c) <=> mpdCalls[c] \in MpdCallRows
  BY <1>1, NotThereAssumption DEF DashTyped, Working
<1>3. ASSUME Working(c), ~Prefixed(c)
      PROVE  At(c) \in Made /\ Field(c) \in FieldNames /\ mpdCalls[c].at = MpdPlace(At(c))
  <2>1. mpdCalls[c].list \in Listings /\ mpdCalls[c].at \in 1..3 /\ mpdCalls[c].field \in 1..2
    BY <1>2, <1>3 DEF MpdCallRows
  <2>2. Field(c) \in FieldNames
    BY <2>1 DEF Field, Fields, FieldNames
  <2>3. mpdCalls[c].at <= Len(mpdCalls[c].list)
    BY <1>3, <2>1 DEF Prefixed, Listings
  <2> QED BY <2>1, <2>2, <2>3, EncodedProfiles DEF At, MpdPlace, Listings
<1> QED BY <1>2, <1>3

\* A request for a manifest begins.
LEMMA MpdBeginKeeps ==
  ASSUME DashIInv, NEW c \in MpdCalls, ManifestBegins(c)
  PROVE  DashIInv'
<1> USE DEF DashIInv
<1> DEFINE row(n) == [list |-> SubSeq(Encoded, 1, n), at |-> 1, field |-> 1, held |-> NotThere]
<1>1. PICK n \in 1..Len(Encoded) : mpdCalls' = [mpdCalls EXCEPT ![c] = row(n)]
  BY DEF ManifestBegins
<1>2. SubSeq(Encoded, 1, n) \in Listings
  <2>1. n = 1 \/ n = 2
    BY EncodedProfiles
  <2>2. Encoded \in Seq(Made)
    BY EncodedProfiles DEF Encoded
  <2>3. Len(SubSeq(Encoded, 1, n)) = n /\ SubSeq(Encoded, 1, n)[1] = "mobile"
    BY <2>1 DEF Encoded
  <2>4. n = 2 => SubSeq(Encoded, 1, n)[2] = "tablet"
    BY DEF Encoded
  <2>5. SubSeq(Encoded, 1, n) \in Seq(Made)
    BY <2>1, EncodedProfiles DEF Encoded
  <2> QED BY <2>1, <2>3, <2>4, <2>5 DEF Listings
<1>3. row(n) \in MpdCallRows /\ Len(row(n).list) \in {1, 2} /\ row(n).at = 1 /\ row(n).field = 1 /\ row(n).held = NotThere
  BY <1>2 DEF MpdCallRows, Listings
<1> HIDE DEF row
<1>4. /\ mpdCalls'[c] = row(n) /\ \A d \in MpdCalls : d # c => mpdCalls'[d] = mpdCalls[d]
      /\ mpdCalls' \in [MpdCalls -> {NotThere} \cup MpdCallRows]
  BY <1>1, <1>3 DEF DashTyped
<1>5. /\ ~Working(c) /\ asked < Mpds /\ asked' = asked + 1 /\ UNCHANGED <<templates, paths>>
      /\ alone' = (alone /\ \A o \in MpdCalls : ~Working(o))
  BY DEF ManifestBegins
<1>6. asked \in Nat /\ asked' \in Nat /\ Mpds \in Nat
  BY <1>5, ManifestsAssumption DEF DashTyped
<1>7. \A d \in MpdCalls : d # c =>
        /\ Working(d)' = Working(d) /\ Prefixed(d)' = Prefixed(d) /\ At(d)' = At(d) /\ Field(d)' = Field(d)
        /\ \A p : MidField(d, p)' = MidField(d, p)
  BY <1>4 DEF Working, Prefixed, At, Field, MidField
<1>8. \A p : ~MidField(c, p)'
  BY <1>3, <1>4 DEF MidField
<1>9. DashTyped'
  <2>1. mpdCalls'[c].at <= Len(mpdCalls'[c].list) + 1 /\ mpdCalls'[c].held = NotThere
    BY <1>3, <1>4
  <2>2. \A d \in MpdCalls : Working(d)' => mpdCalls'[d].at <= Len(mpdCalls'[d].list) + 1
    BY <1>4, <1>7, <2>1 DEF DashTyped
  <2>3. \A d \in MpdCalls : Working(d)' /\ mpdCalls'[d].held # NotThere => ~Prefixed(d)'
    BY <1>4, <1>7, <2>1 DEF DashTyped
  <2>5. \A d \in MpdCalls : Working(d)' /\ Prefixed(d)' => mpdCalls'[d].field = 1
    BY <1>3, <1>4, <1>7 DEF DashTyped
  <2>4. asked' \in 0..Mpds /\ alone' \in BOOLEAN
    BY <1>5, <1>6
  <2> QED BY <1>4, <1>5, <2>2, <2>3, <2>4, <2>5 DEF DashTyped
<1>10. OwnPrefixes'
  <2>1. \A d \in MpdCalls : Working(d)' /\ mpdCalls'[d].held # NotThere => Range(mpdCalls'[d].held) \subseteq {At(d)', Torn}
    BY <1>3, <1>4, <1>7 DEF OwnPrefixes
  <2> QED BY <1>5, <2>1 DEF OwnPrefixes
<1>11. ASSUME alone' PROVE OneAtATime' /\ TemplatesInStep' /\ PathsInStep'
  <2>1. alone /\ \A o \in MpdCalls : ~Working(o)
    BY <1>5, <1>11
  <2>2. \A d \in MpdCalls : Working(d)' => d = c
    BY <1>7, <2>1
  <2>3. OneAtATime'
    BY <1>3, <1>4, <1>5, <2>1, <2>2 DEF OneAtATime
  <2>4. \A p, d : d \in MpdCalls => ~MidField(d, p) /\ ~MidField(d, p)'
    BY <1>8, <2>1, <2>2 DEF MidField
  <2>5. \A p \in Made : templates[p]["init"] = templates[p]["media"] /\ Len(templates[p]["media"]) <= asked
                      /\ Len(templates[p]["media"]) \in Nat
    <3>1. "media" \in FieldNames
      BY DEF FieldNames
    <3>2. \A p \in Made : templates[p]["media"] \in Seq(Made \cup {Torn})
      BY <3>1 DEF DashTyped, PathPrefixes
    <3>3. \A p \in Made : Len(templates[p]["media"]) \in Nat
      BY <3>2
    <3> QED BY <2>1, <2>4, <3>3 DEF TemplatesInStep
  <2>6. \A p \in Made : Len(templates[p]["media"]) + 1 <= asked' /\ Len(templates[p]["media"]) <= asked'
    BY <1>5, <1>6, <2>5
  <2>7. \A p : ~(MpdPlace(p) < mpdCalls'[c].at)
    BY <1>3, <1>4 DEF MpdPlace
  <2>8. TemplatesInStep'
    <3>1. \A p \in Made : templates'[p]["init"] =
            IF \E d \in MpdCalls : MidField(d, p)' THEN Deeper(p)' ELSE templates'[p]["media"]
      BY <1>5, <2>4, <2>5
    <3>2. \A p \in Made : Len(templates'[p]["media"]) <= asked'
      BY <1>5, <2>6
    <3>3. \A d \in MpdCalls, p \in Made : Working(d)' =>
            IF MpdPlace(p) < mpdCalls'[d].at THEN Len(templates'[p]["media"]) >= 1
            ELSE Len(templates'[p]["media"]) + 1 <= asked'
      BY <1>5, <2>2, <2>6, <2>7
    <3> QED BY <3>1, <3>2, <3>3 DEF TemplatesInStep
  <2>9. PathsInStep'
    <3>1. 2..asked + 1 \subseteq 2..asked' + 1
      BY <1>5, <1>6
    <3> QED BY <1>5, <2>1, <3>1 DEF PathsInStep
  <2> QED BY <2>3, <2>8, <2>9
<1> QED BY <1>9, <1>10, <1>11

\* A request reads the template it is about to change.
LEMMA MpdReadKeeps ==
  ASSUME DashIInv, NEW c \in MpdCalls, ReadTemplate(c)
  PROVE  DashIInv'
<1> USE DEF DashIInv
<1>0. Working(c) /\ ~Prefixed(c) /\ mpdCalls[c].held = NotThere /\ UNCHANGED <<templates, paths, asked, alone>>
  BY DEF ReadTemplate
<1>1. At(c) \in Made /\ Field(c) \in FieldNames /\ mpdCalls[c] \in MpdCallRows
  BY <1>0, CallAt
<1>2. PICK h \in {templates[At(c)][Field(c)]} \cup (IF Overlaps(c) THEN {<<Torn>>} ELSE {}) :
        mpdCalls' = [mpdCalls EXCEPT ![c].held = h]
  BY <1>1, ServedByItself DEF ReadTemplate
<1>3. h \in PathPrefixes /\ Range(h) \subseteq {At(c), Torn} /\ (h = templates[At(c)][Field(c)] \/ Overlaps(c))
  <2>1. CASE h = templates[At(c)][Field(c)]
    BY <1>1, <2>1 DEF DashTyped, OwnPrefixes
  <2>2. CASE h = <<Torn>> /\ Overlaps(c)
    BY <2>2 DEF PathPrefixes, Range
  <2> QED BY <1>2, <2>1, <2>2
<1>4. mpdCalls' = [mpdCalls EXCEPT ![c] = [@ EXCEPT !.held = h]]
  BY <1>2
<1>5. /\ mpdCalls'[c] = [mpdCalls[c] EXCEPT !.held = h] /\ \A d \in MpdCalls : d # c => mpdCalls'[d] = mpdCalls[d]
  BY <1>4 DEF DashTyped
<1>6. /\ mpdCalls'[c] \in MpdCallRows /\ mpdCalls'[c].held = h /\ mpdCalls'[c].list = mpdCalls[c].list
      /\ mpdCalls'[c].at = mpdCalls[c].at /\ mpdCalls'[c].field = mpdCalls[c].field
  BY <1>1, <1>3, <1>5 DEF MpdCallRows
<1>7. mpdCalls' \in [MpdCalls -> {NotThere} \cup MpdCallRows]
  BY <1>4, <1>5, <1>6 DEF DashTyped
<1>8. Working(c)'
  <2>1. MpdCallRows \subseteq MpdRows
    <3>1. Listings \subseteq Seq(Made)
      BY EncodedProfiles DEF Listings
    <3> QED BY <3>1 DEF MpdCallRows, MpdRows
  <2> QED BY <1>6, <2>1, NotThereAssumption DEF Working
<1>9. \A d \in MpdCalls :
        /\ Working(d)' = Working(d) /\ Prefixed(d)' = Prefixed(d) /\ At(d)' = At(d) /\ Field(d)' = Field(d)
        /\ \A p : MidField(d, p)' = MidField(d, p)
  BY <1>0, <1>5, <1>6, <1>8 DEF Working, Prefixed, At, Field, MidField
<1>10. DashTyped'
  <2>1. \A d \in MpdCalls : Working(d)' => mpdCalls'[d].at <= Len(mpdCalls'[d].list) + 1
    BY <1>5, <1>6, <1>9 DEF DashTyped
  <2>2. \A d \in MpdCalls : Working(d)' /\ mpdCalls'[d].held # NotThere => ~Prefixed(d)'
    BY <1>0, <1>5, <1>9 DEF DashTyped
  <2>3. \A d \in MpdCalls : Working(d)' /\ Prefixed(d)' => mpdCalls'[d].field = 1
    BY <1>5, <1>6, <1>9 DEF DashTyped
  <2> QED BY <1>0, <1>7, <2>1, <2>2, <2>3 DEF DashTyped
<1>11. OwnPrefixes'
  <2>1. \A d \in MpdCalls : Working(d)' /\ mpdCalls'[d].held # NotThere => Range(mpdCalls'[d].held) \subseteq {At(d)', Torn}
    BY <1>3, <1>5, <1>6, <1>9 DEF OwnPrefixes
  <2> QED BY <1>0, <2>1 DEF OwnPrefixes
<1>12. ASSUME alone' PROVE OneAtATime' /\ TemplatesInStep' /\ PathsInStep'
  <2>1. alone /\ OneAtATime /\ TemplatesInStep /\ PathsInStep
    BY <1>0, <1>12
  <2>2. ~Overlaps(c)
    BY <1>0, <2>1 DEF Overlaps, OneAtATime
  <2>3. OneAtATime'
    <3>1. \A d \in MpdCalls : Working(d)' /\ mpdCalls'[d].held # NotThere => mpdCalls'[d].held = templates'[At(d)'][Field(d)']
      BY <1>0, <1>3, <1>5, <1>6, <1>9, <2>1, <2>2 DEF OneAtATime
    <3> QED BY <1>0, <1>9, <2>1, <3>1 DEF OneAtATime
  <2>4. TemplatesInStep'
    <3>1. \A d \in MpdCalls : mpdCalls'[d].at = mpdCalls[d].at
      BY <1>5, <1>6
    <3>2. \A p \in Made : templates'[p]["init"] =
            IF \E d \in MpdCalls : MidField(d, p)' THEN Deeper(p)' ELSE templates'[p]["media"]
      BY <1>0, <1>9, <2>1 DEF TemplatesInStep, Deeper
    <3>3. \A d \in MpdCalls, p \in Made : Working(d)' =>
            IF MpdPlace(p) < mpdCalls'[d].at THEN Len(templates'[p]["media"]) >= 1
            ELSE Len(templates'[p]["media"]) + 1 <= asked'
      BY <1>0, <1>9, <2>1, <3>1 DEF TemplatesInStep
    <3> QED BY <1>0, <2>1, <3>2, <3>3 DEF TemplatesInStep
  <2>5. PathsInStep'
    BY <1>0, <2>1 DEF PathsInStep
  <2> QED BY <2>3, <2>4, <2>5
<1> QED BY <1>10, <1>11, <1>12

\* What writing a field makes of a call.
LEMMA RowSteps ==
  ASSUME NEW r \in MpdCallRows, NEW at \in 1..3
  PROVE  LET next == [r EXCEPT !.field = 2, !.held = NotThere]
             done == [r EXCEPT !.at = at, !.field = 1, !.held = NotThere]
         IN  /\ next \in MpdCallRows /\ next.held = NotThere /\ next.list = r.list
             /\ next.at = r.at /\ next.field = 2
             /\ done \in MpdCallRows /\ done.held = NotThere /\ done.list = r.list
             /\ done.at = at /\ done.field = 1
<1> DEFINE next == [r EXCEPT !.field = 2, !.held = NotThere]
           done == [r EXCEPT !.at = at, !.field = 1, !.held = NotThere]
<1>1. /\ next.held = NotThere /\ next.list = r.list /\ next.at = r.at /\ next.field = 2
      /\ done.held = NotThere /\ done.list = r.list /\ done.at = at /\ done.field = 1
  BY DEF MpdCallRows
<1>2. \A x \in MpdCallRows : /\ [x EXCEPT !.held = NotThere] \in MpdCallRows /\ [x EXCEPT !.at = at] \in MpdCallRows
                            /\ [x EXCEPT !.field = 1] \in MpdCallRows /\ [x EXCEPT !.field = 2] \in MpdCallRows
  BY DEF MpdCallRows
<1>3. next = [[r EXCEPT !.field = 2] EXCEPT !.held = NotThere]
  OBVIOUS
<1>4. done = [[[r EXCEPT !.at = at] EXCEPT !.field = 1] EXCEPT !.held = NotThere]
  OBVIOUS
<1>5. next \in MpdCallRows /\ done \in MpdCallRows
  BY <1>2, <1>3, <1>4
<1> QED BY <1>1, <1>5

\* A request writes the template with its profile in front.
LEMMA MpdWriteKeeps ==
  ASSUME DashIInv, NEW c \in MpdCalls, WriteTemplate(c)
  PROVE  DashIInv'
<1> USE DEF DashIInv
<1> DEFINE p == At(c)
           f == Field(c)
           v == <<p>> \o mpdCalls[c].held
           first == mpdCalls[c].field = 1
           row == IF first THEN [mpdCalls[c] EXCEPT !.field = 2, !.held = NotThere]
                  ELSE [mpdCalls[c] EXCEPT !.at = mpdCalls[c].at + 1, !.field = 1, !.held = NotThere]
<1>0. Working(c) /\ mpdCalls[c].held # NotThere /\ UNCHANGED <<paths, asked, alone>> /\ ~Prefixed(c)
  BY DEF WriteTemplate, DashTyped
<1>1. /\ p \in Made /\ f \in FieldNames /\ mpdCalls[c] \in MpdCallRows /\ mpdCalls[c].at = MpdPlace(p)
      /\ mpdCalls[c].at \in 1..2 /\ mpdCalls[c].at <= Len(mpdCalls[c].list) /\ mpdCalls[c].field \in 1..2
      /\ mpdCalls[c].held \in PathPrefixes /\ Len(mpdCalls[c].list) \in {1, 2}
  <2>1. p \in Made /\ f \in FieldNames /\ mpdCalls[c] \in MpdCallRows /\ mpdCalls[c].at = MpdPlace(p)
    BY <1>0, CallAt
  <2>2. mpdCalls[c].at \in 1..3 /\ Len(mpdCalls[c].list) \in {1, 2} /\ mpdCalls[c].field \in 1..2
    BY <2>1 DEF MpdCallRows, Listings
  <2>3. mpdCalls[c].held \in PathPrefixes
    BY <1>0, <2>1 DEF MpdCallRows
  <2>4. MpdPlace(p) \in 1..2 /\ mpdCalls[c].at <= Len(mpdCalls[c].list)
    <3>1. ~(mpdCalls[c].at > Len(mpdCalls[c].list))
      BY <1>0 DEF Prefixed
    <3> QED BY <2>2, <3>1 DEF MpdPlace
  <2> HIDE DEF p, f
  <2> QED BY <2>1, <2>2, <2>3, <2>4
<1>2. v \in PathPrefixes /\ Len(v) = Len(mpdCalls[c].held) + 1 /\ Range(v) = {p} \cup Range(mpdCalls[c].held)
  BY <1>1, PrefixAdded
<1>3. /\ templates' = [templates EXCEPT ![p] = [@ EXCEPT ![f] = v]]
      /\ f = IF first THEN "init" ELSE "media"
  <2>1. templates' = [templates EXCEPT ![GetProfileByName(At(c))][Field(c)] = <<At(c)>> \o mpdCalls[c].held]
    BY DEF WriteTemplate
  <2>2. GetProfileByName(At(c)) = At(c)
    BY <1>1, ServedByItself
  <2> QED BY <1>1, <2>1, <2>2 DEF Field, Fields
<1>4. mpdCalls' = [mpdCalls EXCEPT ![c] = row]
  <2>1. Len(Fields) = 2
    BY DEF Fields
  <2>2. (mpdCalls[c].field < Len(Fields)) <=> first
    BY <1>1, <2>1
  <2>3. mpdCalls' = [mpdCalls EXCEPT ![c] =
       IF mpdCalls[c].field < Len(Fields) THEN [mpdCalls[c] EXCEPT !.field = mpdCalls[c].field + 1, !.held = NotThere]
       ELSE [mpdCalls[c] EXCEPT !.at = mpdCalls[c].at + 1, !.field = 1, !.held = NotThere]]
    BY <1>1 DEF WriteTemplate, DashTyped
  <2>4. first => mpdCalls[c].field + 1 = 2
    OBVIOUS
  <2> HIDE DEF first
  <2> QED BY <2>2, <2>3, <2>4
<1>5. /\ row \in MpdCallRows /\ row.held = NotThere /\ row.list = mpdCalls[c].list
      /\ row.at = IF first THEN mpdCalls[c].at ELSE mpdCalls[c].at + 1
      /\ row.field = IF first THEN 2 ELSE 1
  <2>1. mpdCalls[c] \in [list : Listings, at : 1..3, field : 1..2, held : {NotThere} \cup PathPrefixes]
        /\ mpdCalls[c].at + 1 \in 1..3
    BY <1>1 DEF MpdCallRows
  <2> DEFINE next == [mpdCalls[c] EXCEPT !.field = 2, !.held = NotThere]
             done == [mpdCalls[c] EXCEPT !.at = mpdCalls[c].at + 1, !.field = 1, !.held = NotThere]
  <2>2. next \in MpdCallRows /\ next.held = NotThere /\ next.list = mpdCalls[c].list
        /\ next.at = mpdCalls[c].at /\ next.field = 2
    BY <1>1, <2>1, RowSteps
  <2>3. done \in MpdCallRows /\ done.held = NotThere /\ done.list = mpdCalls[c].list
        /\ done.at = mpdCalls[c].at + 1 /\ done.field = 1
    BY <1>1, <2>1, RowSteps
  <2>4. row = IF first THEN next ELSE done
    OBVIOUS
  <2> HIDE DEF next, done, row, first
  <2> QED BY <2>2, <2>3, <2>4
<1> HIDE DEF row, v, first, f, p
<1>6. /\ mpdCalls'[c] = row /\ \A d \in MpdCalls : d # c => mpdCalls'[d] = mpdCalls[d]
      /\ mpdCalls' \in [MpdCalls -> {NotThere} \cup MpdCallRows]
  BY <1>4, <1>5 DEF DashTyped
<1>7. /\ templates' \in [Made -> [FieldNames -> PathPrefixes]] /\ templates'[p][f] = v
      /\ \A q \in Made, g \in FieldNames : (q # p \/ g # f) => templates'[q][g] = templates[q][g]
  BY <1>1, <1>2, <1>3 DEF DashTyped
<1>8. Working(c)'
  <2>1. MpdCallRows \subseteq MpdRows
    <3>1. Listings \subseteq Seq(Made)
      BY DEF Listings
    <3> QED BY <3>1 DEF MpdCallRows, MpdRows
  <2> QED BY <1>5, <1>6, <2>1, NotThereAssumption DEF Working
<1>9. \A d \in MpdCalls :
        /\ Working(d)' = Working(d)
        /\ d # c => /\ Prefixed(d)' = Prefixed(d) /\ At(d)' = At(d) /\ Field(d)' = Field(d)
                    /\ \A q : MidField(d, q)' = MidField(d, q)
  BY <1>0, <1>6, <1>8 DEF Working, Prefixed, At, Field, MidField
<1>10. DashTyped'
  <2>1. mpdCalls'[c].at <= Len(mpdCalls'[c].list) + 1 /\ mpdCalls'[c].held = NotThere
    BY <1>1, <1>5, <1>6
  <2>2. \A d \in MpdCalls : Working(d)' => mpdCalls'[d].at <= Len(mpdCalls'[d].list) + 1
    BY <1>6, <1>9, <2>1 DEF DashTyped
  <2>3. \A d \in MpdCalls : Working(d)' /\ mpdCalls'[d].held # NotThere => ~Prefixed(d)'
    BY <1>6, <1>9, <2>1 DEF DashTyped
  <2>4. Prefixed(c)' => mpdCalls'[c].field = 1
    BY <1>1, <1>5, <1>6 DEF Prefixed
  <2>5. \A d \in MpdCalls : Working(d)' /\ Prefixed(d)' => mpdCalls'[d].field = 1
    BY <1>6, <1>9, <2>4 DEF DashTyped
  <2> QED BY <1>0, <1>6, <1>7, <2>2, <2>3, <2>5 DEF DashTyped
<1>11. OwnPrefixes'
  <2>1. Range(v) \subseteq {p, Torn}
    BY <1>0, <1>2 DEF OwnPrefixes, p
  <2>2. \A q \in Made, g \in FieldNames : Range(templates'[q][g]) \subseteq {q, Torn}
    BY <1>7, <2>1 DEF OwnPrefixes
  <2>3. \A d \in MpdCalls : Working(d)' /\ mpdCalls'[d].held # NotThere => Range(mpdCalls'[d].held) \subseteq {At(d)', Torn}
    BY <1>5, <1>6, <1>9 DEF OwnPrefixes
  <2> QED BY <2>2, <2>3 DEF OwnPrefixes
<1>12. ASSUME alone' PROVE OneAtATime' /\ TemplatesInStep' /\ PathsInStep'
  <2>1. alone /\ OneAtATime /\ TemplatesInStep /\ PathsInStep
    BY <1>0, <1>12
  <2>2. \A d \in MpdCalls : Working(d) => d = c
    BY <1>0, <2>1 DEF OneAtATime
  <2>3. mpdCalls[c].held = templates[p][f] /\ v = <<p>> \o templates[p][f]
    BY <1>0, <2>1 DEF OneAtATime, p, f, v
  <2>4. OneAtATime'
    <3>1. Range(v) \subseteq {p}
      BY <1>1, <1>2, <2>1, <2>3 DEF OneAtATime
    <3>2. \A q \in Made, g \in FieldNames : Range(templates'[q][g]) \subseteq {q}
      BY <1>7, <2>1, <3>1 DEF OneAtATime
    <3>3. \A d \in MpdCalls : Working(d)' => d = c /\ mpdCalls'[d].held = NotThere
      BY <1>5, <1>6, <1>9, <2>2
    <3> QED BY <3>2, <3>3 DEF OneAtATime
  <2>5. "init" \in FieldNames /\ "media" \in FieldNames /\ "init" # "media"
    BY DEF FieldNames
  <2>6. \A q \in Made : q # p => MpdPlace(q) # MpdPlace(p)
    BY <1>1, EncodedProfiles DEF MpdPlace
  <2>7. \A q : (\E d \in MpdCalls : MidField(d, q)) <=> MidField(c, q)
    BY <2>2 DEF MidField
  <2>8. \A q : (\E d \in MpdCalls : MidField(d, q)') <=> MidField(c, q)'
    BY <1>9, <2>2 DEF MidField
  <2>9. \A q \in Made : MidField(c, q) <=> ~first /\ q = p
    BY <1>0, <1>1, <2>6 DEF MidField, first
  <2>10. \A q \in Made : MidField(c, q)' <=> first /\ q = p
    BY <1>1, <1>5, <1>6, <1>8, <2>6 DEF MidField
  <2>11. ASSUME NEW q \in Made
         PROVE  /\ Len(templates[q]["media"]) \in Nat
                /\ Len(templates'[q]["media"]) = IF ~first /\ q = p THEN Len(templates[q]["media"]) + 1
                                                 ELSE Len(templates[q]["media"])
    <3>1. templates[q]["media"] \in PathPrefixes
      BY <2>5 DEF DashTyped
    <3>2. Len(templates[q]["media"]) \in Nat
      BY <3>1 DEF PathPrefixes
    <3> QED BY <1>2, <1>3, <1>7, <2>3, <2>5, <3>2
  <2>12. ASSUME NEW q \in Made
         PROVE  templates'[q]["init"] =
                  IF \E d \in MpdCalls : MidField(d, q)' THEN Deeper(q)' ELSE templates'[q]["media"]
    <3>1. CASE q # p
      <4>1. templates'[q]["init"] = templates[q]["init"] /\ templates'[q]["media"] = templates[q]["media"]
        BY <1>7, <2>5, <3>1
      <4>2. templates[q]["init"] = templates[q]["media"]
        BY <2>1, <2>7, <2>9, <3>1 DEF TemplatesInStep
      <4> QED BY <2>8, <2>10, <3>1, <4>1, <4>2
    <3>2. CASE q = p /\ first
      <4>1. templates'[q]["init"] = <<p>> \o templates[p]["init"] /\ templates'[q]["media"] = templates[q]["media"]
        BY <1>3, <1>7, <2>3, <2>5, <3>2
      <4>2. templates[q]["init"] = templates[q]["media"]
        BY <2>1, <2>7, <2>9, <3>2 DEF TemplatesInStep
      <4>3. templates'[q]["init"] = Deeper(q)'
        BY <3>2, <4>1, <4>2 DEF Deeper
      <4> QED BY <2>8, <2>10, <3>2, <4>3
    <3>3. CASE q = p /\ ~first
      <4>1. templates'[q]["media"] = <<p>> \o templates[p]["media"] /\ templates'[q]["init"] = templates[q]["init"]
        BY <1>3, <1>7, <2>3, <2>5, <3>3
      <4>2. templates[q]["init"] = Deeper(q)
        BY <2>1, <2>7, <2>9, <3>3 DEF TemplatesInStep
      <4> QED BY <2>8, <2>10, <3>3, <4>1, <4>2 DEF Deeper
    <3> QED BY <3>1, <3>2, <3>3
  <2>13. ASSUME NEW q \in Made
         PROVE  /\ Len(templates'[q]["media"]) <= asked
                /\ IF MpdPlace(q) < mpdCalls'[c].at THEN Len(templates'[q]["media"]) >= 1
                   ELSE Len(templates'[q]["media"]) + 1 <= asked
    <3>1. /\ Len(templates[q]["media"]) <= asked /\ asked \in Nat /\ MpdPlace(q) \in 1..2
          /\ IF MpdPlace(q) < mpdCalls[c].at THEN Len(templates[q]["media"]) >= 1
             ELSE Len(templates[q]["media"]) + 1 <= asked
      BY <1>0, <2>1, ManifestsAssumption DEF TemplatesInStep, DashTyped, MpdPlace
    <3>2. CASE first
      BY <1>5, <1>6, <2>11, <3>1, <3>2
    <3>3. CASE ~first /\ q = p
      BY <1>1, <1>5, <1>6, <2>11, <3>1, <3>3
    <3>4. CASE ~first /\ q # p
      <4>1. MpdPlace(q) < mpdCalls[c].at + 1 <=> MpdPlace(q) < mpdCalls[c].at
        BY <1>1, <2>6, <3>1, <3>4
      <4> QED BY <1>5, <1>6, <2>11, <3>1, <3>4, <4>1
    <3> QED BY <3>2, <3>3, <3>4
  <2>14. TemplatesInStep'
    <3>1. \A d \in MpdCalls : Working(d)' => d = c
      BY <1>9, <2>2
    <3> QED BY <1>0, <2>12, <2>13, <3>1 DEF TemplatesInStep
  <2>15. PathsInStep'
    BY <1>0, <2>1 DEF PathsInStep
  <2> QED BY <2>4, <2>14, <2>15
<1> QED BY <1>10, <1>11, <1>12

\* A request's manifest is served, and a player asks for its paths.
LEMMA MpdServeKeeps ==
  ASSUME DashIInv, NEW c \in MpdCalls, ServeManifest(c)
  PROVE  DashIInv'
<1> USE DEF DashIInv
<1> DEFINE listed == {mpdCalls[c].list[i] : i \in DOMAIN mpdCalls[c].list}
<1>0. /\ Working(c) /\ Prefixed(c) /\ UNCHANGED <<templates, asked, alone>>
      /\ mpdCalls' = [mpdCalls EXCEPT ![c] = NotThere]
      /\ paths' = [dir \in listed |-> Representation(dir)]
  BY DEF ServeManifest
<1>1. /\ ~Working(c)' /\ \A d \in MpdCalls : d # c => mpdCalls'[d] = mpdCalls[d]
      /\ mpdCalls' \in [MpdCalls -> {NotThere} \cup MpdCallRows]
  BY <1>0 DEF DashTyped, Working
<1>2. \A d \in MpdCalls : d # c =>
        /\ Working(d)' = Working(d) /\ Prefixed(d)' = Prefixed(d) /\ At(d)' = At(d) /\ Field(d)' = Field(d)
        /\ \A q : MidField(d, q)' = MidField(d, q)
  BY <1>1 DEF Working, Prefixed, At, Field, MidField
<1>3. DashTyped'
  <2>1. \A d \in MpdCalls : Working(d)' => mpdCalls'[d].at <= Len(mpdCalls'[d].list) + 1
    BY <1>1, <1>2 DEF DashTyped
  <2>2. \A d \in MpdCalls : Working(d)' /\ mpdCalls'[d].held # NotThere => ~Prefixed(d)'
    BY <1>1, <1>2 DEF DashTyped
  <2>3. \A d \in MpdCalls : Working(d)' /\ Prefixed(d)' => mpdCalls'[d].field = 1
    BY <1>1, <1>2 DEF DashTyped
  <2> QED BY <1>0, <1>1, <2>1, <2>2, <2>3 DEF DashTyped
<1>4. OwnPrefixes'
  <2>1. \A d \in MpdCalls : Working(d)' /\ mpdCalls'[d].held # NotThere => Range(mpdCalls'[d].held) \subseteq {At(d)', Torn}
    BY <1>1, <1>2 DEF OwnPrefixes
  <2> QED BY <1>0, <2>1 DEF OwnPrefixes
<1>5. ASSUME alone' PROVE OneAtATime' /\ TemplatesInStep' /\ PathsInStep'
  <2>1. alone /\ OneAtATime /\ TemplatesInStep
    BY <1>0, <1>5
  <2>2. \A d \in MpdCalls : ~Working(d)'
    BY <1>0, <1>1, <1>2, <2>1 DEF OneAtATime
  <2>3. \A d \in MpdCalls : \A q : ~MidField(d, q) /\ ~MidField(d, q)'
    <3>1. \A q : ~MidField(c, q)
      <4>1. mpdCalls[c].field = 1
        BY <1>0 DEF DashTyped
      <4> QED BY <4>1 DEF MidField
    <3> QED BY <1>0, <1>2, <2>1, <2>2, <3>1 DEF MidField, OneAtATime
  <2>4. OneAtATime'
    BY <1>0, <2>1, <2>2 DEF OneAtATime
  <2>5. \A p \in Made : templates[p]["init"] = templates[p]["media"] /\ Len(templates[p]["media"]) <= asked
    BY <2>1, <2>3 DEF TemplatesInStep
  <2>6. TemplatesInStep'
    BY <1>0, <2>2, <2>3, <2>5 DEF TemplatesInStep
  <2>7. PathsInStep'
    <3> SUFFICES ASSUME NEW dir \in listed
                 PROVE  /\ paths'[dir]["init"] = paths'[dir]["media"] /\ Range(paths'[dir]["init"]) = {dir}
                        /\ Len(paths'[dir]["init"]) \in 2..asked' + 1
      BY <1>0 DEF PathsInStep
    <3>1. /\ mpdCalls[c].list \in Seq(Made) /\ Len(mpdCalls[c].list) \in {1, 2} /\ mpdCalls[c].list[1] = "mobile"
          /\ Len(mpdCalls[c].list) = 2 => mpdCalls[c].list[2] = "tablet"
          /\ mpdCalls[c].at \in 1..3
      BY <1>0, CallAt DEF MpdCallRows, Listings
    <3>2. mpdCalls[c].at > Len(mpdCalls[c].list)
      BY <1>0 DEF Prefixed
    <3>3. dir \in Made /\ MpdPlace(dir) < mpdCalls[c].at
      BY <3>1, <3>2, EncodedProfiles DEF MpdPlace
    <3> HIDE DEF listed
    <3> DEFINE s == templates[dir]["media"]
    <3>4. "init" \in FieldNames /\ "media" \in FieldNames
      BY DEF FieldNames
    <3>5. /\ s \in PathPrefixes /\ templates[dir]["init"] = s /\ Range(s) \subseteq {dir}
          /\ Len(s) >= 1 /\ Len(s) <= asked /\ asked \in Nat
      <4>1. Len(s) >= 1
        BY <1>0, <2>1, <3>3 DEF TemplatesInStep
      <4>2. s \in PathPrefixes
        BY <3>3, <3>4 DEF DashTyped
      <4>3. Range(s) \subseteq {dir}
        BY <2>1, <3>3, <3>4 DEF OneAtATime
      <4>4. asked \in Nat
        BY ManifestsAssumption DEF DashTyped
      <4> QED BY <2>5, <3>3, <4>1, <4>2, <4>3, <4>4
    <3>6. paths'[dir]["init"] = <<dir>> \o s /\ paths'[dir]["media"] = <<dir>> \o s
      BY <1>0, <3>3, <3>4, <3>5, ServedByItself DEF Representation, listed
    <3>7. Len(s) \in Nat /\ Len(<<dir>> \o s) = Len(s) + 1 /\ Range(<<dir>> \o s) = {dir} \cup Range(s)
      BY <3>3, <3>5, PrefixAdded
    <3> HIDE DEF s
    <3>8. Len(s) + 1 \in 2..asked + 1 /\ {dir} \cup Range(s) = {dir}
      BY <3>5, <3>7
    <3> QED BY <1>0, <3>6, <3>7, <3>8
  <2> QED BY <2>4, <2>6, <2>7
<1> QED BY <1>3, <1>4, <1>5

-----------------------------------------------------------------------------
(* The whole.                                                              *)

ManifestsIInv == HlsIInv /\ PlanIInv /\ DashIInv

\* What players are told is there, no less for more bandwidth, without gaps, and of one profile each.
THEOREM ManifestsCorrect == ManifestsSpec => []ManifestsInv
<1>1. ManifestsInit => ManifestsIInv
  BY HlsInitHolds, PlanInitHolds, DashInitHolds DEF ManifestsIInv
<1>2. ManifestsIInv /\ [ManifestsNext]_manifestVars => ManifestsIInv'
  <2> SUFFICES ASSUME ManifestsIInv, [ManifestsNext]_manifestVars PROVE ManifestsIInv'
    OBVIOUS
  <2>1. UNCHANGED hlsVars => HlsIInv'
    BY DEF ManifestsIInv, hlsVars, HlsIInv, HlsTyped, ToldStays, There, Profile
  <2>2. UNCHANGED planVars => PlanIInv'
    BY DEF ManifestsIInv, planVars, PlanIInv
  <2>3. UNCHANGED dashVars => DashIInv'
    <3> SUFFICES ASSUME UNCHANGED dashVars PROVE DashIInv'
      OBVIOUS
    <3>1. /\ DashTyped' = DashTyped /\ OwnPrefixes' = OwnPrefixes /\ OneAtATime' = OneAtATime
          /\ TemplatesInStep' = TemplatesInStep /\ PathsInStep' = PathsInStep
      BY DEF dashVars, DashTyped, OwnPrefixes, OneAtATime, TemplatesInStep, PathsInStep,
             Working, Prefixed, At, Field, MidField, Deeper
    <3> QED BY <3>1 DEF ManifestsIInv, DashIInv, dashVars
  <2>4. CASE HlsNext
    BY <2>2, <2>3, <2>4, HlsKeeps DEF ManifestsIInv, HlsNext
  <2>5. CASE AdaptiveNext
    BY <2>1, <2>3, <2>5, PlanKeeps DEF ManifestsIInv, AdaptiveNext
  <2>6. CASE PeriodNext
    BY <2>1, <2>3, <2>6, PlanKeeps DEF ManifestsIInv, PeriodNext
  <2>7. CASE DashNext
    BY <2>1, <2>2, <2>7, MpdBeginKeeps, MpdReadKeeps, MpdWriteKeeps, MpdServeKeeps DEF ManifestsIInv, DashNext
  <2>8. CASE UNCHANGED manifestVars
    BY <2>1, <2>2, <2>3, <2>8 DEF ManifestsIInv, manifestVars
  <2> QED BY <2>4, <2>5, <2>6, <2>7, <2>8 DEF ManifestsNext
<1>3. ManifestsIInv => ManifestsInv
  <2> SUFFICES ASSUME ManifestsIInv PROVE ManifestsInv
    OBVIOUS
  <2>1. ManifestsTypeOK
    <3>1. starting \in 0..Launches
      BY ManifestsAssumption DEF ManifestsIInv, HlsIInv, HlsTyped
    <3> QED BY <3>1, EncodedProfiles DEF ManifestsIInv, HlsIInv, HlsTyped, DashIInv, DashTyped, ManifestsTypeOK
  <2>2. ManifestsInStep
    BY DEF ManifestsIInv, DashIInv, OwnPrefixes, PathsInStep, ManifestsInStep
  <2> QED BY <2>1, <2>2, ToldServed, PlanHolds DEF ManifestsIInv, ManifestsInv
<1> QED BY <1>1, <1>2, <1>3, PTL DEF ManifestsSpec
=============================================================================
