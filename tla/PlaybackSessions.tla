--------------------------- MODULE PlaybackSessions ---------------------------
(***************************************************************************)
(* pkg/playback: the sessions a user's devices control over HTTP.  Every   *)
(* command reads the session's row, changes the copy and writes state,     *)
(* position and volume back, in two statements of the database, and then   *)
(* forwards an event.  Commands of one session may overlap.                *)
(*                                                                         *)
(* Positions and volumes are members of small sets, times are left out: the*)
(* list of sessions is a set.  Requests that are refused change nothing.   *)
(***************************************************************************)
EXTENDS Naturals

CONSTANTS
  PbUsers,
  PbIds,        \* bound: the session ids that are ever made
  PbRequests,   \* bound: requests served at once
  PbPositions,  \* positions a seek asks for, 0 the first
  PbVolumes,    \* volumes asked for, 100 the first
  NoSession     \* no row, no request

VARIABLES
  pbRows,   \* playback_sessions: id -> row or NoSession
  pbUsed,   \* ids given out
  pbCalls,  \* request -> the command it serves, or NoSession
  pbTold,   \* id -> what the last forwarded event said
  pbRaced   \* history: sessions of which two commands have overlapped, or one its start

playbackVars == <<pbRows, pbUsed, pbCalls, pbTold, pbRaced>>

States == {"playing", "paused", "stopped"}
SessionRows == [user : PbUsers, state : States, position : PbPositions, volume : PbVolumes]
Told(row) == [position |-> row.position, volume |-> row.volume]

\* A command is what it sets: the state, the state and the position, or the volume.
PbCommands ==
  [state : States] \cup [state : {"playing"}, position : PbPositions] \cup [volume : PbVolumes]

\* A command under way: what it read, and whether the row was written since.
PbUnderWay == [id : PbIds, user : PbUsers, sets : PbCommands, copy : SessionRows,
             at : {"read", "written"}, stale : BOOLEAN]

ASSUME PlaybackSessionsAssumption ==
  /\ 0 \in PbPositions /\ 100 \in PbVolumes
  /\ NoSession \notin SessionRows /\ NoSession \notin PbUnderWay

PlaybackInit ==
  /\ pbRows = [s \in PbIds |-> NoSession]
  /\ pbUsed = {} /\ pbRaced = {}
  /\ pbCalls = [r \in PbRequests |-> NoSession]
  /\ pbTold = [s \in PbIds |-> NoSession]

-----------------------------------------------------------------------------
\* handleStart with CreateSession: a new row.  Its event, a "play", is forwarded
\* later: until then other devices may list the session and command it.
HandleStart(r, u, s) ==
  LET row == [user |-> u, state |-> "playing", position |-> 0, volume |-> 100]
  IN  /\ pbCalls[r] = NoSession
      /\ s \notin pbUsed
      /\ pbUsed' = pbUsed \cup {s}
      /\ pbRows' = [pbRows EXCEPT ![s] = row]
      /\ pbCalls' = [pbCalls EXCEPT ![r] =
           [id |-> s, user |-> u, sets |-> [state |-> "playing"], copy |-> row,
            at |-> "written", stale |-> FALSE]]
      /\ UNCHANGED <<pbTold, pbRaced>>

Busy(s) == \E r \in PbRequests : pbCalls[r] # NoSession /\ pbCalls[r].id = s

\* Mutated GetSession: the session is another user's as well.
GetAnySession(r, u, s, command) ==
  /\ pbCalls[r] = NoSession
  /\ pbRows[s] # NoSession
  /\ pbCalls' = [pbCalls EXCEPT ![r] =
       [id |-> s, user |-> u, sets |-> command, copy |-> pbRows[s], at |-> "read", stale |-> FALSE]]
  /\ pbRaced' = IF Busy(s) THEN pbRaced \cup {s} ELSE pbRaced
  /\ UNCHANGED <<pbRows, pbUsed, pbTold>>

\* The first half of handleSeek, handleVolume and updateState: the row is there
\* and the user's own, and is read.  "stale" is a history of the writes since.
GetSession(r, u, s, command) ==
  /\ pbCalls[r] = NoSession
  /\ pbRows[s] # NoSession /\ pbRows[s].user = u
  /\ pbCalls' = [pbCalls EXCEPT ![r] =
       [id |-> s, user |-> u, sets |-> command, copy |-> pbRows[s], at |-> "read", stale |-> FALSE]]
  /\ pbRaced' = IF Busy(s) THEN pbRaced \cup {s} ELSE pbRaced
  /\ UNCHANGED <<pbRows, pbUsed, pbTold>>

\* The copy with the command's change.
Changed(copy, sets) ==
  [f \in DOMAIN copy |-> IF f \in DOMAIN sets THEN sets[f] ELSE copy[f]]

\* Mutated UpdateSession: what is forwarded afterwards is the session as it was read.
UpdateSessionUntold(r) ==
  LET call == pbCalls[r]
      row == Changed(call.copy, call.sets)
  IN  /\ call # NoSession /\ call.at = "read"
      /\ pbRows' = [pbRows EXCEPT ![call.id] = IF @ = NoSession THEN @ ELSE row]
      /\ pbCalls' = [pbCalls EXCEPT ![r].at = "written"]
      /\ UNCHANGED <<pbUsed, pbTold, pbRaced>>

\* The second half: UpdateSession writes all of the copy; without a row it
\* changes nothing and says so to nobody.
UpdateSession(r) ==
  LET call == pbCalls[r]
      row == Changed(call.copy, call.sets)
  IN  /\ call # NoSession /\ call.at = "read"
      /\ pbRows' = [pbRows EXCEPT ![call.id] = IF @ = NoSession THEN @ ELSE row]
      /\ pbCalls' = [q \in PbRequests |->
           IF q = r THEN [call EXCEPT !.copy = row, !.at = "written"]
           ELSE IF pbCalls[q] # NoSession /\ pbCalls[q].id = call.id
                THEN [pbCalls[q] EXCEPT !.stale = TRUE] ELSE pbCalls[q]]
      /\ UNCHANGED <<pbUsed, pbTold, pbRaced>>

\* ... or it fails: the answer is an error, and nothing is forwarded.
UpdateFails(r) ==
  /\ pbCalls[r] # NoSession /\ pbCalls[r].at = "read"
  /\ pbCalls' = [pbCalls EXCEPT ![r] = NoSession]
  /\ UNCHANGED <<pbRows, pbUsed, pbTold, pbRaced>>

\* publish, and the answer.
ForwardEvent(r) ==
  /\ pbCalls[r] # NoSession /\ pbCalls[r].at = "written"
  /\ pbTold' = [pbTold EXCEPT ![pbCalls[r].id] = Told(pbCalls[r].copy)]
  /\ pbCalls' = [pbCalls EXCEPT ![r] = NoSession]
  /\ UNCHANGED <<pbRows, pbUsed, pbRaced>>

\* DeleteSession of the store.
DeleteSession(s) ==
  /\ pbRows[s] # NoSession
  /\ pbRows' = [pbRows EXCEPT ![s] = NoSession]
  /\ UNCHANGED <<pbUsed, pbCalls, pbTold, pbRaced>>

\* ListActiveSessions, what handleList answers.
ListActiveSessions(u) ==
  {s \in PbIds : pbRows[s] # NoSession /\ pbRows[s].user = u /\ pbRows[s].state # "stopped"}

PlaybackNext ==
  \/ \E r \in PbRequests, u \in PbUsers, s \in PbIds : HandleStart(r, u, s)
  \/ \E r \in PbRequests, u \in PbUsers, s \in PbIds, command \in PbCommands :
       GetSession(r, u, s, command)
  \/ \E r \in PbRequests : UpdateSession(r) \/ UpdateFails(r) \/ ForwardEvent(r)
  \/ \E s \in PbIds : DeleteSession(s)

PlaybackSpec == PlaybackInit /\ [][PlaybackNext]_playbackVars

-----------------------------------------------------------------------------
PlaybackTypeOK ==
  /\ pbRows \in [PbIds -> SessionRows \cup {NoSession}]
  /\ pbUsed \subseteq PbIds /\ pbRaced \subseteq pbUsed
  /\ pbCalls \in [PbRequests -> PbUnderWay \cup {NoSession}]
  /\ \A s \in PbIds : pbRows[s] # NoSession => s \in pbUsed

\* Commands overlap, and the later write takes the earlier one back: a session
\* that was stopped may play again after a change of its volume.  But only so.
\* Every change of a row is a command of its owner, and one that has not been
\* overtaken since it read the row changes nothing but what it is there to set.
OnlyOvertakenLose ==
  [][\A s \in PbIds :
       pbRows[s] # NoSession /\ pbRows'[s] # NoSession /\ pbRows'[s] # pbRows[s] =>
         \E r \in PbRequests :
           LET call == pbCalls[r]
           IN  /\ call # NoSession /\ call.id = s /\ call.user = pbRows[s].user
               /\ pbRows'[s].user = pbRows[s].user
               /\ \/ call.stale
                  \/ \A f \in DOMAIN pbRows[s] \ DOMAIN call.sets :
                       pbRows'[s][f] = pbRows[s][f]]_playbackVars

\* A session none of whose commands ever overlapped is, once they are answered,
\* at the position and the volume that the last forwarded event said: the devices
\* that follow it are not misled.  Its start is a command too: while its event is
\* to come another device may list the session and be told of it out of order.
ToldAsStored ==
  \A s \in PbIds \ pbRaced :
    pbRows[s] # NoSession /\ ~Busy(s) => pbTold[s] = Told(pbRows[s])

\* The sessions are as they should be between commands.
SessionsInv == PlaybackTypeOK /\ ToldAsStored
=============================================================================
