------------------------------ MODULE DlnaServer ------------------------------
(***************************************************************************)
(* pkg/dlna: discovery, the content directory and the AV transport.  The   *)
(* server announces itself over SSDP and answers searches until it stops;  *)
(* a control point browses the root for libraries and a library for items; *)
(* transport instances are made when they are first named, in a map that   *)
(* no lock guards, and a request checks and sets one in two steps.         *)
(*                                                                         *)
(* Messages, XML and device descriptions are left out.  A library's items  *)
(* are a set that a scan changes meanwhile; a control point asks for pages *)
(* of a directory until it has as many entries as there are said to be.    *)
(***************************************************************************)
EXTENDS Naturals, FiniteSets

CONSTANTS
  Containers,   \* the root and the libraries' ids: what can be browsed
  DlnaEntries,     \* libraries and items: what a directory lists
  PageSizes,    \* RequestedCount
  Targets,      \* search targets of M-SEARCH
  Matched,      \* of them: those handleMSEARCH answers
  Instances,    \* AVTransport instance ids
  AvRequests,   \* SOAP requests that may be under way at once
  Uris,         \* media, NoUri for none
  Scans,        \* bound: changes of the directories
  NoUri

AVStates == {"STOPPED", "PLAYING", "PAUSED_PLAYBACK", "NO_MEDIA_PRESENT"}
AVInfos == [state : AVStates, uri : Uris, moved : BOOLEAN]
AvUnderWay == [instance : Instances, kind : {"set", "play", "pause"}]

ASSUME DlnaAssumption ==
  /\ Matched \subseteq Targets /\ PageSizes \subseteq Nat /\ Scans \in Nat
  /\ NoUri \in Uris /\ NoUri \notin AVInfos /\ NoUri \notin AvUnderWay

VARIABLES
  server,      \* "down", "up" or "stopped"
  alive,       \* ssdp:alive messages sent of the first three
  replies,     \* search targets answered
  directory,   \* what the database has: container -> entries
  scans,       \* changes of the directories so far
  reader,      \* the control point: [container, count, got, total, before, after]
  transport,   \* avTransportInstances: id -> [state, uri, moved] or NoUri
  avCalls,     \* request -> [instance, kind], its state yet to be set, or NoUri
  overlapped   \* history: instances of which a request for a new uri and one to
               \* play or pause overlapped, and neither a uri nor a stop since
               \* that nothing overlapped

transportVars == <<transport, avCalls, overlapped>>
dlnaVars == <<server, alive, replies, directory, scans, reader, transport, avCalls, overlapped>>

\* What a request of two steps sets last.
LastlySet == [set |-> "STOPPED", play |-> "PLAYING", pause |-> "PAUSED_PLAYBACK"]

DlnaInit ==
  /\ server = "down" /\ alive = 0 /\ replies = {}
  /\ directory \in [Containers -> SUBSET DlnaEntries]
  /\ scans = 0
  /\ reader = NoUri
  /\ transport = [i \in Instances |-> NoUri]
  /\ avCalls = [k \in AvRequests |-> NoUri] /\ overlapped = {}

-----------------------------------------------------------------------------
\* Start: the routes, and SSDP if the multicast group can be joined.
StartServer ==
  /\ server = "down" /\ server' = "up"
  /\ UNCHANGED <<alive, replies, directory, scans, reader, transportVars>>

\* ssdpAnnounceLoop: three times at first, then every quarter of an hour.
Announce ==
  /\ server = "up" /\ alive < 3
  /\ alive' = alive + 1
  /\ UNCHANGED <<server, replies, directory, scans, reader, transportVars>>

\* handleMSEARCH.
Search(target) ==
  /\ server = "up"
  /\ replies' = IF target \in Matched THEN replies \cup {target} ELSE replies
  /\ UNCHANGED <<server, alive, directory, scans, reader, transportVars>>

\* Stop: the channel is closed and with it both loops end; no ssdp:byebye is sent.
StopServer ==
  /\ server = "up" /\ server' = "stopped"
  /\ UNCHANGED <<alive, replies, directory, scans, reader, transportVars>>

-----------------------------------------------------------------------------
\* A library, an item is added to the database or removed from it.
Scan(c, e) ==
  /\ scans < Scans /\ scans' = scans + 1
  /\ directory' = [directory EXCEPT ![c] = IF e \in @ THEN @ \ {e} ELSE @ \cup {e}]
  /\ reader' = IF reader = NoUri THEN NoUri ELSE [reader EXCEPT !.whole = @ /\ reader.container # c]
  /\ UNCHANGED <<server, alive, replies, transportVars>>

\* Mutated BuildBrowseResult: the count asked for is kept to, and the total is
\* still the number of entries returned.
BuildPage(c, got, count) ==
  LET rest == directory[c] \ got
      page == IF count = 0 THEN rest
              ELSE CHOOSE p \in SUBSET rest :
                     Cardinality(p) = IF Cardinality(rest) < count THEN Cardinality(rest) ELSE count
  IN  [entries |-> page, total |-> Cardinality(page)]

\* buildBrowseResult: all of the container whatever the starting index, the count
\* and the flag, and the number of them for both NumberReturned and TotalMatches.
BuildBrowseResult(c, got, count) ==
  [entries |-> directory[c], total |-> Cardinality(directory[c])]

\* A control point begins to read a directory; "whole" is a history: it has not
\* changed since.
Opens(c, count) ==
  /\ server = "up" /\ reader = NoUri
  /\ reader' = [container |-> c, count |-> count, got |-> {}, index |-> 0, total |-> 1, whole |-> TRUE]
  /\ UNCHANGED <<server, alive, replies, directory, scans, transportVars>>

\* handleBrowse: the next page.
HandleBrowse ==
  LET result == BuildBrowseResult(reader.container, reader.got, reader.count)
  IN  /\ server = "up" /\ reader # NoUri /\ reader.index < reader.total
      /\ reader' = [reader EXCEPT !.got = @ \cup result.entries,
                                  !.index = @ + Cardinality(result.entries),
                                  !.total = result.total]
      /\ UNCHANGED <<server, alive, replies, directory, scans, transportVars>>

\* It has as many as there are.
Closes ==
  /\ reader # NoUri /\ reader.index >= reader.total
  /\ reader' = NoUri
  /\ UNCHANGED <<server, alive, replies, directory, scans, transportVars>>

-----------------------------------------------------------------------------
\* getOrCreateAVTransport.
GetOrCreate(i) ==
  IF transport[i] # NoUri THEN transport[i]
  ELSE [state |-> "NO_MEDIA_PRESENT", uri |-> NoUri, moved |-> FALSE]

Becomes(i, info) ==
  /\ server = "up"
  /\ transport' = [transport EXCEPT ![i] = info]
  /\ UNCHANGED <<server, alive, replies, directory, scans, reader>>

UnderWay(i, kinds) ==
  \E k \in AvRequests : avCalls[k] # NoUri /\ avCalls[k].instance = i /\ avCalls[k].kind \in kinds

\* The instance is looked up or made, and the request goes on to set its state.
GoesOnToSet(k, i, kind) ==
  /\ avCalls[k] = NoUri
  /\ avCalls' = [avCalls EXCEPT ![k] = [instance |-> i, kind |-> kind]]

\* handleSetAVTransportURI: the position is left as it was, and an empty URI too
\* makes the state STOPPED, ...
HandleSetURI(k, i, uri) ==
  /\ Becomes(i, [GetOrCreate(i) EXCEPT !.uri = uri])
  /\ GoesOnToSet(k, i, "set")
  /\ overlapped' = IF UnderWay(i, {"play", "pause"}) THEN overlapped \cup {i} ELSE overlapped

\* handlePlay of an instance that has media at this moment, ...
HandlePlay(k, i) ==
  /\ GetOrCreate(i).uri # NoUri
  /\ Becomes(i, GetOrCreate(i))
  /\ GoesOnToSet(k, i, "play")
  /\ UNCHANGED overlapped

\* handlePause of one that plays at this moment, ...
HandlePause(k, i) ==
  /\ GetOrCreate(i).state = "PLAYING"
  /\ Becomes(i, GetOrCreate(i))
  /\ GoesOnToSet(k, i, "pause")
  /\ overlapped' = IF UnderWay(i, {"set"}) THEN overlapped \cup {i} ELSE overlapped

\* ... and whatever it has become since, its state is set.
SetsState(k) ==
  LET i == avCalls[k].instance
      kind == avCalls[k].kind
  IN  /\ avCalls[k] # NoUri
      /\ transport' = [transport EXCEPT ![i].state = LastlySet[kind]]
      /\ avCalls' = [avCalls EXCEPT ![k] = NoUri]
      /\ overlapped' = IF kind = "set" /\ ~UnderWay(i, {"play", "pause"}) THEN overlapped \ {i} ELSE overlapped
      /\ UNCHANGED <<server, alive, replies, directory, scans, reader>>

\* handleStop, in any state: the relative position is 0 again.
HandleStop(i) ==
  /\ Becomes(i, [GetOrCreate(i) EXCEPT !.state = "STOPPED", !.moved = FALSE])
  /\ overlapped' = IF UnderWay(i, {"play", "pause"}) THEN overlapped ELSE overlapped \ {i}
  /\ UNCHANGED avCalls

\* handleSeek, in any state.
HandleSeek(i, known) ==
  /\ Becomes(i, [GetOrCreate(i) EXCEPT !.moved = @ \/ known])
  /\ UNCHANGED <<avCalls, overlapped>>

\* GetPositionInfo, GetTransportInfo, GetMediaInfo, and Play and Pause that are
\* refused with error 701: they may make the instance.
HandleGetInfo(i) == Becomes(i, GetOrCreate(i)) /\ UNCHANGED <<avCalls, overlapped>>

ServerNext ==
  StartServer \/ Announce \/ StopServer \/ \E target \in Targets : Search(target)

BrowseNext ==
  \/ \E c \in Containers : (\E e \in DlnaEntries : Scan(c, e)) \/ (\E n \in PageSizes : Opens(c, n))
  \/ HandleBrowse \/ Closes

TransportNext ==
  \/ \E i \in Instances :
       \/ \E k \in AvRequests :
            HandlePlay(k, i) \/ HandlePause(k, i) \/ \E uri \in Uris : HandleSetURI(k, i, uri)
       \/ HandleStop(i) \/ HandleGetInfo(i)
       \/ \E known \in BOOLEAN : HandleSeek(i, known)
  \/ \E k \in AvRequests : SetsState(k)

DlnaNext == ServerNext \/ BrowseNext \/ TransportNext

DlnaSpec == DlnaInit /\ [][DlnaNext]_dlnaVars

-----------------------------------------------------------------------------
DlnaTypeOK ==
  /\ server \in {"down", "up", "stopped"} /\ alive \in 0..3 /\ replies \subseteq Matched
  /\ directory \in [Containers -> SUBSET DlnaEntries]
  /\ transport \in [Instances -> AVInfos \cup {NoUri}]
  /\ avCalls \in [AvRequests -> AvUnderWay \cup {NoUri}]
  /\ overlapped \subseteq Instances

\* The server takes no notice of the page asked for, and gets away with it: a
\* control point that stops when it has as many entries as it is told there are
\* has them all, whatever page it asks for, unless the directory changed meanwhile.
PagesAreWhole ==
  reader # NoUri /\ reader.index >= reader.total /\ reader.whole =>
    reader.got = directory[reader.container]

\* What plays or is paused has media, but while its uri is being replaced.  A Play
\* or Pause that checked before the uri went and sets after it leaves an instance
\* playing without media; a stop or a uri that nothing overlaps puts it right.
TransportHasMedia ==
  \A i \in Instances \ overlapped :
    transport[i] # NoUri /\ transport[i].state \in {"PLAYING", "PAUSED_PLAYBACK"} =>
      transport[i].uri # NoUri \/ UnderWay(i, {"set"})

\* What holds of browsing and of the transports.
DlnaInv == DlnaTypeOK /\ PagesAreWhole /\ TransportHasMedia
=============================================================================
