----------------------------- MODULE CastSession -----------------------------
(***************************************************************************)
(* pkg/cast: the Chromecast and the AirPlay controller.  Both keep devices *)
(* and sessions under one mutex; a session is started on a device by a     *)
(* goroutine that posts to it and reports to the session's id, whatever    *)
(* session has that id by then.  They differ in three things: Chromecasts  *)
(* are discovered by their announcements, at most one a minute of each     *)
(* address, AirPlay devices only added by hand; a Chromecast takes any     *)
(* answer for success; AirPlay tells the device to stop, the mutex held.   *)
(*                                                                         *)
(* Addresses, names and media URLs are left out, Seek and Volume do        *)
(* nothing.  Time passes in ticks; a device's age is capped.               *)
(***************************************************************************)
EXTENDS Naturals

CONSTANTS
  CastDevices, CastIds,
  Starts,       \* bound: sessions started
  Rate,         \* ticks in which an address announces itself once, a minute
  Keep,         \* age after which a device is pruned, five minutes
  Absent        \* no device, no session, never

ASSUME CastAssumption ==
  Starts \in Nat /\ Rate \in Nat \ {0} /\ Keep \in Nat /\ Rate <= Keep

VARIABLES
  controller,   \* "chromecast" or "airplay"
  lastSeen,     \* devices: age of LastSeen, or Absent
  discovery,    \* discoveryRate: age of the entry, or Absent
  sessions,     \* id -> [number, device, state], or Absent
  launches,     \* goroutines: [number, id, device]
  started,      \* sessions started so far, which number them
  announced     \* history: age of the last announcement of a device that is listed

castVars == <<controller, lastSeen, discovery, sessions, launches, started, announced>>

Ticks == 0..(Keep + 1)
SessionStates == {"idle", "loading", "playing", "paused"}
Sessions == [number : 1..Starts, device : CastDevices, state : SessionStates]

ASSUME AbsentAssumption == Absent \notin Ticks /\ Absent \notin Sessions

CastInit ==
  /\ controller \in {"chromecast", "airplay"}
  /\ lastSeen = [d \in CastDevices |-> Absent]
  /\ discovery = [d \in CastDevices |-> Absent]
  /\ announced = [d \in CastDevices |-> Absent]
  /\ sessions = [i \in CastIds |-> Absent]
  /\ launches = {} /\ started = 0

-----------------------------------------------------------------------------
\* registerDevice: a device that is known was seen now.
RegisterDevice(d) == lastSeen' = [lastSeen EXCEPT ![d] = 0]

\* allowDiscovery: once in Rate.
AllowDiscovery(d) == discovery[d] = Absent \/ discovery[d] >= Rate

Announces(d) ==
  announced' = [announced EXCEPT ![d] = IF lastSeen[d] # Absent \/ AllowDiscovery(d) THEN 0 ELSE @]

\* Mutated Discover: the entry is renewed also by announcements that are refused.
DiscoverLate(d) ==
  /\ controller = "chromecast"
  /\ Announces(d)
  /\ discovery' = [discovery EXCEPT ![d] = 0]
  /\ IF AllowDiscovery(d) THEN RegisterDevice(d) ELSE UNCHANGED lastSeen
  /\ UNCHANGED <<controller, sessions, launches, started>>

\* ssdpDiscoveryLoop gets a device's announcement.
Discover(d) ==
  /\ controller = "chromecast"
  /\ Announces(d)
  /\ IF AllowDiscovery(d)
     THEN discovery' = [discovery EXCEPT ![d] = 0] /\ RegisterDevice(d)
     ELSE UNCHANGED <<discovery, lastSeen>>
  /\ UNCHANGED <<controller, sessions, launches, started>>

\* AddDevice, with the age the caller says, and RemoveDevice.
AddDevice(d, age) ==
  /\ lastSeen' = [lastSeen EXCEPT ![d] = age]
  /\ announced' = [announced EXCEPT ![d] = Absent]
  /\ UNCHANGED <<controller, discovery, sessions, launches, started>>

RemoveDevice(d) ==
  /\ lastSeen' = [lastSeen EXCEPT ![d] = Absent]
  /\ announced' = [announced EXCEPT ![d] = Absent]
  /\ UNCHANGED <<controller, discovery, sessions, launches, started>>

\* pruneDevices, with every tick of the 30-second ticker.
PruneDevices ==
  /\ lastSeen' = [d \in CastDevices |->
       IF lastSeen[d] # Absent /\ lastSeen[d] > Keep THEN Absent ELSE lastSeen[d]]
  /\ UNCHANGED <<controller, discovery, sessions, launches, started, announced>>

Aged(age) == IF age = Absent \/ age > Keep THEN age ELSE age + 1

Tick ==
  /\ lastSeen' = [d \in CastDevices |-> Aged(lastSeen[d])]
  /\ discovery' = [d \in CastDevices |-> Aged(discovery[d])]
  /\ announced' = [d \in CastDevices |-> Aged(announced[d])]
  /\ UNCHANGED <<controller, sessions, launches, started>>

-----------------------------------------------------------------------------
\* StartSession: a session that has the id is replaced, its launch goes on.
StartSession(i, d) ==
  /\ lastSeen[d] # Absent
  /\ started < Starts
  /\ started' = started + 1
  /\ sessions' = [sessions EXCEPT ![i] = [number |-> started + 1, device |-> d, state |-> "loading"]]
  /\ launches' = launches \cup {[number |-> started + 1, id |-> i, device |-> d]}
  /\ UNCHANGED <<controller, lastSeen, discovery, announced>>

\* StopSession; AirPlay's tells the device first, which may take as long as the
\* client waits: nothing else gets the mutex meanwhile.
StopSession(i) ==
  /\ sessions[i] # Absent
  /\ sessions' = [sessions EXCEPT ![i] = Absent]
  /\ UNCHANGED <<controller, lastSeen, discovery, launches, started, announced>>

\* updateSessionState: by the id.
UpdateSessionState(i, state) ==
  sessions' = [sessions EXCEPT ![i] =
    IF @ = Absent THEN @ ELSE [number |-> @.number, device |-> @.device, state |-> state]]

\* Mutated LaunchEnds: a device that cannot be reached is only logged.
LaunchLogs(launch, outcome) ==
  /\ launch \in launches
  /\ launches' = launches \ {launch}
  /\ IF outcome = "fails" THEN UNCHANGED sessions
     ELSE UpdateSessionState(launch.id, IF outcome = "rejected" /\ controller = "airplay"
                                        THEN "idle" ELSE "playing")
  /\ UNCHANGED <<controller, lastSeen, discovery, started, announced>>

\* launchAndLoad or sendPlay has its answer, or gives up.
LaunchEnds(launch, outcome) ==
  /\ launch \in launches
  /\ launches' = launches \ {launch}
  /\ UpdateSessionState(launch.id,
       IF outcome = "fails" \/ (outcome = "rejected" /\ controller = "airplay")
       THEN "idle" ELSE "playing")
  /\ UNCHANGED <<controller, lastSeen, discovery, started, announced>>

\* Play and Pause only set the state: the device is not told.
Commands(i, state) ==
  /\ state \in {"playing", "paused"}
  /\ sessions[i] # Absent
  /\ UpdateSessionState(i, state)
  /\ UNCHANGED <<controller, lastSeen, discovery, launches, started, announced>>

CastNext ==
  \/ \E d \in CastDevices : Discover(d) \/ AddDevice(d, 0) \/ RemoveDevice(d)
  \/ PruneDevices \/ Tick
  \/ \E i \in CastIds, d \in CastDevices : StartSession(i, d)
  \/ \E i \in CastIds : StopSession(i) \/ Commands(i, "playing") \/ Commands(i, "paused")
  \/ \E launch \in launches, outcome \in {"done", "rejected", "fails"} : LaunchEnds(launch, outcome)

CastSpec == CastInit /\ [][CastNext]_castVars

-----------------------------------------------------------------------------
CastTypeOK ==
  /\ lastSeen \in [CastDevices -> Ticks \cup {Absent}]
  /\ discovery \in [CastDevices -> Ticks \cup {Absent}]
  /\ announced \in [CastDevices -> Ticks \cup {Absent}]
  /\ sessions \in [CastIds -> Sessions \cup {Absent}]
  /\ launches \subseteq [number : 1..started, id : CastIds, device : CastDevices]

\* A session is loading only while its own launch runs: the launch of the one
\* it replaced reports to it too, and may end the loading, but never leave it
\* loading for ever; and however launches fail, each is told to its session.
LoadingEnds ==
  \A i \in CastIds :
    sessions[i] # Absent /\ sessions[i].state = "loading" =>
      [number |-> sessions[i].number, id |-> i, device |-> sessions[i].device] \in launches

\* The limit on announcements makes LastSeen older than it is, by less than the
\* limit: a device is listed as long as its last announcement is younger, by
\* that much, than what pruning takes for gone.
AnnouncedIsListed ==
  \A d \in CastDevices :
    announced[d] # Absent /\ announced[d] + Rate <= Keep + 1 => lastSeen[d] # Absent

\* What holds of the casting controllers.
CastInv == CastTypeOK /\ LoadingEnds /\ AnnouncedIsListed
=============================================================================
