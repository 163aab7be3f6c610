------------------------------ MODULE PluginHost ------------------------------
(***************************************************************************)
(* pkg/plugin: the registry of plugins by name, the loader of shared       *)
(* objects, which registers a plugin and then initialises it, and the      *)
(* manager of external plugins, which starts a process, waits for its      *)
(* handshake, and then registers it.  InitializeAll and DispatchEvent call *)
(* every plugin with the registry's lock held for reading; ShutdownAll     *)
(* stops the processes the manager has.                                    *)
(*                                                                         *)
(* A plugin is one that LoadDirectory or LoadBuiltIn was called for: two   *)
(* may have one name.  Directories, manifests and what events say are left *)
(* out; what a plugin's code or process does is any outcome, or none.      *)
(***************************************************************************)
CONSTANTS
  Plugs,     \* plugins, each loaded at most once
  Objects,   \* the ones that are Go values, built in or from a .so file
  Names,
  NameOf,    \* NameOf[p]: what p.Name() returns
  Visitors,  \* goroutines that call InitializeAll or DispatchEvent
  NoPlug     \* no plugin

ASSUME PluginAssumption ==
  /\ Objects \subseteq Plugs
  /\ NameOf \in [Plugs -> Names]
  /\ NoPlug \notin Plugs

VARIABLES
  plugins,     \* Registry.plugins
  externals,   \* ExternalPluginManager.externals
  processes,   \* external plugins with cmd and client set
  load,        \* load[p]: where the loading of p is
  visit,       \* visit[v]: "idle", "walking", and at one plugin one of AtPlugin
  visitKind,   \* visitKind[v]: "init" or "event"
  left,        \* left[v]: plugins v has yet to call
  visited,     \* visited[v]: the plugin v is at
  stopping,    \* ShutdownAll is under way
  toStop       \* plugins it has yet to stop

walkVars == <<visit, visitKind, left, visited>>
shutdownVars == <<externals, stopping, toStop>>
pluginVars == <<plugins, processes, load, walkVars, shutdownVars>>

Externals == Plugs \ Objects
AtPlugin == {"waiting", "writing", "event", "handshake"}
LoadStages == {"new", "handshake", "started", "registered", "refused", "unwanted", "done", "failed"}

PluginTypeOK ==
  /\ plugins \in [Names -> Plugs \cup {NoPlug}]
  /\ externals \in [Names -> Externals \cup {NoPlug}]
  /\ processes \subseteq Externals
  /\ load \in [Plugs -> LoadStages]
  /\ visit \in [Visitors -> {"idle", "walking"} \cup AtPlugin]
  /\ visitKind \in [Visitors -> {"init", "event"}]
  /\ left \in [Visitors -> SUBSET Plugs]
  /\ visited \in [Visitors -> Plugs \cup {NoPlug}]
  /\ stopping \in BOOLEAN
  /\ toStop \subseteq Externals

PluginInit ==
  /\ plugins = [n \in Names |-> NoPlug]
  /\ externals = [n \in Names |-> NoPlug]
  /\ processes = {}
  /\ load = [p \in Plugs |-> "new"]
  /\ visit = [v \in Visitors |-> "idle"]
  /\ visitKind = [v \in Visitors |-> "init"]
  /\ left = [v \in Visitors |-> {}]
  /\ visited = [v \in Visitors |-> NoPlug]
  /\ stopping = FALSE
  /\ toStop = {}

-----------------------------------------------------------------------------
Registered(p) == plugins[NameOf[p]] = p

\* Nobody has Registry.mu for reading; nobody has ExternalPlugin.mu.
NoReader == \A v \in Visitors : visit[v] = "idle"

MutexFree(p) ==
  /\ load[p] # "handshake"
  /\ \A v \in Visitors : visit[v] \in AtPlugin \ {"waiting"} => visited[v] # p

LoadTo(p, stage) == load' = [load EXCEPT ![p] = stage]

\* LoadDirectory, Initialize of a new external plugin: its process is started,
\* or cannot be; ...
StartProcess(p) ==
  /\ p \in Externals
  /\ load[p] = "new"
  /\ \/ processes' = processes \cup {p} /\ LoadTo(p, "handshake")
     \/ UNCHANGED processes /\ LoadTo(p, "failed")
  /\ UNCHANGED <<plugins, walkVars, shutdownVars>>

\* ... its answer to the handshake is waited for, and no answer kills it.
Handshake(p) ==
  /\ load[p] = "handshake"
  /\ \/ UNCHANGED processes /\ LoadTo(p, "started")
     \/ processes' = processes \ {p} /\ LoadTo(p, "failed")
  /\ UNCHANGED <<plugins, walkVars, shutdownVars>>

\* Mutated Register: a plugin of the same name is replaced.
RegisterOver(p) ==
  /\ load[p] = IF p \in Objects THEN "new" ELSE "started"
  /\ NoReader
  /\ plugins' = [plugins EXCEPT ![NameOf[p]] = p]
  /\ LoadTo(p, "registered")
  /\ UNCHANGED <<processes, walkVars, shutdownVars>>

\* Register, of an object before it is initialised, of an external plugin
\* after: refused when the name is taken.
Register(p) ==
  /\ load[p] = IF p \in Objects THEN "new" ELSE "started"
  /\ NoReader
  /\ \/ /\ plugins[NameOf[p]] = NoPlug
        /\ plugins' = [plugins EXCEPT ![NameOf[p]] = p]
        /\ LoadTo(p, "registered")
     \/ /\ plugins[NameOf[p]] # NoPlug
        /\ LoadTo(p, IF p \in Objects THEN "failed" ELSE "refused")
        /\ UNCHANGED plugins
  /\ UNCHANGED <<processes, walkVars, shutdownVars>>

\* The process of a plugin that was refused is stopped.
ShutdownRefused(p) ==
  /\ load[p] = "refused"
  /\ MutexFree(p)
  /\ processes' = processes \ {p}
  /\ LoadTo(p, "failed")
  /\ UNCHANGED <<plugins, walkVars, shutdownVars>>

\* The manager keeps an external plugin that was registered.
Manage(p) ==
  /\ p \in Externals
  /\ load[p] = "registered"
  /\ ~stopping
  /\ externals' = [externals EXCEPT ![NameOf[p]] = p]
  /\ LoadTo(p, "done")
  /\ UNCHANGED <<plugins, processes, walkVars, stopping, toStop>>

\* loadSharedObject: Initialize, and when that fails Unregister.  A built-in
\* plugin is left as it was registered.
InitializeObject(p) ==
  /\ p \in Objects
  /\ load[p] = "registered"
  /\ \E outcome \in {"done", "unwanted"} : LoadTo(p, outcome)
  /\ UNCHANGED <<plugins, processes, walkVars, shutdownVars>>

Unregister(p) ==
  /\ load[p] = "unwanted"
  /\ NoReader
  /\ plugins' = [plugins EXCEPT ![NameOf[p]] = NoPlug]
  /\ LoadTo(p, "failed")
  /\ UNCHANGED <<processes, walkVars, shutdownVars>>

-----------------------------------------------------------------------------
\* InitializeAll and DispatchEvent take the lock and go through the plugins.
BeginVisit(v, kind) ==
  /\ visit[v] = "idle"
  /\ visit' = [visit EXCEPT ![v] = "walking"]
  /\ visitKind' = [visitKind EXCEPT ![v] = kind]
  /\ left' = [left EXCEPT ![v] = {p \in Plugs : Registered(p)}]
  /\ UNCHANGED <<plugins, processes, load, visited, shutdownVars>>

VisitNext(v, p) ==
  /\ visit[v] = "walking"
  /\ p \in left[v]
  /\ visit' = [visit EXCEPT ![v] = "waiting"]
  /\ visited' = [visited EXCEPT ![v] = p]
  /\ left' = [left EXCEPT ![v] = @ \ {p}]
  /\ UNCHANGED <<plugins, processes, load, visitKind, shutdownVars>>

WalksOn(v) ==
  /\ visit' = [visit EXCEPT ![v] = "walking"]
  /\ visited' = [visited EXCEPT ![v] = NoPlug]
  /\ UNCHANGED <<visitKind, left>>

\* The method of an object returns; that of an external plugin finds it not
\* initialised, or initialised already, or fails to start its process.
CallReturns(v) ==
  /\ visit[v] = "waiting"
  /\ \/ visited[v] \in Objects
     \/ MutexFree(visited[v]) /\ (visitKind[v] = "init" \/ visited[v] \notin processes)
  /\ WalksOn(v)
  /\ UNCHANGED <<plugins, processes, load, shutdownVars>>

\* OnEvent of an external plugin, with its mutex locked: client.Go begins to
\* write the event to the pipe of the process.
SendEvent(v) ==
  /\ visit[v] = "waiting"
  /\ visitKind[v] = "event"
  /\ visited[v] \in processes
  /\ MutexFree(visited[v])
  /\ visit' = [visit EXCEPT ![v] = "writing"]
  /\ UNCHANGED <<plugins, processes, load, visitKind, left, visited, shutdownVars>>

\* The write returns when the process has read enough, or is gone: no timeout
\* is running yet.  The answer, or the error, is waited for from then on, ...
EventWritten(v) ==
  /\ visit[v] = "writing"
  /\ visit' = [visit EXCEPT ![v] = "event"]
  /\ UNCHANGED <<plugins, processes, load, visitKind, left, visited, shutdownVars>>

\* Mutated EventEnds: the call has no timeout.
EventEndsNever(v) == FALSE

\* ... until it is there, 30 seconds have passed or the context is done.
EventEnds(v) ==
  /\ visit[v] = "event"
  /\ WalksOn(v)
  /\ UNCHANGED <<plugins, processes, load, shutdownVars>>

\* Initialize of an external plugin that has no process.
StartAgain(v) ==
  /\ visit[v] = "waiting"
  /\ visitKind[v] = "init"
  /\ visited[v] \in Externals \ processes
  /\ MutexFree(visited[v])
  /\ processes' = processes \cup {visited[v]}
  /\ visit' = [visit EXCEPT ![v] = "handshake"]
  /\ UNCHANGED <<plugins, load, visitKind, left, visited, shutdownVars>>

HandshakeAgain(v) ==
  /\ visit[v] = "handshake"
  /\ processes' \in {processes, processes \ {visited[v]}}
  /\ WalksOn(v)
  /\ UNCHANGED <<plugins, load, shutdownVars>>

EndVisit(v) ==
  /\ visit[v] = "walking"
  /\ left[v] = {}
  /\ visit' = [visit EXCEPT ![v] = "idle"]
  /\ UNCHANGED <<plugins, processes, load, visitKind, left, visited, shutdownVars>>

-----------------------------------------------------------------------------
\* ShutdownAll: with the manager's mutex locked every plugin is stopped.
BeginShutdown ==
  /\ ~stopping
  /\ stopping' = TRUE
  /\ toStop' = {externals[n] : n \in Names} \ {NoPlug}
  /\ UNCHANGED <<plugins, processes, load, walkVars, externals>>

Shutdown(p) ==
  /\ p \in toStop
  /\ MutexFree(p)
  /\ processes' = processes \ {p}
  /\ toStop' = toStop \ {p}
  /\ UNCHANGED <<plugins, load, walkVars, externals, stopping>>

EndShutdown ==
  /\ stopping
  /\ toStop = {}
  /\ stopping' = FALSE
  /\ externals' = [n \in Names |-> NoPlug]
  /\ UNCHANGED <<plugins, processes, load, walkVars, toStop>>

-----------------------------------------------------------------------------
Loading(p) ==
  \/ StartProcess(p) \/ Handshake(p) \/ Register(p) \/ ShutdownRefused(p)
  \/ Manage(p) \/ InitializeObject(p) \/ Unregister(p)

Visiting(v) ==
  \/ \E kind \in {"init", "event"} : BeginVisit(v, kind)
  \/ \E p \in Plugs : VisitNext(v, p)
  \/ CallReturns(v) \/ SendEvent(v) \/ EventWritten(v) \/ EventEnds(v)
  \/ StartAgain(v) \/ HandshakeAgain(v) \/ EndVisit(v)

PluginNext ==
  \/ \E p \in Plugs : Loading(p) \/ Shutdown(p)
  \/ \E v \in Visitors : Visiting(v)
  \/ BeginShutdown
  \/ EndShutdown

PluginSpec == PluginInit /\ [][PluginNext]_pluginVars

\* The wait for an answer to an event has a timeout; ShutdownAll runs, and gets a mutex that is
\* given back again and again, as sync.Mutex hands itself to a waiter that
\* starves.  Nothing is assumed of plugins and their processes, nor of a write to
\* the pipe of a process.
PluginFairness ==
  /\ \A v \in Visitors : WF_pluginVars(EventEnds(v))
  /\ \A p \in Externals : SF_pluginVars(Shutdown(p))
  /\ WF_pluginVars(EndShutdown)

-----------------------------------------------------------------------------
\* No process is left over: one that runs belongs to a plugin that its name
\* stands for in the registry, or its loader is at it still - whatever fails,
\* and whoever initialises plugins anew after they were stopped.
ProcessesOwned ==
  \A p \in processes :
    load[p] \in {"handshake", "started", "refused"} \/ Registered(p)

\* Unregister removes what its caller registered, though it goes by name; so
\* the plugins the manager has are registered.
LoadedAreRegistered ==
  /\ \A p \in Externals : load[p] # "unwanted"
  /\ \A p \in Plugs : load[p] \in {"registered", "unwanted", "done"} => Registered(p)
  /\ \A n \in Names : externals[n] # NoPlug => NameOf[externals[n]] = n /\ Registered(externals[n])
  /\ \A n \in Names : plugins[n] # NoPlug => NameOf[plugins[n]] = n

\* While somebody goes through the plugins, they are the ones registered.
VisitsAreCurrent ==
  \A v \in Visitors :
    /\ visit[v] # "idle" => \A p \in left[v] : Registered(p)
    /\ visit[v] \in AtPlugin => visited[v] \in Plugs /\ Registered(visited[v])

PluginInv ==
  PluginTypeOK /\ ProcessesOwned /\ LoadedAreRegistered /\ VisitsAreCurrent

\* ShutdownAll returns, although events are under way to processes that never
\* answer, if only no handshake lasts for ever, which has no timeout, and each
\* process reads what is written to it: the event is written with the plugin's
\* mutex locked and before the timeout runs.
ShutdownReturns ==
  (\A p \in Plugs : []<>(/\ load[p] # "handshake"
                         /\ \A v \in Visitors :
                              visit[v] \in {"handshake", "writing"} => visited[v] # p)) =>
    (stopping ~> ~stopping)
==============================================================================
