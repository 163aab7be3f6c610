# AetherStream in TLA+

AetherStream is a media server written in Go: it scans directories into a
library, transcodes films with ffmpeg into HLS and DASH, serves them, lets a
phone steer a TV over WebSockets, casts to devices, records television, keeps
accounts and profiles, and brings cluster and plugin packages. This directory
holds TLA+ models of the parts where goroutines, connections, requests, nodes
and processes meet, the TLC instances that check them, and proofs that TLAPS
checks for instances of every size.

Contents: [1 inventory](#1-inventory) ·
[2 modules](#2-modules-and-the-code) · [3 runs](#3-runs) ·
[4 fairness](#4-fairness) · [5 findings](#5-what-the-models-found) ·
[6 proofs](#6-proofs) · [7 limits](#7-what-is-not-modelled) ·
[8 plan](#8-plan)

`PROJECT.json` maps every definition to source lines and lists components,
runs, mutants, findings, hazards and theorems.

    tlc -workers 2 -config MC_TranscodeJobs.cfg MC_TranscodeJobs
    tlapm TranscodeJobs_proofs.tla

## 1 Inventory

Paths are below `src/pkg` unless they start with `cmd`.

### Modelled

| Part | State it keeps | Operations | Talks to |
|---|---|---|---|
| Job manager, `tasks/tasks.go` | map key → active job, history, status and context of jobs; one mutex | Submit, SetRunning, Complete (by key), Cancel (by id), List, IsActive | called by `stream`, `cmd/.../main.go` |
| Transcoding, `stream/stream.go`, shutdown in `main.go` | one goroutine per job, output directory per key | manifest requests, Transcode, cancel, delete, SIGTERM | job manager, ffmpeg, disk |
| Distributed lock, `cluster/lock.go`, `lock_backend.go` | row of a shared table; map of entries per node; one keep-alive goroutine per entry | Acquire, Release, IsHeld, refresh, expiry | the database, other nodes |
| Hub, `ws/hub.go` | map key → connection, a buffered channel each | connect, leave, Broadcast | every module that notifies |
| Playback sessions over the hub, `ws/playback.go` | map device → session with receiver and controller | register, pair, forward command or event, unregister | hub |
| Library pipeline, `library/manager.go`, `scanner/scanner.go`, `libraries` and `items` tables of `db/db.go` | scan queue, results channel, watched directories, tables | create library, scan, walk, watch, Close, restart | fsnotify, disk, database |
| Event bus, `plugin/eventbus.go` | lists of channels under an RWMutex | Subscribe, unsubscribe, Publish, Close | plugins |
| Plugin host, `plugin/registry.go`, `loader.go`, `external.go` | plugins by name, processes, a mutex each | load, register, initialise, dispatch, shut down | child processes over JSON-RPC |
| Cluster registry, `cluster/registry.go`, `server.go` | nodes heard from, with time and health | ping, pong, join, prune, healthy nodes | UDP, HTTP, load balancer, replication |
| Replication, `cluster/replication.go` | the log of the database, its size when last shipped | ship, receive and append | registry, HTTP |
| Playback API, `playback/*.go` | `playback_sessions`, a copy in each request | start, five commands, list, forward an event | hub |
| Rooms, `syncplay/syncplay.go` | rooms with host, members, state | create, join, leave, state | hub |
| Casting, `cast/*.go` | devices with the time they were last seen, sessions, a goroutine per launch | announcements, launch, commands, stop, prune | devices over HTTP, SSDP |
| Live TV, `livetv/manager.go` | channels, recordings, one goroutine each, a buffer of segments | schedule, record, time shift | streams, disk |
| DLNA, `dlna/*.go` | state of the server, transport instances | announce, search, browse, play | control points |
| Cache and metadata clients, `cache/cache.go`, `metadata/*.go` | map and recency list, limiter, token | look up, ask, store, evict | outside services |
| Guards, `api/security.go` | failures by key, activity in memory and in `sessions`, buckets by connection | login, request, flush, clean-up | every route |
| Credentials, `apikeys`, `device`, `oauth`, `auth/rbac.go`, `auth/totp.go`, `api/security_handlers.go` | keys, devices, states, secrets, roles | create, validate, revoke, trust, enrol, verify | database |
| Accounts, `auth/auth.go`, `api/auth.go` | `users`, tokens out there | register, log in, switch profile, administer | database |
| Personal data, `compliance/gdpr.go`, `api/account.go` | the rows of one user, by kind | export, erase, revoke sessions | database |
| Backup, `backup/backup.go` | two files on disk, an archive | export, restore | disk |
| Sorting, `autocollections`, `tags`, `search`, the index in `db/db.go` | auto collections, tags, the search index, the connection pool | refresh, tag, index | database |
| Progress, `progress`, `chapters`, `api/mobile.go` | resume points, history, chapters | save, mark, report, detect | database, ffprobe |
| Profiles, `profiles`, `api/profiles.go` | `profiles`, PINs, hours, ratings | make, edit, switch, set a PIN, ask | database |
| Manifests, `hls`, `dash`, `stream/adaptive.go`, handlers of `stream/stream.go` | what ffmpeg has written, tables all requests share | master, variant, DASH, periods, selection | transcoding |

What is hard in each, and what makes it correct:

- **Jobs.** Complete finds a job by key, Cancel by id, SetRunning by walking the
  map; a cancelled goroutine goes on until it notices and then reports by key,
  possibly after its successor was submitted. Correct means: map and status
  agree, no key stays taken without a goroutine, no two live goroutines on one
  output directory, every job ends.
- **Lock.** The refresh runs outside the mutex; a refresh renews an expired row; an
  Acquire on the holder's node renews it with a ttl of its own; release is by key;
  nodes crash; statements fail after having taken effect. Correct means: no two
  callers have the lock at once for the time they were given it, but where a lease
  was renewed for less; a lock somebody has given up can be taken again; goroutines end.
- **Hub and playback.** Connections are overwritten in the map by others with
  their key and delete entries that are no longer theirs; channels are closed
  outside the lock; a forward is three steps under three locks. Correct means:
  no broadcast sends to a closed channel, a receiver has its session while it is
  there, nobody who has gone is named by one.
- **Library.** A bounded queue is met on two paths; a watcher and a scan work on
  the same tables; results are dropped when nobody takes them; a restart forgets
  everything but the tables. Correct means: items are filed where they belong (the
  watcher goes by the text of a path), accepted scans are carried out, the watcher
  never waits for the worker.
- **Bus.** Blocking sends with the lock held for reading, a writer that waits
  keeps new readers out, unsubscribing shifts a list that is being iterated over.
- **Plugins.** Every plugin is called with the registry's lock and its own mutex
  held; a process is started before its name is known to be free, and may not read
  what is written to it.
- **Cluster.** Datagrams are lost, repeated, late; the listener, the ticker and
  HTTP handlers write the same entries; nodes restart with nothing.

- **Replication.** Posts that fail or arrive late, a log that is started over.
  Correct means that what a replica has came from the source and in its order.
- **Devices.** Commands read a row, change a copy and write all of it; a launch
  reports to whatever session has its id; a recording's deadline is an error for
  the copy loop; two segments may have one file name; writes, removals and messages
  fail unseen; a transport is checked and then set. Correct means: nothing is
  lost but to a command that overlapped, nobody waits for a launch that is over,
  rooms keep their members, a playlist names files that are there.
- **Cache.** Calls of a slow service overtake each other while entries expire.
  Correct means: map and list agree, nothing is older than its time.
- **Guards.** A failure is recorded under other keys than are looked for; a shift
  overflows; activity is cached per group of routes and written later, or cannot be
  read; a bucket is forgotten. Correct means: the delays of a name the guard looks
  for grow until the shift overflows, idle sessions and only they are refused, no
  stretch of time lets more of a connection's requests through than it may.
- **Credentials and accounts.** Calls of two statements, with others between.
  Correct means: revoked is for good, a state is good once, a factor is active
  with the secret shown, who has an administrator's token was one.
- **Personal data, backup.** Many statements or files, of which one may fail.
  Correct means: an erasure leaves nothing of the kinds it lists and has come to but
  what was written since; a file is one that was written or an archive's, cut at the
  limit where it is longer.
- **Sorting.** Statements inside the loop over another's rows share its pool; an
  error is passed over. Correct means: an item is in the index once unless that went
  wrong, and a search by a tag shows what was tagged.
- **Profiles, progress, chapters.** Rows are read and written whole; reports are
  queries with a limit. Correct means: an edit is lost only to one that overlapped, a
  report within its limits misses nothing.
- **Manifests.** ffmpeg writes while players read; templates are changed in place.

### Not modelled

`PROJECT.json` lists every part with its source and the reason; section 7 has
them in short.

## 2 Modules and the code

| Module | Models | Notes |
|---|---|---|
| `JobLifecycle` | abstract specification | a job is begun for a key without a live job, ends once with one outcome |
| `JobManager` | `tasks.Manager` | one action per method, each runs under the mutex from first to last statement; shown to implement `JobLifecycle` |
| `TranscodeJobs` | handlers, goroutines, main's shutdown | extends `JobManager`; uses its actions as the calls they are |
| `LeaseLock` | abstract specification | a grant is good for the ticks asked for unless it is extended, given up or cut; none is made while another is good |
| `DistributedLock` | `DistributedLock` and `SQLiteLockBackend` | each caller asks for ttls of its own; shown to implement `LeaseLock` with the promises that were not cut as the grants |
| `WsHub` | `Hub` | the hub alone |
| `PlaybackHub` | `PlaybackHub` and both WebSocket handlers | extends `WsHub`; plain connections run beside players |
| `LibraryScan` | `Manager`, `Scanner`, tables | |
| `EventBus` | `EventBus` | Go's RWMutex is modelled as sync documents it |
| `PluginHost` | `Registry`, `Loader`, `ExternalPlugin`, `ExternalPluginManager` | writing to a process and waiting for its answer are two stages: only the second has a timeout |
| `ClusterRegistry` | `NodeRegistry`, `handleJoin` | |
| `Replication` | `ReplicationManager`, `handleReplicate` | which nodes are healthy is any set at each shipment |
| `PlaybackSessions` | `playback` | a start or a command is read, row and event, in steps of their own; the update may fail |
| `SyncPlay` | `syncplay`, `BroadcastToUser` of the hub | members are told one by one; the hub may drop a message, or give it to those whose id begins alike (`IdBegins`) |
| `CastSession` | `cast` | both controllers, the initial state says which |
| `LiveTV` | `livetv` | writes and removals may fail (`WriteFails`, `left`) |
| `DlnaServer` | `dlna` | SetAVTransportURI, Play and Pause are two steps each, as no lock guards an instance |
| `ExpiringMap` | abstract specification | a map of bounded size that may lose anything and makes nothing up |
| `LRUCache` | `Cache` and its clients | shown to implement `ExpiringMap` |
| `RequestGuards` | backoff, idle time, buckets | signed integers of `Width` bits; the keys of hosts, of addresses with their port and of names are apart (`HostKey`, `AddressKey`, `NameKey`) |
| `Credentials`, `Accounts` | the packages of section 1 | statements are steps; `SwitchProfile` changes a token for a fresh one |
| `PersonalData` | `compliance`, sessions of `db/db.go` | of each kind of rows whether there are any; `Erased` and `Exported` are the lists of the code, other kinds are in `RowKinds` too |
| `Backup` | `backup` | blocks are steps; the configuration may be missing, a file empty or longer than the limit |
| `Collections` | auto collections, tags, the index | statements with the connection pool; a deletion from the index may fail (`kept`) |
| `WatchProgress` | `progress`, `chapters`, handlers of both | reports take at most `RowLimit` rows of each table |
| `Profiles` | the packages of section 1 | the statements are those the handlers call |
| `Manifests` | playlists, selection, DASH tables | pure functions are checked over bounded inputs |
| `MC_*` | constants for TLC | `MC_Services` puts bus, plugins and registry side by side, `MC_Server` the modules after them |
| `*_proofs` | theorems | `TranscodeJobs_proofs` with the job manager, one each for lock, hub and library, `Services_proofs` for bus, plugins and registry, `Devices_proofs` for what serves devices and viewers, `People_proofs` for rows about people and what a request must get past, `Server_proofs` for cache, backup, collections, replication and the whole of `MC_Server` |

How state and actions correspond to the code:

- **One action is what runs between two points where others may interfere**:
  a mutex taken and released, a statement of the database, a channel operation, a
  start or an exit of ffmpeg, a change on disk. A method under one mutex is one
  action (`Submit`, `Cancel`); a handler that checks and later acts is two
  (`DeleteCheck`, `DeleteRemove`); forwarding a message is three
  (`ForwardLooksUp`, `ForwardReads`, `ForwardSends`).
- **Locks** appear as state only where they are kept across steps: the lock's
  mutex between the two backend calls of an Acquire (`call[h] = "acquiring"`),
  the bus's RWMutex (`announced`, `at`), the registry's read lock
  (`visit[v] # "idle"`) and each plugin's mutex (`MutexFree`).
- **Failures** are disjuncts of the step that may fail: a refresh that fails
  after or before it renewed the row, a commit that errs and has taken effect, an
  insertion that is logged and dropped, a removal that leaves the file,
  an `os.RemoveAll` that leaves the directory, a process that does not start.
- **Crashes**: `Crash` of a lock node keeps the row and nothing else; `Exit` and
  `Restart` of the library keep the tables and the disk; `StopNode` loses the
  registry; `ProcessExits` ends every goroutine but no ffmpeg.
- **Rows read and written whole** are a copy in the request's state, so that a
  write may put back what another has changed (`pbCalls`, `edits`).
- **History variables** say what the properties are about and the code does not
  keep: which commands overlapped (`pbRaced`, `overlapped`), who has joined (`inside`),
  whose lease was renewed for less (`cut`), what was sent and to whom it was not
  (`screens`, `behind`).
- **Panics** are modelled where Go has them: a send to a closed channel in the
  forward (`ForwardPanics`, with the deferred cleanup still to be done), a second
  close in `EventBus.Close`, and a handler sending to the library's closed queue,
  which leaves the row and watches made and queues nothing.
- **Time** is ticks. Row, promises and entries count down or age up to a cap, so
  no clock has to be bounded.
- **Data** is left out where nothing reads it back: messages and events, names,
  titles, sizes, timestamps, roles, addresses. A path is a model value with
  three relations, of which "starts with the text of" (`StartsWith`) is wider
  than "lies in" (`Above`), as `strings.HasPrefix` is.

Some code is outside `src` and is modelled from how it is used (marked external in
`PROJECT.json`): ffmpeg, the file system and fsnotify, the network, the clock,
sync.RWMutex, contexts, receivers of channels, cast devices, metadata services,
identity providers. One key of the lock is modelled, as
no statement relates two keys; ids of jobs and of libraries are used once, as
uuids are.

The cluster registry is that of nodes that listen on all interfaces and on one
port: only then does `broadcastPing` address the subnet (registry.go:185).

## 3 Runs

| Run | Instance | States | Checks |
|---|---|---|---|
| `transcode` | 2 jobs, 1 key, 2 profiles, history of 1, 1 pending launch | 92 408 | `TranscodeInv`, `NoStrandedJob`, `OneLiveWorkerPerKey`, `ImplementsLifecycle`, `EveryJobEnds`, `CancelledWorkEnds` |
| `lock` | 3 callers on 2 nodes, 2 entries, ttls 1 and 2 | 107 621 | `LeaseExclusive`, `LockInv`, `ImplementsLease`, `StoppedKeepAliveEnds`, `AbandonedLockExpires` |
| `playback_hub` | 2 TVs, a phone, 2 devices sharing a key | 437 892 | `PlaybackInv`, `LoneClientIsListener` |
| `library_scan` | 3 directories, 2 files, 2 libraries, queue of 2, results of 1 | 355 287 | `LibraryInv`, `FiledWhereItBelongs`, `AcceptedScanFinds`, `NewDirIsHandled` |
| `services` | see below | 223 984 | `BusInv`, `WritersReturn`, `ClusterInv`, `GoneIsForgotten`, `PeersMeetAgain`, `PluginInv`, `ShutdownReturns` |
| `server_parts` | see below | 1 450 936 | an invariant for each component (`SessionsInv` ... `MediaInv`), `OnlyOvertakenLose`, `ImplementsMap` |

`TranscodeInv`, `LockInv` and `PlaybackInv` are conjunctions whose parts have names
of their own: that the map and the status of jobs agree and the history is
sound (`ActiveIndexExact`, `HistorySound`), that what a node holds is kept
(`HeldIsKept`), that sessions name those who are there (`SessionForReceiver`,
`ControllerIsPresent`).

What the runs show and why the bounds are enough:

- **transcode.** Two jobs of one key are the smallest system in which a goroutine
  outlives its job and meets the next one; a history of one is overwritten; two
  profiles give a loop with a context check between them. Launches
  (`MaxLaunch`) are bounded because requests may start any number.
  `EveryJobEnds` says that a key cannot stay taken for ever, however ffmpeg behaves.
- **lock.** Two callers of one node and one of another: both ways of conflict,
  through the map and through the row. Two entries let a keep-alive outlive its
  entry and meet a successor. One caller asks for two ticks and the other of its node
  for one: leases get to be half over, and an Acquire shortens one.
- **playback_hub.** Two TVs are needed for a phone to pair twice and for a TV to
  pair with another; two devices may have one key, which the initial states choose.
  TVs are interchangeable and so are the devices: symmetry is sound since no
  liveness is checked.
- **library_scan.** `/m`, `/m/cache` and `/m2`: `/m` is the textual beginning of
  a path outside it; `cache` is skipped by walks but not by the watcher.
  `MaxEvents` bounds events in flight, `Requested` gives each library one path,
  `MaxCopies` counts an item as none or some.
- **services.** The three components share no state, so in a behaviour one of
  them works and the others rest: the states are the sum of theirs and every
  behaviour of each is there. *Bus*: a publisher, three subscriptions of two
  channels - two in one list, one channel twice - and buffers of one.
  *Cluster*: two nodes, unhealthy after one tick of silence and gone after two,
  of which one is told to join the other (`Joins`); every subset of the eight
  possible datagrams. *Plugins*: an object and two external plugins, one of which
  has the object's name, and two goroutines that go through the plugins.
- **server_parts.** Thirty parts that share no state; the initial state
  chooses the one that works. What their bounds are for:
  *Playback*: two commands of one session, so that one may overtake the other.
  *Casting*: one device, one id, three launches: one is stopped, one replaced, one
  late. *Rooms*: three users, so that two stay when the host leaves; the id of one is
  the beginning of the others'. *Television*: a recording, a buffer of two and four
  writes in four seconds: a full buffer meets two segments of a second, and a
  removal that failed meets later writes. *Replication*: three frames, three
  shipments: a repeated, a late and a grown one. *Cache*: three keys for two places,
  two callers, entries that live a second; all three clients. *DLNA*: two entries,
  pages of one; two requests of one transport. *Backoff*: two logins of one host, port
  and name at once and three failures, of which the last overflows an integer of four
  bits, as a later one does with 64. *Idle*: a session, two groups of
  routes and two requests, an idle time of one tick in three. *Rate*: a bucket of two
  over eight ticks, long enough to be forgotten. *Keys, devices, OAuth, second
  factor*: two of what competes. *Accounts*: two registrations of one name at
  once, two tokens or requests, tokens of two days. *Person*: two kinds of rows the
  code lists, of which one gets out of the export's reach, and one it does not.
  *Backup*: files of no, one and three blocks with a limit of two. *Sorting*: pools of 1,
  2, 3 and 5 connections for two refreshes; three updates of the index, two
  callers that make a tag. *Progress*: what clients report makes no sense, is the end
  or the beginning; two items where a report takes one. *Profiles*: two edits of one row, two
  profiles where one is allowed, every hour of a day of four. *Manifests*: items of
  one and four segments where three make a master, two launches, bandwidths on both
  sides of each limit, lengths on both sides of ten minutes, three DASH manifests.

Deadlock is checked except where the system may stop: the transcoding process may
have exited, connections that connect once may all have gone, and a part of the server
may have used up its bounds.

The six violation runs (`V_*.cfg`) check one statement of the repository each that
the code does not keep: section 5.

Each property has a mutant, an operator beside the original with a plausible bug
(a dropped holder condition in the refresh, a Complete that leaves the map
entry, a join that does not make an entry healthy again); with it in place TLC
finds the property violated.

## 4 Fairness

| Where | Assumed | Because | Not assumed |
|---|---|---|---|
| `TranscodeJobs` | goroutines run; a context's deadline fires; a killed ffmpeg dies | Go scheduler; `context.WithTimeout`, 30 minutes, in Submit; `exec.CommandContext` | that ffmpeg ever ends by itself, that a handler or main goes on |
| `DistributedLock` | time passes; an Acquire with the mutex goes on; a closed stopCh is selected; a goroutine waiting for the mutex gets it (strong) | contexts of five seconds; select chooses at random; a starving waiter is handed a `sync.Mutex` | calls, successful statements, restarts |
| `LibraryScan` | scanWorker runs, watchLoop runs until Close | goroutines without blocking sends; requests of processFile time out | watchWorker, admins, the disk, restarts |
| `EventBus` | writers with the lock and publishers run | goroutines | that subscribers receive or contexts end: a premise of `WritersReturn` |
| `ClusterRegistry` | ticker and time run; datagrams leave the network; of the pings one node sends another again and again some arrive (strong) | a 3-second ticker; a lossy, not a cut network | joins, answers, starts |
| `PluginHost` | OnEvent's timeout fires once the event is written; ShutdownAll runs and gets mutexes given back again and again (strong) | 30 seconds, external.go:112; starving waiters | that plugins answer or read: the handshake and the write to the process have no timeout, a premise of `ShutdownReturns` |

`server_parts` assumes no fairness: all its properties are of safety. Nothing in
those parts promises that a device, a service or a client ever answers.

## 5 What the models found

With a run that shows the statement violated:

| Run | Statement | What the code does |
|---|---|---|
| `delete_race` | stream.go:751, deletion "refuses if job is active" | check and removal are not atomic; a job submitted in between loses its directory |
| `ended_by_another` | stream.go:847, "Check cancellation between profiles" | a cancelled goroutine calls Complete for its key and ends its successor as completed |
| `keepalive_deletes_successor` | lock.go:114, "Lock lost; clean up local state" | a keep-alive deletes by key, so also the entry of a later holder |
| `broadcast_misses` | hub.go:155, "all connected clients" | an old connection's handler removes the entry of the device's new one, which is then reached on neither |
| `unregister_leaves` | playback.go:127, "removes a client from its playback session" | only from the one it paired with last |
| `rescan_duplicates` | collections.go:53, a scan re-fetches metadata | every scan inserts a new item for every file |

Seen while modelling, present in the models, without a run of their own:

- A goroutine that finds its 30 minutes over between profiles calls
  `Complete(key, 0, nil)`: the job is listed as completed with profiles missing
  (stream.go:851).
- Shutdown cancels what List returned; jobs submitted after that are not
  cancelled, though the log says "all active sessions cancelled"
  (main.go:197-202). docs/CONFIG.md:77 names a maximum of concurrent jobs that
  nothing enforces, and nothing bounds the ffmpeg processes that run at once
  (tasks.go:65).
- The first Acquire of a lock returns true, and one on the node that has it renews the
  row and returns false, though it "still" holds it. It renews with its own ttl
  (lock.go:50), not the entry's: a shorter one ends the holder's lease early, and
  another node may take the lock while the holder still counts on it.
- The watcher looks for the library of a new file by the beginning of its path's text
  (scanner.go:189), where scanner.go:185 says "which library this belongs to": `/m2/film`
  is filed under `/m`. `FiledWhereItBelongs` excepts what the watcher found so.
- BroadcastToUser, "all devices of a specific user" (hub.go:169), takes the connections
  whose key begins with the user's id, others' too if their ids begin so, and drops the
  message where a channel is full: members of a room then stay at an old state.
- An event is published after the row is written (playback/api.go:58 and :63): a command
  may come in between, and the event of the start after its own.
- The 30 seconds of OnEvent (external.go:112) begin when the event has been written to the
  pipe of the process. One that does not read keeps the plugin's mutex, and with it
  the registry's lock and the shutdown.
- A phone another has taken over from goes on sending commands to the TV
  (playback.go:112). playback.go:238 says commands must come from a controller; only the device id
  of the sender is looked at, and both kinds of client may have one.
- After a restart the scanner knows none of the libraries of the table: new files
  are found by the next scan only. What is created in a new directory before it is
  watched waits for a scan as well.
- The load balancer's "round-robin" is over a list in map order; `Nodes`,
  "excluding self", includes a node that was told to join itself;
  listeners for "new/updated" nodes are called for new ones only.
- eventbus.go:97 says Close "drains" channels; it closes them, and panics when one
  is subscribed twice, with the bus marked closed and some channels left open.
- An object plugin is registered before it is initialised, so events may reach it
  early; InitializeAll initialises loaded plugins once more, and after ShutdownAll
  it starts processes ShutdownAll no longer knows.
- An auto collection that has items is never made: the rows of its items keep the
  only connection the pool allows (db.go:22), and the statement for each of them
  waits for it (autocollections.go:147), for ever and with it every other request.
- After enough failures the shift of the backoff overflows and makes no delay
  (security.go:211).
- The backoff of security.go:254 is met by no login the handlers read. A failure is recorded
  under the address with its port and under the name of a JSON body; looked for are the
  host and the name of a form or of the URL. security_test.go:135 records a bare
  host, which the handlers never do. Buckets of the rate limit, too, are kept
  by address and port: a client has one for each connection (security.go:513).
- A session whose row cannot be read counts as never used, and is let through.
- Switching to a profile changes a token for a fresh one with the role of the
  old (profiles.go:172): as long as its bearer switches, a role taken from the row
  stays in a token.
- ExportUserData "collects all personal data" (gdpr.go:41) and DeleteUserData "removes
  or anonymizes all personal data" (gdpr.go:136); each goes through a list of tables.
  TOTP secrets, profiles, parental settings, the audit log and the items of
  collections are in neither, sessions are not exported, and of the user's activity
  only what is among everyone's newest 10000 entries. `UnlistedStays` says so.
- The manifest of an archive names a configuration also when there was none
  (backup.go:43). Import, "restores a backup archive" (backup.go:82), cuts a file longer
  than 100 MB there and reports success (backup.go:148).
- Playback reports stop at 1000 rows of each table (db.go:983, which says so, and
  progress.go:243, which does not): a resume point beyond is missing.
- Play and Pause look at a transport and then set it (avtransport.go:119 and :124): a
  new URI in between, which may be empty, leaves it playing without media.
- A segment of the time shift buffer whose removal fails is off the list and stays on disk
  for good (livetv/manager.go:374), as does what a failed write left.
- SetPIN changes no PIN there is, and lifts all limits of the profile, though its
  comment says it sets or updates (parental.go:42).
- A replica appends a shipment it has had before (replication.go): what is in its
  file is a sequence of runs, not a log.
- Each DASH manifest prefixes templates all requests share (dash/handler.go:117):
  the next one names files one directory deeper, which no route serves, and two at
  once may tear a name. GetProfileByName gives out the shared templates, too.
- A master playlist waits for three segments: shorter items, or ones whose
  transcoding stopped early, never get one, as the directory is there.
  adaptive.m3u8 names profiles nobody encodes. HandleMultiPeriodManifest and
  HandleLiveManifest are registered nowhere.
- UpdateItemMetadata and ListUnenrichedItems name columns the table has not, so
  nothing is ever enriched. With FTS5, two updates of an item's index that cross,
  or one whose deletion failed (db.go:699 passes over the error), leave it in twice,
  though db.go:696 speaks of INSERT OR REPLACE.
- A token is good in the role it was made for until it expires, whatever becomes of
  the user.
- The DLNA server ignores the page asked for and sends the whole directory.

## 6 Proofs

Each theorem is proved for any value of the constants that satisfies the named
assumption of its module; TLC evaluates the assumptions with every run.

| Theorem | Property | Inductive invariant, and why it is needed |
|---|---|---|
| `TypeCorrect`, `ActiveIndexIsExact`, `HistoryIsSound` | parts of `TranscodeInv` | `ManagerInv`: a job retires from the key it is found under, so map and status must agree before for the history to stay free of repetitions |
| `ManagerImplementsLifecycle` | `ImplementsLifecycle` | `ManagerInv`: Complete ends a live job only because an entry is live; Begin finds no live job because a live job is an entry |
| `TranscodeCorrect`, `NoJobIsStranded`, `OneLiveWorker`, `TranscodeUsesManager` | `TranscodeInv`, `NoStrandedJob`, `OneLiveWorkerPerKey` | adds `LiveWorkerIsActive` (a goroutine whose context is not done runs its key's active job) and `WorkerMatchesJob`: uniqueness follows from the first, and a Complete by key ends no goroutine's job but one that is over |
| `LockCorrect`, `LeaseIsExclusive`, `HeldIsAlwaysKept`, `LockImplementsLease` | `LockInv`, of which `HeldIsKept` is a part, `LeaseExclusive`, `ImplementsLease` | `PromiseBacked`: whose promise runs and was not cut is the row's holder, and not for longer than the row; what shortens the row below a promise is a renewal of that holder's, so it cuts no other's |
| `HubCorrect`, `LoneClientIsReached`, `PlaybackCorrect`, `ReceiverHasSession`, `NoControllerLeftBehind`, `LoneDeviceIsReached` | `PlaybackInv` and two of its parts, `LoneClientIsListener` | `ListenersAreOpen` with the order of the cleanup and with ids that are not in use before they are given out |
| `LibraryCorrect`, `ItemsFiledRight`, `ItemsInOwnDirectory` | `LibraryInv`, `FiledWhereItBelongs` | `ScansHaveRows`, `FindsBelong`: what is queued, found or on its way belongs, so what arrives does |
| `BusCorrect`, `SendsToSubscribersOnly` | `BusInv` | `TodoIsRest`, `ListedAreOpen`, `WaitersAreCalled`: lists change only when nobody reads them |
| `ClusterCorrect`, `RecentlyHeardIsHealthy` | `ClusterInv` | an unhealthy entry is stale, and no mark outlives its entry |
| `PluginCorrect`, `ProcessesAreOwned` | `PluginInv` | `LoadedAreRegistered`: unregistering by name removes one's own, so a running process keeps its owner |
| `RoomsCorrect` | `RoomsInv` | is inductive: whoever is not `behind` has the room's state, as an UpdateState puts all but the sender behind, and only its own Tell takes them out while it has the lock |
| `SessionsCorrect`, `OvertakenOnly` | `SessionsInv`, `OnlyOvertakenLose` | `CopyFresh`, `AloneOK`: a command that was not overtaken holds the row as it is, and one of a session never raced for is alone; `ToldUnlessWriting`: what was told is the row but for the moment between write and event, of a start as of a command |
| `CacheCorrect`, `CacheImplementsMap` | `CacheInv`, `ImplementsMap` | `EntriesOK`, `CallsTimely`: an answer is as old as its call was patient when it is stored; the list without repetitions is what bounds the map, through a place for each key |
| `CastCorrect` | `CastInv` | `LoadingEnds` is inductive: an id is loading only with the launch of its number under way; `SeenWithEntry`, `SeenInTime` bound how much older LastSeen is than the announcement by the rate limit |
| `DlnaCorrect` | `DlnaInv` | `ReadWhole`: a reader that has been answered has all of a directory that did not change, as every answer is the whole of it; `MediaAt`, `CheckedAt`: an instance no change of the uri overlapped has media when a Play or a Pause has looked, and until it sets the state |
| `LiveCorrect` | `LiveInv` | `InOrder`, `FilesNamed`, `LeftStays`, `NamesHeld`: segments are of rising seconds, so that dropping the first removes no later one's file, and what a failure left has no segment |
| `WatchCorrect` | `WatchInv` | `ReportSound`: begun viewings keep a row in one of two tables, and a query that found fewer rows than its limit has all there were; a scan has written a beginning of its list; `ChaptersAgree` needs the greatest start at or before a moment |
| `ManifestsCorrect` | `ManifestsInv` | `ToldStays`: what was told of stays listed unless a transcode begins again; `OwnPrefixes`, and while no two manifests overlap `OneAtATime`, `TemplatesInStep`, `PathsInStep`: a call that is on its way has prefixed exactly what it has passed |
| `CredentialsCorrect` | `CredentialsInv` | `KeysIInv` ... `RolesIInv`, a part for each table: what a call has read is the row's, or the row has been changed since and that is recorded |
| `AccountsCorrect` | `AccountsInv` | `UsersHonest`, `JobsKnown`, `TokensBounded`: who is an administrator, in the table, in a handler's hand or in a token that others are made from, is among those who have been |
| `PersonCorrect` | `PersonInv` | `BaseIsThere`: the kinds an export is to have are there still, so the statement that reads one finds it; it gets none but listed ones |
| `ProfilesCorrect` | `ProfilesInv` | `NotMade`, `Held`: what an edit holds is the row, or the row is among the undone; `OneMaker`, `RoomLeft`: a profile has one maker, and one that has counted and not inserted yet is counted in |
| `BackupCorrect` | `BackupInv` | `ImportHolds`: what is in `.tmp` is a beginning of the archive's file and within the limit; `ArchiveHolds`: what is in the archive is from files there were, block by block, and an export is done only with files it has an entry for or did not find |
| `CollectionsCorrect` | `CollectionsInv` | `KindsAreOpen`, `PoolHolds`: a refresh that has rows open keeps a connection, and those in use are within the pool; `IndexIInv`: two updates of an item both between their statements have crossed, or the later deleted nothing; `TagsIInv`: a tag has one row for each word, which every caller that has an id for it has |
| `ReplicationCorrect` | `ReplicationInv` | `RunsOfSource`, `SentBounded`: copies in the file and in posts under way together are no more than shipments; a frame is sent twice only where the log grew |
| `GuardsCorrect` | `GuardsInv` | `BackoffIInv`: who has a try under way for a name the guard looked for, after its n-th failure, has waited the n-th delay, and no failure is under a host; `IdleIInv`: what the cache, a row and a request know of a session is not after its use, and a session cached without a time has a request that put it there and will be let through (`FilledByOne`); `RateIInv`: what was let through since any moment and what is in the bucket are within the bound |
| `PeopleCorrect`, `MediaCorrect` | `PeopleInv`, `MediaInv` | `PartsBehave`: in a behaviour of `MC_Server` every part behaves as its own specification, so what is proved of the parts holds of the composition |
| `ServerCorrect`, `ServicesCorrect` | every invariant of `MC_Server.cfg` and `MC_Services.cfg`; `OnlyOvertakenLose`, `ImplementsMap` | the same, for all that the two runs check of states and steps at once |

Argument, the same in all: the initial states satisfy the invariant; one lemma or step for
each action shows it kept, with one level for each conjunct the action can
disturb; the temporal step combines them. The three implementations (`ManagerImplementsLifecycle`,
`LockImplementsLease`, `CacheImplementsMap`) are proved step by step: each concrete action is
an abstract one or a stutter.

Some operators the proofs needed facts about are recursive functions or choices:
`Doubled` and `Waits` (guards), `Copies` (replication), lists from which a position is
removed (cache). A function that is recursive up to a bound exists and has its
equations by the least number at which it would not (`LeastNat`, `UpTo`,
`Recursion`), which needs no induction principle; a maximum of a finite set of
numbers likewise (`GreatestNat`).

The assumptions are the weakest the steps use: what stands for no row, id or time is
none; positive bounds; a playback client's key is its own (`PlaybackAssumption`); a path
below another starts with its text (`LibraryAssumption`); removal is not before
staleness (`ClusterAssumption`); no subscription is the closer (`BusAssumption`). Of
values the code does not check but takes from elsewhere:

- chapters start no later than they end, as ffprobe reports them (`WatchAssumption`);
- hours are those time.Parse accepts, ages and ratings are not negative, which
  UpdateRestrictions does not check (`LimitsAssumption`);
- the delay is capped below the time attempts are kept and a bucket is full again before
  it is forgotten: half an hour and an hour, ten minutes (`GuardAssumption`);
- a request is refused or let through within the idle time of half an hour, the guard of
  `GuardTick`. Without it a session that was cached without a time could be let
  through long after its row was written.

Only model-checked: all liveness (`EveryJobEnds`, `CancelledWorkEnds`,
`StoppedKeepAliveEnds`, `AbandonedLockExpires`, `AcceptedScanFinds`,
`NewDirIsHandled`, `WritersReturn`, `GoneIsForgotten`, `PeersMeetAgain`,
`ShutdownReturns`), which needs fairness and ENABLED and is out of the prover's
reach. Everything else a passing run checks is proved.

## 7 What is not modelled

Within the modelled parts: what processFile asks of metadata services; the load
balancer's counter; the cluster's node listeners, which nothing registers; what is in
the hub's channels (that `BroadcastToUser` may find one full is in `SyncPlay`); polling of the HLS handler, which reads the disk and changes nothing; a walk is
one step; the result watchWorker has in hand counts as in the channel; a plugin is
loaded once and a connection connects once; more than one lock key. The window
between the process' exit and the next start is not in `TranscodeJobs`: a job
manager starts empty, and initial directories are arbitrary.

In the parts of the server: text that becomes or comes from XML, SOAP, SQL, M3U or
JSON; cryptography (hashes, codes and signatures are right or not); titles, names
and roles nothing decides on; CSRF tokens, CORS, headers and TLS; the programme guide;
live manifests and audio sets; the handlers that only read. An unlocked map of
DLNA transports may crash the process when two first requests meet. The accounts
table of `api/account.go` and the profile statements of `api/profiles.go` are
called but are not in the repository. The collections users make are rows each
statement passes through; GenerateCollections and enrichment name columns the tables
lack and end with an error. An auto collection is grouped by the media type only.

Parts not modelled, each with its reason in `PROJECT.json`:

- WebRTC signalling: a map under one mutex of peers that share nothing.
- ETag and compression: a buffer per response; the cache they use is `LRUCache`.
- Encoder, probes, subtitles, thumbnails: command lines for ffmpeg and the parsing of
  what it prints, without state between calls.
- SSO, Sonarr/Radarr, SwiftFlow: calls of outside services.
- Names, NFO, M3U: text formats. Secure store: cryptography. Configuration, API
  documentation, audit, metrics: read once or written only.
- Search and smart playlists: one query each. Documented fields and operators that
  smart playlists do not know are left out of the query without a word.
- The rest of the routes and the web interface: clients of what is modelled.
- Migrations, settings and column lists of the database layer.

## 8 Plan

All components that keep state the code acts on are modelled, and all that the runs
check but liveness is proved. What is left:

1. The hub as a refinement of an abstract set of listeners, and the library pipeline
   as one of a bounded queue.
2. The safety facts the liveness properties rest on (that the step each waits for is
   enabled until it is taken), stated as invariants and proved.
3. The rest of `pkg/stream` and `pkg/dlna`: what their read-only handlers answer.
