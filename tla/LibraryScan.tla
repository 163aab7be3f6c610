----------------------------- MODULE LibraryScan -----------------------------
(***************************************************************************)
(* pkg/library/manager.go over pkg/scanner/scanner.go and the libraries    *)
(* and items tables of pkg/db: admins create libraries and ask for scans;  *)
(* a worker takes scans off a queue, walks the directory and stores an     *)
(* item for each media file; a second pair of goroutines turns the file    *)
(* system's "created" events into items as they happen.                    *)
(*                                                                         *)
(* The disk is a forest of directories with media files in them: other     *)
(* files are dropped by classifyFile and are left out.  A walk is one      *)
(* step: a file or directory that appears during it is either found by it  *)
(* or comes after it.  What an item says beyond its file and its library   *)
(* (name, kind, size, poster) is read back by nothing here.                *)
(***************************************************************************)
EXTENDS Naturals, Sequences

CONSTANTS
  Libs,        \* the ids uuid.New may return for libraries
  Dirs,        \* paths of directories
  Files,       \* paths of media files
  Above,       \* Above[d]: d and the directories it lies in
  DirOf,       \* DirOf[f]: the directory f lies in
  StartsWith,  \* <<d, f>>: the path of f starts with the text of path d
  Internal,    \* directories called transcodes, cache or thumbnails
  Requested,   \* bound: <<l, d>> for the path d admins give library l
  QueueCap,    \* capacity of Manager.scanQueue
  ResultsCap,  \* capacity of Scanner.results, and one that watchWorker holds
  MaxEvents,   \* bound: events that watchLoop has yet to receive
  MaxCopies,   \* bound: items of one file and library are counted up to it
  NoDir, NoLib

ASSUME LibraryAssumption ==
  /\ Above \in [Dirs -> SUBSET Dirs]
  /\ \A d \in Dirs : d \in Above[d]
  /\ DirOf \in [Files -> Dirs]
  /\ StartsWith \subseteq Dirs \X Files
  /\ \A d \in Dirs, f \in Files : d \in Above[DirOf[f]] => <<d, f>> \in StartsWith
  /\ Internal \subseteq Dirs
  /\ Requested \subseteq Libs \X Dirs
  /\ QueueCap \in Nat /\ ResultsCap \in Nat /\ MaxEvents \in Nat
  /\ MaxCopies \in Nat \ {0}
  /\ Dirs \cap Files = {}
  /\ NoDir \notin Dirs /\ NoLib \notin Libs

VARIABLES
  phase,     \* the process: "up", "closing" (after Manager.Close), "exited"
  dirs,      \* directories that exist
  files,     \* media files that exist
  root,      \* libraries table: the path of a library, NoDir when no row
  items,     \* items table: items[f, l], the number of items
  handled,   \* <<f, l>>: processFile has been through, with or without success
  byText,    \* <<f, l>>: watchLoop gave f, which is not in its directory, to l
  known,     \* keys of Scanner.libraries; the values are those of root
  watched,   \* directories of the fsnotify watcher
  events,    \* Create events watchLoop has yet to receive
  results,   \* Scanner.results, and at its head what watchWorker is at
  queue,     \* Manager.scanQueue
  scanning,  \* the library scanWorker is at
  found      \* files of its walk scanWorker has yet to process

diskVars == <<dirs, files>>
tableVars == <<root, items, handled, byText>>
watchVars == <<known, watched, events, results>>
scanVars == <<queue, scanning, found>>
vars == <<phase, diskVars, tableVars, watchVars, scanVars>>

Finds == Files \X Libs

LibraryTypeOK ==
  /\ phase \in {"up", "closing", "exited"}
  /\ dirs \subseteq Dirs
  /\ files \subseteq Files
  /\ root \in [Libs -> Dirs \cup {NoDir}]
  /\ items \in [Finds -> 0..MaxCopies]
  /\ handled \subseteq Finds
  /\ byText \subseteq Finds
  /\ known \subseteq Libs
  /\ watched \subseteq Dirs
  /\ events \in Seq(Dirs \cup Files)
  /\ results \in Seq(Finds)
  /\ queue \in Seq(Libs)
  /\ scanning \in Libs \cup {NoLib}
  /\ found \subseteq Files

Running == phase # "exited"

\* NewManager and NewScanner: nothing is queued, known or watched.
FreshManager ==
  /\ known = {} /\ watched = {}
  /\ events = <<>> /\ results = <<>>
  /\ queue = <<>> /\ scanning = NoLib /\ found = {}

Init ==
  /\ phase = "up"
  /\ dirs = {d \in Dirs : Above[d] = {d}}
  /\ files = {}
  /\ root = [l \in Libs |-> NoDir]
  /\ items = [x \in Finds |-> 0]
  /\ handled = {}
  /\ byText = {}
  /\ FreshManager

-----------------------------------------------------------------------------
\* The disk.  A watched directory reports what is created in it.
Report(x, dir) ==
  IF dir \in watched THEN /\ Len(events) < MaxEvents
                          /\ events' = Append(events, x)
  ELSE UNCHANGED events

FileAppears(f) ==
  /\ DirOf[f] \in dirs
  /\ f \notin files
  /\ files' = files \cup {f}
  /\ Report(f, DirOf[f])
  /\ UNCHANGED <<phase, dirs, tableVars, known, watched, results, scanVars>>

FileGoes(f) ==
  /\ f \in files
  /\ files' = files \ {f}
  /\ UNCHANGED <<phase, dirs, tableVars, watchVars, scanVars>>

DirAppears(d) ==
  /\ d \notin dirs
  /\ \E parent \in dirs :
       /\ Above[d] = Above[parent] \cup {d}
       /\ Report(d, parent)
  /\ dirs' = dirs \cup {d}
  /\ UNCHANGED <<phase, files, tableVars, known, watched, results, scanVars>>

-----------------------------------------------------------------------------
Queued(l) == \E i \in DOMAIN queue : queue[i] = l

\* A send that is given up when the queue is full.
TrySend(l) ==
  queue' = IF Len(queue) < QueueCap THEN Append(queue, l) ELSE queue

Below(path) == {d \in dirs : path \in Above[d]}

\* CreateLibrary: the row, the watches - of all directories below the path, or
\* of the first few when one cannot be watched, or of none - and the initial
\* scan if there is room for it.  Once the queue is closed the send panics.
CreateLibrary(l, path) ==
  /\ Running
  /\ <<l, path>> \in Requested
  /\ root[l] = NoDir
  /\ root' = [root EXCEPT ![l] = path]
  /\ known' = known \cup {l}
  /\ \E reached \in SUBSET Below(path) :
       /\ \A d \in reached : Above[d] \cap Below(path) \subseteq reached
       /\ watched' = watched \cup reached
  /\ IF phase = "up" THEN TrySend(l) ELSE UNCHANGED queue
  /\ UNCHANGED <<phase, diskVars, items, handled, byText, events, results, scanning, found>>

\* Mutated ScanLibrary: any id is queued.
ScanLibraryUnchecked(l) ==
  /\ phase = "up"
  /\ TrySend(l)
  /\ UNCHANGED <<phase, diskVars, tableVars, watchVars, scanning, found>>

\* ScanLibrary, called by handleScanLibrary, and by handleEnrichMetadata for
\* every library: refused with an error when the queue is full.
ScanLibrary(l) ==
  /\ phase = "up"
  /\ root[l] # NoDir
  /\ TrySend(l)
  /\ UNCHANGED <<phase, diskVars, tableVars, watchVars, scanning, found>>

-----------------------------------------------------------------------------
\* The file lies in the directory of the library, or below it.
Inside(f, l) == root[l] \in Above[DirOf[f]]

\* What Scanner.ScanLibrary returns: the media files below the path, but not
\* below a directory with an internal name.
InWalk(path, f) ==
  /\ path \in Above[DirOf[f]]
  /\ \A d \in Above[DirOf[f]] : path \in Above[d] => d \notin Internal

Walk(path) == {f \in files : InWalk(path, f)}

\* CreateItem: an item with an id of its own, whatever items there are.
CountItem(x) == [items EXCEPT ![x] = IF @ < MaxCopies THEN @ + 1 ELSE @]

\* processFile: it stores an item, or the insertion fails and is logged.
ProcessFile(x) ==
  /\ handled' = handled \cup {x}
  /\ items' \in {CountItem(x), items}
  /\ UNCHANGED <<root, byText>>

\* scanWorker takes the next scan and walks its directory ...
ScanBegins ==
  /\ Running
  /\ scanning = NoLib
  /\ queue # <<>>
  /\ scanning' = Head(queue)
  /\ queue' = Tail(queue)
  /\ found' = Walk(root[Head(queue)])
  /\ UNCHANGED <<phase, diskVars, tableVars, watchVars>>

\* ... processes what it found, one after the other ...
ScanProcesses(f) ==
  /\ Running
  /\ f \in found
  /\ ProcessFile(<<f, scanning>>)
  /\ found' = found \ {f}
  /\ UNCHANGED <<phase, diskVars, watchVars, queue, scanning>>

\* Mutated ScanEnds: the worker returns after one scan.
ScanEndsForGood == FALSE

\* ... and goes on to the next scan.
ScanEnds ==
  /\ Running
  /\ scanning # NoLib
  /\ found = {}
  /\ scanning' = NoLib
  /\ UNCHANGED <<phase, diskVars, tableVars, watchVars, queue, found>>

ScanWorker == ScanBegins \/ ScanEnds \/ \E f \in Files : ScanProcesses(f)

-----------------------------------------------------------------------------
\* Mutated Claims: the first library of the map is taken.
ClaimsAnything(l, f) == l \in known

\* The library watchLoop may file f under: any whose path f's starts with.
Claims(l, f) == l \in known /\ <<root[l], f>> \in StartsWith

\* Mutated OfferResult: watchLoop waits for room in the channel.
OfferResultWaiting(x) ==
  /\ Len(results) < ResultsCap
  /\ results' = Append(results, x)

\* Sent to the results channel, or dropped when that is full.
OfferResult(x) ==
  results' = IF Len(results) < ResultsCap THEN Append(results, x) ELSE results

\* watchLoop receives an event ...
Receives ==
  /\ Running
  /\ events # <<>>
  /\ events' = Tail(events)
  /\ UNCHANGED <<phase, diskVars, root, items, handled, known, scanVars>>

\* ... of a directory, and begins to watch it if it can;
WatchesDirectory ==
  /\ Receives
  /\ Head(events) \in Dirs
  /\ watched' \in {watched, watched \cup {Head(events)}}
  /\ UNCHANGED <<byText, results>>

\* ... of a file that is gone by now or that no library claims;
PassesOver ==
  /\ Receives
  /\ Head(events) \in Files
  /\ Head(events) \notin files \/ \A l \in Libs : ~Claims(l, Head(events))
  /\ UNCHANGED <<byText, watched, results>>

\* ... or of a file one of the libraries that claim it gets.
FindsFile(l) ==
  /\ Receives
  /\ Head(events) \in files
  /\ Claims(l, Head(events))
  /\ OfferResult(<<Head(events), l>>)
  /\ byText' = IF Inside(Head(events), l) THEN byText ELSE byText \cup {<<Head(events), l>>}
  /\ UNCHANGED watched

WatchLoop == WatchesDirectory \/ PassesOver \/ \E l \in Libs : FindsFile(l)

\* watchWorker receives a result and processes it.  Until it is done with it
\* the result counts as being in the channel.
WatchProcesses ==
  /\ Running
  /\ results # <<>>
  /\ ProcessFile(Head(results))
  /\ results' = Tail(results)
  /\ UNCHANGED <<phase, diskVars, known, watched, events, scanVars>>

-----------------------------------------------------------------------------
\* Manager.Close: the queue is closed, which scanWorker goes on to empty, and
\* watchLoop is told to end.  A handler that still sends to the queue panics.
Close ==
  /\ phase = "up"
  /\ phase' = "closing"
  /\ UNCHANGED <<diskVars, tableVars, watchVars, scanVars>>

\* The process ends, after Close or by a crash: what is in memory is lost.
Exit ==
  /\ Running
  /\ phase' = "exited"
  /\ known' = {} /\ watched' = {}
  /\ events' = <<>> /\ results' = <<>>
  /\ queue' = <<>> /\ scanning' = NoLib /\ found' = {}
  /\ UNCHANGED <<diskVars, tableVars>>

\* main starts again: NewManager makes a fresh scanner and does not tell it of
\* the libraries in the table.
Restart ==
  /\ phase = "exited"
  /\ phase' = "up"
  /\ UNCHANGED <<diskVars, tableVars, watchVars, scanVars>>

-----------------------------------------------------------------------------
Next ==
  \/ \E f \in Files : FileAppears(f) \/ FileGoes(f)
  \/ \E d \in Dirs : DirAppears(d)
  \/ \E l \in Libs : ScanLibrary(l) \/ \E path \in Dirs : CreateLibrary(l, path)
  \/ ScanWorker
  \/ WatchLoop
  \/ WatchProcesses
  \/ Close
  \/ Exit
  \/ Restart

Spec == Init /\ [][Next]_vars

\* scanWorker and, until Close, watchLoop are goroutines that run: a walk ends,
\* and so does processFile, whose requests have a timeout.  Nothing is assumed
\* of watchWorker - it may be at the metadata service for as long as it likes -
\* of admins, of the disk or of restarts.
Fairness == WF_vars(ScanWorker) /\ WF_vars(phase = "up" /\ WatchLoop)

FairSpec == Spec /\ Fairness

-----------------------------------------------------------------------------
\* x = <<f, l>>: f lies in the directory of l, or the watcher gave it to l since
\* the path of f starts with the text of the path of l.
Belongs(x) == \/ Inside(x[1], x[2])
              \/ x \in byText /\ <<root[x[2]], x[1]>> \in StartsWith

\* scanner.go:185, "Find which library this belongs to".  An item of a library is
\* of a file in the library's directory, but for those the watcher found, of
\* which no more holds than that one path is the text the other starts with: of
\* /m2/film when /m is a library.  Two goroutines file items, by the walk they
\* are at and by looking for a library that claims the file, while libraries are
\* created and the process restarts.
FiledWhereItBelongs == \A x \in Finds : items[x] > 0 => Belongs(x)

\* Why: a scan is of a library that has its row, the scanner knows only such
\* libraries, and what is on its way to the table belongs to its library.
ScansHaveRows ==
  /\ \A i \in DOMAIN queue : root[queue[i]] \in Dirs
  /\ \A l \in known : root[l] \in Dirs
  /\ scanning # NoLib => root[scanning] \in Dirs
  /\ \A f \in found : scanning # NoLib /\ Belongs(<<f, scanning>>)

FindsBelong ==
  /\ \A i \in DOMAIN results : Belongs(results[i])
  /\ \A x \in handled : Belongs(x)

ItemsHandled == \A x \in Finds : items[x] > 0 => x \in handled

\* Channels are within their capacity, and a process that is gone has nothing
\* under way.
ChannelsBounded ==
  /\ Len(queue) <= QueueCap
  /\ Len(results) <= ResultsCap
  /\ phase = "exited" => FreshManager

LibraryInv ==
  /\ LibraryTypeOK
  /\ ScansHaveRows
  /\ FindsBelong
  /\ ItemsHandled
  /\ ChannelsBounded

\* A scan that was accepted is carried out: every file that is there and stays
\* is processed, although the insertion of another one may fail, directories
\* come, and other scans are asked for.
AcceptedScanFinds ==
  \A f \in Files, l \in Libs :
    Queued(l) /\ f \in Walk(root[l]) ~>
      \/ <<f, l>> \in handled
      \/ f \notin files
      \/ phase = "exited"

\* However long watchWorker takes, watchLoop goes on: the event of a new
\* directory is received, so that the directory comes to be watched.
NewDirIsHandled ==
  (\E i \in DOMAIN events : events[i] \in Dirs) ~>
    \/ \A i \in DOMAIN events : events[i] \notin Dirs
    \/ phase # "up"

-----------------------------------------------------------------------------
\* collections.go:53, "Trigger a library scan on all libraries, which
\* re-fetches metadata for unenriched items": a scan of a library leaves the
\* items there are.  The code stores another item for every file.
RescanKeepsItems ==
  [][\A f \in Files : ScanProcesses(f) /\ items[f, scanning] > 0 => items' = items]_vars
=============================================================================
