-------------------------- MODULE LibraryScan_proofs --------------------------
(***************************************************************************)
(* For any tree of directories, any files and libraries, and channels of   *)
(* any capacity: LibraryInv is an invariant, and an item is of a file      *)
(* whose path starts with the path of its library.                         *)
(***************************************************************************)
EXTENDS LibraryScan, TLAPS

\* The first element and the rest of a sequence that is not empty.
LEMMA HeadAndTail ==
  ASSUME NEW S, NEW s \in Seq(S), s # <<>>
  PROVE  /\ 1 \in DOMAIN s /\ Head(s) = s[1] /\ Head(s) \in S
         /\ Tail(s) \in Seq(S) /\ Len(Tail(s)) = Len(s) - 1
         /\ \A i \in DOMAIN Tail(s) : i + 1 \in DOMAIN s /\ Tail(s)[i] = s[i + 1]
OBVIOUS

\* A sequence with an element at its end.
LEMMA Appended ==
  ASSUME NEW S, NEW s \in Seq(S), NEW x \in S
  PROVE  /\ Append(s, x) \in Seq(S) /\ Len(Append(s, x)) = Len(s) + 1
         /\ \A i \in DOMAIN Append(s, x) :
              \/ i \in DOMAIN s /\ Append(s, x)[i] = s[i]
              \/ Append(s, x)[i] = x
OBVIOUS

\* What a library's path is the beginning of, is a library that has a directory.
LEMMA NoDirBelongs ==
  \A x \in Finds : Belongs(x) => root[x[2]] \in Dirs
<1> SUFFICES ASSUME NEW x \in Finds, Belongs(x) PROVE root[x[2]] \in Dirs
  OBVIOUS
<1>1. DirOf[x[1]] \in Dirs /\ Above[DirOf[x[1]]] \subseteq Dirs
  BY LibraryAssumption DEF Finds
<1>2. CASE Inside(x[1], x[2])
  BY <1>1, <1>2 DEF Inside
<1>3. CASE <<root[x[2]], x[1]>> \in StartsWith
  BY <1>3, LibraryAssumption
<1> QED BY <1>2, <1>3 DEF Belongs

\* What a library's row gives stays: only a library without a row gets one.
LEMMA RowsStay ==
  ASSUME LibraryTypeOK,
         NEW l \in Libs, NEW path \in Dirs, root[l] = NoDir,
         root' = [root EXCEPT ![l] = path], byText' = byText
  PROVE  /\ root' \in [Libs -> Dirs \cup {NoDir}]
         /\ \A k \in Libs : root[k] \in Dirs => root'[k] = root[k]
         /\ root'[l] = path
         /\ \A x \in Finds : Belongs(x) => Belongs(x)'
<1>1. \A k \in Libs : root[k] \in Dirs => root'[k] = root[k]
  BY LibraryAssumption DEF LibraryTypeOK
<1>2. \A x \in Finds : Belongs(x) => root'[x[2]] = root[x[2]]
  BY <1>1, NoDirBelongs DEF Finds
<1>3. QED
  BY <1>1, <1>2 DEF LibraryTypeOK, Belongs, Inside

\* A library that is sent is in the channel, and nothing else changes there.
LEMMA TrySendQueues ==
  ASSUME LibraryTypeOK, Len(queue) <= QueueCap, NEW l \in Libs,
         TrySend(l)
  PROVE  /\ queue' \in Seq(Libs) /\ Len(queue') <= QueueCap
         /\ \A i \in DOMAIN queue' : (i \in DOMAIN queue /\ queue'[i] = queue[i]) \/ queue'[i] = l
<1>1. CASE Len(queue) < QueueCap
  BY <1>1, Appended, LibraryAssumption DEF TrySend, LibraryTypeOK
<1>2. CASE ~(Len(queue) < QueueCap)
  BY <1>2 DEF TrySend, LibraryTypeOK
<1>3. QED
  BY <1>1, <1>2

\* processFile files under what it is given.
LEMMA ProcessFileFiles ==
  ASSUME LibraryInv, NEW x \in Finds, Belongs(x), ProcessFile(x)
  PROVE  /\ items' \in [Finds -> 0..MaxCopies] /\ handled' \subseteq Finds
         /\ \A y \in handled' : Belongs(y)'
         /\ ItemsHandled'
<1>0. items \in [Finds -> 0..MaxCopies] /\ MaxCopies \in Nat
  BY LibraryAssumption DEF LibraryInv, LibraryTypeOK
<1>1. items' \in [Finds -> 0..MaxCopies] /\ \A y \in Finds : y # x => items'[y] = items[y]
  <2>1. CASE items' = items
    BY <1>0, <2>1
  <2>2. CASE items' = CountItem(x)
    <3> DEFINE n == IF items[x] < MaxCopies THEN items[x] + 1 ELSE items[x]
    <3>1. n \in 0..MaxCopies
      BY <1>0
    <3>2. items' = [items EXCEPT ![x] = n]
      BY <2>2 DEF CountItem
    <3> HIDE DEF n
    <3>3. QED
      BY <1>0, <3>1, <3>2
  <2>3. QED
    BY <2>1, <2>2 DEF ProcessFile
<1>2. QED
  BY <1>1 DEF LibraryInv, LibraryTypeOK, FindsBelong, Belongs, Inside, ItemsHandled, ProcessFile

\* The invariant holds at the start.
LEMMA InitialInv == Init => LibraryInv
BY LibraryAssumption
   DEF Init, FreshManager, LibraryInv, LibraryTypeOK, ScansHaveRows, FindsBelong,
       ItemsHandled, ChannelsBounded, Finds

\* The disk changes: nothing but events is touched.
LEMMA DiskStep ==
  ASSUME LibraryInv,
         UNCHANGED <<phase, tableVars, known, watched, results, scanVars>>,
         dirs' \subseteq Dirs, files' \subseteq Files, events' \in Seq(Dirs \cup Files),
         phase = "exited" => events' = <<>>
  PROVE  LibraryInv'
BY DEF LibraryInv, LibraryTypeOK, ScansHaveRows, FindsBelong, Belongs, Inside, ItemsHandled,
       ChannelsBounded, FreshManager, tableVars, scanVars

\* Every step of the pipeline keeps its invariant.
LEMMA LibraryStep ==
  ASSUME LibraryInv, [Next]_vars
  PROVE  LibraryInv'
<1> USE LibraryAssumption
<1>t. LibraryTypeOK /\ ScansHaveRows /\ FindsBelong /\ ItemsHandled /\ ChannelsBounded
  BY DEF LibraryInv
<1>r. \A x \in Dirs \cup Files, dir \in Dirs :
        Report(x, dir) => /\ events' \in Seq(Dirs \cup Files)
                          /\ phase = "exited" => events' = <<>>
  <2> TAKE x \in Dirs \cup Files, dir \in Dirs
  <2> HAVE Report(x, dir)
  <2>1. CASE dir \in watched
    <3>1. events' = Append(events, x) /\ events \in Seq(Dirs \cup Files)
      BY <1>t, <2>1 DEF Report, LibraryTypeOK
    <3>2. phase # "exited"
      BY <1>t, <2>1 DEF ChannelsBounded, FreshManager
    <3>3. QED
      BY <3>1, <3>2, Appended
  <2>2. CASE dir \notin watched
    BY <1>t, <2>2 DEF Report, LibraryTypeOK, ChannelsBounded, FreshManager
  <2>3. QED
    BY <2>1, <2>2
<1>1. ASSUME NEW f \in Files, FileAppears(f)
      PROVE  LibraryInv'
  BY <1>t, <1>1, <1>r, DiskStep DEF FileAppears, LibraryTypeOK
<1>2. ASSUME NEW f \in Files, FileGoes(f)
      PROVE  LibraryInv'
  BY <1>t, <1>2, DiskStep
     DEF FileGoes, LibraryTypeOK, watchVars, ChannelsBounded, FreshManager
<1>3. ASSUME NEW d \in Dirs, DirAppears(d)
      PROVE  LibraryInv'
  BY <1>t, <1>3, <1>r, DiskStep DEF DirAppears, LibraryTypeOK
<1>4. ASSUME NEW l \in Libs, ScanLibrary(l)
      PROVE  LibraryInv'
  <2>1. /\ queue' \in Seq(Libs) /\ Len(queue') <= QueueCap
        /\ \A i \in DOMAIN queue' : (i \in DOMAIN queue /\ queue'[i] = queue[i]) \/ queue'[i] = l
    BY <1>t, <1>4, TrySendQueues DEF ScanLibrary, ChannelsBounded
  <2>2. root[l] \in Dirs
    BY <1>t, <1>4 DEF ScanLibrary, LibraryTypeOK
  <2>3. QED
    BY <1>t, <1>4, <2>1, <2>2
       DEF ScanLibrary, LibraryInv, LibraryTypeOK, ScansHaveRows, FindsBelong, Belongs, Inside,
           ItemsHandled, ChannelsBounded, diskVars, tableVars, watchVars
<1>5. ASSUME NEW l \in Libs, NEW path \in Dirs, CreateLibrary(l, path)
      PROVE  LibraryInv'
  <2>1. /\ queue' \in Seq(Libs) /\ Len(queue') <= QueueCap
        /\ \A i \in DOMAIN queue' : (i \in DOMAIN queue /\ queue'[i] = queue[i]) \/ queue'[i] = l
    BY <1>t, <1>5, TrySendQueues DEF CreateLibrary, ChannelsBounded, LibraryTypeOK
  <2>2. /\ root' \in [Libs -> Dirs \cup {NoDir}]
        /\ \A k \in Libs : root[k] \in Dirs => root'[k] = root[k]
        /\ root'[l] = path
        /\ \A x \in Finds : Belongs(x) => Belongs(x)'
    BY <1>t, <1>5, RowsStay DEF CreateLibrary
  <2>3. watched' \subseteq Dirs
    BY <1>t, <1>5 DEF CreateLibrary, Below, LibraryTypeOK
  <2>4. LibraryTypeOK'
    BY <1>t, <1>5, <2>1, <2>2, <2>3 DEF CreateLibrary, LibraryTypeOK, diskVars
  <2>5. ScansHaveRows'
    <3>1. \A i \in DOMAIN queue' : root'[queue'[i]] \in Dirs
      <4>1. ASSUME NEW i \in DOMAIN queue'
            PROVE  root'[queue'[i]] \in Dirs
        <5>1. CASE i \in DOMAIN queue /\ queue'[i] = queue[i]
          <6>1. queue[i] \in Libs
            BY <1>t, <5>1 DEF LibraryTypeOK
          <6>2. root[queue[i]] \in Dirs
            BY <1>t, <5>1 DEF ScansHaveRows
          <6>3. QED
            BY <2>2, <5>1, <6>1, <6>2
        <5>2. CASE queue'[i] = l
          BY <2>2, <5>2
        <5>3. QED
          BY <2>1, <4>1, <5>1, <5>2
      <4>2. QED
        BY <4>1
    <3>2. \A k \in known' : root'[k] \in Dirs
      BY <1>t, <1>5, <2>2 DEF ScansHaveRows, LibraryTypeOK, CreateLibrary
    <3>3. UNCHANGED <<scanning, found>>
      BY <1>5 DEF CreateLibrary
    <3>4. scanning # NoLib => root'[scanning] \in Dirs
      BY <1>t, <2>2 DEF ScansHaveRows, LibraryTypeOK
    <3>5. \A f \in found : scanning # NoLib /\ Belongs(<<f, scanning>>)'
      BY <1>t, <2>2, <3>3 DEF ScansHaveRows, LibraryTypeOK, Finds
    <3>6. QED
      BY <3>1, <3>2, <3>3, <3>4, <3>5 DEF ScansHaveRows
  <2>6. FindsBelong'
    BY <1>t, <1>5, <2>2 DEF FindsBelong, LibraryTypeOK, CreateLibrary
  <2>7. ItemsHandled' /\ ChannelsBounded'
    BY <1>t, <1>5, <2>1 DEF ItemsHandled, ChannelsBounded, CreateLibrary, Running
  <2>8. QED
    BY <2>4, <2>5, <2>6, <2>7 DEF LibraryInv
<1>6. CASE ScanBegins
  <2>1. /\ Head(queue) \in Libs /\ root[Head(queue)] \in Dirs
        /\ queue' \in Seq(Libs) /\ Len(queue') <= QueueCap
        /\ \A i \in DOMAIN queue' : i + 1 \in DOMAIN queue /\ queue'[i] = queue[i + 1]
    <3>1. queue # <<>> /\ queue \in Seq(Libs) /\ queue' = Tail(queue)
      BY <1>t, <1>6 DEF ScanBegins, LibraryTypeOK
    <3>2. QED
      BY <1>t, <3>1, HeadAndTail DEF ScansHaveRows, ChannelsBounded
  <2>2. found' \subseteq Files /\ \A f \in found' : root[Head(queue)] \in Above[DirOf[f]]
    BY <1>t, <1>6, <2>1 DEF ScanBegins, Walk, InWalk, LibraryTypeOK
  <2>3. QED
    BY <1>t, <1>6, <2>1, <2>2
       DEF ScanBegins, LibraryInv, LibraryTypeOK, ScansHaveRows, FindsBelong, Belongs, Inside,
           ItemsHandled, ChannelsBounded, Running, diskVars, tableVars, watchVars
<1>7. ASSUME NEW f \in Files, ScanProcesses(f)
      PROVE  LibraryInv'
  <2>1. <<f, scanning>> \in Finds /\ Belongs(<<f, scanning>>)
    BY <1>t, <1>7 DEF ScanProcesses, ScansHaveRows, LibraryTypeOK, Finds
  <2>2. ProcessFile(<<f, scanning>>)
    BY <1>7 DEF ScanProcesses
  <2>3. /\ items' \in [Finds -> 0..MaxCopies] /\ handled' \subseteq Finds
        /\ \A y \in handled' : Belongs(y)'
        /\ ItemsHandled'
    BY <2>1, <2>2, ProcessFileFiles
  <2>4. QED
    BY <1>t, <1>7, <2>2, <2>3
       DEF ScanProcesses, ProcessFile, LibraryInv, LibraryTypeOK, ScansHaveRows,
           FindsBelong, Belongs, Inside, ChannelsBounded, Running, diskVars, watchVars
<1>8. CASE ScanEnds
  BY <1>t, <1>8
     DEF ScanEnds, LibraryInv, LibraryTypeOK, ScansHaveRows, FindsBelong, Belongs, Inside,
         ItemsHandled, ChannelsBounded, Running, diskVars, tableVars, watchVars
<1>9. CASE WatchLoop
  <2>1. Receives /\ events' \in Seq(Dirs \cup Files)
    <3>1. Receives
      BY <1>9 DEF WatchLoop, WatchesDirectory, PassesOver, FindsFile
    <3>2. events' = Tail(events) /\ events # <<>> /\ events \in Seq(Dirs \cup Files)
      BY <1>t, <3>1 DEF Receives, LibraryTypeOK
    <3>3. QED
      BY <3>1, <3>2, HeadAndTail
  <2>4. /\ byText \subseteq byText' /\ byText' \subseteq Finds /\ root' = root
        /\ \A x \in Finds : Belongs(x) => Belongs(x)'
    <3>1. byText \subseteq byText' /\ byText' \subseteq Finds /\ root' = root
      BY <1>t, <1>9, <2>1
         DEF WatchLoop, WatchesDirectory, PassesOver, FindsFile, Receives, LibraryTypeOK, Finds
    <3> QED BY <3>1 DEF Belongs, Inside
  <2>2. /\ watched' \subseteq Dirs
        /\ results' \in Seq(Finds) /\ Len(results') <= ResultsCap
        /\ (\A i \in DOMAIN results : Belongs(results[i]))'
    <3>0. \A i \in DOMAIN results : results[i] \in Finds /\ Belongs(results[i])
      BY <1>t DEF LibraryTypeOK, FindsBelong
    <3>k. results' = results => (\A i \in DOMAIN results : Belongs(results[i]))'
      <4>1. SUFFICES ASSUME results' = results, NEW i \in DOMAIN results
                     PROVE  Belongs(results[i])'
        OBVIOUS
      <4>2. PICK y \in Finds : y = results[i] /\ Belongs(y)
        BY <3>0
      <4>3. Belongs(y)'
        BY <2>4, <4>2
      <4>4. QED
        BY <4>1, <4>2, <4>3 DEF Belongs, Inside
    <3>1. CASE WatchesDirectory \/ PassesOver
      BY <1>t, <3>k, <3>1
         DEF WatchesDirectory, PassesOver, LibraryTypeOK, ChannelsBounded
    <3>2. ASSUME NEW l \in Libs, FindsFile(l), Len(results) < ResultsCap
          PROVE  /\ watched' \subseteq Dirs
                 /\ results' \in Seq(Finds) /\ Len(results') <= ResultsCap
                 /\ (\A i \in DOMAIN results : Belongs(results[i]))'
      <4>0. PICK x \in Finds : /\ x = <<Head(events), l>>
                               /\ <<root[x[2]], x[1]>> \in StartsWith
                               /\ Inside(x[1], x[2]) \/ x \in byText'
        <5>1. Head(events) \in Files
          BY <1>t, <3>2 DEF FindsFile, LibraryTypeOK
        <5>2. <<Head(events), l>> \in Finds
          BY <5>1 DEF Finds
        <5>3. /\ <<root[l], Head(events)>> \in StartsWith
              /\ Inside(Head(events), l) \/ <<Head(events), l>> \in byText'
          BY <3>2 DEF FindsFile, Claims
        <5>4. QED
          BY <5>2, <5>3
      <4>1. Belongs(x)'
        BY <2>4, <4>0 DEF Belongs, Inside
      <4>2. results' = Append(results, x) /\ results \in Seq(Finds) /\ watched' \subseteq Dirs
        BY <1>t, <3>2, <4>0 DEF FindsFile, OfferResult, LibraryTypeOK
      <4>3. /\ results' \in Seq(Finds) /\ Len(results') = Len(results) + 1
            /\ \A i \in DOMAIN results' :
                 (i \in DOMAIN results /\ results'[i] = results[i]) \/ results'[i] = x
        BY <4>2, Appended
      <4>4. (\A i \in DOMAIN results : Belongs(results[i]))'
        <5>1. ASSUME NEW i \in DOMAIN results'
              PROVE  \E y \in Finds : results'[i] = y /\ Belongs(y)'
          BY <2>4, <3>0, <4>1, <4>3, <5>1
        <5>2. SUFFICES ASSUME NEW i \in DOMAIN results' PROVE Belongs(results[i])'
          OBVIOUS
        <5>3. PICK y \in Finds : results'[i] = y /\ Belongs(y)'
          BY <5>1
        <5>4. QED
          BY <5>3 DEF Belongs, Inside
      <4>5. QED
        BY <3>2, <4>2, <4>3, <4>4
    <3>3. ASSUME NEW l \in Libs, FindsFile(l), ~(Len(results) < ResultsCap)
          PROVE  /\ watched' \subseteq Dirs
                 /\ results' \in Seq(Finds) /\ Len(results') <= ResultsCap
                 /\ (\A i \in DOMAIN results : Belongs(results[i]))'
      BY <1>t, <3>k, <3>3 DEF FindsFile, OfferResult, LibraryTypeOK, ChannelsBounded
    <3>4. QED
      BY <1>9, <3>1, <3>2, <3>3 DEF WatchLoop
  <2>5. UNCHANGED <<phase, dirs, files, root, items, handled, known, queue, scanning, found>>
    BY <2>1 DEF Receives, diskVars, scanVars
  <2>6. LibraryTypeOK'
    <3>1. byText' \subseteq Finds
      BY <2>4
    <3>2. QED
      BY <1>t, <2>1, <2>2, <2>5, <3>1 DEF LibraryTypeOK
  <2>7. ScansHaveRows'
    <3>1. ASSUME NEW f \in found
          PROVE  scanning # NoLib /\ Belongs(<<f, scanning>>)'
      <4>1. PICK y \in Finds : y = <<f, scanning>> /\ Belongs(y)
        BY <1>t DEF ScansHaveRows, LibraryTypeOK, Finds
      <4>2. Belongs(y)'
        BY <2>4, <4>1
      <4>3. QED
        BY <1>t, <2>5, <4>1, <4>2 DEF ScansHaveRows
    <3>2. QED
      BY <1>t, <2>4, <2>5, <3>1 DEF ScansHaveRows
  <2>8. FindsBelong'
    <3>1. \A x \in handled : Belongs(x)'
      BY <1>t, <2>4 DEF FindsBelong, LibraryTypeOK
    <3>2. QED
      BY <2>2, <2>5, <3>1 DEF FindsBelong
  <2>9. ItemsHandled' /\ ChannelsBounded'
    BY <1>t, <2>1, <2>2, <2>5 DEF ItemsHandled, ChannelsBounded, Receives, Running
  <2>10. QED
    BY <2>6, <2>7, <2>8, <2>9 DEF LibraryInv
<1>10. CASE WatchProcesses
  <2>1. /\ Head(results) \in Finds /\ Belongs(Head(results))
        /\ results' \in Seq(Finds) /\ Len(results') <= ResultsCap
        /\ \A i \in DOMAIN results' : Belongs(results'[i])
    <3>1. results # <<>> /\ results \in Seq(Finds) /\ results' = Tail(results)
      BY <1>t, <1>10 DEF WatchProcesses, LibraryTypeOK
    <3>2. QED
      BY <1>t, <3>1, HeadAndTail DEF FindsBelong, ChannelsBounded
  <2>2. ProcessFile(Head(results))
    BY <1>10 DEF WatchProcesses
  <2>3. /\ items' \in [Finds -> 0..MaxCopies] /\ handled' \subseteq Finds
        /\ \A y \in handled' : Belongs(y)'
        /\ ItemsHandled'
    BY <2>1, <2>2, ProcessFileFiles
  <2>4. UNCHANGED <<phase, diskVars, root, byText, known, watched, events, scanVars>> /\ Running
    BY <1>10 DEF WatchProcesses, ProcessFile
  <2>5. QED
    BY <1>t, <2>1, <2>3, <2>4
       DEF LibraryInv, LibraryTypeOK, ScansHaveRows, FindsBelong, Belongs, Inside,
           ChannelsBounded, Running, diskVars, scanVars
<1>11. CASE Close \/ Restart
  BY <1>t, <1>11
     DEF Close, Restart, LibraryInv, LibraryTypeOK, ScansHaveRows, FindsBelong, Belongs, Inside,
         ItemsHandled, ChannelsBounded, diskVars, tableVars, watchVars, scanVars
<1>12. CASE Exit
  BY <1>t, <1>12
     DEF Exit, LibraryInv, LibraryTypeOK, ScansHaveRows, FindsBelong, Belongs, Inside,
         ItemsHandled, ChannelsBounded, FreshManager, diskVars, tableVars
<1>13. CASE UNCHANGED vars
  BY <1>t, <1>13
     DEF vars, LibraryInv, LibraryTypeOK, ScansHaveRows, FindsBelong, Belongs, Inside,
         ItemsHandled, ChannelsBounded, FreshManager, diskVars, tableVars, watchVars, scanVars
<1>14. QED
  BY <1>1, <1>2, <1>3, <1>4, <1>5, <1>6, <1>7, <1>8, <1>9, <1>10, <1>11, <1>12, <1>13
     DEF Next, ScanWorker

\* LibraryInv holds of every reachable state: channels within their capacity,
\* scans only of libraries with a row, and finds on their way to the library
\* whose path theirs starts with.
THEOREM LibraryCorrect == Spec => []LibraryInv
<1>1. Init => LibraryInv
  BY InitialInv
<1>2. LibraryInv /\ [Next]_vars => LibraryInv'
  BY LibraryStep
<1>3. QED
  BY <1>1, <1>2, PTL DEF Spec

\* Whatever the interleaving of the two workers with admins, the disk and
\* restarts, an item is of a file in its library's directory, but for those the
\* watcher found by the text of the path.
THEOREM ItemsFiledRight == Spec => []FiledWhereItBelongs
<1>1. LibraryInv => FiledWhereItBelongs
  BY DEF LibraryInv, ItemsHandled, FindsBelong, FiledWhereItBelongs
<1>2. QED
  BY <1>1, LibraryCorrect, PTL

\* Where no library's path is the beginning of the path of a file outside it,
\* an item is of a file in its library's directory.
THEOREM ItemsInOwnDirectory ==
  ASSUME StartsWith \subseteq {x \in Dirs \X Files : x[1] \in Above[DirOf[x[2]]]}
  PROVE  Spec => [](\A x \in Finds : items[x] > 0 => Inside(x[1], x[2]))
<1>1. FiledWhereItBelongs => \A x \in Finds : items[x] > 0 => Inside(x[1], x[2])
  BY DEF FiledWhereItBelongs, Belongs, Inside
<1>2. QED
  BY <1>1, ItemsFiledRight, PTL
=============================================================================
