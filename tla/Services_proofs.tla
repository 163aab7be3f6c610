--------------------------- MODULE Services_proofs ---------------------------
(***************************************************************************)
(* Invariants of the services that share no state with each other: the     *)
(* event bus, for any number of subscriptions, channels and publishers;    *)
(* the cluster registry, for any number of nodes and any timeouts; the     *)
(* plugin host, for any plugins, names and goroutines that call them.      *)
(***************************************************************************)
EXTENDS MC_Services, SequenceTheorems, TLAPS

-----------------------------------------------------------------------------
\* The event bus.

\* What is left of a sequence after n of its elements, and after one more.
LEMMA RestOfRest ==
  ASSUME NEW S, NEW s \in Seq(S), NEW n \in 0..Len(s),
         NEW rest, rest = SubSeq(s, n + 1, Len(s)), rest # <<>>
  PROVE  /\ n + 1 \in 0..Len(s)
         /\ Head(rest) \in S
         /\ Tail(rest) = SubSeq(s, n + 2, Len(s))
<1>1. n < Len(s)
  OBVIOUS
<1>2. Len(rest) = Len(s) - n /\ \A i \in 1..(Len(s) - n) : rest[i] = s[n + i]
  BY <1>1
<1>3. rest \in Seq(S)
  OBVIOUS
<1>4. Len(Tail(rest)) = Len(s) - n - 1 /\ \A i \in 1..(Len(s) - n - 1) : Tail(rest)[i] = s[n + 1 + i]
  BY <1>1, <1>2, <1>3
<1> DEFINE later == SubSeq(s, n + 2, Len(s))
<1>5. Tail(rest) = later
  <2>1. Tail(rest) \in Seq(S) /\ later \in Seq(S)
    BY <1>1, <1>3
  <2>2. Len(later) = Len(s) - n - 1 /\ \A i \in 1..(Len(s) - n - 1) : later[i] = s[n + 1 + i]
    BY <1>1
  <2> HIDE DEF later
  <2>3. QED
    BY <1>1, <1>4, <2>1, <2>2, SeqEqual
<1>6. QED
  BY <1>1, <1>2, <1>3, <1>5

\* A list of subscribers without a channel is a list of channels.
LEMMA RemoveChanType ==
  ASSUME BusTypeOK, NEW t \in Topics, NEW ch \in Channels, RemoveChan(t, ch)
  PROVE  subscribers' \in [Topics -> Seq(Channels)]
<1> DEFINE list == subscribers[t]
<1>1. list \in Seq(Channels) /\ subscribers \in [Topics -> Seq(Channels)]
  BY DEF BusTypeOK
<1>2. ASSUME NEW i \in DOMAIN list
      PROVE  SubSeq(list, 1, i - 1) \o SubSeq(list, i + 1, Len(list)) \in Seq(Channels)
  <2>1. SubSeq(list, 1, i - 1) \in Seq(Channels) /\ SubSeq(list, i + 1, Len(list)) \in Seq(Channels)
    BY <1>1, <1>2
  <2>2. QED
    BY <2>1
<1>3. QED
  BY <1>1, <1>2 DEF RemoveChan, SetList

\* An audience is a sequence of channels.
LEMMA AudienceType ==
  ASSUME BusTypeOK, NEW t \in Types
  PROVE  Audience(t) \in Seq(Channels)
BY DEF BusTypeOK, Audience, Topics

\* What a writer does to readers when it unlocks: none is in the middle of a
\* Publish, and none is when those that waited have come in.
LEMMA WriterLeavesPublishers ==
  ASSUME BusInv, NEW w \in Writers, Locked(w), Unlock(w), UNCHANGED publishVars
  PROVE  /\ calling' \subseteq Writers /\ announced' \in Writers \cup {Nobody}
         /\ at' \in [Publishers -> {"idle", "waiting", "in", "sending"}]
         /\ \A p \in Publishers : at'[p] # "sending" /\ at'[p] # "waiting"
         /\ announced' = Nobody
BY DEF BusInv, BusTypeOK, Locked, Unlock, Readers, publishVars

\* Nobody has subscribed at the start.
LEMMA BusStart == BusInit => BusInv
<1> SUFFICES ASSUME BusInit PROVE BusInv
  OBVIOUS
<1>1. 0 \in 0..Capacity /\ <<>> \in Seq(Channels)
  BY BusAssumption
<1>2. BusTypeOK
  BY <1>1 DEF BusInit, BusTypeOK
<1>3. TodoIsRest /\ ListedAreOpen /\ WaitersAreCalled
  BY DEF BusInit, TodoIsRest, ListedAreOpen, WaitersAreCalled
<1>4. QED
  BY <1>2, <1>3 DEF BusInv

\* Every step of subscribers and publishers keeps the invariant.
LEMMA BusStep ==
  ASSUME BusInv, [BusNext]_busVars
  PROVE  BusInv'
<1> USE DEF BusInv
<1>1. ASSUME NEW s \in Subs, Subscribe(s)
      PROVE  BusInv'
  <2>1. SubOf[s][1] \in Topics /\ SubOf[s][2] \in Channels
    BY BusAssumption DEF Topics
  <2>2. subscribers' \in [Topics -> Seq(Channels)]
    <3>1. Append(subscribers[SubOf[s][1]], SubOf[s][2]) \in Seq(Channels)
      BY <2>1 DEF BusTypeOK
    <3> HIDE DEF BusInv
    <3>2. QED
      BY <1>1, <3>1 DEF Subscribe, SetList, BusInv, BusTypeOK
  <2>3. UNCHANGED <<busClosed, closedChans, buffered, publishVars>> /\ Locked(s) /\ Unlock(s)
    BY <1>1 DEF Subscribe
  <2>4. QED
    BY <1>1, <2>2, <2>3, WriterLeavesPublishers
       DEF Subscribe, BusTypeOK, TodoIsRest, ListedAreOpen, WaitersAreCalled, Writers, publishVars
<1>2. ASSUME NEW s \in Subs, Unsubscribe(s)
      PROVE  BusInv'
  <2>1. SubOf[s][1] \in Topics /\ SubOf[s][2] \in Channels
    BY BusAssumption DEF Topics
  <2>2. subscribers' \in [Topics -> Seq(Channels)]
    BY <1>2, <2>1, RemoveChanType DEF Unsubscribe, BusTypeOK
  <2>3. UNCHANGED <<busClosed, closedChans, buffered, held, publishVars>> /\ Locked(s) /\ Unlock(s)
    BY <1>2 DEF Unsubscribe
  <2>4. QED
    BY <2>2, <2>3, WriterLeavesPublishers
       DEF BusTypeOK, TodoIsRest, ListedAreOpen, WaitersAreCalled, Writers, publishVars
<1>3. ASSUME Close
      PROVE  BusInv'
  <2>1. /\ busClosed'
        /\ UNCHANGED <<buffered, held, publishVars>> /\ Locked(Closer) /\ Unlock(Closer)
    BY <1>3 DEF Close
  <2>2. Listed \subseteq Channels
    BY DEF Listed, Entries, BusTypeOK
  <2>3. subscribers' \in [Topics -> Seq(Channels)] /\ closedChans' \subseteq Channels
    <3>1. CASE UNCHANGED <<subscribers, closedChans>>
      BY <3>1 DEF BusTypeOK
    <3>2. CASE closedChans' = Listed /\ subscribers' = [t \in Topics |-> <<>>]
      BY <2>2, <3>2
    <3>3. CASE /\ \E ch \in Listed, done \in SUBSET Listed : closedChans' = done \cup {ch}
               /\ UNCHANGED subscribers
      BY <2>2, <3>3 DEF BusTypeOK
    <3>4. QED
      BY <1>3, <3>1, <3>2, <3>3 DEF Close
  <2>4. QED
    BY <2>1, <2>3, WriterLeavesPublishers
       DEF BusTypeOK, TodoIsRest, ListedAreOpen, WaitersAreCalled, Writers, publishVars
<1>4. ASSUME NEW w \in Writers, Lock(w)
      PROVE  BusInv'
  BY <1>4 DEF Lock, listVars, publishVars, BusTypeOK, TodoIsRest, Audience, ListedAreOpen, WaitersAreCalled
<1>5. ASSUME NEW s \in Subs, CallSubscribe(s)
      PROVE  BusInv'
  BY <1>5 DEF CallSubscribe, listVars, publishVars, BusTypeOK, TodoIsRest, Audience, ListedAreOpen, WaitersAreCalled, Writers
<1>6. ASSUME CallClose
      PROVE  BusInv'
  BY <1>6 DEF CallClose, listVars, publishVars, BusTypeOK, TodoIsRest, Audience, ListedAreOpen, WaitersAreCalled, Writers
<1>7. ASSUME NEW p \in Publishers, NEW t \in Types, Publish(p, t)
      PROVE  BusInv'
  BY <1>7 DEF Publish, listVars, writerVars, BusTypeOK, TodoIsRest, Audience, ListedAreOpen, WaitersAreCalled
<1>8. ASSUME NEW p \in Publishers, PublishBegins(p)
      PROVE  BusInv'
  <2>1. Audience(topic[p]) \in Seq(Channels)
    BY AudienceType DEF BusTypeOK
  <2>2. Audience(topic[p]) = SubSeq(Audience(topic[p]), 0 + 1, Len(Audience(topic[p])))
    BY <2>1
  <2>3. BusTypeOK'
    BY <1>8, <2>1 DEF PublishBegins, BusTypeOK, listVars, writerVars
  <2>4. TodoIsRest'
    <3>1. \A q \in Publishers : Audience(topic[q])' = Audience(topic[q])
      BY <1>8 DEF PublishBegins, Audience, listVars
    <3>2. todo'[p] = Audience(topic[p]) /\ \A q \in Publishers \ {p} : todo'[q] = todo[q] /\ at'[q] = at[q]
      BY <1>8 DEF PublishBegins, BusTypeOK
    <3>3. 0 \in 0..Len(Audience(topic[p]))
      BY <2>1
    <3> HIDE DEF BusInv
    <3>4. QED
      BY <1>8, <2>2, <3>1, <3>2, <3>3 DEF BusInv, TodoIsRest
  <2>5. QED
    BY <1>8, <2>3, <2>4 DEF PublishBegins, ListedAreOpen, WaitersAreCalled, BusTypeOK, listVars, writerVars
<1>9. ASSUME NEW p \in Publishers, Refused(p) \/ GivesUp(p) \/ PublishEnds(p)
      PROVE  BusInv'
  <2>1. Returns(p) /\ UNCHANGED <<listVars, buffered, writerVars, topic, ctxOver>>
    BY <1>9 DEF Refused, GivesUp, PublishEnds
  <2>2. BusTypeOK'
    BY <2>1 DEF Returns, BusTypeOK, listVars, writerVars
  <2>3. \A q \in Publishers : q # p => at'[q] = at[q] /\ todo'[q] = todo[q]
    BY <2>1 DEF Returns, BusTypeOK
  <2>4. at'[p] = "idle"
    BY <2>1 DEF Returns, BusTypeOK
  <2>5. UNCHANGED <<subscribers, topic, busClosed, closedChans, announced, calling>>
    BY <2>1 DEF listVars, writerVars
  <2>6. TodoIsRest'
    BY <2>3, <2>4, <2>5 DEF TodoIsRest, Audience
  <2>7. QED
    BY <2>2, <2>3, <2>4, <2>5, <2>6 DEF ListedAreOpen, WaitersAreCalled
<1>10. ASSUME NEW p \in Publishers, Sends(p)
       PROVE  BusInv'
  <2> DEFINE all == Audience(topic[p])
  <2>1. all \in Seq(Channels) /\ todo[p] \in Seq(Channels)
    BY AudienceType DEF BusTypeOK
  <2>2. PICK n \in 0..Len(all) : todo[p] = SubSeq(all, n + 1, Len(all))
    BY <1>10 DEF Sends, TodoIsRest
  <2>3. /\ n + 1 \in 0..Len(all)
        /\ Head(todo[p]) \in Channels
        /\ Tail(todo[p]) = SubSeq(all, (n + 1) + 1, Len(all))
    BY <1>10, <2>1, <2>2, RestOfRest DEF Sends
  <2>4. BusTypeOK'
    <3>1. buffered' \in [Channels -> 0..Capacity]
      BY <1>10, <2>3, BusAssumption DEF Sends, BusTypeOK
    <3>2. todo' \in [Publishers -> Seq(Channels)]
      BY <1>10, <2>1 DEF Sends, BusTypeOK
    <3>3. QED
      BY <1>10, <3>1, <3>2 DEF Sends, BusTypeOK, listVars, writerVars
  <2>5. TodoIsRest'
    <3>1. \A q \in Publishers : Audience(topic[q])' = Audience(topic[q]) /\ at'[q] = at[q]
      BY <1>10 DEF Sends, Audience, listVars
    <3>2. todo'[p] = Tail(todo[p]) /\ \A q \in Publishers \ {p} : todo'[q] = todo[q]
      BY <1>10 DEF Sends, BusTypeOK
    <3> HIDE DEF all, BusInv
    <3>3. \E m \in 0..Len(all) : todo'[p] = SubSeq(all, m + 1, Len(all))
      BY <2>3, <3>2
    <3>4. QED
      BY <3>1, <3>2, <3>3 DEF all, BusInv, TodoIsRest
  <2>6. QED
    BY <1>10, <2>4, <2>5 DEF Sends, ListedAreOpen, WaitersAreCalled, listVars, writerVars
<1>11. ASSUME NEW p \in Publishers, ContextEnds(p)
       PROVE  BusInv'
  BY <1>11 DEF ContextEnds, listVars, writerVars, BusTypeOK, TodoIsRest, Audience, ListedAreOpen, WaitersAreCalled
<1>12. ASSUME NEW ch \in Channels, Receive(ch)
       PROVE  BusInv'
  <2>1. buffered' \in [Channels -> 0..Capacity]
    BY <1>12, BusAssumption DEF Receive, BusTypeOK
  <2>2. UNCHANGED <<listVars, writerVars, at, publishVars>>
    BY <1>12 DEF Receive
  <2>3. QED
    BY <2>1, <2>2 DEF listVars, writerVars, publishVars, BusTypeOK, TodoIsRest, Audience, ListedAreOpen, WaitersAreCalled
<1>13. CASE UNCHANGED busVars
  BY <1>13 DEF busVars, listVars, writerVars, publishVars, BusTypeOK, TodoIsRest, Audience, ListedAreOpen, WaitersAreCalled
<1>14. QED
  BY <1>1, <1>2, <1>3, <1>4, <1>5, <1>6, <1>7, <1>8, <1>9, <1>10, <1>11, <1>12, <1>13
     DEF BusNext, Writes, Publishing

\* The invariant of the event bus: what Publish has yet to send to is the rest
\* of its audience, and no channel it sends to is closed.
THEOREM BusCorrect == BusSpec => []BusInv
BY BusStart, BusStep, PTL DEF BusSpec

\* No Publish sends to a channel that is closed or no longer subscribed.
THEOREM SendsToSubscribersOnly == BusSpec => [](TodoIsRest /\ ListedAreOpen)
<1>1. BusInv => TodoIsRest /\ ListedAreOpen
  BY DEF BusInv
<1>2. QED
  BY <1>1, BusCorrect, PTL
-----------------------------------------------------------------------------
\* The cluster registry.

\* A tick does not make an age less.
LEMMA AgesGrow ==
  ASSUME NEW a \in Ages \cup {Unknown}
  PROVE  /\ Older(a) \in Ages \cup {Unknown}
         /\ Older(a) = Unknown <=> a = Unknown
         /\ a # Unknown => Older(a) >= a
BY ClusterAssumption DEF Ages, Older

\* A node that hears from another keeps the invariant.
LEMMA HearsKeepsInv ==
  ASSUME ClusterInv, NEW n \in Nodes, NEW d \in Nodes, n \in running,
         Hears(n, d), running' = running, datagrams' \subseteq Datagrams
  PROVE  ClusterInv'
<1>1. /\ age' \in [Nodes -> [Nodes -> Ages \cup {Unknown}]]
      /\ healthy' \in [Nodes -> SUBSET Nodes]
  BY ClusterAssumption DEF ClusterInv, ClusterTypeOK, Hears, Ages
<1>2. /\ \A m \in Nodes \ {n} : age'[m] = age[m] /\ healthy'[m] = healthy[m]
      /\ \A c \in Nodes \ {d} : age'[n][c] = age[n][c]
      /\ age'[n][d] = 0 /\ healthy'[n] = healthy[n] \cup {d}
  BY DEF ClusterInv, ClusterTypeOK, Hears
<1>3. 0 # Unknown
  BY ClusterAssumption
<1>4. Known(n)' = Known(n) \cup {d} /\ \A m \in Nodes \ {n} : Known(m)' = Known(m)
  BY <1>2, <1>3 DEF Known
<1>5. UnhealthyIsStale'
  <2>1. \A m \in Nodes \ {n} : /\ healthy[m]' \subseteq Known(m)'
                              /\ \A c \in Known(m)' \ healthy[m]' : age[m][c]' > Stale
    BY <1>2, <1>4 DEF ClusterInv, UnhealthyIsStale
  <2>2. healthy[n]' \subseteq Known(n)' /\ \A c \in Known(n)' \ healthy[n]' : age[n][c]' > Stale
    BY <1>2, <1>4 DEF ClusterInv, UnhealthyIsStale, Known
  <2>3. QED
    BY <2>1, <2>2 DEF UnhealthyIsStale
<1>6. StoppedKnowsNobody'
  BY <1>4 DEF ClusterInv, StoppedKnowsNobody
<1>7. QED
  BY <1>1, <1>5, <1>6 DEF ClusterInv, ClusterTypeOK

\* The registries' invariant holds at the start.
LEMMA ClusterStart == ClusterInit => ClusterInv
BY DEF ClusterInit, ClusterInv, ClusterTypeOK, UnhealthyIsStale, StoppedKnowsNobody, Known

\* Every step of the nodes and the network keeps the invariant.
LEMMA ClusterStep ==
  ASSUME ClusterInv, [ClusterNext]_clusterVars
  PROVE  ClusterInv'
<1> USE DEF ClusterInv
<1>1. ASSUME NEW n \in Nodes, StartNode(n)
      PROVE  ClusterInv'
  BY <1>1 DEF StartNode, ClusterTypeOK, UnhealthyIsStale, StoppedKnowsNobody, Known
<1>2. ASSUME NEW n \in Nodes, StopNode(n)
      PROVE  ClusterInv'
  <2>1. ClusterTypeOK'
    BY <1>2 DEF StopNode, ClusterTypeOK
  <2>2. /\ \A m \in Nodes \ {n} : age'[m] = age[m] /\ healthy'[m] = healthy[m]
        /\ healthy'[n] = {} /\ \A d \in Nodes : age'[n][d] = Unknown
    BY <1>2 DEF StopNode, ClusterTypeOK
  <2>3. Known(n)' = {} /\ \A m \in Nodes \ {n} : Known(m)' = Known(m)
    BY <2>2 DEF Known
  <2>4. UnhealthyIsStale'
    BY <2>2, <2>3 DEF UnhealthyIsStale, Known
  <2>5. StoppedKnowsNobody'
    BY <1>2, <2>3 DEF StopNode, StoppedKnowsNobody
  <2>6. QED
    BY <2>1, <2>4, <2>5
<1>3. ASSUME NEW n \in Nodes, BroadcastPing(n)
      PROVE  ClusterInv'
  BY <1>3 DEF BroadcastPing, Datagrams, ClusterTypeOK, UnhealthyIsStale, StoppedKnowsNobody, Known
<1>4. ASSUME NEW n \in Nodes, Prune(n)
      PROVE  ClusterInv'
  <2>1. ClusterTypeOK'
    BY <1>4 DEF Prune, ClusterTypeOK, Known
  <2>2. /\ \A m \in Nodes \ {n} : age'[m] = age[m] /\ healthy'[m] = healthy[m]
        /\ healthy'[n] = {d \in healthy[n] \cap Known(n) : age[n][d] <= Stale}
        /\ \A d \in Nodes : age'[n][d] =
             IF d \in Known(n) /\ age[n][d] > Removal THEN Unknown ELSE age[n][d]
    BY <1>4 DEF Prune, ClusterTypeOK
  <2>3. \A d \in Known(n) : age[n][d] \in Nat
    BY ClusterAssumption DEF ClusterTypeOK, Known, Ages
  <2>4. UnhealthyIsStale'
    <3>1. ASSUME NEW m \in Nodes, m # n
          PROVE  healthy[m]' \subseteq Known(m)' /\ \A d \in Known(m)' \ healthy[m]' : age[m][d]' > Stale
      BY <2>2, <3>1 DEF UnhealthyIsStale, Known
    <3>2. healthy[n]' \subseteq Known(n)' /\ \A d \in Known(n)' \ healthy[n]' : age[n][d]' > Stale
      BY <2>2, <2>3, ClusterAssumption DEF UnhealthyIsStale, Known
    <3>3. QED
      BY <3>1, <3>2 DEF UnhealthyIsStale
  <2>5. StoppedKnowsNobody'
    BY <1>4, <2>2 DEF Prune, StoppedKnowsNobody, Known
  <2>6. QED
    BY <2>1, <2>4, <2>5
<1>5. ASSUME NEW n \in Nodes, NEW d \in Nodes, Join(d, n)
      PROVE  ClusterInv'
  BY <1>5, HearsKeepsInv DEF Join, ClusterTypeOK
<1>6. ASSUME NEW n \in Nodes, NEW d \in Nodes, NEW kind \in {"ping", "pong"},
             NEW kept \in BOOLEAN, HandleGossip(n, d, kind, kept)
      PROVE  ClusterInv'
  <2>1. n \in running /\ UNCHANGED running /\ datagrams' \subseteq Datagrams
    BY <1>6 DEF HandleGossip, Datagrams, ClusterTypeOK
  <2>2. CASE d = n
    BY <1>6, <2>1, <2>2 DEF HandleGossip, ClusterTypeOK, UnhealthyIsStale, StoppedKnowsNobody, Known
  <2>3. CASE d # n
    BY <1>6, <2>1, <2>3, HearsKeepsInv DEF HandleGossip
  <2>4. QED
    BY <2>2, <2>3
<1>7. ASSUME NEW datagram \in Datagrams, Loses(datagram)
      PROVE  ClusterInv'
  BY <1>7 DEF Loses, ClusterTypeOK, UnhealthyIsStale, StoppedKnowsNobody, Known
<1>8. ASSUME TimePasses
      PROVE  ClusterInv'
  <2>1. \A n, d \in Nodes : age[n][d] \in Ages \cup {Unknown} /\ age'[n][d] = Older(age[n][d])
    BY <1>8 DEF TimePasses, ClusterTypeOK
  <2>2. UNCHANGED <<running, healthy, datagrams>>
    BY <1>8 DEF TimePasses
  <2>3. ClusterTypeOK'
    BY <1>8, <2>1, <2>2, AgesGrow DEF TimePasses, ClusterTypeOK
  <2>4. \A n \in Nodes : Known(n)' = Known(n)
    BY <2>1, AgesGrow DEF Known
  <2>5. UnhealthyIsStale'
    <3>1. ASSUME NEW n \in Nodes, NEW d \in Known(n) \ healthy[n]
          PROVE  age'[n][d] > Stale
      <4>1. age[n][d] > Stale /\ age[n][d] \in Nat /\ d \in Nodes /\ age[n][d] # Unknown
        BY <2>1, ClusterAssumption DEF UnhealthyIsStale, Known, Ages
      <4>2. age'[n][d] >= age[n][d] /\ age'[n][d] \in Nat
        BY <2>1, <4>1, AgesGrow, ClusterAssumption DEF Ages
      <4>3. QED
        BY <4>1, <4>2, ClusterAssumption
    <3>2. QED
      BY <2>2, <2>4, <3>1 DEF UnhealthyIsStale
  <2>6. StoppedKnowsNobody'
    BY <2>2, <2>4 DEF StoppedKnowsNobody
  <2>7. QED
    BY <2>3, <2>5, <2>6
<1>9. CASE UNCHANGED clusterVars
  BY <1>9 DEF clusterVars, ClusterTypeOK, UnhealthyIsStale, StoppedKnowsNobody, Known
<1>10. QED
  BY <1>1, <1>2, <1>3, <1>4, <1>5, <1>6, <1>7, <1>8, <1>9 DEF ClusterNext

\* The invariant of the cluster's registries, for any number of nodes.
THEOREM ClusterCorrect == ClusterSpec => []ClusterInv
BY ClusterStart, ClusterStep, PTL DEF ClusterSpec

\* A node heard from recently is never listed as unhealthy, whatever the
\* network does and however the listener, handleJoin and the ticker interleave.
THEOREM RecentlyHeardIsHealthy == ClusterSpec => []UnhealthyIsStale
<1>1. ClusterInv => UnhealthyIsStale
  BY DEF ClusterInv
<1>2. QED
  BY <1>1, ClusterCorrect, PTL

-----------------------------------------------------------------------------
\* The plugin host.

\* Nothing is loaded at the start.
LEMMA PluginStart == PluginInit => PluginInv
<1> SUFFICES ASSUME PluginInit PROVE PluginInv
  OBVIOUS
<1>1. PluginTypeOK
  BY DEF PluginInit, PluginTypeOK, LoadStages, AtPlugin
<1>2. ProcessesOwned /\ LoadedAreRegistered /\ VisitsAreCurrent
  BY PluginAssumption DEF PluginInit, ProcessesOwned, LoadedAreRegistered, VisitsAreCurrent, Externals, AtPlugin
<1>3. QED
  BY <1>1, <1>2 DEF PluginInv

\* While plugins are loaded only Register and Unregister touch the registry,
\* and they wait until nobody goes through it.
LEMMA LoadingKeepsInv ==
  ASSUME PluginInv, NEW p \in Plugs, Loading(p)
  PROVE  PluginInv'
<1> USE PluginAssumption DEF PluginInv, walkVars, shutdownVars, LoadTo, Externals, AtPlugin
<1>1. CASE StartProcess(p)
  <2>1. PluginTypeOK'
    BY <1>1 DEF StartProcess, PluginTypeOK, LoadStages
  <2>2. ProcessesOwned' /\ LoadedAreRegistered' /\ VisitsAreCurrent'
    BY <1>1 DEF StartProcess, PluginTypeOK, ProcessesOwned, LoadedAreRegistered, VisitsAreCurrent, Registered
  <2>3. QED
    BY <2>1, <2>2
<1>2. CASE Handshake(p)
  <2>1. PluginTypeOK'
    BY <1>2 DEF Handshake, PluginTypeOK, LoadStages
  <2>2. ProcessesOwned' /\ LoadedAreRegistered' /\ VisitsAreCurrent'
    BY <1>2 DEF Handshake, PluginTypeOK, ProcessesOwned, LoadedAreRegistered, VisitsAreCurrent, Registered
  <2>3. QED
    BY <2>1, <2>2
<1>3. CASE Register(p)
  <2>1. PluginTypeOK'
    BY <1>3 DEF Register, PluginTypeOK, LoadStages
  <2>2. \A q \in Plugs : Registered(q) => Registered(q)'
    BY <1>3 DEF Register, PluginTypeOK, Registered
  <2>3. \A q \in Plugs \ {p} : load'[q] = load[q]
    BY <1>3 DEF Register, PluginTypeOK
  <2>4. /\ load[p] \in {"new", "started"}
        /\ \/ load'[p] = "registered" /\ Registered(p)'
           \/ load'[p] = "refused" /\ UNCHANGED plugins
           \/ load'[p] = "failed" /\ UNCHANGED plugins /\ p \in Objects
    BY <1>3 DEF Register, PluginTypeOK, Registered
  <2>5. UNCHANGED <<processes, externals, visit, left, visited>> /\ NoReader
    BY <1>3 DEF Register
  <2>6. ProcessesOwned'
    BY <2>2, <2>3, <2>4, <2>5 DEF ProcessesOwned, PluginTypeOK
  <2>7. LoadedAreRegistered'
    <3>1. \A n \in Names : plugins'[n] = plugins[n] \/ (plugins'[n] = p /\ NameOf[p] = n)
      BY <1>3 DEF Register, PluginTypeOK
    <3>2. \A n \in Names : externals[n] # NoPlug => externals[n] \in Plugs
      BY DEF PluginTypeOK
    <3>3. QED
      BY <2>2, <2>3, <2>4, <2>5, <3>1, <3>2 DEF LoadedAreRegistered
  <2>8. VisitsAreCurrent'
    BY <2>5 DEF VisitsAreCurrent, NoReader
  <2>9. QED
    BY <2>1, <2>6, <2>7, <2>8
<1>4. CASE ShutdownRefused(p)
  <2>1. PluginTypeOK'
    BY <1>4 DEF ShutdownRefused, PluginTypeOK, LoadStages
  <2>2. ProcessesOwned' /\ LoadedAreRegistered' /\ VisitsAreCurrent'
    BY <1>4 DEF ShutdownRefused, PluginTypeOK, ProcessesOwned, LoadedAreRegistered, VisitsAreCurrent, Registered
  <2>3. QED
    BY <2>1, <2>2
<1>5. CASE Manage(p)
  <2>1. PluginTypeOK'
    BY <1>5 DEF Manage, PluginTypeOK, LoadStages
  <2>2. Registered(p)
    BY <1>5 DEF Manage, LoadedAreRegistered
  <2>3. ProcessesOwned' /\ LoadedAreRegistered' /\ VisitsAreCurrent'
    BY <1>5, <2>2 DEF Manage, PluginTypeOK, ProcessesOwned, LoadedAreRegistered, VisitsAreCurrent, Registered
  <2>4. QED
    BY <2>1, <2>3
<1>6. CASE InitializeObject(p)
  <2>1. PluginTypeOK'
    BY <1>6 DEF InitializeObject, PluginTypeOK, LoadStages
  <2>2. ProcessesOwned' /\ LoadedAreRegistered' /\ VisitsAreCurrent'
    BY <1>6 DEF InitializeObject, PluginTypeOK, ProcessesOwned, LoadedAreRegistered, VisitsAreCurrent, Registered
  <2>3. QED
    BY <2>1, <2>2
<1>7. CASE Unregister(p)
  <2>1. PluginTypeOK'
    BY <1>7 DEF Unregister, PluginTypeOK, LoadStages
  <2>2. p \in Objects /\ Registered(p) /\ load'[p] = "failed"
    BY <1>7 DEF Unregister, PluginTypeOK, LoadedAreRegistered
  <2>3. \A q \in Plugs \ {p} : load'[q] = load[q] /\ (Registered(q) => Registered(q)')
    BY <1>7, <2>2 DEF Unregister, PluginTypeOK, Registered
  <2>4. UNCHANGED <<processes, externals, visit, left, visited>> /\ NoReader
    BY <1>7 DEF Unregister
  <2>5. ProcessesOwned'
    BY <2>2, <2>3, <2>4 DEF ProcessesOwned, PluginTypeOK
  <2>6. LoadedAreRegistered'
    <3>1. \A n \in Names : plugins'[n] = plugins[n] \/ plugins'[n] = NoPlug
      BY <1>7 DEF Unregister, PluginTypeOK
    <3>2. \A n \in Names : externals[n] # NoPlug => externals[n] \in Plugs \ {p}
      BY <2>2 DEF PluginTypeOK
    <3>3. QED
      BY <2>2, <2>3, <2>4, <3>1, <3>2 DEF LoadedAreRegistered
  <2>7. VisitsAreCurrent'
    BY <2>4 DEF VisitsAreCurrent, NoReader
  <2>8. QED
    BY <2>1, <2>5, <2>6, <2>7
<1>8. QED
  BY <1>1, <1>2, <1>3, <1>4, <1>5, <1>6, <1>7 DEF Loading

\* A goroutine that goes through the plugins starts and stops processes of
\* registered plugins only.
LEMMA VisitingKeepsInv ==
  ASSUME PluginInv, NEW v \in Visitors, Visiting(v)
  PROVE  PluginInv'
<1> USE PluginAssumption DEF PluginInv, shutdownVars, Externals, AtPlugin
<1>1. UNCHANGED <<plugins, load, externals, stopping, toStop>>
  BY DEF Visiting, BeginVisit, VisitNext, CallReturns, SendEvent, EventWritten, EventEnds, StartAgain, HandshakeAgain, EndVisit
<1>2. LoadedAreRegistered' /\ \A p \in Plugs : Registered(p)' = Registered(p)
  BY <1>1 DEF LoadedAreRegistered, Registered
<1>3. PluginTypeOK' /\ VisitsAreCurrent' /\ ProcessesOwned'
  <2>1. ASSUME NEW kind \in {"init", "event"}, BeginVisit(v, kind)
        PROVE  PluginTypeOK' /\ VisitsAreCurrent' /\ ProcessesOwned'
    BY <1>1, <1>2, <2>1 DEF BeginVisit, PluginTypeOK, VisitsAreCurrent, ProcessesOwned
  <2>2. ASSUME NEW p \in Plugs, VisitNext(v, p)
        PROVE  PluginTypeOK' /\ VisitsAreCurrent' /\ ProcessesOwned'
    BY <1>1, <1>2, <2>2 DEF VisitNext, PluginTypeOK, VisitsAreCurrent, ProcessesOwned
  <2>3. CASE CallReturns(v) \/ EventEnds(v)
    BY <1>1, <1>2, <2>3 DEF CallReturns, EventEnds, WalksOn, PluginTypeOK, VisitsAreCurrent, ProcessesOwned
  <2>4. CASE SendEvent(v) \/ EventWritten(v)
    BY <1>1, <1>2, <2>4 DEF SendEvent, EventWritten, PluginTypeOK, VisitsAreCurrent, ProcessesOwned
  <2>5. CASE StartAgain(v)
    BY <1>1, <1>2, <2>5 DEF StartAgain, PluginTypeOK, VisitsAreCurrent, ProcessesOwned
  <2>6. CASE HandshakeAgain(v)
    BY <1>1, <1>2, <2>6 DEF HandshakeAgain, WalksOn, PluginTypeOK, VisitsAreCurrent, ProcessesOwned
  <2>7. CASE EndVisit(v)
    BY <1>1, <1>2, <2>7 DEF EndVisit, PluginTypeOK, VisitsAreCurrent, ProcessesOwned
  <2>8. QED
    BY <2>1, <2>2, <2>3, <2>4, <2>5, <2>6, <2>7 DEF Visiting
<1>4. QED
  BY <1>2, <1>3

\* Every step of the host and of its callers keeps the invariant.
LEMMA PluginStep ==
  ASSUME PluginInv, [PluginNext]_pluginVars
  PROVE  PluginInv'
<1> USE DEF PluginInv, walkVars, Externals, AtPlugin
<1>1. ASSUME NEW p \in Plugs, Loading(p) PROVE PluginInv'
  BY <1>1, LoadingKeepsInv
<1>2. ASSUME NEW v \in Visitors, Visiting(v) PROVE PluginInv'
  BY <1>2, VisitingKeepsInv
<1>3. ASSUME NEW p \in Plugs, Shutdown(p) PROVE PluginInv'
  BY <1>3 DEF Shutdown, PluginTypeOK, ProcessesOwned, LoadedAreRegistered, VisitsAreCurrent, Registered
<1>4. CASE BeginShutdown
  BY <1>4 DEF BeginShutdown, PluginTypeOK, ProcessesOwned, LoadedAreRegistered, VisitsAreCurrent, Registered
<1>5. CASE EndShutdown
  <2>1. PluginTypeOK'
    BY <1>5 DEF EndShutdown, PluginTypeOK
  <2>2. ProcessesOwned' /\ LoadedAreRegistered' /\ VisitsAreCurrent'
    BY <1>5 DEF EndShutdown, PluginTypeOK, ProcessesOwned, LoadedAreRegistered, VisitsAreCurrent, Registered
  <2>3. QED
    BY <2>1, <2>2
<1>6. CASE UNCHANGED pluginVars
  BY <1>6 DEF pluginVars, shutdownVars, PluginTypeOK, ProcessesOwned, LoadedAreRegistered, VisitsAreCurrent, Registered
<1>7. QED
  BY <1>1, <1>2, <1>3, <1>4, <1>5, <1>6 DEF PluginNext

\* The invariant of the plugin host, for any plugins and names, whatever fails.
THEOREM PluginCorrect == PluginSpec => []PluginInv
BY PluginStart, PluginStep, PTL DEF PluginSpec

\* No process of an external plugin is left without an owner, whatever fails
\* while it is loaded, initialised anew, called or shut down.
THEOREM ProcessesAreOwned == PluginSpec => []ProcessesOwned
<1>1. PluginInv => ProcessesOwned
  BY DEF PluginInv
<1>2. QED
  BY <1>1, PluginCorrect, PTL

-----------------------------------------------------------------------------
\* In the composition of MC_Services one of the three works and the others rest:
\* each keeps its invariant.
THEOREM ServicesCorrect == Spec => [](BusInv /\ ClusterInv /\ PluginInv)
<1> DEFINE allVars == <<service, busVars, clusterVars, pluginVars>>
<1>1. Init => BusInit /\ ClusterInit /\ PluginInit
  BY DEF Init
<1>2. [Next]_allVars => [BusNext]_busVars /\ [ClusterNext]_clusterVars /\ [PluginNext]_pluginVars
  BY DEF Next
<1> QED
  BY <1>1, <1>2, BusCorrect, ClusterCorrect, PluginCorrect, PTL
     DEF Spec, BusSpec, ClusterSpec, PluginSpec
=============================================================================
