------------------------------- MODULE EventBus -------------------------------
(***************************************************************************)
(* pkg/plugin/eventbus.go: publishers send an event to the channels that   *)
(* are subscribed to its type and to those subscribed to everything, one   *)
(* blocking send after the other with the lock held for reading;           *)
(* subscriptions, their undoing and Close take it for writing.             *)
(*                                                                         *)
(* The lock is Go's RWMutex: a writer that waits keeps new readers out,    *)
(* and those it kept out are let in when it unlocks.  What an event says   *)
(* is left out: a channel is the number of events it holds.                *)
(***************************************************************************)
EXTENDS Naturals, Sequences

CONSTANTS
  Types,       \* event types; "" is no type of an event
  Wildcard,    \* "", the type SubscribeAll subscribes to
  Channels,    \* channels subscribers made
  Capacity,    \* their buffer, and the receiver that may be waiting
  Subs,        \* bound: calls of Subscribe
  SubOf,       \* SubOf[s]: <<type, channel>> of the call
  Publishers,  \* goroutines that publish
  Closer,      \* a goroutine that closes the bus
  Nobody       \* no writer

ASSUME BusAssumption ==
  /\ Wildcard \notin Types
  /\ SubOf \in [Subs -> (Types \cup {Wildcard}) \X Channels]
  /\ Capacity \in Nat \ {0}
  /\ Closer \notin Subs
  /\ Nobody \notin Subs \cup {Closer}

VARIABLES
  subscribers,  \* EventBus.subscribers, and EventBus.wildcard at Wildcard
  busClosed,    \* EventBus.closed
  closedChans,  \* channels that are closed
  buffered,     \* buffered[ch]: events in the channel
  calling,      \* calls under way: of s in Subs, its Subscribe or its undoing
  held,         \* the s in Subs whose Subscribe has returned
  announced,    \* the writer that has or waits for the lock
  at,           \* at[p]: "idle", "waiting" for the lock, "in", "sending"
  topic,        \* topic[p]: the type of its event
  todo,         \* todo[p]: the channels it has yet to send to
  ctxOver       \* ctxOver[p]: the context of its Publish is done

listVars == <<subscribers, busClosed, closedChans>>
writerVars == <<calling, held, announced>>
publishVars == <<topic, todo, ctxOver>>
busVars == <<listVars, buffered, writerVars, at, publishVars>>

Topics == Types \cup {Wildcard}
Writers == Subs \cup {Closer}

BusTypeOK ==
  /\ subscribers \in [Topics -> Seq(Channels)]
  /\ busClosed \in BOOLEAN
  /\ closedChans \subseteq Channels
  /\ buffered \in [Channels -> 0..Capacity]
  /\ calling \subseteq Writers
  /\ held \subseteq Subs
  /\ announced \in Writers \cup {Nobody}
  /\ at \in [Publishers -> {"idle", "waiting", "in", "sending"}]
  /\ topic \in [Publishers -> Types]
  /\ todo \in [Publishers -> Seq(Channels)]
  /\ ctxOver \in [Publishers -> BOOLEAN]

BusInit ==
  /\ subscribers = [t \in Topics |-> <<>>]
  /\ busClosed = FALSE
  /\ closedChans = {}
  /\ buffered = [ch \in Channels |-> 0]
  /\ calling = {} /\ held = {} /\ announced = Nobody
  /\ at = [p \in Publishers |-> "idle"]
  /\ topic \in [Publishers -> Types]
  /\ todo = [p \in Publishers |-> <<>>]
  /\ ctxOver = [p \in Publishers |-> FALSE]

-----------------------------------------------------------------------------
\* mu.Lock(), first among writers, then against readers.
Readers == {p \in Publishers : at[p] \in {"in", "sending"}}

Lock(w) ==
  /\ w \in calling
  /\ announced = Nobody
  /\ announced' = w
  /\ UNCHANGED <<listVars, buffered, calling, held, at, publishVars>>

\* Mutated Locked: readers are not waited for.
LockedAnyway(w) == announced = w

Locked(w) == announced = w /\ Readers = {}

\* mu.Unlock(): the readers that waited come in.
Unlock(w) ==
  /\ announced' = Nobody
  /\ calling' = calling \ {w}
  /\ at' = [p \in Publishers |-> IF at[p] = "waiting" THEN "in" ELSE at[p]]

-----------------------------------------------------------------------------
\* Subscribe is called, or the function it returned, which may be called again.
CallSubscribe(s) ==
  /\ s \notin calling
  /\ calling' = calling \cup {s}
  /\ UNCHANGED <<listVars, buffered, held, announced, at, publishVars>>

Entries(t) == {subscribers[t][i] : i \in DOMAIN subscribers[t]}

SetList(t, list) == subscribers' = [subscribers EXCEPT ![t] = list]

\* Subscribe: on a closed bus it does nothing.
Subscribe(s) ==
  /\ s \notin held
  /\ Locked(s)
  /\ \/ busClosed /\ UNCHANGED subscribers
     \/ /\ ~busClosed
        /\ SetList(SubOf[s][1], Append(subscribers[SubOf[s][1]], SubOf[s][2]))
  /\ held' = held \cup {s}
  /\ Unlock(s)
  /\ UNCHANGED <<busClosed, closedChans, buffered, publishVars>>

\* removeChan: the first entry that is the channel goes, if there is one.
RemoveChan(t, ch) ==
  \/ /\ ch \notin Entries(t)
     /\ UNCHANGED subscribers
  \/ \E i \in DOMAIN subscribers[t] :
       /\ subscribers[t][i] = ch
       /\ \A j \in 1..(i - 1) : subscribers[t][j] # ch
       /\ SetList(t, SubSeq(subscribers[t], 1, i - 1)
                       \o SubSeq(subscribers[t], i + 1, Len(subscribers[t])))

Unsubscribe(s) ==
  /\ s \in held
  /\ Locked(s)
  /\ \/ busClosed /\ UNCHANGED subscribers
     \/ ~busClosed /\ RemoveChan(SubOf[s][1], SubOf[s][2])
  /\ Unlock(s)
  /\ UNCHANGED <<busClosed, closedChans, buffered, held, publishVars>>

CallClose ==
  /\ Closer \notin calling
  /\ calling' = calling \cup {Closer}
  /\ UNCHANGED <<listVars, buffered, held, announced, at, publishVars>>

Listed == UNION {Entries(t) : t \in Topics}

ListedTwice(ch) ==
  \E t, u \in Topics : \E i \in DOMAIN subscribers[t], j \in DOMAIN subscribers[u] :
    /\ <<t, i>> # <<u, j>>
    /\ subscribers[t][i] = ch /\ subscribers[u][j] = ch

\* Close: every listed channel is closed, and the lists go; or the second
\* close of a channel panics, with the lock given back by the deferred Unlock.
Close ==
  /\ Locked(Closer)
  /\ busClosed' = TRUE
  /\ \/ /\ busClosed
        /\ UNCHANGED <<subscribers, closedChans>>
     \/ /\ ~busClosed
        /\ \A ch \in Channels : ~ListedTwice(ch)
        /\ closedChans' = Listed
        /\ subscribers' = [t \in Topics |-> <<>>]
     \/ /\ ~busClosed
        /\ \E ch \in Listed, done \in SUBSET Listed :
             ListedTwice(ch) /\ closedChans' = done \cup {ch}
        /\ UNCHANGED subscribers
  /\ Unlock(Closer)
  /\ UNCHANGED <<buffered, held, publishVars>>

-----------------------------------------------------------------------------
\* Publish, with a context that may be done already.
Publish(p, t) ==
  /\ at[p] = "idle"
  /\ at' = [at EXCEPT ![p] = IF announced = Nobody THEN "in" ELSE "waiting"]
  /\ topic' = [topic EXCEPT ![p] = t]
  /\ \E over \in BOOLEAN : ctxOver' = [ctxOver EXCEPT ![p] = over]
  /\ UNCHANGED <<listVars, buffered, writerVars, todo>>

Returns(p) ==
  /\ at' = [at EXCEPT ![p] = "idle"]
  /\ todo' = [todo EXCEPT ![p] = <<>>]

\* Whom an event of type t goes to, in order.
Audience(t) == subscribers[t] \o subscribers[Wildcard]

\* An error, when the bus is closed or the context done.
Refused(p) ==
  /\ at[p] = "in"
  /\ busClosed \/ ctxOver[p]
  /\ Returns(p)
  /\ UNCHANGED <<listVars, buffered, writerVars, topic, ctxOver>>

PublishBegins(p) ==
  /\ at[p] = "in"
  /\ ~busClosed /\ ~ctxOver[p]
  /\ at' = [at EXCEPT ![p] = "sending"]
  /\ todo' = [todo EXCEPT ![p] = Audience(topic[p])]
  /\ UNCHANGED <<listVars, buffered, writerVars, topic, ctxOver>>

Sends(p) ==
  /\ at[p] = "sending"
  /\ todo[p] # <<>>
  /\ buffered[Head(todo[p])] < Capacity
  /\ buffered' = [buffered EXCEPT ![Head(todo[p])] = @ + 1]
  /\ todo' = [todo EXCEPT ![p] = Tail(@)]
  /\ UNCHANGED <<listVars, writerVars, at, topic, ctxOver>>

\* Mutated GivesUp: the send does not look at the context.
GivesUpNever(p) == FALSE

GivesUp(p) ==
  /\ at[p] = "sending"
  /\ todo[p] # <<>>
  /\ ctxOver[p]
  /\ Returns(p)
  /\ UNCHANGED <<listVars, buffered, writerVars, topic, ctxOver>>

\* Everybody has the event: nil.
PublishEnds(p) ==
  /\ at[p] = "sending"
  /\ todo[p] = <<>>
  /\ Returns(p)
  /\ UNCHANGED <<listVars, buffered, writerVars, topic, ctxOver>>

ContextEnds(p) ==
  /\ at[p] # "idle"
  /\ ~ctxOver[p]
  /\ ctxOver' = [ctxOver EXCEPT ![p] = TRUE]
  /\ UNCHANGED <<listVars, buffered, writerVars, at, topic, todo>>

\* A subscriber takes an event; what a closed channel holds it gets too.
Receive(ch) ==
  /\ buffered[ch] > 0
  /\ buffered' = [buffered EXCEPT ![ch] = @ - 1]
  /\ UNCHANGED <<listVars, writerVars, at, publishVars>>

-----------------------------------------------------------------------------
Writes(w) ==
  \/ w \in Subs /\ (Subscribe(w) \/ Unsubscribe(w))
  \/ w = Closer /\ Close

Publishing(p) ==
  Refused(p) \/ PublishBegins(p) \/ Sends(p) \/ GivesUp(p) \/ PublishEnds(p)

BusNext ==
  \/ \E s \in Subs : CallSubscribe(s)
  \/ CallClose
  \/ \E w \in Writers : Lock(w) \/ Writes(w)
  \/ \E p \in Publishers : Publishing(p) \/ ContextEnds(p)
  \/ \E p \in Publishers, t \in Types : Publish(p, t)
  \/ \E ch \in Channels : Receive(ch)

BusSpec == BusInit /\ [][BusNext]_busVars

\* Goroutines run.  Nothing is assumed of subscribers, which may never receive,
\* nor of contexts.
BusFairness ==
  /\ \A w \in Writers : WF_busVars(Writes(w))
  /\ \A p \in Publishers : WF_busVars(Publishing(p))

-----------------------------------------------------------------------------
\* A Publish under way has sent to a first part of its audience, as the lists
\* are now, and has the rest to send to: nobody who has unsubscribed is sent
\* to, nobody is left out, and nobody gets the event once more - although
\* removeChan shifts the list a Publish iterates over.
TodoIsRest ==
  \A p \in Publishers : at[p] = "sending" =>
    \E n \in 0..Len(Audience(topic[p])) :
      todo[p] = SubSeq(Audience(topic[p]), n + 1, Len(Audience(topic[p])))

\* No Publish sends to a closed channel, which would panic.
ListedAreOpen ==
  /\ ~busClosed => closedChans = {}
  /\ \A p \in Publishers : at[p] = "sending" => ~busClosed

\* Only a writer keeps a reader waiting, and it is one whose call is under way.
WaitersAreCalled ==
  /\ announced # Nobody => announced \in calling
  /\ \A p \in Publishers : at[p] = "waiting" => announced # Nobody

BusInv == BusTypeOK /\ TodoIsRest /\ ListedAreOpen /\ WaitersAreCalled

\* The Subscribe, undoing or Close that is first in line for the lock returns,
\* although subscribers may not receive any more, if only the contexts of
\* publishers end: no Publish keeps the lock for ever, and new ones do not keep
\* writers out.
WritersReturn ==
  (\A p \in Publishers : []<>(ctxOver[p] \/ at[p] # "sending")) =>
    (announced # Nobody ~> announced = Nobody)
==============================================================================
