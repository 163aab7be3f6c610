------------------------------- MODULE LRUCache -------------------------------
(***************************************************************************)
(* pkg/cache and its users in pkg/metadata: the cache is a map of entries  *)
(* and a list of the same entries, most recently used first, of which the  *)
(* last is evicted; an entry expires, and is removed when it is looked up. *)
(* A client looks up its cache, else asks the service and stores what it   *)
(* says.  MusicBrainz is asked once a second: callers wait for their turn  *)
(* with the limiter's mutex held.  TVDb wants a token, which a client gets *)
(* and renews before it even looks into its cache; TMDb wants nothing.     *)
(*                                                                         *)
(* Time is in seconds up to a bound.  What a service says is the second it *)
(* said it in; keys are what is asked.  TVDb's token is read and written   *)
(* without a lock: two callers may both log in.                            *)
(***************************************************************************)
EXTENDS Naturals, Sequences, SequencesExt

CONSTANTS
  Keys,
  MaxSize,     \* maxSize
  Ttl,         \* how long an entry lives, an hour in the clients
  Patience,    \* how long a request takes at most, the client's timeout
  TokenLife,   \* how long a token is used, 23 hours
  Horizon,     \* bound: the last second
  Callers,     \* bound: calls under way at once
  Miss         \* no entry, no call

ASSUME CacheAssumption ==
  /\ MaxSize \in Nat \ {0} /\ Ttl \in Nat /\ Patience \in Nat
  /\ TokenLife \in Nat /\ Horizon \in Nat

VARIABLES
  items,     \* c.items: key -> [value, expiresAt], or Miss
  order,     \* c.order: keys, the front first
  now,       \* the clock
  service,   \* which client this is
  calls,     \* caller -> [key, at, from], or Miss
  turn,      \* lastReq of the limiter: the second of the last request
  token,     \* tokenExpiry, or Miss
  set        \* history: the keys the last step has set

cacheVars == <<items, order, now, service, calls, turn, token, set>>

Entry == [value : 0..Horizon, expiresAt : 0..(Horizon + Ttl)]

\* A call asks for a key; "from" is when it sent what it waits for an answer to.
Calls == [key : Keys, at : {"token", "login", "look", "limit", "sent", "store"}, from : 0..Horizon]

ASSUME MissAssumption == Miss \notin Nat /\ Miss \notin Entry /\ Miss \notin Calls

Cached == {k \in Keys : items[k] # Miss}

CacheInit ==
  /\ items = [k \in Keys |-> Miss] /\ order = <<>>
  /\ now = 0 /\ set = {}
  /\ service \in {"musicbrainz", "tvdb", "tmdb"}
  /\ calls = [c \in Callers |-> Miss]
  /\ turn = Miss /\ token = Miss

-----------------------------------------------------------------------------
\* Where the list has k, and the list without it.
Position(k) == CHOOSE i \in DOMAIN order : order[i] = k
Without(k) == IF k \in ToSet(order) THEN RemoveAt(order, Position(k)) ELSE order

ToFront(k) == <<k>> \o Without(k)
RemoveElement(k) ==
  /\ items' = [items EXCEPT ![k] = Miss]
  /\ order' = Without(k)

Expired(k) == items[k] # Miss /\ now > items[k].expiresAt
Hit(k) == items[k] # Miss /\ ~Expired(k)

\* Get, as it changes the cache.
Get(k) ==
  /\ set' = {}
  /\ IF Expired(k) THEN RemoveElement(k)
     ELSE items' = items /\ order' = IF items[k] = Miss THEN order ELSE ToFront(k)

\* Mutated Set: the entry evicted stays in the map.
SetKeeps(k, v) ==
  LET entry == [value |-> v, expiresAt |-> now + Ttl]
      longer == Len(order) + 1 > MaxSize /\ items[k] = Miss
  IN  /\ set' = {k}
      /\ items' = [items EXCEPT ![k] = entry]
      /\ order' = IF longer THEN Front(ToFront(k)) ELSE ToFront(k)

\* Set: an entry there is is renewed; a new one may be one too many, and
\* evictOldest takes the last.
Set(k, v) ==
  LET entry == [value |-> v, expiresAt |-> now + Ttl]
      full == items[k] = Miss /\ Len(order) + 1 > MaxSize
  IN  /\ set' = {k}
      /\ items' = [j \in Keys |-> IF j = k THEN entry
                                  ELSE IF full /\ j = Last(order) THEN Miss ELSE items[j]]
      /\ order' = IF full THEN Front(ToFront(k)) ELSE ToFront(k)

\* Delete and Clear.
Delete(k) ==
  /\ items[k] # Miss
  /\ RemoveElement(k) /\ set' = {}
  /\ UNCHANGED <<now, service, calls, turn, token>>

Clear ==
  /\ order # <<>>
  /\ items' = [k \in Keys |-> Miss] /\ order' = <<>> /\ set' = {}
  /\ UNCHANGED <<now, service, calls, turn, token>>

-----------------------------------------------------------------------------
\* The second is kept that a request is sent in.
Moves(c, at) ==
  calls' = [calls EXCEPT ![c].at = at, ![c].from = IF at \in {"login", "sent"} THEN now ELSE 0]
Rests == UNCHANGED <<items, order, set>>

\* A search or a lookup begins: TVDb with authenticate.
BeginCall(c, k) ==
  /\ calls[c] = Miss
  /\ calls' = [calls EXCEPT ![c] =
       [key |-> k, at |-> IF service = "tvdb" THEN "token" ELSE "look", from |-> 0]]
  /\ Rests /\ UNCHANGED <<now, service, turn, token>>

\* authenticate: a token that is not to expire is used, else there is a login.
Authenticate(c) ==
  /\ calls[c] # Miss /\ calls[c].at = "token"
  /\ IF token # Miss /\ now < token THEN Moves(c, "look") ELSE Moves(c, "login")
  /\ Rests /\ UNCHANGED <<now, service, turn, token>>

Login(c) ==
  /\ calls[c] # Miss /\ calls[c].at = "login"
  /\ token' = now + TokenLife
  /\ Moves(c, "look")
  /\ Rests /\ UNCHANGED <<now, service, turn>>

\* The cache is looked up; what it has is the answer.
LookUp(c) ==
  /\ calls[c] # Miss /\ calls[c].at = "look"
  /\ Get(calls[c].key)
  /\ IF Hit(calls[c].key) THEN calls' = [calls EXCEPT ![c] = Miss]
     ELSE Moves(c, IF service = "musicbrainz" THEN "limit" ELSE "sent")
  /\ UNCHANGED <<now, service, turn, token>>

\* rateLimit returns when a second has passed since the last time it did.
RateLimit(c) ==
  /\ calls[c] # Miss /\ calls[c].at = "limit"
  /\ turn # Miss => now > turn
  /\ turn' = now
  /\ Moves(c, "sent")
  /\ Rests /\ UNCHANGED <<now, service, token>>

\* The service answers, and what it said is stored.
Answers(c) ==
  /\ calls[c] # Miss /\ calls[c].at = "sent"
  /\ calls' = [calls EXCEPT ![c].at = "store", ![c].from = now]
  /\ Rests /\ UNCHANGED <<now, service, turn, token>>

Store(c) ==
  /\ calls[c] # Miss /\ calls[c].at = "store"
  /\ Set(calls[c].key, calls[c].from)
  /\ calls' = [calls EXCEPT ![c] = Miss]
  /\ UNCHANGED <<now, service, turn, token>>

\* A request fails, is refused, cannot be decoded or finds nothing.
Fails(c) ==
  /\ calls[c] # Miss /\ calls[c].at \in {"login", "sent", "store"}
  /\ calls' = [calls EXCEPT ![c] = Miss]
  /\ Rests /\ UNCHANGED <<now, service, turn, token>>

\* A second passes; a request does not outlive its timeout, which includes the
\* reading of the answer.
Second ==
  /\ now < Horizon
  /\ \A c \in Callers : calls[c] # Miss /\ calls[c].at \in {"login", "sent", "store"} =>
       now - calls[c].from < Patience
  /\ now' = now + 1 /\ set' = {}
  /\ UNCHANGED <<items, order, service, calls, turn, token>>

CacheNext ==
  \/ \E k \in Keys : Delete(k)
  \/ Clear \/ Second
  \/ \E c \in Callers :
       \/ \E k \in Keys : BeginCall(c, k)
       \/ Authenticate(c) \/ Login(c) \/ LookUp(c) \/ RateLimit(c)
       \/ Answers(c) \/ Store(c) \/ Fails(c)

-----------------------------------------------------------------------------
CacheSpec == CacheInit /\ [][CacheNext]_cacheVars

CacheTypeOK ==
  /\ items \in [Keys -> Entry \cup {Miss}]
  /\ now \in 0..Horizon /\ turn \in 0..Horizon \cup {Miss}
  /\ token \in 0..(Horizon + TokenLife) \cup {Miss}
  /\ calls \in [Callers -> Calls \cup {Miss}]
  /\ order \in Seq(Keys) /\ set \subseteq Keys

\* The map and the list have the same entries, each once, and no more than the
\* limit; and what a lookup may find was said by the service no longer ago than
\* an entry lives and a request takes, even when calls overtake each other.
CacheHolds ==
  /\ Cached = ToSet(order) /\ IsInjective(order) /\ Len(order) <= MaxSize
  /\ \A k \in Cached : Hit(k) => now <= items[k].value + Ttl + Patience

\* What holds of the cache.
CacheInv == CacheTypeOK /\ CacheHolds

\* The cache is a map that may lose anything, but makes nothing up.
Shown == [k \in Keys |-> IF Hit(k) THEN items[k].value ELSE Miss]
Map == INSTANCE ExpiringMap WITH
  MapKeys <- Keys, MapValues <- 0..Horizon, Capacity <- MaxSize, Nothing <- Miss,
  map <- Shown, justSet <- set
ImplementsMap == Map!MapSpec
=============================================================================
