---------------------------- MODULE Server_proofs ---------------------------
(****************************************************************************)
(* Theorems about parts of the server, each as a specification of its own: *)
(* the cache of the metadata clients, backups, collections and the search  *)
(* index, replication; and about all parts as MC_Server composes them.     *)
(****************************************************************************)
EXTENDS MC_Server, Devices_proofs, People_proofs

-----------------------------------------------------------------------------
(* Lists without repetitions.                                              *)

\* What is left when the element at a position is removed.
LEMMA Removal ==
  ASSUME NEW S, NEW s \in Seq(S), IsInjective(s), NEW p \in DOMAIN s
  PROVE  LET t == RemoveAt(s, p)
         IN  /\ t \in Seq(S) /\ Len(t) = Len(s) - 1 /\ IsInjective(t)
             /\ ToSet(t) = ToSet(s) \ {s[p]}
<1> DEFINE t == RemoveAt(s, p)
<1>1. p \in 1..Len(s) /\ Len(s) \in Nat /\ DOMAIN s = 1..Len(s)
  OBVIOUS
<1>2. /\ t \in Seq(S) /\ Len(t) = Len(s) - 1 /\ DOMAIN t = 1..(Len(s) - 1)
      /\ \A i \in 1..(Len(s) - 1) : t[i] = IF i < p THEN s[i] ELSE s[i + 1]
  <2> DEFINE a == SubSeq(s, 1, p - 1)
             b == SubSeq(s, p + 1, Len(s))
  <2>1. /\ a \in Seq(S) /\ Len(a) = p - 1
        /\ \A i \in 1..(p - 1) : a[i] = s[i]
    BY <1>1
  <2>2. /\ b \in Seq(S) /\ Len(b) = Len(s) - p
        /\ \A i \in 1..(Len(s) - p) : b[i] = s[p + i]
    BY <1>1
  <2>3. t = a \o b
    BY DEF RemoveAt
  <2> HIDE DEF a, b, t
  <2>4. t \in Seq(S) /\ Len(t) = Len(s) - 1 /\ DOMAIN t = 1..(Len(s) - 1)
    <3> a \in Seq(S) /\ b \in Seq(S)
      BY <2>1, <2>2
    <3>1. t \in Seq(S) /\ Len(t) = Len(a) + Len(b)
      BY <2>3
    <3>2. Len(t) = Len(s) - 1
      BY <1>1, <2>1, <2>2, <3>1
    <3> QED BY <3>1, <3>2
  <2>5. ASSUME NEW i \in 1..(Len(s) - 1)
        PROVE  t[i] = IF i < p THEN s[i] ELSE s[i + 1]
    <3>1. CASE i < p
      BY <1>1, <2>1, <2>2, <2>3, <3>1
    <3>2. CASE i >= p
      <4>1. t[i] = b[i - (p - 1)] /\ i - (p - 1) \in 1..(Len(s) - p)
        BY <1>1, <2>1, <2>2, <2>3, <3>2
      <4>2. b[i - (p - 1)] = s[p + (i - (p - 1))]
        BY <2>2, <4>1
      <4>3. p + (i - (p - 1)) = i + 1
        BY <1>1
      <4> QED BY <1>1, <3>2, <4>1, <4>2, <4>3
    <3> QED BY <1>1, <3>1, <3>2
  <2> QED BY <2>4, <2>5
<1> HIDE DEF t
<1>3. IsInjective(t)
  <2> SUFFICES ASSUME NEW i \in 1..(Len(s) - 1), NEW j \in 1..(Len(s) - 1), t[i] = t[j]
               PROVE  i = j
    BY <1>2 DEF IsInjective
  <2> DEFINE Place(n) == IF n < p THEN n ELSE n + 1
  <2>1. Place(i) \in DOMAIN s /\ Place(j) \in DOMAIN s
    BY <1>1
  <2>2. t[i] = s[Place(i)] /\ t[j] = s[Place(j)]
    BY <1>2
  <2>3. Place(i) = Place(j)
    BY <2>1, <2>2 DEF IsInjective
  <2> QED BY <1>1, <2>3
<1>4. \A i \in DOMAIN t : t[i] \in ToSet(s) \ {s[p]}
  BY <1>1, <1>2 DEF IsInjective, ToSet
<1>5. ASSUME NEW x \in ToSet(s) \ {s[p]} PROVE x \in ToSet(t)
  <2>1. PICK i \in DOMAIN s : s[i] = x
    BY <1>5 DEF ToSet
  <2>2. i # p
    BY <1>5, <2>1
  <2>3. CASE i < p
    BY <1>1, <1>2, <2>1, <2>3 DEF ToSet
  <2>4. CASE i > p
    <3>1. i - 1 \in 1..(Len(s) - 1) /\ t[i - 1] = s[i]
      BY <1>1, <1>2, <2>1, <2>4
    <3> QED BY <1>2, <2>1, <3>1 DEF ToSet
  <2> QED BY <1>1, <2>1, <2>2, <2>3, <2>4
<1>6. ToSet(t) = ToSet(s) \ {s[p]}
  BY <1>4, <1>5 DEF ToSet
<1> QED BY <1>2, <1>3, <1>6 DEF t

\* A new element before a list.
LEMMA Prepending ==
  ASSUME NEW S, NEW s \in Seq(S), IsInjective(s), NEW k \in S, k \notin ToSet(s)
  PROVE  LET t == <<k>> \o s
         IN  /\ t \in Seq(S) /\ Len(t) = Len(s) + 1 /\ IsInjective(t)
             /\ ToSet(t) = ToSet(s) \cup {k}
             /\ s # <<>> => Last(t) = Last(s)
<1> DEFINE t == <<k>> \o s
<1>1. Len(s) \in Nat /\ DOMAIN s = 1..Len(s)
  OBVIOUS
<1>2. /\ t \in Seq(S) /\ Len(t) = Len(s) + 1 /\ DOMAIN t = 1..(Len(s) + 1)
      /\ t[1] = k /\ \A i \in 2..(Len(s) + 1) : t[i] = s[i - 1]
  BY <1>1
<1> HIDE DEF t
<1>3. IsInjective(t)
  <2> SUFFICES ASSUME NEW i \in DOMAIN t, NEW j \in DOMAIN t, t[i] = t[j]
               PROVE  i = j
    BY DEF IsInjective
  <2>1. \A n \in DOMAIN t : n # 1 => n - 1 \in DOMAIN s /\ t[n] = s[n - 1] /\ t[n] # k
    BY <1>1, <1>2 DEF ToSet
  <2>2. CASE i = 1 \/ j = 1
    BY <1>2, <2>1, <2>2
  <2>3. CASE i # 1 /\ j # 1
    <3>1. i - 1 = j - 1
      BY <2>1, <2>3 DEF IsInjective
    <3> QED BY <1>2, <3>1
  <2> QED BY <2>2, <2>3
<1>4. \A i \in DOMAIN t : t[i] \in ToSet(s) \cup {k}
  BY <1>1, <1>2 DEF ToSet
<1>5. ASSUME NEW x \in ToSet(s) PROVE x \in ToSet(t)
  <2>1. PICK i \in DOMAIN s : s[i] = x
    BY <1>5 DEF ToSet
  <2>2. i + 1 \in DOMAIN t /\ t[i + 1] = x
    BY <1>1, <1>2, <2>1
  <2> QED BY <2>2 DEF ToSet
<1>6. k \in ToSet(t)
  BY <1>1, <1>2 DEF ToSet
<1>7. ToSet(t) = ToSet(s) \cup {k}
  BY <1>4, <1>5, <1>6 DEF ToSet
<1>8. s # <<>> => Last(t) = Last(s)
  BY <1>1, <1>2 DEF Last
<1> QED BY <1>2, <1>3, <1>7, <1>8 DEF t

\* A list without its last element.
LEMMA Shortening ==
  ASSUME NEW S, NEW s \in Seq(S), s # <<>>, IsInjective(s)
  PROVE  LET t == Front(s)
         IN  /\ t \in Seq(S) /\ Len(t) = Len(s) - 1 /\ IsInjective(t)
             /\ ToSet(t) = ToSet(s) \ {Last(s)}
<1> DEFINE t == Front(s)
<1>1. Len(s) \in Nat \ {0} /\ DOMAIN s = 1..Len(s)
  OBVIOUS
<1>2. /\ t \in Seq(S) /\ Len(t) = Len(s) - 1 /\ DOMAIN t = 1..(Len(s) - 1)
      /\ \A i \in 1..(Len(s) - 1) : t[i] = s[i]
  BY <1>1 DEF Front
<1> HIDE DEF t
<1>3. IsInjective(t)
  BY <1>1, <1>2 DEF IsInjective
<1>4. \A i \in DOMAIN t : t[i] \in ToSet(s) \ {Last(s)}
  BY <1>1, <1>2 DEF IsInjective, ToSet, Last
<1>5. ASSUME NEW x \in ToSet(s) \ {Last(s)} PROVE x \in ToSet(t)
  BY <1>1, <1>2 DEF ToSet, Last
<1>6. ToSet(t) = ToSet(s) \ {Last(s)}
  BY <1>4, <1>5 DEF ToSet
<1> QED BY <1>2, <1>3, <1>6 DEF t

-----------------------------------------------------------------------------
(* The invariant.  An entry is as old as what it says, and as young as its *)
(* call was patient; calls under way are no older than their timeout.      *)

ListOK == Cached = ToSet(order) /\ IsInjective(order) /\ Len(order) <= MaxSize
EntriesOK == \A k \in Cached : items[k].expiresAt <= items[k].value + Ttl + Patience
CallsTimely ==
  \A c \in Callers : calls[c] # Miss /\ calls[c].at \in {"login", "sent", "store"} =>
    calls[c].from <= now /\ now <= calls[c].from + Patience

CacheIInv == CacheTypeOK /\ ListOK /\ EntriesOK /\ CallsTimely

\* What concerns the cache itself.
StoreOK == /\ items \in [Keys -> Entry \cup {Miss}] /\ order \in Seq(Keys) /\ set \subseteq Keys
           /\ ListOK /\ EntriesOK

\* An invariant of what calls do and one of what the cache does.
RestOK == /\ now \in 0..Horizon /\ turn \in 0..Horizon \cup {Miss}
          /\ token \in 0..(Horizon + TokenLife) \cup {Miss}
          /\ calls \in [Callers -> Calls \cup {Miss}]
          /\ CallsTimely

\* The invariant is one of what is stored and one of who is under way.
LEMMA InTwo == CacheIInv <=> StoreOK /\ RestOK
BY DEF CacheIInv, CacheTypeOK, StoreOK, RestOK

\* What is cached is not too old when it is found.
LEMMA CacheIInvGives == CacheIInv => CacheInv
<1> SUFFICES ASSUME CacheIInv, NEW k \in Cached, Hit(k)
             PROVE  now <= items[k].value + Ttl + Patience
  BY DEF CacheIInv, ListOK, CacheInv, CacheHolds
<1>1. items[k] \in Entry /\ now \in Nat
  BY CacheAssumption DEF CacheIInv, CacheTypeOK, Cached
<1>2. now <= items[k].expiresAt
  BY <1>1, CacheAssumption DEF Hit, Expired, Entry
<1>3. items[k].expiresAt <= items[k].value + Ttl + Patience
  BY DEF CacheIInv, EntriesOK
<1> QED BY <1>1, <1>2, <1>3, CacheAssumption DEF Entry

\* An empty cache.
LEMMA CacheStart == CacheInit => CacheIInv
<1> SUFFICES ASSUME CacheInit PROVE CacheIInv
  OBVIOUS
<1>1. CacheTypeOK
  BY CacheAssumption DEF CacheInit, CacheTypeOK
<1>2. ListOK
  BY CacheAssumption DEF CacheInit, ListOK, Cached, ToSet, IsInjective
<1>3. EntriesOK /\ CallsTimely
  BY DEF CacheInit, EntriesOK, Cached, CallsTimely
<1> QED BY <1>1, <1>2, <1>3 DEF CacheIInv

\* Where a key is in the list.
LEMMA PositionOf ==
  ASSUME NEW k \in ToSet(order)
  PROVE  Position(k) \in DOMAIN order /\ order[Position(k)] = k
BY DEF Position, ToSet

\* A key is taken out of the list.
LEMMA WithoutKey ==
  ASSUME StoreOK, NEW k \in Keys
  PROVE  /\ Without(k) \in Seq(Keys) /\ IsInjective(Without(k))
         /\ ToSet(Without(k)) = ToSet(order) \ {k}
         /\ Len(Without(k)) = IF k \in ToSet(order) THEN Len(order) - 1 ELSE Len(order)
<1>1. order \in Seq(Keys) /\ IsInjective(order)
  BY DEF StoreOK, ListOK
<1>2. CASE k \in ToSet(order)
  BY <1>1, <1>2, PositionOf, Removal DEF Without
<1>3. CASE k \notin ToSet(order)
  BY <1>1, <1>3 DEF Without
<1> QED BY <1>2, <1>3

\* A key is put to the front.
LEMMA KeyToFront ==
  ASSUME StoreOK, NEW k \in Keys
  PROVE  /\ ToFront(k) \in Seq(Keys) /\ IsInjective(ToFront(k))
         /\ ToSet(ToFront(k)) = ToSet(order) \cup {k}
         /\ Len(ToFront(k)) = IF k \in ToSet(order) THEN Len(order) ELSE Len(order) + 1
<1>1. k \notin ToSet(Without(k)) /\ Without(k) \in Seq(Keys) /\ IsInjective(Without(k))
  BY WithoutKey
<1>2. /\ ToFront(k) \in Seq(Keys) /\ Len(ToFront(k)) = Len(Without(k)) + 1
      /\ IsInjective(ToFront(k)) /\ ToSet(ToFront(k)) = ToSet(Without(k)) \cup {k}
  BY <1>1, Prepending DEF ToFront
<1>3. Len(order) \in Nat
  BY DEF StoreOK
<1> QED BY <1>2, <1>3, WithoutKey

\* Delete and the removal of an expired entry.
LEMMA RemoveKeeps ==
  ASSUME StoreOK, NEW k \in Keys, RemoveElement(k), set' = {}
  PROVE  StoreOK'
<1>1. /\ items' = [items EXCEPT ![k] = Miss] /\ order' = Without(k)
      /\ items \in [Keys -> Entry \cup {Miss}]
  BY DEF RemoveElement, StoreOK
<1>2. Cached' = Cached \ {k} /\ \A j \in Cached \ {k} : items'[j] = items[j]
  BY <1>1 DEF Cached
<1>3. Len(order') <= MaxSize
  BY <1>1, WithoutKey, CacheAssumption DEF StoreOK, ListOK
<1>4. ListOK'
  BY <1>1, <1>2, <1>3, WithoutKey DEF StoreOK, ListOK
<1>5. EntriesOK'
  BY <1>2 DEF StoreOK, EntriesOK
<1>6. items' \in [Keys -> Entry \cup {Miss}] /\ order' \in Seq(Keys)
  BY <1>1, WithoutKey
<1> QED BY <1>4, <1>5, <1>6 DEF StoreOK

\* A lookup removes an expired entry, or puts what it finds to the front.
LEMMA CacheGetKeeps ==
  ASSUME StoreOK, NEW k \in Keys, Get(k)
  PROVE  StoreOK'
<1>1. CASE Expired(k)
  BY <1>1, RemoveKeeps DEF Get
<1>2. CASE ~Expired(k) /\ items[k] = Miss
  BY <1>2 DEF Get, StoreOK, ListOK, EntriesOK, Cached
<1>3. CASE ~Expired(k) /\ items[k] # Miss
  <2>1. items' = items /\ order' = ToFront(k) /\ set' = {}
    BY <1>3 DEF Get
  <2>2. k \in Cached /\ Cached = ToSet(order) /\ Len(order) <= MaxSize
    BY <1>3 DEF Cached, StoreOK, ListOK
  <2>3. /\ ToFront(k) \in Seq(Keys) /\ IsInjective(ToFront(k))
        /\ ToSet(ToFront(k)) = ToSet(order) /\ Len(ToFront(k)) = Len(order)
    BY <2>2, KeyToFront
  <2>4. ListOK'
    BY <2>1, <2>2, <2>3 DEF ListOK, Cached
  <2>5. EntriesOK'
    BY <2>1 DEF StoreOK, EntriesOK, Cached
  <2> QED BY <2>1, <2>3, <2>4, <2>5 DEF StoreOK
<1> QED BY <1>1, <1>2, <1>3

\* What Set does, in parts: what is cached then, and with what.
LEMMA SetParts ==
  ASSUME StoreOK, now \in 0..Horizon, NEW k \in Keys, NEW v \in 0..Horizon, Set(k, v)
  PROVE  LET entry == [value |-> v, expiresAt |-> now + Ttl]
         IN  /\ entry \in Entry /\ entry # Miss /\ set' = {k}
             /\ items' \in [Keys -> Entry \cup {Miss}] /\ items'[k] = entry
             /\ \A j \in Keys \ {k} : items'[j] \in {items[j], Miss}
             /\ order' \in Seq(Keys) /\ ListOK'
<1> DEFINE entry == [value |-> v, expiresAt |-> now + Ttl]
           full == items[k] = Miss /\ Len(order) + 1 > MaxSize
<1>1. /\ set' = {k}
      /\ items' = [j \in Keys |-> IF j = k THEN entry
                                  ELSE IF full /\ j = Last(order) THEN Miss ELSE items[j]]
      /\ order' = IF full THEN Front(ToFront(k)) ELSE ToFront(k)
  BY DEF Set
<1>2. entry \in Entry /\ entry # Miss
  BY CacheAssumption, MissAssumption DEF Entry
<1> HIDE DEF entry
<1>3. /\ items \in [Keys -> Entry \cup {Miss}] /\ order \in Seq(Keys) /\ Len(order) \in Nat
      /\ Cached = ToSet(order) /\ IsInjective(order) /\ Len(order) <= MaxSize
  BY DEF StoreOK, ListOK
<1>4. items' \in [Keys -> Entry \cup {Miss}] /\ items'[k] = entry
  BY <1>1, <1>2, <1>3
<1>5. \A j \in Keys \ {k} : items'[j] \in {items[j], Miss}
  BY <1>1
<1>6. /\ ToFront(k) \in Seq(Keys) /\ IsInjective(ToFront(k))
      /\ ToSet(ToFront(k)) = ToSet(order) \cup {k}
      /\ Len(ToFront(k)) = IF k \in ToSet(order) THEN Len(order) ELSE Len(order) + 1
  BY KeyToFront
<1>7. CASE full
  <2>1. k \notin ToSet(order) /\ Len(order) = MaxSize /\ order # <<>>
    BY <1>3, <1>7, CacheAssumption DEF Cached
  <2>2. Last(order) \in ToSet(order)
    BY <1>3, <2>1 DEF Last, ToSet
  <2>3. Last(ToFront(k)) = Last(order) /\ Last(order) # k
    <3>1. ToFront(k) = <<k>> \o order
      BY <2>1 DEF ToFront, Without
    <3>2. Last(<<k>> \o order) = Last(order)
      BY <1>3, <2>1, Prepending
    <3>3. Last(order) # k
      BY <2>1, <2>2
    <3> QED BY <3>1, <3>2, <3>3
  <2>4. /\ order' \in Seq(Keys) /\ IsInjective(order') /\ Len(order') = MaxSize
        /\ ToSet(order') = (ToSet(order) \cup {k}) \ {Last(order)}
    <3>1. order' = Front(ToFront(k))
      BY <1>1, <1>7
    <3>2. Len(ToFront(k)) = MaxSize + 1
      BY <1>6, <2>1
    <3>3. ToFront(k) # <<>>
      BY <3>2, CacheAssumption
    <3> QED BY <1>6, <2>3, <3>1, <3>2, <3>3, Shortening, CacheAssumption
  <2>5. Cached' = (Cached \cup {k}) \ {Last(order)}
    BY <1>1, <1>2, <1>3, <1>7, <2>2, <2>3 DEF Cached
  <2>6. ListOK'
    BY <1>3, <2>4, <2>5, CacheAssumption DEF ListOK
  <2> QED BY <1>1, <1>2, <1>4, <1>5, <2>4, <2>6 DEF entry
<1>8. CASE ~full
  <2>1. order' = ToFront(k) /\ \A j \in Keys \ {k} : items'[j] = items[j]
    BY <1>1, <1>8
  <2>2. Len(ToFront(k)) <= MaxSize
    BY <1>3, <1>6, <1>8, CacheAssumption DEF Cached
  <2>3. Cached' = Cached \cup {k}
    BY <1>2, <1>4, <2>1 DEF Cached
  <2>4. ListOK'
    BY <1>3, <1>6, <2>1, <2>2, <2>3 DEF ListOK
  <2> QED BY <1>1, <1>2, <1>4, <1>5, <1>6, <2>1, <2>4 DEF entry
<1> QED BY <1>7, <1>8

\* What is stored was said a timeout ago at most.
LEMMA SetKeepsStore ==
  ASSUME StoreOK, now \in 0..Horizon, NEW k \in Keys, NEW v \in 0..Horizon, Set(k, v),
         now <= v + Patience
  PROVE  StoreOK'
<1> DEFINE entry == [value |-> v, expiresAt |-> now + Ttl]
<1>1. /\ set' = {k} /\ items' \in [Keys -> Entry \cup {Miss}] /\ items'[k] = entry
      /\ \A j \in Keys \ {k} : items'[j] \in {items[j], Miss}
      /\ order' \in Seq(Keys) /\ ListOK'
  BY SetParts
<1>2. ASSUME NEW j \in Cached' PROVE items'[j].expiresAt <= items'[j].value + Ttl + Patience
  <2>1. CASE j = k
    BY <1>1, <2>1, CacheAssumption
  <2>2. CASE j # k
    <3>1. j \in Cached /\ items'[j] = items[j]
      BY <1>1, <1>2, <2>2 DEF Cached
    <3> QED BY <3>1 DEF StoreOK, EntriesOK
  <2> QED BY <2>1, <2>2
<1> QED BY <1>1, <1>2 DEF StoreOK, EntriesOK

\* A step of the cache that leaves the calls alone, or the other way round.
LEMMA StoreRests ==
  ASSUME StoreOK, UNCHANGED <<items, order, set>>
  PROVE  StoreOK'
BY DEF StoreOK, ListOK, EntriesOK, Cached

\* A call goes on to its next step: what it waits for is asked for now.
LEMMA MoveKeeps ==
  ASSUME RestOK, NEW c \in Callers, calls[c] # Miss,
         NEW at \in {"token", "login", "look", "limit", "sent", "store"}, Moves(c, at),
         at # "store", now' = now
  PROVE  calls' \in [Callers -> Calls \cup {Miss}] /\ CallsTimely'
<1> DEFINE from == IF at \in {"login", "sent"} THEN now ELSE 0
           call == [calls[c] EXCEPT !.at = at, !.from = from]
<1>1. calls[c] \in Calls /\ now \in 0..Horizon
  BY DEF RestOK
<1>2. call \in Calls /\ call.at = at /\ call.from = from
  <2>1. from \in 0..Horizon
    BY <1>1, CacheAssumption
  <2> HIDE DEF from
  <2> QED BY <1>1, <2>1 DEF Calls
<1>3. calls' = [calls EXCEPT ![c] = call]
  BY DEF Moves
<1>4. now <= from + Patience \/ at \notin {"login", "sent"}
  BY <1>1, CacheAssumption
<1>5. from <= now
  BY <1>1, CacheAssumption
<1> HIDE DEF from, call
<1>6. calls' \in [Callers -> Calls \cup {Miss}]
  BY <1>2, <1>3 DEF RestOK
<1>7. calls'[c] = call /\ \A d \in Callers \ {c} : calls'[d] = calls[d]
  BY <1>3 DEF RestOK
<1>8. CallsTimely'
  BY <1>2, <1>4, <1>5, <1>7 DEF RestOK, CallsTimely
<1> QED BY <1>6, <1>8

\* A call that is over.
LEMMA EndKeeps ==
  ASSUME RestOK, NEW c \in Callers, calls' = [calls EXCEPT ![c] = Miss], now' = now
  PROVE  calls' \in [Callers -> Calls \cup {Miss}] /\ CallsTimely'
BY DEF RestOK, CallsTimely

\* Every step keeps the invariant.
LEMMA CacheStep == CacheIInv /\ [CacheNext]_cacheVars => CacheIInv'
<1> SUFFICES ASSUME CacheIInv, [CacheNext]_cacheVars PROVE StoreOK' /\ RestOK'
  BY InTwo DEF CacheIInv, StoreOK, RestOK, CacheTypeOK
<1>1. StoreOK /\ RestOK
  BY InTwo
<1>2. ASSUME NEW k \in Keys, Delete(k) PROVE StoreOK' /\ RestOK'
  <2>1. RemoveElement(k) /\ set' = {} /\ UNCHANGED <<now, service, calls, turn, token>>
    BY <1>2 DEF Delete
  <2>2. StoreOK'
    BY <1>1, <2>1, RemoveKeeps
  <2> QED BY <1>1, <2>1, <2>2 DEF RestOK, CallsTimely
<1>3. ASSUME Clear PROVE StoreOK' /\ RestOK'
  <2>1. /\ items' = [k \in Keys |-> Miss] /\ order' = <<>> /\ set' = {}
        /\ UNCHANGED <<now, service, calls, turn, token>>
    BY <1>3 DEF Clear
  <2>2. StoreOK'
    BY <2>1, CacheAssumption DEF StoreOK, ListOK, EntriesOK, Cached, ToSet, IsInjective
  <2> QED BY <1>1, <2>1, <2>2 DEF RestOK, CallsTimely
<1>4. ASSUME Second PROVE StoreOK' /\ RestOK'
  <2>1. /\ now < Horizon /\ now' = now + 1 /\ set' = {}
        /\ UNCHANGED <<items, order, service, calls, turn, token>>
        /\ \A c \in Callers : calls[c] # Miss /\ calls[c].at \in {"login", "sent", "store"} =>
             now - calls[c].from < Patience
    BY <1>4 DEF Second
  <2>2. StoreOK'
    BY <1>1, <2>1 DEF StoreOK, ListOK, EntriesOK, Cached
  <2>3. CallsTimely'
    <3> SUFFICES ASSUME NEW c \in Callers, calls[c] # Miss,
                        calls[c].at \in {"login", "sent", "store"}
                 PROVE  calls[c].from <= now' /\ now' <= calls[c].from + Patience
      BY <2>1 DEF CallsTimely
    <3>1. calls[c] \in Calls /\ now \in 0..Horizon /\ calls[c].from <= now
      BY <1>1 DEF RestOK, CallsTimely
    <3>2. now - calls[c].from < Patience
      BY <2>1
    <3> QED BY <2>1, <3>1, <3>2, CacheAssumption DEF Calls
  <2> QED BY <1>1, <2>1, <2>2, <2>3, CacheAssumption DEF RestOK
<1>5. ASSUME NEW c \in Callers, NEW k \in Keys, BeginCall(c, k) PROVE StoreOK' /\ RestOK'
  <2> DEFINE call == [key |-> k, at |-> IF service = "tvdb" THEN "token" ELSE "look", from |-> 0]
  <2>1. /\ calls' = [calls EXCEPT ![c] = call] /\ Rests
        /\ UNCHANGED <<now, service, turn, token>>
    BY <1>5 DEF BeginCall
  <2>2. call \in Calls /\ call.at \notin {"login", "sent", "store"}
    BY CacheAssumption DEF Calls
  <2> HIDE DEF call
  <2>3. StoreOK'
    BY <1>1, <2>1, StoreRests DEF Rests
  <2>4. RestOK'
    BY <1>1, <2>1, <2>2 DEF RestOK, CallsTimely
  <2> QED BY <2>3, <2>4
<1>6. ASSUME NEW c \in Callers, Authenticate(c) PROVE StoreOK' /\ RestOK'
  <2>1. /\ calls[c] # Miss /\ (Moves(c, "look") \/ Moves(c, "login")) /\ Rests
        /\ UNCHANGED <<now, service, turn, token>>
    BY <1>6 DEF Authenticate
  <2>2. StoreOK'
    BY <1>1, <2>1, StoreRests DEF Rests
  <2>3. calls' \in [Callers -> Calls \cup {Miss}] /\ CallsTimely'
    BY <1>1, <2>1, MoveKeeps
  <2> QED BY <1>1, <2>1, <2>2, <2>3 DEF RestOK
<1>7. ASSUME NEW c \in Callers, Login(c) PROVE StoreOK' /\ RestOK'
  <2>1. /\ calls[c] # Miss /\ token' = now + TokenLife /\ Moves(c, "look") /\ Rests
        /\ UNCHANGED <<now, service, turn>>
    BY <1>7 DEF Login
  <2>2. StoreOK'
    BY <1>1, <2>1, StoreRests DEF Rests
  <2>3. calls' \in [Callers -> Calls \cup {Miss}] /\ CallsTimely'
    BY <1>1, <2>1, MoveKeeps
  <2> QED BY <1>1, <2>1, <2>2, <2>3, CacheAssumption DEF RestOK
<1>8. ASSUME NEW c \in Callers, LookUp(c) PROVE StoreOK' /\ RestOK'
  <2>1. /\ calls[c] # Miss /\ Get(calls[c].key)
        /\ UNCHANGED <<now, service, turn, token>>
        /\ \/ calls' = [calls EXCEPT ![c] = Miss]
           \/ Moves(c, "limit") \/ Moves(c, "sent")
    BY <1>8 DEF LookUp
  <2>2. calls[c].key \in Keys
    BY <1>1, <2>1 DEF RestOK, Calls
  <2>3. StoreOK'
    BY <1>1, <2>1, <2>2, CacheGetKeeps
  <2>4. calls' \in [Callers -> Calls \cup {Miss}] /\ CallsTimely'
    BY <1>1, <2>1, MoveKeeps, EndKeeps
  <2> QED BY <1>1, <2>1, <2>3, <2>4 DEF RestOK
<1>9. ASSUME NEW c \in Callers, RateLimit(c) PROVE StoreOK' /\ RestOK'
  <2>1. /\ calls[c] # Miss /\ turn' = now /\ Moves(c, "sent") /\ Rests
        /\ UNCHANGED <<now, service, token>>
    BY <1>9 DEF RateLimit
  <2>2. StoreOK'
    BY <1>1, <2>1, StoreRests DEF Rests
  <2>3. calls' \in [Callers -> Calls \cup {Miss}] /\ CallsTimely'
    BY <1>1, <2>1, MoveKeeps
  <2> QED BY <1>1, <2>1, <2>2, <2>3 DEF RestOK
<1>10. ASSUME NEW c \in Callers, Answers(c) PROVE StoreOK' /\ RestOK'
  <2> DEFINE call == [calls[c] EXCEPT !.at = "store", !.from = now]
  <2>1. /\ calls[c] # Miss /\ calls' = [calls EXCEPT ![c] = call] /\ Rests
        /\ UNCHANGED <<now, service, turn, token>>
    BY <1>10 DEF Answers
  <2>2. call \in Calls /\ call.from = now /\ now \in 0..Horizon
    BY <1>1, <2>1 DEF RestOK, Calls
  <2> HIDE DEF call
  <2>3. StoreOK'
    BY <1>1, <2>1, StoreRests DEF Rests
  <2>4. calls'[c] = call /\ \A d \in Callers \ {c} : calls'[d] = calls[d]
    BY <1>1, <2>1 DEF RestOK
  <2>5. call.from <= now /\ now <= call.from + Patience
    BY <2>2, CacheAssumption
  <2>6. CallsTimely'
    BY <1>1, <2>1, <2>4, <2>5 DEF RestOK, CallsTimely
  <2>7. calls' \in [Callers -> Calls \cup {Miss}]
    BY <1>1, <2>1, <2>2 DEF RestOK
  <2> QED BY <1>1, <2>1, <2>3, <2>6, <2>7 DEF RestOK
<1>11. ASSUME NEW c \in Callers, Store(c) PROVE StoreOK' /\ RestOK'
  <2>1. /\ calls[c] # Miss /\ calls[c].at = "store" /\ Set(calls[c].key, calls[c].from)
        /\ calls' = [calls EXCEPT ![c] = Miss]
        /\ UNCHANGED <<now, service, turn, token>>
    BY <1>11 DEF Store
  <2>2. calls[c].key \in Keys /\ calls[c].from \in 0..Horizon /\ now \in 0..Horizon
    BY <1>1, <2>1 DEF RestOK, Calls
  <2>3. now <= calls[c].from + Patience
    BY <1>1, <2>1 DEF RestOK, CallsTimely
  <2>4. StoreOK'
    BY <1>1, <2>1, <2>2, <2>3, SetKeepsStore
  <2>5. calls' \in [Callers -> Calls \cup {Miss}] /\ CallsTimely'
    BY <1>1, <2>1, EndKeeps
  <2> QED BY <1>1, <2>1, <2>4, <2>5 DEF RestOK
<1>12. ASSUME NEW c \in Callers, Fails(c) PROVE StoreOK' /\ RestOK'
  <2>1. /\ calls' = [calls EXCEPT ![c] = Miss] /\ Rests
        /\ UNCHANGED <<now, service, turn, token>>
    BY <1>12 DEF Fails
  <2>2. StoreOK'
    BY <1>1, <2>1, StoreRests DEF Rests
  <2>3. calls' \in [Callers -> Calls \cup {Miss}] /\ CallsTimely'
    BY <1>1, <2>1, EndKeeps
  <2> QED BY <1>1, <2>1, <2>2, <2>3 DEF RestOK
<1>13. CASE UNCHANGED cacheVars
  BY <1>1, <1>13, StoreRests DEF cacheVars, RestOK, CallsTimely
<1> QED
  BY <1>2, <1>3, <1>4, <1>5, <1>6, <1>7, <1>8, <1>9, <1>10, <1>11, <1>12, <1>13 DEF CacheNext

\* Map and list agree and are within the limit, and nothing that is found is older
\* than an entry lives and a request takes: for any number of keys, places and
\* callers, however the calls overtake each other.
THEOREM CacheCorrect == CacheSpec => []CacheInv
BY CacheStart, CacheStep, CacheIInvGives, PTL DEF CacheSpec

-----------------------------------------------------------------------------
(* The cache as a map that may lose entries.                               *)

\* What is shown is what was, but for some keys that show nothing.
LEMMA Losing ==
  ASSUME NEW saved \in SUBSET Keys, set' = {},
         \A k \in Keys : Shown'[k] = IF k \in saved THEN Shown[k] ELSE Miss
  PROVE  Map!Lose(saved)
<1>1. Shown' = [k \in Keys |-> IF k \in saved THEN Shown[k] ELSE Miss]
  BY DEF Shown
<1> QED BY <1>1 DEF Map!Lose

\* What is shown after a step has places in the list.
LEMMA ShownFits ==
  ASSUME StoreOK'
  PROVE  Map!Fits'
<1> DEFINE seen == {k \in Keys : Shown'[k] # Miss}
           place == [k \in seen |-> CHOOSE i \in DOMAIN order' : order'[i] = k]
<1>1. order' \in Seq(Keys) /\ Len(order') <= MaxSize /\ Cached' = ToSet(order')
  BY DEF StoreOK, ListOK
<1>2. seen \subseteq ToSet(order')
  BY <1>1 DEF Shown, Hit, Cached
<1>3. ASSUME NEW k \in seen PROVE place[k] \in DOMAIN order' /\ order'[place[k]] = k
  <2>1. \E i \in DOMAIN order' : order'[i] = k
    BY <1>2 DEF ToSet
  <2> QED BY <2>1
<1>4. DOMAIN order' \subseteq 1..MaxSize
  BY <1>1, CacheAssumption
<1>5. DOMAIN place = seen /\ place = [k \in seen |-> place[k]]
  OBVIOUS
<1> HIDE DEF place
<1>6. place \in [seen -> 1..MaxSize]
  BY <1>3, <1>4, <1>5
<1>7. \A j, k \in seen : place[j] = place[k] => j = k
  BY <1>3
<1> QED BY <1>5, <1>6, <1>7 DEF Map!Fits

\* An empty cache shows nothing.
LEMMA MapStart == CacheInit => Map!MapInit
BY DEF CacheInit, Map!MapInit, Shown, Hit

\* A step that keeps the clock and what is set, and whose entries are the same.
LEMMA ShownSame ==
  ASSUME now' = now, items' = items
  PROVE  Shown' = Shown
BY DEF Shown, Hit, Expired

\* A lookup shows the same as before: it removes but what is expired.
LEMMA GetLoses ==
  ASSUME StoreOK, NEW k \in Keys, Get(k), now' = now
  PROVE  Map!Lose(Keys)
<1>1. set' = {}
  BY DEF Get
<1>2. CASE Expired(k)
  <2>1. items' = [items EXCEPT ![k] = Miss] /\ DOMAIN items = Keys
    BY <1>2 DEF Get, RemoveElement, StoreOK
  <2>2. \A j \in Keys : Shown'[j] = Shown[j]
    BY <1>2, <2>1 DEF Shown, Hit, Expired
  <2> QED BY <1>1, <2>2, Losing
<1>3. CASE ~Expired(k)
  <2>1. items' = items
    BY <1>3 DEF Get
  <2>2. \A j \in Keys : Shown'[j] = Shown[j]
    BY <2>1, ShownSame
  <2> QED BY <1>1, <2>2, Losing
<1> QED BY <1>2, <1>3

\* Set puts a value for one key and may lose another.
LEMMA SetPuts ==
  ASSUME StoreOK, now \in 0..Horizon, NEW k \in Keys, NEW v \in 0..Horizon, Set(k, v),
         now' = now, StoreOK'
  PROVE  Map!MapNext
<1> DEFINE entry == [value |-> v, expiresAt |-> now + Ttl]
           saved == {j \in Keys \ {k} : items'[j] = items[j]}
<1>1. /\ entry # Miss /\ set' = {k} /\ items'[k] = entry
      /\ \A j \in Keys \ {k} : items'[j] \in {items[j], Miss}
  BY SetParts
<1>2. Shown'[k] = v
  <2>1. ~(now > now + Ttl)
    BY CacheAssumption
  <2> QED BY <1>1, <2>1 DEF Shown, Hit, Expired
<1>3. ASSUME NEW j \in Keys \ {k}
      PROVE  Shown'[j] = IF j \in saved THEN Shown[j] ELSE Miss
  <2>1. CASE items'[j] = items[j]
    BY <2>1 DEF Shown, Hit, Expired
  <2>2. CASE items'[j] # items[j]
    BY <1>1, <2>2 DEF Shown, Hit, Expired
  <2> QED BY <2>1, <2>2
<1>4. Shown' = [j \in Keys |-> IF j = k THEN v ELSE IF j \in saved THEN Shown[j] ELSE Miss]
  BY <1>2, <1>3 DEF Shown
<1>5. Map!Fits'
  BY ShownFits
<1>6. Map!Put(k, v, saved)
  BY <1>1, <1>4, <1>5 DEF Map!Put
<1> HIDE DEF saved
<1>7. saved \in SUBSET Keys
  BY DEF saved
<1> QED BY <1>6, <1>7 DEF Map!MapNext

\* Whatever the cache and its callers do is a step of the map or none.
LEMMA MapStep ==
  CacheIInv /\ CacheIInv' /\ [CacheNext]_cacheVars => [Map!MapNext]_<<Shown, set>>
<1> SUFFICES ASSUME CacheIInv, CacheIInv', [CacheNext]_cacheVars
             PROVE  Map!MapNext \/ UNCHANGED <<Shown, set>>
  OBVIOUS
<1>1. StoreOK /\ RestOK /\ StoreOK'
  BY InTwo DEF CacheIInv, StoreOK, CacheTypeOK
<1>2. \A saved \in SUBSET Keys : Map!Lose(saved) => Map!MapNext
  BY DEF Map!MapNext
<1>3. ASSUME NEW k \in Keys, Delete(k) PROVE Map!MapNext
  <2>1. items' = [items EXCEPT ![k] = Miss] /\ DOMAIN items = Keys /\ set' = {} /\ now' = now
    BY <1>1, <1>3 DEF Delete, RemoveElement, StoreOK
  <2>2. \A j \in Keys : Shown'[j] = IF j \in Keys \ {k} THEN Shown[j] ELSE Miss
    BY <2>1 DEF Shown, Hit, Expired
  <2>3. Keys \ {k} \in SUBSET Keys
    OBVIOUS
  <2>4. Map!Lose(Keys \ {k})
    BY <2>1, <2>2, <2>3, Losing
  <2> QED BY <1>2, <2>3, <2>4
<1>4. ASSUME Clear PROVE Map!MapNext
  <2>1. set' = {} /\ \A j \in Keys : Shown'[j] = IF j \in {} THEN Shown[j] ELSE Miss
    BY <1>4 DEF Clear, Shown, Hit
  <2>2. {} \in SUBSET Keys
    OBVIOUS
  <2>3. Map!Lose({})
    BY <2>1, <2>2, Losing
  <2> QED BY <1>2, <2>2, <2>3
<1>5. ASSUME Second PROVE Map!MapNext
  <2> DEFINE saved == {k \in Keys : Hit(k)'}
  <2>1. set' = {} /\ items' = items /\ now' = now + 1 /\ now \in 0..Horizon
    BY <1>1, <1>5 DEF Second, RestOK
  <2>2. ASSUME NEW k \in Keys PROVE Hit(k)' => Hit(k)
    <3> SUFFICES ASSUME items[k] # Miss, ~(now' > items[k].expiresAt) PROVE ~(now > items[k].expiresAt)
      BY <2>1 DEF Hit, Expired
    <3>1. items[k].expiresAt \in Nat
      BY <1>1, CacheAssumption DEF StoreOK, Entry
    <3> QED BY <2>1, <3>1
  <2>3. \A k \in Keys : Shown'[k] = IF k \in saved THEN Shown[k] ELSE Miss
    BY <2>1, <2>2 DEF Shown
  <2> HIDE DEF saved
  <2>4. saved \in SUBSET Keys
    BY DEF saved
  <2>5. Map!Lose(saved)
    BY <2>1, <2>3, <2>4, Losing
  <2> QED BY <1>2, <2>4, <2>5
<1>6. ASSUME NEW c \in Callers, LookUp(c) PROVE Map!MapNext
  <2>1. calls[c].key \in Keys /\ Get(calls[c].key) /\ now' = now
    BY <1>1, <1>6 DEF LookUp, RestOK, Calls
  <2>2. Map!Lose(Keys)
    BY <1>1, <2>1, GetLoses
  <2> QED BY <1>2, <2>2
<1>7. ASSUME NEW c \in Callers, Store(c) PROVE Map!MapNext
  <2>1. /\ calls[c].key \in Keys /\ calls[c].from \in 0..Horizon /\ now \in 0..Horizon
        /\ Set(calls[c].key, calls[c].from) /\ now' = now
    BY <1>1, <1>7 DEF Store, RestOK, Calls
  <2> QED BY <1>1, <2>1, SetPuts
<1>8. ASSUME NEW c \in Callers,
             \/ \E k \in Keys : BeginCall(c, k)
             \/ Authenticate(c) \/ Login(c) \/ RateLimit(c) \/ Answers(c) \/ Fails(c)
      PROVE  UNCHANGED <<Shown, set>>
  <2>1. items' = items /\ set' = set /\ now' = now
    BY <1>8 DEF BeginCall, Authenticate, Login, RateLimit, Answers, Fails, Rests
  <2> QED BY <2>1, ShownSame
<1>9. CASE UNCHANGED cacheVars
  BY <1>9, ShownSame DEF cacheVars
<1> QED BY <1>3, <1>4, <1>5, <1>6, <1>7, <1>8, <1>9 DEF CacheNext

\* The cache implements the map its users may rely on: a value is given to a key by
\* a Set of that key only and stays until the key is set again or lost, and no
\* more keys have one than the limit allows.
THEOREM CacheImplementsMap == CacheSpec => ImplementsMap
<1>1. CacheSpec => Map!MapInit /\ [][Map!MapNext]_<<Shown, set>>
  BY CacheStart, CacheStep, MapStart, MapStep, PTL DEF CacheSpec
<1> QED BY <1>1 DEF ImplementsMap, Map!MapSpec

-----------------------------------------------------------------------------
(* Backup: the file that is extracted is a beginning of the archive's,     *)
(* which has the entries of the files that were there from the moment it   *)
(* has a manifest; a file that is cut is the beginning of one there was.   *)

Archives == [db : Seq(Nat), config : Seq(Nat), manifest : BOOLEAN]
CopyJobs == [job : {"none", "export", "import"}, done : SUBSET BackedUp]

\* The blocks are those of files that were there.
FromFiles(blocks, versions) ==
  \A i \in 1..Len(blocks) : \E c \in versions : i <= Len(c) /\ c[i] = blocks[i]

\* A file is one of those, or cut from one.
IsOneOf(blocks, versions) == blocks \in versions \/ CutFrom(blocks, versions)

BackupTyped ==
  /\ age \in 0..Ages /\ archive \in Archives
  /\ live \in [BackedUp -> Seq(Nat)] /\ temp \in [BackedUp -> Seq(Nat)]
  /\ ever \in [BackedUp -> SUBSET Seq(Nat)]
  /\ copying \in CopyJobs /\ (copying.job = "none" => copying = NotCopying)
  /\ missing \subseteq {"config"} /\ entries \subseteq BackedUp /\ had \subseteq BackedUp

\* What is known of an archive, and while one is made.
ArchiveHolds ==
  /\ (had \cup entries) \cap missing = {}
  /\ \A f \in BackedUp : FromFiles(archive[f], ever[f])
  /\ archive.manifest => had \cup {"db"} \subseteq entries
  /\ copying.job = "export" =>
       /\ ~archive.manifest
       /\ copying.done \cap (had \cup {"db"}) \subseteq entries

\* What is known of f while an archive is restored.
ImportHolds(f) ==
  IF copying.job = "import" /\ f \notin copying.done /\ f \in entries
  THEN /\ Len(temp[f]) <= Limit /\ Len(temp[f]) <= Len(archive[f])
       /\ temp[f] = SubSeq(archive[f], 1, Len(temp[f]))
       /\ archive[f] \in ever[f]
  ELSE temp[f] = NoFile

BackupIInv ==
  BackupTyped /\ FilesAreWhole /\ ArchiveHolds /\ \A f \in BackedUp : ImportHolds(f)

\* What BlocksOf gives is a file, whatever its length and the moment.
LEMMA WrittenBlocks ==
  ASSUME NEW n \in Lengths, NEW when \in Nat
  PROVE  BlocksOf(n, when) \in Seq(Nat)
BY BackupAssumption DEF BlocksOf

\* Files that were there were there later too.
LEMMA FromMore ==
  ASSUME NEW blocks, NEW some, NEW more, some \subseteq more
  PROVE  /\ FromFiles(blocks, some) => FromFiles(blocks, more)
         /\ IsOneOf(blocks, some) => IsOneOf(blocks, more)
BY DEF FromFiles, IsOneOf, CutFrom

\* A file that is cut has the blocks of one that was there.
LEMMA BlocksOfAFile ==
  ASSUME NEW versions \in SUBSET Seq(Nat), NEW blocks \in Seq(Nat), IsOneOf(blocks, versions)
  PROVE  FromFiles(blocks, versions)
<1>1. CASE blocks \in versions
  BY <1>1 DEF FromFiles
<1>2. CASE CutFrom(blocks, versions)
  <2>1. PICK whole \in versions : Len(whole) > Limit /\ blocks = SubSeq(whole, 1, Limit)
    BY <1>2 DEF CutFrom
  <2>2. whole \in Seq(Nat) /\ Len(whole) \in Nat /\ Limit \in Nat
    BY BackupAssumption
  <2>3. Len(blocks) = Limit /\ \A i \in 1..Limit : blocks[i] = whole[i] /\ i <= Len(whole)
    BY <2>1, <2>2
  <2>4. ASSUME NEW i \in 1..Len(blocks)
        PROVE  \E c \in versions : i <= Len(c) /\ c[i] = blocks[i]
    <3>1. i \in 1..Limit
      BY <2>3
    <3>2. i <= Len(whole) /\ whole[i] = blocks[i]
      BY <2>3, <3>1
    <3> QED BY <2>1, <3>2
  <2> QED BY <2>4 DEF FromFiles
<1> QED BY <1>1, <1>2 DEF IsOneOf

\* No archive has been made at the start.
LEMMA BackupStarts == BackupInit => BackupIInv
<1> SUFFICES ASSUME BackupInit PROVE BackupIInv
  OBVIOUS
<1>1. archive = NoArchive /\ archive \in Archives /\ archive.manifest = FALSE
      /\ \A f \in BackedUp : archive[f] = NoFile
  BY DEF BackupInit, NoArchive, Archives, BackedUp, NoFile
<1>2. {BlocksOf(n, 0) : n \in Lengths} \cup {NoFile} \subseteq Seq(Nat)
  <2>1. NoFile \in Seq(Nat)
    BY DEF NoFile
  <2>2. \A n \in Lengths : BlocksOf(n, 0) \in Seq(Nat)
    BY WrittenBlocks
  <2> QED BY <2>1, <2>2
<1>3. live \in [BackedUp -> Seq(Nat)]
  <2>1. \E values : values = {BlocksOf(n, 0) : n \in Lengths} \cup {NoFile}
    OBVIOUS
  <2>2. PICK values : values = {BlocksOf(n, 0) : n \in Lengths} \cup {NoFile}
    BY <2>1, Zenon
  <2>3. live \in [BackedUp -> values]
    BY <2>2, Zenon DEF BackupInit
  <2>4. values \subseteq Seq(Nat)
    BY <1>2, <2>2, Zenon
  <2> QED BY <2>3, <2>4
<1>4. ever \in [BackedUp -> SUBSET Seq(Nat)] /\ \A f \in BackedUp \ missing : live[f] \in ever[f]
  BY <1>3 DEF BackupInit
<1>5. temp \in [BackedUp -> Seq(Nat)] /\ \A f \in BackedUp : temp[f] = NoFile
  BY DEF BackupInit, NoFile
<1>6. copying = NotCopying /\ copying.job = "none" /\ copying \in CopyJobs
  BY DEF BackupInit, NotCopying, CopyJobs
<1>7. age \in 0..Ages /\ missing \subseteq {"config"} /\ entries = {} /\ had = {}
  BY BackupAssumption DEF BackupInit
<1>8. \A f \in BackedUp : FromFiles(archive[f], ever[f])
  BY <1>1 DEF FromFiles, NoFile
<1> QED BY <1>1, <1>3, <1>4, <1>5, <1>6, <1>7, <1>8
        DEF BackupIInv, BackupTyped, FilesAreWhole, ArchiveHolds, ImportHolds

\* Writes, exports, imports and copies that fail keep the invariant.
LEMMA BackupStep == BackupIInv /\ [BackupNext]_backupVars => BackupIInv'
<1> SUFFICES ASSUME BackupIInv, [BackupNext]_backupVars PROVE BackupIInv'
  OBVIOUS
<1>0. /\ BackupTyped /\ FilesAreWhole /\ ArchiveHolds /\ \A f \in BackedUp : ImportHolds(f)
      /\ age \in Nat /\ archive \in Archives /\ archive.manifest \in BOOLEAN
      /\ \A f \in BackedUp : archive[f] \in Seq(Nat)
      /\ live \in [BackedUp -> Seq(Nat)] /\ temp \in [BackedUp -> Seq(Nat)]
      /\ ever \in [BackedUp -> SUBSET Seq(Nat)]
      /\ copying \in CopyJobs /\ missing \subseteq {"config"}
      /\ entries \subseteq BackedUp /\ had \subseteq BackedUp /\ Limit \in Nat \ {0}
      /\ \A f \in BackedUp \ missing : IsOneOf(live[f], ever[f])
      /\ \A f \in BackedUp : FromFiles(archive[f], ever[f])
  BY BackupAssumption
     DEF BackupIInv, BackupTyped, Archives, BackedUp, FilesAreWhole, IsOneOf, ArchiveHolds
<1>1. ASSUME NEW f \in BackedUp, NEW n \in Lengths, WriteFile(f, n) PROVE BackupIInv'
  <2> DEFINE new == BlocksOf(n, age + 1)
  <2>1. /\ age < Ages /\ age' = age + 1 /\ live' = [live EXCEPT ![f] = new]
        /\ missing' = missing \ {f} /\ ever' = [ever EXCEPT ![f] = ever[f] \cup {new}]
        /\ UNCHANGED <<temp, archive, entries, copying, had>>
    BY <1>1 DEF WriteFile
  <2>2. new \in Seq(Nat)
    BY <1>0, WrittenBlocks
  <2> HIDE DEF new
  <2>3. live' \in [BackedUp -> Seq(Nat)] /\ ever' \in [BackedUp -> SUBSET Seq(Nat)]
    BY <1>0, <2>1, <2>2
  <2>4. \A g \in BackedUp : ever[g] \subseteq ever'[g]
    BY <1>0, <2>1
  <2>5. \A g \in BackedUp : FromFiles(archive[g], ever'[g])
    BY <1>0, <2>4, FromMore
  <2>6. ASSUME NEW g \in BackedUp, g \notin missing' PROVE IsOneOf(live'[g], ever'[g])
    <3>1. CASE g = f
      BY <1>0, <2>1, <3>1 DEF IsOneOf
    <3>2. CASE g # f
      BY <1>0, <2>1, <2>6, <3>2
    <3> QED BY <3>1, <3>2
  <2>7. age' \in 0..Ages
    BY <1>0, <2>1, BackupAssumption
  <2> QED BY <1>0, <2>1, <2>3, <2>4, <2>5, <2>6, <2>7
          DEF BackupIInv, BackupTyped, FilesAreWhole, IsOneOf, ArchiveHolds, ImportHolds
<1>2. CASE ExportBegins
  <2>1. /\ copying = NotCopying /\ archive' = NoArchive /\ entries' = {} /\ had' = BackedUp \ missing
        /\ copying' = [job |-> "export", done |-> {}] /\ UNCHANGED <<age, live, missing, temp, ever>>
    BY <1>2 DEF ExportBegins
  <2>2. /\ archive' \in Archives /\ archive'.manifest = FALSE /\ \A f \in BackedUp : archive'[f] = NoFile
    BY <2>1 DEF NoArchive, Archives, BackedUp, NoFile
  <2>3. \A f \in BackedUp : FromFiles(archive'[f], ever[f])
    BY <2>2 DEF FromFiles, NoFile
  <2>4. \A f \in BackedUp : temp[f] = NoFile
    BY <1>0, <2>1 DEF ImportHolds, NotCopying
  <2>5. copying' \in CopyJobs /\ copying'.job = "export" /\ copying'.done = {}
    BY <2>1 DEF CopyJobs
  <2> QED BY <1>0, <2>1, <2>2, <2>3, <2>4, <2>5
          DEF BackupIInv, BackupTyped, FilesAreWhole, ArchiveHolds, ImportHolds
<1>3. ASSUME NEW f \in BackedUp, AddFileToZip(f) PROVE BackupIInv'
  <2> DEFINE n == Len(archive[f])
  <2>1. /\ copying.job = "export" /\ f \in entries
        /\ UNCHANGED <<age, live, missing, temp, entries, ever, had>>
        /\ IF n < Len(live[f])
           THEN archive' = [archive EXCEPT ![f] = Append(archive[f], live[f][n + 1])] /\ UNCHANGED copying
           ELSE copying' = [copying EXCEPT !.done = copying.done \cup {f}] /\ UNCHANGED archive
    BY <1>3 DEF AddFileToZip, Reaches
  <2>2. \A g \in BackedUp : temp[g] = NoFile
    BY <1>0, <2>1 DEF ImportHolds
  <2>3. live[f] \in Seq(Nat) /\ archive[f] \in Seq(Nat) /\ n \in Nat /\ ever[f] \in SUBSET Seq(Nat)
    BY <1>0
  <2>4. CASE n < Len(live[f]) /\ f \notin missing
    <3> DEFINE block == live[f][n + 1]
               longer == Append(archive[f], block)
    <3>1. n + 1 \in 1..Len(live[f]) /\ block \in Nat
      BY <2>3, <2>4
    <3>2. /\ longer \in Seq(Nat) /\ Len(longer) = n + 1 /\ longer[n + 1] = block
          /\ \A i \in 1..n : longer[i] = archive[f][i]
      BY <2>3, <3>1
    <3> HIDE DEF longer
    <3>3. /\ archive' = [archive EXCEPT ![f] = longer] /\ copying' = copying
      BY <2>1, <2>4 DEF longer
    <3>4. /\ archive' \in Archives /\ archive'[f] = longer /\ archive'.manifest = archive.manifest
          /\ \A g \in BackedUp \ {f} : archive'[g] = archive[g]
      BY <1>0, <3>2, <3>3 DEF Archives, BackedUp
    <3>5. FromFiles(live[f], ever[f])
      BY <1>0, <2>3, <2>4, BlocksOfAFile
    <3>6. FromFiles(longer, ever[f])
      <4> SUFFICES ASSUME NEW i \in 1..Len(longer)
                   PROVE  \E c \in ever[f] : i <= Len(c) /\ c[i] = longer[i]
        BY DEF FromFiles
      <4>1. CASE i = n + 1
        BY <3>1, <3>2, <3>5, <4>1 DEF FromFiles
      <4>2. CASE i # n + 1
        <5>1. i \in 1..n
          BY <2>3, <3>2, <4>2
        <5>2. \E c \in ever[f] : i <= Len(c) /\ c[i] = archive[f][i]
          BY <1>0, <5>1 DEF FromFiles
        <5> QED BY <3>2, <5>1, <5>2
      <4> QED BY <4>1, <4>2
    <3>7. \A g \in BackedUp : FromFiles(archive'[g], ever[g])
      BY <1>0, <3>4, <3>6
    <3> QED BY <1>0, <2>1, <2>2, <3>3, <3>4, <3>7
            DEF BackupIInv, BackupTyped, FilesAreWhole, ArchiveHolds, ImportHolds
  <2>5. CASE ~(n < Len(live[f]))
    <3>1. copying' = [copying EXCEPT !.done = copying.done \cup {f}] /\ UNCHANGED archive
      BY <2>1, <2>5
    <3>2. /\ copying'.job = "export" /\ copying'.done = copying.done \cup {f} /\ copying' \in CopyJobs
      BY <1>0, <2>1, <3>1 DEF CopyJobs
    <3> QED BY <1>0, <2>1, <2>2, <3>1, <3>2
            DEF BackupIInv, BackupTyped, FilesAreWhole, ArchiveHolds, ImportHolds
  <2>6. f \notin missing
    BY <1>0, <2>1 DEF ArchiveHolds
  <2> QED BY <2>4, <2>5, <2>6
<1>10. ASSUME NEW f \in BackedUp, AddEntry(f) PROVE BackupIInv'
  <2>1. /\ copying.job = "export" /\ UNCHANGED <<age, live, missing, temp, archive, ever, had>>
        /\ IF f \in missing
           THEN copying' = [copying EXCEPT !.done = copying.done \cup {f}] /\ UNCHANGED entries
           ELSE entries' = entries \cup {f} /\ UNCHANGED copying
    BY <1>10 DEF AddEntry, Reaches
  <2>2. \A g \in BackedUp : temp[g] = NoFile
    BY <1>0, <2>1 DEF ImportHolds
  <2>3. CASE f \in missing
    <3>1. copying' = [copying EXCEPT !.done = copying.done \cup {f}] /\ entries' = entries
      BY <2>1, <2>3
    <3>2. /\ copying'.job = "export" /\ copying'.done = copying.done \cup {f} /\ copying' \in CopyJobs
      BY <1>0, <2>1, <3>1 DEF CopyJobs
    <3>3. f \notin had \cup {"db"}
      BY <1>0, <2>3 DEF ArchiveHolds
    <3> QED BY <1>0, <2>1, <2>2, <3>1, <3>2, <3>3
            DEF BackupIInv, BackupTyped, FilesAreWhole, ArchiveHolds, ImportHolds
  <2>4. CASE f \notin missing
    BY <1>0, <2>1, <2>2, <2>4 DEF BackupIInv, BackupTyped, FilesAreWhole, ArchiveHolds, ImportHolds
  <2> QED BY <2>3, <2>4
<1>4. CASE AddManifest
  <2>1. /\ copying.job = "export" /\ copying.done = BackedUp
        /\ copying' = NotCopying /\ archive' = [archive EXCEPT !.manifest = TRUE]
        /\ UNCHANGED <<age, live, missing, temp, entries, ever, had>>
    BY <1>4 DEF AddManifest
  <2>2. /\ archive' \in Archives /\ archive'.manifest = TRUE /\ \A f \in BackedUp : archive'[f] = archive[f]
    BY <1>0, <2>1 DEF Archives, BackedUp
  <2>3. copying'.job = "none" /\ copying' \in CopyJobs
    BY <2>1 DEF NotCopying, CopyJobs
  <2>4. had \cup {"db"} \subseteq entries
    BY <1>0, <2>1 DEF ArchiveHolds, BackedUp
  <2> QED BY <1>0, <2>1, <2>2, <2>3, <2>4
          DEF BackupIInv, BackupTyped, FilesAreWhole, ArchiveHolds, ImportHolds
<1>5. CASE ImportBegins
  <2>1. /\ copying = NotCopying /\ archive.manifest /\ copying' = [job |-> "import", done |-> {}]
        /\ ever' = [f \in BackedUp |-> IF f \in entries THEN ever[f] \cup {archive[f]} ELSE ever[f]]
        /\ UNCHANGED <<age, live, missing, temp, archive, entries, had>>
    BY <1>5 DEF ImportBegins
  <2>2. ever' \in [BackedUp -> SUBSET Seq(Nat)]
    BY <1>0, <2>1
  <2>3. \A f \in BackedUp : ever[f] \subseteq ever'[f] /\ (f \in entries => archive[f] \in ever'[f])
    BY <2>1
  <2>4. /\ \A f \in BackedUp : FromFiles(archive[f], ever'[f])
        /\ \A f \in BackedUp \ missing : IsOneOf(live[f], ever'[f])
    BY <1>0, <2>3, FromMore
  <2>5. ASSUME NEW f \in BackedUp
        PROVE  /\ temp[f] = NoFile /\ Len(temp[f]) <= Limit /\ Len(temp[f]) <= Len(archive[f])
               /\ temp[f] = SubSeq(archive[f], 1, Len(temp[f]))
    <3>1. temp[f] = <<>> /\ archive[f] \in Seq(Nat)
      BY <1>0, <2>1 DEF ImportHolds, NotCopying, NoFile
    <3>2. SubSeq(archive[f], 1, 0) = <<>>
      BY <3>1
    <3> QED BY <3>1, <3>2, BackupAssumption DEF NoFile
  <2>6. copying'.job = "import" /\ copying'.done = {} /\ copying' \in CopyJobs
    BY <2>1 DEF CopyJobs
  <2> QED BY <1>0, <2>1, <2>2, <2>3, <2>4, <2>5, <2>6
          DEF BackupIInv, BackupTyped, FilesAreWhole, IsOneOf, ArchiveHolds, ImportHolds
<1>6. ASSUME NEW f \in BackedUp, ExtractBlock(f) PROVE BackupIInv'
  <2> DEFINE n == Len(temp[f])
             longer == SubSeq(archive[f], 1, n + 1)
  <2>1. /\ copying.job = "import" /\ f \notin copying.done /\ f \in entries
        /\ n < Len(archive[f]) /\ n < Limit /\ temp' = [temp EXCEPT ![f] = longer]
        /\ UNCHANGED <<age, live, missing, archive, entries, copying, ever, had>>
    BY <1>6 DEF ExtractBlock, Reaches
  <2>2. archive[f] \in Seq(Nat) /\ n \in Nat /\ Limit \in Nat
    BY <1>0
  <2>3. longer \in Seq(Nat) /\ Len(longer) = n + 1 /\ n + 1 <= Limit /\ n + 1 <= Len(archive[f])
    BY <2>1, <2>2
  <2>4. longer = SubSeq(archive[f], 1, Len(longer))
    BY <2>3
  <2> HIDE DEF longer, n
  <2>5. temp' \in [BackedUp -> Seq(Nat)] /\ temp'[f] = longer /\ \A g \in BackedUp \ {f} : temp'[g] = temp[g]
    BY <1>0, <2>1, <2>3
  <2>6. Len(longer) <= Limit /\ Len(longer) <= Len(archive[f])
    BY <2>3
  <2>7. archive[f] \in ever[f]
    BY <1>0, <2>1 DEF ImportHolds
  <2>8. ASSUME NEW g \in BackedUp PROVE ImportHolds(g)'
    <3>1. CASE g = f
      BY <2>1, <2>4, <2>5, <2>6, <2>7, <3>1 DEF ImportHolds
    <3>2. CASE g # f
      BY <1>0, <2>1, <2>5, <3>2 DEF ImportHolds
    <3> QED BY <3>1, <3>2
  <2> QED BY <1>0, <2>1, <2>5, <2>8 DEF BackupIInv, BackupTyped, FilesAreWhole, ArchiveHolds
<1>7. ASSUME NEW f \in BackedUp, copying.job = "import", FileDone(f), f = "config" => "db" \in copying.done
      PROVE  /\ copying' \in CopyJobs /\ copying'.job \in {"none", "import"}
             /\ copying'.job = "none" => copying' = NotCopying
             /\ copying'.job = "import" => copying'.done = copying.done \cup {f}
             /\ copying'.job = "none" => f = "config" /\ temp["db"] = NoFile
  <2>1. CASE f = "config"
    <3>1. copying' = NotCopying /\ temp["db"] = NoFile
      BY <1>0, <1>7, <2>1 DEF FileDone, ImportHolds, BackedUp
    <3> QED BY <2>1, <3>1 DEF NotCopying, CopyJobs
  <2>2. CASE f # "config"
    <3>1. copying' = [copying EXCEPT !.done = copying.done \cup {f}]
      BY <1>7, <2>2 DEF FileDone
    <3> QED BY <1>0, <1>7, <3>1 DEF CopyJobs
  <2> QED BY <2>1, <2>2
<1>8. ASSUME NEW f \in BackedUp, ExtractRenames(f) PROVE BackupIInv'
  <2>1. /\ copying.job = "import" /\ f \notin copying.done /\ f \in entries
        /\ f = "config" => "db" \in copying.done
        /\ Len(temp[f]) = Len(archive[f]) \/ Len(temp[f]) = Limit
        /\ live' = [live EXCEPT ![f] = temp[f]] /\ temp' = [temp EXCEPT ![f] = NoFile]
        /\ missing' = missing \ {f} /\ UNCHANGED <<age, archive, entries, ever, had>> /\ FileDone(f)
    BY <1>8 DEF ExtractRenames, Reaches
  <2>2. /\ Len(temp[f]) <= Limit /\ Len(temp[f]) <= Len(archive[f])
        /\ temp[f] = SubSeq(archive[f], 1, Len(temp[f])) /\ archive[f] \in ever[f]
    BY <1>0, <2>1 DEF ImportHolds
  <2>3. IsOneOf(temp[f], ever[f])
    <3>1. /\ temp[f] \in Seq(Nat) /\ Len(temp[f]) \in Nat /\ archive[f] \in Seq(Nat)
          /\ Len(archive[f]) \in Nat /\ Limit \in Nat
      BY <1>0
    <3>2. CASE Len(temp[f]) = Len(archive[f])
      <4>1. SubSeq(archive[f], 1, Len(archive[f])) = archive[f]
        BY <3>1
      <4> QED BY <2>2, <3>2, <4>1 DEF IsOneOf
    <3>3. CASE Len(temp[f]) # Len(archive[f])
      <4>1. Len(temp[f]) = Limit /\ Len(archive[f]) > Limit
        BY <2>1, <2>2, <3>1, <3>3
      <4> QED BY <2>2, <4>1 DEF IsOneOf, CutFrom
    <3> QED BY <3>2, <3>3
  <2>4. /\ live' \in [BackedUp -> Seq(Nat)]
        /\ \A g \in BackedUp \ missing' : IsOneOf(live'[g], ever[g])
    BY <1>0, <2>1, <2>3
  <2>5. temp' \in [BackedUp -> Seq(Nat)] /\ temp'[f] = NoFile /\ \A g \in BackedUp \ {f} : temp'[g] = temp[g]
    BY <1>0, <2>1 DEF NoFile
  <2>6. /\ copying' \in CopyJobs /\ copying'.job \in {"none", "import"}
        /\ copying'.job = "none" => copying' = NotCopying
        /\ copying'.job = "import" => copying'.done = copying.done \cup {f}
        /\ copying'.job = "none" => f = "config" /\ temp["db"] = NoFile
    BY <1>7, <2>1
  <2>7. ASSUME NEW g \in BackedUp PROVE ImportHolds(g)'
    <3>1. CASE g = f
      BY <2>1, <2>5, <2>6, <3>1 DEF ImportHolds
    <3>2. CASE g # f /\ copying'.job = "import"
      BY <1>0, <2>1, <2>5, <2>6, <3>2 DEF ImportHolds
    <3>3. CASE g # f /\ copying'.job = "none"
      BY <2>5, <2>6, <3>3 DEF ImportHolds, BackedUp
    <3> QED BY <2>6, <3>1, <3>2, <3>3
  <2> QED BY <1>0, <2>1, <2>4, <2>5, <2>6, <2>7
          DEF BackupIInv, BackupTyped, FilesAreWhole, IsOneOf, ArchiveHolds
<1>9. ASSUME NEW f \in BackedUp, ImportSkips(f) PROVE BackupIInv'
  <2>1. /\ copying.job = "import" /\ f \notin entries /\ FileDone(f)
        /\ f = "config" => "db" \in copying.done
        /\ UNCHANGED <<age, live, missing, temp, archive, entries, ever, had>>
    BY <1>9 DEF ImportSkips, Reaches
  <2>2. /\ copying' \in CopyJobs /\ copying'.job \in {"none", "import"}
        /\ copying'.job = "none" => copying' = NotCopying
        /\ copying'.job = "import" => copying'.done = copying.done \cup {f}
        /\ copying'.job = "none" => f = "config" /\ temp["db"] = NoFile
    BY <1>7, <2>1
  <2>3. temp[f] = NoFile
    BY <1>0, <2>1 DEF ImportHolds
  <2>4. ASSUME NEW g \in BackedUp PROVE ImportHolds(g)'
    BY <1>0, <2>1, <2>2, <2>3 DEF ImportHolds, BackedUp
  <2> QED BY <1>0, <2>1, <2>2, <2>4 DEF BackupIInv, BackupTyped, FilesAreWhole, ArchiveHolds
<1>11. CASE CopyFails
  <2>1. /\ copying' = NotCopying /\ temp' = [f \in BackedUp |-> NoFile]
        /\ UNCHANGED <<age, live, missing, archive, entries, ever, had>>
    BY <1>11 DEF CopyFails
  <2>2. copying'.job = "none" /\ copying' \in CopyJobs
    BY <2>1 DEF NotCopying, CopyJobs
  <2>3. temp' \in [BackedUp -> Seq(Nat)] /\ \A f \in BackedUp : temp'[f] = NoFile
    BY <2>1 DEF NoFile
  <2> QED BY <1>0, <2>1, <2>2, <2>3
          DEF BackupIInv, BackupTyped, FilesAreWhole, ArchiveHolds, ImportHolds
<1>12. CASE UNCHANGED backupVars
  BY <1>0, <1>12 DEF backupVars, BackupIInv, BackupTyped, FilesAreWhole, ArchiveHolds, ImportHolds
<1> QED BY <1>1, <1>2, <1>3, <1>4, <1>5, <1>6, <1>8, <1>9, <1>10, <1>11, <1>12 DEF BackupNext

\* What is known of the files and the archive gives the property.
LEMMA BackupGives == BackupIInv => BackupInv
<1> SUFFICES ASSUME BackupIInv PROVE BackupInv
  OBVIOUS
<1>1. BackupTypeOK
  <2>1. ASSUME NEW f \in BackedUp PROVE Len(temp[f]) <= Limit
    BY BackupAssumption DEF BackupIInv, ImportHolds, NoFile
  <2> QED BY <2>1 DEF BackupIInv, BackupTyped, BackupTypeOK, CopyJobs
<1>2. ArchiveIsComplete
  BY DEF BackupIInv, BackupTyped, ArchiveHolds, ArchiveIsComplete, FromFiles
<1> QED BY <1>1, <1>2 DEF BackupIInv, BackupInv

\* BackupInv holds of the backup, with empty files and a missing configuration: a file that
\* is restored is whole or cut at the limit, never a mixture; and an archive with a manifest
\* has the files that were there, each block of it read from the file.
THEOREM BackupCorrect == BackupSpec => []BackupInv
<1>1. BackupSpec => []BackupIInv
  BY BackupStarts, BackupStep, PTL DEF BackupSpec
<1> QED BY <1>1, BackupGives, PTL

-----------------------------------------------------------------------------
(* Auto collections.  A refresh has kinds left to read only while its rows *)
(* of kinds are open, and open rows take connections.                      *)

MediaKinds == {"video", "audio"}
RefreshRows == [at : {"new", "kinds", "next", "items", "add", "done"}, kinds : SUBSET MediaKinds,
                kind : {"none"} \cup MediaKinds, todo : SUBSET StoredItems]

AutosTyped ==
  /\ stored \subseteq StoredItems /\ pool \in PoolSizes
  /\ autos \subseteq (1..Refreshes) \X MediaKinds
  /\ autoItems \subseteq ((1..Refreshes) \X MediaKinds) \X StoredItems
  /\ refreshes \in [1..Refreshes -> RefreshRows]

KindsAreOpen ==
  \A n \in 1..Refreshes :
    /\ refreshes[n].kinds # {} => refreshes[n].at \in {"next", "items", "add"}
    /\ refreshes[n].at \in {"items", "add"} => refreshes[n].kind \in MediaKinds

PoolHolds == InUse <= pool /\ (pool = 1 => autos = {}) /\ (pool = 2 => autoItems = {})

AutosIInv == AutosTyped /\ KindsAreOpen /\ PoolHolds

\* Counting the refreshes that hold a connection makes sense: they are finitely many.
LEMMA OpenFinite ==
  /\ IsFiniteSet(KindsOpen) /\ Cardinality(KindsOpen) \in Nat /\ Cardinality(KindsOpen) <= Refreshes
  /\ IsFiniteSet(ItemsOpen) /\ Cardinality(ItemsOpen) \in Nat /\ Cardinality(ItemsOpen) <= Refreshes
<1>1. IsFiniteSet(1..Refreshes) /\ Cardinality(1..Refreshes) = Refreshes
  <2>1. Refreshes \in Nat
    BY CollectionsAssumption
  <2>2. 1 \in Int /\ Refreshes \in Int
    BY <2>1
  <2>3. IsFiniteSet(1..Refreshes) /\ Cardinality(1..Refreshes) = IF 1 > Refreshes THEN 0 ELSE Refreshes - 1 + 1
    BY <2>2, FS_Interval
  <2> QED BY <2>1, <2>3
<1>2. KindsOpen \in SUBSET (1..Refreshes) /\ ItemsOpen \in SUBSET (1..Refreshes)
  BY DEF KindsOpen, ItemsOpen
<1>3. IsFiniteSet(KindsOpen) /\ Cardinality(KindsOpen) <= Refreshes
  BY <1>1, <1>2, FS_Subset
<1>4. IsFiniteSet(ItemsOpen) /\ Cardinality(ItemsOpen) <= Refreshes
  BY <1>1, <1>2, FS_Subset
<1> QED BY <1>3, <1>4, FS_CardinalityType

\* What is open once refresh n goes on.
LEMMA OpenStep ==
  ASSUME NEW n \in 1..Refreshes,
         \A m \in (1..Refreshes) \ {n} : refreshes'[m] = refreshes[m]
  PROVE  /\ KindsOpen' = IF refreshes'[n].at \in {"next", "items", "add"} THEN KindsOpen \cup {n} ELSE KindsOpen \ {n}
         /\ ItemsOpen' = IF refreshes'[n].at = "add" THEN ItemsOpen \cup {n} ELSE ItemsOpen \ {n}
         /\ n \in KindsOpen <=> refreshes[n].at \in {"next", "items", "add"}
         /\ n \in ItemsOpen <=> refreshes[n].at = "add"
BY DEF KindsOpen, ItemsOpen

\* Open rows take as many connections as Available says there are.
LEMMA InUseStep ==
  ASSUME NEW n \in 1..Refreshes,
         \A m \in (1..Refreshes) \ {n} : refreshes'[m] = refreshes[m]
  PROVE  /\ InUse \in Nat /\ InUse' \in Nat
         /\ refreshes'[n].at \in {"next", "items"} /\ refreshes[n].at \in {"next", "items"} => InUse' = InUse
         /\ refreshes'[n].at \in {"kinds", "done"} => InUse' <= InUse
         /\ refreshes'[n].at = "next" => InUse' <= InUse + 1
         /\ refreshes[n].at = "add" /\ refreshes'[n].at \in {"add", "next"} => InUse' <= InUse
         /\ refreshes[n].at = "items" => InUse' <= InUse + 1
         /\ refreshes[n].at \in {"next", "items"} => InUse >= 1
         /\ refreshes[n].at = "add" => InUse >= 2
<1>1. /\ KindsOpen' = IF refreshes'[n].at \in {"next", "items", "add"} THEN KindsOpen \cup {n} ELSE KindsOpen \ {n}
      /\ ItemsOpen' = IF refreshes'[n].at = "add" THEN ItemsOpen \cup {n} ELSE ItemsOpen \ {n}
  BY OpenStep
<1>2. /\ n \in KindsOpen <=> refreshes[n].at \in {"next", "items", "add"}
      /\ n \in ItemsOpen <=> refreshes[n].at = "add"
  BY OpenStep
<1> DEFINE ck == Cardinality(KindsOpen)
           ci == Cardinality(ItemsOpen)
<1>3. ck \in Nat /\ ci \in Nat /\ InUse = ck + ci /\ InUse' = Cardinality(KindsOpen') + Cardinality(ItemsOpen')
  BY OpenFinite DEF InUse
<1>4. /\ Cardinality(KindsOpen \cup {n}) = IF n \in KindsOpen THEN ck ELSE ck + 1
      /\ Cardinality(ItemsOpen \cup {n}) = IF n \in ItemsOpen THEN ci ELSE ci + 1
  BY OpenFinite, FS_AddElement
<1>5. /\ Cardinality(KindsOpen \ {n}) = IF n \in KindsOpen THEN ck - 1 ELSE ck
      /\ Cardinality(ItemsOpen \ {n}) = IF n \in ItemsOpen THEN ci - 1 ELSE ci
  BY OpenFinite, FS_RemoveElement
<1>6. (n \in KindsOpen => ck # 0) /\ (n \in ItemsOpen => ci # 0)
  BY OpenFinite, FS_EmptySet
<1> DEFINE ck2 == Cardinality(KindsOpen')
           ci2 == Cardinality(ItemsOpen')
<1>7. ck2 = IF refreshes'[n].at \in {"next", "items", "add"} THEN Cardinality(KindsOpen \cup {n}) ELSE Cardinality(KindsOpen \ {n})
  BY <1>1, Zenon
<1>8. ci2 = IF refreshes'[n].at = "add" THEN Cardinality(ItemsOpen \cup {n}) ELSE Cardinality(ItemsOpen \ {n})
  BY <1>1, Zenon
<1>9. InUse' = ck2 + ci2
  BY <1>3
<1> HIDE DEF ck, ci, ck2, ci2
<1>10. ck2 = IF refreshes'[n].at \in {"next", "items", "add"} THEN (IF n \in KindsOpen THEN ck ELSE ck + 1)
             ELSE (IF n \in KindsOpen THEN ck - 1 ELSE ck)
  BY <1>4, <1>5, <1>7
<1>11. ci2 = IF refreshes'[n].at = "add" THEN (IF n \in ItemsOpen THEN ci ELSE ci + 1)
             ELSE (IF n \in ItemsOpen THEN ci - 1 ELSE ci)
  BY <1>4, <1>5, <1>8
<1>12. InUse = ck + ci /\ ck \in Nat /\ ci \in Nat
  BY <1>3
<1> QED BY <1>2, <1>6, <1>9, <1>10, <1>11, <1>12

\* A refresh that goes on to a row of the right kind keeps the type of them all.
LEMMA RefreshGoesOn ==
  ASSUME AutosTyped, KindsAreOpen, NEW n \in 1..Refreshes, NEW row \in RefreshRows,
         refreshes' = [refreshes EXCEPT ![n] = row],
         row.kinds # {} => row.at \in {"next", "items", "add"},
         row.at \in {"items", "add"} => row.kind \in MediaKinds
  PROVE  /\ refreshes' \in [1..Refreshes -> RefreshRows] /\ refreshes'[n] = row
         /\ \A m \in (1..Refreshes) \ {n} : refreshes'[m] = refreshes[m]
         /\ KindsAreOpen'
<1>1. /\ refreshes' \in [1..Refreshes -> RefreshRows] /\ refreshes'[n] = row
      /\ \A m \in (1..Refreshes) \ {n} : refreshes'[m] = refreshes[m]
  BY DEF AutosTyped
<1>2. ASSUME NEW m \in 1..Refreshes
      PROVE  /\ refreshes'[m].kinds # {} => refreshes'[m].at \in {"next", "items", "add"}
             /\ refreshes'[m].at \in {"items", "add"} => refreshes'[m].kind \in MediaKinds
  <2>1. CASE m = n
    BY <1>1, <2>1
  <2>2. CASE m # n
    <3>1. refreshes'[m] = refreshes[m]
      BY <1>1, <2>2
    <3> QED BY <3>1 DEF KindsAreOpen
  <2> QED BY <2>1, <2>2
<1> QED BY <1>1, <1>2 DEF KindsAreOpen

\* Every statement of a refresh keeps the invariant.
LEMMA AutosStep == AutosIInv /\ AutoNext => AutosIInv'
<1> SUFFICES ASSUME AutosIInv, AutoNext PROVE AutosIInv'
  OBVIOUS
<1>0. /\ AutosTyped /\ KindsAreOpen /\ PoolHolds
      /\ pool \in Nat /\ Refreshes \in Nat
  BY CollectionsAssumption DEF AutosIInv, AutosTyped
<1>k. \A i : Kind(i) \in MediaKinds
  BY DEF Kind, MediaKinds
<1>1. ASSUME NEW i \in StoredItems, CreateItem(i) PROVE AutosIInv'
  <2>1. stored' = stored \cup {i} /\ UNCHANGED <<pool, autos, autoItems, refreshes>>
    BY <1>1 DEF CreateItem
  <2>2. AutosTyped'
    BY <1>0, <2>1 DEF AutosTyped
  <2>3. PoolHolds'
    BY <1>0, <2>1 DEF PoolHolds, InUse, KindsOpen, ItemsOpen
  <2> QED BY <1>0, <2>1, <2>2, <2>3 DEF AutosIInv, KindsAreOpen
<1>2. ASSUME NEW n \in 1..Refreshes, RefreshBegins(n) PROVE AutosIInv'
  <2> DEFINE row == [refreshes[n] EXCEPT !.at = "kinds"]
  <2>1. /\ refreshes[n].at = "new" /\ autos' = {}
        /\ refreshes' = [refreshes EXCEPT ![n] = row] /\ UNCHANGED <<stored, pool, autoItems>>
    BY <1>2 DEF RefreshBegins, Goes
  <2>2. /\ row \in RefreshRows /\ row.at = "kinds" /\ row.kinds = refreshes[n].kinds
    BY <1>0 DEF AutosTyped, RefreshRows
  <2> HIDE DEF row
  <2>3. row.kinds = {}
    BY <1>0, <2>1, <2>2 DEF KindsAreOpen
  <2>4. /\ refreshes' \in [1..Refreshes -> RefreshRows] /\ refreshes'[n] = row
        /\ \A m \in (1..Refreshes) \ {n} : refreshes'[m] = refreshes[m]
        /\ KindsAreOpen'
    BY <1>0, <2>1, <2>2, <2>3, RefreshGoesOn
  <2>5. AutosTyped'
    BY <1>0, <2>1, <2>4 DEF AutosTyped
  <2>6. PoolHolds'
    <3>1. InUse' <= InUse /\ InUse \in Nat /\ InUse' \in Nat
      BY <2>2, <2>4, InUseStep
    <3> QED BY <1>0, <2>1, <3>1 DEF PoolHolds
  <2> QED BY <2>4, <2>5, <2>6 DEF AutosIInv
<1>3. ASSUME NEW n \in 1..Refreshes, QueryKinds(n) PROVE AutosIInv'
  <2> DEFINE found == {Kind(i) : i \in stored}
             row == [[refreshes[n] EXCEPT !.at = "next"] EXCEPT !.kinds = found]
  <2>1. /\ refreshes[n].at = "kinds" /\ Available /\ refreshes' = [refreshes EXCEPT ![n] = row]
        /\ UNCHANGED <<stored, pool, autos, autoItems>>
    BY <1>0, <1>3 DEF QueryKinds
  <2>2. found \in SUBSET MediaKinds
    BY <1>k
  <2> HIDE DEF found
  <2>3. row \in RefreshRows /\ row.at = "next"
    BY <1>0, <2>2 DEF AutosTyped, RefreshRows
  <2> HIDE DEF row
  <2>4. /\ refreshes' \in [1..Refreshes -> RefreshRows] /\ refreshes'[n] = row
        /\ \A m \in (1..Refreshes) \ {n} : refreshes'[m] = refreshes[m]
        /\ KindsAreOpen'
    BY <1>0, <2>1, <2>3, RefreshGoesOn
  <2>5. AutosTyped'
    BY <1>0, <2>1, <2>4 DEF AutosTyped
  <2>6. PoolHolds'
    <3>1. InUse' <= InUse + 1 /\ InUse \in Nat /\ InUse' \in Nat
      BY <2>3, <2>4, InUseStep
    <3> QED BY <1>0, <2>1, <3>1 DEF PoolHolds, Available
  <2> QED BY <2>4, <2>5, <2>6 DEF AutosIInv
<1>4. ASSUME NEW n \in 1..Refreshes, CreateAutoCollection(n) PROVE AutosIInv'
  <2>1. /\ refreshes[n].at = "next" /\ Available /\ UNCHANGED <<stored, pool, autoItems>>
    BY <1>4 DEF CreateAutoCollection
  <2>2. PICK k \in refreshes[n].kinds :
          /\ autos' = autos \cup {<<n, k>>}
          /\ refreshes' = [refreshes EXCEPT ![n] =
                [[[refreshes[n] EXCEPT !.at = "items"] EXCEPT !.kind = k] EXCEPT !.kinds = refreshes[n].kinds \ {k}]]
    BY <1>0, <1>4 DEF CreateAutoCollection
  <2> DEFINE row == [[[refreshes[n] EXCEPT !.at = "items"] EXCEPT !.kind = k] EXCEPT !.kinds = refreshes[n].kinds \ {k}]
  <2>3. k \in MediaKinds
    BY <1>0 DEF AutosTyped, RefreshRows
  <2>4. row \in RefreshRows /\ row.at = "items" /\ row.kind = k
    BY <1>0, <2>3 DEF AutosTyped, RefreshRows
  <2>5. refreshes' = [refreshes EXCEPT ![n] = row]
    BY <2>2
  <2> HIDE DEF row
  <2>6. /\ refreshes' \in [1..Refreshes -> RefreshRows] /\ refreshes'[n] = row
        /\ \A m \in (1..Refreshes) \ {n} : refreshes'[m] = refreshes[m]
        /\ KindsAreOpen'
    BY <1>0, <2>3, <2>4, <2>5, RefreshGoesOn
  <2>7. AutosTyped'
    BY <1>0, <2>1, <2>2, <2>3, <2>6 DEF AutosTyped
  <2>8. PoolHolds'
    <3>1. InUse' = InUse /\ InUse \in Nat /\ InUse >= 1
      BY <2>1, <2>4, <2>6, InUseStep
    <3> QED BY <1>0, <2>1, <3>1 DEF PoolHolds, Available
  <2> QED BY <2>6, <2>7, <2>8 DEF AutosIInv
<1>5. ASSUME NEW n \in 1..Refreshes, QueryItems(n) PROVE AutosIInv'
  <2> DEFINE row == [[refreshes[n] EXCEPT !.at = "add"] EXCEPT !.todo = OfKind(refreshes[n].kind)]
  <2>1. /\ refreshes[n].at = "items" /\ Available /\ refreshes' = [refreshes EXCEPT ![n] = row]
        /\ UNCHANGED <<stored, pool, autos, autoItems>>
    BY <1>0, <1>5 DEF QueryItems
  <2>2. OfKind(refreshes[n].kind) \in SUBSET StoredItems
    BY <1>0 DEF AutosTyped, OfKind
  <2>3. row \in RefreshRows /\ row.at = "add" /\ row.kind \in MediaKinds
    BY <1>0, <2>1, <2>2 DEF AutosTyped, RefreshRows, KindsAreOpen
  <2> HIDE DEF row
  <2>4. /\ refreshes' \in [1..Refreshes -> RefreshRows] /\ refreshes'[n] = row
        /\ \A m \in (1..Refreshes) \ {n} : refreshes'[m] = refreshes[m]
        /\ KindsAreOpen'
    BY <1>0, <2>1, <2>3, RefreshGoesOn
  <2>5. AutosTyped'
    BY <1>0, <2>1, <2>4 DEF AutosTyped
  <2>6. PoolHolds'
    <3>1. InUse' <= InUse + 1 /\ InUse \in Nat /\ InUse' \in Nat
      BY <2>1, <2>4, InUseStep
    <3> QED BY <1>0, <2>1, <3>1 DEF PoolHolds, Available
  <2> QED BY <2>4, <2>5, <2>6 DEF AutosIInv
<1>6. ASSUME NEW n \in 1..Refreshes, AddItemToAutoCollection(n) PROVE AutosIInv'
  <2>1. /\ refreshes[n].at = "add" /\ Available /\ UNCHANGED <<stored, pool, autos>>
    BY <1>6 DEF AddItemToAutoCollection
  <2>2. PICK i \in refreshes[n].todo :
          /\ autoItems' = autoItems \cup {<<<<n, refreshes[n].kind>>, i>>}
          /\ refreshes' = [refreshes EXCEPT ![n] = [refreshes[n] EXCEPT !.todo = refreshes[n].todo \ {i}]]
    BY <1>0, <1>6 DEF AddItemToAutoCollection
  <2> DEFINE row == [refreshes[n] EXCEPT !.todo = refreshes[n].todo \ {i}]
  <2>3. row \in RefreshRows /\ row.at = "add" /\ row.kind \in MediaKinds /\ i \in StoredItems
    BY <1>0, <2>1 DEF AutosTyped, RefreshRows, KindsAreOpen
  <2>4. refreshes' = [refreshes EXCEPT ![n] = row]
    BY <2>2
  <2> HIDE DEF row
  <2>5. /\ refreshes' \in [1..Refreshes -> RefreshRows] /\ refreshes'[n] = row
        /\ \A m \in (1..Refreshes) \ {n} : refreshes'[m] = refreshes[m]
        /\ KindsAreOpen'
    BY <1>0, <2>3, <2>4, RefreshGoesOn
  <2>6. refreshes[n].kind \in MediaKinds
    BY <1>0, <2>1 DEF KindsAreOpen
  <2>7. AutosTyped'
    BY <1>0, <2>1, <2>2, <2>3, <2>5, <2>6 DEF AutosTyped
  <2>8. PoolHolds'
    <3>1. InUse' <= InUse /\ InUse \in Nat /\ InUse' \in Nat /\ InUse >= 2
      BY <2>1, <2>3, <2>5, InUseStep
    <3> QED BY <1>0, <2>1, <3>1 DEF PoolHolds, Available
  <2> QED BY <2>5, <2>7, <2>8 DEF AutosIInv
<1>7. ASSUME NEW n \in 1..Refreshes, CloseRows(n) PROVE AutosIInv'
  <2>1. PICK place \in {"next", "done"} :
          /\ refreshes' = [refreshes EXCEPT ![n] = [refreshes[n] EXCEPT !.at = place]]
          /\ \/ refreshes[n].at = "add" /\ refreshes[n].todo = {} /\ place = "next"
             \/ refreshes[n].at = "next" /\ refreshes[n].kinds = {} /\ place = "done"
          /\ UNCHANGED <<stored, pool, autos, autoItems>>
    BY <1>0, <1>7 DEF CloseRows, Goes
  <2> DEFINE row == [refreshes[n] EXCEPT !.at = place]
  <2>2. row \in RefreshRows /\ row.at = place /\ row.kinds = refreshes[n].kinds
    BY <1>0 DEF AutosTyped, RefreshRows
  <2>3. refreshes' = [refreshes EXCEPT ![n] = row]
    BY <2>1
  <2> HIDE DEF row
  <2>4. /\ refreshes' \in [1..Refreshes -> RefreshRows] /\ refreshes'[n] = row
        /\ \A m \in (1..Refreshes) \ {n} : refreshes'[m] = refreshes[m]
        /\ KindsAreOpen'
    BY <1>0, <2>1, <2>2, <2>3, RefreshGoesOn
  <2>5. AutosTyped'
    BY <1>0, <2>1, <2>4 DEF AutosTyped
  <2>6. PoolHolds'
    <3>1. InUse' <= InUse /\ InUse \in Nat /\ InUse' \in Nat
      BY <2>1, <2>2, <2>4, InUseStep
    <3> QED BY <1>0, <2>1, <3>1 DEF PoolHolds
  <2> QED BY <2>4, <2>5, <2>6 DEF AutosIInv
<1> QED BY <1>1, <1>2, <1>3, <1>4, <1>5, <1>6, <1>7 DEF AutoNext

\* One connection per refresh for its kinds and one for its items.
LEMMA AutosGive == AutosIInv => RefreshesWait
<1> SUFFICES ASSUME AutosIInv PROVE RefreshesWait
  OBVIOUS
<1>0. /\ AutosTyped /\ KindsAreOpen /\ PoolHolds
      /\ pool \in Nat /\ Refreshes \in Nat
  BY CollectionsAssumption DEF AutosIInv, AutosTyped
<1>1. /\ Cardinality(KindsOpen) \in Nat /\ Cardinality(KindsOpen) <= Refreshes
      /\ Cardinality(ItemsOpen) \in Nat /\ Cardinality(ItemsOpen) <= Refreshes
  BY OpenFinite
<1>2. InUse \in Nat /\ InUse <= 2 * Refreshes
  BY <1>0, <1>1 DEF InUse
<1>3. ASSUME NEW n \in 1..Refreshes, refreshes[n].kinds # {} PROVE InUse >= 1
  <2>1. n \in KindsOpen
    BY <1>0, <1>3 DEF KindsAreOpen, KindsOpen
  <2>2. Cardinality(KindsOpen) # 0
    BY <2>1, OpenFinite, FS_EmptySet
  <2> QED BY <1>1, <2>2 DEF InUse
<1> QED BY <1>0, <1>2, <1>3 DEF RefreshesWait, PoolHolds, Available

-----------------------------------------------------------------------------
(* The search index.  Updates begin in their order; the rows of an update  *)
(* that ended are deleted by the next of the item, unless they crossed or  *)
(* the next could not delete.                                              *)

UpdateRows == [at : {"new", "deleted", "done"}, item : StoredItems \cup {Unset}]

IndexIInv ==
  /\ fts5 \in BOOLEAN
  /\ indexRows \subseteq (1..Updates) \X StoredItems
  /\ updates \in [1..Updates -> UpdateRows]
  /\ \A m, n \in 1..Updates : m < n /\ updates[n].at # "new" => updates[m].at # "new"
  /\ \A m, n \in 1..Updates :
       m < n /\ updates[n].at # "new" /\ Between(m) /\ updates[m].item = updates[n].item =>
         <<m, n>> \in crossed \/ n \in kept
  /\ \A n \in 1..Updates : updates[n].at # "new" => updates[n].item \in StoredItems
  /\ \A m \in 1..Updates, i \in StoredItems : <<m, i>> \in indexRows =>
       /\ updates[m].at = "done" /\ updates[m].item = i
       /\ \A n \in 1..Updates :
            m < n /\ updates[n].at # "new" /\ updates[n].item = i => <<m, n>> \in crossed \/ n \in kept
  /\ ~fts5 => \A r, s \in indexRows : r[2] = s[2] => r = s
  /\ \A i \in indexed : RowsOf(i) # {} \/ \E n \in 1..Updates : Between(n) /\ updates[n].item = i

\* Every statement of an update keeps the index's invariant.
LEMMA IndexStep == IndexIInv /\ IndexNext => IndexIInv'
<1> SUFFICES ASSUME IndexIInv, IndexNext PROVE IndexIInv'
  OBVIOUS
<1>0. /\ updates \in [1..Updates -> UpdateRows] /\ Updates \in Nat
      /\ indexRows \subseteq (1..Updates) \X StoredItems
  BY CollectionsAssumption DEF IndexIInv
<1>1. ASSUME NEW n \in 1..Updates, NEW i \in StoredItems, UpdateDeletes(n, i) PROVE IndexIInv'
  <2> DEFINE row == [at |-> "deleted", item |-> i]
  <2>1. /\ updates[n].at = "new" /\ \A m \in 1..(n - 1) : updates[m].at # "new"
        /\ crossed \subseteq crossed' /\ kept \subseteq kept' /\ indexRows' \subseteq indexRows
        /\ \A m \in 1..Updates : Between(m) /\ updates[m].item = i => <<m, n>> \in crossed' \/ n \in kept'
        /\ n \in kept' \/ \A s \in indexRows' : s[2] # i
        /\ \A s \in indexRows : s[2] # i => s \in indexRows'
        /\ updates' = [updates EXCEPT ![n] = row] /\ UNCHANGED <<fts5, indexed>>
    <3>1. /\ UpdateBegins(n) /\ updates' = [updates EXCEPT ![n] = row] /\ UNCHANGED <<fts5, indexed>>
          /\ \/ indexRows' = indexRows \ RowsOf(i) /\ crossed' = crossed \cup Crossing(n, i) /\ UNCHANGED kept
             \/ kept' = kept \cup {n} /\ UNCHANGED <<indexRows, crossed>>
      BY <1>1 DEF UpdateDeletes
    <3>2. CASE indexRows' = indexRows \ RowsOf(i) /\ crossed' = crossed \cup Crossing(n, i) /\ UNCHANGED kept
      BY <3>1, <3>2 DEF UpdateBegins, Crossing, RowsOf
    <3>3. CASE kept' = kept \cup {n} /\ UNCHANGED <<indexRows, crossed>>
      BY <3>1, <3>3 DEF UpdateBegins
    <3> QED BY <3>1, <3>2, <3>3
  <2>2. row \in UpdateRows /\ row.at = "deleted" /\ row.item = i
    BY DEF UpdateRows
  <2> HIDE DEF row
  <2>3. /\ updates' \in [1..Updates -> UpdateRows] /\ updates'[n] = row
        /\ \A m \in (1..Updates) \ {n} : updates'[m] = updates[m]
    BY <1>0, <2>1, <2>2
  <2>4. \A m \in 1..Updates : m < n => updates[m].at # "new"
    BY <1>0, <2>1
  <2>5. \A l, m \in 1..Updates : l < m /\ updates'[m].at # "new" => updates'[l].at # "new"
    BY <2>2, <2>3, <2>4 DEF IndexIInv
  <2>6. ASSUME NEW l \in 1..Updates, NEW m \in 1..Updates, l < m, updates'[m].at # "new", Between(l)',
               updates'[l].item = updates'[m].item
        PROVE  <<l, m>> \in crossed' \/ m \in kept'
    <3>1. CASE m = n
      <4>1. updates'[l] = updates[l] /\ Between(l) /\ updates[l].item = i
        BY <1>0, <2>2, <2>3, <2>6, <3>1 DEF Between
      <4> QED BY <2>1, <3>1, <4>1
    <3>2. CASE m # n
      <4>1. updates'[m] = updates[m]
        BY <2>3, <3>2
      <4>2. l # n
        BY <2>1, <2>6, <4>1 DEF IndexIInv
      <4>3. updates'[l] = updates[l] /\ Between(l)
        BY <2>3, <2>6, <4>2 DEF Between
      <4> QED BY <2>1, <2>6, <4>1, <4>3 DEF IndexIInv
    <3> QED BY <3>1, <3>2
  <2>7. ASSUME NEW m \in 1..Updates, NEW j \in StoredItems, <<m, j>> \in indexRows'
        PROVE  /\ updates'[m].at = "done" /\ updates'[m].item = j
               /\ \A l \in 1..Updates :
                    m < l /\ updates'[l].at # "new" /\ updates'[l].item = j => <<m, l>> \in crossed' \/ l \in kept'
    <3>1. <<m, j>> \in indexRows /\ (j # i \/ n \in kept')
      BY <2>1, <2>7
    <3>2. updates[m].at = "done" /\ updates[m].item = j /\ m # n
      BY <2>1, <3>1 DEF IndexIInv
    <3>3. updates'[m] = updates[m]
      BY <2>3, <3>2
    <3>4. ASSUME NEW l \in 1..Updates, m < l, updates'[l].at # "new", updates'[l].item = j
          PROVE  <<m, l>> \in crossed' \/ l \in kept'
      <4>1. CASE l = n
        BY <2>2, <2>3, <3>1, <3>4, <4>1
      <4>2. CASE l # n
        <5>1. updates'[l] = updates[l]
          BY <2>3, <4>2
        <5> QED BY <2>1, <3>1, <3>4, <5>1 DEF IndexIInv
      <4> QED BY <4>1, <4>2
    <3> QED BY <3>2, <3>3, <3>4
  <2>8. ASSUME NEW j \in indexed
        PROVE  RowsOf(j)' # {} \/ \E m \in 1..Updates : Between(m)' /\ updates'[m].item = j
    <3>1. CASE j = i
      BY <2>2, <2>3, <3>1 DEF Between
    <3>2. CASE j # i
      <4>1. RowsOf(j)' = RowsOf(j)
        BY <2>1, <3>2 DEF RowsOf
      <4>2. \A m \in 1..Updates : Between(m) /\ updates[m].item = j => Between(m)' /\ updates'[m].item = j
        BY <2>1, <2>3 DEF Between
      <4> QED BY <4>1, <4>2 DEF IndexIInv
    <3> QED BY <3>1, <3>2
  <2>9. \A m \in 1..Updates : updates'[m].at # "new" => updates'[m].item \in StoredItems
    BY <2>2, <2>3 DEF IndexIInv
  <2>10. indexRows' \subseteq (1..Updates) \X StoredItems /\ (~fts5 => \A r, s \in indexRows' : r[2] = s[2] => r = s)
    BY <1>0, <2>1 DEF IndexIInv
  <2> QED BY <2>1, <2>3, <2>5, <2>6, <2>7, <2>8, <2>9, <2>10 DEF IndexIInv
<1>2. ASSUME NEW n \in 1..Updates, UpdateInserts(n) PROVE IndexIInv'
  <2> DEFINE i == updates[n].item
             row == [updates[n] EXCEPT !.at = "done"]
  <2>1. /\ updates[n].at = "deleted"
        /\ indexRows' = IF fts5 \/ RowsOf(i) = {} THEN indexRows \cup {<<n, i>>} ELSE indexRows
        /\ indexed' = indexed \cup {i} /\ updates' = [updates EXCEPT ![n] = row] /\ UNCHANGED <<fts5, crossed, kept>>
    BY <1>2 DEF UpdateInserts, Between
  <2>2. row \in UpdateRows /\ row.at = "done" /\ row.item = i
    BY <1>0 DEF UpdateRows
  <2>3. i \in StoredItems
    BY <2>1 DEF IndexIInv
  <2> HIDE DEF row
  <2>4. /\ updates' \in [1..Updates -> UpdateRows] /\ updates'[n] = row
        /\ \A m \in (1..Updates) \ {n} : updates'[m] = updates[m]
    BY <1>0, <2>1, <2>2
  <2>5. \A m \in 1..Updates :
          /\ updates'[m].item = updates[m].item
          /\ Between(m)' => Between(m)
          /\ updates'[m].at # "new" <=> updates[m].at # "new"
          /\ updates[m].at = "done" => updates'[m].at = "done"
    BY <2>1, <2>2, <2>4 DEF Between
  <2>6. ASSUME NEW m \in 1..Updates, NEW j \in StoredItems, <<m, j>> \in indexRows'
        PROVE  /\ updates'[m].at = "done" /\ updates'[m].item = j
               /\ \A l \in 1..Updates :
                    m < l /\ updates'[l].at # "new" /\ updates'[l].item = j => <<m, l>> \in crossed \/ l \in kept
    <3>1. CASE <<m, j>> \in indexRows
      BY <2>5, <3>1 DEF IndexIInv
    <3>2. CASE <<m, j>> = <<n, i>>
      <4>1. m = n /\ j = i
        BY <3>2
      <4>2. \A l \in 1..Updates : n < l /\ updates[l].at # "new" /\ updates[l].item = i => <<n, l>> \in crossed \/ l \in kept
        BY <2>1 DEF IndexIInv, Between
      <4> QED BY <2>2, <2>4, <2>5, <4>1, <4>2
    <3> QED BY <2>1, <2>6, <3>1, <3>2
  <2>7. ~fts5 => \A r, s \in indexRows' : r[2] = s[2] => r = s
    <3>1. CASE ~fts5 /\ RowsOf(i) = {}
      <4>1. indexRows' = indexRows \cup {<<n, i>>} /\ \A r \in indexRows : r[2] # i
        BY <2>1, <3>1 DEF RowsOf
      <4>2. \A r, s \in indexRows : r[2] = s[2] => r = s
        BY <3>1 DEF IndexIInv
      <4> HIDE DEF i
      <4> QED BY <4>1, <4>2
    <3>2. CASE ~fts5 /\ RowsOf(i) # {}
      BY <2>1, <3>2 DEF IndexIInv
    <3> QED BY <3>1, <3>2
  <2>8. ASSUME NEW j \in indexed'
        PROVE  RowsOf(j)' # {} \/ \E m \in 1..Updates : Between(m)' /\ updates'[m].item = j
    <3>1. CASE j = i
      <4>1. \E r \in indexRows' : r[2] = i
        <5>1. CASE fts5 \/ RowsOf(i) = {}
          <6>1. <<n, i>> \in indexRows'
            BY <2>1, <5>1
          <6> HIDE DEF i
          <6> QED BY <6>1
        <5>2. CASE ~(fts5 \/ RowsOf(i) = {})
          BY <2>1, <5>2 DEF RowsOf
        <5> QED BY <5>1, <5>2
      <4> QED BY <3>1, <4>1 DEF RowsOf
    <3>2. CASE j # i
      <4>1. j \in indexed /\ RowsOf(j) \subseteq RowsOf(j)'
        BY <2>1, <2>8, <3>2 DEF RowsOf
      <4>2. \A m \in 1..Updates : Between(m) /\ updates[m].item = j => Between(m)' /\ updates'[m].item = j
        BY <2>4, <3>2 DEF Between
      <4> QED BY <4>1, <4>2 DEF IndexIInv
    <3> QED BY <3>1, <3>2
  <2>9. indexRows' \subseteq (1..Updates) \X StoredItems
    BY <1>0, <2>1, <2>3
  <2>10. \A l, m \in 1..Updates : l < m /\ updates'[m].at # "new" => updates'[l].at # "new"
    BY <2>5 DEF IndexIInv
  <2>11. \A l, m \in 1..Updates :
           l < m /\ updates'[m].at # "new" /\ Between(l)' /\ updates'[l].item = updates'[m].item =>
             <<l, m>> \in crossed' \/ m \in kept'
    BY <2>1, <2>5 DEF IndexIInv
  <2>12. \A m \in 1..Updates : updates'[m].at # "new" => updates'[m].item \in StoredItems
    BY <2>5 DEF IndexIInv
  <2> QED BY <2>1, <2>4, <2>6, <2>7, <2>8, <2>9, <2>10, <2>11, <2>12 DEF IndexIInv
<1>3. ASSUME NEW i \in StoredItems, DeleteFTSIndex(i) PROVE IndexIInv'
  <2>1. /\ indexRows' = indexRows \ RowsOf(i) /\ indexed' = indexed \ {i} /\ UNCHANGED <<fts5, updates, crossed, kept>>
    BY <1>3 DEF DeleteFTSIndex
  <2>2. \A j \in indexed' : RowsOf(j)' = RowsOf(j) /\ j \in indexed
    BY <2>1 DEF RowsOf
  <2>3. indexRows' \subseteq indexRows
    BY <2>1
  <2>4. \A n \in 1..Updates : Between(n)' <=> Between(n)
    BY <2>1 DEF Between
  <2>5. \A j \in indexed' : RowsOf(j)' # {} \/ \E n \in 1..Updates : Between(n)' /\ updates'[n].item = j
    BY <2>1, <2>2, <2>4 DEF IndexIInv
  <2> QED BY <2>1, <2>3, <2>4, <2>5 DEF IndexIInv
<1>4. ASSUME NEW n \in 1..Updates, InsertFails(n) PROVE IndexIInv'
  <2> DEFINE i == updates[n].item
             row == [updates[n] EXCEPT !.at = "done"]
  <2>1. /\ updates[n].at = "deleted" /\ indexed' = indexed \ {i}
        /\ updates' = [updates EXCEPT ![n] = row] /\ UNCHANGED <<fts5, indexRows, crossed, kept>>
    BY <1>4 DEF InsertFails, Between
  <2>2. row \in UpdateRows /\ row.at = "done" /\ row.item = i
    BY <1>0 DEF UpdateRows
  <2> HIDE DEF row
  <2>3. /\ updates' \in [1..Updates -> UpdateRows] /\ updates'[n] = row
        /\ \A m \in (1..Updates) \ {n} : updates'[m] = updates[m]
    BY <1>0, <2>1, <2>2
  <2>4. \A m \in 1..Updates :
          /\ updates'[m].item = updates[m].item
          /\ Between(m)' => Between(m)
          /\ updates'[m].at # "new" <=> updates[m].at # "new"
          /\ updates[m].at = "done" => updates'[m].at = "done"
    BY <2>1, <2>2, <2>3 DEF Between
  <2>5. ASSUME NEW j \in indexed'
        PROVE  RowsOf(j)' # {} \/ \E m \in 1..Updates : Between(m)' /\ updates'[m].item = j
    <3>1. j \in indexed /\ j # i /\ RowsOf(j)' = RowsOf(j)
      BY <2>1, <2>5 DEF RowsOf
    <3>2. \A m \in 1..Updates : Between(m) /\ updates[m].item = j => Between(m)' /\ updates'[m].item = j
      BY <2>3, <3>1 DEF Between
    <3> QED BY <3>1, <3>2 DEF IndexIInv
  <2>6. \A m \in 1..Updates, j \in StoredItems : <<m, j>> \in indexRows =>
          /\ updates'[m].at = "done" /\ updates'[m].item = j
          /\ \A l \in 1..Updates :
               m < l /\ updates'[l].at # "new" /\ updates'[l].item = j => <<m, l>> \in crossed \/ l \in kept
    BY <2>4 DEF IndexIInv
  <2>7. /\ \A l, m \in 1..Updates : l < m /\ updates'[m].at # "new" => updates'[l].at # "new"
        /\ \A l, m \in 1..Updates :
             l < m /\ updates'[m].at # "new" /\ Between(l)' /\ updates'[l].item = updates'[m].item =>
               <<l, m>> \in crossed \/ m \in kept
        /\ \A m \in 1..Updates : updates'[m].at # "new" => updates'[m].item \in StoredItems
    BY <2>4 DEF IndexIInv
  <2> QED BY <2>1, <2>3, <2>5, <2>6, <2>7 DEF IndexIInv
<1> QED BY <1>1, <1>2, <1>3, <1>4 DEF IndexNext

\* The index's invariant gives the property.
LEMMA IndexGives == IndexIInv => IndexIsSound
<1> SUFFICES ASSUME IndexIInv PROVE IndexIsSound
  OBVIOUS
<1>1. ASSUME NEW r \in indexRows, NEW s \in indexRows, r[2] = s[2], r[1] < s[1]
      PROVE  fts5 /\ (<<r[1], s[1]>> \in crossed \/ s[1] \in kept)
  <2>1. /\ r[1] \in 1..Updates /\ r[2] \in StoredItems /\ <<r[1], r[2]>> \in indexRows
        /\ s[1] \in 1..Updates /\ s[2] \in StoredItems /\ <<s[1], s[2]>> \in indexRows
    BY DEF IndexIInv
  <2>2. fts5
    <3>1. r[1] # s[1]
      BY <1>1, <2>1
    <3> QED BY <1>1, <3>1 DEF IndexIInv
  <2>3. updates[s[1]].at = "done" /\ updates[s[1]].item = s[2]
    BY <2>1 DEF IndexIInv
  <2> QED BY <1>1, <2>1, <2>2, <2>3 DEF IndexIInv
<1>2. ASSUME NEW i \in StoredItems, ~fts5 PROVE SearchItemsFTS(i) <= 1
  <2>1. CASE RowsOf(i) = {}
    <3>1. Cardinality(RowsOf(i)) = 0
      BY <2>1, FS_EmptySet, Zenon
    <3> QED BY <3>1 DEF SearchItemsFTS
  <2>2. CASE RowsOf(i) # {}
    <3>1. PICK r \in RowsOf(i) : TRUE
      BY <2>2
    <3>2. \A s \in RowsOf(i) : s = r
      BY <1>2 DEF IndexIInv, RowsOf
    <3>3. RowsOf(i) = {r}
      BY <3>1, <3>2, Zenon
    <3>4. Cardinality({r}) = 1
      BY FS_Singleton
    <3>5. Cardinality(RowsOf(i)) = 1
      BY <3>3, <3>4, Zenon
    <3> QED BY <3>5 DEF SearchItemsFTS
  <2> QED BY <2>1, <2>2
<1>3. \A i \in indexed : RowsOf(i) # {} \/ \E n \in 1..Updates : Between(n) /\ updates[n].item = i
  BY DEF IndexIInv
<1> QED BY <1>1, <1>2, <1>3 DEF IndexIsSound

-----------------------------------------------------------------------------
(* Tags.  Rows have ids of their own and words of their own, and an id a   *)
(* call has is the row's of its word: tagging through it is tagging with   *)
(* the word, whoever made the row.                                         *)

TagRows == [id : Nat \ {0}, word : TagWords]
TaggerStates == [word : TagWords, id : Nat] \cup {Unset}

TagsIInv ==
  /\ taggers \in [Taggers -> TaggerStates]
  /\ tagRows \subseteq TagRows /\ IsFiniteSet(tagRows)
  /\ \A r \in tagRows : r.id <= Cardinality(tagRows)
  /\ \A r, s \in tagRows : r.word = s.word \/ r.id = s.id => r = s
  /\ \A t \in Taggers : taggers[t] # Unset /\ taggers[t].id # 0 =>
       \E r \in tagRows : r.id = taggers[t].id /\ r.word = taggers[t].word
  /\ \A i, w : <<i, w>> \in tagged => \E r \in tagRows : r.word = w
  /\ \A r \in tagRows : \A i : <<i, r.id>> \in itemTags <=> <<i, r.word>> \in tagged
  /\ \A x \in itemTags : x[2] \in Nat /\ x[2] <= Cardinality(tagRows)

\* A call that goes on with an id that is the row's of its word.
LEMMA TaggerGoesOn ==
  ASSUME TagsIInv, NEW t \in Taggers, NEW state \in TaggerStates, taggers' = [taggers EXCEPT ![t] = state],
         tagRows \subseteq tagRows',
         state # Unset /\ state.id # 0 => \E r \in tagRows' : r.id = state.id /\ r.word = state.word
  PROVE  /\ taggers' \in [Taggers -> TaggerStates]
         /\ \A u \in Taggers : taggers'[u] # Unset /\ taggers'[u].id # 0 =>
              \E r \in tagRows' : r.id = taggers'[u].id /\ r.word = taggers'[u].word
<1>1. /\ taggers' \in [Taggers -> TaggerStates] /\ taggers'[t] = state
      /\ \A u \in Taggers \ {t} : taggers'[u] = taggers[u]
  BY DEF TagsIInv
<1>2. ASSUME NEW u \in Taggers, taggers'[u] # Unset, taggers'[u].id # 0
      PROVE  \E r \in tagRows' : r.id = taggers'[u].id /\ r.word = taggers'[u].word
  <2>1. CASE u = t
    BY <1>1, <1>2, <2>1
  <2>2. CASE u # t
    <3>1. taggers'[u] = taggers[u]
      BY <1>1, <2>2
    <3>2. \E r \in tagRows : r.id = taggers[u].id /\ r.word = taggers[u].word
      BY <1>2, <3>1 DEF TagsIInv
    <3> QED BY <3>1, <3>2
  <2> QED BY <2>1, <2>2
<1> QED BY <1>1, <1>2

\* A row with an id and a word no row has keeps the invariant of rows.
LEMMA RowsGrow ==
  ASSUME TagsIInv, NEW word \in TagWords, \A r \in tagRows : r.word # word,
         NEW new, new = [id |-> Cardinality(tagRows) + 1, word |-> word],
         tagRows' = tagRows \cup {new}, UNCHANGED <<itemTags, tagged>>
  PROVE  /\ new \in TagRows /\ new.id = Cardinality(tagRows) + 1 /\ new.word = word
         /\ tagRows' \subseteq TagRows /\ IsFiniteSet(tagRows')
         /\ \A r \in tagRows' : r.id <= Cardinality(tagRows')
         /\ \A r, s \in tagRows' : r.word = s.word \/ r.id = s.id => r = s
         /\ \A r \in tagRows' : \A i : <<i, r.id>> \in itemTags' <=> <<i, r.word>> \in tagged'
         /\ \A x \in itemTags' : x[2] \in Nat /\ x[2] <= Cardinality(tagRows')
<1>1. IsFiniteSet(tagRows) /\ Cardinality(tagRows) \in Nat
  BY FS_CardinalityType DEF TagsIInv
<1>2. new \in TagRows /\ new.id = Cardinality(tagRows) + 1 /\ new.word = word
  BY <1>1 DEF TagRows
<1>3. new \notin tagRows
  BY <1>2
<1>4. IsFiniteSet(tagRows \cup {new}) /\ Cardinality(tagRows \cup {new}) = Cardinality(tagRows) + 1
  BY <1>1, <1>3, FS_AddElement
<1>5. IsFiniteSet(tagRows') /\ Cardinality(tagRows') = Cardinality(tagRows) + 1
  BY <1>4, Zenon
<1>6. \A r \in tagRows : r.id \in Nat /\ r.id <= Cardinality(tagRows)
  BY DEF TagsIInv, TagRows
<1>7. \A r \in tagRows' : r.id <= Cardinality(tagRows')
  BY <1>1, <1>2, <1>5, <1>6
<1>8. \A r, s \in tagRows' : r.word = s.word \/ r.id = s.id => r = s
  <2>1. \A r \in tagRows : r.word # new.word /\ r.id # new.id
    BY <1>1, <1>2, <1>6
  <2>2. \A r, s \in tagRows : r.word = s.word \/ r.id = s.id => r = s
    BY DEF TagsIInv
  <2> QED BY <2>1, <2>2
<1>9. ASSUME NEW i PROVE <<i, new.id>> \notin itemTags /\ <<i, word>> \notin tagged
  <2>1. <<i, new.id>> \notin itemTags
    <3>1. SUFFICES ASSUME <<i, new.id>> \in itemTags PROVE FALSE
      OBVIOUS
    <3>2. <<i, new.id>>[2] <= Cardinality(tagRows)
      BY <3>1 DEF TagsIInv
    <3> QED BY <1>1, <1>2, <3>2
  <2>2. <<i, word>> \notin tagged
    BY DEF TagsIInv
  <2> QED BY <2>1, <2>2
<1>10. \A r \in tagRows' : \A i : <<i, r.id>> \in itemTags' <=> <<i, r.word>> \in tagged'
  BY <1>2, <1>9 DEF TagsIInv
<1>11. \A x \in itemTags' : x[2] \in Nat /\ x[2] <= Cardinality(tagRows')
  BY <1>1, <1>5 DEF TagsIInv
<1> QED BY <1>2, <1>5, <1>7, <1>8, <1>10, <1>11 DEF TagsIInv

\* Every statement about tags keeps their invariant.
LEMMA TagsStep == TagsIInv /\ TagNext => TagsIInv'
<1> SUFFICES ASSUME TagsIInv, TagNext PROVE TagsIInv'
  OBVIOUS
<1>0. Unset \in TaggerStates /\ \A t \in Taggers : taggers[t] \in TaggerStates
  BY DEF TagsIInv, TaggerStates
<1>1. ASSUME NEW t \in Taggers, NEW s \in Spellings, AddTagLooks(t, s) PROVE TagsIInv'
  <2>1. s.word \in TagWords
    BY <1>1, CollectionsAssumption DEF AddTagLooks
  <2>2. PICK id \in Nat : /\ taggers' = [taggers EXCEPT ![t] = [word |-> s.word, id |-> id]]
                          /\ id # 0 => \E r \in tagRows : r.id = id /\ r.word = s.word
    <3>1. CASE \E r \in tagRows : r.word = s.word /\ Tagger(t, s.word, r.id)
      BY <3>1 DEF Tagger, TagsIInv, TagRows
    <3>2. CASE Tagger(t, s.word, 0)
      BY <3>2 DEF Tagger
    <3> QED BY <1>1, <3>1, <3>2 DEF AddTagLooks
  <2> DEFINE state == [word |-> s.word, id |-> id]
  <2>3. state \in TaggerStates /\ state.word = s.word /\ state.id = id /\ taggers' = [taggers EXCEPT ![t] = state]
    BY <2>1, <2>2 DEF TaggerStates
  <2> HIDE DEF state
  <2>4. UNCHANGED <<tagRows, itemTags, tagged>>
    BY <1>1 DEF AddTagLooks
  <2>5. state # Unset /\ state.id # 0 => \E r \in tagRows' : r.id = state.id /\ r.word = state.word
    BY <2>2, <2>3, <2>4
  <2>6. /\ taggers' \in [Taggers -> TaggerStates]
        /\ \A u \in Taggers : taggers'[u] # Unset /\ taggers'[u].id # 0 =>
             \E r \in tagRows' : r.id = taggers'[u].id /\ r.word = taggers'[u].word
    BY <2>3, <2>4, <2>5, TaggerGoesOn
  <2> QED BY <2>4, <2>6 DEF TagsIInv
<1>2. ASSUME NEW t \in Taggers, AddTagInserts(t) PROVE TagsIInv'
  <2>1. /\ taggers[t] # Unset /\ taggers[t].word \in TagWords /\ UNCHANGED <<itemTags, tagged>>
    BY <1>0, <1>2 DEF AddTagInserts, TaggerStates
  <2>2. CASE taggers[t].word \in {r.word : r \in tagRows}
    <3>1. taggers' = [taggers EXCEPT ![t] = Unset] /\ UNCHANGED tagRows
      BY <1>2, <2>2 DEF AddTagInserts
    <3>2. /\ taggers' \in [Taggers -> TaggerStates]
          /\ \A u \in Taggers : taggers'[u] # Unset /\ taggers'[u].id # 0 =>
               \E r \in tagRows' : r.id = taggers'[u].id /\ r.word = taggers'[u].word
      BY <1>0, <3>1, TaggerGoesOn
    <3> QED BY <2>1, <3>1, <3>2 DEF TagsIInv
  <2>3. CASE taggers[t].word \notin {r.word : r \in tagRows}
    <3> DEFINE word == taggers[t].word
               id == Cardinality(tagRows) + 1
               new == [id |-> id, word |-> word]
               state == [word |-> word, id |-> id]
    <3>1. /\ tagRows' = tagRows \cup {new} /\ taggers' = [taggers EXCEPT ![t] = state]
          /\ \A r \in tagRows : r.word # word
      BY <1>2, <2>3 DEF AddTagInserts, Tagger
    <3>2. id \in Nat \ {0}
      BY FS_CardinalityType DEF TagsIInv
    <3>3. state \in TaggerStates /\ state.id = id /\ state.word = word
      BY <2>1, <3>2 DEF TaggerStates
    <3>4. new = [id |-> Cardinality(tagRows) + 1, word |-> word] /\ word \in TagWords
      BY <2>1
    <3> HIDE DEF new, state, word
    <3>5. /\ new \in TagRows /\ new.id = Cardinality(tagRows) + 1 /\ new.word = word
          /\ tagRows' \subseteq TagRows /\ IsFiniteSet(tagRows')
          /\ \A r \in tagRows' : r.id <= Cardinality(tagRows')
          /\ \A r, s \in tagRows' : r.word = s.word \/ r.id = s.id => r = s
          /\ \A r \in tagRows' : \A i : <<i, r.id>> \in itemTags' <=> <<i, r.word>> \in tagged'
          /\ \A x \in itemTags' : x[2] \in Nat /\ x[2] <= Cardinality(tagRows')
      BY <2>1, <3>1, <3>4, RowsGrow
    <3>6. /\ taggers' \in [Taggers -> TaggerStates]
          /\ \A u \in Taggers : taggers'[u] # Unset /\ taggers'[u].id # 0 =>
               \E r \in tagRows' : r.id = taggers'[u].id /\ r.word = taggers'[u].word
      <4>1. tagRows \subseteq tagRows' /\ \E r \in tagRows' : r.id = state.id /\ r.word = state.word
        BY <3>1, <3>3, <3>5
      <4> QED BY <3>1, <3>3, <4>1, TaggerGoesOn
    <3>7. \A i, w : <<i, w>> \in tagged' => \E r \in tagRows' : r.word = w
      BY <2>1, <3>1 DEF TagsIInv
    <3> QED BY <3>5, <3>6, <3>7 DEF TagsIInv
  <2> QED BY <2>2, <2>3
<1>3. ASSUME NEW t \in Taggers, NEW j \in StoredItems, TagItem(t, j) \/ UntagItem(t, j) PROVE TagsIInv'
  <2>1. /\ taggers[t] # Unset /\ taggers[t].id # 0 /\ UNCHANGED <<tagRows, taggers>>
        /\ \/ itemTags' = itemTags \cup {<<j, taggers[t].id>>} /\ tagged' = tagged \cup {<<j, taggers[t].word>>}
           \/ itemTags' = itemTags \ {<<j, taggers[t].id>>} /\ tagged' = tagged \ {<<j, taggers[t].word>>}
    BY <1>3 DEF TagItem, UntagItem
  <2>2. PICK q \in tagRows : q.id = taggers[t].id /\ q.word = taggers[t].word
    BY <2>1 DEF TagsIInv
  <2>3. \A r \in tagRows : (r.id = q.id <=> r = q) /\ (r.word = q.word <=> r = q)
    BY DEF TagsIInv
  <2>4. \/ itemTags' = itemTags \cup {<<j, q.id>>} /\ tagged' = tagged \cup {<<j, q.word>>}
        \/ itemTags' = itemTags \ {<<j, q.id>>} /\ tagged' = tagged \ {<<j, q.word>>}
    BY <2>1, <2>2
  <2>5. ASSUME NEW r \in tagRows, NEW i PROVE <<i, r.id>> \in itemTags' <=> <<i, r.word>> \in tagged'
    <3>1. <<i, r.id>> \in itemTags <=> <<i, r.word>> \in tagged
      BY DEF TagsIInv
    <3>2. (<<i, r.id>> = <<j, q.id>> <=> i = j /\ r = q) /\ (<<i, r.word>> = <<j, q.word>> <=> i = j /\ r = q)
      BY <2>3
    <3> QED BY <2>4, <3>1, <3>2
  <2>6. \A i, w : <<i, w>> \in tagged' => \E r \in tagRows : r.word = w
    BY <2>4 DEF TagsIInv
  <2>7. \A x \in itemTags' : x[2] \in Nat /\ x[2] <= Cardinality(tagRows)
    BY <2>4 DEF TagsIInv, TagRows
  <2> QED BY <2>1, <2>5, <2>6, <2>7 DEF TagsIInv
<1>4. ASSUME NEW t \in Taggers, TaggerEnds(t) PROVE TagsIInv'
  <2>1. taggers' = [taggers EXCEPT ![t] = Unset] /\ UNCHANGED <<tagRows, itemTags, tagged>>
    BY <1>4 DEF TaggerEnds
  <2>2. /\ taggers' \in [Taggers -> TaggerStates]
        /\ \A u \in Taggers : taggers'[u] # Unset /\ taggers'[u].id # 0 =>
             \E r \in tagRows' : r.id = taggers'[u].id /\ r.word = taggers'[u].word
    BY <1>0, <2>1, TaggerGoesOn
  <2> QED BY <2>1, <2>2 DEF TagsIInv
<1> QED BY <1>1, <1>2, <1>3, <1>4 DEF TagNext

\* What a search by a word shows is what has the id of the word's one row.
LEMMA TagsGive == TagsIInv => TagsAreSound
<1> SUFFICES ASSUME TagsIInv, NEW s \in Spellings
             PROVE  SearchItemsByTag(s) = {i \in stored : <<i, s.word>> \in tagged}
  BY DEF TagsAreSound
<1>1. ASSUME NEW i PROVE (\E r \in tagRows : r.word = s.word /\ <<i, r.id>> \in itemTags) <=> <<i, s.word>> \in tagged
  BY DEF TagsIInv
<1> QED BY <1>1 DEF SearchItemsByTag

-----------------------------------------------------------------------------
CollectionsIInv == AutosIInv /\ IndexIInv /\ TagsIInv

\* The three invariants hold at the start.
LEMMA CollectionsStarts == CollectionsInit => CollectionsIInv
<1> SUFFICES ASSUME CollectionsInit PROVE CollectionsIInv
  OBVIOUS
<1>1. AutosIInv
  <2> DEFINE row == [at |-> "new", kinds |-> {}, kind |-> "none", todo |-> {}]
  <2>1. row \in RefreshRows /\ row.at = "new" /\ row.kinds = {}
    BY DEF RefreshRows
  <2>2. refreshes = [n \in 1..Refreshes |-> row]
    BY DEF CollectionsInit
  <2> HIDE DEF row
  <2>3. AutosTyped
    BY <2>1, <2>2 DEF CollectionsInit, AutosTyped
  <2>4. KindsAreOpen
    BY <2>1, <2>2 DEF KindsAreOpen
  <2>5. PoolHolds
    <3>1. KindsOpen = {} /\ ItemsOpen = {}
      BY <2>1, <2>2 DEF KindsOpen, ItemsOpen
    <3>2. Cardinality(KindsOpen) = 0
      BY <3>1, FS_EmptySet, Zenon
    <3>3. Cardinality(ItemsOpen) = 0
      BY <3>1, FS_EmptySet, Zenon
    <3>4. pool \in Nat /\ autos = {} /\ autoItems = {}
      BY CollectionsAssumption DEF CollectionsInit
    <3> QED BY <3>2, <3>3, <3>4 DEF PoolHolds, InUse
  <2> QED BY <2>3, <2>4, <2>5 DEF AutosIInv
<1>2. IndexIInv
  BY DEF CollectionsInit, IndexIInv, UpdateRows
<1>3. TagsIInv
  <2>1. taggers \in [Taggers -> TaggerStates]
    BY DEF CollectionsInit, TaggerStates
  <2>2. \A t \in Taggers : taggers[t] = Unset
    BY DEF CollectionsInit
  <2> QED BY <2>1, <2>2, FS_EmptySet DEF CollectionsInit, TagsIInv
<1> QED BY <1>1, <1>2, <1>3 DEF CollectionsIInv

\* The three parts share no state: a step of one leaves the others.
LEMMA CollectionsStep == CollectionsIInv /\ [CollectionsNext]_collectionsVars => CollectionsIInv'
<1> SUFFICES ASSUME CollectionsIInv, [CollectionsNext]_collectionsVars PROVE CollectionsIInv'
  OBVIOUS
<1> USE DEF CollectionsIInv
<1>1. UNCHANGED autoVars => AutosIInv'
  <2> SUFFICES ASSUME UNCHANGED <<stored, pool, autos, autoItems, refreshes>> PROVE AutosIInv'
    BY DEF autoVars
  <2>1. AutosTyped' /\ KindsAreOpen'
    BY DEF AutosIInv, AutosTyped, KindsAreOpen
  <2>3. PoolHolds'
    BY DEF AutosIInv, PoolHolds, InUse, KindsOpen, ItemsOpen
  <2> QED BY <2>1, <2>3 DEF AutosIInv
<1>2. UNCHANGED indexVars => IndexIInv'
  BY DEF indexVars, IndexIInv, Between, RowsOf
<1>3. UNCHANGED tagVars => TagsIInv'
  BY DEF tagVars, TagsIInv
<1>4. CASE AutoNext
  BY <1>2, <1>3, <1>4, AutosStep DEF AutoNext
<1>5. CASE IndexNext
  BY <1>1, <1>3, <1>5, IndexStep DEF IndexNext
<1>6. CASE TagNext
  BY <1>1, <1>2, <1>6, TagsStep DEF TagNext
<1>7. CASE UNCHANGED collectionsVars
  BY <1>1, <1>2, <1>3, <1>7 DEF collectionsVars
<1> QED BY <1>4, <1>5, <1>6, <1>7 DEF CollectionsNext

\* The three invariants together give the property.
LEMMA CollectionsGive == CollectionsIInv => CollectionsInv
<1> SUFFICES ASSUME CollectionsIInv PROVE CollectionsInv
  OBVIOUS
<1>1. RefreshesWait /\ IndexIsSound /\ TagsAreSound
  BY AutosGive, IndexGives, TagsGive DEF CollectionsIInv
<1>2. CollectionsTypeOK
  BY DEF CollectionsIInv, AutosIInv, IndexIInv, TagsIInv, AutosTyped, RefreshRows, MediaKinds, TaggerStates, CollectionsTypeOK
<1> QED BY <1>1, <1>2 DEF CollectionsInv

\* CollectionsInv holds of the collections, the tags and the search index.
THEOREM CollectionsCorrect == CollectionsSpec => []CollectionsInv
<1>1. CollectionsSpec => []CollectionsIInv
  BY CollectionsStarts, CollectionsStep, PTL DEF CollectionsSpec
<1> QED BY <1>1, CollectionsGive, PTL

-----------------------------------------------------------------------------
(* Replication.  A post counts as sent until it has arrived or failed.     *)

Replicas == ReplNodes \ {Source}

\* The posts under way to n, and those of them that hold frame f.
PostsTo(n) == {p \in posts : p.to = n}
Carrying(n, f) == {p \in PostsTo(n) : f \in ToSet(p.data)}

\* How often n has frame f, or may come to have it.
Sent(n, f) == Copies(wal[n], f) + Cardinality(Carrying(n, f))

\* The frames after the b-th, in their order.
RunFrom(log, b) == \A i \in 1..Len(log) : log[i] = b + i

PostsTyped ==
  /\ wal \in [ReplNodes -> Log]
  /\ frames \in 0..Frames /\ shipped \in 0..Shipments
  /\ lastSent \in 0..frames /\ since \in 0..frames
  /\ posts \subseteq [to : Replicas, data : Log, number : 1..shipped]
  /\ \A n \in Replicas : IsFiniteSet(PostsTo(n))

RunsOfSource ==
  /\ RunFrom(wal[Source], since) /\ Len(wal[Source]) = frames - since
  /\ \A p \in posts : \E b \in 0..since : RunFrom(p.data, b) /\ b + Len(p.data) <= frames

\* The copies of f that the shipments account for when the last was of a log this long.
Room(long, f) == IF f <= long + 2 THEN long + 2 - f ELSE 0

SentBounded ==
  /\ \A n \in Replicas : \A i \in 1..Len(wal[n]) : wal[n][i] <= frames
  /\ \A n \in Replicas, f \in 1..Frames : Sent(n, f) <= shipped
  /\ since = 0 => \A n \in Replicas, f \in 1..Frames : Sent(n, f) <= Room(lastSent, f)
  /\ since = 0 => \A n \in Replicas : \A f, g \in 1..Frames :
       g <= f => Copies(wal[n], g) >= Copies(wal[n], f)

ReplIInv == PostsTyped /\ RunsOfSource /\ SentBounded

\* What is in a sequence, also when another is appended to it.
LEMMA SeqElements ==
  ASSUME NEW S, NEW s \in Seq(S)
  PROVE  Len(s) \in Nat /\ \A i \in 1..Len(s) : s[i] \in S
OBVIOUS

\* One sequence after another.
LEMMA SeqAppended ==
  ASSUME NEW S, NEW s \in Seq(S), NEW t \in Seq(S)
  PROVE  /\ s \o t \in Seq(S) /\ Len(s \o t) = Len(s) + Len(t)
         /\ \A i \in 1..Len(s) : (s \o t)[i] = s[i]
         /\ \A i \in 1..Len(t) : (s \o t)[Len(s) + i] = t[i]
OBVIOUS

\* A log after a log is a log.
LEMMA LogAppended ==
  ASSUME NEW s \in Log, NEW t \in Log
  PROVE  /\ s \o t \in Log /\ Len(s) \in Nat /\ Len(t) \in Nat /\ Len(s \o t) = Len(s) + Len(t)
         /\ \A i \in 1..Len(s) : (s \o t)[i] = s[i]
         /\ \A i \in 1..Len(t) : (s \o t)[Len(s) + i] = t[i]
<1>1. s \in Seq(1..Frames) /\ t \in Seq(1..Frames)
  BY DEF Log
<1>2. s \o t \in Seq(1..Frames) /\ Len(s \o t) = Len(s) + Len(t)
  BY <1>1, SeqAppended
<1>3. \A i \in 1..Len(s) : (s \o t)[i] = s[i]
  BY <1>1, SeqAppended
<1>4. \A i \in 1..Len(t) : (s \o t)[Len(s) + i] = t[i]
  BY <1>1, SeqAppended
<1> QED BY <1>1, <1>2, <1>3, <1>4, SeqElements DEF Log

\* Copies is the size of a finite set.
LEMMA CopiesType ==
  ASSUME NEW s \in Log, NEW f
  PROVE  IsFiniteSet({i \in 1..Len(s) : s[i] = f}) /\ Copies(s, f) \in Nat
<1>1. Len(s) \in Nat
  BY DEF Log
<1>2. 1 \in Int /\ Len(s) \in Int
  BY <1>1
<1>3. IsFiniteSet(1..Len(s))
  BY <1>2, FS_Interval
<1>4. {i \in 1..Len(s) : s[i] = f} \in SUBSET (1..Len(s))
  OBVIOUS
<1>5. IsFiniteSet({i \in 1..Len(s) : s[i] = f})
  BY <1>3, <1>4, FS_Subset
<1> QED BY <1>5, FS_CardinalityType DEF Copies

\* What is appended adds its copies.
LEMMA CopiesAppended ==
  ASSUME NEW s \in Log, NEW t \in Log, NEW f
  PROVE  Copies(s \o t, f) = Copies(s, f) + Copies(t, f)
<1> DEFINE A == {i \in 1..Len(s) : s[i] = f}
           B == {i \in 1..Len(t) : t[i] = f}
           C == {i \in 1..Len(s \o t) : (s \o t)[i] = f}
           D == {j \in (Len(s) + 1)..(Len(s) + Len(t)) : t[j - Len(s)] = f}
           shift == [i \in B |-> Len(s) + i]
<1>1. Len(s) \in Nat /\ Len(t) \in Nat /\ Len(s \o t) = Len(s) + Len(t)
  BY DEF Log
<1>2. \A i \in 1..Len(s) : (s \o t)[i] = s[i]
  BY DEF Log
<1>3. \A i \in (Len(s) + 1)..(Len(s) + Len(t)) : (s \o t)[i] = t[i - Len(s)]
  BY DEF Log
<1>4. C = A \cup D
  BY <1>1, <1>2, <1>3
<1>5. A \cap D = {}
  BY <1>1
<1>6. IsFiniteSet(A) /\ IsFiniteSet(B) /\ Cardinality(A) \in Nat /\ Cardinality(B) \in Nat
  BY CopiesType, FS_CardinalityType
<1>7. ExistsBijection(B, D)
  <2>1. shift \in [B -> D]
    BY <1>1
  <2>2. \A i, j \in B : i # j => shift[i] # shift[j]
    BY <1>1
  <2>3. \A j \in D : j - Len(s) \in B /\ shift[j - Len(s)] = j
    BY <1>1
  <2>4. \A j \in D : \E i \in B : shift[i] = j
    BY <2>3
  <2>5. shift \in Bijection(B, D)
    BY <2>1, <2>2, <2>4 DEF Bijection, Injection, Surjection, IsInjective
  <2> QED BY <2>5 DEF ExistsBijection
<1>8. IsFiniteSet(D) /\ Cardinality(D) = Cardinality(B)
  BY <1>6, <1>7, FS_Bijection
<1>9. Cardinality(C) = Cardinality(A) + Cardinality(D)
  <2>1. Cardinality(A \cup D) = Cardinality(A) + Cardinality(D) - Cardinality(A \cap D)
    BY <1>6, <1>8, FS_Union
  <2>2. Cardinality(A \cap D) = 0
    BY <1>5, FS_EmptySet
  <2>3. Cardinality(A) + Cardinality(D) - 0 = Cardinality(A) + Cardinality(D)
    BY <1>6, <1>8
  <2> QED BY <1>4, <2>1, <2>2, <2>3, Zenon
<1> QED BY <1>8, <1>9, Zenon DEF Copies

\* A run has each of its frames once.
LEMMA CopiesOfRun ==
  ASSUME NEW s \in Log, NEW b \in Nat, RunFrom(s, b), NEW f \in Nat
  PROVE  /\ f \in ToSet(s) <=> b < f /\ f <= b + Len(s)
         /\ Copies(s, f) = IF f \in ToSet(s) THEN 1 ELSE 0
<1> DEFINE A == {i \in 1..Len(s) : s[i] = f}
<1>1. Len(s) \in Nat /\ DOMAIN s = 1..Len(s)
  BY DEF Log
<1>2. f \in ToSet(s) <=> \E i \in 1..Len(s) : b + i = f
  BY <1>1 DEF ToSet, RunFrom
<1>3. f \in ToSet(s) <=> b < f /\ f <= b + Len(s)
  <2>1. ASSUME b < f, f <= b + Len(s)
        PROVE  f - b \in 1..Len(s) /\ b + (f - b) = f
    BY <2>1, <1>1
  <2> QED BY <1>1, <1>2, <2>1
<1>4. CASE f \in ToSet(s)
  <2>1. f - b \in 1..Len(s)
    BY <1>1, <1>3, <1>4
  <2>2. A = {f - b}
    BY <1>1, <2>1 DEF RunFrom
  <2>3. Cardinality(A) = 1
    BY <2>2, FS_Singleton, Zenon
  <2> QED BY <1>3, <1>4, <2>3 DEF Copies
<1>5. CASE f \notin ToSet(s)
  <2>1. A = {}
    BY <1>1, <1>2, <1>5 DEF RunFrom
  <2>2. Cardinality(A) = 0
    BY <2>1, FS_EmptySet, Zenon
  <2> QED BY <1>3, <1>5, <2>2 DEF Copies
<1> QED BY <1>4, <1>5

\* The posts that hold a frame are finitely many.
LEMMA CarryingType ==
  ASSUME PostsTyped, NEW n \in Replicas, NEW f
  PROVE  IsFiniteSet(Carrying(n, f)) /\ Cardinality(Carrying(n, f)) \in Nat
<1>1. Carrying(n, f) \in SUBSET PostsTo(n)
  BY DEF Carrying
<1>2. IsFiniteSet(Carrying(n, f))
  BY <1>1, FS_Subset DEF PostsTyped
<1> QED BY <1>2, FS_CardinalityType

\* No frame was written at the start.
LEMMA ReplInitHolds == ReplInit => ReplIInv
<1> SUFFICES ASSUME ReplInit PROVE ReplIInv
  OBVIOUS
<1> USE DEF ReplInit
<1>1. PostsTyped
  <2>1. \A n : PostsTo(n) = {}
    BY DEF PostsTo
  <2> QED BY <2>1, ReplicationAssumption, FS_EmptySet DEF PostsTyped, Log
<1>2. RunsOfSource
  BY ReplicationAssumption DEF RunsOfSource, RunFrom
<1>3. ASSUME NEW n \in Replicas, NEW f
      PROVE  wal[n] = <<>> /\ Len(wal[n]) = 0 /\ Copies(wal[n], f) = 0 /\ Sent(n, f) = 0
  <2>1. wal[n] = <<>> /\ Len(wal[n]) = 0
    BY DEF Replicas
  <2>2. {i \in 1..Len(wal[n]) : wal[n][i] = f} = {}
    BY <2>1
  <2>3. Copies(wal[n], f) = 0
    BY <2>2, FS_EmptySet, Zenon DEF Copies
  <2>4. Carrying(n, f) = {}
    BY DEF Carrying, PostsTo
  <2>5. Cardinality(Carrying(n, f)) = 0
    BY <2>4, FS_EmptySet, Zenon
  <2> QED BY <2>1, <2>3, <2>5 DEF Sent
<1>4. \A f \in 1..Frames : Room(lastSent, f) >= 0
  BY ReplicationAssumption DEF Room
<1>5. SentBounded
  <2>1. \A n \in Replicas : \A i \in 1..Len(wal[n]) : wal[n][i] <= frames
    BY <1>3
  <2>2. \A n \in Replicas, f \in 1..Frames : Sent(n, f) <= shipped /\ Sent(n, f) <= Room(lastSent, f)
    BY <1>3, <1>4
  <2>3. \A n \in Replicas : \A f, g \in 1..Frames : Copies(wal[n], g) >= Copies(wal[n], f)
    BY <1>3
  <2> QED BY <2>1, <2>2, <2>3 DEF SentBounded
<1> QED BY <1>1, <1>2, <1>5 DEF ReplIInv

\* A step that leaves the replicas and the posts alone.
LEMMA SentUnchanged ==
  ASSUME PostsTyped, SentBounded, UNCHANGED <<posts, lastSent, shipped>>,
         \A n \in Replicas : wal'[n] = wal[n], frames' \in frames..Frames,
         since' \in Nat, since' = 0 => since = 0
  PROVE  SentBounded'
<1>1. \A n \in Replicas, f \in 1..Frames : Sent(n, f)' = Sent(n, f)
  BY DEF Sent, Carrying, PostsTo
<1>2. \A f \in 1..Frames : Room(lastSent', f) = Room(lastSent, f)
  BY DEF Room
<1>3. ASSUME NEW n \in Replicas, NEW i \in 1..Len(wal[n])
      PROVE  wal[n][i] \in 1..Frames
  <2>1. wal[n] \in Seq(1..Frames)
    BY DEF PostsTyped, Log, Replicas
  <2> QED BY <2>1, SeqElements
<1>4. \A n \in Replicas : \A i \in 1..Len(wal'[n]) : wal'[n][i] <= frames'
  BY <1>3, ReplicationAssumption DEF SentBounded, PostsTyped
<1>5. \A n \in Replicas, f \in 1..Frames : Sent(n, f)' <= shipped'
  BY <1>1 DEF SentBounded
<1>6. since' = 0 => \A n \in Replicas, f \in 1..Frames : Sent(n, f)' <= Room(lastSent', f)
  BY <1>1, <1>2 DEF SentBounded
<1>7. since' = 0 => \A n \in Replicas : \A f, g \in 1..Frames :
        g <= f => Copies(wal'[n], g) >= Copies(wal'[n], f)
  BY DEF SentBounded
<1> QED BY <1>4, <1>5, <1>6, <1>7 DEF SentBounded

\* The source writes its next frame.
LEMMA WriteFrameKeeps ==
  ASSUME ReplIInv, WriteFrame
  PROVE  ReplIInv'
<1> USE DEF ReplIInv, WriteFrame
<1>1. wal[Source] \in Log /\ frames + 1 \in 1..Frames /\ Source \in ReplNodes
  BY ReplicationAssumption DEF PostsTyped
<1>2. Append(wal[Source], frames + 1) \in Log
  BY <1>1 DEF Log
<1>3. PostsTyped'
  BY <1>1, <1>2, ReplicationAssumption DEF PostsTyped, PostsTo, Replicas
<1>4. wal'[Source] = Append(wal[Source], frames + 1)
  BY <1>1 DEF PostsTyped
<1>5. RunsOfSource'
  <2>1. Len(wal'[Source]) = frames' - since' /\ RunFrom(wal'[Source], since')
    BY <1>1, <1>4, ReplicationAssumption DEF RunsOfSource, RunFrom, PostsTyped, Log
  <2>2. ASSUME NEW p \in posts'
        PROVE  \E b \in 0..since' : RunFrom(p.data, b) /\ b + Len(p.data) <= frames'
    <3>1. PICK b \in 0..since : RunFrom(p.data, b) /\ b + Len(p.data) <= frames
      BY <2>2 DEF RunsOfSource
    <3>2. Len(p.data) \in Nat
      BY <2>2 DEF PostsTyped, Log
    <3>3. b + Len(p.data) <= frames'
      BY <3>1, <3>2, ReplicationAssumption DEF PostsTyped
    <3> QED BY <3>1, <3>3
  <2> QED BY <2>1, <2>2 DEF RunsOfSource
<1>6. \A n \in Replicas : wal'[n] = wal[n]
  BY DEF PostsTyped, PostsTo, Replicas
<1>7. frames' \in frames..Frames /\ since' \in Nat /\ (since' = 0 => since = 0)
  BY <1>1, ReplicationAssumption DEF PostsTyped
<1>8. SentBounded'
  BY <1>6, <1>7, SentUnchanged
<1> QED BY <1>3, <1>5, <1>8

\* A checkpoint empties the source's log.
LEMMA CheckpointKeeps ==
  ASSUME ReplIInv, Checkpoint
  PROVE  ReplIInv'
<1> USE DEF ReplIInv, Checkpoint
<1>1. wal[Source] \in Log /\ Source \in ReplNodes /\ <<>> \in Log
  BY ReplicationAssumption DEF PostsTyped, Log
<1>2. PostsTyped'
  BY <1>1, ReplicationAssumption DEF PostsTyped, PostsTo, Replicas
<1>3. wal'[Source] = <<>>
  BY <1>1 DEF PostsTyped
<1>4. frames > 0
  BY <1>1, ReplicationAssumption DEF RunsOfSource, PostsTyped, Log
<1>5. RunsOfSource'
  <2>1. Len(wal'[Source]) = frames' - since' /\ RunFrom(wal'[Source], since')
    BY <1>3, ReplicationAssumption DEF RunFrom, PostsTyped
  <2>2. ASSUME NEW p \in posts'
        PROVE  \E b \in 0..since' : RunFrom(p.data, b) /\ b + Len(p.data) <= frames'
    <3>1. PICK b \in 0..since : RunFrom(p.data, b) /\ b + Len(p.data) <= frames
      BY <2>2 DEF RunsOfSource
    <3>2. b \in 0..since'
      BY ReplicationAssumption DEF PostsTyped
    <3> QED BY <3>1, <3>2
  <2> QED BY <2>1, <2>2 DEF RunsOfSource
<1>6. \A n \in Replicas : wal'[n] = wal[n]
  BY DEF PostsTyped, PostsTo, Replicas
<1>7. frames' \in frames..Frames /\ since' \in Nat /\ (since' = 0 => since = 0)
  BY <1>4, ReplicationAssumption DEF PostsTyped
<1>8. SentBounded'
  BY <1>6, <1>7, SentUnchanged
<1> QED BY <1>2, <1>5, <1>8

\* A shipment that is longer than the last makes room for its frames.
LEMMA RoomGrows ==
  ASSUME NEW f \in Nat, NEW s \in Nat, NEW t \in Nat, s + 1 <= t, NEW l \in Nat, l <= t + 1
  PROVE  /\ Room(s, f) \in Nat /\ Room(t, f) \in Nat /\ Room(s, f) <= Room(t, f)
         /\ f <= l => Room(s, f) + 1 <= Room(t, f)
BY DEF Room

\* The log is shipped to the healthy replicas when it has grown.
LEMMA ShipKeeps ==
  ASSUME ReplIInv, NEW healthy \in SUBSET ReplNodes, NEW grown \in BOOLEAN, ShipWAL(healthy, grown)
  PROVE  ReplIInv'
<1> DEFINE more == IF grown /\ frames < Frames THEN <<frames + 1>> ELSE <<>>
           whole == wal[Source] \o more
           post(n) == [to |-> n, data |-> whole, number |-> shipped + 1]
           new == {post(n) : n \in healthy \ {Source}}
<1> USE DEF ReplIInv
<1>0. /\ shipped < Shipments /\ Len(wal[Source]) > lastSent
      /\ wal' = [wal EXCEPT ![Source] = whole] /\ frames' = frames + Len(more)
      /\ shipped' = shipped + 1 /\ posts' = posts \cup new
      /\ lastSent' = Len(wal[Source]) /\ since' = since
  BY DEF ShipWAL
<1>1. /\ wal[Source] \in Log /\ Source \in ReplNodes /\ Len(wal[Source]) \in Nat
      /\ frames \in 0..Frames /\ since \in 0..frames /\ Len(wal[Source]) = frames - since
      /\ \A i \in 1..Len(wal[Source]) : wal[Source][i] = since + i
  BY ReplicationAssumption DEF PostsTyped, Log, RunsOfSource, RunFrom
<1>2. /\ more \in Log /\ Len(more) \in {0, 1} /\ frames + Len(more) \in 0..Frames
      /\ Len(more) = 1 => more[1] = frames + 1
  <2>1. CASE grown /\ frames < Frames
    <3>1. frames + 1 \in 1..Frames /\ more = <<frames + 1>>
      BY <1>1, <2>1, ReplicationAssumption
    <3>2. <<frames + 1>> \in Seq(1..Frames) /\ Len(<<frames + 1>>) = 1 /\ <<frames + 1>>[1] = frames + 1
      BY <3>1
    <3>3. frames + 1 \in 0..Frames
      BY <1>1, <3>1
    <3> HIDE DEF more
    <3> QED BY <3>1, <3>2, <3>3 DEF Log
  <2>2. CASE ~(grown /\ frames < Frames)
    <3>1. more = <<>>
      BY <2>2
    <3>2. <<>> \in Seq(1..Frames) /\ Len(<<>>) = 0
      OBVIOUS
    <3>3. frames + 0 \in 0..Frames
      BY <1>1
    <3> HIDE DEF more
    <3> QED BY <3>1, <3>2, <3>3 DEF Log
  <2> QED BY <2>1, <2>2
<1> HIDE DEF more
<1>3. /\ whole \in Log /\ Len(whole) = Len(wal[Source]) + Len(more)
      /\ \A i \in 1..Len(wal[Source]) : whole[i] = wal[Source][i]
      /\ Len(more) = 1 => whole[Len(wal[Source]) + 1] = more[1]
  <2>1. wal[Source] \in Seq(1..Frames) /\ more \in Seq(1..Frames)
    BY <1>1, <1>2 DEF Log
  <2>2. /\ whole \in Seq(1..Frames) /\ Len(whole) = Len(wal[Source]) + Len(more)
        /\ \A i \in 1..Len(wal[Source]) : whole[i] = wal[Source][i]
        /\ \A i \in 1..Len(more) : whole[Len(wal[Source]) + i] = more[i]
    BY <2>1, SeqAppended
  <2>3. Len(more) = 1 => 1 \in 1..Len(more)
    BY <1>2
  <2> HIDE DEF whole
  <2> QED BY <2>2, <2>3 DEF Log
<1>4. RunFrom(whole, since) /\ since + Len(whole) = frames'
  <2> HIDE DEF whole
  <2>1. \A i \in 1..Len(whole) : i \in 1..Len(wal[Source]) \/ (Len(more) = 1 /\ i = Len(wal[Source]) + 1)
    <3>1. Len(wal[Source]) \in Nat /\ Len(more) \in {0, 1} /\ Len(whole) = Len(wal[Source]) + Len(more)
      BY <1>1, <1>2, <1>3
    <3>2. ASSUME NEW l \in Nat, NEW m \in {0, 1}, NEW i \in 1..(l + m)
          PROVE  i \in 1..l \/ (m = 1 /\ i = l + 1)
      BY <3>2
    <3> HIDE DEF whole, more
    <3> QED BY ONLY <3>1, <3>2
  <2>2. \A i \in 1..Len(whole) : whole[i] = since + i
    BY <1>1, <1>2, <1>3, <2>1
  <2> QED BY <1>0, <1>1, <1>2, <1>3, <2>2 DEF RunFrom
<1> HIDE DEF whole
<1>5. ASSUME NEW n \in Replicas
      PROVE  PostsTo(n)' = IF n \in healthy THEN PostsTo(n) \cup {post(n)} ELSE PostsTo(n)
  BY <1>0, <1>5 DEF PostsTo, Replicas
<1>6. PostsTyped'
  <2>1. wal' \in [ReplNodes -> Log]
    BY <1>0, <1>3 DEF PostsTyped
  <2>2. frames' \in 0..Frames /\ shipped' \in 0..Shipments /\ lastSent' \in 0..frames' /\ since' \in 0..frames'
    BY <1>0, <1>1, <1>2, ReplicationAssumption DEF PostsTyped
  <2>3. \A p \in new : p \in [to : Replicas, data : Log, number : 1..shipped']
    BY <1>0, <1>3, ReplicationAssumption DEF PostsTyped, Replicas
  <2>4. \A p \in posts : p \in [to : Replicas, data : Log, number : 1..shipped']
    BY <1>0, ReplicationAssumption DEF PostsTyped
  <2>5. ASSUME NEW n \in Replicas PROVE IsFiniteSet(PostsTo(n)')
    <3>1. IsFiniteSet(PostsTo(n)) /\ IsFiniteSet(PostsTo(n) \cup {post(n)})
      BY FS_AddElement DEF PostsTyped
    <3>2. CASE n \in healthy
      BY <1>5, <3>1, <3>2
    <3>3. CASE n \notin healthy
      BY <1>5, <3>1, <3>3
    <3> QED BY <3>2, <3>3
  <2> QED BY <1>0, <2>1, <2>2, <2>3, <2>4, <2>5 DEF PostsTyped
<1>7. RunsOfSource'
  <2>1. wal'[Source] = whole
    BY <1>0, <1>1 DEF PostsTyped
  <2>2. RunFrom(wal'[Source], since') /\ Len(wal'[Source]) = frames' - since'
    BY <1>0, <1>1, <1>3, <1>4, <2>1
  <2>3. ASSUME NEW p \in posts'
        PROVE  \E b \in 0..since' : RunFrom(p.data, b) /\ b + Len(p.data) <= frames'
    <3>1. CASE p \in posts
      <4>1. PICK b \in 0..since : RunFrom(p.data, b) /\ b + Len(p.data) <= frames
        BY <3>1 DEF RunsOfSource
      <4>2. Len(p.data) \in Nat
        BY <3>1 DEF PostsTyped, Log
      <4>3. b + Len(p.data) <= frames'
        BY <1>0, <1>1, <1>2, <4>1, <4>2
      <4> QED BY <1>0, <4>1, <4>3
    <3>2. CASE p \in new
      <4>1. p.data = whole
        BY <3>2
      <4> QED BY <1>0, <1>1, <1>2, <1>3, <1>4, <4>1
    <3> QED BY <1>0, <2>3, <3>1, <3>2
  <2> QED BY <2>2, <2>3 DEF RunsOfSource
<1>8. ASSUME NEW n \in Replicas, NEW f \in 1..Frames
      PROVE  /\ wal'[n] = wal[n] /\ Sent(n, f) \in Nat
             /\ \/ Sent(n, f)' = Sent(n, f)
                \/ Sent(n, f)' = Sent(n, f) + 1 /\ f \in ToSet(whole)
  <2>1. wal'[n] = wal[n] /\ wal[n] \in Log
    BY <1>0, <1>8 DEF PostsTyped, Replicas
  <2>2. Copies(wal[n], f) \in Nat /\ IsFiniteSet(Carrying(n, f)) /\ Cardinality(Carrying(n, f)) \in Nat
    BY <2>1, CopiesType, CarryingType
  <2>3. CASE Carrying(n, f)' = Carrying(n, f)
    BY <2>1, <2>2, <2>3 DEF Sent
  <2>4. CASE Carrying(n, f)' = Carrying(n, f) \cup {post(n)} /\ f \in ToSet(whole)
    <3>1. post(n) \notin Carrying(n, f)
      BY ReplicationAssumption DEF Carrying, PostsTo, PostsTyped
    <3>2. Cardinality(Carrying(n, f) \cup {post(n)}) = Cardinality(Carrying(n, f)) + 1
      BY <2>2, <3>1, FS_AddElement
    <3> QED BY <2>1, <2>2, <2>4, <3>2 DEF Sent
  <2>5. f \in ToSet(post(n).data) <=> f \in ToSet(whole)
    OBVIOUS
  <2> QED BY <1>5, <2>3, <2>4, <2>5 DEF Carrying
<1>9. SentBounded'
  <2>1. \A n \in Replicas : \A i \in 1..Len(wal'[n]) : wal'[n][i] <= frames'
    <3> SUFFICES ASSUME NEW n \in Replicas, NEW i \in 1..Len(wal'[n]) PROVE wal'[n][i] <= frames'
      OBVIOUS
    <3>1. wal'[n] = wal[n] /\ wal[n] \in Seq(1..Frames)
      BY <1>0 DEF PostsTyped, Replicas, Log
    <3>2. wal[n][i] \in 1..Frames
      BY <3>1, SeqElements
    <3>3. wal[n][i] <= frames
      BY <3>1 DEF SentBounded
    <3> QED BY <1>0, <1>1, <1>2, <3>1, <3>2, <3>3
  <2>2. \A n \in Replicas, f \in 1..Frames : Sent(n, f)' <= shipped'
    BY <1>0, <1>8, ReplicationAssumption DEF SentBounded, PostsTyped
  <2>3. ASSUME since' = 0, NEW n \in Replicas, NEW f \in 1..Frames
        PROVE  Sent(n, f)' <= Room(lastSent', f)
    <3>1. Sent(n, f) <= Room(lastSent, f) /\ since = 0
      BY <1>0, <2>3 DEF SentBounded
    <3>2. lastSent \in Nat /\ lastSent' \in Nat /\ lastSent' >= lastSent + 1 /\ Len(whole) <= lastSent' + 1
      <4>1. lastSent \in Nat
        BY <1>1, ReplicationAssumption DEF PostsTyped
      <4>2. lastSent' = Len(wal[Source]) /\ Len(wal[Source]) > lastSent /\ Len(wal[Source]) \in Nat
        BY <1>0, <1>1
      <4>3. Len(whole) = Len(wal[Source]) + Len(more) /\ Len(more) \in {0, 1}
        BY <1>2, <1>3
      <4>4. lastSent' \in Nat /\ lastSent' >= lastSent + 1
        BY <4>1, <4>2
      <4>5. Len(whole) <= lastSent' + 1
        <5>1. ASSUME NEW l \in Nat, NEW m \in {0, 1} PROVE l + m <= l + 1
          BY <5>1
        <5> QED BY ONLY <4>2, <4>3, <5>1
      <4> QED BY <4>1, <4>4, <4>5
    <3>3. f \in ToSet(whole) => f <= Len(whole)
      BY <1>3, <1>4, <3>1, CopiesOfRun
    <3>4. Sent(n, f) \in Nat
      BY <1>8
    <3>5. Len(whole) \in Nat
      BY <1>1, <1>2, <1>3
    <3>6. /\ Room(lastSent, f) \in Nat /\ Room(lastSent', f) \in Nat /\ Room(lastSent, f) <= Room(lastSent', f)
          /\ f <= Len(whole) => Room(lastSent, f) + 1 <= Room(lastSent', f)
      <4>1. f \in Nat
        BY ReplicationAssumption
      <4> QED BY ONLY <3>2, <3>5, <4>1, RoomGrows
    <3>7. CASE Sent(n, f)' = Sent(n, f)
      BY <3>1, <3>4, <3>6, <3>7
    <3>8. CASE Sent(n, f)' = Sent(n, f) + 1 /\ f <= Len(whole)
      BY <3>1, <3>4, <3>6, <3>8
    <3> QED BY <1>8, <3>3, <3>7, <3>8
  <2>4. since' = 0 => \A n \in Replicas : \A f, g \in 1..Frames :
          g <= f => Copies(wal'[n], g) >= Copies(wal'[n], f)
    BY <1>0, <1>8 DEF SentBounded
  <2> QED BY <2>1, <2>2, <2>3, <2>4 DEF SentBounded
<1> QED BY <1>6, <1>7, <1>9

\* A post that has arrived or failed is no longer under way.
LEMMA PostGone ==
  ASSUME PostsTyped, NEW post \in posts, posts' = posts \ {post}, NEW n \in Replicas, NEW f
  PROVE  /\ IsFiniteSet(PostsTo(n)')
         /\ Cardinality(Carrying(n, f)) \in Nat /\ Cardinality(Carrying(n, f)') \in Nat
         /\ IF post.to = n /\ f \in ToSet(post.data)
            THEN Cardinality(Carrying(n, f)') = Cardinality(Carrying(n, f)) - 1
            ELSE Cardinality(Carrying(n, f)') = Cardinality(Carrying(n, f))
<1>1. PostsTo(n)' = PostsTo(n) \ {post} /\ Carrying(n, f)' = Carrying(n, f) \ {post}
  BY DEF PostsTo, Carrying
<1>2. IsFiniteSet(PostsTo(n)) /\ IsFiniteSet(Carrying(n, f)) /\ Cardinality(Carrying(n, f)) \in Nat
  BY CarryingType DEF PostsTyped
<1>3. IsFiniteSet(PostsTo(n) \ {post})
  BY <1>2, FS_RemoveElement
<1>4. /\ IsFiniteSet(Carrying(n, f) \ {post})
      /\ Cardinality(Carrying(n, f) \ {post}) =
           IF post \in Carrying(n, f) THEN Cardinality(Carrying(n, f)) - 1 ELSE Cardinality(Carrying(n, f))
  BY <1>2, FS_RemoveElement
<1>5. Cardinality(Carrying(n, f) \ {post}) \in Nat
  BY <1>4, FS_CardinalityType
<1>6. post \in Carrying(n, f) <=> post.to = n /\ f \in ToSet(post.data)
  BY DEF PostsTo, Carrying
<1> QED BY <1>1, <1>2, <1>3, <1>4, <1>5, <1>6

\* A replica appends the frames of a post that has arrived.
LEMMA ApplyKeeps ==
  ASSUME ReplIInv, NEW post \in posts, ApplyWAL(post)
  PROVE  ReplIInv'
<1> USE DEF ReplIInv
<1>0. /\ wal' = [wal EXCEPT ![post.to] = @ \o post.data] /\ posts' = posts \ {post}
      /\ frames' = frames /\ lastSent' = lastSent /\ shipped' = shipped /\ since' = since
  BY DEF ApplyWAL
<1>1. post.to \in Replicas /\ post.data \in Log /\ post.to \in ReplNodes /\ wal[post.to] \in Log
  BY DEF PostsTyped, Replicas
<1>2. PICK b \in 0..since : RunFrom(post.data, b) /\ b + Len(post.data) <= frames
  BY DEF RunsOfSource
<1>3. b \in Nat /\ (since = 0 => b = 0)
  BY <1>2, ReplicationAssumption DEF PostsTyped
<1>4. wal'[post.to] = wal[post.to] \o post.data /\ \A n \in ReplNodes \ {post.to} : wal'[n] = wal[n]
  BY <1>0, <1>1 DEF PostsTyped
<1>5. PostsTyped'
  <2>1. wal[post.to] \o post.data \in Log
    BY <1>1, SeqAppended DEF Log
  <2>2. wal' \in [ReplNodes -> Log]
    BY <1>0, <2>1 DEF PostsTyped
  <2>3. \A n \in Replicas : IsFiniteSet(PostsTo(n)')
    BY <1>0, PostGone
  <2> QED BY <1>0, <2>2, <2>3 DEF PostsTyped
<1>6. RunsOfSource'
  <2>1. wal'[Source] = wal[Source]
    BY <1>1, <1>4, ReplicationAssumption DEF Replicas
  <2> QED BY <1>0, <2>1 DEF RunsOfSource, RunFrom
<1>7. ASSUME NEW f \in 1..Frames
      PROVE  /\ f \in ToSet(post.data) <=> b < f /\ f <= b + Len(post.data)
             /\ Copies(post.data, f) = IF f \in ToSet(post.data) THEN 1 ELSE 0
             /\ Copies(wal'[post.to], f) = Copies(wal[post.to], f) + Copies(post.data, f)
             /\ Copies(wal[post.to], f) \in Nat
  <2>1. f \in Nat
    BY ReplicationAssumption
  <2>2. /\ f \in ToSet(post.data) <=> b < f /\ f <= b + Len(post.data)
        /\ Copies(post.data, f) = IF f \in ToSet(post.data) THEN 1 ELSE 0
    BY <1>1, <1>2, <1>3, <2>1, CopiesOfRun
  <2>3. Copies(wal[post.to] \o post.data, f) = Copies(wal[post.to], f) + Copies(post.data, f)
    BY <1>1, CopiesAppended
  <2>4. Copies(wal[post.to], f) \in Nat
    BY <1>1, CopiesType
  <2> QED BY <1>4, <2>2, <2>3, <2>4
<1>8. ASSUME NEW n \in Replicas, NEW f \in 1..Frames
      PROVE  Sent(n, f)' = Sent(n, f)
  <2>1. CASE n # post.to
    <3>1. wal'[n] = wal[n]
      BY <1>4, <2>1 DEF Replicas
    <3>2. Cardinality(Carrying(n, f)') = Cardinality(Carrying(n, f))
      BY <1>0, <2>1, PostGone
    <3> QED BY <3>1, <3>2 DEF Sent
  <2>2. CASE n = post.to
    <3>1. /\ Cardinality(Carrying(n, f)) \in Nat
          /\ Cardinality(Carrying(n, f)') = Cardinality(Carrying(n, f)) - Copies(post.data, f)
      BY <1>0, <1>7, <2>2, PostGone
    <3>2. Copies(wal'[n], f) = Copies(wal[n], f) + Copies(post.data, f) /\ Copies(wal[n], f) \in Nat
          /\ Copies(post.data, f) \in Nat
      BY <1>7, <2>2
    <3> QED BY <3>1, <3>2 DEF Sent
  <2> QED BY <2>1, <2>2
<1>9. SentBounded'
  <2>1. ASSUME NEW n \in Replicas, NEW i \in 1..Len(wal'[n])
        PROVE  wal'[n][i] <= frames'
    <3>1. CASE n # post.to
      <4>1. wal'[n] = wal[n]
        BY <1>4, <3>1 DEF Replicas
      <4> QED BY <1>0, <2>1, <4>1 DEF SentBounded
    <3>2. CASE n = post.to
      <4>1. /\ Len(wal[n]) \in Nat /\ Len(post.data) \in Nat /\ Len(wal'[n]) = Len(wal[n]) + Len(post.data)
            /\ \A j \in 1..Len(wal[n]) : wal'[n][j] = wal[n][j]
            /\ \A j \in 1..Len(post.data) : wal'[n][Len(wal[n]) + j] = post.data[j]
        <5> DEFINE old == wal[post.to]
                   new == post.data
        <5>1. old \in Log /\ new \in Log /\ wal'[n] = old \o new /\ wal[n] = old
          BY <1>1, <1>4, <3>2
        <5> HIDE DEF old, new
        <5>2. /\ Len(old) \in Nat /\ Len(new) \in Nat /\ Len(old \o new) = Len(old) + Len(new)
              /\ \A j \in 1..Len(old) : (old \o new)[j] = old[j]
              /\ \A j \in 1..Len(new) : (old \o new)[Len(old) + j] = new[j]
          BY <5>1, LogAppended, Zenon
        <5>3. /\ Len(wal[n]) \in Nat /\ Len(new) \in Nat /\ Len(wal'[n]) = Len(wal[n]) + Len(new)
              /\ \A j \in 1..Len(wal[n]) : wal'[n][j] = wal[n][j]
              /\ \A j \in 1..Len(new) : wal'[n][Len(wal[n]) + j] = new[j]
          BY <5>1, <5>2
        <5> QED BY <5>3 DEF new
      <4>2. CASE i \in 1..Len(wal[n])
        BY <1>0, <4>1, <4>2 DEF SentBounded
      <4>3. CASE i \notin 1..Len(wal[n])
        <5>1. i - Len(wal[n]) \in 1..Len(post.data) /\ Len(wal[n]) + (i - Len(wal[n])) = i
          <6>1. ASSUME NEW l \in Nat, NEW m \in Nat, NEW j \in 1..(l + m), j \notin 1..l
                PROVE  j - l \in 1..m /\ l + (j - l) = j
            BY <6>1
          <6>2. i \in 1..(Len(wal[n]) + Len(post.data))
            BY <2>1, <4>1
          <6> QED BY ONLY <4>1, <4>3, <6>1, <6>2
        <5>2. wal'[n][i] = post.data[i - Len(wal[n])]
          BY <4>1, <5>1
        <5>3. post.data[i - Len(wal[n])] = b + (i - Len(wal[n]))
          BY <1>2, <5>1 DEF RunFrom
        <5>4. frames \in Nat
          BY ReplicationAssumption DEF PostsTyped
        <5>5. b + (i - Len(wal[n])) <= frames
          BY <1>2, <1>3, <4>1, <5>1, <5>4
        <5> QED BY <1>0, <5>2, <5>3, <5>5
      <4> QED BY <4>2, <4>3
    <3> QED BY <3>1, <3>2
  <2>2. \A n \in Replicas, f \in 1..Frames : Sent(n, f)' <= shipped'
    BY <1>0, <1>8 DEF SentBounded
  <2>3. since' = 0 => \A n \in Replicas, f \in 1..Frames : Sent(n, f)' <= Room(lastSent', f)
    BY <1>0, <1>8 DEF SentBounded
  <2>4. ASSUME since' = 0, NEW n \in Replicas, NEW f \in 1..Frames, NEW g \in 1..Frames, g <= f
        PROVE  Copies(wal'[n], g) >= Copies(wal'[n], f)
    <3>1. Copies(wal[n], g) >= Copies(wal[n], f)
      BY <1>0, <2>4 DEF SentBounded
    <3>2. CASE n # post.to
      <4>1. wal'[n] = wal[n]
        BY <1>4, <3>2 DEF Replicas
      <4> QED BY <3>1, <4>1
    <3>3. CASE n = post.to
      <4>1. f \in ToSet(post.data) => g \in ToSet(post.data)
        <5>1. b = 0 /\ Len(post.data) \in Nat /\ f \in Nat /\ g \in 1..f
          BY <1>0, <1>1, <1>3, <2>4, SeqElements, ReplicationAssumption DEF Log
        <5> QED BY <1>7, <5>1
      <4>2. Copies(post.data, f) \in {0, 1} /\ Copies(post.data, g) \in {0, 1}
            /\ (Copies(post.data, f) = 1 => Copies(post.data, g) = 1)
        BY <1>7, <4>1
      <4>3. /\ Copies(wal'[n], f) = Copies(wal[n], f) + Copies(post.data, f) /\ Copies(wal[n], f) \in Nat
            /\ Copies(wal'[n], g) = Copies(wal[n], g) + Copies(post.data, g) /\ Copies(wal[n], g) \in Nat
        BY <1>7, <3>3
      <4> QED BY <3>1, <4>2, <4>3
    <3> QED BY <3>2, <3>3
  <2> QED BY <2>1, <2>2, <2>3, <2>4 DEF SentBounded
<1> QED BY <1>5, <1>6, <1>9

\* A post is lost.
LEMMA LostKeeps ==
  ASSUME ReplIInv, NEW post \in posts, PostFails(post)
  PROVE  ReplIInv'
<1> USE DEF ReplIInv
<1>0. posts' = posts \ {post} /\ UNCHANGED <<wal, frames, lastSent, shipped, since>>
  BY DEF PostFails
<1>1. PostsTyped'
  <2>1. \A n \in Replicas : IsFiniteSet(PostsTo(n)')
    BY <1>0, PostGone
  <2> QED BY <1>0, <2>1 DEF PostsTyped
<1>2. RunsOfSource'
  BY <1>0 DEF RunsOfSource
<1>3. ASSUME NEW n \in Replicas, NEW f \in 1..Frames
      PROVE  Sent(n, f) \in Nat /\ Sent(n, f)' \in Nat /\ Sent(n, f)' <= Sent(n, f)
  <2>1. wal[n] \in Log
    BY DEF PostsTyped, Replicas
  <2>2. Copies(wal[n], f) \in Nat
    BY <2>1, CopiesType
  <2>3. /\ Cardinality(Carrying(n, f)) \in Nat /\ Cardinality(Carrying(n, f)') \in Nat
        /\ Cardinality(Carrying(n, f)') <= Cardinality(Carrying(n, f))
    BY <1>0, PostGone
  <2> QED BY <1>0, <2>2, <2>3 DEF Sent
<1>4. shipped \in Nat /\ lastSent \in Nat
  BY ReplicationAssumption DEF PostsTyped
<1>5. ASSUME NEW f \in 1..Frames PROVE Room(lastSent, f) \in Nat
  BY <1>4, ReplicationAssumption DEF Room
<1>6. SentBounded'
  <2>1. \A n \in Replicas, f \in 1..Frames : Sent(n, f)' <= shipped'
    BY <1>0, <1>3, <1>4 DEF SentBounded
  <2>2. since' = 0 => \A n \in Replicas, f \in 1..Frames : Sent(n, f)' <= Room(lastSent', f)
    BY <1>0, <1>3, <1>5 DEF SentBounded
  <2> QED BY <1>0, <2>1, <2>2 DEF SentBounded
<1> QED BY <1>1, <1>2, <1>6

\* Replicas hold runs of committed frames, each no more often than it was shipped.
THEOREM ReplicationCorrect == ReplSpec => []ReplicationInv
<1>1. ReplIInv => ReplicationInv
  <2> SUFFICES ASSUME ReplIInv PROVE ReplicationInv
    OBVIOUS
  <2> USE DEF ReplIInv
  <2>1. ReplTypeOK
    BY DEF ReplTypeOK, PostsTyped, Replicas
  <2>2. ASSUME NEW n \in Replicas, NEW f \in ToSet(wal[n])
        PROVE  /\ f <= frames
               /\ Copies(wal[n], f) <= shipped
               /\ since = 0 => Copies(wal[n], f) <= 2 + frames - f
               /\ \A g \in 1..f : since = 0 => Copies(wal[n], g) >= Copies(wal[n], f)
    <3>1. wal[n] \in Log /\ wal[n] \in Seq(1..Frames)
      BY DEF PostsTyped, Replicas, Log
    <3>2. PICK i \in 1..Len(wal[n]) : f = wal[n][i]
      BY <3>1, <2>2 DEF ToSet
    <3>3. f \in 1..Frames /\ f <= frames
      BY <3>1, <3>2, SeqElements DEF SentBounded
    <3>4. /\ Copies(wal[n], f) \in Nat /\ Cardinality(Carrying(n, f)) \in Nat
          /\ frames \in Nat /\ shipped \in Nat /\ lastSent \in 0..frames /\ f \in Nat
      <4>1. Copies(wal[n], f) \in Nat
        BY <3>1, CopiesType
      <4>2. Cardinality(Carrying(n, f)) \in Nat
        BY <2>2, CarryingType DEF Replicas
      <4>3. frames \in Nat /\ shipped \in Nat /\ lastSent \in 0..frames /\ f \in Nat
        BY <3>3, ReplicationAssumption DEF PostsTyped
      <4> QED BY <4>1, <4>2, <4>3
    <3>5. Sent(n, f) = Copies(wal[n], f) + Cardinality(Carrying(n, f)) /\ Sent(n, f) <= shipped
      BY <3>3 DEF Sent, SentBounded
    <3>6. Copies(wal[n], f) <= shipped
      BY <3>4, <3>5
    <3>7. ASSUME since = 0 PROVE Copies(wal[n], f) <= 2 + frames - f
      <4>1. Sent(n, f) <= Room(lastSent, f)
        BY <3>3, <3>7 DEF SentBounded
      <4>2. Room(lastSent, f) <= 2 + frames - f /\ Room(lastSent, f) \in Nat
        BY <3>3, <3>4 DEF Room
      <4> QED BY <3>4, <3>5, <4>1, <4>2
    <3>8. \A g \in 1..f : since = 0 => Copies(wal[n], g) >= Copies(wal[n], f)
      <4>1. \A g \in 1..f : g \in 1..Frames /\ g <= f
        BY <3>3, ReplicationAssumption
      <4> QED BY <3>3, <4>1 DEF SentBounded
    <3> QED BY <3>3, <3>6, <3>7, <3>8
  <2>3. ReplicaOfShipments
    BY <2>2 DEF ReplicaOfShipments, Replicas
  <2> QED BY <2>1, <2>3 DEF ReplicationInv
<1>2. ReplIInv /\ [ReplNext]_replVars => ReplIInv'
  <2> SUFFICES ASSUME ReplIInv, [ReplNext]_replVars PROVE ReplIInv'
    OBVIOUS
  <2>1. CASE WriteFrame
    BY <2>1, WriteFrameKeeps
  <2>2. CASE Checkpoint
    BY <2>2, CheckpointKeeps
  <2>3. CASE \E healthy \in SUBSET ReplNodes, grown \in BOOLEAN : ShipWAL(healthy, grown)
    BY <2>3, ShipKeeps
  <2>4. CASE \E post \in posts : ApplyWAL(post) \/ PostFails(post)
    BY <2>4, ApplyKeeps, LostKeeps
  <2>5. CASE UNCHANGED replVars
    BY <2>5 DEF replVars, ReplIInv, PostsTyped, RunsOfSource, RunFrom, SentBounded, Sent, Carrying, PostsTo
  <2> QED BY <2>1, <2>2, <2>3, <2>4, <2>5 DEF ReplNext
<1> QED BY <1>1, <1>2, ReplInitHolds, PTL DEF ReplSpec

-----------------------------------------------------------------------------
(* The parts together.  A step of MC_Server is a step of one part, or none, *)
(* for every other, so that what is proved of each holds of all.           *)

\* The parts whose state is of one specification each.
ServerSpecs ==
  /\ PlaybackSpec /\ CastSpec /\ SyncSpec /\ LiveSpec /\ ReplSpec
  /\ CacheSpec /\ DlnaSpec /\ CredentialsSpec /\ AccountsSpec /\ PersonSpec
  /\ BackupSpec /\ CollectionsSpec /\ WatchSpec /\ ProfilesSpec /\ ManifestsSpec /\ GuardsSpec

\* In a behaviour of the server each part behaves as its own specification says.
LEMMA PartsBehave == Spec => ServerSpecs
<1>1. Init =>
        /\ PlaybackInit /\ CastInit /\ SyncInit /\ LiveInit /\ ReplInit
        /\ CacheInit /\ DlnaInit /\ CredentialsInit /\ AccountsInit /\ PersonInit
        /\ BackupInit /\ CollectionsInit /\ WatchInit /\ ProfilesInit /\ ManifestsInit /\ GuardInit
  BY DEF Init
<1> DEFINE allVars == <<part, playbackVars, castVars, syncVars, liveVars, replVars,
              cacheVars, dlnaVars, guardVars, credentialVars, accountVars, personVars, backupVars,
              collectionsVars, watchVars, chapterVars, profileVars, parentalVars, manifestVars>>
<1>2. [Next]_allVars => [PlaybackNext]_playbackVars
  BY DEF Next
<1>3. [Next]_allVars => [CastNext]_castVars
  BY DEF Next
<1>4. [Next]_allVars => [SyncNext]_syncVars
  BY DEF Next
<1>5. [Next]_allVars => [LiveNext]_liveVars
  BY DEF Next
<1>6. [Next]_allVars => [ReplNext]_replVars
  BY DEF Next
<1>7. [Next]_allVars => [CacheNext]_cacheVars
  BY DEF Next
<1>8. [Next]_allVars => [DlnaNext]_dlnaVars
  BY DEF Next, DlnaNext
<1>9. [Next]_allVars => [CredentialsNext]_credentialVars
  BY DEF Next, CredentialsNext
<1>10. [Next]_allVars => [AccountsNext]_accountVars
  BY DEF Next
<1>11. [Next]_allVars => [PersonNext]_personVars
  BY DEF Next
<1>12. [Next]_allVars => [BackupNext]_backupVars
  BY DEF Next
<1>13. [Next]_allVars => [CollectionsNext]_collectionsVars
  BY DEF Next, CollectionsNext
<1>14. [Next]_allVars => [WatchNext \/ ChapterNext]_<<watchVars, chapterVars>>
  BY DEF Next
<1>15. [Next]_allVars => [ProfileNext \/ ParentalNext]_<<profileVars, parentalVars>>
  BY DEF Next
<1>16. [Next]_allVars => [ManifestsNext]_manifestVars
  BY DEF Next, ManifestsNext
<1>17. [Next]_allVars => [BackoffNext \/ IdleNext \/ RateNext]_guardVars
  BY DEF Next
<1> QED
  BY <1>1, <1>2, <1>3, <1>4, <1>5, <1>6, <1>7, <1>8, <1>9, <1>10, <1>11, <1>12, <1>13, <1>14, <1>15, <1>16,
     <1>17, PTL
     DEF Spec, ServerSpecs, PlaybackSpec, CastSpec, SyncSpec, LiveSpec, ReplSpec,
         CacheSpec, DlnaSpec, CredentialsSpec, AccountsSpec, PersonSpec,
         BackupSpec, CollectionsSpec, WatchSpec, ProfilesSpec, ManifestsSpec, GuardsSpec

\* Whatever part is at work: users, tokens, erasures, exports and profiles are as
\* their handlers promise.
THEOREM PeopleCorrect == Spec => []PeopleInv
BY PartsBehave, AccountsCorrect, PersonCorrect, ProfilesCorrect, PTL DEF ServerSpecs, PeopleInv

\* Whatever part is at work: progress, chapters and manifests are as their handlers
\* promise.
THEOREM MediaCorrect == Spec => []MediaInv
BY PartsBehave, WatchCorrect, ManifestsCorrect, PTL DEF ServerSpecs, MediaInv

\* Whatever part is at work, every part keeps its invariant, a row of a session is
\* lost only to a command that was overtaken, and the cache is a map.
THEOREM ServerCorrect ==
  Spec => /\ [](/\ SessionsInv /\ CastInv /\ RoomsInv /\ LiveInv /\ ReplicationInv /\ CacheInv
                /\ DlnaInv /\ GuardsInv /\ CredentialsInv /\ PeopleInv /\ BackupInv
                /\ CollectionsInv /\ MediaInv)
          /\ OnlyOvertakenLose /\ ImplementsMap
<1>1. Spec => [](SessionsInv /\ CastInv /\ RoomsInv /\ LiveInv /\ DlnaInv) /\ OnlyOvertakenLose
  BY PartsBehave, SessionsCorrect, CastCorrect, RoomsCorrect, LiveCorrect, DlnaCorrect, OvertakenOnly, PTL
     DEF ServerSpecs
<1>2. Spec => [](ReplicationInv /\ CacheInv /\ GuardsInv /\ BackupInv /\ CollectionsInv) /\ ImplementsMap
  BY PartsBehave, ReplicationCorrect, CacheCorrect, GuardsCorrect, BackupCorrect, CollectionsCorrect,
     CacheImplementsMap, PTL
     DEF ServerSpecs
<1>3. Spec => []CredentialsInv
  BY PartsBehave, CredentialsCorrect, PTL DEF ServerSpecs
<1> QED BY <1>1, <1>2, <1>3, PeopleCorrect, MediaCorrect, PTL
=============================================================================
