--------------------------- MODULE DistributedLock ---------------------------
(***************************************************************************)
(* pkg/cluster/lock.go over lock_backend.go: every node has a map from     *)
(* lock keys to local entries, guarded by a mutex; the truth is a row of   *)
(* the shared distributed_locks table; and every entry has a keep-alive    *)
(* goroutine that refreshes the row outside the mutex.                     *)
(*                                                                         *)
(* One key is modelled: no statement of the code relates two keys.  A      *)
(* holder name belongs to one caller of one node, and a caller makes one   *)
(* call at a time; a node's callers run concurrently.  Each statement of   *)
(* the backend is one action, atomic in SQLite, and may fail.  Time passes *)
(* in ticks; the row and the promises count down, so that time needs no    *)
(* bound.  The mutex of a node is taken and free again within one action,  *)
(* but for an Acquire that lost its entry: it keeps the mutex between its  *)
(* two calls of the backend.                                               *)
(***************************************************************************)
EXTENDS Naturals

CONSTANTS
  Nodes,
  Holders,     \* holder names: one for each caller
  NodeOf,      \* NodeOf[h]: the node caller h runs on
  Entries,     \* bound: lockEntry objects whose goroutine is not over
  Ttls,        \* ticks of a lease
  Asks,        \* Asks[h]: the ttls caller h asks for, each Acquire for one
  NoEntry,     \* the node's map has no entry for the key
  NoHolder     \* the table has no row for the key

ASSUME LockAssumption ==
  /\ NodeOf \in [Holders -> Nodes]
  /\ Ttls \subseteq Nat \ {0}
  /\ Asks \in [Holders -> SUBSET Ttls]
  /\ NoEntry \notin Entries
  /\ NoHolder \notin Holders

VARIABLES
  rowHolder,   \* holder column of the row, NoHolder when there is no row
  rowLeft,     \* ticks until the row's expires_at; 0: expired
  local,       \* local[n]: DistributedLock.locks of node n at the key
  entryHolder, \* entryHolder[e]: lockEntry.holder
  entryTtl,    \* entryTtl[e]: lockEntry.ttl
  stopped,     \* stopped[e]: lockEntry.stopCh is closed
  keeper,      \* keeper[e]: e's goroutine: "none", "waiting", "lost"
  call,        \* call[h]: "idle", "acquiring" (in Acquire), "releasing"
  wants,       \* wants[h]: the ttl of h's Acquire while it is acquiring, or 0
  holding,     \* callers Acquire returned true to and that have not released
  promise,     \* promise[h]: ticks a caller in `holding` was given the lock for
  cut          \* callers whose row was renewed for less than their promise

rowVars == <<rowHolder, rowLeft>>
entryVars == <<local, entryHolder, entryTtl, stopped, keeper>>
promiseVars == <<promise, cut>>
callerVars == <<call, wants, holding, promiseVars>>
vars == <<rowVars, entryVars, callerVars>>

LockTypeOK ==
  /\ rowHolder \in Holders \cup {NoHolder}
  /\ rowLeft \in Nat
  /\ local \in [Nodes -> Entries \cup {NoEntry}]
  /\ entryHolder \in [Entries -> Holders \cup {NoHolder}]
  /\ entryTtl \in [Entries -> Ttls \cup {0}]
  /\ stopped \in [Entries -> BOOLEAN]
  /\ keeper \in [Entries -> {"none", "waiting", "lost"}]
  /\ call \in [Holders -> {"idle", "acquiring", "releasing"}]
  /\ wants \in [Holders -> Ttls \cup {0}]
  /\ holding \subseteq Holders
  /\ promise \in [Holders -> Nat]
  /\ cut \subseteq Holders

Init ==
  /\ rowHolder = NoHolder
  /\ rowLeft = 0
  /\ local = [n \in Nodes |-> NoEntry]
  /\ entryHolder = [e \in Entries |-> NoHolder]
  /\ entryTtl = [e \in Entries |-> 0]
  /\ stopped = [e \in Entries |-> FALSE]
  /\ keeper = [e \in Entries |-> "none"]
  /\ call = [h \in Holders |-> "idle"]
  /\ wants = [h \in Holders |-> 0]
  /\ holding = {}
  /\ promise = [h \in Holders |-> 0]
  /\ cut = {}

MutexFree(n) == \A h \in Holders : NodeOf[h] = n => call[h] # "acquiring"

IsHeld(n) == local[n] # NoEntry

-----------------------------------------------------------------------------
\* The lease of h was renewed for t ticks, which may be less than h was given.
Shortened(h, t) == cut' = IF promise[h] > t THEN cut \cup {h} ELSE cut

\* Mutated Refresh: UPDATE without AND holder.
RefreshAnyones(h, t) ==
  /\ rowHolder # NoHolder
  /\ rowLeft' = t
  /\ UNCHANGED rowHolder

\* SQLiteLockBackend.Refresh, UPDATE ... WHERE key AND holder: it renews the
\* row of its holder even when the row has expired, and may bring its end
\* forward.
RefreshOK(h, t) ==
  /\ rowHolder = h
  /\ rowLeft' = t
  /\ UNCHANGED rowHolder

\* Refresh returns an error: no row of this holder, or the database or the
\* five seconds failed it - then the row may have been renewed or not.
RefreshFails(h, t) ==
  /\ \/ UNCHANGED <<rowLeft, cut>>
     \/ rowHolder = h /\ rowLeft' = t /\ Shortened(h, t)
  /\ UNCHANGED <<rowHolder, promise>>

\* Mutated TryAcquire: an expired row is not looked for; the row is taken over
\* without a look at it.
RowFreeWhenGone == rowHolder = NoHolder

TakeRowHeld(h, t) ==
  /\ rowHolder' = h
  /\ rowLeft' = t

\* SQLiteLockBackend.TryAcquire finds no row, or an expired one, whoever's.
RowFree == rowHolder = NoHolder \/ rowLeft = 0

\* ... and inserts or takes over the row.
TakeRow(h, t) ==
  /\ RowFree
  /\ rowHolder' = h
  /\ rowLeft' = t

-----------------------------------------------------------------------------
\* Acquire when the node has an entry: its holder's row is renewed, but with the
\* ttl of this call, and not the entry's.  "We still hold it", and false.
AcquireHeld(h, t) ==
  /\ call[h] = "idle"
  /\ MutexFree(NodeOf[h])
  /\ IsHeld(NodeOf[h])
  /\ LET owner == entryHolder[local[NodeOf[h]]] IN RefreshOK(owner, t) /\ Shortened(owner, t)
  /\ UNCHANGED <<entryVars, call, wants, holding, promise>>

\* Acquire when the node has an entry and its refresh fails: the entry goes,
\* and Acquire goes on to the backend with the mutex still locked.
AcquireLost(h, t) ==
  /\ call[h] = "idle"
  /\ MutexFree(NodeOf[h])
  /\ IsHeld(NodeOf[h])
  /\ RefreshFails(entryHolder[local[NodeOf[h]]], t)
  /\ local' = [local EXCEPT ![NodeOf[h]] = NoEntry]
  /\ stopped' = [stopped EXCEPT ![local[NodeOf[h]]] = TRUE]
  /\ call' = [call EXCEPT ![h] = "acquiring"]
  /\ wants' = [wants EXCEPT ![h] = t]
  /\ UNCHANGED <<entryHolder, entryTtl, keeper, holding>>

\* Acquire at TryAcquire: the node has no entry, or just lost it.
AtTryAcquire(h, t) ==
  \/ call[h] = "acquiring" /\ wants[h] = t
  \/ call[h] = "idle" /\ MutexFree(NodeOf[h]) /\ ~IsHeld(NodeOf[h])

\* The row is taken: a new entry and its goroutine, and true.
AcquireTakes(h, t) ==
  /\ AtTryAcquire(h, t)
  /\ TakeRow(h, t)
  /\ \E e \in Entries :
       /\ keeper[e] = "none"
       /\ keeper' = [keeper EXCEPT ![e] = "waiting"]
       /\ stopped' = [stopped EXCEPT ![e] = FALSE]
       /\ entryHolder' = [entryHolder EXCEPT ![e] = h]
       /\ entryTtl' = [entryTtl EXCEPT ![e] = t]
       /\ local' = [local EXCEPT ![NodeOf[h]] = e]
  /\ call' = [call EXCEPT ![h] = "idle"]
  /\ wants' = [wants EXCEPT ![h] = 0]
  /\ holding' = holding \cup {h}
  /\ promise' = [promise EXCEPT ![h] = t]
  /\ cut' = cut \ {h}

\* The row is another's, or the transaction failed: false or an error.  A Commit
\* that returns an error may have taken effect all the same.
AcquireRefused(h, t) ==
  /\ AtTryAcquire(h, t)
  /\ UNCHANGED rowVars \/ TakeRow(h, t)
  /\ call' = [call EXCEPT ![h] = "idle"]
  /\ wants' = [wants EXCEPT ![h] = 0]
  /\ UNCHANGED <<entryVars, holding, promiseVars>>

-----------------------------------------------------------------------------
\* Release, under the mutex: the node's entry goes, whichever caller's it is.
ReleaseLocal(h) ==
  /\ call[h] = "idle"
  /\ MutexFree(NodeOf[h])
  /\ \/ /\ IsHeld(NodeOf[h])
        /\ local' = [local EXCEPT ![NodeOf[h]] = NoEntry]
        /\ stopped' = [stopped EXCEPT ![local[NodeOf[h]]] = TRUE]
     \/ /\ ~IsHeld(NodeOf[h])
        /\ UNCHANGED <<local, stopped>>
  /\ call' = [call EXCEPT ![h] = "releasing"]
  /\ holding' = holding \ {h}
  /\ promise' = [promise EXCEPT ![h] = 0]
  /\ cut' = cut \ {h}
  /\ UNCHANGED <<rowVars, entryHolder, entryTtl, keeper, wants>>

\* Mutated Release: DELETE without AND holder.
ReleaseRowAnyones(h) ==
  /\ call[h] = "releasing"
  /\ rowHolder' = NoHolder
  /\ rowLeft' = 0
  /\ call' = [call EXCEPT ![h] = "idle"]
  /\ UNCHANGED <<entryVars, wants, holding, promiseVars>>

\* Release, without the mutex: DELETE ... WHERE key AND holder.  It finds no
\* row of the holder, or fails, and the row stays.
ReleaseRow(h) ==
  /\ call[h] = "releasing"
  /\ \/ rowHolder = h /\ rowHolder' = NoHolder /\ rowLeft' = 0
     \/ UNCHANGED rowVars
  /\ call' = [call EXCEPT ![h] = "idle"]
  /\ UNCHANGED <<entryVars, wants, holding, promiseVars>>

-----------------------------------------------------------------------------
\* keepAlive at its select, when the ticker fires.  The ticker may be chosen
\* although stopCh is closed too.  While the entry is the node's, its holder has
\* the lock for another ttl of the entry.
KeepAliveRefreshes(e) ==
  LET h == entryHolder[e]
      t == entryTtl[e]
  IN  /\ keeper[e] = "waiting"
      /\ RefreshOK(h, t)
      /\ IF local[NodeOf[h]] = e /\ h \in holding
         THEN promise' = [promise EXCEPT ![h] = t] /\ cut' = cut \ {h}
         ELSE UNCHANGED promise /\ Shortened(h, t)
      /\ UNCHANGED <<entryVars, call, wants, holding>>

KeepAliveFails(e) ==
  /\ keeper[e] = "waiting"
  /\ RefreshFails(entryHolder[e], entryTtl[e])
  /\ keeper' = [keeper EXCEPT ![e] = "lost"]
  /\ UNCHANGED <<local, entryHolder, entryTtl, stopped, call, wants, holding>>

\* The goroutine of e is over, and the entry is garbage.
Over(e) ==
  /\ keeper' = [keeper EXCEPT ![e] = "none"]
  /\ entryHolder' = [entryHolder EXCEPT ![e] = NoHolder]
  /\ entryTtl' = [entryTtl EXCEPT ![e] = 0]
  /\ stopped' = [stopped EXCEPT ![e] = FALSE]

\* Mutated keepAlive: it returns without deleting; it does not select stopCh.
KeepAliveLeaves(e) ==
  /\ keeper[e] = "lost"
  /\ Over(e)
  /\ UNCHANGED <<rowVars, local, callerVars>>

KeepAliveStopsNever(e) == FALSE

\* After a failed refresh: delete(dl.locks, entry.key), under the mutex.
KeepAliveCleansUp(e) ==
  /\ keeper[e] = "lost"
  /\ MutexFree(NodeOf[entryHolder[e]])
  /\ local' = [local EXCEPT ![NodeOf[entryHolder[e]]] = NoEntry]
  /\ Over(e)
  /\ UNCHANGED <<rowVars, callerVars>>

KeepAliveStops(e) ==
  /\ keeper[e] = "waiting"
  /\ stopped[e]
  /\ Over(e)
  /\ UNCHANGED <<rowVars, local, callerVars>>

-----------------------------------------------------------------------------
\* The process of node n dies and starts anew; the row stays.
Crash(n) ==
  LET gone == {e \in Entries : keeper[e] # "none" /\ NodeOf[entryHolder[e]] = n}
      here == {h \in Holders : NodeOf[h] = n}
  IN  /\ local' = [local EXCEPT ![n] = NoEntry]
      /\ keeper' = [e \in Entries |-> IF e \in gone THEN "none" ELSE keeper[e]]
      /\ entryHolder' = [e \in Entries |-> IF e \in gone THEN NoHolder ELSE entryHolder[e]]
      /\ entryTtl' = [e \in Entries |-> IF e \in gone THEN 0 ELSE entryTtl[e]]
      /\ stopped' = [e \in Entries |-> IF e \in gone THEN FALSE ELSE stopped[e]]
      /\ call' = [h \in Holders |-> IF h \in here THEN "idle" ELSE call[h]]
      /\ wants' = [h \in Holders |-> IF h \in here THEN 0 ELSE wants[h]]
      /\ holding' = holding \ here
      /\ promise' = [h \in Holders |-> IF h \in here THEN 0 ELSE promise[h]]
      /\ cut' = cut \ here
      /\ UNCHANGED rowVars

Tick ==
  /\ rowLeft > 0
  /\ rowLeft' = rowLeft - 1
  /\ promise' = [h \in Holders |-> IF promise[h] > 0 THEN promise[h] - 1 ELSE 0]
  /\ cut' = {h \in cut : promise[h] > 1}
  /\ UNCHANGED <<rowHolder, entryVars, call, wants, holding>>

-----------------------------------------------------------------------------
Acquire(h) ==
  \E t \in Asks[h] : AcquireHeld(h, t) \/ AcquireLost(h, t) \/ AcquireTakes(h, t) \/ AcquireRefused(h, t)

Release(h) == ReleaseLocal(h) \/ ReleaseRow(h)

KeepAlive(e) ==
  KeepAliveRefreshes(e) \/ KeepAliveFails(e) \/ KeepAliveCleansUp(e) \/ KeepAliveStops(e)

Next ==
  \/ \E h \in Holders : Acquire(h) \/ Release(h)
  \/ \E e \in Entries : KeepAlive(e)
  \/ \E n \in Nodes : Crash(n)
  \/ Tick

Spec == Init /\ [][Next]_vars

\* An Acquire that has the mutex goes on; select finds a closed stopCh, as it
\* chooses among ready cases at random; a goroutine that waits for the mutex
\* gets it, as sync.Mutex hands it to a waiter that starves; and time passes.
\* Nothing is assumed of callers, of the database or of crashes.
Fairness ==
  /\ WF_vars(Tick)
  /\ \A h \in Holders : WF_vars(call[h] = "acquiring" /\ Acquire(h))
  /\ \A e \in Entries : WF_vars(KeepAliveStops(e)) /\ SF_vars(KeepAliveCleansUp(e))

FairSpec == Spec /\ Fairness

-----------------------------------------------------------------------------
\* Two callers never both have the lock for the time they were given it, be
\* they of one node or of two, unless the row of one was renewed for less than
\* that: by an Acquire of its own node that asked for a shorter ttl, or by a
\* keep-alive it had from an earlier Acquire.  Locks are released by others,
\* late refreshes renew rows, commits that err take effect, keep-alives outlive
\* their entries and nodes crash.
LeaseExclusive ==
  \A g, h \in Holders \ cut : promise[g] > 0 /\ promise[h] > 0 => g = h

\* Why: a promise that was not cut is backed by the row.
PromiseBacked ==
  \A h \in Holders :
    /\ promise[h] > 0 /\ h \notin cut => rowHolder = h /\ promise[h] <= rowLeft
    /\ h \notin holding => promise[h] = 0
    /\ h \in cut => promise[h] > 0
    /\ call[h] = "releasing" => h \notin holding
    /\ (call[h] = "acquiring") <=> (wants[h] # 0)

\* What IsHeld says on a node is kept so by a goroutine: the entry of the map
\* has one that has not been told to stop, and it is the node's own.
HeldIsKept ==
  \A n \in Nodes : IsHeld(n) =>
    /\ keeper[local[n]] # "none"
    /\ ~stopped[local[n]]
    /\ entryHolder[local[n]] \in Holders
    /\ NodeOf[entryHolder[local[n]]] = n

\* A goroutine has the entry of a caller to refresh, and its ttl.
KeeperHasEntry ==
  \A e \in Entries : keeper[e] # "none" => entryHolder[e] \in Holders /\ entryTtl[e] \in Ttls

LockInv == LockTypeOK /\ PromiseBacked /\ HeldIsKept /\ KeeperHasEntry

\* The lock implements the lease its holders rely on; a lease that is cut is
\* taken away from its holder.
Lease == INSTANCE LeaseLock WITH granted <- [h \in Holders |-> IF h \in cut THEN 0 ELSE promise[h]]

ImplementsLease == Lease!LeaseSpec

\* The goroutine of an entry that was released or replaced ends.
StoppedKeepAliveEnds ==
  \A e \in Entries : stopped[e] ~> keeper[e] = "none" \/ ~stopped[e]

\* A lock whose holder is gone - crashed, or its entry dropped - can be taken
\* again: without a goroutine that refreshes it, the row runs out.
AbandonedLockExpires ==
  \A h \in Holders :
    rowHolder = h ~> \/ RowFree
                     \/ rowHolder # h
                     \/ \E e \in Entries : keeper[e] # "none" /\ entryHolder[e] = h

-----------------------------------------------------------------------------
\* lock.go:114, "Lock lost; clean up local state": a keep-alive whose refresh
\* failed removes its own entry from the map.  The code removes whichever
\* entry has the key by then.
CleansUpOwnEntry ==
  [][\A e \in Entries : KeepAliveCleansUp(e) =>
       local[NodeOf[entryHolder[e]]] \in {e, NoEntry}]_vars
=============================================================================
