------------------------ MODULE DistributedLock_proofs ------------------------
(***************************************************************************)
(* For any nodes and callers, any number of entries, and any ttls asked    *)
(* for: LockInv is an invariant, two callers never both rely on the lock   *)
(* unless a lease was cut, and the lock implements LeaseLock.              *)
(***************************************************************************)
EXTENDS DistributedLock, TLAPS

\* A holder runs on one of the nodes.
LEMMA HolderHasNode == \A h \in Holders : NodeOf[h] \in Nodes
BY LockAssumption

\* What the row and what callers rely on may be.
RowTyped == rowHolder \in Holders \cup {NoHolder} /\ rowLeft \in Nat
LeasesTyped == promise \in [Holders -> Nat] /\ cut \subseteq Holders

\* A caller goes from one call to the next: it begins to acquire with a ttl, or
\* it is no longer acquiring.
CallsKept ==
  \A h \in Holders : /\ call'[h] = "releasing" => call[h] = "releasing"
                     /\ (call'[h] = "acquiring") <=> (wants'[h] # 0)

\* The callers' part of the invariant, for an action that leaves the row and
\* what callers rely on alone.
LEMMA SamePromises ==
  ASSUME LockInv, UNCHANGED <<rowVars, holding, promiseVars>>, CallsKept
  PROVE  PromiseBacked'
BY DEF LockInv, PromiseBacked, rowVars, promiseVars, CallsKept

\* The row of a caller is renewed, perhaps for less than its promise.
LEMMA RenewedBacked ==
  ASSUME LockInv, NEW h \in Holders, NEW t \in Ttls, RefreshOK(h, t), Shortened(h, t),
         UNCHANGED <<holding, promise>>, CallsKept
  PROVE  PromiseBacked' /\ RowTyped' /\ LeasesTyped'
<1> USE LockAssumption
<1>1. t \in Nat /\ t > 0 /\ promise \in [Holders -> Nat] /\ cut \subseteq Holders
  BY DEF LockInv, LockTypeOK
<1>2. RowTyped' /\ LeasesTyped'
  BY <1>1 DEF RowTyped, LeasesTyped, RefreshOK, Shortened
<1>3. PromiseBacked'
  <2> SUFFICES ASSUME NEW g \in Holders
               PROVE  /\ promise'[g] > 0 /\ g \notin cut' => rowHolder' = g /\ promise'[g] <= rowLeft'
                      /\ g \notin holding' => promise'[g] = 0
                      /\ g \in cut' => promise'[g] > 0
                      /\ call'[g] = "releasing" => g \notin holding'
                      /\ (call'[g] = "acquiring") <=> (wants'[g] # 0)
    BY DEF PromiseBacked
  <2>1. /\ promise[g] > 0 /\ g \notin cut => rowHolder = g /\ promise[g] <= rowLeft
        /\ g \notin holding => promise[g] = 0
        /\ g \in cut => promise[g] > 0
        /\ call[g] = "releasing" => g \notin holding
    BY DEF LockInv, PromiseBacked
  <2>2. promise' = promise /\ holding' = holding /\ rowHolder = h /\ rowHolder' = h /\ rowLeft' = t
    BY DEF RefreshOK
  <2>3. cut' = IF promise[h] > t THEN cut \cup {h} ELSE cut
    BY DEF Shortened
  <2> QED BY <1>1, <2>1, <2>2, <2>3 DEF CallsKept
<1> QED BY <1>2, <1>3

\* A refresh that fails leaves every promise backed or cut.
LEMMA RefreshFailsBacked ==
  ASSUME LockInv, NEW h \in Holders, NEW t \in Ttls, RefreshFails(h, t), UNCHANGED holding, CallsKept
  PROVE  PromiseBacked' /\ RowTyped' /\ LeasesTyped'
<1>1. CASE UNCHANGED <<rowLeft, cut>>
  <2>1. UNCHANGED <<rowVars, holding, promiseVars>>
    BY <1>1 DEF RefreshFails, rowVars, promiseVars
  <2> QED BY <2>1, SamePromises DEF RowTyped, LeasesTyped, rowVars, promiseVars, LockInv, LockTypeOK
<1>2. CASE rowHolder = h /\ rowLeft' = t /\ Shortened(h, t)
  BY <1>2, RenewedBacked DEF RefreshFails, RefreshOK
<1> QED BY <1>1, <1>2 DEF RefreshFails

\* A keep-alive renews the lease of its holder, or the row only.
LEMMA KeepAliveBacked ==
  ASSUME LockInv, NEW e \in Entries, KeepAliveRefreshes(e)
  PROVE  PromiseBacked' /\ RowTyped' /\ LeasesTyped'
<1> USE LockAssumption
<1> DEFINE h == entryHolder[e]
           t == entryTtl[e]
<1>1. h \in Holders /\ t \in Ttls /\ RefreshOK(h, t) /\ UNCHANGED <<entryVars, call, wants, holding>>
  BY DEF LockInv, KeeperHasEntry, KeepAliveRefreshes
<1>2. CallsKept
  BY <1>1 DEF CallsKept, LockInv, PromiseBacked
<1>3. CASE local[NodeOf[h]] = e /\ h \in holding
  <2>1. promise' = [promise EXCEPT ![h] = t] /\ cut' = cut \ {h}
    BY <1>3 DEF KeepAliveRefreshes
  <2>2. \A g \in Holders \ {h} : promise[g] > 0 => g \in cut
    BY <1>1 DEF LockInv, PromiseBacked, RefreshOK, LockTypeOK
  <2>3. t \in Nat /\ promise \in [Holders -> Nat]
    BY <1>1 DEF LockInv, LockTypeOK
  <2>4. PromiseBacked'
    BY <1>1, <1>2, <1>3, <2>1, <2>2, <2>3 DEF LockInv, LockTypeOK, PromiseBacked, RefreshOK, CallsKept
  <2> QED BY <1>1, <2>1, <2>3, <2>4 DEF LockInv, LockTypeOK, RowTyped, LeasesTyped, RefreshOK
<1>4. CASE ~(local[NodeOf[h]] = e /\ h \in holding)
  <2>1. UNCHANGED promise /\ Shortened(h, t)
    BY <1>4 DEF KeepAliveRefreshes
  <2> QED BY <1>1, <1>2, <2>1, RenewedBacked
<1> QED BY <1>3, <1>4

\* Every step keeps the invariant.
LEMMA LockStep ==
  ASSUME LockInv, [Next]_vars
  PROVE  LockInv'
<1> USE LockAssumption, HolderHasNode
<1>t. LockTypeOK /\ PromiseBacked /\ HeldIsKept /\ KeeperHasEntry
  BY DEF LockInv
<1>1. ASSUME NEW h \in Holders, NEW t \in Asks[h], AcquireHeld(h, t)
      PROVE  LockInv'
  <2>1. entryHolder[local[NodeOf[h]]] \in Holders /\ t \in Ttls
    BY <1>t, <1>1 DEF HeldIsKept, AcquireHeld
  <2>3. UNCHANGED <<entryVars, call, wants, holding, promise>>
    BY <1>1 DEF AcquireHeld
  <2>5. CallsKept
    BY <1>t, <2>3 DEF CallsKept, PromiseBacked
  <2>2. PromiseBacked' /\ RowTyped' /\ LeasesTyped'
    BY <1>1, <2>1, <2>3, <2>5, RenewedBacked DEF AcquireHeld
  <2>4. QED
    BY <1>t, <2>2, <2>3
       DEF LockInv, LockTypeOK, RowTyped, LeasesTyped, HeldIsKept, KeeperHasEntry, IsHeld, entryVars
<1>2. ASSUME NEW h \in Holders, NEW t \in Asks[h], AcquireLost(h, t)
      PROVE  LockInv'
  <2>1. entryHolder[local[NodeOf[h]]] \in Holders /\ local[NodeOf[h]] \in Entries /\ t \in Ttls
    BY <1>t, <1>2 DEF LockTypeOK, HeldIsKept, AcquireLost, IsHeld
  <2>2. call' = [call EXCEPT ![h] = "acquiring"] /\ wants' = [wants EXCEPT ![h] = t] /\ t # 0
    BY <1>2, <2>1 DEF AcquireLost
  <2>3. CallsKept
    BY <1>t, <2>2 DEF LockTypeOK, PromiseBacked, CallsKept
  <2>4. PromiseBacked' /\ RowTyped' /\ LeasesTyped'
    BY <1>2, <2>1, <2>3, RefreshFailsBacked DEF AcquireLost
  <2>5. LockTypeOK'
    BY <1>t, <1>2, <2>1, <2>4 DEF LockTypeOK, RowTyped, LeasesTyped, AcquireLost
  <2>6. HeldIsKept' /\ KeeperHasEntry'
    <3>1. \A n \in Nodes : n # NodeOf[h] /\ IsHeld(n) => local[n] # local[NodeOf[h]]
      BY <1>t, <1>2 DEF HeldIsKept, AcquireLost
    <3>2. QED
      BY <1>t, <1>2, <2>1, <3>1
         DEF LockTypeOK, HeldIsKept, KeeperHasEntry, IsHeld, AcquireLost
  <2>7. QED
    BY <2>4, <2>5, <2>6 DEF LockInv
<1>3. ASSUME NEW h \in Holders, NEW t \in Asks[h], AcquireTakes(h, t)
      PROVE  LockInv'
  <2>6. t \in Ttls /\ t \in Nat /\ t > 0
    OBVIOUS
  <2>1. PICK e \in Entries : /\ keeper[e] = "none"
                             /\ keeper' = [keeper EXCEPT ![e] = "waiting"]
                             /\ stopped' = [stopped EXCEPT ![e] = FALSE]
                             /\ entryHolder' = [entryHolder EXCEPT ![e] = h]
                             /\ entryTtl' = [entryTtl EXCEPT ![e] = t]
                             /\ local' = [local EXCEPT ![NodeOf[h]] = e]
    BY <1>3 DEF AcquireTakes
  <2>2. LockTypeOK'
    BY <1>t, <1>3, <2>1, <2>6 DEF LockTypeOK, AcquireTakes, TakeRow
  <2>3. PromiseBacked'
    <3>1. \A g \in Holders : promise[g] = 0 \/ g \in cut
      BY <1>t, <1>3 DEF LockTypeOK, PromiseBacked, AcquireTakes, TakeRow, RowFree
    <3>2. call[h] # "releasing"
      BY <1>3 DEF AcquireTakes, AtTryAcquire
    <3>3. QED
      BY <1>t, <1>3, <2>6, <3>1, <3>2 DEF LockTypeOK, PromiseBacked, AcquireTakes, TakeRow
  <2>4. HeldIsKept' /\ KeeperHasEntry'
    BY <1>t, <2>1, <2>6 DEF LockTypeOK, HeldIsKept, KeeperHasEntry, IsHeld
  <2>5. QED
    BY <2>2, <2>3, <2>4 DEF LockInv
<1>4. ASSUME NEW h \in Holders, NEW t \in Asks[h], AcquireRefused(h, t)
      PROVE  LockInv'
  <2>3. t \in Ttls /\ t \in Nat /\ t > 0
    OBVIOUS
  <2>1. PromiseBacked'
    <3>1. call' = [call EXCEPT ![h] = "idle"] /\ wants' = [wants EXCEPT ![h] = 0]
      BY <1>4 DEF AcquireRefused
    <3>2. CallsKept
      BY <1>t, <3>1 DEF LockTypeOK, PromiseBacked, CallsKept
    <3>3. UNCHANGED <<holding, promise, cut>>
      BY <1>4 DEF AcquireRefused, promiseVars
    <3>4. CASE UNCHANGED rowVars
      BY <1>t, <3>2, <3>3, <3>4 DEF PromiseBacked, CallsKept, rowVars
    <3>5. CASE TakeRow(h, t)
      <4>1. \A g \in Holders : promise[g] = 0 \/ g \in cut
        BY <1>t, <3>5 DEF LockTypeOK, PromiseBacked, TakeRow, RowFree
      <4> QED BY <1>t, <3>2, <3>3, <4>1 DEF LockTypeOK, PromiseBacked, CallsKept
    <3> QED
      BY <1>4, <3>4, <3>5 DEF AcquireRefused
  <2>2. LockTypeOK'
    BY <1>t, <1>4, <2>3 DEF LockTypeOK, AcquireRefused, TakeRow, rowVars, entryVars, promiseVars
  <2> QED
    BY <1>t, <1>4, <2>1, <2>2 DEF LockInv, HeldIsKept, KeeperHasEntry, IsHeld,
                                  AcquireRefused, entryVars
<1>5. ASSUME NEW h \in Holders, ReleaseLocal(h)
      PROVE  LockInv'
  <2>1. LockTypeOK'
    <3>1. local' \in [Nodes -> Entries \cup {NoEntry}] /\ stopped' \in [Entries -> BOOLEAN]
      <4>1. CASE IsHeld(NodeOf[h])
        BY <1>t, <1>5, <4>1 DEF LockTypeOK, ReleaseLocal, IsHeld
      <4>2. CASE ~IsHeld(NodeOf[h])
        BY <1>t, <1>5, <4>2 DEF LockTypeOK, ReleaseLocal
      <4>3. QED
        BY <4>1, <4>2
    <3>2. /\ call' \in [Holders -> {"idle", "acquiring", "releasing"}]
          /\ holding' \subseteq Holders /\ promise' \in [Holders -> Nat] /\ cut' \subseteq Holders
      BY <1>t, <1>5 DEF LockTypeOK, ReleaseLocal
    <3>3. UNCHANGED <<rowHolder, rowLeft, entryHolder, entryTtl, keeper, wants>>
      BY <1>5 DEF ReleaseLocal, rowVars
    <3>4. QED
      BY <1>t, <3>1, <3>2, <3>3 DEF LockTypeOK
  <2>2. PromiseBacked'
    BY <1>t, <1>5 DEF LockTypeOK, PromiseBacked, ReleaseLocal, rowVars
  <2>3. HeldIsKept' /\ KeeperHasEntry'
    <3>1. \A n \in Nodes : n # NodeOf[h] /\ IsHeld(n) /\ IsHeld(NodeOf[h])
                             => local[n] # local[NodeOf[h]]
      BY <1>t DEF HeldIsKept
    <3>2. QED
      BY <1>t, <1>5, <3>1 DEF LockTypeOK, HeldIsKept, KeeperHasEntry, IsHeld, ReleaseLocal
  <2>4. QED
    BY <2>1, <2>2, <2>3 DEF LockInv
<1>6. ASSUME NEW h \in Holders, ReleaseRow(h)
      PROVE  LockInv'
  <2>1. LockTypeOK'
    BY <1>t, <1>6 DEF LockTypeOK, ReleaseRow, rowVars, entryVars, promiseVars
  <2>2. PromiseBacked'
    BY <1>t, <1>6 DEF LockTypeOK, PromiseBacked, ReleaseRow, rowVars, promiseVars
  <2>3. HeldIsKept' /\ KeeperHasEntry'
    BY <1>t, <1>6 DEF HeldIsKept, KeeperHasEntry, IsHeld, ReleaseRow, entryVars
  <2>4. QED
    BY <2>1, <2>2, <2>3 DEF LockInv
<1>7. ASSUME NEW e \in Entries, KeepAliveRefreshes(e)
      PROVE  LockInv'
  <2>1. PromiseBacked' /\ RowTyped' /\ LeasesTyped'
    BY <1>7, KeepAliveBacked
  <2>2. UNCHANGED <<entryVars, call, wants, holding>>
    BY <1>7 DEF KeepAliveRefreshes
  <2>3. QED
    BY <1>t, <2>1, <2>2
       DEF LockInv, LockTypeOK, RowTyped, LeasesTyped, HeldIsKept, KeeperHasEntry, IsHeld, entryVars
<1>8. ASSUME NEW e \in Entries, KeepAliveFails(e)
      PROVE  LockInv'
  <2>1. entryHolder[e] \in Holders /\ entryTtl[e] \in Ttls
    BY <1>t, <1>8 DEF KeeperHasEntry, KeepAliveFails
  <2>2. CallsKept
    BY <1>t, <1>8 DEF KeepAliveFails, CallsKept, PromiseBacked
  <2>3. PromiseBacked' /\ RowTyped' /\ LeasesTyped'
    BY <1>8, <2>1, <2>2, RefreshFailsBacked DEF KeepAliveFails
  <2>4. QED
    BY <1>t, <1>8, <2>3
       DEF LockInv, LockTypeOK, RowTyped, LeasesTyped, HeldIsKept, KeeperHasEntry, IsHeld, KeepAliveFails
<1>9. ASSUME NEW e \in Entries, KeepAliveCleansUp(e)
      PROVE  LockInv'
  <2>1. entryHolder[e] \in Holders
    BY <1>t, <1>9 DEF KeeperHasEntry, KeepAliveCleansUp
  <2>2. PromiseBacked'
    BY <1>t, <1>9, SamePromises DEF KeepAliveCleansUp, callerVars, CallsKept, PromiseBacked
  <2>3. LockTypeOK'
    BY <1>t, <1>9 DEF LockTypeOK, KeepAliveCleansUp, Over, rowVars, callerVars, promiseVars
  <2>4. HeldIsKept' /\ KeeperHasEntry'
    BY <1>t, <1>9, <2>1
       DEF LockTypeOK, HeldIsKept, KeeperHasEntry, IsHeld, KeepAliveCleansUp, Over
  <2>5. QED
    BY <2>2, <2>3, <2>4 DEF LockInv
<1>10. ASSUME NEW e \in Entries, KeepAliveStops(e)
       PROVE  LockInv'
  <2>1. PromiseBacked'
    BY <1>t, <1>10, SamePromises DEF KeepAliveStops, callerVars, CallsKept, PromiseBacked
  <2>2. LockTypeOK'
    BY <1>t, <1>10 DEF LockTypeOK, KeepAliveStops, Over, rowVars, callerVars, promiseVars
  <2>3. HeldIsKept' /\ KeeperHasEntry'
    BY <1>t, <1>10 DEF LockTypeOK, HeldIsKept, KeeperHasEntry, IsHeld, KeepAliveStops, Over
  <2>4. QED
    BY <2>1, <2>2, <2>3 DEF LockInv
<1>11. ASSUME NEW n \in Nodes, Crash(n)
       PROVE  LockInv'
  <2>1. LockTypeOK'
    <3>1. local' \in [Nodes -> Entries \cup {NoEntry}] /\ holding' \subseteq Holders
      BY <1>t, <1>11 DEF LockTypeOK, Crash
    <3>2. entryHolder' \in [Entries -> Holders \cup {NoHolder}]
      BY <1>t, <1>11 DEF LockTypeOK, Crash
    <3>3. stopped' \in [Entries -> BOOLEAN]
      <4>1. \A e \in Entries : stopped'[e] \in BOOLEAN
        BY <1>t, <1>11, Zenon DEF LockTypeOK, Crash
      <4>2. QED
        BY <1>11, <4>1 DEF Crash
    <3>4. keeper' \in [Entries -> {"none", "waiting", "lost"}]
      BY <1>t, <1>11 DEF LockTypeOK, Crash
    <3>5. call' \in [Holders -> {"idle", "acquiring", "releasing"}]
      BY <1>t, <1>11 DEF LockTypeOK, Crash
    <3>9. entryTtl' \in [Entries -> Ttls \cup {0}] /\ wants' \in [Holders -> Ttls \cup {0}]
      BY <1>t, <1>11 DEF LockTypeOK, Crash
    <3>6. promise' \in [Holders -> Nat] /\ cut' \subseteq Holders
      BY <1>t, <1>11 DEF LockTypeOK, Crash
    <3>7. rowHolder' \in Holders \cup {NoHolder} /\ rowLeft' \in Nat
      BY <1>t, <1>11 DEF LockTypeOK, Crash, rowVars
    <3>8. QED
      BY <3>1, <3>2, <3>3, <3>4, <3>5, <3>6, <3>7, <3>9 DEF LockTypeOK
  <2>2. PromiseBacked'
    BY <1>t, <1>11 DEF LockTypeOK, PromiseBacked, Crash, rowVars
  <2>3. HeldIsKept' /\ KeeperHasEntry'
    BY <1>t, <1>11 DEF LockTypeOK, HeldIsKept, KeeperHasEntry, IsHeld, Crash
  <2>4. QED
    BY <2>1, <2>2, <2>3 DEF LockInv
<1>12. CASE Tick
  <2>1. LockTypeOK'
    BY <1>t, <1>12 DEF LockTypeOK, Tick, entryVars
  <2>2. PromiseBacked'
    BY <1>t, <1>12 DEF LockTypeOK, PromiseBacked, Tick
  <2>3. HeldIsKept' /\ KeeperHasEntry'
    BY <1>t, <1>12 DEF HeldIsKept, KeeperHasEntry, IsHeld, Tick, entryVars
  <2>4. QED
    BY <2>1, <2>2, <2>3 DEF LockInv
<1>13. CASE UNCHANGED vars
  BY <1>t, <1>13 DEF LockInv, LockTypeOK, PromiseBacked, HeldIsKept, KeeperHasEntry, IsHeld,
                     vars, rowVars, entryVars, callerVars, promiseVars
<1>14. QED
  BY <1>1, <1>2, <1>3, <1>4, <1>5, <1>6, <1>7, <1>8, <1>9, <1>10, <1>11, <1>12, <1>13
     DEF Next, Acquire, Release, KeepAlive

\* Nobody holds the lock at the start.
LEMMA LockStart == Init => LockInv
BY LockAssumption
   DEF Init, LockInv, LockTypeOK, PromiseBacked, HeldIsKept, KeeperHasEntry, IsHeld

\* Every state of the lock is well typed, its promises are backed by the row,
\* and what is held locally is kept by a goroutine of its own.
THEOREM LockCorrect == Spec => []LockInv
BY LockStart, LockStep, PTL DEF Spec

\* Two callers never both have the lock for the time they were given it,
\* whatever fails or is late, unless a lease was renewed for less.
THEOREM LeaseIsExclusive == Spec => []LeaseExclusive
<1>1. LockInv => LeaseExclusive
  BY DEF LockInv, PromiseBacked, LeaseExclusive
<1>2. QED
  BY <1>1, LockCorrect, PTL

\* IsHeld is true on a node only while a goroutine of that node, not told to
\* stop, keeps the entry.
THEOREM HeldIsAlwaysKept == Spec => []HeldIsKept
<1>1. LockInv => HeldIsKept
  BY DEF LockInv
<1>2. QED
  BY <1>1, LockCorrect, PTL

-----------------------------------------------------------------------------
\* What callers may rely on: their promises but for the leases that were cut.
Granted == [h \in Holders |-> IF h \in cut THEN 0 ELSE promise[h]]

\* A lease that is renewed for t ticks is as it was, or cut.
LEMMA ShortenedIsLease ==
  ASSUME LockInv, NEW h \in Holders, NEW t, Shortened(h, t), UNCHANGED promise
  PROVE  Granted' = Granted \/ Lease!GiveUp({h})
<1>1. CASE promise[h] > t
  <2>1. Granted' = [g \in Holders |-> IF g \in {h} THEN 0 ELSE Granted[g]]
    BY <1>1 DEF Shortened, Granted
  <2> QED BY <2>1 DEF Lease!GiveUp, Granted
<1>2. CASE ~(promise[h] > t)
  BY <1>2 DEF Shortened, Granted
<1> QED BY <1>1, <1>2

\* A caller alone with a lease is granted one of t ticks.
LEMMA GrantedIsLease ==
  ASSUME LockInv, NEW h \in Holders, NEW t \in Ttls,
         \A g \in Holders \ {h} : promise[g] = 0 \/ g \in cut,
         promise' = [promise EXCEPT ![h] = t], cut' = cut \ {h}
  PROVE  Lease!LeaseNext
<1>1. \A g \in Holders \ {h} : Granted[g] = 0
  BY DEF Granted
<1>2. promise \in [Holders -> Nat]
  BY DEF LockInv, LockTypeOK
<1>3. Granted' = [Granted EXCEPT ![h] = t]
  BY <1>2 DEF Granted
<1>4. Lease!Grant(h, t)
  BY <1>1, <1>3 DEF Lease!Grant, Granted
<1> QED BY <1>4 DEF Lease!LeaseNext

\* A refresh that fails has cut a lease, or changed none.
LEMMA FailureIsLease ==
  ASSUME LockInv, NEW h \in Holders, NEW t \in Ttls, RefreshFails(h, t)
  PROVE  Granted' = Granted \/ Lease!GiveUp({h})
<1>1. CASE UNCHANGED cut
  BY <1>1 DEF RefreshFails, Granted
<1>2. CASE Shortened(h, t)
  BY <1>2, ShortenedIsLease DEF RefreshFails
<1> QED BY <1>1, <1>2 DEF RefreshFails

\* Every step of the lock is a step of the lease, or nothing to the callers.
LEMMA StepImplementsLease ==
  ASSUME LockInv, [Next]_vars
  PROVE  Lease!LeaseNext \/ Granted' = Granted
<1> USE LockAssumption
<1>t. LockTypeOK /\ PromiseBacked /\ HeldIsKept /\ KeeperHasEntry
  BY DEF LockInv
<1>u. \A h \in Holders : Lease!GiveUp({h}) => Lease!LeaseNext
  BY DEF Lease!LeaseNext
<1>1. ASSUME NEW h \in Holders, Acquire(h)
      PROVE  Lease!LeaseNext \/ Granted' = Granted
  <2>1. PICK t \in Asks[h] :
               AcquireHeld(h, t) \/ AcquireLost(h, t) \/ AcquireTakes(h, t) \/ AcquireRefused(h, t)
    BY <1>1 DEF Acquire
  <2>2. t \in Ttls
    OBVIOUS
  <2>3. IsHeld(NodeOf[h]) => entryHolder[local[NodeOf[h]]] \in Holders
    BY <1>t, HolderHasNode DEF HeldIsKept
  <2>4. CASE AcquireHeld(h, t)
    BY <1>u, <2>3, <2>4, ShortenedIsLease DEF AcquireHeld
  <2>5. CASE AcquireLost(h, t)
    BY <1>u, <2>2, <2>3, <2>5, FailureIsLease DEF AcquireLost
  <2>6. CASE AcquireTakes(h, t)
    <3>1. \A g \in Holders : promise[g] = 0 \/ g \in cut
      BY <1>t, <2>6 DEF LockTypeOK, PromiseBacked, AcquireTakes, TakeRow, RowFree
    <3> QED BY <2>2, <2>6, <3>1, GrantedIsLease DEF AcquireTakes
  <2>7. CASE AcquireRefused(h, t)
    BY <2>7 DEF AcquireRefused, promiseVars, Granted
  <2> QED BY <2>1, <2>4, <2>5, <2>6, <2>7
<1>2. ASSUME NEW h \in Holders, Release(h)
      PROVE  Lease!LeaseNext \/ Granted' = Granted
  <2>1. CASE ReleaseLocal(h)
    <3>1. promise' = [promise EXCEPT ![h] = 0] /\ cut' = cut \ {h} /\ promise \in [Holders -> Nat]
      BY <1>t, <2>1 DEF LockTypeOK, ReleaseLocal
    <3>2. Granted' = [g \in Holders |-> IF g \in {h} THEN 0 ELSE Granted[g]]
      BY <3>1 DEF Granted
    <3> QED BY <1>u, <3>2 DEF Lease!GiveUp, Granted
  <2>2. CASE ReleaseRow(h)
    BY <2>2 DEF ReleaseRow, promiseVars, Granted
  <2> QED BY <1>2, <2>1, <2>2 DEF Release
<1>3. ASSUME NEW e \in Entries, KeepAlive(e)
      PROVE  Lease!LeaseNext \/ Granted' = Granted
  <2> DEFINE h == entryHolder[e]
             t == entryTtl[e]
  <2>1. CASE KeepAliveRefreshes(e)
    <3>1. h \in Holders /\ t \in Ttls /\ RefreshOK(h, t)
      BY <1>t, <2>1 DEF KeeperHasEntry, KeepAliveRefreshes
    <3>2. CASE local[NodeOf[h]] = e /\ h \in holding
      <4>1. \A g \in Holders \ {h} : promise[g] = 0 \/ g \in cut
        BY <1>t, <3>1 DEF LockTypeOK, PromiseBacked, RefreshOK
      <4>2. promise' = [promise EXCEPT ![h] = t] /\ cut' = cut \ {h}
        BY <2>1, <3>2 DEF KeepAliveRefreshes
      <4> QED BY <3>1, <4>1, <4>2, GrantedIsLease
    <3>3. CASE ~(local[NodeOf[h]] = e /\ h \in holding)
      <4>1. UNCHANGED promise /\ Shortened(h, t)
        BY <2>1, <3>3 DEF KeepAliveRefreshes
      <4> QED BY <1>u, <3>1, <4>1, ShortenedIsLease
    <3> QED BY <3>2, <3>3
  <2>2. CASE KeepAliveFails(e)
    <3>1. h \in Holders /\ t \in Ttls
      BY <1>t, <2>2 DEF KeeperHasEntry, KeepAliveFails
    <3> QED BY <1>u, <2>2, <3>1, FailureIsLease DEF KeepAliveFails
  <2>3. CASE KeepAliveCleansUp(e) \/ KeepAliveStops(e)
    BY <2>3 DEF KeepAliveCleansUp, KeepAliveStops, callerVars, promiseVars, Granted
  <2> QED BY <1>3, <2>1, <2>2, <2>3 DEF KeepAlive
<1>4. ASSUME NEW n \in Nodes, Crash(n)
      PROVE  Lease!LeaseNext
  <2> DEFINE here == {h \in Holders : NodeOf[h] = n}
  <2>1. Granted' = [h \in Holders |-> IF h \in here THEN 0 ELSE Granted[h]]
    BY <1>4 DEF Crash, Granted
  <2>2. here \in SUBSET Holders
    OBVIOUS
  <2> QED BY <2>1, <2>2 DEF Lease!LeaseNext, Lease!GiveUp, Granted
<1>5. CASE Tick
  <2>1. promise \in [Holders -> Nat]
    BY <1>t DEF LockTypeOK
  <2>2. Granted' = [h \in Holders |-> IF Granted[h] > 0 THEN Granted[h] - 1 ELSE 0]
    <3> SUFFICES ASSUME NEW h \in Holders
                 PROVE  (IF h \in cut' THEN 0 ELSE promise'[h])
                          = LET g == IF h \in cut THEN 0 ELSE promise[h] IN IF g > 0 THEN g - 1 ELSE 0
      BY DEF Granted
    <3> QED BY <1>5, <2>1 DEF Tick
  <2> QED BY <2>2 DEF Lease!LeaseNext, Lease!TimePasses, Granted
<1>6. CASE UNCHANGED vars
  BY <1>6 DEF vars, callerVars, promiseVars, Granted
<1> QED
  BY <1>1, <1>2, <1>3, <1>4, <1>5, <1>6 DEF Next

\* The distributed lock implements the lease its holders rely on: a grant is
\* made only when no other is good, and ends by time, by its holder, or because
\* a shorter one was asked for in its place.
THEOREM LockImplementsLease == Spec => ImplementsLease
<1>1. Init => Lease!LeaseInit
  BY DEF Init, Lease!LeaseInit
<1>2. LockInv /\ [Next]_vars => [Lease!LeaseNext]_Granted
  BY StepImplementsLease
<1>3. QED
  BY <1>1, <1>2, LockCorrect, PTL DEF Spec, ImplementsLease, Lease!LeaseSpec, Granted
=============================================================================
