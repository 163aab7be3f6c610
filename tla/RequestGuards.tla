---------------------------- MODULE RequestGuards ----------------------------
(***************************************************************************)
(* pkg/api/security.go: what a request must get past.  Three guards, each  *)
(* with state of its own:                                                  *)
(*   backoff  failed logins of a key lock it for a time that doubles.  The *)
(*            keys of a login differ: its failure is recorded under the    *)
(*            address it comes from, which is a host and a port, and under *)
(*            the name in its body; the guard looks for the host, and for  *)
(*            the name that the URL gives, if it gives one                 *)
(*   idle     a session nobody used for a while is over; when it was last  *)
(*            used is cached, and written to its row by a goroutine; what  *)
(*            is done in the other group of routes, with a cache of its    *)
(*            own, is seen only in the row                                 *)
(*   rate     a bucket of tokens for each address, which is again a host   *)
(*            and a port: one for each connection                          *)
(* A tick is the second of the backoff.  Durations are signed integers of  *)
(* Width bits, 64 in the code, for the shift overflows them.  Cookies,     *)
(* headers and origins are left out.                                       *)
(***************************************************************************)
EXTENDS Integers

CONSTANTS
  Hosts, Ports, LoginNames, SessionIds,
  LoginCalls,    \* bound: logins under way at once
  GuardCalls,    \* bound: requests under way at once
  LastTick,      \* bound: the clock
  IdleTicks,     \* bound: the clock of sessions
  MaxFailures,   \* bound: failures counted for a key
  Width,         \* bits of a duration
  MaxDelay,      \* maxDelay, half an hour
  Forget,        \* how long an attempt is remembered, an hour
  Idle,          \* idleDuration, half an hour
  Bucket,        \* tokens of a full bucket
  PerToken,      \* units of a token: a bucket gains one a tick
  Unused,        \* how long a bucket is kept without a request, ten minutes
  Zero           \* no entry, no row, the zero time, no request

\* 1 << n.
Doubled[n \in 0..(Width + MaxFailures)] == IF n = 0 THEN 1 ELSE 2 * Doubled[n - 1]

ASSUME GuardAssumption ==
  /\ Width \in Nat \ {0} /\ MaxFailures \in Nat \ {0} /\ LastTick \in Nat
  /\ MaxDelay \in Nat /\ MaxDelay <= Forget /\ MaxDelay < Doubled[Width - 1]
  /\ Forget \in Nat /\ Idle \in Nat /\ Unused \in Nat
  /\ Bucket \in Nat /\ PerToken \in Nat \ {0} /\ Bucket * PerToken <= Unused

\* RemoteAddr of a request.
Addresses == Hosts \X Ports

\* What a login comes from, the name in its body and the one in its URL.
Logins == [address : Addresses, name : LoginNames \cup {Zero}, claims : LoginNames \cup {Zero}]

HostKey(h) == <<"ip", h>>
AddressKey(a) == <<"ip", a[1], a[2]>>
NameKey(n) == <<"user", n>>
BackoffKeys == {HostKey(h) : h \in Hosts} \cup {AddressKey(a) : a \in Addresses}
               \cup {NameKey(n) : n \in LoginNames}

AttemptRows == [count : Nat, last : Nat, until : Int]
FailedRows == [since : Nat, count : Nat, alone : BOOLEAN]
LoginTries ==
  [address : Addresses, name : LoginNames \cup {Zero}, alone : BOOLEAN,
   phase : {"handler", "failed", "done"}]
BucketRows == [units : Nat, last : Nat]
Requests ==
  [session : SessionIds, at : Nat, last : Nat \cup {Zero}, used : Nat \cup {Zero}, blind : BOOLEAN,
   phase : {"load", "fill", "check", "passed", "refused", "flush"}]

ASSUME ZeroAssumption ==
  /\ Zero \notin Int /\ Zero \notin AttemptRows /\ Zero \notin FailedRows
  /\ Zero \notin BucketRows /\ Zero \notin Requests /\ Zero \notin LoginTries
  /\ Zero \notin LoginNames

VARIABLES
  clock,
  attempts,   \* key -> [count, last, until], or Zero
  tries,      \* call -> [address, name, phase, alone] of a login let through, or Zero;
              \* "alone", a history: the guard looked for its name, and it is the only one
              \* of its name since
  failed,     \* history: name -> [since, count, alone] of its failures, or Zero
  cache,      \* session -> time; Zero is the zero time
  cached,     \* the sessions the cache has
  sessionRows,       \* sessions: session -> last_seen, or Zero without a row
  requests,   \* call -> [session, at, phase, last, used, blind], or Zero; "blind", a
              \* history: its session's row could not be read
  usedIn,     \* history: session -> when it was last used here, or Zero
  touched,    \* history: session -> when it was last used, or its row written
  raced,      \* history: sessions of which two requests overlapped
  buckets,    \* address -> [units, last], or Zero
  passed      \* history: address -> tick -> requests let through up to then

backoffVars == <<attempts, tries, failed>>
idleVars == <<cache, cached, sessionRows, requests, usedIn, touched, raced>>
rateVars == <<buckets, passed>>
guardVars == <<clock, backoffVars, idleVars, rateVars>>

GuardInit ==
  /\ clock = 0
  /\ attempts = [k \in BackoffKeys |-> Zero]
  /\ tries = [c \in LoginCalls |-> Zero]
  /\ failed = [n \in LoginNames |-> Zero]
  /\ cache = [s \in SessionIds |-> Zero]
  /\ cached = {}
  /\ sessionRows = [s \in SessionIds |-> Zero]
  /\ requests = [c \in GuardCalls |-> Zero]
  /\ usedIn = [s \in SessionIds |-> Zero]
  /\ touched = [s \in SessionIds |-> Zero] /\ raced = {}
  /\ buckets = [a \in Addresses |-> Zero]
  /\ passed = [a \in Addresses |-> [t \in 0..LastTick |-> 0]]

\* The clock of all three; a request is refused or let through within the idle time.
GuardTick ==
  /\ clock < LastTick
  /\ \A c \in GuardCalls : requests[c] # Zero /\ requests[c].phase # "flush" =>
       clock - requests[c].at < Idle
  /\ clock' = clock + 1
  /\ UNCHANGED <<backoffVars, idleVars, rateVars>>

-----------------------------------------------------------------------------
\* Two's complement.
Signed(n) ==
  LET m == n % Doubled[Width] IN IF m >= Doubled[Width - 1] THEN m - Doubled[Width] ELSE m
Least(a, b) == IF a < b THEN a ELSE b

\* What the comment at the shift says of the delay, and what it comes to.
Backoff(count) == Least(Doubled[count], MaxDelay)
Delay(count) == Least(Signed(Doubled[count]), MaxDelay)

\* The counts of which the shift does not overflow.
Fits(count) == Doubled[count] < Doubled[Width - 1]

\* allowed.
Allowed(k) == attempts[k] # Zero => clock > attempts[k].until

\* The logins of name n under way.
Others(n) == {c \in LoginCalls : tries[c] # Zero /\ tries[c].name = n}

\* BruteForceProtection lets a login through.
TryLogin(c, login) ==
  /\ tries[c] = Zero
  /\ Allowed(HostKey(login.address[1]))
  /\ login.claims # Zero => Allowed(NameKey(login.claims))
  /\ tries' = [d \in LoginCalls |->
       IF d = c THEN [address |-> login.address, name |-> login.name, phase |-> "handler",
                      alone |-> login.claims = login.name /\ Others(login.name) = {}]
       ELSE IF d \in Others(login.name) THEN [tries[d] EXCEPT !.alone = FALSE] ELSE tries[d]]
  /\ UNCHANGED <<clock, attempts, failed, idleVars, rateVars>>

\* Mutated Record: the lock is counted from the attempt before.
RecordEarly(k) ==
  LET count == IF attempts[k] = Zero THEN 1 ELSE attempts[k].count + 1
      from == IF attempts[k] = Zero THEN clock ELSE attempts[k].last
  IN  attempts' = [attempts EXCEPT ![k] =
        [count |-> count, last |-> clock, until |-> from + Delay(count)]]

\* record.
Record(k) ==
  LET count == IF attempts[k] = Zero THEN 1 ELSE attempts[k].count + 1
  IN  attempts' = [attempts EXCEPT ![k] =
        [count |-> count, last |-> clock, until |-> clock + Delay(count)]]

\* A login that is through with its address goes on to its name, if it has one.
ThenTheName(c, phase) ==
  tries' = [tries EXCEPT ![c] = IF @.name = Zero THEN Zero ELSE [@ EXCEPT !.phase = phase]]

InHandler(c) == tries[c] # Zero /\ tries[c].phase = "handler"
MayCount(k) == attempts[k] # Zero => attempts[k].count < MaxFailures

\* RecordFailedLogin: first the address, ...
LoginFails(c) ==
  /\ InHandler(c) /\ MayCount(AddressKey(tries[c].address))
  /\ Record(AddressKey(tries[c].address))
  /\ ThenTheName(c, "failed")
  /\ UNCHANGED <<clock, failed, idleVars, rateVars>>

\* ... then the name, whatever the guard had looked for.
NameFails(c) ==
  LET n == tries[c].name
  IN  /\ tries[c] # Zero /\ tries[c].phase = "failed" /\ MayCount(NameKey(n))
      /\ Record(NameKey(n))
      /\ failed' = [failed EXCEPT ![n] =
           IF @ = Zero THEN [since |-> clock, count |-> 1, alone |-> TRUE]
           ELSE [since |-> @.since, count |-> @.count + 1, alone |-> @.alone /\ tries[c].alone]]
      /\ tries' = [tries EXCEPT ![c] = Zero]
      /\ UNCHANGED <<clock, idleVars, rateVars>>

\* ResetBruteForce after a login, in the same order.
LoginSucceeds(c) ==
  /\ InHandler(c)
  /\ attempts' = [attempts EXCEPT ![AddressKey(tries[c].address)] = Zero]
  /\ ThenTheName(c, "done")
  /\ UNCHANGED <<clock, failed, idleVars, rateVars>>

NameSucceeds(c) ==
  LET n == tries[c].name
  IN  /\ tries[c] # Zero /\ tries[c].phase = "done"
      /\ attempts' = [attempts EXCEPT ![NameKey(n)] = Zero]
      /\ failed' = [failed EXCEPT ![n] = Zero]
      /\ tries' = [tries EXCEPT ![c] = Zero]
      /\ UNCHANGED <<clock, idleVars, rateVars>>

\* A body that is no login.
BadLogin(c) ==
  /\ InHandler(c)
  /\ tries' = [tries EXCEPT ![c] = Zero]
  /\ UNCHANGED <<clock, attempts, failed, idleVars, rateVars>>

\* cleanup of the limiter.
CleanUpAttempts ==
  LET old == {k \in BackoffKeys : attempts[k] # Zero /\ clock - attempts[k].last > Forget}
  IN  /\ old # {}
      /\ attempts' = [k \in BackoffKeys |-> IF k \in old THEN Zero ELSE attempts[k]]
      /\ failed' = [n \in LoginNames |-> IF NameKey(n) \in old THEN Zero ELSE failed[n]]
      /\ UNCHANGED <<clock, tries, idleVars, rateVars>>

BackoffNext ==
  \/ GuardTick \/ CleanUpAttempts
  \/ \E c \in LoginCalls :
       \/ \E login \in Logins : TryLogin(c, login)
       \/ LoginFails(c) \/ NameFails(c) \/ LoginSucceeds(c) \/ NameSucceeds(c) \/ BadLogin(c)

-----------------------------------------------------------------------------
\* CreateSession, UpdateSessionBandwidth, or a request in the other group of
\* routes: last_seen is now.
WriteRow(s) ==
  /\ sessionRows' = [sessionRows EXCEPT ![s] = clock]
  /\ touched' = [touched EXCEPT ![s] = clock]
  /\ UNCHANGED <<clock, backoffVars, cache, cached, requests, usedIn, raced, rateVars>>

Under(s) == \E c \in GuardCalls : requests[c] # Zero /\ requests[c].session = s

\* SessionTimeout takes the time and looks into its cache.
Arrives(c, s) ==
  /\ requests[c] = Zero
  /\ requests' = [requests EXCEPT ![c] =
       [session |-> s, at |-> clock, last |-> cache[s], used |-> usedIn[s],
        blind |-> FALSE, phase |-> IF s \in cached THEN "check" ELSE "load"]]
  /\ raced' = IF Under(s) THEN raced \cup {s} ELSE raced
  /\ UNCHANGED <<clock, backoffVars, cache, cached, sessionRows, usedIn, touched, rateVars>>

AtPhase(c, phase) == requests[c] # Zero /\ requests[c].phase = phase
Proceeds(c, phase) == requests' = [requests EXCEPT ![c].phase = phase]

\* GetSessionLastSeen: the zero time without a row.
LoadLastSeen(c) ==
  /\ AtPhase(c, "load")
  /\ requests' = [requests EXCEPT ![c].last = sessionRows[requests[c].session], ![c].phase = "fill"]
  /\ UNCHANGED <<clock, backoffVars, cache, cached, sessionRows, usedIn, touched, raced, rateVars>>

\* It fails: the request goes on with the zero time, and nothing is cached.
LoadFails(c) ==
  /\ AtPhase(c, "load")
  /\ requests' = [requests EXCEPT ![c].blind = TRUE, ![c].phase = "check"]
  /\ UNCHANGED <<clock, backoffVars, cache, cached, sessionRows, usedIn, touched, raced, rateVars>>

Remember(s, time) ==
  /\ cache' = [cache EXCEPT ![s] = time]
  /\ cached' = cached \cup {s}

\* What was loaded is cached, whatever has been cached meanwhile.
FillCache(c) ==
  /\ AtPhase(c, "fill") /\ Proceeds(c, "check")
  /\ Remember(requests[c].session, requests[c].last)
  /\ UNCHANGED <<clock, backoffVars, sessionRows, usedIn, touched, raced, rateVars>>

\* The session is refused, or the request let through.
CheckIdle(c) ==
  /\ AtPhase(c, "check")
  /\ Proceeds(c, IF requests[c].last # Zero /\ requests[c].at - requests[c].last > Idle
                 THEN "refused" ELSE "passed")
  /\ UNCHANGED <<clock, backoffVars, cache, cached, sessionRows, usedIn, touched, raced, rateVars>>

Refuse(c) ==
  /\ AtPhase(c, "refused")
  /\ requests' = [requests EXCEPT ![c] = Zero]
  /\ UNCHANGED <<clock, backoffVars, cache, cached, sessionRows, usedIn, touched, raced, rateVars>>

Later(t, u) == IF t = Zero \/ t < u THEN u ELSE t

\* Mutated PassOn: the cache is left with the time it had.
PassOnUncached(c) ==
  LET r == requests[c]
  IN  /\ AtPhase(c, "passed") /\ Proceeds(c, "flush")
      /\ usedIn' = [usedIn EXCEPT ![r.session] = Later(@, r.at)]
      /\ touched' = [touched EXCEPT ![r.session] = Later(@, r.at)]
      /\ UNCHANGED <<clock, backoffVars, cache, cached, sessionRows, raced, rateVars>>

\* The time the request came at is cached, and its goroutine started.
PassOn(c) ==
  LET r == requests[c]
  IN  /\ AtPhase(c, "passed") /\ Proceeds(c, "flush")
      /\ Remember(r.session, r.at)
      /\ usedIn' = [usedIn EXCEPT ![r.session] = Later(@, r.at)]
      /\ touched' = [touched EXCEPT ![r.session] = Later(@, r.at)]
      /\ UNCHANGED <<clock, backoffVars, sessionRows, raced, rateVars>>

\* UpdateSessionLastSeen by the goroutine: the row, if there is one, says now.
FlushLastSeen(c) ==
  LET s == requests[c].session
  IN  /\ AtPhase(c, "flush")
      /\ sessionRows' = IF sessionRows[s] = Zero THEN sessionRows ELSE [sessionRows EXCEPT ![s] = clock]
      /\ touched' = [touched EXCEPT ![s] = clock]
      /\ requests' = [requests EXCEPT ![c] = Zero]
      /\ UNCHANGED <<clock, backoffVars, cache, cached, usedIn, raced, rateVars>>

\* Its error is ignored.
FlushFails(c) ==
  /\ AtPhase(c, "flush")
  /\ requests' = [requests EXCEPT ![c] = Zero]
  /\ UNCHANGED <<clock, backoffVars, cache, cached, sessionRows, usedIn, touched, raced, rateVars>>

\* The ticker takes what is over off the cache.
FlushCache ==
  LET over == {s \in cached : cache[s] # Zero => clock - cache[s] > Idle}
  IN  /\ over # {}
      /\ cached' = cached \ over
      /\ cache' = [s \in SessionIds |-> IF s \in over THEN Zero ELSE cache[s]]
      /\ UNCHANGED <<clock, backoffVars, sessionRows, requests, usedIn, touched, raced, rateVars>>

IdleTick == clock < IdleTicks /\ GuardTick

IdleNext ==
  \/ IdleTick
  \/ \E s \in SessionIds : WriteRow(s) \/ \E c \in GuardCalls : Arrives(c, s)
  \/ \E c \in GuardCalls :
       \/ LoadLastSeen(c) \/ LoadFails(c) \/ FillCache(c) \/ CheckIdle(c) \/ Refuse(c)
       \/ PassOn(c) \/ FlushLastSeen(c) \/ FlushFails(c)
  \/ FlushCache

-----------------------------------------------------------------------------
\* The bucket as a request finds it: refilled since the last one, a new one full.
Refilled(a) ==
  IF buckets[a] = Zero THEN Bucket * PerToken
  ELSE Least(buckets[a].units + (clock - buckets[a].last), Bucket * PerToken)

\* One more request is let through.
LetThrough(a) ==
  passed' = [passed EXCEPT ![a] = [t \in 0..LastTick |-> IF t < clock THEN @[t] ELSE @[t] + 1]]

\* Mutated AllowRate: only a request that is let through is the last one seen.
AllowRateTwice(a) ==
  LET through == Refilled(a) >= PerToken
  IN  /\ buckets' = [buckets EXCEPT ![a] =
           [units |-> IF through THEN Refilled(a) - PerToken ELSE Refilled(a),
            last |-> IF through \/ buckets[a] = Zero THEN clock ELSE buckets[a].last]]
      /\ IF through THEN LetThrough(a) ELSE UNCHANGED passed
      /\ UNCHANGED <<clock, backoffVars, idleVars>>

\* allow, of RateLimitByIP.
AllowRate(a) ==
  LET through == Refilled(a) >= PerToken
  IN  /\ buckets' = [buckets EXCEPT ![a] =
           [units |-> IF through THEN Refilled(a) - PerToken ELSE Refilled(a), last |-> clock]]
      /\ IF through THEN LetThrough(a) ELSE UNCHANGED passed
      /\ UNCHANGED <<clock, backoffVars, idleVars>>

\* cleanup of the rate limiter.
CleanUpBuckets ==
  LET old == {a \in Addresses : buckets[a] # Zero /\ clock - buckets[a].last > Unused}
  IN  /\ old # {}
      /\ buckets' = [a \in Addresses |-> IF a \in old THEN Zero ELSE buckets[a]]
      /\ UNCHANGED <<clock, backoffVars, idleVars, passed>>

RateNext == GuardTick \/ CleanUpBuckets \/ \E a \in Addresses : AllowRate(a)

GuardsSpec == GuardInit /\ [][BackoffNext \/ IdleNext \/ RateNext]_guardVars

-----------------------------------------------------------------------------
GuardTypeOK ==
  /\ clock \in 0..LastTick
  /\ \A k \in BackoffKeys : attempts[k] # Zero => attempts[k].count \in 1..MaxFailures
  /\ tries \in [LoginCalls -> LoginTries \cup {Zero}]
  /\ cached \subseteq SessionIds
  /\ \A s \in SessionIds : sessionRows[s] \in 0..clock \cup {Zero}
  /\ \A a \in Addresses : buckets[a] # Zero => buckets[a].units \in 0..(Bucket * PerToken)

\* The least time n tries in a row take, one after the other.
Waits[n \in 0..MaxFailures] == IF n = 0 THEN 0 ELSE Waits[n - 1] + 1 + Backoff(n)

\* What the comment at BruteForceProtection promises holds of a name, and only when
\* the guard looks for it, which the URL must ask for: whoever fails n times with it,
\* one try after the other, has waited for every delay the comment at the shift speaks
\* of, and a new failure never shortens a lock; up to the count at which the shift
\* overflows, from which on there is no lock at all.  A host is never locked, however
\* often logins from it fail.
BackoffHolds ==
  /\ \A k \in BackoffKeys : attempts[k] # Zero /\ Fits(attempts[k].count) =>
       attempts[k].until = attempts[k].last + Backoff(attempts[k].count)
  /\ \A n \in LoginNames :
       attempts[NameKey(n)] # Zero /\ Fits(attempts[NameKey(n)].count) =>
         /\ failed[n].count = attempts[NameKey(n)].count
         /\ failed[n].alone => clock >= failed[n].since + Waits[failed[n].count - 1]
  /\ \A h \in Hosts : Allowed(HostKey(h))

\* A session that has a row is let through only when it was used, or its row
\* written, within the idle time, unless that row could not be read; and it is
\* refused only when it was not used within that time in this group of routes,
\* unless two requests of it overlapped and the later one has set the time back.
IdleHolds ==
  \A c \in GuardCalls : requests[c] # Zero =>
    LET r == requests[c]
    IN  /\ r.phase = "passed" /\ ~r.blind /\ sessionRows[r.session] # Zero =>
             r.at - touched[r.session] <= Idle
        /\ r.phase = "refused" /\ r.used # Zero /\ r.session \notin raced =>
             r.at - r.used > Idle

Through(a, from, to) == passed[a][to] - IF from = 0 THEN 0 ELSE passed[a][from - 1]

\* However requests of one connection come, and whenever the limiter forgets it, no
\* stretch of time sees more of them let through than a full bucket and what it gains.
\* A host has as many buckets as connections.
RateHolds ==
  \A a \in Addresses : \A t, u \in 0..clock :
    t <= u => Through(a, t, u) * PerToken <= Bucket * PerToken + (u - t)

\* What holds of the guards.
GuardsInv == GuardTypeOK /\ BackoffHolds /\ IdleHolds /\ RateHolds
=============================================================================
