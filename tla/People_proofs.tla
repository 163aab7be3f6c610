---------------------------- MODULE People_proofs ---------------------------
(****************************************************************************)
(* Theorems about the rows that concern people, each group as a            *)
(* specification of its own: keys, devices and roles, users and their      *)
(* tokens, what is erased and exported of a person, profiles and parental  *)
(* controls; and what a request must get past: the backoff after failed    *)
(* logins, the idle time of sessions, the buckets of addresses.            *)
(****************************************************************************)
EXTENDS Credentials, Accounts, PersonalData, Profiles, RequestGuards, FiniteSetTheorems, TLAPS

-----------------------------------------------------------------------------
(* Credentials: five parts that share no state.  A key that is being       *)
(* validated has a row from then on, whose scopes no statement changes.    *)

KeyCalls == [key : ApiKeys, phase : {"look", "found"}, scopes : SUBSET Scopes, late : BOOLEAN]

KeysIInv ==
  /\ keyRows \in [ApiKeys -> KeyRows \cup {Nil}]
  /\ keyCalls \in [Checkers -> KeyCalls \cup {Nil}]
  /\ \A k \in revokedKeys : k \in ApiKeys /\ keyRows[k] # Nil /\ keyRows[k].revoked
  /\ \A c \in Checkers : keyCalls[c] # Nil =>
       LET call == keyCalls[c] IN
       /\ keyRows[call.key] # Nil
       /\ call.late => call.key \in revokedKeys
       /\ call.phase = "found" => ~call.late /\ call.scopes = keyRows[call.key].scopes

\* What a statement does to a row: the key stays revoked and has the scopes it had.
LEMMA RowKept ==
  ASSUME KeysIInv, NEW k \in ApiKeys, keyRows[k] # Nil,
         NEW row \in KeyRows, row.scopes = keyRows[k].scopes,
         keyRows[k].revoked => row.revoked, k \in revokedKeys' => row.revoked,
         keyRows' = [keyRows EXCEPT ![k] = row],
         revokedKeys \subseteq revokedKeys', revokedKeys' \subseteq revokedKeys \cup {k},
         \A c \in Checkers : keyCalls'[c] \in {keyCalls[c], Nil},
         keyCalls' \in [Checkers -> KeyCalls \cup {Nil}]
  PROVE  KeysIInv'
<1>1. /\ keyRows' \in [ApiKeys -> KeyRows \cup {Nil}] /\ keyRows'[k] = row
      /\ \A j \in ApiKeys \ {k} : keyRows'[j] = keyRows[j]
  BY DEF KeysIInv
<1>2. row # Nil
  BY NilAssumption
<1>3. \A j \in revokedKeys' : j \in ApiKeys /\ keyRows'[j] # Nil /\ keyRows'[j].revoked
  BY <1>1, <1>2 DEF KeysIInv
<1>4. ASSUME NEW c \in Checkers, keyCalls'[c] # Nil
      PROVE  LET call == keyCalls'[c] IN
             /\ keyRows'[call.key] # Nil
             /\ call.late => call.key \in revokedKeys'
             /\ call.phase = "found" => ~call.late /\ call.scopes = keyRows'[call.key].scopes
  <2> DEFINE call == keyCalls[c]
  <2>1. /\ keyCalls'[c] = call /\ call # Nil /\ call.key \in ApiKeys /\ keyRows[call.key] # Nil
        /\ call.late => call.key \in revokedKeys
        /\ call.phase = "found" => ~call.late /\ call.scopes = keyRows[call.key].scopes
    BY <1>4 DEF KeysIInv, KeyCalls
  <2>2. keyRows'[call.key] # Nil /\ keyRows'[call.key].scopes = keyRows[call.key].scopes
    BY <1>1, <1>2, <2>1
  <2> QED BY <2>1, <2>2
<1> QED BY <1>1, <1>3, <1>4 DEF KeysIInv

\* Creating, revoking and validating keys keep their invariant.
LEMMA KeysStep == KeysIInv /\ KeyNext => KeysIInv'
<1> SUFFICES ASSUME KeysIInv, KeyNext PROVE KeysIInv'
  OBVIOUS
<1>0. /\ keyRows \in [ApiKeys -> KeyRows \cup {Nil}]
      /\ keyCalls \in [Checkers -> KeyCalls \cup {Nil}]
  BY DEF KeysIInv
<1>1. ASSUME NEW k \in ApiKeys, RevokeKey(k) PROVE KeysIInv'
  <2> DEFINE row == [keyRows[k] EXCEPT !.revoked = TRUE]
  <2>1. /\ keyRows[k] \in KeyRows /\ keyRows[k] # Nil /\ keyRows' = [keyRows EXCEPT ![k] = row]
        /\ revokedKeys' = revokedKeys \cup {k} /\ keyCalls' = keyCalls
    BY <1>0, <1>1 DEF RevokeKey
  <2>2. row \in KeyRows /\ row.scopes = keyRows[k].scopes /\ row.revoked = TRUE
    BY <2>1 DEF KeyRows
  <2> HIDE DEF row
  <2> QED BY <1>0, <2>1, <2>2, RowKept
<1>2. ASSUME NEW k \in ApiKeys, NEW scopes \in SUBSET Scopes, CreateKey(k, scopes) PROVE KeysIInv'
  <2> DEFINE row == [scopes |-> scopes, revoked |-> FALSE, used |-> FALSE]
  <2>1. /\ keyRows[k] = Nil /\ keyRows' = [keyRows EXCEPT ![k] = row]
        /\ UNCHANGED <<revokedKeys, keyCalls>>
    BY <1>2 DEF CreateKey
  <2>2. row \in KeyRows
    BY DEF KeyRows
  <2> HIDE DEF row
  <2>3. /\ keyRows' \in [ApiKeys -> KeyRows \cup {Nil}]
        /\ \A j \in ApiKeys : keyRows[j] # Nil => keyRows'[j] = keyRows[j]
    BY <1>0, <2>1, <2>2
  <2>4. \A c \in Checkers : keyCalls[c] # Nil => keyCalls[c].key \in ApiKeys
    BY <1>0 DEF KeyCalls
  <2> QED BY <2>1, <2>3, <2>4 DEF KeysIInv
<1>3. ASSUME NEW c \in Checkers, NEW k \in ApiKeys, PresentKey(c, k) PROVE KeysIInv'
  <2> DEFINE call == [key |-> k, phase |-> "look", scopes |-> {}, late |-> k \in revokedKeys]
  <2>1. keyRows[k] # Nil /\ keyCalls' = [keyCalls EXCEPT ![c] = call] /\ UNCHANGED <<keyRows, revokedKeys>>
    BY <1>3 DEF PresentKey
  <2>2. (k \in revokedKeys) \in BOOLEAN
    OBVIOUS
  <2>3. call \in KeyCalls /\ call.key = k /\ call.phase = "look"
    BY <2>2 DEF KeyCalls
  <2>4. call.late => k \in revokedKeys
    OBVIOUS
  <2> HIDE DEF call
  <2>5. /\ keyCalls' \in [Checkers -> KeyCalls \cup {Nil}] /\ keyCalls'[c] = call
        /\ \A d \in Checkers \ {c} : keyCalls'[d] = keyCalls[d]
    BY <1>0, <2>1, <2>3
  <2> QED BY <2>1, <2>3, <2>4, <2>5 DEF KeysIInv
<1>4. ASSUME NEW c \in Checkers, ValidateKey(c) PROVE KeysIInv'
  <2> DEFINE row == keyRows[keyCalls[c].key]
             call == [[keyCalls[c] EXCEPT !.phase = "found"] EXCEPT !.scopes = row.scopes]
  <2>1. /\ keyCalls[c] \in KeyCalls /\ keyCalls[c] # Nil
        /\ keyCalls' = [keyCalls EXCEPT ![c] = IF row.revoked THEN Nil ELSE call]
        /\ UNCHANGED <<keyRows, revokedKeys>>
    BY <1>0, <1>4 DEF ValidateKey
  <2>2. /\ row # Nil /\ row \in KeyRows
        /\ keyCalls[c].late => row.revoked
    BY <1>0, <2>1 DEF KeysIInv, KeyCalls
  <2>3. /\ call \in KeyCalls /\ call.key = keyCalls[c].key /\ call.late = keyCalls[c].late
        /\ call.scopes = row.scopes
    <3>1. row.scopes \in SUBSET Scopes
      BY <2>2 DEF KeyRows
    <3> HIDE DEF row
    <3> QED BY <2>1, <3>1 DEF KeyCalls
  <2> HIDE DEF call
  <2>4. /\ keyCalls' \in [Checkers -> KeyCalls \cup {Nil}]
        /\ keyCalls'[c] = IF row.revoked THEN Nil ELSE call
        /\ \A d \in Checkers \ {c} : keyCalls'[d] = keyCalls[d]
    BY <1>0, <2>1, <2>3
  <2>5. ASSUME NEW d \in Checkers, keyCalls'[d] # Nil
        PROVE  LET new == keyCalls'[d] IN
               /\ keyRows[new.key] # Nil
               /\ new.late => new.key \in revokedKeys
               /\ new.phase = "found" => ~new.late /\ new.scopes = keyRows[new.key].scopes
    <3>1. CASE d = c
      <4>1. keyCalls'[d] = call /\ ~row.revoked
        BY <2>4, <2>5, <3>1
      <4>2. keyCalls[c].late => keyCalls[c].key \in revokedKeys
        BY <2>1 DEF KeysIInv
      <4> QED BY <2>2, <2>3, <4>1, <4>2
    <3>2. CASE d # c
      <4>1. keyCalls'[d] = keyCalls[d] /\ keyCalls[d] # Nil
        BY <2>4, <2>5, <3>2
      <4>2. /\ keyRows[keyCalls[d].key] # Nil
            /\ keyCalls[d].late => keyCalls[d].key \in revokedKeys
            /\ keyCalls[d].phase = "found" => ~keyCalls[d].late /\ keyCalls[d].scopes = keyRows[keyCalls[d].key].scopes
        BY <4>1 DEF KeysIInv
      <4> QED BY <4>1, <4>2
    <3> QED BY <3>1, <3>2
  <2> QED BY <2>1, <2>4, <2>5 DEF KeysIInv
<1>5. ASSUME NEW c \in Checkers, TouchKey(c) PROVE KeysIInv'
  <2> DEFINE k == keyCalls[c].key
             row == [keyRows[k] EXCEPT !.used = TRUE]
  <2>1. /\ keyCalls[c] \in KeyCalls /\ keyCalls[c] # Nil /\ k \in ApiKeys
        /\ keyRows' = [keyRows EXCEPT ![k] = row] \/ keyRows' = keyRows
        /\ keyCalls' = [keyCalls EXCEPT ![c] = Nil] /\ revokedKeys' = revokedKeys
    BY <1>0, <1>5 DEF TouchKey, KeyCalls
  <2>2. keyRows[k] # Nil /\ keyRows[k] \in KeyRows
    BY <1>0, <2>1 DEF KeysIInv
  <2>3. row \in KeyRows /\ row.scopes = keyRows[k].scopes /\ row.revoked = keyRows[k].revoked
    BY <2>2 DEF KeyRows
  <2>4. /\ keyCalls' \in [Checkers -> KeyCalls \cup {Nil}]
        /\ \A d \in Checkers : keyCalls'[d] \in {keyCalls[d], Nil}
    BY <1>0, <2>1
  <2>5. k \in revokedKeys => keyRows[k].revoked
    BY DEF KeysIInv
  <2> HIDE DEF row, k
  <2>6. CASE keyRows' = [keyRows EXCEPT ![k] = row]
    BY <2>1, <2>2, <2>3, <2>4, <2>5, <2>6, RowKept
  <2>7. CASE keyRows' = keyRows
    BY <2>1, <2>4, <2>7 DEF KeysIInv
  <2> QED BY <2>1, <2>6, <2>7
<1> QED BY <1>1, <1>2, <1>3, <1>4, <1>5 DEF KeyNext

-----------------------------------------------------------------------------
(* Devices: while nobody changes the row of the device a request is of, the*)
(* row is there, and found.                                                *)

DeviceRows == [ip : Ips, level : Levels]
DeviceCalls == [id : DeviceIds \cup {Nil}, ip : Ips, phase : {"id", "ip", "answer"},
                level : Levels, known : Levels \cup {"unknown", "changed"}]

\* What is known of the device of a call.
Judged(c) ==
  LET call == deviceCalls[c] IN
  call # Nil /\ call.known \notin {"changed", "unknown"} =>
    /\ call.phase # "answer" =>
         call.id \in DeviceIds /\ call.id # Nil /\ devices[call.id] # Nil
           /\ devices[call.id].level = call.known
    /\ call.phase = "answer" => call.level = call.known
    /\ call.phase # "ip"

DevicesIInv ==
  /\ devices \in [DeviceIds -> DeviceRows \cup {Nil}]
  /\ deviceCalls \in [Checkers -> DeviceCalls \cup {Nil}]
  /\ \A c \in Checkers : Judged(c)

\* A device's row is written or deleted: who has read it holds what has changed.
LEMMA SetDeviceKeeps ==
  ASSUME DevicesIInv, NEW d \in DeviceIds, NEW row \in DeviceRows \cup {Nil}, SetDevice(d, row)
  PROVE  DevicesIInv'
<1> DEFINE Changed(c) == [deviceCalls[c] EXCEPT !.known = "changed"]
<1>1. /\ devices' = [devices EXCEPT ![d] = row]
      /\ deviceCalls' = [c \in Checkers |->
           IF deviceCalls[c] # Nil /\ deviceCalls[c].id = d /\ row # devices[d]
           THEN Changed(c) ELSE deviceCalls[c]]
  BY DEF SetDevice, Witness
<1>2. /\ devices' \in [DeviceIds -> DeviceRows \cup {Nil}] /\ devices'[d] = row
      /\ \A e \in DeviceIds \ {d} : devices'[e] = devices[e]
  BY <1>1 DEF DevicesIInv
<1>3. ASSUME NEW c \in Checkers, deviceCalls[c] # Nil
      PROVE  deviceCalls[c] \in DeviceCalls /\ Changed(c) \in DeviceCalls /\ Changed(c).known = "changed"
  BY <1>3 DEF DevicesIInv, DeviceCalls
<1> HIDE DEF Changed
<1>4. deviceCalls' \in [Checkers -> DeviceCalls \cup {Nil}]
  BY <1>1, <1>3 DEF DevicesIInv
<1>5. ASSUME NEW c \in Checkers PROVE Judged(c)'
  <2>1. CASE deviceCalls[c] # Nil /\ deviceCalls[c].id = d /\ row # devices[d]
    <3>1. deviceCalls'[c].known = "changed"
      BY <1>1, <1>3, <2>1
    <3> QED BY <3>1 DEF Judged
  <2>2. CASE ~(deviceCalls[c] # Nil /\ deviceCalls[c].id = d /\ row # devices[d])
    <3>1. deviceCalls'[c] = deviceCalls[c] /\ Judged(c)
      BY <1>1, <2>2 DEF DevicesIInv
    <3>2. deviceCalls[c] # Nil /\ deviceCalls[c].id \in DeviceIds =>
            devices'[deviceCalls[c].id] = devices[deviceCalls[c].id]
      BY <1>2, <2>2
    <3> QED BY <3>1, <3>2 DEF Judged
  <2> QED BY <2>1, <2>2
<1> QED BY <1>2, <1>4, <1>5 DEF DevicesIInv

\* A call that is set to what it may be.
LEMMA CallSetKeeps ==
  ASSUME DevicesIInv, NEW c \in Checkers, NEW call \in DeviceCalls \cup {Nil},
         deviceCalls' = [deviceCalls EXCEPT ![c] = call], devices' = devices,
         call # Nil /\ call.known \notin {"changed", "unknown"} =>
           /\ call.phase # "answer" =>
                call.id \in DeviceIds /\ call.id # Nil /\ devices[call.id] # Nil
                  /\ devices[call.id].level = call.known
           /\ call.phase = "answer" => call.level = call.known
           /\ call.phase # "ip"
  PROVE  DevicesIInv'
<1>1. /\ deviceCalls' \in [Checkers -> DeviceCalls \cup {Nil}] /\ deviceCalls'[c] = call
      /\ \A d \in Checkers \ {c} : deviceCalls'[d] = deviceCalls[d]
  BY DEF DevicesIInv
<1>2. ASSUME NEW d \in Checkers PROVE Judged(d)'
  BY <1>1 DEF DevicesIInv, Judged
<1> QED BY <1>1, <1>2 DEF DevicesIInv

\* Registrations, deletions and requests of devices keep their invariant.
LEMMA DevicesStep == DevicesIInv /\ DeviceNext => DevicesIInv'
<1> SUFFICES ASSUME DevicesIInv, DeviceNext PROVE DevicesIInv'
  OBVIOUS
<1>0. /\ devices \in [DeviceIds -> DeviceRows \cup {Nil}]
      /\ deviceCalls \in [Checkers -> DeviceCalls \cup {Nil}]
  BY DEF DevicesIInv
<1>1. ASSUME NEW d \in DeviceIds,
             DeleteDevice(d) \/ (\E level \in Levels : UpdateTrust(d, level))
               \/ (\E level \in Levels, ip \in Ips : RegisterAs(d, ip, level))
      PROVE  DevicesIInv'
  <2>1. CASE DeleteDevice(d)
    BY <2>1, SetDeviceKeeps DEF DeleteDevice
  <2>2. ASSUME NEW level \in Levels, UpdateTrust(d, level) PROVE DevicesIInv'
    <3>1. devices[d] # Nil /\ SetDevice(d, [devices[d] EXCEPT !.level = level])
      BY <2>2 DEF UpdateTrust
    <3>2. [devices[d] EXCEPT !.level = level] \in DeviceRows
      BY <1>0, <3>1 DEF DeviceRows
    <3> QED BY <3>1, <3>2, SetDeviceKeeps
  <2>3. ASSUME NEW level \in Levels, NEW ip \in Ips, RegisterAs(d, ip, level) PROVE DevicesIInv'
    <3>1. [ip |-> ip, level |-> level] \in DeviceRows
      BY DEF DeviceRows
    <3> QED BY <2>3, <3>1, SetDeviceKeeps DEF RegisterAs
  <2> QED BY <1>1, <2>1, <2>2, <2>3
<1>2. ASSUME NEW c \in Checkers, NEW d \in DeviceIds \cup {Nil}, NEW ip \in Ips, CheckDevice(c, d, ip)
      PROVE  DevicesIInv'
  <2> DEFINE known == IF d = Nil \/ devices[d] = Nil THEN "unknown" ELSE devices[d].level
             call == [id |-> d, ip |-> ip, phase |-> "id", level |-> "guest", known |-> known]
  <2>1. deviceCalls' = [deviceCalls EXCEPT ![c] = call] /\ devices' = devices
    BY <1>2 DEF CheckDevice
  <2>2. known \in Levels \cup {"unknown", "changed"}
    BY <1>0 DEF DeviceRows
  <2>3. known # "unknown" => d \in DeviceIds /\ d # Nil /\ devices[d] # Nil /\ devices[d].level = known
    OBVIOUS
  <2> HIDE DEF known
  <2>4. /\ call \in DeviceCalls /\ call.id = d /\ call.phase = "id" /\ call.known = known
    BY <2>2, CredentialsAssumption DEF DeviceCalls
  <2> HIDE DEF call
  <2> QED BY <2>1, <2>3, <2>4, CallSetKeeps
<1>3. ASSUME NEW c \in Checkers, LookUpId(c) PROVE DevicesIInv'
  <2> DEFINE call == deviceCalls[c]
             found == call.id # Nil /\ devices[call.id] # Nil
  <2>1. /\ call # Nil /\ call.phase = "id" /\ devices' = devices /\ call \in DeviceCalls /\ Judged(c)
        /\ deviceCalls' = IF found THEN Answered(c, devices[call.id].level)
                          ELSE [deviceCalls EXCEPT ![c] = [call EXCEPT !.phase = "ip"]]
    BY <1>0, <1>3 DEF LookUpId, DevicesIInv
  <2>2. CASE found
    <3> DEFINE answer == [[call EXCEPT !.phase = "answer"] EXCEPT !.level = devices[call.id].level]
    <3>1. deviceCalls' = [deviceCalls EXCEPT ![c] = answer]
      BY <1>0, <2>1, <2>2 DEF Answered
    <3>2. call.id \in DeviceIds /\ devices[call.id] \in DeviceRows
      BY <1>0, <2>1, <2>2 DEF DeviceCalls
    <3>3. /\ answer \in DeviceCalls /\ answer.phase = "answer" /\ answer.level = devices[call.id].level
          /\ answer.known = call.known
      BY <2>1, <3>2 DEF DeviceCalls, DeviceRows
    <3>4. answer.known \notin {"changed", "unknown"} => answer.level = answer.known
      BY <2>1, <3>3 DEF Judged
    <3> HIDE DEF answer
    <3> QED BY <2>1, <3>1, <3>3, <3>4, CallSetKeeps
  <2>3. CASE ~found
    <3> DEFINE next == [call EXCEPT !.phase = "ip"]
    <3>1. next \in DeviceCalls /\ next.known = call.known
      BY <2>1 DEF DeviceCalls
    <3>2. call.known \in {"changed", "unknown"}
      BY <2>1, <2>3 DEF Judged
    <3>3. deviceCalls' = [deviceCalls EXCEPT ![c] = next]
      BY <2>1, <2>3
    <3> HIDE DEF next
    <3> QED BY <2>1, <3>1, <3>2, <3>3, CallSetKeeps
  <2> QED BY <2>2, <2>3
<1>4. ASSUME NEW c \in Checkers, LookUpIp(c) PROVE DevicesIInv'
  <2> DEFINE call == deviceCalls[c]
  <2>1. /\ call # Nil /\ call.phase = "ip" /\ devices' = devices /\ call \in DeviceCalls /\ Judged(c)
        /\ \/ deviceCalls' = Answered(c, "guest")
           \/ \E d \in DeviceIds : devices[d] # Nil /\ deviceCalls' = Answered(c, devices[d].level)
    BY <1>0, <1>4 DEF LookUpIp, DevicesIInv
  <2>2. PICK level \in Levels : deviceCalls' = Answered(c, level)
    BY <1>0, <2>1, CredentialsAssumption DEF DeviceRows
  <2> DEFINE answer == [[call EXCEPT !.phase = "answer"] EXCEPT !.level = level]
  <2>3. deviceCalls' = [deviceCalls EXCEPT ![c] = answer]
    BY <1>0, <2>1, <2>2 DEF Answered
  <2>4. answer \in DeviceCalls /\ answer.known = call.known /\ call.known \in {"changed", "unknown"}
    BY <2>1 DEF DeviceCalls, Judged
  <2> HIDE DEF answer
  <2> QED BY <2>1, <2>3, <2>4, CallSetKeeps
<1>5. ASSUME NEW c \in Checkers, EndCheck(c) PROVE DevicesIInv'
  BY <1>5, CallSetKeeps DEF EndCheck
<1> QED BY <1>1, <1>2, <1>3, <1>4, <1>5 DEF DeviceNext

-----------------------------------------------------------------------------
(* OAuth states: what the table holds is the moment of issue and the life, *)
(* and a state that was accepted is out of the table for good.             *)

StatesIInv ==
  /\ moment \in 0..Moments
  /\ issued \in [OauthStates -> 0..moment \cup {Nil}]
  /\ states \in [OauthStates -> 0..(Moments + StateLife) \cup {Nil}]
  /\ \A s \in OauthStates : states[s] # Nil => issued[s] # Nil /\ states[s] = issued[s] + StateLife
  /\ accepted \subseteq OauthStates \X Nat
  /\ \A a \in accepted : issued[a[1]] # Nil
  /\ StatesHold

\* Issuing, spending and purging states keep their invariant.
LEMMA StatesStep == StatesIInv /\ OauthNext => StatesIInv'
<1> SUFFICES ASSUME StatesIInv, OauthNext PROVE StatesIInv'
  OBVIOUS
<1>0. /\ moment \in Nat /\ moment <= Moments
      /\ Moments \in Nat /\ StateLife \in Nat
      /\ issued \in [OauthStates -> 0..moment \cup {Nil}]
      /\ states \in [OauthStates -> 0..(Moments + StateLife) \cup {Nil}]
      /\ \A n \in Nat : n # Nil
      /\ accepted \subseteq OauthStates \X Nat
      /\ \A a \in accepted : a[1] \in OauthStates /\ a[2] \in Nat
  BY CredentialsAssumption, NilAssumption DEF StatesIInv
<1>1. ASSUME NEW s \in OauthStates, GenerateState(s) PROVE StatesIInv'
  <2>1. /\ issued[s] = Nil /\ issued' = [issued EXCEPT ![s] = moment]
        /\ states' = [states EXCEPT ![s] = moment + StateLife]
        /\ UNCHANGED <<moment, accepted, spent>>
    BY <1>1 DEF GenerateState
  <2>2. /\ issued'[s] = moment /\ \A t \in OauthStates \ {s} : issued'[t] = issued[t]
        /\ states'[s] = moment + StateLife /\ \A t \in OauthStates \ {s} : states'[t] = states[t]
    BY <1>0, <2>1
  <2>3. issued' \in [OauthStates -> 0..moment \cup {Nil}]
    BY <1>0, <2>1
  <2>4. states' \in [OauthStates -> 0..(Moments + StateLife) \cup {Nil}]
    <3>1. moment + StateLife \in 0..(Moments + StateLife)
      BY <1>0
    <3> QED BY <1>0, <2>1, <3>1
  <2>5. \A a \in accepted : a[1] # s /\ a[1] \in OauthStates \ {s}
    BY <1>0, <2>1 DEF StatesIInv
  <2>6. moment # Nil /\ moment + StateLife # Nil
    BY <1>0
  <2>7. \A t \in OauthStates : states'[t] # Nil => issued'[t] # Nil /\ states'[t] = issued'[t] + StateLife
    BY <2>2, <2>6 DEF StatesIInv
  <2>8. StatesHold'
    BY <2>1, <2>2, <2>5, <2>6 DEF StatesIInv, StatesHold
  <2>9. \A a \in accepted : issued'[a[1]] # Nil
    BY <2>2, <2>5 DEF StatesIInv
  <2> QED BY <1>0, <2>1, <2>3, <2>4, <2>7, <2>8, <2>9 DEF StatesIInv
<1>2. ASSUME NEW s \in OauthStates, ValidateState(s) PROVE StatesIInv'
  <2>1. /\ issued[s] # Nil /\ states' = [states EXCEPT ![s] = Nil] /\ spent' = spent \cup {s}
        /\ accepted' = IF states[s] # Nil /\ moment < states[s] THEN accepted \cup {<<s, moment>>} ELSE accepted
        /\ UNCHANGED <<moment, issued>>
    BY <1>2 DEF ValidateState
  <2>2. states'[s] = Nil /\ \A t \in OauthStates \ {s} : states'[t] = states[t]
    BY <1>0, <2>1
  <2>3. states' \in [OauthStates -> 0..(Moments + StateLife) \cup {Nil}]
    BY <1>0, <2>1
  <2>4. \A t \in OauthStates : states'[t] # Nil => issued[t] # Nil /\ states'[t] = issued[t] + StateLife
    BY <2>2 DEF StatesIInv
  <2>5. \A t \in OauthStates : issued[t] # Nil /\ states'[t] = Nil =>
          moment > issued[t] + StateLife \/ t \in spent'
    BY <2>1, <2>2 DEF StatesIInv, StatesHold
  <2>6. /\ accepted' \subseteq OauthStates \X Nat
        /\ \A a \in accepted' : issued[a[1]] # Nil
        /\ \A a, b \in accepted' : a[1] = b[1] => a = b
        /\ \A a \in accepted' : a[2] < issued[a[1]] + StateLife /\ states'[a[1]] = Nil
    <3>1. CASE states[s] # Nil /\ moment < states[s]
      <4> DEFINE new == <<s, moment>>
      <4>1. new \in OauthStates \X Nat /\ new[1] = s /\ new[2] = moment
        BY <1>0
      <4>2. states[s] = issued[s] + StateLife
        BY <3>1 DEF StatesIInv
      <4>3. accepted' = accepted \cup {new}
        BY <2>1, <3>1
      <4> HIDE DEF new
      <4>4. \A a \in accepted : a[1] \in OauthStates \ {s}
        BY <1>0, <3>1 DEF StatesIInv, StatesHold
      <4>5. new[2] < issued[new[1]] + StateLife /\ states'[new[1]] = Nil /\ issued[new[1]] # Nil
        BY <2>1, <2>2, <3>1, <4>1, <4>2
      <4>6. \A a \in accepted : a[2] < issued[a[1]] + StateLife /\ states'[a[1]] = Nil /\ issued[a[1]] # Nil
        BY <2>2, <4>4 DEF StatesIInv, StatesHold
      <4>7. \A a, b \in accepted : a[1] = b[1] => a = b
        BY DEF StatesIInv, StatesHold
      <4>8. \A a, b \in accepted' : a[1] = b[1] => a = b
        BY <4>1, <4>3, <4>4, <4>7
      <4>9. accepted' \subseteq OauthStates \X Nat
        BY <1>0, <4>1, <4>3
      <4> QED BY <4>3, <4>5, <4>6, <4>8, <4>9
    <3>2. CASE ~(states[s] # Nil /\ moment < states[s])
      <4>1. accepted' = accepted
        BY <2>1, <3>2
      <4>2. \A a \in accepted : states'[a[1]] = Nil
        BY <1>0, <2>2 DEF StatesIInv, StatesHold
      <4> QED BY <4>1, <4>2 DEF StatesIInv, StatesHold
    <3> QED BY <3>1, <3>2
  <2> QED BY <1>0, <2>1, <2>3, <2>4, <2>5, <2>6 DEF StatesIInv, StatesHold
<1>3. ASSUME PurgeStates PROVE StatesIInv'
  <2>1. /\ states' = [s \in OauthStates |-> IF states[s] # Nil /\ moment > states[s] THEN Nil ELSE states[s]]
        /\ UNCHANGED <<moment, issued, accepted, spent>>
    BY <1>3 DEF PurgeStates
  <2>2. \A s \in OauthStates :
          \/ states'[s] = states[s]
          \/ states'[s] = Nil /\ states[s] # Nil /\ moment > states[s]
    BY <2>1
  <2>3. states' \in [OauthStates -> 0..(Moments + StateLife) \cup {Nil}]
    BY <1>0, <2>1
  <2>4. \A s \in OauthStates : states'[s] # Nil => issued[s] # Nil /\ states'[s] = issued[s] + StateLife
    BY <2>2 DEF StatesIInv
  <2>5. \A s \in OauthStates : issued[s] # Nil /\ states'[s] = Nil => moment > issued[s] + StateLife \/ s \in spent
    BY <2>2 DEF StatesIInv, StatesHold
  <2>6. \A a \in accepted : states'[a[1]] = Nil
    BY <1>0, <2>2 DEF StatesIInv, StatesHold
  <2> QED BY <2>1, <2>3, <2>4, <2>5, <2>6 DEF StatesIInv, StatesHold
<1>4. ASSUME MomentPasses PROVE StatesIInv'
  <2>1. moment < Moments /\ moment' = moment + 1 /\ UNCHANGED <<states, issued, accepted, spent>>
    BY <1>4 DEF MomentPasses
  <2>2. moment' \in 0..Moments /\ 0..moment \subseteq 0..moment'
    BY <1>0, <2>1
  <2>3. issued \in [OauthStates -> 0..moment' \cup {Nil}]
    BY <1>0, <2>2
  <2>4. ASSUME NEW s \in OauthStates, issued[s] # Nil, states[s] = Nil
        PROVE  moment' > issued[s] + StateLife \/ s \in spent
    <3>1. moment > issued[s] + StateLife \/ s \in spent
      BY <2>4 DEF StatesIInv, StatesHold
    <3>2. issued[s] \in Nat
      BY <1>0, <2>4
    <3> QED BY <1>0, <2>1, <3>1, <3>2
  <2> QED BY <2>1, <2>2, <2>3, <2>4 DEF StatesIInv, StatesHold
<1> QED BY <1>1, <1>2, <1>3, <1>4 DEF OauthNext

-----------------------------------------------------------------------------
(* The second factor: a call that verifies a code holds the user's secret, *)
(* unless the user got another one meanwhile.                              *)

TotpRows(n) == [secret : 1..n, verified : BOOLEAN]
TotpCalls == [user : TotpUsers, secret : Nat]

TotpIInv ==
  /\ generated \in Nat
  /\ totp \in [TotpUsers -> TotpRows(generated) \cup {Nil}]
  /\ totpCalls \in [Checkers -> TotpCalls \cup {Nil}]
  /\ \A c \in Checkers : totpCalls[c] # Nil =>
       LET call == totpCalls[c] IN
       /\ totp[call.user] # Nil
       /\ call.user \notin swapped => totp[call.user].secret = call.secret /\ call.secret \in proved
  /\ TotpHolds

\* Every step of the second factor keeps its invariant.
LEMMA TotpStep == TotpIInv /\ TotpNext => TotpIInv'
<1> SUFFICES ASSUME TotpIInv, TotpNext PROVE TotpIInv'
  OBVIOUS
<1>0. /\ generated \in Nat
      /\ totp \in [TotpUsers -> TotpRows(generated) \cup {Nil}]
      /\ totpCalls \in [Checkers -> TotpCalls \cup {Nil}]
      /\ \A n \in Nat : \A row \in TotpRows(n) : row # Nil
  BY NilAssumption DEF TotpIInv, TotpRows
<1>1. ASSUME NEW u \in TotpUsers, Enable2FA(u) PROVE TotpIInv'
  <2> DEFINE row == [secret |-> generated + 1, verified |-> FALSE]
  <2>1. /\ generated' = generated + 1 /\ totp' = [totp EXCEPT ![u] = row] /\ UNCHANGED <<totpCalls, proved>>
        /\ swapped' = IF \E c \in Checkers : totpCalls[c] # Nil /\ totpCalls[c].user = u
                      THEN swapped \cup {u} ELSE swapped
    BY <1>1 DEF Enable2FA
  <2>2. row \in TotpRows(generated') /\ row.verified = FALSE
    BY <1>0, <2>1 DEF TotpRows
  <2>3. TotpRows(generated) \subseteq TotpRows(generated')
    BY <1>0, <2>1 DEF TotpRows
  <2> HIDE DEF row
  <2>4. totp' \in [TotpUsers -> TotpRows(generated') \cup {Nil}] /\ totp'[u] = row /\ row # Nil
    BY <1>0, <2>1, <2>2, <2>3
  <2>5. \A v \in TotpUsers \ {u} : totp'[v] = totp[v]
    BY <1>0, <2>1
  <2>6. swapped \subseteq swapped'
    BY <2>1
  <2>7. ASSUME NEW c \in Checkers, totpCalls[c] # Nil
        PROVE  /\ totp'[totpCalls[c].user] # Nil
               /\ totpCalls[c].user \notin swapped' =>
                    totp'[totpCalls[c].user].secret = totpCalls[c].secret /\ totpCalls[c].secret \in proved
    <3>1. totpCalls[c].user \in TotpUsers
      BY <1>0, <2>7 DEF TotpCalls
    <3>2. CASE totpCalls[c].user = u
      BY <2>1, <2>4, <2>7, <3>2
    <3>3. CASE totpCalls[c].user # u
      BY <2>5, <2>6, <2>7, <3>1, <3>3 DEF TotpIInv
    <3> QED BY <3>2, <3>3
  <2>8. TotpHolds'
    BY <2>1, <2>2, <2>4, <2>5, <2>6 DEF TotpIInv, TotpHolds
  <2>9. generated' \in Nat
    BY <1>0, <2>1
  <2> QED BY <1>0, <2>1, <2>4, <2>7, <2>8, <2>9 DEF TotpIInv
<1>2. ASSUME NEW u \in TotpUsers, NEW c \in Checkers, ReadSecret(c, u) PROVE TotpIInv'
  <2> DEFINE call == [user |-> u, secret |-> totp[u].secret]
  <2>1. /\ totp[u] # Nil /\ totpCalls' = [totpCalls EXCEPT ![c] = call]
        /\ proved' = proved \cup {totp[u].secret} /\ UNCHANGED <<totp, generated, swapped>>
    BY <1>2 DEF ReadSecret
  <2>2. totp[u].secret \in Nat
    BY <1>0, <2>1 DEF TotpRows
  <2>3. call \in TotpCalls /\ call.user = u /\ call.secret = totp[u].secret
    BY <2>2 DEF TotpCalls
  <2> HIDE DEF call
  <2>4. /\ totpCalls' \in [Checkers -> TotpCalls \cup {Nil}] /\ totpCalls'[c] = call
        /\ \A d \in Checkers \ {c} : totpCalls'[d] = totpCalls[d]
    BY <1>0, <2>1, <2>3
  <2>5. ASSUME NEW d \in Checkers, totpCalls'[d] # Nil
        PROVE  /\ totp[totpCalls'[d].user] # Nil
               /\ totpCalls'[d].user \notin swapped =>
                    totp[totpCalls'[d].user].secret = totpCalls'[d].secret /\ totpCalls'[d].secret \in proved'
    <3>1. CASE d = c
      BY <2>1, <2>3, <2>4, <3>1
    <3>2. CASE d # c
      <4>1. totpCalls'[d] = totpCalls[d] /\ totpCalls[d] # Nil
        BY <2>4, <2>5, <3>2
      <4> QED BY <2>1, <4>1 DEF TotpIInv
    <3> QED BY <3>1, <3>2
  <2>6. TotpHolds'
    BY <2>1 DEF TotpIInv, TotpHolds
  <2> QED BY <1>0, <2>1, <2>4, <2>5, <2>6 DEF TotpIInv
<1>3. ASSUME NEW c \in Checkers, Activate2FA(c) PROVE TotpIInv'
  <2> DEFINE u == totpCalls[c].user
             row == [totp[u] EXCEPT !.verified = TRUE]
  <2>1. /\ totpCalls[c] # Nil /\ totp' = [totp EXCEPT ![u] = row]
        /\ totpCalls' = [totpCalls EXCEPT ![c] = Nil] /\ UNCHANGED <<generated, proved, swapped>>
    BY <1>3 DEF Activate2FA
  <2>2. /\ u \in TotpUsers /\ totp[u] # Nil
        /\ u \notin swapped => totp[u].secret \in proved
    BY <1>0, <2>1 DEF TotpIInv, TotpCalls
  <2>3. totp[u] \in TotpRows(generated)
    BY <1>0, <2>2
  <2>4. row \in TotpRows(generated) /\ row.secret = totp[u].secret
    BY <2>3 DEF TotpRows
  <2> HIDE DEF u, row
  <2>5. /\ totp' \in [TotpUsers -> TotpRows(generated) \cup {Nil}] /\ totp'[u] = row /\ row # Nil
        /\ \A v \in TotpUsers \ {u} : totp'[v] = totp[v]
    BY <1>0, <2>1, <2>2, <2>4
  <2>6. /\ totpCalls' \in [Checkers -> TotpCalls \cup {Nil}]
        /\ \A d \in Checkers : totpCalls'[d] # Nil => totpCalls'[d] = totpCalls[d]
    BY <1>0, <2>1
  <2>7. ASSUME NEW d \in Checkers, totpCalls'[d] # Nil
        PROVE  /\ totp'[totpCalls'[d].user] # Nil
               /\ totpCalls'[d].user \notin swapped =>
                    totp'[totpCalls'[d].user].secret = totpCalls'[d].secret /\ totpCalls'[d].secret \in proved
    <3>1. totpCalls'[d] = totpCalls[d] /\ totpCalls[d] # Nil /\ totpCalls[d].user \in TotpUsers
      BY <1>0, <2>6, <2>7 DEF TotpCalls
    <3>2. CASE totpCalls[d].user = u
      BY <2>4, <2>5, <3>1, <3>2 DEF TotpIInv
    <3>3. CASE totpCalls[d].user # u
      <4>1. totp'[totpCalls[d].user] = totp[totpCalls[d].user]
        BY <2>5, <3>1, <3>3
      <4> QED BY <3>1, <4>1 DEF TotpIInv
    <3> QED BY <3>2, <3>3
  <2>8. TotpHolds'
    BY <2>1, <2>2, <2>4, <2>5 DEF TotpIInv, TotpHolds
  <2> QED BY <1>0, <2>1, <2>5, <2>6, <2>7, <2>8 DEF TotpIInv
<1> QED BY <1>1, <1>2, <1>3 DEF TotpNext

-----------------------------------------------------------------------------
(* Roles: HasPermission says of every set of permissions what they stand   *)
(* for, whatever is done to the roles.                                     *)

RolesIInv ==
  /\ roles \in [RoleNames -> (SUBSET (Permissions \cup {Everything})) \cup {Nil}]
  /\ \A r \in BuiltIn : roles[r] # Nil

\* A built-in role is never removed.
LEMMA RolesStep == RolesIInv /\ RoleNext => RolesIInv'
<1> SUFFICES ASSUME RolesIInv, RoleNext PROVE RolesIInv'
  OBVIOUS
<1>1. ASSUME NEW r \in RoleNames, RemoveRole(r) PROVE RolesIInv'
  BY <1>1 DEF RemoveRole, RolesIInv
<1>2. ASSUME NEW r \in RoleNames, NEW permissions \in SUBSET (Permissions \cup {Everything}),
             AddRole(r, permissions)
      PROVE  RolesIInv'
  <2>1. permissions # Nil
    BY NilAssumption
  <2>2. roles' = [roles EXCEPT ![r] = permissions]
    BY <1>2 DEF AddRole
  <2>3. roles' \in [RoleNames -> (SUBSET (Permissions \cup {Everything})) \cup {Nil}]
    BY <2>2 DEF RolesIInv
  <2> QED BY <2>1, <2>2, <2>3, CredentialsAssumption DEF RolesIInv
<1> QED BY <1>1, <1>2 DEF RoleNext

\* A role may do what its permissions stand for.
LEMMA RolesGive == RolesIInv => RolesHold
<1> SUFFICES ASSUME RolesIInv, NEW r \in RoleNames, roles[r] # Nil
             PROVE  {p \in Permissions : HasPermission(r, p)} = (UNION {StandsFor(p) : p \in roles[r]}) \cap Permissions
  BY DEF RolesIInv, RolesHold
<1>1. roles[r] \subseteq Permissions \cup {Everything}
  BY DEF RolesIInv
<1>2. ASSUME NEW p \in Permissions, NEW q \in roles[r]
      PROVE  (q = Everything \/ q = p \/ (q[2] = "*" /\ q[1] = p[1])) <=> p \in StandsFor(q)
  <2>1. CASE q = Everything
    BY <1>2, <2>1 DEF StandsFor
  <2>2. CASE q # Everything
    <3>1. q \in Permissions
      BY <1>1, <2>2
    <3>2. /\ q = <<q[1], q[2]>> /\ p = <<p[1], p[2]>> /\ p[1] \in Resources /\ p[2] \in Verbs \cup {"*"}
          /\ q[1] \in Resources
      BY <3>1 DEF Permissions
    <3>3. CASE q[2] = "*"
      <4>1. StandsFor(q) = {q[1]} \X (Verbs \cup {"*"})
        BY <2>2, <3>3 DEF StandsFor
      <4>2. p \in StandsFor(q) <=> p[1] = q[1]
        BY <3>2, <4>1
      <4> QED BY <2>2, <3>3, <4>2
    <3>4. CASE q[2] # "*"
      BY <2>2, <3>4 DEF StandsFor
    <3> QED BY <3>3, <3>4
  <2> QED BY <2>1, <2>2
<1>3. ASSUME NEW p \in Permissions
      PROVE  HasPermission(r, p) <=> p \in UNION {StandsFor(q) : q \in roles[r]}
  BY <1>2 DEF HasPermission
<1> QED BY <1>3

-----------------------------------------------------------------------------
CredentialsIInv == KeysIInv /\ DevicesIInv /\ StatesIInv /\ TotpIInv /\ RolesIInv

\* Each part's invariant holds at the start.
LEMMA CredentialsStarts == CredentialsInit => CredentialsIInv
<1> SUFFICES ASSUME CredentialsInit PROVE CredentialsIInv
  OBVIOUS
<1>1. KeysIInv
  BY DEF CredentialsInit, KeysIInv
<1>2. DevicesIInv
  BY DEF CredentialsInit, DevicesIInv, Judged
<1>3. StatesIInv
  BY CredentialsAssumption DEF CredentialsInit, StatesIInv, StatesHold
<1>4. TotpIInv
  BY DEF CredentialsInit, TotpIInv, TotpHolds
<1>5. RolesIInv
  <2> DEFINE start(r) == IF r = "admin" THEN {Everything} ELSE {<<x, "read">> : x \in Resources}
  <2>1. \A r \in RoleNames : start(r) \in SUBSET (Permissions \cup {Everything})
    BY CredentialsAssumption DEF Permissions
  <2> HIDE DEF start
  <2>2. roles = [r \in RoleNames |-> IF r \notin BuiltIn THEN Nil ELSE start(r)]
    BY DEF CredentialsInit, start
  <2>3. \A r \in RoleNames : start(r) # Nil
    BY <2>1, NilAssumption
  <2> QED BY <2>1, <2>2, <2>3, CredentialsAssumption DEF RolesIInv
<1> QED BY <1>1, <1>2, <1>3, <1>4, <1>5 DEF CredentialsIInv

\* The parts share nothing: a step of one leaves the others as they are.
LEMMA CredentialsStep == CredentialsIInv /\ [CredentialsNext]_credentialVars => CredentialsIInv'
<1> SUFFICES ASSUME CredentialsIInv, [CredentialsNext]_credentialVars PROVE CredentialsIInv'
  OBVIOUS
<1> USE DEF CredentialsIInv
<1>1. UNCHANGED keyVars => KeysIInv'
  BY DEF keyVars, KeysIInv
<1>2. UNCHANGED deviceVars => DevicesIInv'
  BY DEF deviceVars, DevicesIInv, Judged
<1>3. UNCHANGED stateVars => StatesIInv'
  BY DEF stateVars, StatesIInv, StatesHold
<1>4. UNCHANGED totpVars => TotpIInv'
  BY DEF totpVars, TotpIInv, TotpHolds
<1>5. UNCHANGED roles => RolesIInv'
  BY DEF RolesIInv
<1>6. CASE KeyNext
  <2>1. UNCHANGED <<deviceVars, stateVars, totpVars, roles>>
    BY <1>6 DEF KeyNext, RevokeKey, CreateKey, PresentKey, ValidateKey, TouchKey
  <2> QED BY <1>2, <1>3, <1>4, <1>5, <1>6, <2>1, KeysStep
<1>7. CASE DeviceNext
  <2>1. UNCHANGED <<keyVars, stateVars, totpVars, roles>>
    BY <1>7 DEF DeviceNext, RegisterAs, UpdateTrust, DeleteDevice, SetDevice, CheckDevice, LookUpId, LookUpIp, EndCheck
  <2> QED BY <1>1, <1>3, <1>4, <1>5, <1>7, <2>1, DevicesStep
<1>8. CASE OauthNext
  <2>1. UNCHANGED <<keyVars, deviceVars, totpVars, roles>>
    BY <1>8 DEF OauthNext, GenerateState, ValidateState, PurgeStates, MomentPasses
  <2> QED BY <1>1, <1>2, <1>4, <1>5, <1>8, <2>1, StatesStep
<1>9. CASE TotpNext
  <2>1. UNCHANGED <<keyVars, deviceVars, stateVars, roles>>
    BY <1>9 DEF TotpNext, Enable2FA, ReadSecret, Activate2FA
  <2> QED BY <1>1, <1>2, <1>3, <1>5, <1>9, <2>1, TotpStep
<1>10. CASE RoleNext
  <2>1. UNCHANGED <<keyVars, deviceVars, stateVars, totpVars>>
    BY <1>10 DEF RoleNext, AddRole, RemoveRole
  <2> QED BY <1>1, <1>2, <1>3, <1>4, <1>10, <2>1, RolesStep
<1>11. CASE UNCHANGED credentialVars
  BY <1>1, <1>2, <1>3, <1>4, <1>5, <1>11 DEF credentialVars
<1> QED BY <1>6, <1>7, <1>8, <1>9, <1>10, <1>11 DEF CredentialsNext

\* The five invariants together give the property.
LEMMA CredentialsGive == CredentialsIInv => CredentialsInv
<1> SUFFICES ASSUME CredentialsIInv PROVE CredentialsInv
  OBVIOUS
<1>1. KeysHold
  BY DEF CredentialsIInv, KeysIInv, KeysHold
<1>2. DevicesHold
  <2> SUFFICES ASSUME NEW c \in Checkers, deviceCalls[c] # Nil, deviceCalls[c].phase = "answer"
               PROVE  deviceCalls[c].known \in {"changed", "unknown", deviceCalls[c].level}
    BY DEF DevicesHold
  <2> QED BY DEF CredentialsIInv, DevicesIInv, Judged
<1>3. StatesHold /\ TotpHolds /\ RolesHold
  BY RolesGive DEF CredentialsIInv, StatesIInv, TotpIInv
<1>4. CredentialsTypeOK
  <2>1. \A k \in ApiKeys : keyRows[k] # Nil => keyRows[k].scopes \subseteq Scopes
    BY DEF CredentialsIInv, KeysIInv, KeyRows
  <2>2. devices \in [DeviceIds -> [ip : Ips, level : Levels] \cup {Nil}]
    BY DEF CredentialsIInv, DevicesIInv, DeviceRows
  <2>3. states \in [OauthStates -> 0..(Moments + StateLife) \cup {Nil}]
    BY DEF CredentialsIInv, StatesIInv
  <2>4. totp \in [TotpUsers -> [secret : 1..generated, verified : BOOLEAN] \cup {Nil}]
    BY DEF CredentialsIInv, TotpIInv, TotpRows
  <2>5. \A r \in RoleNames : roles[r] # Nil => roles[r] \subseteq Permissions \cup {Everything}
    BY DEF CredentialsIInv, RolesIInv
  <2> QED BY <2>1, <2>2, <2>3, <2>4, <2>5 DEF CredentialsTypeOK
<1> QED BY <1>1, <1>2, <1>3, <1>4 DEF CredentialsInv

\* CredentialsInv holds of the credentials: a key that was revoked lets no later
\* request in, a device is judged by its own row, a state is good once, a second
\* factor is active only with a secret its user has, and a role may do what its
\* permissions stand for.
THEOREM CredentialsCorrect == CredentialsSpec => []CredentialsInv
<1>1. CredentialsSpec => []CredentialsIInv
  BY CredentialsStarts, CredentialsStep, PTL DEF CredentialsSpec
<1> QED BY <1>1, CredentialsGive, PTL

-----------------------------------------------------------------------------
(* Accounts.  A role that a row has, or a login has read from a row, is one*)
(* its user has had: "admins" remembers administrators for good.           *)

UserRows == [name : Names \cup {Nobody}, role : Roles]

\* No two rows have a name.
OneRowEach ==
  \A u, v \in UserIds :
    HasRow(u) /\ HasRow(v) /\ users[u].name = users[v].name /\ users[u].name # Nobody => u = v

AdminsKnown ==
  /\ AdminId \in admins
  /\ \A u \in UserIds : HasRow(u) /\ users[u].role = "admin" => u \in admins

\* A registration is of a name.
JobsKnown ==
  /\ clerks \in [Clerks -> [job : {"register", "login"}, user : UserIds \cup {Nobody},
                            name : Names \cup {Nobody}, role : Roles] \cup {Nobody}]
  /\ \A c \in Clerks : Does(c, "register") => clerks[c].name # Nobody

UsersHonest ==
  /\ users \in [UserIds -> UserRows \cup {Nobody, Gone}]
  /\ OneRowEach /\ AdminsKnown

TokensBounded ==
  /\ day \in 0..Today
  /\ IsFiniteSet(tokens) /\ Cardinality(tokens) <= AtOnce
  /\ \A token \in tokens : token.expires \in Nat

AccountsIInv == UsersHonest /\ JobsKnown /\ TokensBounded /\ TokensAreHonest

\* The administrator is the first user.
LEMMA AccountsStart == AccountsInit => AccountsIInv
<1> SUFFICES ASSUME AccountsInit PROVE AccountsIInv
  OBVIOUS
<1>1. UsersHonest
  BY AccountsAssumption DEF AccountsInit, UsersHonest, UserRows, OneRowEach, AdminsKnown, HasRow
<1>2. JobsKnown /\ TokensAreHonest
  BY DEF AccountsInit, JobsKnown, TokensAreHonest, Does
<1>3. TokensBounded
  BY FS_EmptySet, AccountsAssumption DEF AccountsInit, TokensBounded
<1> QED BY <1>1, <1>2, <1>3 DEF AccountsIInv

\* What the tokens say is what their users have been.
LEMMA AccountsIInvGives == AccountsIInv => AccountsInv
<1> SUFFICES ASSUME AccountsIInv PROVE AccountsInv
  OBVIOUS
<1>1. ASSUME NEW name \in Names PROVE Cardinality(Named(name)) <= 1
  <2>1. \A u, v \in Named(name) : u = v
    BY AccountsAssumption DEF AccountsIInv, UsersHonest, OneRowEach, Named
  <2>2. Named(name) = {} \/ \E u : Named(name) = {u}
    BY <2>1
  <2>3. CASE Named(name) = {}
    BY <2>3, FS_EmptySet
  <2>4. ASSUME NEW u, Named(name) = {u} PROVE Cardinality(Named(name)) <= 1
    <3>1. Cardinality({u}) = 1
      BY FS_Singleton
    <3>2. Cardinality(Named(name)) = Cardinality({u})
      BY <2>4, Zenon
    <3> QED BY <3>1, <3>2
  <2> QED BY <2>2, <2>3, <2>4
<1> QED BY <1>1 DEF AccountsIInv, AccountsInv, AccountsTypeOK, NamesAreUnique, UsersHonest, UserRows,
                    TokensBounded

\* A row of a name that no row has.
LEMMA CreateUserKeeps ==
  ASSUME UsersHonest, NEW u \in UserIds, NEW name \in Names, NEW role \in Roles,
         CreateUser(u, name, role)
  PROVE  UsersHonest' /\ admins \subseteq admins'
<1> DEFINE row == [name |-> name, role |-> role]
<1>1. /\ users' = [users EXCEPT ![u] = row] /\ Named(name) = {}
      /\ admins' = IF role = "admin" THEN admins \cup {u} ELSE admins
  BY DEF CreateUser
<1>2. /\ users \in [UserIds -> UserRows \cup {Nobody, Gone}] /\ row \in UserRows
      /\ row.name = name /\ row.role = role
  BY DEF UsersHonest, UserRows
<1> HIDE DEF row
<1>3. /\ users' \in [UserIds -> UserRows \cup {Nobody, Gone}] /\ users'[u] = row
      /\ \A v \in UserIds \ {u} : users'[v] = users[v]
  BY <1>1, <1>2
<1>4. \A v \in UserIds : HasRow(v) => users[v].name # name
  BY <1>1 DEF Named
<1>5. OneRowEach'
  BY <1>2, <1>3, <1>4 DEF UsersHonest, OneRowEach, HasRow
<1>6. AdminsKnown'
  BY <1>1, <1>2, <1>3 DEF UsersHonest, AdminsKnown, HasRow
<1> QED BY <1>1, <1>3, <1>5, <1>6 DEF UsersHonest

\* A row that keeps its name, or loses it, and is said to be an administrator's when it is one;
\* or that goes.
LEMMA RowChangeKeeps ==
  ASSUME UsersHonest, NEW u \in UserIds, HasRow(u),
         NEW row \in UserRows \cup {Gone}, row # Gone => row.name \in {users[u].name, Nobody},
         users' = [users EXCEPT ![u] = row], admins \subseteq admins',
         row # Gone /\ row.role = "admin" => u \in admins'
  PROVE  UsersHonest'
<1>1. /\ users' \in [UserIds -> UserRows \cup {Nobody, Gone}] /\ users'[u] = row
      /\ \A v \in UserIds \ {u} : users'[v] = users[v]
  BY DEF UsersHonest
<1>2. OneRowEach'
  BY <1>1 DEF UsersHonest, OneRowEach, HasRow
<1>3. AdminsKnown'
  BY <1>1 DEF UsersHonest, AdminsKnown, HasRow
<1> QED BY <1>1, <1>2, <1>3 DEF UsersHonest

\* Administrators stay known, so what tokens and logins say stays true.
LEMMA HonestLater ==
  ASSUME TokensAreHonest, admins \subseteq admins', UNCHANGED <<tokens, clerks, day>>
  PROVE  TokensAreHonest'
BY DEF TokensAreHonest, Does

\* A token for a role its user has had keeps the tokens honest and bounded.
LEMMA GenerateTokenKeeps ==
  ASSUME AccountsIInv, NEW u, NEW role, role = "admin" => u \in admins,
         GenerateToken(u, role), UNCHANGED <<day, admins>>
  PROVE  /\ TokensBounded'
         /\ \A token \in tokens' : token.expires <= day' + TokenTtl
                                   /\ (token.role = "admin" => token.id \in admins')
<1> DEFINE token == [id |-> u, role |-> role, expires |-> day + TokenTtl]
<1>0. IsFiniteSet(AtWork) /\ Cardinality(AtWork) \in Nat
  BY AccountsAssumption, FS_Subset, FS_CardinalityType DEF AtWork
<1>1. tokens' = tokens \cup {token} /\ Cardinality(AtWork) + Cardinality(tokens') <= AtOnce
  BY DEF GenerateToken
<1>2. day \in Nat /\ TokenTtl \in Nat /\ token.expires \in Nat /\ token.expires <= day + TokenTtl
  BY AccountsAssumption DEF AccountsIInv, TokensBounded
<1>3. IsFiniteSet(tokens')
  BY <1>1, FS_AddElement DEF AccountsIInv, TokensBounded
<1>4. token.id = u /\ token.role = role
  OBVIOUS
<1>5. Cardinality(tokens') \in Nat
  BY <1>3, FS_CardinalityType
<1>6. Cardinality(tokens') <= AtOnce
  BY <1>0, <1>1, <1>5, AccountsAssumption
<1> HIDE DEF token
<1> QED BY <1>1, <1>2, <1>3, <1>4, <1>6 DEF AccountsIInv, TokensBounded, TokensAreHonest

\* A clerk that ends, or begins a job it may do.
LEMMA ClerkKeeps ==
  ASSUME JobsKnown, NEW c \in Clerks,
         NEW job \in [job : {"register", "login"}, user : UserIds \cup {Nobody},
                      name : Names \cup {Nobody}, role : Roles] \cup {Nobody},
         job # Nobody /\ job.job = "register" => job.name # Nobody,
         clerks' = [clerks EXCEPT ![c] = job]
  PROVE  JobsKnown' /\ clerks'[c] = job /\ \A d \in Clerks \ {c} : clerks'[d] = clerks[d]
BY DEF JobsKnown, Does

\* Registrations, logins, changes of rows and days keep the invariant.
LEMMA AccountsStep == AccountsIInv /\ [AccountsNext]_accountVars => AccountsIInv'
<1> SUFFICES ASSUME AccountsIInv, [AccountsNext]_accountVars PROVE AccountsIInv'
  OBVIOUS
<1>0. UsersHonest /\ JobsKnown /\ TokensBounded /\ TokensAreHonest
  BY DEF AccountsIInv
<1> DEFINE rest == <<day, tokens, clerks>>
<1>1. ASSUME UNCHANGED rest, UsersHonest', admins \subseteq admins' PROVE AccountsIInv'
  BY <1>0, <1>1, HonestLater DEF AccountsIInv, JobsKnown, Does, TokensBounded
<1>2. CASE SeedAdminUser
  <2>1. /\ UNCHANGED <<day, tokens, clerks, admins>> /\ \A u \in UserIds : ~HasRow(u)
        /\ users' = [users EXCEPT ![AdminId] = [name |-> AdminName, role |-> "admin"]]
    BY <1>2 DEF SeedAdminUser
  <2>2. /\ users' \in [UserIds -> UserRows \cup {Nobody, Gone}]
        /\ \A u \in UserIds \ {AdminId} : users'[u] = users[u]
    BY <1>0, <2>1, AccountsAssumption DEF UsersHonest, UserRows
  <2>3. \A u \in UserIds : HasRow(u)' => u = AdminId
    BY <2>1, <2>2 DEF HasRow
  <2>4. UsersHonest'
    BY <1>0, <2>1, <2>2, <2>3 DEF UsersHonest, OneRowEach, AdminsKnown
  <2> QED BY <1>1, <2>1, <2>4
<1>3. CASE DayPasses
  <2>1. /\ day' = day + 1 /\ tokens' = {token \in tokens : day + 1 < token.expires} /\ day < Today
        /\ UNCHANGED <<users, clerks, admins>>
    BY <1>3 DEF DayPasses
  <2>2. IsFiniteSet(tokens') /\ Cardinality(tokens') <= Cardinality(tokens)
    BY <1>0, <2>1, FS_Subset DEF TokensBounded
  <2>3. Cardinality(tokens) \in Nat /\ Cardinality(tokens') \in Nat
    BY <1>0, <2>2, FS_CardinalityType DEF TokensBounded
  <2>4. TokensBounded'
    BY <1>0, <2>1, <2>2, <2>3, AccountsAssumption DEF TokensBounded
  <2>5. TokensAreHonest'
    BY <1>0, <2>1, AccountsAssumption DEF TokensBounded, TokensAreHonest, Does
  <2>6. UsersHonest' /\ JobsKnown'
    BY <1>0, <2>1 DEF UsersHonest, OneRowEach, AdminsKnown, HasRow, JobsKnown, Does
  <2> QED BY <2>4, <2>5, <2>6 DEF AccountsIInv
<1>4. ASSUME NEW u \in UserIds, WebhookToken(u) PROVE AccountsIInv'
  <2>1. GenerateToken(u, "user") /\ UNCHANGED <<users, day, clerks, admins>>
    BY <1>4 DEF WebhookToken
  <2>2. /\ TokensBounded'
        /\ \A token \in tokens' : token.expires <= day' + TokenTtl
                                  /\ (token.role = "admin" => token.id \in admins')
    BY <2>1, GenerateTokenKeeps
  <2>3. UsersHonest' /\ JobsKnown'
    BY <1>0, <2>1 DEF UsersHonest, OneRowEach, AdminsKnown, HasRow, JobsKnown, Does
  <2> QED BY <1>0, <2>1, <2>2, <2>3 DEF AccountsIInv, TokensAreHonest, Does
<1>5. ASSUME NEW u \in UserIds, Anonymize(u) PROVE AccountsIInv'
  <2> DEFINE row == [users[u] EXCEPT !.name = Nobody]
  <2>1. HasRow(u) /\ users[u] \in UserRows
    BY <1>0, <1>5 DEF Anonymize, UsersHonest, HasRow
  <2>2. row \in UserRows /\ row.name = Nobody /\ row.role = users[u].role
    BY <2>1 DEF UserRows
  <2>3. users' = [users EXCEPT ![u] = row] /\ UNCHANGED <<day, tokens, clerks, admins>>
    BY <1>5 DEF Anonymize
  <2> HIDE DEF row
  <2>4. UsersHonest'
    BY <1>0, <2>1, <2>2, <2>3, RowChangeKeeps DEF UsersHonest, AdminsKnown
  <2> QED BY <1>1, <2>3, <2>4
<1>6. ASSUME NEW token \in tokens, NEW u \in UserIds, DeleteUser(token, u) PROVE AccountsIInv'
  <2>1. HasRow(u) /\ users' = [users EXCEPT ![u] = Gone] /\ UNCHANGED <<day, tokens, clerks, admins>>
    BY <1>6 DEF DeleteUser
  <2>2. UsersHonest'
    BY <1>0, <2>1, RowChangeKeeps
  <2> QED BY <1>1, <2>1, <2>2
<1>7. ASSUME NEW token \in tokens, NEW u \in UserIds, NEW role \in Roles,
             UpdateUserRole(token, u, role)
      PROVE  AccountsIInv'
  <2> DEFINE row == [users[u] EXCEPT !.role = role]
  <2>1. HasRow(u) /\ users[u] \in UserRows
    BY <1>0, <1>7 DEF UpdateUserRole, UsersHonest, HasRow
  <2>2. row \in UserRows /\ row.name = users[u].name /\ row.role = role
    BY <2>1 DEF UserRows
  <2>3. /\ users' = [users EXCEPT ![u] = row] /\ UNCHANGED <<day, tokens, clerks>>
        /\ admins' = IF role = "admin" THEN admins \cup {u} ELSE admins
    BY <1>7 DEF UpdateUserRole
  <2> HIDE DEF row
  <2>4. admins \subseteq admins' /\ (row.role = "admin" => u \in admins')
    BY <2>2, <2>3
  <2>5. UsersHonest'
    BY <1>0, <2>1, <2>2, <2>3, <2>4, RowChangeKeeps
  <2> QED BY <1>1, <2>3, <2>4, <2>5
<1>8. ASSUME NEW token \in tokens, NEW u \in UserIds, NEW role \in Roles, NEW name \in Names,
             HandleCreateUser(token, u, name, role)
      PROVE  AccountsIInv'
  BY <1>0, <1>1, <1>8, CreateUserKeeps DEF HandleCreateUser
<1>9. ASSUME NEW c \in Clerks, NEW name \in Names, RegisterLooks(c, name)
      PROVE  AccountsIInv'
  <2> DEFINE job == [job |-> "register", user |-> Nobody, name |-> name, role |-> "user"]
  <2>1. clerks' = [clerks EXCEPT ![c] = job] /\ UNCHANGED <<users, day, tokens, admins>>
    BY <1>9 DEF RegisterLooks, Begins
  <2>2. /\ job \in [job : {"register", "login"}, user : UserIds \cup {Nobody},
                    name : Names \cup {Nobody}, role : Roles]
        /\ job.name = name /\ name # Nobody /\ job.job = "register"
    BY AccountsAssumption
  <2> HIDE DEF job
  <2>3. JobsKnown' /\ clerks'[c] = job /\ \A d \in Clerks \ {c} : clerks'[d] = clerks[d]
    BY <1>0, <2>1, <2>2, ClerkKeeps
  <2>4. TokensAreHonest'
    BY <1>0, <2>1, <2>2, <2>3 DEF TokensAreHonest, Does
  <2> QED BY <1>0, <2>1, <2>3, <2>4
          DEF AccountsIInv, UsersHonest, OneRowEach, AdminsKnown, HasRow, TokensBounded
<1>10. ASSUME NEW c \in Clerks, NEW u \in UserIds, RegisterInserts(c, u)
       PROVE  AccountsIInv'
  <2>1. /\ Does(c, "register") /\ clerks' = [clerks EXCEPT ![c] = Nobody] /\ UNCHANGED <<day, tokens>>
    BY <1>10 DEF RegisterInserts, Ends
  <2>2. clerks[c].name \in Names
    BY <1>0, <2>1 DEF JobsKnown, Does
  <2>3. JobsKnown' /\ clerks'[c] = Nobody /\ \A d \in Clerks \ {c} : clerks'[d] = clerks[d]
    BY <1>0, <2>1, ClerkKeeps
  <2>4. CreateUser(u, clerks[c].name, "user") \/ UNCHANGED <<users, admins>>
    BY <1>10 DEF RegisterInserts
  <2>5. UsersHonest' /\ admins \subseteq admins'
    BY <1>0, <2>2, <2>4, CreateUserKeeps, AccountsAssumption
       DEF UsersHonest, OneRowEach, AdminsKnown, HasRow
  <2>6. TokensAreHonest'
    BY <1>0, <2>1, <2>3, <2>5 DEF TokensAreHonest, Does
  <2> QED BY <1>0, <2>1, <2>3, <2>5, <2>6 DEF AccountsIInv, TokensBounded
<1>11. ASSUME NEW c \in Clerks, NEW u \in UserIds, LoginReads(c, u)
       PROVE  AccountsIInv'
  <2> DEFINE job == [job |-> "login", user |-> u, name |-> Nobody, role |-> users[u].role]
  <2>1. /\ clerks' = [clerks EXCEPT ![c] = job] /\ UNCHANGED <<users, day, tokens, admins>> /\ HasRow(u)
    BY <1>11 DEF LoginReads, Begins
  <2>2. /\ job \in [job : {"register", "login"}, user : UserIds \cup {Nobody},
                    name : Names \cup {Nobody}, role : Roles]
        /\ job.job = "login" /\ job.user = u /\ job.role = users[u].role
    BY <1>0, <2>1 DEF UsersHonest, HasRow, UserRows
  <2> HIDE DEF job
  <2>3. JobsKnown' /\ clerks'[c] = job /\ \A d \in Clerks \ {c} : clerks'[d] = clerks[d]
    BY <1>0, <2>1, <2>2, ClerkKeeps
  <2>4. job.role = "admin" => u \in admins
    BY <1>0, <2>1, <2>2 DEF UsersHonest, AdminsKnown
  <2>5. TokensAreHonest'
    BY <1>0, <2>1, <2>2, <2>3, <2>4 DEF TokensAreHonest, Does
  <2> QED BY <1>0, <2>1, <2>3, <2>5
          DEF AccountsIInv, UsersHonest, OneRowEach, AdminsKnown, HasRow, TokensBounded
<1>12. ASSUME NEW c \in Clerks, LoginAnswers(c)
       PROVE  AccountsIInv'
  <2>1. /\ Does(c, "login") /\ clerks' = [clerks EXCEPT ![c] = Nobody] /\ UNCHANGED <<users, day, admins>>
        /\ GenerateToken(clerks[c].user, clerks[c].role)
    BY <1>12 DEF LoginAnswers, Ends
  <2>2. JobsKnown' /\ clerks'[c] = Nobody /\ \A d \in Clerks \ {c} : clerks'[d] = clerks[d]
    BY <1>0, <2>1, ClerkKeeps
  <2>3. clerks[c].role = "admin" => clerks[c].user \in admins
    BY <1>0, <2>1 DEF TokensAreHonest
  <2>4. /\ TokensBounded'
        /\ \A token \in tokens' : token.expires <= day' + TokenTtl
                                  /\ (token.role = "admin" => token.id \in admins')
    BY <2>1, <2>3, GenerateTokenKeeps
  <2>5. TokensAreHonest'
    BY <1>0, <2>1, <2>2, <2>4 DEF TokensAreHonest, Does
  <2> QED BY <1>0, <2>1, <2>2, <2>4, <2>5
          DEF AccountsIInv, UsersHonest, OneRowEach, AdminsKnown, HasRow
<1>13. ASSUME NEW token \in tokens, SwitchProfile(token) PROVE AccountsIInv'
  <2>1. GenerateToken(token.id, token.role) /\ UNCHANGED <<users, day, clerks, admins>>
    BY <1>13 DEF SwitchProfile
  <2>2. token.role = "admin" => token.id \in admins
    BY <1>0 DEF TokensAreHonest
  <2>3. PICK u, role : u = token.id /\ role = token.role
    OBVIOUS
  <2>4. /\ TokensBounded'
        /\ \A t \in tokens' : t.expires <= day' + TokenTtl
                              /\ (t.role = "admin" => t.id \in admins')
    BY <2>1, <2>2, <2>3, GenerateTokenKeeps
  <2>5. UsersHonest' /\ JobsKnown'
    BY <1>0, <2>1 DEF UsersHonest, OneRowEach, AdminsKnown, HasRow, JobsKnown, Does
  <2> QED BY <1>0, <2>1, <2>4, <2>5 DEF AccountsIInv, TokensAreHonest, Does
<1>14. CASE UNCHANGED accountVars
  BY <1>0, <1>1, <1>14 DEF accountVars, UsersHonest, OneRowEach, AdminsKnown, HasRow
<1> QED BY <1>2, <1>3, <1>4, <1>5, <1>6, <1>7, <1>8, <1>9, <1>10, <1>11, <1>12, <1>13, <1>14
        DEF AccountsNext

\* For any names, roles and number of requests at once: a name has one row, whoever looked
\* first; and nobody bears an administrator's token who was not one, through any number of
\* tokens made from tokens.
THEOREM AccountsCorrect == AccountsSpec => []AccountsInv
BY AccountsStart, AccountsStep, AccountsIInvGives, PTL DEF AccountsSpec

-----------------------------------------------------------------------------
(* PersonalData.  The rows the user had when an export began and has had   *)
(* since are rows he has; with the lists of statements that is all the     *)
(* exported and erased properties need.  What an export found is listed.   *)

BaseIsThere == export.base \subseteq userRows /\ export.got \subseteq KindsListed

ExportStates ==
  [open : BOOLEAN, done : 0..Len(Exported), got : SUBSET (RowKinds \cup {"older"}),
   base : SUBSET (RowKinds \cup {"older"})]

PersonIInv ==
  /\ PersonTypeOK /\ ListedIsGone /\ ListedIsExported /\ BaseIsThere
  /\ export \in ExportStates

\* The statements of an erasure, and of an export.
LEMMA ErasedKinds ==
  /\ Len(Erased) = 5
  /\ \A i \in 1..5 :
       /\ ("activity" \in Erased[i] <=> i = 2) /\ ("older" \in Erased[i] <=> i = 2)
       /\ ("sessions" \in Erased[i] <=> i = 5)
<1>1. Erased[1] = {"collections"} /\ Erased[2] = {"activity", "older"} /\ Erased[3] = {"progress"}
      /\ Erased[4] = {"history"} /\ Erased[5] = {"sessions"} /\ Len(Erased) = 5
  BY DEF Erased
<1>2. \A i \in 1..5 : i = 1 \/ i = 2 \/ i = 3 \/ i = 4 \/ i = 5
  OBVIOUS
<1> QED BY <1>1, <1>2

\* An export has four statements, each for a kind an erasure deletes.
LEMMA ExportedKinds ==
  Len(Exported) = 4 /\ \A i \in 1..4 : Exported[i] \in KindsListed
<1>1. /\ Exported[1] = "collections" /\ Exported[2] = "activity" /\ Exported[3] = "progress"
      /\ Exported[4] = "history" /\ Len(Exported) = 4
  BY DEF Exported
<1>2. Erased[1] = {"collections"} /\ Erased[2] = {"activity", "older"} /\ Erased[3] = {"progress"}
      /\ Erased[4] = {"history"} /\ Len(Erased) = 5
  BY DEF Erased
<1>3. {"collections", "activity", "progress", "history"} \subseteq KindsListed
  BY <1>2 DEF KindsListed
<1>4. \A i \in 1..4 : i = 1 \/ i = 2 \/ i = 3 \/ i = 4
  OBVIOUS
<1> QED BY <1>1, <1>3, <1>4

\* What a statement deletes is listed.
LEMMA ErasedListed == \A i \in 1..5 : Erased[i] \subseteq KindsListed
BY ErasedKinds DEF KindsListed

\* Nothing was erased or exported at the start.
LEMMA PersonStart == PersonInit => PersonIInv
BY ErasedKinds, ExportedKinds
   DEF PersonInit, PersonIInv, ExportStates, PersonTypeOK, ListedIsGone, ListedIsExported, BaseIsThere, NoExport

\* The invariant has the property as parts.
LEMMA PersonIInvGives == PersonIInv => PersonInv
BY DEF PersonIInv, PersonInv, BaseIsThere, UnlistedStays

\* Rows that come are rows that are written, or were pushed out of the newest.
LEMMA WritesKeep ==
  ASSUME PersonIInv, (\E kind \in RowKinds : WriteRows(kind)) \/ OthersAct
  PROVE  PersonIInv'
<1>1. CASE \E kind \in RowKinds : WriteRows(kind)
  <2>1. PICK kind \in RowKinds :
          /\ userRows' = userRows \cup {kind} /\ dirty' = dirty \cup ({kind} \cap KindsListed)
          /\ UNCHANGED <<profile, accountSessions, erasure, export>>
    BY <1>1 DEF WriteRows
  <2>2. ASSUME erasure # NoErasure, NEW i \in 1..erasure
        PROVE  Erased[i] \cap userRows' \subseteq dirty'
    <3>1. Erased[i] \cap userRows \subseteq dirty /\ Erased[i] \subseteq KindsListed
      BY <2>2, ErasedKinds, ErasedListed DEF PersonIInv, ListedIsGone, PersonTypeOK
    <3> QED BY <2>1, <3>1
  <2> QED BY <2>1, <2>2 DEF PersonIInv, PersonTypeOK, ListedIsGone, ListedIsExported, BaseIsThere
<1>2. CASE OthersAct
  <2>1. /\ "activity" \in userRows /\ erasure' = erasure /\ accountSessions' = accountSessions
        /\ userRows' = (userRows \ {"activity"}) \cup {"older"}
        /\ dirty' = IF "activity" \in dirty THEN dirty \cup {"older"} ELSE dirty
        /\ export' = [export EXCEPT !.base = export.base \ {"activity"}]
    BY <1>2 DEF OthersAct
  <2>2. /\ export' \in ExportStates
        /\ export'.done = export.done /\ export'.got = export.got
        /\ export'.base = export.base \ {"activity"}
    BY <2>1 DEF PersonIInv, ExportStates
  <2>3. ASSUME erasure # NoErasure, NEW i \in 1..erasure
        PROVE  /\ Erased[i] \cap userRows' \subseteq dirty'
               /\ "sessions" \in Erased[i] /\ accountSessions # {} => "sessions" \in dirty'
    <3>1. i \in 1..5 /\ Erased[i] \cap userRows \subseteq dirty
      BY <2>3, ErasedKinds DEF PersonIInv, ListedIsGone, PersonTypeOK
    <3>2. "sessions" \in Erased[i] /\ accountSessions # {} => "sessions" \in dirty
      BY <2>3 DEF PersonIInv, ListedIsGone
    <3>3. "older" \in Erased[i] => "activity" \in dirty
      BY <2>1, <3>1, ErasedKinds
    <3> QED BY <2>1, <3>1, <3>2, <3>3
  <2> QED BY <2>1, <2>2, <2>3 DEF PersonIInv, PersonTypeOK, ListedIsGone, ListedIsExported, BaseIsThere
<1> QED BY <1>1, <1>2

\* A statement of the erasure takes its rows from what an export may still find.
LEMMA EraseKeeps ==
  ASSUME PersonIInv, EraseNext
  PROVE  PersonIInv'
<1> DEFINE kinds == Erased[erasure + 1]
<1>1. /\ erasure # NoErasure /\ erasure \in 0..4 /\ erasure' = erasure + 1
      /\ userRows' = userRows \ kinds
      /\ accountSessions' = IF "sessions" \in kinds THEN {} ELSE accountSessions
      /\ export' = [export EXCEPT !.base = export.base \ kinds] /\ dirty' = dirty
  BY ErasedKinds DEF EraseNext, PersonIInv, PersonTypeOK
<1>2. /\ export' \in ExportStates
      /\ export'.done = export.done /\ export'.got = export.got /\ export'.base = export.base \ kinds
  BY <1>1 DEF PersonIInv, ExportStates
<1>3. ListedIsGone'
  <2> SUFFICES ASSUME NEW i \in 1..erasure'
               PROVE  /\ Erased[i] \cap userRows' \subseteq dirty
                      /\ "sessions" \in Erased[i] /\ accountSessions' # {} => "sessions" \in dirty
    BY <1>1 DEF ListedIsGone
  <2>1. CASE i = erasure + 1
    BY <1>1, <2>1
  <2>2. CASE i # erasure + 1
    <3>1. i \in 1..erasure
      BY <1>1, <2>2
    <3>2. /\ Erased[i] \cap userRows \subseteq dirty
          /\ "sessions" \in Erased[i] /\ accountSessions # {} => "sessions" \in dirty
      BY <1>1, <3>1 DEF PersonIInv, ListedIsGone
    <3> QED BY <1>1, <3>2
  <2> QED BY <2>1, <2>2
<1>4. PersonTypeOK'
  BY <1>1, <1>2, ErasedKinds DEF PersonIInv, PersonTypeOK
<1> QED BY <1>1, <1>2, <1>3, <1>4 DEF PersonIInv, ListedIsExported, BaseIsThere

\* What a statement of the export finds is there.
LEMMA ExportKeeps ==
  ASSUME PersonIInv, ExportNext
  PROVE  PersonIInv'
<1> DEFINE kind == Exported[export.done + 1]
           Rows == RowKinds \cup {"older"}
<1>1. /\ export.done \in 0..3 /\ Len(Exported) = 4 /\ userRows \subseteq Rows
      /\ export.base \subseteq userRows /\ export.got \subseteq Rows /\ ListedIsExported
      /\ kind \in KindsListed
  BY ExportedKinds DEF ExportNext, PersonIInv, PersonTypeOK, BaseIsThere, ExportStates
<1>2. /\ export' = [export EXCEPT !.done = export.done + 1,
                                  !.got = export.got \cup (userRows \cap {kind})]
      /\ UNCHANGED <<profile, userRows, accountSessions, erasure, dirty>>
  BY DEF ExportNext
<1>3. /\ export' \in ExportStates /\ export'.base = export.base
      /\ export'.done = export.done + 1 /\ export'.got = export.got \cup (userRows \cap {kind})
  <2>1. PICK done, got : done = export.done + 1 /\ got = export.got \cup (userRows \cap {kind})
    OBVIOUS
  <2>2. done \in 0..Len(Exported) /\ got \in SUBSET Rows
    BY <1>1, <2>1
  <2>3. export' = [export EXCEPT !.done = done, !.got = got] /\ export \in ExportStates
    BY <1>2, <2>1 DEF PersonIInv
  <2>4. export' \in ExportStates /\ export'.base = export.base /\ export'.done = done
        /\ export'.got = got
    BY <2>2, <2>3 DEF ExportStates
  <2> QED BY <2>1, <2>4
<1>4. ASSUME NEW i \in 1..export'.done, Exported[i] \in export'.base
      PROVE  Exported[i] \in export'.got
  <2>1. CASE i = export.done + 1
    BY <1>1, <1>3, <1>4, <2>1
  <2>2. CASE i # export.done + 1
    <3>1. i \in 1..export.done
      BY <1>1, <1>3, <2>2
    <3> QED BY <1>1, <1>3, <1>4, <3>1 DEF ListedIsExported
  <2> QED BY <2>1, <2>2
<1>5. export'.got \subseteq KindsListed
  BY <1>1, <1>3 DEF PersonIInv, BaseIsThere
<1>6. export'.done \in 0..Len(Exported)
  BY <1>1, <1>3
<1> QED BY <1>2, <1>3, <1>4, <1>5, <1>6
        DEF PersonIInv, PersonTypeOK, ListedIsGone, ListedIsExported, BaseIsThere

\* Writes, erasures and exports keep the invariant.
LEMMA PersonStep == PersonIInv /\ [PersonNext]_personVars => PersonIInv'
<1> SUFFICES ASSUME PersonIInv, [PersonNext]_personVars PROVE PersonIInv'
  OBVIOUS
<1> USE DEF PersonIInv, PersonTypeOK, ListedIsGone, ListedIsExported, BaseIsThere
<1>1. CASE DropProfile \/ EraseEnds
  BY <1>1 DEF DropProfile, EraseEnds
<1>2. CASE EraseBegins
  BY <1>2, ErasedKinds DEF EraseBegins
<1>3. CASE ExportEnds
  BY <1>3, ExportedKinds DEF ExportEnds, NoExport, ExportStates
<1>4. ASSUME NEW d \in Devices, SwiftFlowWebhook(d) \/ RevokeDevice(d)
      PROVE  PersonIInv'
  BY <1>4 DEF SwiftFlowWebhook, RevokeDevice
<1>5. CASE UNCHANGED personVars
  BY <1>5 DEF personVars
<1>6. CASE ExportOpens
  <2>1. PICK base : base = userRows \cap RowKinds
    OBVIOUS
  <2>2. /\ export' = [NoExport EXCEPT !.open = TRUE, !.base = base]
        /\ UNCHANGED <<profile, userRows, accountSessions, erasure, dirty>>
    BY <1>6, <2>1 DEF ExportOpens
  <2>3. /\ export' = [open |-> TRUE, done |-> 0, got |-> {}, base |-> base]
        /\ base \subseteq userRows /\ base \in SUBSET (RowKinds \cup {"older"})
    BY <2>1, <2>2 DEF NoExport
  <2>4. export' \in ExportStates
    BY <2>3, ExportedKinds DEF ExportStates
  <2>5. export'.done = 0 /\ export'.got = {} /\ export'.base = base
    BY <2>3
  <2> QED BY <2>2, <2>3, <2>4, <2>5, ExportedKinds
<1> QED BY <1>1, <1>2, <1>3, <1>4, <1>5, <1>6, WritesKeep, EraseKeeps, ExportKeeps DEF PersonNext

\* Whatever others write and however often it fails midway: an erasure leaves nothing of the
\* listed kinds it has come to, an export has what the user had of them all the while, and
\* neither touches the other kinds.
THEOREM PersonCorrect == PersonSpec => []PersonInv
BY PersonStart, PersonStep, PersonIInvGives, PTL DEF PersonSpec

-----------------------------------------------------------------------------
(* Profiles.  A request that holds a row nobody has written since holds the*)
(* rating handleUpdateProfile set last, unless that has been undone; and   *)
(* one profile of an account is made, or none, for each request that had   *)
(* counted and not inserted.                                               *)

Row == [limit : Limits, pref : Preferences]
Edit == [job : {"create", "update", "preferences", "switch"}, profile : ProfileIds,
         row : Row, stale : BOOLEAN]

\* A profile that was not made yet has no row and no past.
NotMade ==
  \A p \in ProfileIds \ made : profileRows[p] = Void /\ lastLimit[p] = 0 /\ p \notin undone

\* What request q holds.
Held(q) ==
  edits[q] # Void =>
    LET e == edits[q] IN
    /\ e.job = "create" => e.profile \notin made /\ e.row.limit = 0
    /\ e.job # "create" => e.profile \in made
    /\ e.job \notin {"create", "update"} /\ ~e.stale /\ e.profile \notin undone =>
         e.row.limit = lastLimit[e.profile]

\* One request at most makes a profile.
OneMaker ==
  \A q, r \in Edits :
    edits[q] # Void /\ edits[r] # Void /\ edits[q].profile = edits[r].profile
      /\ edits[q].job = "create" => q = r

ShownOf(a) == {p \in ProfileIds : profileRows[p] # Void /\ Owner(p) = a}
Makers(a) == {q \in Edits : edits[q] # Void /\ edits[q].job = "create" /\ Owner(edits[q].profile) = a}

RoomLeft == \A a \in Parents : Cardinality(ShownOf(a)) + Cardinality(Makers(a)) < MaxProfiles + Cardinality(Edits)

EditsTyped ==
  /\ profileRows \in [ProfileIds -> Row \cup {Void}]
  /\ edits \in [Edits -> Edit \cup {Void}]
  /\ made \subseteq ProfileIds /\ profileTokens \subseteq Parents \X ProfileIds
  /\ lastLimit \in [ProfileIds -> Limits]

EditsIInv ==
  EditsTyped /\ NotMade /\ (\A q \in Edits : Held(q)) /\ OneMaker /\ RatingIsKept /\ RoomLeft

\* The row has the PIN it was made with, and the limits of the last call.
ParentalIInv ==
  settings # Void =>
    /\ settings \in [pin : Pins \cup {NoPin}, limits : Restrictions \cup {NoLimits}]
    /\ settings.pin = firstPin /\ settings.limits = lastCall

\* The two counts are of finite sets.
LEMMA Counts ==
  ASSUME NEW a
  PROVE  /\ IsFiniteSet(ShownOf(a)) /\ Cardinality(ShownOf(a)) \in Nat
         /\ IsFiniteSet(Makers(a)) /\ Cardinality(Makers(a)) \in Nat
         /\ Cardinality(Makers(a)) <= Cardinality(Edits) /\ Cardinality(Edits) \in Nat
<1>1. IsFiniteSet(ProfileIds) /\ IsFiniteSet(Edits) /\ ShownOf(a) \in SUBSET ProfileIds
      /\ Makers(a) \in SUBSET Edits
  BY ProfilesAssumption DEF ShownOf, Makers
<1>2. IsFiniteSet(ShownOf(a)) /\ IsFiniteSet(Makers(a)) /\ Cardinality(Makers(a)) <= Cardinality(Edits)
  BY <1>1, FS_Subset
<1> QED BY <1>1, <1>2, FS_CardinalityType

\* There are no profiles and no settings at the start.
LEMMA ProfilesStart == ProfilesInit => EditsIInv /\ ParentalIInv
<1> SUFFICES ASSUME ProfilesInit PROVE EditsIInv /\ ParentalIInv
  OBVIOUS
<1>1. EditsTyped /\ NotMade /\ (\A q \in Edits : Held(q)) /\ OneMaker /\ RatingIsKept /\ ParentalIInv
  BY ProfilesAssumption
     DEF ProfilesInit, EditsTyped, NotMade, Held, OneMaker, RatingIsKept, ParentalIInv
<1>2. ASSUME NEW a \in Parents
      PROVE  Cardinality(ShownOf(a)) + Cardinality(Makers(a)) < MaxProfiles + Cardinality(Edits)
  <2>1. ShownOf(a) = {} /\ Makers(a) = {}
    BY DEF ProfilesInit, ShownOf, Makers
  <2>2. Cardinality(ShownOf(a)) = 0 /\ Cardinality(Makers(a)) = 0
    BY <2>1, FS_EmptySet
  <2> QED BY <2>2, Counts, ProfilesAssumption
<1> QED BY <1>1, <1>2 DEF EditsIInv, RoomLeft

\* A window that lets an hour in has it between its ends.
LEMMA WindowHolds ==
  ASSUME NEW l \in Restrictions \cup {NoLimits}, NEW h \in Hours, InWindow(l, h),
         l.from # Void, l.to # Void
  PROVE  h \in (IF l.from < l.to THEN l.from..l.to ELSE {x \in Hours : x >= l.from \/ x <= l.to})
<1>1. l.from \in Nat /\ l.to \in Nat /\ h \in Nat
  <2>1. CASE l = NoLimits
    BY <2>1, LimitsAssumption
  <2>2. CASE l \in Restrictions
    BY <2>2, LimitsAssumption
  <2> QED BY <2>1, <2>2
<1> QED BY <1>1 DEF InWindow

\* The settings' invariant gives what is promised of the pin and of the limits.
LEMMA ParentalGives == ParentalIInv => PinStays /\ LimitsHold
<1> SUFFICES ASSUME ParentalIInv, settings # Void
             PROVE  PinStays /\ LimitsHold
  BY DEF PinStays, LimitsHold
<1>1. /\ settings.pin \in Pins \cup {NoPin} /\ settings.limits \in Restrictions \cup {NoLimits}
      /\ settings.pin = firstPin /\ settings.limits = lastCall
  BY DEF ParentalIInv
<1>2. PinStays
  <2>1. \A pin \in Pins : VerifyPIN(pin) <=> pin = firstPin
    BY <1>1, ProfilesAssumption DEF VerifyPIN
  <2>2. ASSUME lastCall = NoLimits, NEW c \in Contents, NEW h \in Hours
        PROVE  IsAllowed(c, h)
    <3>1. settings.limits = [age |-> 0, rating |-> 0, unrated |-> FALSE, from |-> Void, to |-> Void]
      BY <1>1, <2>2, LimitsAssumption
    <3> QED BY <3>1 DEF IsAllowed, InWindow, Exceeds
  <2> QED BY <1>1, <2>1, <2>2 DEF PinStays
<1>3. ASSUME NEW c \in Contents, NEW h \in Hours, IsAllowed(c, h)
      PROVE  LET l == lastCall IN
             /\ (l.from # Void /\ l.to # Void) =>
                  h \in (IF l.from < l.to THEN l.from..l.to ELSE {x \in Hours : x >= l.from \/ x <= l.to})
             /\ (l.age > 0 => c.age <= l.age)
             /\ (l.rating > 0 => c.rating <= l.rating)
             /\ (l.unrated => ~c.unrated)
             /\ CanAccessContent(l, c)
  <2>0. PICK l : l = lastCall
    OBVIOUS
  <2>1. /\ l.age \in Nat /\ c.age \in Nat /\ l.rating \in Nat /\ c.rating \in Nat
        /\ l = settings.limits /\ l \in Restrictions \cup {NoLimits}
    <3>1. l = settings.limits /\ l \in Restrictions \cup {NoLimits}
      BY <1>1, <2>0
    <3>2. c.age \in Nat /\ c.rating \in Nat
      BY LimitsAssumption
    <3>3. CASE l = NoLimits
      BY <3>1, <3>2, <3>3, LimitsAssumption
    <3>4. CASE l \in Restrictions
      BY <3>1, <3>2, <3>4, LimitsAssumption
    <3> QED BY <3>1, <3>3, <3>4
  <2>2. /\ InWindow(l, h) /\ ~(c.age > 0 /\ l.age > 0 /\ c.age > l.age)
        /\ ~(c.unrated /\ l.unrated) /\ ~Exceeds(c.rating, l.rating)
    BY <1>3, <2>1 DEF IsAllowed
  <2>3. /\ (l.age > 0 => c.age <= l.age) /\ CanAccessContent(l, c)
        /\ (l.rating > 0 => c.rating <= l.rating)
    BY <2>1, <2>2 DEF CanAccessContent, Exceeds
  <2>4. l.from # Void /\ l.to # Void =>
          h \in (IF l.from < l.to THEN l.from..l.to ELSE {x \in Hours : x >= l.from \/ x <= l.to})
    BY <2>1, <2>2, WindowHolds
  <2> QED BY <2>0, <2>2, <2>3, <2>4
<1> QED BY <1>2, <1>3 DEF LimitsHold

\* The invariants of edits and settings together give the property.
LEMMA EditsGive == EditsIInv /\ ParentalIInv => ProfilesInv
<1> SUFFICES ASSUME EditsIInv, ParentalIInv PROVE ProfilesInv
  OBVIOUS
<1>1. ProfilesTypeOK
  BY DEF EditsIInv, EditsTyped, ParentalIInv, ProfilesTypeOK, Row, Edit
<1>2. ASSUME NEW a \in Parents PROVE CountProfiles(a) < MaxProfiles + Cardinality(Edits)
  <2>1. CountProfiles(a) = Cardinality(ShownOf(a))
    BY DEF CountProfiles, ShownOf
  <2> QED BY <2>1, Counts, ProfilesAssumption DEF EditsIInv, RoomLeft
<1> QED BY <1>1, <1>2, ParentalGives DEF EditsIInv, ProfilesInv, ProfilesAreCounted

\* A row made by SetPIN or UpdateRestrictions has the PIN and the limits of the call, and one
\* that was there keeps its PIN.
LEMMA ParentalKeeps == ParentalIInv /\ ParentalNext => ParentalIInv'
<1> SUFFICES ASSUME ParentalIInv, ParentalNext PROVE ParentalIInv'
  OBVIOUS
<1>1. ASSUME NEW pin \in Pins \cup {NoPin}, NEW limits \in Restrictions \cup {NoLimits}, Upserts(pin, limits)
      PROVE  ParentalIInv'
  BY <1>1 DEF Upserts, ParentalIInv
<1>2. CASE DeleteParentalSettings
  BY <1>2 DEF DeleteParentalSettings, ParentalIInv
<1> QED BY <1>1, <1>2 DEF ParentalNext, SetPIN, UpdateRestrictions

-----------------------------------------------------------------------------
\* No profile more, and none counted for.
LEMMA RoomKeeps ==
  ASSUME EditsIInv,
         \A a \in Parents : ShownOf(a)' \subseteq ShownOf(a) /\ Makers(a)' \subseteq Makers(a)
  PROVE  RoomLeft'
<1> SUFFICES ASSUME NEW a \in Parents
             PROVE  Cardinality(ShownOf(a)') + Cardinality(Makers(a)') < MaxProfiles + Cardinality(Edits)
  BY DEF RoomLeft
<1>1. ShownOf(a)' \in SUBSET ShownOf(a) /\ Makers(a)' \in SUBSET Makers(a)
  OBVIOUS
<1>2. /\ IsFiniteSet(ShownOf(a)') /\ Cardinality(ShownOf(a)') <= Cardinality(ShownOf(a))
      /\ IsFiniteSet(Makers(a)') /\ Cardinality(Makers(a)') <= Cardinality(Makers(a))
  BY <1>1, Counts, FS_Subset
<1>3. Cardinality(ShownOf(a)') \in Nat /\ Cardinality(Makers(a)') \in Nat
  BY <1>2, FS_CardinalityType
<1> QED BY <1>2, <1>3, Counts, ProfilesAssumption DEF EditsIInv, RoomLeft

\* A request that begins with a row it may hold.
LEMMA EditStartsKeeps ==
  ASSUME EditsIInv, NEW q \in Edits, NEW p \in ProfileIds, NEW row \in Row,
         NEW job \in {"update", "preferences", "switch"}, p \in made,
         job # "update" /\ p \notin undone => row.limit = lastLimit[p],
         EditStarts(q, job, p, row), UNCHANGED <<profileRows, made, lastLimit, undone, profileTokens>>
  PROVE  EditsIInv'
<1> DEFINE e == [job |-> job, profile |-> p, row |-> row, stale |-> FALSE]
<1>1. edits' = [edits EXCEPT ![q] = e] /\ edits[q] = Void /\ edits \in [Edits -> Edit \cup {Void}]
  BY DEF EditStarts, EditsIInv, EditsTyped
<1>2. e \in Edit /\ e.job = job /\ e.profile = p /\ e.row = row /\ e.stale = FALSE
  BY DEF Edit
<1> HIDE DEF e
<1>3. edits' \in [Edits -> Edit \cup {Void}] /\ edits'[q] = e /\ \A r \in Edits \ {q} : edits'[r] = edits[r]
  BY <1>1, <1>2
<1>4. \A r \in Edits : Held(r)'
  BY <1>2, <1>3 DEF EditsIInv, Held
<1>5. OneMaker'
  <2> SUFFICES ASSUME NEW r \in Edits, NEW s \in Edits, edits'[r] # Void, edits'[s] # Void,
                      edits'[r].profile = edits'[s].profile, edits'[r].job = "create"
               PROVE  r = s
    BY DEF OneMaker
  <2>1. r # q /\ edits'[r] = edits[r]
    BY <1>2, <1>3
  <2>2. edits[r].profile \notin made
    BY <2>1 DEF EditsIInv, Held
  <2>3. s # q
    BY <1>2, <1>3, <2>1, <2>2
  <2> QED BY <1>3, <2>1, <2>3 DEF EditsIInv, OneMaker
<1>6. \A a : ShownOf(a)' = ShownOf(a) /\ Makers(a)' \subseteq Makers(a)
  BY <1>2, <1>3 DEF ShownOf, Makers
<1>7. RoomLeft'
  BY <1>6, RoomKeeps
<1> QED BY <1>3, <1>4, <1>5, <1>7 DEF EditsIInv, EditsTyped, NotMade, RatingIsKept

\* There is room when it counts: the profile that may be made is counted for.
LEMMA CreateCountsKeeps ==
  ASSUME EditsIInv, NEW q \in Edits, NEW p \in ProfileIds, CreateCounts(q, p)
  PROVE  EditsIInv'
<1> DEFINE row == [limit |-> 0, pref |-> CHOOSE v \in Preferences : TRUE]
           e == [job |-> "create", profile |-> p, row |-> row, stale |-> FALSE]
<1>1. /\ edits' = [edits EXCEPT ![q] = e] /\ edits[q] = Void /\ edits \in [Edits -> Edit \cup {Void}]
      /\ p \notin made /\ CountProfiles(Owner(p)) < MaxProfiles
      /\ \A r \in Edits : edits[r] # Void => edits[r].profile # p
      /\ UNCHANGED <<profileRows, made, lastLimit, undone, profileTokens>>
  BY DEF CreateCounts, EditStarts, EditsIInv, EditsTyped
<1>2. row \in Row /\ row.limit = 0
  BY ProfilesAssumption DEF Row
<1>3. e \in Edit /\ e.job = "create" /\ e.profile = p /\ e.row = row
  BY <1>2 DEF Edit
<1> HIDE DEF row, e
<1>4. edits' \in [Edits -> Edit \cup {Void}] /\ edits'[q] = e /\ \A r \in Edits \ {q} : edits'[r] = edits[r]
  BY <1>1, <1>3
<1>5. \A r \in Edits : Held(r)'
  BY <1>1, <1>2, <1>3, <1>4 DEF EditsIInv, Held
<1>6. OneMaker'
  BY <1>1, <1>3, <1>4 DEF EditsIInv, OneMaker
<1>7. ASSUME NEW a \in Parents
      PROVE  Cardinality(ShownOf(a)') + Cardinality(Makers(a)') < MaxProfiles + Cardinality(Edits)
  <2>1. ShownOf(a)' = ShownOf(a)
    BY <1>1 DEF ShownOf
  <2>2. CASE a = Owner(p)
    <3>1. CountProfiles(a) = Cardinality(ShownOf(a))
      BY DEF CountProfiles, ShownOf
    <3>2. Makers(a)' \in SUBSET Edits
      BY DEF Makers
    <3>3. IsFiniteSet(Makers(a)') /\ Cardinality(Makers(a)') <= Cardinality(Edits)
      BY <3>2, FS_Subset, ProfilesAssumption
    <3>4. Cardinality(Makers(a)') \in Nat
      BY <3>3, FS_CardinalityType
    <3> QED BY <1>1, <2>1, <2>2, <3>1, <3>3, <3>4, Counts, ProfilesAssumption
  <2>3. CASE a # Owner(p)
    <3>1. Makers(a)' = Makers(a)
      BY <1>1, <1>3, <1>4, <2>3 DEF Makers
    <3> QED BY <2>1, <3>1 DEF EditsIInv, RoomLeft
  <2> QED BY <2>2, <2>3
<1> QED BY <1>1, <1>4, <1>5, <1>6, <1>7 DEF EditsIInv, EditsTyped, NotMade, RatingIsKept, RoomLeft

\* The profile takes the place it was counted for.
LEMMA CreateInsertsKeeps ==
  ASSUME EditsIInv, NEW q \in Edits, CreateInserts(q)
  PROVE  EditsIInv'
<1> DEFINE p == edits[q].profile
<1>1. /\ edits[q] # Void /\ edits[q].job = "create" /\ edits[q] \in Edit
      /\ profileRows' = [profileRows EXCEPT ![p] = edits[q].row]
      /\ made' = made \cup {p} /\ edits' = [edits EXCEPT ![q] = Void]
      /\ UNCHANGED <<lastLimit, undone, profileTokens>>
  BY DEF CreateInserts, EditsIInv, EditsTyped
<1>2. /\ p \in ProfileIds /\ p \notin made /\ edits[q].row \in Row /\ edits[q].row.limit = 0
      /\ lastLimit[p] = 0 /\ p \notin undone /\ profileRows[p] = Void
  BY <1>1 DEF EditsIInv, Held, Edit, NotMade
<1>3. /\ edits' \in [Edits -> Edit \cup {Void}] /\ edits'[q] = Void
      /\ \A r \in Edits \ {q} : edits'[r] = edits[r]
      /\ profileRows' \in [ProfileIds -> Row \cup {Void}] /\ profileRows'[p] = edits[q].row
      /\ \A x \in ProfileIds \ {p} : profileRows'[x] = profileRows[x]
  BY <1>1, <1>2 DEF EditsIInv, EditsTyped
<1> HIDE DEF p
<1>4. ASSUME NEW r \in Edits PROVE Held(r)'
  <2>1. CASE r = q
    BY <1>3, <2>1 DEF Held
  <2>2. CASE r # q
    <3>1. edits'[r] = edits[r] /\ Held(r)
      BY <1>3, <2>2 DEF EditsIInv
    <3>2. edits[r] # Void => edits[r].profile # p
      BY <1>1, <2>2 DEF EditsIInv, OneMaker, p
    <3> QED BY <1>1, <3>1, <3>2 DEF Held
  <2> QED BY <2>1, <2>2
<1>5. OneMaker'
  BY <1>3 DEF EditsIInv, OneMaker
<1>6. NotMade' /\ RatingIsKept'
  BY <1>1, <1>2, <1>3 DEF EditsIInv, NotMade, RatingIsKept
<1>7. ASSUME NEW a \in Parents
      PROVE  Cardinality(ShownOf(a)') + Cardinality(Makers(a)') < MaxProfiles + Cardinality(Edits)
  <2>1. CASE a = Owner(p)
    <3>1. ShownOf(a)' \subseteq ShownOf(a) \cup {p}
      BY <1>3 DEF ShownOf
    <3>2. q \in Makers(a) /\ Makers(a)' \subseteq Makers(a) \ {q}
      BY <1>1, <1>3, <2>1 DEF Makers, p
    <3>3. /\ IsFiniteSet(ShownOf(a) \cup {p}) /\ Cardinality(ShownOf(a) \cup {p}) <= Cardinality(ShownOf(a)) + 1
          /\ IsFiniteSet(Makers(a) \ {q}) /\ Cardinality(Makers(a) \ {q}) = Cardinality(Makers(a)) - 1
      <4>1. IsFiniteSet(ShownOf(a)) /\ Cardinality(ShownOf(a)) \in Nat /\ IsFiniteSet(Makers(a))
        BY Counts
      <4>2. /\ IsFiniteSet(ShownOf(a) \cup {p})
            /\ Cardinality(ShownOf(a) \cup {p}) =
                 IF p \in ShownOf(a) THEN Cardinality(ShownOf(a)) ELSE Cardinality(ShownOf(a)) + 1
        BY <4>1, FS_AddElement
      <4>3. /\ IsFiniteSet(Makers(a) \ {q})
            /\ Cardinality(Makers(a) \ {q}) =
                 IF q \in Makers(a) THEN Cardinality(Makers(a)) - 1 ELSE Cardinality(Makers(a))
        BY <4>1, FS_RemoveElement
      <4> QED BY <3>2, <4>1, <4>2, <4>3
    <3>4. /\ IsFiniteSet(ShownOf(a)') /\ Cardinality(ShownOf(a)') <= Cardinality(ShownOf(a) \cup {p})
          /\ IsFiniteSet(Makers(a)') /\ Cardinality(Makers(a)') <= Cardinality(Makers(a) \ {q})
      BY <3>1, <3>2, <3>3, FS_Subset
    <3>5. /\ Cardinality(ShownOf(a)') \in Nat /\ Cardinality(Makers(a)') \in Nat
          /\ Cardinality(ShownOf(a) \cup {p}) \in Nat
      BY <3>3, <3>4, FS_CardinalityType
    <3> QED BY <3>3, <3>4, <3>5, Counts, ProfilesAssumption DEF EditsIInv, RoomLeft
  <2>2. CASE a # Owner(p)
    <3>1. ShownOf(a)' = ShownOf(a) /\ Makers(a)' = Makers(a)
      BY <1>1, <1>2, <1>3, <2>2 DEF ShownOf, Makers, p
    <3> QED BY <3>1 DEF EditsIInv, RoomLeft
  <2> QED BY <2>1, <2>2
<1> QED BY <1>1, <1>2, <1>3, <1>4, <1>5, <1>6, <1>7 DEF EditsIInv, EditsTyped, RoomLeft

\* A row is written: what others hold of the profile is stale.
LEMMA WriteProfileKeeps ==
  ASSUME EditsIInv, NEW q \in Edits, WriteProfile(q)
  PROVE  EditsIInv'
<1> DEFINE e == edits[q]
           Marked(r) == [edits[r] EXCEPT !.stale = TRUE]
<1>1. /\ e # Void /\ e.job # "create" /\ e \in Edit
      /\ profileRows' = IF profileRows[e.profile] = Void THEN profileRows
                        ELSE [profileRows EXCEPT ![e.profile] = e.row]
      /\ lastLimit' = IF e.job = "update" THEN [lastLimit EXCEPT ![e.profile] = e.row.limit] ELSE lastLimit
      /\ undone' = CASE e.job = "update" -> undone \ {e.profile}
                     [] e.stale -> undone \cup {e.profile}
                     [] OTHER -> undone
      /\ profileTokens' = IF e.job = "switch" THEN profileTokens \cup {<<Owner(e.profile), e.profile>>}
                          ELSE profileTokens
      /\ edits' = [r \in Edits |->
           IF r = q THEN Void
           ELSE IF edits[r] # Void /\ edits[r].profile = e.profile THEN Marked(r)
           ELSE edits[r]]
      /\ made' = made
  BY DEF WriteProfile, EditsIInv, EditsTyped
<1>2. /\ e.profile \in ProfileIds /\ e.row \in Row /\ e.row.limit \in Limits /\ e.profile \in made
      /\ EditsTyped /\ NotMade /\ OneMaker /\ RatingIsKept
  BY <1>1 DEF EditsIInv, Held, Edit, Row
<1>3. ASSUME NEW r \in Edits, edits[r] # Void
      PROVE  /\ edits[r] \in Edit /\ Marked(r) \in Edit /\ Marked(r).stale = TRUE
             /\ Marked(r).job = edits[r].job /\ Marked(r).profile = edits[r].profile
             /\ Marked(r).row = edits[r].row
  BY <1>2, <1>3 DEF EditsTyped, Edit
<1> DEFINE p == e.profile
<1>4. ASSUME NEW r \in Edits, edits'[r] # Void
      PROVE  /\ r # q /\ edits[r] # Void /\ edits'[r].job = edits[r].job
             /\ edits'[r].profile = edits[r].profile /\ edits'[r].row = edits[r].row
             /\ edits[r].profile = p => edits'[r].stale = TRUE
             /\ edits[r].profile # p => edits'[r] = edits[r]
  <2>1. r # q
    BY <1>1, <1>4
  <2>2. CASE edits[r] # Void /\ edits[r].profile = p
    BY <1>1, <1>3, <2>1, <2>2
  <2>3. CASE ~(edits[r] # Void /\ edits[r].profile = p)
    BY <1>1, <1>4, <2>1, <2>3
  <2> QED BY <2>1, <2>2, <2>3
<1>5. edits' \in [Edits -> Edit \cup {Void}]
  BY <1>1, <1>2, <1>3 DEF EditsTyped
<1>6. /\ profileRows' \in [ProfileIds -> Row \cup {Void}] /\ lastLimit' \in [ProfileIds -> Limits]
      /\ profileTokens' \subseteq Parents \X ProfileIds
  BY <1>1, <1>2, ProfilesAssumption DEF EditsTyped
<1>15. ASSUME NEW x \in ProfileIds, x # p
      PROVE  profileRows'[x] = profileRows[x] /\ lastLimit'[x] = lastLimit[x] /\ (x \in undone' <=> x \in undone)
  <2>1. profileRows'[x] = profileRows[x] /\ lastLimit'[x] = lastLimit[x]
    BY <1>1, <1>2, <1>15 DEF EditsTyped
  <2>2. x \in undone' <=> x \in undone
    BY <1>1, <1>15
  <2> QED BY <2>1, <2>2
<1>7. /\ profileRows[p] = Void => profileRows'[p] = Void
      /\ profileRows[p] # Void => profileRows'[p] = e.row
      /\ e.job = "update" => lastLimit'[p] = e.row.limit
      /\ e.job # "update" => lastLimit'[p] = lastLimit[p]
  BY <1>1, <1>2 DEF EditsTyped
<1>8. e.job # "update" => /\ p \in undone => p \in undone'
                          /\ e.stale => p \in undone'
  BY <1>1
<1>14. made' = made /\ p \in made
  BY <1>1, <1>2
<1> HIDE DEF e, Marked, p
<1>9. NotMade'
  BY <1>14, <1>2, <1>15, <1>7 DEF NotMade, p
<1>10. ASSUME NEW r \in Edits PROVE Held(r)'
  <2>1. CASE edits'[r] # Void /\ edits[r].profile = p
    <3>1. /\ edits[r] # Void /\ Held(r) /\ edits'[r].job = edits[r].job /\ edits'[r].stale = TRUE
          /\ edits'[r].profile = p /\ edits'[r].row = edits[r].row
      BY <1>4, <2>1 DEF EditsIInv
    <3>2. edits[r].job # "create"
      BY <1>14, <2>1, <3>1 DEF Held
    <3> QED BY <1>14, <3>1, <3>2 DEF Held
  <2>2. CASE edits'[r] # Void /\ edits[r].profile # p
    <3>1. edits'[r] = edits[r] /\ edits[r] \in Edit /\ Held(r) /\ edits[r] # Void
      BY <1>3, <1>4, <2>2 DEF EditsIInv
    <3>2. edits[r].profile \in ProfileIds \ {p}
      BY <2>2, <3>1 DEF Edit
    <3>3. /\ lastLimit'[edits[r].profile] = lastLimit[edits[r].profile]
          /\ edits[r].profile \in undone' <=> edits[r].profile \in undone
      BY <1>15, <3>2
    <3> QED BY <1>14, <3>1, <3>3 DEF Held
  <2>3. CASE edits'[r] = Void
    BY <2>3 DEF Held
  <2> QED BY <2>1, <2>2, <2>3
<1>11. OneMaker'
  <2> SUFFICES ASSUME NEW r \in Edits, NEW o \in Edits, edits'[r] # Void, edits'[o] # Void,
                      edits'[r].profile = edits'[o].profile, edits'[r].job = "create"
               PROVE  r = o
    BY DEF OneMaker
  <2>1. edits[r] # Void /\ edits'[r].job = edits[r].job /\ edits'[r].profile = edits[r].profile
    BY <1>4
  <2>2. edits[o] # Void /\ edits'[o].profile = edits[o].profile
    BY <1>4
  <2> QED BY <1>2, <2>1, <2>2 DEF OneMaker
<1>12. RatingIsKept'
  <2> SUFFICES ASSUME NEW x \in ProfileIds, profileRows'[x] # Void, x \notin undone'
               PROVE  profileRows'[x].limit = lastLimit'[x]
    BY DEF RatingIsKept
  <2>1. CASE x # p
    BY <1>2, <1>15, <2>1 DEF RatingIsKept
  <2>2. CASE x = p /\ e.job = "update"
    BY <1>7, <2>2
  <2>3. CASE x = p /\ e.job # "update"
    <3>1. ~e.stale /\ p \notin undone /\ profileRows'[p] = e.row
      BY <1>7, <1>8, <2>3
    <3>2. Held(q)
      BY DEF EditsIInv
    <3>3. e.row.limit = lastLimit[p]
      BY <1>1, <2>3, <3>1, <3>2 DEF Held, e, p
    <3> QED BY <1>7, <2>3, <3>1, <3>3
  <2> QED BY <2>1, <2>2, <2>3
<1>13. RoomLeft'
  <2>1. ASSUME NEW a \in Parents PROVE ShownOf(a)' \subseteq ShownOf(a) /\ Makers(a)' \subseteq Makers(a)
    <3>1. \A x \in ProfileIds : profileRows'[x] # Void => profileRows[x] # Void
      BY <1>15, <1>7
    <3>2. ShownOf(a)' \subseteq ShownOf(a)
      BY <3>1 DEF ShownOf
    <3>3. Makers(a)' \subseteq Makers(a)
      BY <1>4 DEF Makers
    <3> QED BY <3>2, <3>3
  <2> QED BY <2>1, RoomKeeps
<1> QED BY <1>1, <1>2, <1>5, <1>6, <1>9, <1>10, <1>11, <1>12, <1>13 DEF EditsIInv, EditsTyped

\* Every step of a request to the handlers of profiles keeps the invariant.
LEMMA EditsStep == EditsIInv /\ ProfileNext => EditsIInv'
<1> SUFFICES ASSUME EditsIInv, ProfileNext PROVE EditsIInv'
  OBVIOUS
<1>1. ASSUME NEW q \in Edits, NEW p \in ProfileIds, NEW limit \in Limits, NEW pref \in Preferences,
             UpdateReads(q, p, limit, pref)
      PROVE  EditsIInv'
  <2>1. /\ profileRows[p] # Void /\ EditStarts(q, "update", p, [limit |-> limit, pref |-> pref])
        /\ UNCHANGED <<profileRows, made, lastLimit, undone, profileTokens>>
    BY <1>1 DEF UpdateReads
  <2>2. p \in made /\ [limit |-> limit, pref |-> pref] \in Row
    BY <2>1 DEF EditsIInv, NotMade, Row
  <2> QED BY <2>1, <2>2, EditStartsKeeps
<1>2. ASSUME NEW q \in Edits, NEW p \in ProfileIds, NEW pref \in Preferences, PreferencesRead(q, p, pref)
      PROVE  EditsIInv'
  <2> DEFINE row == [profileRows[p] EXCEPT !.pref = pref]
  <2>1. /\ profileRows[p] # Void /\ EditStarts(q, "preferences", p, row)
        /\ UNCHANGED <<profileRows, made, lastLimit, undone, profileTokens>>
    BY <1>2 DEF PreferencesRead
  <2>2. p \in made /\ profileRows[p] \in Row /\ (p \notin undone => profileRows[p].limit = lastLimit[p])
    BY <2>1 DEF EditsIInv, NotMade, EditsTyped, RatingIsKept
  <2>3. row \in Row /\ row.limit = profileRows[p].limit
    BY <2>2 DEF Row
  <2> QED BY <2>1, <2>2, <2>3, EditStartsKeeps
<1>3. ASSUME NEW q \in Edits, NEW p \in ProfileIds, NEW a \in Parents, SwitchReads(q, a, p)
      PROVE  EditsIInv'
  <2>1. /\ profileRows[p] # Void /\ EditStarts(q, "switch", p, profileRows[p])
        /\ UNCHANGED <<profileRows, made, lastLimit, undone, profileTokens>>
    BY <1>3 DEF SwitchReads
  <2>2. p \in made /\ profileRows[p] \in Row /\ (p \notin undone => profileRows[p].limit = lastLimit[p])
    BY <2>1 DEF EditsIInv, NotMade, EditsTyped, RatingIsKept
  <2> QED BY <2>1, <2>2, EditStartsKeeps
<1>4. ASSUME NEW p \in ProfileIds, DeleteProfile(p) PROVE EditsIInv'
  <2>1. /\ profileRows' = [profileRows EXCEPT ![p] = Void]
        /\ UNCHANGED <<made, edits, lastLimit, undone, profileTokens>>
    BY <1>4 DEF DeleteProfile
  <2>2. /\ profileRows' \in [ProfileIds -> Row \cup {Void}]
        /\ \A x \in ProfileIds : profileRows'[x] \in {profileRows[x], Void}
    BY <2>1 DEF EditsIInv, EditsTyped
  <2>3. RoomLeft'
    BY <2>1, <2>2, RoomKeeps DEF ShownOf, Makers
  <2>4. NotMade' /\ RatingIsKept'
    BY <2>1, <2>2 DEF EditsIInv, NotMade, RatingIsKept
  <2>5. OneMaker' /\ \A q \in Edits : Held(q)'
    BY <2>1 DEF EditsIInv, OneMaker, Held
  <2> QED BY <2>1, <2>2, <2>3, <2>4, <2>5 DEF EditsIInv, EditsTyped
<1> QED BY <1>1, <1>2, <1>3, <1>4, CreateInsertsKeeps, WriteProfileKeeps, CreateCountsKeeps DEF ProfileNext

\* Profiles and parental controls share no state.
LEMMA ProfilesStep ==
  EditsIInv /\ ParentalIInv /\ [ProfileNext \/ ParentalNext]_<<profileVars, parentalVars>>
    => EditsIInv' /\ ParentalIInv'
<1>1. UNCHANGED parentalVars /\ ParentalIInv => ParentalIInv'
  BY DEF parentalVars, ParentalIInv
<1>2. ProfileNext => UNCHANGED parentalVars
  BY DEF ProfileNext
<1>3. ParentalNext => UNCHANGED profileVars
  BY DEF ParentalNext, SetPIN, UpdateRestrictions, Upserts, DeleteParentalSettings
<1>4. UNCHANGED profileVars /\ EditsIInv => EditsIInv'
  BY DEF profileVars, EditsIInv, EditsTyped, NotMade, Held, OneMaker, RatingIsKept, RoomLeft, ShownOf, Makers
<1> QED BY <1>1, <1>2, <1>3, <1>4, EditsStep, ParentalKeeps

\* For any number of profiles and of requests at once: a rating is kept unless a request wrote
\* back a row that was not the latest, an account has at most as many profiles too many as
\* requests were making some, and parental control is as strict as its settings.
THEOREM ProfilesCorrect == ProfilesSpec => []ProfilesInv
BY ProfilesStart, ProfilesStep, EditsGive, PTL DEF ProfilesSpec

-----------------------------------------------------------------------------
(* Functions defined by recursion up to a number.                          *)

\* What holds at 0, and at a number when it does at the one before, holds up to N.
LEMMA UpTo ==
  ASSUME NEW N \in Nat, NEW S, 0 \in S, \A n \in 1..N : n - 1 \in S => n \in S
  PROVE  0..N \subseteq S
<1> DEFINE R == OpToRel(<, Nat)
           T == (0..N) \ S
<1> SUFFICES ASSUME T # {} PROVE FALSE
  OBVIOUS
<1>1. IsWellFoundedOn(R, Nat)
  BY NatLessThanWellFounded
<1>2. \A x, y \in Nat : y < x => <<y, x>> \in R
  BY DEF OpToRel
<1> HIDE DEF R
<1>6. T \in SUBSET Nat
  OBVIOUS
<1>3. PICK n \in T : \A m \in T : <<m, n>> \notin R
  BY <1>1, <1>6, WFMin
<1>4. n \in 1..N /\ n - 1 \in 0..N /\ n \in Nat /\ n - 1 \in Nat /\ n - 1 < n
  <2>1. n \in 0..N /\ n # 0
    OBVIOUS
  <2> QED BY <2>1
<1>5. n - 1 \notin T
  BY <1>2, <1>3, <1>4
<1> QED BY <1>4, <1>5

\* The function f has a value at 0 and follows a step from there up to N.
Follows(f, N, V, base, step) ==
  f \in [0..N -> V] /\ f[0] = base /\ \A n \in 1..N : f[n] = step[n][f[n - 1]]

\* There is a function for every value and step.
LEMMA Recursion ==
  ASSUME NEW N \in Nat, NEW V, NEW base \in V, NEW step \in [0..N -> [V -> V]]
  PROVE  \E f : Follows(f, N, V, base, step)
<1> DEFINE Good(n, f) == f \in [0..n -> V] /\ f[0] = base /\ \A m \in 1..n : f[m] = step[m][f[m - 1]]
           S == {n \in 0..N : \E f : Good(n, f)}
<1>1. Good(0, [m \in 0..0 |-> base])
  OBVIOUS
<1>2. ASSUME NEW n \in 1..N, NEW f, Good(n - 1, f) PROVE \E g : Good(n, g)
  <2> DEFINE v == step[n][f[n - 1]]
             g == [m \in 0..n |-> IF m = n THEN v ELSE f[m]]
  <2>1. f[n - 1] \in V /\ v \in V
    BY <1>2
  <2> HIDE DEF v
  <2>2. g \in [0..n -> V] /\ g[n] = v /\ \A m \in 0..(n - 1) : g[m] = f[m]
    BY <1>2, <2>1
  <2> HIDE DEF g
  <2>3. g[0] = base
    BY <1>2, <2>2
  <2>4. ASSUME NEW m \in 1..n PROVE g[m] = step[m][g[m - 1]]
    <3>1. m - 1 \in 0..(n - 1)
      OBVIOUS
    <3>2. CASE m = n
      BY <2>2, <3>1, <3>2 DEF v
    <3>3. CASE m # n
      <4>1. m \in 1..(n - 1) /\ m \in 0..(n - 1)
        BY <3>3
      <4> QED BY <1>2, <2>2, <3>1, <4>1
    <3> QED BY <3>2, <3>3
  <2> QED BY <2>2, <2>3, <2>4
<1> HIDE DEF Good
<1>3. 0 \in S
  BY <1>1
<1>4. ASSUME NEW n \in 1..N, n - 1 \in S PROVE n \in S
  BY <1>2, <1>4
<1> HIDE DEF S
<1>5. 0..N \subseteq S
  BY <1>3, <1>4, UpTo
<1>6. N \in S
  BY <1>5
<1> QED BY <1>6 DEF S, Good, Follows

\* The powers of two.
LEMMA Powers ==
  /\ Doubled \in [0..(Width + MaxFailures) -> Nat] /\ Doubled[0] = 1
  /\ \A n \in 1..(Width + MaxFailures) : Doubled[n] = 2 * Doubled[n - 1]
<1> DEFINE N == Width + MaxFailures
           P(f) == f = [n \in 0..N |-> IF n = 0 THEN 1 ELSE 2 * f[n - 1]]
           step == [n \in 0..N |-> [v \in Nat |-> 2 * v]]
<1>1. N \in Nat
  BY GuardAssumption
<1>2. step \in [0..N -> [Nat -> Nat]] /\ \A n \in 0..N, v \in Nat : step[n][v] = 2 * v
  OBVIOUS
<1>3. Doubled = CHOOSE f : P(f)
  BY DEF Doubled
<1> HIDE DEF N, step
<1>4. PICK f \in [0..N -> Nat] : f[0] = 1 /\ \A n \in 1..N : f[n] = step[n][f[n - 1]]
  <2>1. \E f : Follows(f, N, Nat, 1, step)
    BY <1>1, <1>2, Recursion
  <2> QED BY <2>1 DEF Follows
<1>5. ASSUME NEW n \in 1..N PROVE f[n] = 2 * f[n - 1]
  <2>1. n \in 0..N /\ n - 1 \in 0..N
    BY <1>1
  <2>2. f[n - 1] \in Nat
    BY <1>4, <2>1
  <2> QED BY <1>2, <1>4, <2>1, <2>2
<1>6. P(f)
  <2>1. \A n \in 0..N : f[n] = IF n = 0 THEN 1 ELSE 2 * f[n - 1]
    BY <1>1, <1>4, <1>5
  <2> QED BY <1>4, <2>1
<1> DEFINE d == Doubled
<1>7. d = CHOOSE g : P(g)
  BY <1>3
<1> HIDE DEF P, d
<1>8. P(d)
  BY <1>6, <1>7
<1>9. d[0] = 1 /\ DOMAIN d = 0..N /\ d = [n \in 0..N |-> d[n]] /\ \A n \in 1..N : d[n] = 2 * d[n - 1]
  BY <1>1, <1>8 DEF P
<1> DEFINE S == {n \in 0..N : d[n] \in Nat}
<1>10. 0 \in S
  BY <1>1, <1>9
<1>11. ASSUME NEW n \in 1..N, n - 1 \in S PROVE n \in S
  <2>1. n \in 0..N /\ d[n - 1] \in Nat
    BY <1>1, <1>11
  <2>3. d[n] = 2 * d[n - 1]
    BY <1>9
  <2>2. d[n] \in Nat
    BY <2>1, <2>3
  <2> QED BY <2>1, <2>2
<1> HIDE DEF S
<1>12. 0..N \subseteq S
  BY <1>1, <1>10, <1>11, UpTo
<1>13. d \in [0..N -> Nat]
  BY <1>9, <1>12 DEF S
<1> QED BY <1>9, <1>13 DEF d, N

\* A delay is a number of ticks, and what the comment says it is where the shift fits.
LEMMA Delays ==
  ASSUME NEW n \in 0..MaxFailures
  PROVE  /\ Backoff(n) \in Nat /\ Delay(n) \in Int /\ (Fits(n) => Delay(n) = Backoff(n))
         /\ n > 0 /\ Fits(n) => Fits(n - 1)
<1> DEFINE d == Doubled
           high == d[Width - 1]
           full == d[Width]
<1>1. /\ n \in 0..(Width + MaxFailures) /\ Width \in 1..(Width + MaxFailures)
      /\ Width - 1 \in 0..(Width + MaxFailures) /\ (n > 0 => n \in 1..(Width + MaxFailures))
      /\ n - 1 \in Int /\ (n > 0 => n - 1 \in 0..(Width + MaxFailures)) /\ MaxDelay \in Nat
  BY GuardAssumption
<1>2. /\ d[n] \in Nat /\ high \in Nat /\ full \in Nat /\ full = 2 * high
      /\ n > 0 => d[n - 1] \in Nat /\ d[n] = 2 * d[n - 1]
  BY <1>1, Powers
<1>3. high > 0
  BY <1>1, <1>2, GuardAssumption
<1>4. Fits(n) <=> d[n] < high
  BY DEF Fits
<1>5. n > 0 => (Fits(n - 1) <=> d[n - 1] < high)
  BY DEF Fits
<1>6. Signed(d[n]) = LET m == d[n] % full IN IF m >= high THEN m - full ELSE m
  BY DEF Signed
<1>7. Backoff(n) = IF d[n] < MaxDelay THEN d[n] ELSE MaxDelay
  BY DEF Backoff, Least
<1>8. Delay(n) = IF Signed(d[n]) < MaxDelay THEN Signed(d[n]) ELSE MaxDelay
  BY DEF Delay, Least
<1> HIDE DEF d, high, full
<1>9. Signed(d[n]) \in Int /\ (d[n] < high => Signed(d[n]) = d[n])
  <2>1. d[n] % full \in Nat
    BY <1>2, <1>3
  <2>2. d[n] < high => d[n] % full = d[n]
    BY <1>2, <1>3
  <2> QED BY <1>2, <1>3, <1>6, <2>1, <2>2
<1>10. n > 0 /\ Fits(n) => Fits(n - 1)
  BY <1>2, <1>4, <1>5
<1> QED BY <1>1, <1>2, <1>4, <1>7, <1>8, <1>9, <1>10

\* The sums of the delays.
LEMMA WaitsGrow ==
  /\ Waits \in [0..MaxFailures -> Nat] /\ Waits[0] = 0
  /\ \A n \in 1..MaxFailures : Waits[n - 1] \in Nat /\ Waits[n] = Waits[n - 1] + 1 + Backoff(n)
<1> DEFINE N == MaxFailures
           P(f) == f = [n \in 0..N |-> IF n = 0 THEN 0 ELSE f[n - 1] + 1 + Backoff(n)]
           step == [n \in 0..N |-> [v \in Nat |-> v + 1 + Backoff(n)]]
           w == Waits
<1>1. N \in Nat /\ \A n \in 0..N : Backoff(n) \in Nat
  BY Delays, GuardAssumption
<1>2. w = CHOOSE f : P(f)
  BY DEF Waits
<1> HIDE DEF N
<1>3. \A n \in 0..N, v \in Nat : v + 1 + Backoff(n) \in Nat
  BY <1>1
<1>4. step \in [0..N -> [Nat -> Nat]] /\ \A n \in 0..N, v \in Nat : step[n][v] = v + 1 + Backoff(n)
  BY <1>3
<1> HIDE DEF step
<1>5. PICK f \in [0..N -> Nat] : f[0] = 0 /\ \A n \in 1..N : f[n] = step[n][f[n - 1]]
  <2>1. \E f : Follows(f, N, Nat, 0, step)
    BY <1>1, <1>4, Recursion
  <2> QED BY <2>1 DEF Follows
<1>6. ASSUME NEW n \in 1..N PROVE f[n] = f[n - 1] + 1 + Backoff(n)
  <2>1. n \in 0..N /\ n - 1 \in 0..N
    BY <1>1
  <2>2. f[n - 1] \in Nat
    BY <1>5, <2>1
  <2> QED BY <1>4, <1>5, <2>1, <2>2
<1>7. P(f)
  <2>1. \A n \in 0..N : f[n] = IF n = 0 THEN 0 ELSE f[n - 1] + 1 + Backoff(n)
    BY <1>1, <1>5, <1>6
  <2> QED BY <1>5, <2>1
<1> HIDE DEF P, w
<1>8. P(w)
  BY <1>2, <1>7
<1>9. /\ w[0] = 0 /\ DOMAIN w = 0..N /\ w = [n \in 0..N |-> w[n]]
      /\ \A n \in 1..N : w[n] = w[n - 1] + 1 + Backoff(n)
  BY <1>1, <1>8 DEF P
<1> DEFINE S == {n \in 0..N : w[n] \in Nat}
<1>10. 0 \in S
  BY <1>1, <1>9
<1>11. ASSUME NEW n \in 1..N, n - 1 \in S PROVE n \in S
  <2>1. n \in 0..N /\ w[n - 1] \in Nat
    BY <1>1, <1>11
  <2>2. w[n] = w[n - 1] + 1 + Backoff(n)
    BY <1>9
  <2>3. w[n] \in Nat
    BY <1>1, <2>1, <2>2
  <2> QED BY <2>1, <2>3
<1> HIDE DEF S
<1>12. 0..N \subseteq S
  BY <1>1, <1>10, <1>11, UpTo
<1>13. w \in [0..N -> Nat]
  BY <1>9, <1>12 DEF S
<1>14. \A n \in 1..N : w[n - 1] \in Nat
  BY <1>1, <1>13
<1> QED BY <1>9, <1>13, <1>14 DEF w, N

-----------------------------------------------------------------------------
(* Failed logins.  A lock is as long as the delay of its count.  Whoever   *)
(* has failed n times with a name, one try after the other and each        *)
(* checked on the name, has waited for every delay but the last; and once  *)
(* another such try is under way, for that one too.                        *)

\* What is remembered of key k.
Counted(k) ==
  attempts[k] # Zero =>
    LET r == attempts[k]
    IN  /\ r.count \in 1..MaxFailures /\ r.last <= clock
        /\ Fits(r.count) => r.until = r.last + Backoff(r.count)

\* What has happened of name n.
NameCounted(n) ==
  attempts[NameKey(n)] # Zero =>
    LET r == attempts[NameKey(n)]
        h == failed[n]
    IN  /\ h # Zero /\ h.count = r.count
        /\ Fits(r.count) /\ h.alone => r.last >= h.since + Waits[r.count - 1]

\* A login that is alone with its name was let through after the name's lock.
AloneWaited(c) ==
  tries[c] # Zero /\ tries[c].alone /\ tries[c].name # Zero =>
    LET k == NameKey(tries[c].name)
    IN  /\ attempts[k] # Zero => clock > attempts[k].until
        /\ \A d \in LoginCalls \ {c} : tries[d] # Zero => tries[d].name # tries[c].name

BackoffTyped ==
  /\ clock \in 0..LastTick
  /\ attempts \in [BackoffKeys -> AttemptRows \cup {Zero}]
  /\ failed \in [LoginNames -> FailedRows \cup {Zero}]
  /\ tries \in [LoginCalls -> LoginTries \cup {Zero}]
  /\ \A c \in LoginCalls : tries[c] # Zero /\ tries[c].phase # "handler" => tries[c].name # Zero

KeysCounted ==
  /\ \A h \in Hosts : attempts[HostKey(h)] = Zero
  /\ \A k \in BackoffKeys : Counted(k)

NamesCounted ==
  \A n \in LoginNames : NameCounted(n) /\ (attempts[NameKey(n)] = Zero => failed[n] = Zero)

BackoffIInv ==
  BackoffTyped /\ KeysCounted /\ NamesCounted /\ \A c \in LoginCalls : AloneWaited(c)

\* No key is of two kinds, and no two names have the same.
LEMMA KeysDiffer ==
  /\ \A h \in Hosts : HostKey(h) \in BackoffKeys
  /\ \A a \in Addresses : AddressKey(a) \in BackoffKeys /\ \A h \in Hosts : AddressKey(a) # HostKey(h)
  /\ \A n \in LoginNames :
       /\ NameKey(n) \in BackoffKeys
       /\ \A h \in Hosts : NameKey(n) # HostKey(h)
       /\ \A a \in Addresses : NameKey(n) # AddressKey(a)
       /\ \A m \in LoginNames : NameKey(n) = NameKey(m) => n = m
<1>1. \A h, x, y : <<"ip", x, y>> # <<"ip", h>>
  <2> TAKE h, x, y
  <2>1. Len(<<"ip", x, y>>) = 3 /\ Len(<<"ip", h>>) = 2
    OBVIOUS
  <2> QED BY <2>1
<1>2. \A n, x, y : <<"user", n>> # <<"ip", x>> /\ <<"user", n>> # <<"ip", x, y>>
  <2> TAKE n, x, y
  <2>1. <<"user", n>>[1] = "user" /\ <<"ip", x>>[1] = "ip" /\ <<"ip", x, y>>[1] = "ip" /\ "user" # "ip"
    OBVIOUS
  <2> QED BY <2>1
<1>3. \A n, m : <<"user", n>> = <<"user", m>> => n = m
  OBVIOUS
<1> QED BY <1>1, <1>2, <1>3 DEF HostKey, AddressKey, NameKey, BackoffKeys

\* One key's row changes.
LEMMA CountedKey ==
  ASSUME BackoffIInv, NEW k \in BackoffKeys, \A h \in Hosts : k # HostKey(h), clock' = clock,
         NEW row \in AttemptRows \cup {Zero}, attempts' = [attempts EXCEPT ![k] = row],
         row # Zero => /\ row.count \in 1..MaxFailures /\ row.last <= clock
                       /\ Fits(row.count) => row.until = row.last + Backoff(row.count)
  PROVE  /\ attempts' \in [BackoffKeys -> AttemptRows \cup {Zero}] /\ KeysCounted'
         /\ attempts'[k] = row /\ \A j \in BackoffKeys \ {k} : attempts'[j] = attempts[j]
<1>1. /\ attempts' \in [BackoffKeys -> AttemptRows \cup {Zero}] /\ attempts'[k] = row
      /\ \A j \in BackoffKeys \ {k} : attempts'[j] = attempts[j]
  BY DEF BackoffIInv, BackoffTyped
<1>2. Counted(k)'
  BY <1>1 DEF Counted
<1>3. \A j \in BackoffKeys \ {k} : Counted(j)'
  BY <1>1 DEF BackoffIInv, KeysCounted, Counted
<1>4. \A h \in Hosts : attempts'[HostKey(h)] = Zero
  BY <1>1, KeysDiffer DEF BackoffIInv, KeysCounted
<1> QED BY <1>1, <1>2, <1>3, <1>4 DEF KeysCounted

\* A failure is recorded: the next delay begins.
LEMMA RecordedRow ==
  ASSUME BackoffIInv, NEW k \in BackoffKeys, MayCount(k), Record(k)
  PROVE  \E row \in AttemptRows :
           /\ attempts' = [attempts EXCEPT ![k] = row] /\ row # Zero /\ row.last = clock
           /\ row.count = IF attempts[k] = Zero THEN 1 ELSE attempts[k].count + 1
           /\ row.count \in 1..MaxFailures
           /\ Fits(row.count) => row.until = row.last + Backoff(row.count)
<1> DEFINE n == IF attempts[k] = Zero THEN 1 ELSE attempts[k].count + 1
           row == [count |-> n, last |-> clock, until |-> clock + Delay(n)]
<1>1. /\ clock \in Nat /\ attempts[k] \in AttemptRows \cup {Zero} /\ Counted(k)
      /\ attempts[k] # Zero => attempts[k].count < MaxFailures
  BY GuardAssumption DEF BackoffIInv, BackoffTyped, KeysCounted, MayCount
<1>2. attempts' = [attempts EXCEPT ![k] = row]
  BY DEF Record
<1>3. n \in 1..MaxFailures
  BY <1>1, GuardAssumption DEF Counted
<1>4. Backoff(n) \in Nat /\ Delay(n) \in Int /\ (Fits(n) => Delay(n) = Backoff(n))
  BY <1>3, Delays
<1> HIDE DEF n
<1>5. row \in AttemptRows /\ row # Zero /\ row.count = n /\ row.last = clock /\ row.until = clock + Delay(n)
  BY <1>1, <1>3, <1>4, ZeroAssumption DEF AttemptRows
<1> HIDE DEF row
<1>6. n = IF attempts[k] = Zero THEN 1 ELSE attempts[k].count + 1
  BY DEF n
<1> QED BY <1>2, <1>3, <1>4, <1>5, <1>6

\* The keys of names and what happened of them stay.
LEMMA NamesStay ==
  ASSUME BackoffIInv, clock' = clock, failed' = failed,
         \A n \in LoginNames : attempts'[NameKey(n)] = attempts[NameKey(n)]
  PROVE  NamesCounted'
BY DEF BackoffIInv, NamesCounted, NameCounted

\* A login is over, or goes on as what it is.
LEMMA TriesStay ==
  ASSUME BackoffIInv, clock' = clock, NEW c \in LoginCalls, NEW t \in LoginTries \cup {Zero},
         tries' = [tries EXCEPT ![c] = t],
         t # Zero => tries[c] # Zero /\ t.name = tries[c].name /\ t.alone = tries[c].alone /\ t.name # Zero,
         \A n \in LoginNames : attempts'[NameKey(n)] = attempts[NameKey(n)] \/ attempts'[NameKey(n)] = Zero
  PROVE  /\ tries' \in [LoginCalls -> LoginTries \cup {Zero}]
         /\ \A d \in LoginCalls : tries'[d] # Zero /\ tries'[d].phase # "handler" => tries'[d].name # Zero
         /\ \A d \in LoginCalls : AloneWaited(d)'
<1>1. /\ tries' \in [LoginCalls -> LoginTries \cup {Zero}] /\ tries'[c] = t
      /\ \A d \in LoginCalls \ {c} : tries'[d] = tries[d]
  BY DEF BackoffIInv, BackoffTyped
<1>2. \A d \in LoginCalls : tries'[d] # Zero => /\ tries[d] # Zero /\ tries'[d].name = tries[d].name
                                                /\ tries'[d].alone = tries[d].alone
  BY <1>1
<1>3. ASSUME NEW d \in LoginCalls, tries'[d] # Zero, tries'[d].alone, tries'[d].name # Zero
      PROVE  /\ attempts'[NameKey(tries'[d].name)] # Zero => clock' > attempts'[NameKey(tries'[d].name)].until
             /\ \A e \in LoginCalls \ {d} : tries'[e] # Zero => tries'[e].name # tries'[d].name
  <2>1. AloneWaited(d) /\ tries[d] # Zero /\ tries[d].alone /\ tries[d].name # Zero
        /\ tries[d].name = tries'[d].name
    BY <1>2, <1>3 DEF BackoffIInv
  <2>2. tries[d].name \in LoginNames
    BY <2>1 DEF BackoffIInv, BackoffTyped, LoginTries
  <2> QED BY <1>2, <2>1, <2>2 DEF AloneWaited
<1>4. \A d \in LoginCalls : AloneWaited(d)'
  BY <1>3 DEF AloneWaited
<1>5. \A d \in LoginCalls : tries'[d] # Zero /\ tries'[d].phase # "handler" => tries'[d].name # Zero
  BY <1>1 DEF BackoffIInv, BackoffTyped
<1> QED BY <1>1, <1>4, <1>5

\* A login is let through.
LEMMA TryLoginKeeps ==
  ASSUME BackoffIInv, NEW c \in LoginCalls, NEW login \in Logins, TryLogin(c, login)
  PROVE  BackoffIInv'
<1> DEFINE others == Others(login.name)
<1> PICK only \in BOOLEAN : only = (login.claims = login.name /\ others = {})
  OBVIOUS
<1> DEFINE new == [address |-> login.address, name |-> login.name, phase |-> "handler", alone |-> only]
<1>1. /\ clock' = clock /\ attempts' = attempts /\ failed' = failed
      /\ login.address \in Addresses /\ login.name \in LoginNames \cup {Zero}
      /\ login.claims # Zero => Allowed(NameKey(login.claims))
      /\ tries' = [d \in LoginCalls |-> IF d = c THEN new
                   ELSE IF d \in others THEN [tries[d] EXCEPT !.alone = FALSE] ELSE tries[d]]
  BY DEF TryLogin, Logins
<1>2. /\ new \in LoginTries /\ new # Zero /\ new.name = login.name /\ new.phase = "handler"
      /\ new.alone => login.claims = login.name /\ others = {}
  <2>1. new \in LoginTries
    BY <1>1 DEF LoginTries
  <2>2. new.name = login.name /\ new.phase = "handler" /\ new.alone = only
    OBVIOUS
  <2> HIDE DEF new, others
  <2> QED BY <2>1, <2>2, ZeroAssumption
<1>3. ASSUME NEW t \in LoginTries
      PROVE  LET u == [t EXCEPT !.alone = FALSE] IN
             /\ u \in LoginTries /\ u # Zero /\ u.name = t.name /\ u.phase = t.phase /\ ~u.alone
  <2>1. [t EXCEPT !.alone = FALSE] \in LoginTries
    BY DEF LoginTries
  <2> QED BY <2>1, ZeroAssumption DEF LoginTries
<1>4. \A d \in LoginCalls : d \in others <=> tries[d] # Zero /\ tries[d].name = login.name
  BY DEF Others
<1> HIDE DEF others, new
<1>5. tries \in [LoginCalls -> LoginTries \cup {Zero}]
  BY DEF BackoffIInv, BackoffTyped
<1>6. ASSUME NEW d \in LoginCalls \ {c}
      PROVE  /\ tries'[d] \in LoginTries \cup {Zero} /\ (tries'[d] = Zero <=> tries[d] = Zero)
             /\ tries[d] # Zero => /\ tries'[d].name = tries[d].name /\ tries'[d].phase = tries[d].phase
                                   /\ tries'[d].alone => tries[d].alone /\ tries[d].name # login.name
  <2>1. CASE d \in others
    <3>1. tries[d] \in LoginTries /\ tries'[d] = [tries[d] EXCEPT !.alone = FALSE]
      BY <1>1, <1>4, <1>5, <2>1
    <3> QED BY <1>3, <3>1, <1>4, <2>1
  <2>2. CASE d \notin others
    BY <1>1, <1>4, <1>5, <2>2
  <2> QED BY <2>1, <2>2
<1>7. tries'[c] = new
  BY <1>1
<1>8. tries' \in [LoginCalls -> LoginTries \cup {Zero}]
  BY <1>1, <1>2, <1>6, <1>7
<1>9. \A d \in LoginCalls : tries'[d] # Zero /\ tries'[d].phase # "handler" => tries'[d].name # Zero
  BY <1>2, <1>6, <1>7 DEF BackoffIInv, BackoffTyped
<1>10. AloneWaited(c)'
  <2> SUFFICES ASSUME new.alone, login.name # Zero
               PROVE  /\ attempts[NameKey(login.name)] # Zero => clock > attempts[NameKey(login.name)].until
                      /\ \A d \in LoginCalls \ {c} : tries'[d] # Zero => tries'[d].name # login.name
    BY <1>1, <1>2, <1>7 DEF AloneWaited
  <2>1. login.claims = login.name /\ others = {}
    BY <1>2
  <2>2. attempts[NameKey(login.name)] # Zero => clock > attempts[NameKey(login.name)].until
    BY <1>1, <2>1 DEF Allowed
  <2>3. \A d \in LoginCalls \ {c} : tries'[d] # Zero => tries'[d].name # login.name
    BY <1>4, <1>6, <2>1
  <2> QED BY <2>2, <2>3
<1>11. ASSUME NEW d \in LoginCalls \ {c} PROVE AloneWaited(d)'
  <2> SUFFICES ASSUME tries'[d] # Zero, tries'[d].alone, tries'[d].name # Zero
               PROVE  /\ attempts[NameKey(tries'[d].name)] # Zero => clock > attempts[NameKey(tries'[d].name)].until
                      /\ \A e \in LoginCalls \ {d} : tries'[e] # Zero => tries'[e].name # tries'[d].name
    BY <1>1 DEF AloneWaited
  <2>1. /\ tries[d] # Zero /\ tries[d].alone /\ tries[d].name = tries'[d].name
        /\ tries[d].name # login.name /\ AloneWaited(d)
    BY <1>6 DEF BackoffIInv
  <2>2. \A e \in LoginCalls \ {d} : tries'[e] # Zero => tries'[e].name # tries[d].name
    BY <1>2, <1>6, <1>7, <2>1 DEF AloneWaited
  <2> QED BY <2>1, <2>2 DEF AloneWaited
<1>12. KeysCounted' /\ NamesCounted'
  BY <1>1, NamesStay DEF BackoffIInv, KeysCounted, Counted
<1>13. BackoffTyped'
  BY <1>1, <1>8, <1>9 DEF BackoffIInv, BackoffTyped
<1> QED BY <1>10, <1>11, <1>12, <1>13 DEF BackoffIInv

\* What a login under way is.
LEMMA TryTyped ==
  ASSUME BackoffIInv, NEW c \in LoginCalls, tries[c] # Zero
  PROVE  /\ tries[c] \in LoginTries /\ tries[c].name \in LoginNames \cup {Zero}
         /\ tries[c].address \in Addresses
         /\ tries[c].phase # "handler" => tries[c].name \in LoginNames
BY DEF BackoffIInv, BackoffTyped, LoginTries

\* It is over or goes on to its name.
LEMMA ThenTheNameGives ==
  ASSUME BackoffIInv, NEW c \in LoginCalls, tries[c] # Zero, NEW p \in {"failed", "done"}, ThenTheName(c, p)
  PROVE  \E t \in LoginTries \cup {Zero} :
           /\ tries' = [tries EXCEPT ![c] = t]
           /\ t # Zero => t.name = tries[c].name /\ t.alone = tries[c].alone /\ t.name # Zero
<1>1. tries[c] \in LoginTries
  BY TryTyped
<1>2. CASE tries[c].name = Zero
  BY <1>2 DEF ThenTheName
<1>3. CASE tries[c].name # Zero
  <2> DEFINE t == [tries[c] EXCEPT !.phase = p]
  <2>1. t \in LoginTries /\ t.name = tries[c].name /\ t.alone = tries[c].alone
    BY <1>1 DEF LoginTries
  <2>2. tries' = [tries EXCEPT ![c] = t]
    BY <1>3 DEF ThenTheName
  <2> HIDE DEF t
  <2> QED BY <1>3, <2>1, <2>2
<1> QED BY <1>2, <1>3

\* A login fails or succeeds: its address's row changes.
LEMMA AddressKeeps ==
  ASSUME BackoffIInv, NEW c \in LoginCalls, LoginFails(c) \/ LoginSucceeds(c)
  PROVE  BackoffIInv'
<1>1. /\ clock' = clock /\ failed' = failed /\ tries[c] # Zero
      /\ ThenTheName(c, "failed") \/ ThenTheName(c, "done")
  BY DEF LoginFails, LoginSucceeds, InHandler
<1> PICK k \in BackoffKeys : k = AddressKey(tries[c].address)
  BY <1>1, TryTyped, KeysDiffer
<1>2. (\A h \in Hosts : k # HostKey(h)) /\ \A n \in LoginNames : NameKey(n) \in BackoffKeys \ {k}
  BY <1>1, TryTyped, KeysDiffer
<1>3. PICK row \in AttemptRows \cup {Zero} :
        /\ attempts' = [attempts EXCEPT ![k] = row]
        /\ row # Zero => /\ row.count \in 1..MaxFailures /\ row.last <= clock
                         /\ Fits(row.count) => row.until = row.last + Backoff(row.count)
  <2>1. CASE LoginFails(c)
    <3>1. MayCount(k) /\ Record(k)
      BY <2>1 DEF LoginFails
    <3>2. PICK row \in AttemptRows :
            /\ attempts' = [attempts EXCEPT ![k] = row] /\ row # Zero /\ row.last = clock
            /\ row.count \in 1..MaxFailures
            /\ Fits(row.count) => row.until = row.last + Backoff(row.count)
      BY <3>1, RecordedRow
    <3>3. row.last <= clock
      BY <3>2, GuardAssumption DEF BackoffIInv, BackoffTyped
    <3> QED BY <3>2, <3>3
  <2>2. CASE LoginSucceeds(c)
    BY <2>2 DEF LoginSucceeds
  <2> QED BY <2>1, <2>2
<1>4. /\ attempts' \in [BackoffKeys -> AttemptRows \cup {Zero}] /\ KeysCounted'
      /\ \A j \in BackoffKeys \ {k} : attempts'[j] = attempts[j]
  BY <1>1, <1>2, <1>3, CountedKey
<1>5. \A n \in LoginNames : attempts'[NameKey(n)] = attempts[NameKey(n)]
  BY <1>2, <1>4
<1>6. NamesCounted'
  BY <1>1, <1>5, NamesStay
<1>7. PICK t \in LoginTries \cup {Zero} :
        /\ tries' = [tries EXCEPT ![c] = t]
        /\ t # Zero => t.name = tries[c].name /\ t.alone = tries[c].alone /\ t.name # Zero
  BY <1>1, ThenTheNameGives
<1>8. /\ tries' \in [LoginCalls -> LoginTries \cup {Zero}]
      /\ \A d \in LoginCalls : tries'[d] # Zero /\ tries'[d].phase # "handler" => tries'[d].name # Zero
      /\ \A d \in LoginCalls : AloneWaited(d)'
  BY <1>1, <1>5, <1>7, TriesStay
<1> QED BY <1>1, <1>4, <1>6, <1>8 DEF BackoffIInv, BackoffTyped

\* The name's failure is recorded.
LEMMA NameFailsKeeps ==
  ASSUME BackoffIInv, NEW c \in LoginCalls, NameFails(c)
  PROVE  BackoffIInv'
<1>1. tries[c] # Zero /\ tries[c].name \in LoginNames /\ tries[c] \in LoginTries
  BY TryTyped DEF NameFails
<1> PICK n \in LoginNames : n = tries[c].name
  BY <1>1
<1> PICK k \in BackoffKeys : k = NameKey(n)
  BY KeysDiffer
<1> PICK only \in BOOLEAN : only = tries[c].alone
  BY <1>1 DEF LoginTries
<1> DEFINE past == IF failed[n] = Zero THEN [since |-> clock, count |-> 1, alone |-> TRUE]
                   ELSE [since |-> failed[n].since, count |-> failed[n].count + 1,
                         alone |-> failed[n].alone /\ only]
<1>2. /\ clock' = clock /\ MayCount(k) /\ Record(k)
      /\ failed' = [failed EXCEPT ![n] = past] /\ tries' = [tries EXCEPT ![c] = Zero]
  BY DEF NameFails
<1>3. PICK row \in AttemptRows :
        /\ attempts' = [attempts EXCEPT ![k] = row] /\ row # Zero /\ row.last = clock
        /\ row.count = IF attempts[k] = Zero THEN 1 ELSE attempts[k].count + 1
        /\ row.count \in 1..MaxFailures
        /\ Fits(row.count) => row.until = row.last + Backoff(row.count)
  BY <1>2, RecordedRow
<1>4. /\ clock \in Nat /\ attempts[k] \in AttemptRows \cup {Zero} /\ failed[n] \in FailedRows \cup {Zero}
      /\ attempts[k] = Zero => failed[n] = Zero
      /\ Counted(k) /\ NameCounted(n) /\ AloneWaited(c)
      /\ failed \in [LoginNames -> FailedRows \cup {Zero}]
  BY <1>1, GuardAssumption DEF BackoffIInv, BackoffTyped, KeysCounted, NamesCounted, LoginTries
<1>5. /\ attempts' \in [BackoffKeys -> AttemptRows \cup {Zero}] /\ KeysCounted' /\ attempts'[k] = row
      /\ \A j \in BackoffKeys \ {k} : attempts'[j] = attempts[j]
  <2>1. row.last <= clock /\ \A h \in Hosts : k # HostKey(h)
    BY <1>3, <1>4, KeysDiffer
  <2> QED BY <1>2, <1>3, <2>1, CountedKey
<1>6. past \in FailedRows /\ past # Zero
  <2>0. \A b \in BOOLEAN, t, m \in Nat :
          LET r == [since |-> t, count |-> m, alone |-> b] IN r \in FailedRows /\ r # Zero
    <3>1. \A b \in BOOLEAN, t, m \in Nat : [since |-> t, count |-> m, alone |-> b] \in FailedRows
      BY DEF FailedRows
    <3> QED BY <3>1, ZeroAssumption
  <2>1. CASE failed[n] = Zero
    <3>1. past = [since |-> clock, count |-> 1, alone |-> TRUE]
      BY <2>1
    <3> HIDE DEF past
    <3> QED BY <1>4, <2>0, <3>1
  <2>2. CASE failed[n] # Zero
    <3> PICK both \in BOOLEAN : both = (failed[n].alone /\ only)
      OBVIOUS
    <3>1. past = [since |-> failed[n].since, count |-> failed[n].count + 1, alone |-> both]
      BY <2>2
    <3>2. failed[n].since \in Nat /\ failed[n].count + 1 \in Nat
      BY <1>4, <2>2 DEF FailedRows
    <3> HIDE DEF past
    <3> QED BY <2>0, <3>1, <3>2
  <2> QED BY <2>1, <2>2
<1>7. past.count = row.count /\ (Fits(row.count) /\ past.alone => row.last >= past.since + Waits[row.count - 1])
  <2>1. CASE attempts[k] = Zero
    <3>1. past.since = clock /\ past.count = 1 /\ row.count = 1
      BY <1>3, <1>4, <2>1
    <3>2. Waits[row.count - 1] = 0
      BY <3>1, WaitsGrow
    <3> HIDE DEF past
    <3> QED BY <1>3, <1>4, <3>1, <3>2
  <2>2. CASE attempts[k] # Zero
    <3> DEFINE m == attempts[k].count
    <3>1. /\ row.count = m + 1 /\ m \in 1..MaxFailures /\ failed[n] # Zero /\ failed[n].count = m
          /\ past.since = failed[n].since /\ past.count = m + 1 /\ past.alone = (failed[n].alone /\ only)
      BY <1>3, <1>4, <2>2 DEF Counted, NameCounted
    <3>2. ASSUME Fits(row.count), past.alone PROVE clock >= past.since + Waits[row.count - 1]
      <4>1. Fits(m) /\ Backoff(m) \in Nat
        BY <1>3, <3>1, <3>2, Delays
      <4>2. /\ clock > attempts[k].until /\ attempts[k].until = attempts[k].last + Backoff(m)
            /\ attempts[k].last >= past.since + Waits[m - 1]
        <5>1. only /\ failed[n].alone /\ n # Zero
          BY <3>1, <3>2, ZeroAssumption
        <5> QED BY <1>1, <1>4, <2>2, <3>1, <4>1, <5>1 DEF Counted, NameCounted, AloneWaited
      <4>3. /\ m \in Nat /\ row.count - 1 = m
            /\ Waits[m] = Waits[m - 1] + 1 + Backoff(m) /\ Waits[m - 1] \in Nat
        <5> HIDE DEF m, past
        <5> QED BY <3>1, WaitsGrow
      <4>4. past.since \in Nat /\ attempts[k].last \in Nat
        BY <1>4, <1>6, <2>2 DEF FailedRows, AttemptRows
      <4> HIDE DEF m, past
      <4> QED BY <1>4, <4>1, <4>2, <4>3, <4>4
    <3> HIDE DEF m, past
    <3> QED BY <1>3, <3>1, <3>2
  <2> QED BY <2>1, <2>2
<1> HIDE DEF past
<1>8. \A m \in LoginNames \ {n} : NameKey(m) \in BackoffKeys \ {k}
  BY KeysDiffer
<1>9. NamesCounted'
  <2>1. NameCounted(n)' /\ attempts'[k] # Zero
    <3>1. failed'[n] = past
      BY <1>2, <1>4
    <3> QED BY <1>3, <1>5, <1>6, <1>7, <3>1 DEF NameCounted
  <2>2. ASSUME NEW m \in LoginNames \ {n}
        PROVE  NameCounted(m)' /\ (attempts'[NameKey(m)] = Zero => failed'[m] = Zero)
    <3>1. failed'[m] = failed[m] /\ attempts'[NameKey(m)] = attempts[NameKey(m)]
      BY <1>2, <1>4, <1>5, <1>8
    <3> QED BY <3>1 DEF NameCounted, BackoffIInv, NamesCounted
  <2> QED BY <2>1, <2>2 DEF NamesCounted
<1>10. tries'[c] = Zero /\ (\A d \in LoginCalls \ {c} : tries'[d] = tries[d])
       /\ tries' \in [LoginCalls -> LoginTries \cup {Zero}]
  BY <1>2 DEF BackoffIInv, BackoffTyped
<1>11. ASSUME NEW d \in LoginCalls PROVE AloneWaited(d)'
  <2> SUFFICES ASSUME tries'[d] # Zero, tries'[d].alone, tries'[d].name # Zero PROVE AloneWaited(d)'
    BY DEF AloneWaited
  <2>1. d # c /\ tries'[d] = tries[d] /\ AloneWaited(d) /\ tries[d].name \in LoginNames
    BY <1>10, TryTyped DEF BackoffIInv
  <2>2. tries[d].name # n
    BY <1>1, <2>1 DEF AloneWaited
  <2>3. attempts'[NameKey(tries[d].name)] = attempts[NameKey(tries[d].name)]
    BY <1>5, <1>8, <2>1, <2>2
  <2> QED BY <1>2, <1>10, <2>1, <2>3 DEF AloneWaited
<1>12. failed' \in [LoginNames -> FailedRows \cup {Zero}]
  BY <1>2, <1>4, <1>6
<1> QED BY <1>2, <1>5, <1>9, <1>10, <1>11, <1>12 DEF BackoffIInv, BackoffTyped

\* The name's counter is cleared.
LEMMA NameSucceedsKeeps ==
  ASSUME BackoffIInv, NEW c \in LoginCalls, NameSucceeds(c)
  PROVE  BackoffIInv'
<1>1. tries[c] # Zero /\ tries[c].name \in LoginNames
  BY TryTyped DEF NameSucceeds
<1> PICK n \in LoginNames : n = tries[c].name
  BY <1>1
<1> PICK k \in BackoffKeys : k = NameKey(n)
  BY KeysDiffer
<1>2. /\ clock' = clock /\ attempts' = [attempts EXCEPT ![k] = Zero]
      /\ failed' = [failed EXCEPT ![n] = Zero] /\ tries' = [tries EXCEPT ![c] = Zero]
  BY DEF NameSucceeds
<1>3. /\ attempts' \in [BackoffKeys -> AttemptRows \cup {Zero}] /\ KeysCounted' /\ attempts'[k] = Zero
      /\ \A j \in BackoffKeys \ {k} : attempts'[j] = attempts[j]
  BY <1>2, KeysDiffer, CountedKey
<1>4. \A m \in LoginNames \ {n} : NameKey(m) \in BackoffKeys \ {k}
  BY KeysDiffer
<1>5. NamesCounted' /\ failed' \in [LoginNames -> FailedRows \cup {Zero}]
  BY <1>2, <1>3, <1>4 DEF NamesCounted, NameCounted, BackoffIInv, BackoffTyped
<1>6. \A m \in LoginNames : attempts'[NameKey(m)] = attempts[NameKey(m)] \/ attempts'[NameKey(m)] = Zero
  BY <1>3, <1>4
<1>7. /\ tries' \in [LoginCalls -> LoginTries \cup {Zero}]
      /\ \A d \in LoginCalls : tries'[d] # Zero /\ tries'[d].phase # "handler" => tries'[d].name # Zero
      /\ \A d \in LoginCalls : AloneWaited(d)'
  BY <1>2, <1>6, TriesStay
<1> QED BY <1>2, <1>3, <1>5, <1>7 DEF BackoffIInv, BackoffTyped

\* A login is no login.
LEMMA BadLoginKeeps == ASSUME BackoffIInv, NEW c \in LoginCalls, BadLogin(c) PROVE BackoffIInv'
<1>1. clock' = clock /\ attempts' = attempts /\ failed' = failed /\ tries' = [tries EXCEPT ![c] = Zero]
  BY DEF BadLogin
<1>2. /\ tries' \in [LoginCalls -> LoginTries \cup {Zero}]
      /\ \A d \in LoginCalls : tries'[d] # Zero /\ tries'[d].phase # "handler" => tries'[d].name # Zero
      /\ \A d \in LoginCalls : AloneWaited(d)'
  BY <1>1, TriesStay
<1>3. NamesCounted' /\ KeysCounted'
  BY <1>1, NamesStay DEF BackoffIInv, KeysCounted, Counted
<1> QED BY <1>1, <1>2, <1>3 DEF BackoffIInv, BackoffTyped

\* Every step of the limiter keeps its invariant.
LEMMA BackoffStep == BackoffIInv /\ [BackoffNext]_<<clock, backoffVars>> => BackoffIInv'
<1> SUFFICES ASSUME BackoffIInv, [BackoffNext]_<<clock, backoffVars>> PROVE BackoffIInv'
  OBVIOUS
<1>1. CASE GuardTick
  <2>1. /\ attempts' = attempts /\ tries' = tries /\ failed' = failed
        /\ clock' = clock + 1 /\ clock' \in 0..LastTick /\ clock \in Nat
    BY <1>1, GuardAssumption DEF GuardTick, BackoffIInv, BackoffTyped, backoffVars
  <2>2. ASSUME NEW k \in BackoffKeys PROVE Counted(k)'
    <3>1. Counted(k) /\ attempts[k] \in AttemptRows \cup {Zero}
      BY DEF BackoffIInv, BackoffTyped, KeysCounted
    <3> QED BY <2>1, <3>1 DEF Counted, AttemptRows
  <2>3. ASSUME NEW c \in LoginCalls PROVE AloneWaited(c)'
    <3> SUFFICES ASSUME tries[c] # Zero, tries[c].alone, tries[c].name # Zero PROVE AloneWaited(c)'
      BY <2>1 DEF AloneWaited
    <3>1. tries[c].name \in LoginNames /\ AloneWaited(c)
      BY TryTyped DEF BackoffIInv
    <3> PICK k \in BackoffKeys : k = NameKey(tries[c].name)
      BY <3>1, KeysDiffer
    <3>2. attempts[k] # Zero => clock + 1 > attempts[k].until
      <4>1. attempts[k] # Zero => clock > attempts[k].until /\ attempts[k].until \in Int
        BY <3>1 DEF AloneWaited, BackoffIInv, BackoffTyped, AttemptRows
      <4> QED BY <2>1, <4>1
    <3> QED BY <2>1, <3>1, <3>2 DEF AloneWaited
  <2> QED BY <2>1, <2>2, <2>3 DEF BackoffIInv, BackoffTyped, KeysCounted, NamesCounted, NameCounted
<1>2. CASE CleanUpAttempts
  <2>1. PICK old \in SUBSET BackoffKeys :
          /\ attempts' = [k \in BackoffKeys |-> IF k \in old THEN Zero ELSE attempts[k]]
          /\ failed' = [n \in LoginNames |-> IF NameKey(n) \in old THEN Zero ELSE failed[n]]
    BY <1>2 DEF CleanUpAttempts
  <2>2. clock' = clock /\ tries' = tries
    BY <1>2 DEF CleanUpAttempts
  <2>3. attempts' \in [BackoffKeys -> AttemptRows \cup {Zero}]
        /\ failed' \in [LoginNames -> FailedRows \cup {Zero}]
    BY <2>1 DEF BackoffIInv, BackoffTyped
  <2>4. KeysCounted'
    BY <2>1, <2>2, KeysDiffer DEF BackoffIInv, KeysCounted, Counted
  <2>5. ASSUME NEW n \in LoginNames
        PROVE  /\ NameCounted(n)' /\ (attempts'[NameKey(n)] = Zero => failed'[n] = Zero)
               /\ attempts'[NameKey(n)] = attempts[NameKey(n)] \/ attempts'[NameKey(n)] = Zero
    <3>1. NameKey(n) \in BackoffKeys
      BY KeysDiffer
    <3> QED BY <2>1, <2>2, <3>1 DEF BackoffIInv, NamesCounted, NameCounted
  <2>6. ASSUME NEW c \in LoginCalls PROVE AloneWaited(c)'
    <3>1. tries[c] # Zero => tries[c].name \in LoginNames \cup {Zero}
      BY TryTyped
    <3> QED BY <2>2, <2>5, <3>1 DEF BackoffIInv, AloneWaited
  <2> QED BY <2>2, <2>3, <2>4, <2>5, <2>6 DEF BackoffIInv, BackoffTyped, NamesCounted
<1>3. CASE UNCHANGED <<clock, backoffVars>>
  <2>1. clock' = clock /\ attempts' = attempts /\ tries' = tries /\ failed' = failed
    BY <1>3 DEF backoffVars
  <2> QED BY <2>1 DEF BackoffIInv, BackoffTyped, KeysCounted, Counted, NamesCounted, NameCounted, AloneWaited
<1> QED BY <1>1, <1>2, <1>3, TryLoginKeeps, AddressKeeps, NameFailsKeeps, NameSucceedsKeeps, BadLoginKeeps
        DEF BackoffNext

\* The invariant gives what holds of the delays.
LEMMA BackoffGives == BackoffIInv => BackoffHolds
<1> SUFFICES ASSUME BackoffIInv PROVE BackoffHolds
  OBVIOUS
<1>1. \A k \in BackoffKeys : attempts[k] # Zero /\ Fits(attempts[k].count) =>
        attempts[k].until = attempts[k].last + Backoff(attempts[k].count)
  BY DEF BackoffIInv, KeysCounted, Counted
<1>2. ASSUME NEW n \in LoginNames, NEW k \in BackoffKeys, k = NameKey(n),
             attempts[k] # Zero, Fits(attempts[k].count)
      PROVE  /\ failed[n].count = attempts[k].count
             /\ failed[n].alone => clock >= failed[n].since + Waits[failed[n].count - 1]
  <2>1. /\ attempts[k] \in AttemptRows /\ failed[n] \in FailedRows \cup {Zero} /\ clock \in Nat
        /\ Counted(k) /\ NameCounted(n)
    BY <1>2, GuardAssumption DEF BackoffIInv, BackoffTyped, KeysCounted, NamesCounted
  <2>2. /\ failed[n] \in FailedRows /\ failed[n].count = attempts[k].count
        /\ attempts[k].count \in 1..MaxFailures /\ attempts[k].last <= clock
        /\ failed[n].alone => attempts[k].last >= failed[n].since + Waits[failed[n].count - 1]
    BY <1>2, <2>1 DEF Counted, NameCounted
  <2>3. Waits[failed[n].count - 1] \in Nat /\ failed[n].since \in Nat /\ attempts[k].last \in Nat
    BY <2>1, <2>2, WaitsGrow DEF FailedRows, AttemptRows
  <2> QED BY <2>1, <2>2, <2>3
<1>3. \A h \in Hosts : Allowed(HostKey(h))
  BY DEF BackoffIInv, KeysCounted, Allowed
<1> QED BY <1>1, <1>2, <1>3, KeysDiffer DEF BackoffHolds

-----------------------------------------------------------------------------
(* The rate limiter.  What was let through since any moment and what the   *)
(* bucket has now are no more than a full bucket and the time since then.  *)

FullBucket == Bucket * PerToken

\* What was let through from t to u costs, in units.
Cost(a, t, u) == Through(a, t, u) * PerToken

\* The bucket of an address, and what it has let through.
Metered(a) ==
  /\ buckets[a] # Zero => buckets[a].units <= FullBucket /\ buckets[a].last <= clock
  /\ \A t \in clock..LastTick : passed[a][t] = passed[a][clock]
  /\ \A t \in 0..clock : Cost(a, t, clock) + Refilled(a) <= FullBucket + (clock - t)
  /\ \A t, u \in 0..clock : t <= u => Cost(a, t, u) <= FullBucket + (u - t)

RateIInv ==
  /\ clock \in 0..LastTick
  /\ buckets \in [Addresses -> BucketRows \cup {Zero}]
  /\ passed \in [Addresses -> [0..LastTick -> Nat]]
  /\ \A a \in Addresses : Metered(a)

\* A bucket has no more than a full one.
LEMMA RefilledType ==
  ASSUME RateIInv, NEW a \in Addresses
  PROVE  FullBucket \in Nat /\ Refilled(a) \in 0..FullBucket
<1>1. FullBucket \in Nat
  BY GuardAssumption DEF FullBucket
<1>2. clock \in Nat /\ buckets[a] \in BucketRows \cup {Zero} /\ Metered(a)
  BY GuardAssumption DEF RateIInv
<1>3. Refilled(a) = IF buckets[a] = Zero THEN FullBucket
                    ELSE IF buckets[a].units + (clock - buckets[a].last) < FullBucket
                         THEN buckets[a].units + (clock - buckets[a].last) ELSE FullBucket
  BY DEF Refilled, Least, FullBucket
<1>4. buckets[a] # Zero => buckets[a].units \in Nat /\ buckets[a].last \in Nat /\ buckets[a].last <= clock
  BY <1>2 DEF BucketRows, Metered
<1> HIDE DEF FullBucket
<1> QED BY <1>1, <1>2, <1>3, <1>4

\* Counts are numbers, and one more costs a token more.
LEMMA CostType ==
  ASSUME RateIInv, NEW a \in Addresses, NEW t \in 0..LastTick, NEW u \in 0..LastTick
  PROVE  Through(a, t, u) \in Int /\ Cost(a, t, u) \in Int
<1>1. passed[a] \in [0..LastTick -> Nat] /\ PerToken \in Int /\ LastTick \in Nat
  BY GuardAssumption DEF RateIInv
<1>2. t # 0 => t - 1 \in 0..LastTick
  BY <1>1
<1>3. Through(a, t, u) \in Int
  BY <1>1, <1>2 DEF Through
<1> QED BY <1>1, <1>3 DEF Cost

\* At the start nothing was let through.
LEMMA RateStarts == GuardInit => RateIInv
<1> SUFFICES ASSUME GuardInit PROVE RateIInv
  OBVIOUS
<1>1. /\ clock = 0 /\ clock \in 0..LastTick /\ FullBucket \in Nat
      /\ buckets \in [Addresses -> BucketRows \cup {Zero}]
      /\ passed \in [Addresses -> [0..LastTick -> Nat]]
      /\ \A a \in Addresses : buckets[a] = Zero /\ \A t \in 0..LastTick : passed[a][t] = 0
  BY GuardAssumption DEF GuardInit, FullBucket
<1>2. ASSUME NEW a \in Addresses PROVE Metered(a)
  <2>1. \A t \in 0..clock : t = 0
    BY <1>1
  <2>2. Through(a, 0, 0) = 0
    BY <1>1 DEF Through
  <2>3. Cost(a, 0, 0) = 0
    BY <2>2, GuardAssumption DEF Cost
  <2>4. Refilled(a) = FullBucket
    BY <1>1 DEF Refilled, FullBucket
  <2>5. \A t \in clock..LastTick : passed[a][t] = passed[a][clock]
    BY <1>1, GuardAssumption
  <2> HIDE DEF FullBucket
  <2> QED BY <1>1, <2>1, <2>3, <2>4, <2>5 DEF Metered
<1> QED BY <1>1, <1>2 DEF RateIInv

\* A tick: a bucket gains a unit at most.
LEMMA RateTicks == ASSUME RateIInv, GuardTick PROVE RateIInv'
<1>1. /\ clock \in Nat /\ LastTick \in Nat /\ clock' = clock + 1 /\ clock' \in 0..LastTick
      /\ buckets' = buckets /\ passed' = passed /\ FullBucket' = FullBucket
  BY GuardAssumption DEF GuardTick, RateIInv, rateVars, FullBucket
<1>2. ASSUME NEW a \in Addresses PROVE Metered(a)'
  <2>1. /\ Metered(a) /\ buckets[a] \in BucketRows \cup {Zero}
        /\ passed[a] \in [0..LastTick -> Nat]
    BY DEF RateIInv
  <2>2. FullBucket \in Nat /\ Refilled(a) \in 0..FullBucket
    BY RefilledType
  <2>3. /\ buckets[a] # Zero => /\ buckets[a].units \in Nat /\ buckets[a].last \in Nat
                                /\ buckets[a].units <= FullBucket /\ buckets[a].last <= clock
    BY <2>1 DEF Metered, BucketRows
  <2>4. Refilled(a)' \in 0..FullBucket /\ Refilled(a)' <= Refilled(a) + 1
    <3>1. Refilled(a) = IF buckets[a] = Zero THEN FullBucket
                        ELSE IF buckets[a].units + (clock - buckets[a].last) < FullBucket
                             THEN buckets[a].units + (clock - buckets[a].last) ELSE FullBucket
      BY DEF Refilled, Least, FullBucket
    <3>2. Refilled(a)' = IF buckets[a] = Zero THEN FullBucket
                         ELSE IF buckets[a].units + (clock' - buckets[a].last) < FullBucket
                              THEN buckets[a].units + (clock' - buckets[a].last) ELSE FullBucket
      <4>1. buckets' = buckets
        BY <1>1
      <4> QED BY <4>1 DEF Refilled, Least, FullBucket
    <3> HIDE DEF FullBucket
    <3> QED BY <1>1, <2>2, <2>3, <3>1, <3>2
  <2>5. /\ \A t \in clock'..LastTick : passed[a][t] = passed[a][clock']
        /\ passed[a][clock'] = passed[a][clock]
    <3>1. \A t \in clock..LastTick : passed[a][t] = passed[a][clock]
      BY <2>1 DEF Metered
    <3> QED BY <1>1, <3>1
  <2>6. \A t, u \in 0..LastTick : Through(a, t, u)' = Through(a, t, u) /\ Cost(a, t, u)' = Cost(a, t, u)
    BY <1>1 DEF Through, Cost
  <2>7. \A t \in 0..clock : Cost(a, t, clock + 1) = Cost(a, t, clock)
    BY <1>1, <2>5 DEF Through, Cost
  <2>8. Cost(a, clock + 1, clock + 1) = 0
    <3>1. Through(a, clock + 1, clock + 1) = 0
      <4>1. clock + 1 # 0 /\ (clock + 1) - 1 = clock
        BY <1>1
      <4>2. passed[a][clock] \in Nat
        BY <1>1, <2>1
      <4> QED BY <1>1, <2>5, <4>1, <4>2 DEF Through
    <3> QED BY <3>1, GuardAssumption DEF Cost
  <2>9. /\ \A t \in 0..clock : Cost(a, t, clock) \in Int
        /\ \A t \in 0..clock : Cost(a, t, clock) + Refilled(a) <= FullBucket + (clock - t)
        /\ \A t, u \in 0..clock : t <= u => Cost(a, t, u) <= FullBucket + (u - t)
    <3>1. \A t \in 0..clock : Cost(a, t, clock) \in Int
      BY <1>1, CostType
    <3> QED BY <2>1, <3>1 DEF Metered
  <2> HIDE DEF FullBucket
  <2>10. ASSUME NEW t \in 0..clock' PROVE Cost(a, t, clock') + Refilled(a)' <= FullBucket + (clock' - t)
    <3>1. CASE t \in 0..clock
      <4>1. Cost(a, t, clock') = Cost(a, t, clock)
        BY <1>1, <2>7, <3>1
      <4> QED BY <1>1, <2>2, <2>4, <2>9, <3>1, <4>1
    <3>2. CASE t = clock + 1
      BY <1>1, <2>2, <2>4, <2>8, <3>2
    <3> QED BY <1>1, <3>1, <3>2
  <2>11. ASSUME NEW t \in 0..clock', NEW u \in 0..clock', t <= u PROVE Cost(a, t, u) <= FullBucket + (u - t)
    <3>1. CASE u \in 0..clock
      BY <1>1, <2>9, <2>11, <3>1
    <3>2. CASE u = clock + 1
      <4>1. Cost(a, t, u) \in Int
        BY <1>1, CostType
      <4> QED BY <1>1, <2>2, <2>4, <2>10, <3>2, <4>1
    <3> QED BY <1>1, <3>1, <3>2
  <2>12. /\ \A t \in 0..clock' : Cost(a, t, clock)' = Cost(a, t, clock')
         /\ \A t, u \in 0..clock' : Cost(a, t, u)' = Cost(a, t, u)
    <3>1. passed' = passed
      BY <1>1
    <3> QED BY <3>1 DEF Cost, Through
  <2> QED BY <1>1, <2>3, <2>5, <2>10, <2>11, <2>12 DEF Metered
<1> QED BY <1>1, <1>2 DEF RateIInv

\* Another address's bucket and count are as they were.
LEMMA MeteredSame ==
  ASSUME NEW a \in Addresses, Metered(a), clock' = clock, buckets'[a] = buckets[a], passed'[a] = passed[a]
  PROVE  Metered(a)'
<1>1. Refilled(a)' = Refilled(a)
  BY DEF Refilled
<1>2. \A t, u : Cost(a, t, u)' = Cost(a, t, u)
  BY DEF Cost, Through
<1> QED BY <1>1, <1>2 DEF Metered, FullBucket

\* A request is let through for a token, or refused.
LEMMA AllowRateKeeps == ASSUME RateIInv, NEW a \in Addresses, AllowRate(a) PROVE RateIInv'
<1> DEFINE R == Refilled(a)
           through == R >= PerToken
           left == IF through THEN R - PerToken ELSE R
           row == [units |-> left, last |-> clock]
           more == [t \in 0..LastTick |-> IF t < clock THEN passed[a][t] ELSE passed[a][t] + 1]
           count == IF through THEN more ELSE passed[a]
<1>1. /\ clock' = clock /\ clock \in 0..LastTick /\ clock \in Nat /\ LastTick \in Nat
      /\ Metered(a) /\ passed[a] \in [0..LastTick -> Nat]
      /\ passed \in [Addresses -> [0..LastTick -> Nat]] /\ buckets \in [Addresses -> BucketRows \cup {Zero}]
  BY GuardAssumption DEF AllowRate, RateIInv
<1>2. FullBucket \in Nat /\ R \in 0..FullBucket /\ PerToken \in Nat
  BY RefilledType, GuardAssumption
<1>3. buckets' = [buckets EXCEPT ![a] = row]
  BY DEF AllowRate
<1>4. passed' = [passed EXCEPT ![a] = count]
  <2>1. CASE through
    BY <2>1 DEF AllowRate, LetThrough
  <2>2. CASE ~through
    <3>1. passed' = passed
      BY <2>2 DEF AllowRate
    <3> QED BY <1>1, <2>2, <3>1
  <2> QED BY <2>1, <2>2
<1> HIDE DEF R
<1>5. left \in 0..FullBucket
  BY <1>2
<1> HIDE DEF left
<1>6. row \in BucketRows /\ row # Zero /\ row.units = left /\ row.last = clock
  BY <1>1, <1>2, <1>5, ZeroAssumption DEF BucketRows
<1> HIDE DEF row
<1>7. more \in [0..LastTick -> Nat] /\ count \in [0..LastTick -> Nat]
  BY <1>1
<1>8. /\ \A t \in 0..LastTick : t < clock => count[t] = passed[a][t]
      /\ through => \A t \in clock..LastTick : count[t] = passed[a][t] + 1
      /\ ~through => count = passed[a]
  BY <1>1
<1> HIDE DEF more, count
<1>9. buckets'[a] = row /\ passed'[a] = count
  BY <1>1, <1>3, <1>4
<1>10. \A b \in Addresses : b # a => buckets'[b] = buckets[b] /\ passed'[b] = passed[b]
  BY <1>1, <1>3, <1>4
<1>11. buckets' \in [Addresses -> BucketRows \cup {Zero}] /\ passed' \in [Addresses -> [0..LastTick -> Nat]]
  BY <1>1, <1>3, <1>4, <1>6, <1>7
<1>12. Refilled(a)' = left
  <2>1. Refilled(a)' = IF left + (clock - clock) < FullBucket THEN left + (clock - clock) ELSE FullBucket
    BY <1>1, <1>6, <1>9 DEF Refilled, Least, FullBucket
  <2> HIDE DEF FullBucket
  <2> QED BY <1>1, <1>2, <1>5, <2>1
<1>13. \A t, u \in 0..clock : t <= u =>
         /\ u < clock => Through(a, t, u)' = Through(a, t, u)
         /\ u = clock => Through(a, t, u)' = IF through THEN Through(a, t, u) + 1 ELSE Through(a, t, u)
  <2> SUFFICES ASSUME NEW t \in 0..clock, NEW u \in 0..clock, t <= u
               PROVE  /\ u < clock => Through(a, t, u)' = Through(a, t, u)
                      /\ u = clock => Through(a, t, u)' = IF through THEN Through(a, t, u) + 1 ELSE Through(a, t, u)
    OBVIOUS
  <2> DEFINE before == IF t = 0 THEN 0 ELSE passed[a][t - 1]
  <2>1. t # 0 => t - 1 \in 0..LastTick /\ t - 1 < clock /\ count[t - 1] = passed[a][t - 1]
    BY <1>1, <1>8
  <2>2. Through(a, t, u) = passed[a][u] - before
    BY DEF Through
  <2>3. Through(a, t, u)' = count[u] - before
    BY <1>9, <2>1 DEF Through
  <2>4. before \in Int /\ passed[a][u] \in Int
    BY <1>1, <2>1
  <2> HIDE DEF before, through
  <2>5. u < clock => count[u] = passed[a][u]
    BY <1>1, <1>8
  <2>6. u = clock => count[u] = IF through THEN passed[a][u] + 1 ELSE passed[a][u]
    BY <1>1, <1>8
  <2> QED BY <2>2, <2>3, <2>4, <2>5, <2>6
<1>14. \A t, u \in 0..clock : t <= u =>
         /\ Cost(a, t, u) \in Int
         /\ u < clock => Cost(a, t, u)' = Cost(a, t, u)
         /\ u = clock => Cost(a, t, u)' = IF through THEN Cost(a, t, u) + PerToken ELSE Cost(a, t, u)
  <2> SUFFICES ASSUME NEW t \in 0..clock, NEW u \in 0..clock, t <= u
               PROVE  /\ Cost(a, t, u) \in Int
                      /\ u < clock => Cost(a, t, u)' = Cost(a, t, u)
                      /\ u = clock => Cost(a, t, u)' = IF through THEN Cost(a, t, u) + PerToken ELSE Cost(a, t, u)
    OBVIOUS
  <2>1. Through(a, t, u) \in Int /\ Cost(a, t, u) \in Int
    <3>1. t \in 0..LastTick /\ u \in 0..LastTick
      BY <1>1
    <3> QED BY <3>1, CostType
  <2>2. \A x \in Int : (x + 1) * PerToken = x * PerToken + PerToken
    BY <1>2
  <2>3. Cost(a, t, u)' = Through(a, t, u)' * PerToken /\ Cost(a, t, u) = Through(a, t, u) * PerToken
    BY DEF Cost
  <2> QED BY <1>13, <2>1, <2>2, <2>3
<1>15. Metered(a)'
  <2>1. \A t \in clock..LastTick : count[t] = count[clock]
    <3>1. \A t \in clock..LastTick : passed[a][t] = passed[a][clock]
      BY <1>1 DEF Metered
    <3> QED BY <1>1, <1>8, <3>1
  <2>2. ASSUME NEW t \in 0..clock PROVE Cost(a, t, clock)' + left <= FullBucket + (clock - t)
    <3>1. Cost(a, t, clock) + R <= FullBucket + (clock - t)
      BY <1>1 DEF Metered, R
    <3>2. left = IF through THEN R - PerToken ELSE R
      BY DEF left
    <3>3. Cost(a, t, clock) \in Int /\ Cost(a, t, clock)' = IF through THEN Cost(a, t, clock) + PerToken ELSE Cost(a, t, clock)
      BY <1>1, <1>14
    <3> HIDE DEF FullBucket, through
    <3> QED BY <1>1, <1>2, <3>1, <3>2, <3>3
  <2>6. ASSUME NEW t \in 0..clock, NEW u \in 0..clock, u = clock
        PROVE  Cost(a, t, u)' \in Int /\ Cost(a, t, u)' + left <= FullBucket + (u - t)
    <3>1. Cost(a, t, u) + R <= FullBucket + (u - t)
      BY <1>1, <2>6 DEF Metered, R
    <3>2. left = IF through THEN R - PerToken ELSE R
      BY DEF left
    <3>3. t <= u
      BY <1>1, <2>6
    <3>4. Cost(a, t, u) \in Int /\ Cost(a, t, u)' = IF through THEN Cost(a, t, u) + PerToken ELSE Cost(a, t, u)
      BY <1>14, <2>6, <3>3
    <3> HIDE DEF FullBucket, through
    <3> QED BY <1>1, <1>2, <3>1, <3>2, <3>4
  <2>3. ASSUME NEW t \in 0..clock, NEW u \in 0..clock, t <= u PROVE Cost(a, t, u)' <= FullBucket + (u - t)
    <3>1. CASE u < clock
      BY <1>1, <1>14, <2>3, <3>1 DEF Metered
    <3>2. CASE u = clock
      <4>1. Cost(a, t, u)' \in Int /\ Cost(a, t, u)' + left <= FullBucket + (u - t)
        BY <2>6, <3>2
      <4> HIDE DEF FullBucket
      <4> QED BY <1>1, <1>2, <1>5, <4>1
    <3> QED BY <1>1, <3>1, <3>2
  <2>4. row.units <= FullBucket
    <3> HIDE DEF FullBucket
    <3> QED BY <1>2, <1>5, <1>6
  <2>5. FullBucket' = FullBucket
    BY DEF FullBucket
  <2> HIDE DEF FullBucket
  <2> QED BY <1>1, <1>6, <1>9, <1>12, <2>1, <2>2, <2>3, <2>4, <2>5 DEF Metered
<1> QED BY <1>1, <1>10, <1>11, <1>15, MeteredSame DEF RateIInv

\* Only a bucket that is full again is forgotten.
LEMMA CleanUpKeeps == ASSUME RateIInv, CleanUpBuckets PROVE RateIInv'
<1>1. PICK old \in SUBSET Addresses :
        /\ old = {a \in Addresses : buckets[a] # Zero /\ clock - buckets[a].last > Unused}
        /\ buckets' = [a \in Addresses |-> IF a \in old THEN Zero ELSE buckets[a]]
  BY DEF CleanUpBuckets
<1>2. clock' = clock /\ passed' = passed /\ clock \in Nat
  BY GuardAssumption DEF CleanUpBuckets, RateIInv
<1>3. ASSUME NEW a \in Addresses PROVE Metered(a)'
  <2>1. CASE a \notin old
    <3>1. buckets'[a] = buckets[a] /\ passed'[a] = passed[a]
      BY <1>1, <1>2, <2>1
    <3> QED BY <1>2, <3>1, MeteredSame DEF RateIInv
  <2>2. CASE a \in old
    <3>1. buckets'[a] = Zero /\ buckets[a] # Zero /\ clock - buckets[a].last > Unused
      BY <1>1, <2>2
    <3>2. Refilled(a)' = FullBucket
      BY <3>1 DEF Refilled, FullBucket
    <3>3. Refilled(a) = FullBucket
      <4>1. Refilled(a) = IF buckets[a].units + (clock - buckets[a].last) < FullBucket
                          THEN buckets[a].units + (clock - buckets[a].last) ELSE FullBucket
        BY <3>1 DEF Refilled, Least, FullBucket
      <4>2. FullBucket \in Nat /\ FullBucket <= Unused /\ Unused \in Nat
        BY GuardAssumption DEF FullBucket
      <4>3. buckets[a].units \in Nat /\ buckets[a].last \in Nat
        BY <3>1 DEF RateIInv, BucketRows
      <4> HIDE DEF FullBucket
      <4> QED BY <1>2, <3>1, <4>1, <4>2, <4>3
    <3>4. \A t, u : Cost(a, t, u)' = Cost(a, t, u)
      BY <1>2 DEF Cost, Through
    <3>5. FullBucket' = FullBucket
      BY DEF FullBucket
    <3>6. Metered(a)
      BY DEF RateIInv
    <3>7. \A t \in 0..clock : Cost(a, t, clock)' = Cost(a, t, clock)
      BY <1>2 DEF Cost, Through
    <3>8. \A t \in 0..clock' : Cost(a, t, clock)' + Refilled(a)' <= FullBucket' + (clock' - t)
      <4> HIDE DEF FullBucket
      <4> QED BY <1>2, <3>2, <3>3, <3>5, <3>6, <3>7 DEF Metered
    <3> HIDE DEF FullBucket
    <3> QED BY <1>2, <3>1, <3>4, <3>5, <3>6, <3>8 DEF Metered
  <2> QED BY <2>1, <2>2
<1>4. buckets' \in [Addresses -> BucketRows \cup {Zero}]
  BY <1>1 DEF RateIInv
<1> QED BY <1>2, <1>3, <1>4 DEF RateIInv

\* Every step of the limiter keeps its invariant.
LEMMA RateStep == RateIInv /\ [RateNext]_<<clock, rateVars>> => RateIInv'
<1> SUFFICES ASSUME RateIInv, [RateNext]_<<clock, rateVars>> PROVE RateIInv'
  OBVIOUS
<1>1. CASE UNCHANGED <<clock, rateVars>>
  <2>1. clock' = clock /\ buckets' = buckets /\ passed' = passed
    BY <1>1 DEF rateVars
  <2> QED BY <2>1, MeteredSame DEF RateIInv
<1> QED BY <1>1, RateTicks, AllowRateKeeps, CleanUpKeeps DEF RateNext

\* The invariant gives the bound for every stretch of time.
LEMMA RateGives == RateIInv => RateHolds
BY DEF RateIInv, RateHolds, Metered, Cost, FullBucket

-----------------------------------------------------------------------------
(* The idle time of sessions.  No time that is cached, in a row or held by *)
(* a request is later than the session was touched.  A session cached      *)
(* without a time has been so by a request that is still to be let         *)
(* through.  While no two requests of a session overlap, what is cached,   *)
(* and the row of one that is not, are as late as the last use, or that is *)
(* longer ago than the idle time.                                          *)

\* Time t is none, or not after time u.
NotAfter(t, u) == t # Zero => u # Zero /\ t <= u

Times == Nat \cup {Zero}

\* Who takes time t for the last use does not miss, at the time "now", a use at u
\* within the idle time.
Knows(u, t, now) == NotAfter(u, t) \/ (u # Zero /\ now - u > Idle)

IdleTyped ==
  /\ clock \in 0..LastTick
  /\ cache \in [SessionIds -> Times] /\ sessionRows \in [SessionIds -> Times]
  /\ usedIn \in [SessionIds -> Times] /\ touched \in [SessionIds -> Times]
  /\ requests \in [GuardCalls -> Requests \cup {Zero}]
  /\ cached \subseteq SessionIds /\ raced \subseteq SessionIds
  /\ \A s \in SessionIds \ cached : cache[s] = Zero

TimesPast(s) ==
  /\ NotAfter(touched[s], clock) /\ NotAfter(usedIn[s], clock)
  /\ NotAfter(cache[s], touched[s]) /\ NotAfter(sessionRows[s], touched[s])

Of(c, s) == requests[c] # Zero /\ requests[c].session = s

\* Request c has come no later than its session was touched, if that has a row.
Fresh(c) ==
  sessionRows[requests[c].session] # Zero => requests[c].at <= touched[requests[c].session]

\* What request c knows of its session.
Timely(c) ==
  requests[c] # Zero =>
    LET r == requests[c]
        s == r.session
    IN  /\ r.at <= clock
        /\ r.phase # "flush" => clock - r.at <= Idle
        /\ r.phase \in {"fill", "check", "passed", "refused"} =>
             /\ NotAfter(r.last, touched[s])
             /\ r.last = Zero /\ ~r.blind /\ sessionRows[s] # Zero => r.at - touched[s] <= Idle
        /\ r.phase = "load" => r.last = Zero
        /\ r.phase = "fill" /\ r.last = Zero => Fresh(c)
        /\ r.phase = "passed" /\ r.last # Zero => r.at - r.last <= Idle
        /\ r.phase = "refused" => r.last # Zero /\ r.at - r.last > Idle

\* Request c has cached its session without a time, and will be let through.
Filler(c, s) ==
  Of(c, s) /\ requests[c].last = Zero /\ requests[c].phase \in {"check", "passed"} /\ Fresh(c)

FilledByOne(s) == s \in cached /\ cache[s] = Zero => \E c \in GuardCalls : Filler(c, s)

\* What request c knows of the last use.
KnowsUse(c) ==
  LET r == requests[c] IN
  r.phase # "flush" =>
    /\ r.used = usedIn[r.session] /\ NotAfter(r.used, r.at)
    /\ r.last # Zero => Knows(r.used, r.last, r.at)
    /\ r.phase = "load" /\ sessionRows[r.session] # Zero => Knows(r.used, sessionRows[r.session], r.at)
    /\ r.phase \in {"load", "fill"} => cache[r.session] = Zero

Unraced(s) ==
  s \notin raced =>
    /\ \A c, d \in GuardCalls : Of(c, s) /\ Of(d, s) => c = d
    /\ cache[s] # Zero => Knows(usedIn[s], cache[s], clock)
    /\ cache[s] = Zero /\ sessionRows[s] # Zero => Knows(usedIn[s], sessionRows[s], clock)
    /\ \A c \in GuardCalls : Of(c, s) => KnowsUse(c)

IdleIInv ==
  /\ IdleTyped
  /\ \A s \in SessionIds : TimesPast(s) /\ FilledByOne(s) /\ Unraced(s)
  /\ \A c \in GuardCalls : Timely(c)

\* At the start there are no requests and no times.
LEMMA IdleStarts == GuardInit => IdleIInv
<1> SUFFICES ASSUME GuardInit PROVE IdleIInv
  OBVIOUS
<1>1. IdleTyped
  BY GuardAssumption DEF GuardInit, IdleTyped, Times
<1>2. \A c \in GuardCalls : requests[c] = Zero
  BY DEF GuardInit
<1>3. \A s \in SessionIds : TimesPast(s) /\ FilledByOne(s)
  BY DEF GuardInit, TimesPast, FilledByOne, NotAfter
<1>4. \A s \in SessionIds : Unraced(s)
  BY <1>2 DEF GuardInit, Unraced, NotAfter, Of
<1> QED BY <1>1, <1>2, <1>3, <1>4 DEF IdleIInv, Timely

\* The session of a request is touched later, or its row written now.
LEMMA StaysTimely ==
  ASSUME IdleIInv, NEW c \in GuardCalls, requests[c] # Zero, clock' = clock, requests'[c] = requests[c],
         NEW s \in SessionIds, requests[c].session = s, touched'[s] \in Times,
         NotAfter(touched[s], touched'[s]),
         sessionRows[s] = Zero /\ sessionRows'[s] # Zero => touched'[s] = clock
  PROVE  /\ Timely(c)'
         /\ Fresh(c) => Fresh(c)'
<1> DEFINE r == requests[c]
           t == touched[s]
           u == touched'[s]
<1>1. /\ r \in Requests /\ t \in Times /\ u \in Times /\ clock \in Nat /\ Timely(c) /\ TimesPast(s)
      /\ Idle \in Nat /\ r.at \in Nat /\ Zero \notin Int
  BY GuardAssumption, ZeroAssumption DEF IdleIInv, IdleTyped, Requests
<1>2. sessionRows[s] # Zero => t \in Nat /\ u \in Nat /\ t <= u
  BY <1>1 DEF TimesPast, NotAfter, Times
<1>3. sessionRows[s] = Zero /\ sessionRows'[s] # Zero => u = clock /\ u \in Nat
  BY <1>1
<1>4. r.at <= clock
  BY <1>1 DEF Timely
<1>5. Fresh(c) => Fresh(c)'
  <2> SUFFICES ASSUME Fresh(c), sessionRows'[s] # Zero PROVE r.at <= u
    BY DEF Fresh
  <2>1. CASE sessionRows[s] = Zero
    BY <1>3, <1>4, <2>1
  <2>2. CASE sessionRows[s] # Zero
    <3>1. r.at <= t
      BY <2>2 DEF Fresh
    <3> QED BY <1>1, <1>2, <2>2, <3>1
  <2> QED BY <2>1, <2>2
<1>6. r.last = Zero /\ ~r.blind /\ sessionRows'[s] # Zero /\ r.phase \in {"fill", "check", "passed", "refused"} => r.at - u <= Idle
  <2> SUFFICES ASSUME r.last = Zero, ~r.blind, sessionRows'[s] # Zero, r.phase \in {"fill", "check", "passed", "refused"}
               PROVE  r.at - u <= Idle
    OBVIOUS
  <2>1. CASE sessionRows[s] = Zero
    BY <1>1, <1>3, <1>4, <2>1
  <2>2. CASE sessionRows[s] # Zero
    <3>1. r.at - t <= Idle
      BY <1>1, <2>2 DEF Timely
    <3> QED BY <1>1, <1>2, <2>2, <3>1
  <2> QED BY <2>1, <2>2
<1>7. r.phase \in {"fill", "check", "passed", "refused"} => NotAfter(r.last, u)
  <2> SUFFICES ASSUME r.phase \in {"fill", "check", "passed", "refused"}, r.last # Zero
               PROVE  u # Zero /\ r.last <= u
    BY DEF NotAfter
  <2>1. t # Zero /\ r.last <= t
    BY <1>1 DEF Timely, NotAfter
  <2>2. u # Zero /\ t <= u /\ t \in Nat /\ u \in Nat /\ r.last \in Nat
    BY <1>1, <2>1 DEF NotAfter, Times, Requests
  <2> QED BY <2>1, <2>2
<1>8. Timely(c)'
  BY <1>1, <1>5, <1>6, <1>7 DEF Timely
<1> QED BY <1>5, <1>8

\* A request that stays as it is fills the cache no less.
LEMMA StaysFiller ==
  ASSUME IdleIInv, NEW c \in GuardCalls, clock' = clock, requests'[c] = requests[c],
         NEW s \in SessionIds, Filler(c, s), touched'[s] \in Times,
         NotAfter(touched[s], touched'[s]),
         sessionRows[s] = Zero /\ sessionRows'[s] # Zero => touched'[s] = clock
  PROVE  Filler(c, s)'
<1>1. requests[c] # Zero /\ requests[c].session = s /\ Fresh(c)
  BY DEF Filler, Of
<1>2. Fresh(c)'
  BY <1>1, StaysTimely
<1> QED BY <1>2 DEF Filler, Of

\* What happens to one session does not concern the others.
LEMMA OneSession ==
  ASSUME IdleIInv, NEW s \in SessionIds, clock' = clock, IdleTyped',
         \A x \in SessionIds \ {s} :
           /\ cache'[x] = cache[x] /\ sessionRows'[x] = sessionRows[x]
           /\ usedIn'[x] = usedIn[x] /\ touched'[x] = touched[x]
           /\ (x \in cached' <=> x \in cached) /\ (x \in raced' <=> x \in raced),
         NotAfter(touched[s], touched'[s]),
         sessionRows[s] = Zero /\ sessionRows'[s] # Zero => touched'[s] = clock,
         \A c \in GuardCalls : requests'[c] = requests[c] \/
           /\ requests[c] # Zero => requests[c].session = s
           /\ requests'[c] # Zero => requests'[c].session = s
           /\ Timely(c)',
         TimesPast(s)', FilledByOne(s)', Unraced(s)'
  PROVE  IdleIInv'
<1>1. \A x \in SessionIds : NotAfter(touched[x], touched'[x]) /\ touched[x] \in Times /\ touched'[x] \in Times
  BY DEF IdleIInv, IdleTyped, NotAfter, Times
<1>2. ASSUME NEW c \in GuardCalls PROVE Timely(c)'
  <2>1. CASE requests'[c] = requests[c] /\ requests[c] # Zero
    <3>1. requests[c].session \in SessionIds
      BY <2>1 DEF IdleIInv, IdleTyped, Requests
    <3>2. sessionRows[requests[c].session] = Zero /\ sessionRows'[requests[c].session] # Zero =>
            touched'[requests[c].session] = clock
      BY <3>1
    <3> QED BY <1>1, <2>1, <3>1, <3>2, StaysTimely
  <2>2. CASE requests'[c] = requests[c] /\ requests[c] = Zero
    BY <2>2 DEF Timely
  <2> QED BY <2>1, <2>2
<1>3. ASSUME NEW x \in SessionIds \ {s} PROVE TimesPast(x)'
  BY DEF IdleIInv, TimesPast
<1>4. ASSUME NEW x \in SessionIds \ {s}, NEW c \in GuardCalls
      PROVE  (Of(c, x)' <=> Of(c, x)) /\ (Of(c, x) => requests'[c] = requests[c])
  BY DEF Of
<1>5. ASSUME NEW x \in SessionIds \ {s} PROVE FilledByOne(x)'
  <2> SUFFICES ASSUME x \in cached', cache'[x] = Zero PROVE \E c \in GuardCalls : Filler(c, x)'
    BY DEF FilledByOne
  <2>1. PICK c \in GuardCalls : Filler(c, x)
    BY DEF IdleIInv, FilledByOne
  <2>2. requests'[c] = requests[c]
    BY <1>4, <2>1 DEF Filler
  <2> QED BY <1>1, <2>1, <2>2, StaysFiller
<1>6. ASSUME NEW x \in SessionIds \ {s} PROVE Unraced(x)'
  <2>1. Unraced(x)
    BY DEF IdleIInv
  <2>2. ASSUME NEW c \in GuardCalls, Of(c, x), KnowsUse(c) PROVE KnowsUse(c)'
    <3>1. requests'[c] = requests[c] /\ requests[c].session = x
      BY <1>4, <2>2 DEF Of
    <3> QED BY <2>2, <3>1 DEF KnowsUse
  <2> QED BY <1>4, <2>1, <2>2 DEF Unraced
<1> QED BY <1>2, <1>3, <1>5, <1>6 DEF IdleIInv

\* Not after is transitive.
LEMMA NotAfterThat ==
  ASSUME NEW t \in Times, NEW u \in Times, NEW v \in Times, NotAfter(t, u), NotAfter(u, v)
  PROVE  NotAfter(t, v)
BY ZeroAssumption DEF NotAfter, Times

\* What is in the state.
LEMMA IdleTypes ==
  ASSUME IdleIInv, NEW s \in SessionIds
  PROVE  /\ clock \in Nat /\ Idle \in Nat /\ Zero \notin Int /\ clock \in Times /\ Zero \in Times
         /\ cache[s] \in Times /\ sessionRows[s] \in Times /\ usedIn[s] \in Times /\ touched[s] \in Times
         /\ TimesPast(s) /\ FilledByOne(s) /\ Unraced(s)
         /\ \A c \in GuardCalls : requests[c] # Zero => requests[c] \in Requests
BY GuardAssumption, ZeroAssumption DEF IdleIInv, IdleTyped, Times

\* What is known at one time of what has been is known later.
LEMMA KnowsLater ==
  ASSUME NEW u \in Times, NEW t \in Times, NEW now \in Nat, NEW later \in Nat, now <= later,
         Knows(u, t, now)
  PROVE  Knows(u, t, later)
BY GuardAssumption, ZeroAssumption DEF Knows, Times

\* A request in another phase is one.
LEMMA PhaseOf ==
  ASSUME NEW r \in Requests, NEW p \in {"load", "fill", "check", "passed", "refused", "flush"}
  PROVE  LET q == [r EXCEPT !.phase = p] IN
         /\ q \in Requests /\ q # Zero
         /\ q.session = r.session /\ q.at = r.at /\ q.last = r.last /\ q.used = r.used /\ q.phase = p
         /\ q.blind = r.blind
BY ZeroAssumption DEF Requests

\* A request proceeds.
LEMMA Proceeding ==
  ASSUME IdleIInv, NEW c \in GuardCalls, requests[c] # Zero,
         NEW p \in {"load", "fill", "check", "passed", "refused", "flush"}, Proceeds(c, p)
  PROVE  /\ requests'[c] # Zero /\ requests'[c].session = requests[c].session
         /\ requests'[c].at = requests[c].at /\ requests'[c].used = requests[c].used
         /\ requests'[c].last = requests[c].last /\ requests'[c].phase = p
         /\ requests'[c].blind = requests[c].blind
         /\ \A d \in GuardCalls \ {c} : requests'[d] = requests[d]
         /\ requests' \in [GuardCalls -> Requests \cup {Zero}]
<1>0. ASSUME NEW f \in Requests
      PROVE  LET h == [f EXCEPT !.phase = p] IN
             /\ h \in Requests /\ h # Zero /\ h.session = f.session /\ h.at = f.at
             /\ h.used = f.used /\ h.last = f.last /\ h.phase = p /\ h.blind = f.blind
  BY PhaseOf
<1> DEFINE n == [requests[c] EXCEPT !.phase = p]
<1>1. requests[c] \in Requests /\ requests \in [GuardCalls -> Requests \cup {Zero}]
  BY DEF IdleIInv, IdleTyped
<1>2. /\ n \in Requests /\ n # Zero /\ n.session = requests[c].session /\ n.at = requests[c].at
      /\ n.used = requests[c].used /\ n.last = requests[c].last /\ n.phase = p
      /\ n.blind = requests[c].blind
  BY <1>0, <1>1
<1>3. requests' = [requests EXCEPT ![c] = n]
  BY DEF Proceeds
<1> HIDE DEF n
<1> QED BY <1>1, <1>2, <1>3

\* CreateSession and what else writes the row.
LEMMA WriteRowKeeps ==
  ASSUME IdleIInv, NEW s \in SessionIds, WriteRow(s)
  PROVE  IdleIInv'
<1>1. /\ clock \in Nat /\ Zero \notin Int /\ clock \in Times
      /\ cache[s] \in Times /\ touched[s] \in Times /\ usedIn[s] \in Times
      /\ TimesPast(s) /\ FilledByOne(s) /\ Unraced(s)
  BY IdleTypes
<1>2. /\ sessionRows'[s] = clock /\ touched'[s] = clock /\ clock' = clock
      /\ cache' = cache /\ cached' = cached /\ requests' = requests /\ usedIn' = usedIn /\ raced' = raced
  BY DEF WriteRow, IdleIInv, IdleTyped
<1>3. IdleTyped'
  BY <1>1, <1>2 DEF WriteRow, IdleIInv, IdleTyped
<1>4. NotAfter(touched[s], touched'[s])
  BY <1>1, <1>2 DEF TimesPast
<1>5. NotAfter(cache[s], clock)
  BY <1>1, NotAfterThat DEF TimesPast
<1>6. TimesPast(s)'
  BY <1>1, <1>2, <1>5 DEF TimesPast, NotAfter
<1>7. FilledByOne(s)'
  BY <1>1, <1>2, <1>4, StaysFiller DEF FilledByOne
<1>8. Unraced(s)'
  <2>1. \A t : Knows(usedIn'[s], sessionRows'[s], t)
    BY <1>1, <1>2 DEF TimesPast, Knows
  <2> QED BY <1>1, <1>2, <2>1 DEF Unraced, Of, KnowsUse
<1>9. \A x \in SessionIds \ {s} : sessionRows'[x] = sessionRows[x] /\ touched'[x] = touched[x]
  BY DEF WriteRow, IdleIInv, IdleTyped
<1> QED BY <1>2, <1>3, <1>4, <1>6, <1>7, <1>8, <1>9, OneSession

\* SessionTimeout finds the session in its cache, or not.
LEMMA ArrivesKeeps ==
  ASSUME IdleIInv, NEW s \in SessionIds, NEW c \in GuardCalls, Arrives(c, s)
  PROVE  IdleIInv'
<1> PICK p \in {"check", "load"} : p = IF s \in cached THEN "check" ELSE "load"
  OBVIOUS
<1> DEFINE q == [session |-> s, at |-> clock, last |-> cache[s], used |-> usedIn[s],
                 blind |-> FALSE, phase |-> p]
<1>1. /\ clock \in Nat /\ Idle \in Nat /\ Zero \notin Int /\ clock \in Times
      /\ cache[s] \in Times /\ touched[s] \in Times /\ usedIn[s] \in Times /\ sessionRows[s] \in Times
      /\ TimesPast(s) /\ FilledByOne(s) /\ Unraced(s)
      /\ \A d \in GuardCalls : requests[d] # Zero => requests[d] \in Requests
  BY IdleTypes
<1>2. /\ clock' = clock /\ cache' = cache /\ cached' = cached /\ sessionRows' = sessionRows
      /\ usedIn' = usedIn /\ touched' = touched /\ requests[c] = Zero
      /\ requests'[c] = q /\ \A d \in GuardCalls \ {c} : requests'[d] = requests[d]
      /\ raced' = IF Under(s) THEN raced \cup {s} ELSE raced
  BY DEF Arrives, IdleIInv, IdleTyped
<1>3. q \in Requests /\ q # Zero
  <2>1. q \in Requests
    BY <1>1 DEF Requests, Times
  <2> HIDE DEF q
  <2> QED BY <2>1, ZeroAssumption
<1>4. IdleTyped'
  BY <1>2, <1>3 DEF Arrives, IdleIInv, IdleTyped
<1>5. NotAfter(touched[s], touched'[s])
  BY <1>1, <1>2 DEF NotAfter, Times
<1>6. TimesPast(s)'
  BY <1>1, <1>2 DEF TimesPast
<1>7. FilledByOne(s)'
  BY <1>1, <1>2, <1>5, StaysFiller DEF FilledByOne, Filler, Of
<1>8. Timely(c)'
  <2>1. ASSUME s \in cached, cache[s] = Zero, sessionRows[s] # Zero PROVE clock - touched[s] <= Idle
    <3>1. PICK d \in GuardCalls : Filler(d, s)
      BY <1>1, <2>1 DEF FilledByOne
    <3>2. requests[d] \in Requests /\ Timely(d) /\ requests[d].session = s
      BY <1>1, <3>1 DEF Filler, Of, IdleIInv
    <3>3. requests[d].at \in Nat /\ requests[d].at <= touched[s] /\ clock - requests[d].at <= Idle
      BY <2>1, <3>1, <3>2 DEF Filler, Of, Fresh, Timely, Requests
    <3>4. touched[s] \in Nat
      BY <1>1, <2>1 DEF TimesPast, NotAfter, Times
    <3> QED BY <1>1, <3>3, <3>4
  <2>2. NotAfter(cache[s], touched[s]) /\ (s \notin cached => cache[s] = Zero)
    BY <1>1 DEF TimesPast, IdleIInv, IdleTyped
  <2> QED BY <1>1, <1>2, <2>1, <2>2 DEF Timely
<1>9. Unraced(s)'
  <2> SUFFICES ASSUME s \notin raced' PROVE Unraced(s)'
    BY DEF Unraced
  <2>1. ~ Under(s) /\ s \notin raced
    BY <1>2
  <2>2. \A d \in GuardCalls : ~ Of(d, s)
    BY <2>1 DEF Under, Of
  <2>3. \A d \in GuardCalls : Of(d, s)' => d = c
    BY <1>2, <2>2 DEF Of
  <2>4. /\ cache[s] # Zero => Knows(usedIn[s], cache[s], clock)
        /\ cache[s] = Zero /\ sessionRows[s] # Zero => Knows(usedIn[s], sessionRows[s], clock)
        /\ s \notin cached => cache[s] = Zero
    BY <1>1, <2>1, <2>2 DEF Unraced, IdleIInv, IdleTyped
  <2>5. KnowsUse(c)'
    BY <1>1, <1>2, <2>4 DEF KnowsUse, TimesPast
  <2> QED BY <1>2, <2>3, <2>4, <2>5 DEF Unraced
<1>10. \A x \in SessionIds \ {s} : x \in raced' <=> x \in raced
  BY <1>2
<1> QED BY <1>2, <1>4, <1>5, <1>6, <1>7, <1>8, <1>9, <1>10, OneSession

\* GetSessionLastSeen.
LEMMA LoadKeeps ==
  ASSUME IdleIInv, NEW c \in GuardCalls, LoadLastSeen(c)
  PROVE  IdleIInv'
<1> DEFINE r == requests[c]
           q == requests'[c]
<1> PICK s \in SessionIds : s = requests[c].session
  BY DEF LoadLastSeen, FillCache, AtPhase, IdleIInv, IdleTyped, Requests
<1>1. r # Zero /\ r.phase = "load" /\ r \in Requests /\ r.session = s
  BY DEF LoadLastSeen, AtPhase, IdleIInv, IdleTyped, Requests
<1>2. /\ clock \in Nat /\ Idle \in Nat /\ Zero \notin Int /\ clock \in Times
      /\ cache[s] \in Times /\ touched[s] \in Times /\ usedIn[s] \in Times /\ sessionRows[s] \in Times
      /\ TimesPast(s) /\ FilledByOne(s) /\ Unraced(s) /\ Timely(c)
  BY <1>1, IdleTypes DEF IdleIInv
<1>3. /\ clock' = clock /\ cache' = cache /\ cached' = cached /\ sessionRows' = sessionRows
      /\ usedIn' = usedIn /\ touched' = touched /\ raced' = raced
      /\ \A d \in GuardCalls \ {c} : requests'[d] = requests[d]
      /\ requests' \in [GuardCalls -> Requests \cup {Zero}]
      /\ q # Zero /\ q.session = s /\ q.at = r.at /\ q.used = r.used
      /\ q.last = sessionRows[s] /\ q.phase = "fill" /\ q.blind = r.blind
  <2>1. \A f \in Requests : LET g == [f EXCEPT !.last = sessionRows[s]] IN
          /\ g \in Requests /\ g.session = f.session /\ g.at = f.at /\ g.used = f.used
          /\ g.last = sessionRows[s] /\ g.blind = f.blind
    BY <1>2 DEF Requests, Times
  <2> DEFINE m == [r EXCEPT !.last = sessionRows[s]]
             n == [m EXCEPT !.phase = "fill"]
  <2>2. /\ m \in Requests /\ m.session = s /\ m.at = r.at /\ m.used = r.used
        /\ m.last = sessionRows[s] /\ m.blind = r.blind
    BY <1>1, <2>1
  <2>3. /\ n \in Requests /\ n # Zero /\ n.session = s /\ n.at = r.at /\ n.used = r.used
        /\ n.last = sessionRows[s] /\ n.phase = "fill" /\ n.blind = r.blind
    BY <2>2, PhaseOf
  <2>4. requests' = [requests EXCEPT ![c] = n]
    BY <1>1 DEF LoadLastSeen, IdleIInv, IdleTyped
  <2>5. requests \in [GuardCalls -> Requests \cup {Zero}]
    BY DEF IdleIInv, IdleTyped
  <2> HIDE DEF m, n
  <2>6. /\ q = n /\ \A d \in GuardCalls \ {c} : requests'[d] = requests[d]
        /\ requests' \in [GuardCalls -> Requests \cup {Zero}]
    BY <2>3, <2>4, <2>5
  <2> QED BY <2>3, <2>6 DEF LoadLastSeen
<1> HIDE DEF q
<1>4. IdleTyped'
  BY <1>3 DEF IdleIInv, IdleTyped
<1>5. NotAfter(touched[s], touched'[s])
  BY <1>2, <1>3 DEF NotAfter, Times
<1>6. TimesPast(s)'
  BY <1>2, <1>3 DEF TimesPast
<1>7. FilledByOne(s)'
  BY <1>1, <1>2, <1>3, <1>5, StaysFiller DEF FilledByOne, Filler
<1>8. Timely(c)'
  BY <1>1, <1>2, <1>3 DEF Timely, TimesPast, Fresh, q
<1>9. Unraced(s)'
  <2> SUFFICES ASSUME s \notin raced PROVE Unraced(s)'
    BY <1>3 DEF Unraced
  <2>1. Of(c, s) /\ \A d \in GuardCalls : Of(d, s) => d = c
    BY <1>1, <1>2 DEF Unraced, Of
  <2>2. \A d \in GuardCalls : Of(d, s)' => d = c
    BY <1>3, <2>1 DEF Of
  <2>3. /\ cache[s] # Zero => Knows(usedIn[s], cache[s], clock)
        /\ cache[s] = Zero /\ sessionRows[s] # Zero => Knows(usedIn[s], sessionRows[s], clock)
        /\ KnowsUse(c)
    BY <1>1, <1>2, <2>1 DEF Unraced
  <2>4. KnowsUse(c)'
    BY <1>1, <1>2, <1>3, <2>3 DEF KnowsUse, q
  <2> QED BY <1>3, <2>2, <2>3, <2>4 DEF Unraced
<1>10. \A d \in GuardCalls : requests'[d] = requests[d] \/
          (requests[d].session = s /\ requests'[d].session = s /\ Timely(d)')
  BY <1>1, <1>3, <1>8 DEF q
<1> QED BY <1>1, <1>3, <1>4, <1>5, <1>6, <1>7, <1>9, <1>10, OneSession

\* It fails.
LEMMA LoadFailsKeeps ==
  ASSUME IdleIInv, NEW c \in GuardCalls, LoadFails(c)
  PROVE  IdleIInv'
<1> DEFINE r == requests[c]
           q == requests'[c]
<1> PICK s \in SessionIds : s = requests[c].session
  BY DEF LoadFails, AtPhase, IdleIInv, IdleTyped, Requests
<1>1. r # Zero /\ r.phase = "load" /\ r \in Requests /\ r.session = s
  BY DEF LoadFails, AtPhase, IdleIInv, IdleTyped, Requests
<1>2. /\ clock \in Nat /\ Idle \in Nat /\ Zero \notin Int /\ clock \in Times
      /\ cache[s] \in Times /\ touched[s] \in Times /\ usedIn[s] \in Times /\ sessionRows[s] \in Times
      /\ TimesPast(s) /\ FilledByOne(s) /\ Unraced(s) /\ Timely(c)
  BY <1>1, IdleTypes DEF IdleIInv
<1>3. /\ clock' = clock /\ cache' = cache /\ cached' = cached /\ sessionRows' = sessionRows
      /\ usedIn' = usedIn /\ touched' = touched /\ raced' = raced
      /\ \A d \in GuardCalls \ {c} : requests'[d] = requests[d]
      /\ requests' \in [GuardCalls -> Requests \cup {Zero}]
      /\ q # Zero /\ q.session = s /\ q.at = r.at /\ q.used = r.used
      /\ q.last = Zero /\ q.phase = "check" /\ q.blind = TRUE
  <2>1. \A f \in Requests : LET g == [f EXCEPT !.blind = TRUE] IN
          /\ g \in Requests /\ g.session = f.session /\ g.at = f.at /\ g.used = f.used
          /\ g.last = f.last /\ g.blind = TRUE
    BY DEF Requests
  <2> DEFINE m == [r EXCEPT !.blind = TRUE]
             n == [m EXCEPT !.phase = "check"]
  <2>2. /\ m \in Requests /\ m.session = s /\ m.at = r.at /\ m.used = r.used
        /\ m.last = Zero /\ m.blind = TRUE
    BY <1>1, <1>2, <2>1 DEF Timely
  <2>3. /\ n \in Requests /\ n # Zero /\ n.session = s /\ n.at = r.at /\ n.used = r.used
        /\ n.last = Zero /\ n.phase = "check" /\ n.blind = TRUE
    BY <2>2, PhaseOf
  <2>4. requests' = [requests EXCEPT ![c] = n]
    BY <1>1 DEF LoadFails, IdleIInv, IdleTyped
  <2>5. requests \in [GuardCalls -> Requests \cup {Zero}]
    BY DEF IdleIInv, IdleTyped
  <2> HIDE DEF m, n
  <2>6. /\ q = n /\ \A d \in GuardCalls \ {c} : requests'[d] = requests[d]
        /\ requests' \in [GuardCalls -> Requests \cup {Zero}]
    BY <2>3, <2>4, <2>5
  <2> QED BY <2>3, <2>6 DEF LoadFails
<1> HIDE DEF q
<1>4. IdleTyped'
  BY <1>3 DEF IdleIInv, IdleTyped
<1>5. NotAfter(touched[s], touched'[s])
  BY <1>2, <1>3 DEF NotAfter, Times
<1>6. TimesPast(s)'
  BY <1>2, <1>3 DEF TimesPast
<1>7. FilledByOne(s)'
  BY <1>1, <1>2, <1>3, <1>5, StaysFiller DEF FilledByOne, Filler
<1>8. Timely(c)'
  BY <1>1, <1>2, <1>3 DEF Timely, NotAfter, q
<1>9. Unraced(s)'
  <2> SUFFICES ASSUME s \notin raced PROVE Unraced(s)'
    BY <1>3 DEF Unraced
  <2>1. Of(c, s) /\ \A d \in GuardCalls : Of(d, s) => d = c
    BY <1>1, <1>2 DEF Unraced, Of
  <2>2. \A d \in GuardCalls : Of(d, s)' => d = c
    BY <1>3, <2>1 DEF Of
  <2>3. /\ cache[s] # Zero => Knows(usedIn[s], cache[s], clock)
        /\ cache[s] = Zero /\ sessionRows[s] # Zero => Knows(usedIn[s], sessionRows[s], clock)
        /\ KnowsUse(c)
    BY <1>1, <1>2, <2>1 DEF Unraced
  <2>4. KnowsUse(c)'
    BY <1>1, <1>2, <1>3, <2>3 DEF KnowsUse, q
  <2> QED BY <1>3, <2>2, <2>3, <2>4 DEF Unraced
<1>10. \A d \in GuardCalls : requests'[d] = requests[d] \/
          (requests[d].session = s /\ requests'[d].session = s /\ Timely(d)')
  BY <1>1, <1>3, <1>8 DEF q
<1> QED BY <1>1, <1>3, <1>4, <1>5, <1>6, <1>7, <1>9, <1>10, OneSession

\* What was loaded is cached.
LEMMA FillCacheKeeps ==
  ASSUME IdleIInv, NEW c \in GuardCalls, FillCache(c)
  PROVE  IdleIInv'
<1> DEFINE r == requests[c]
           q == requests'[c]
<1> PICK s \in SessionIds : s = requests[c].session
  BY DEF LoadLastSeen, FillCache, AtPhase, IdleIInv, IdleTyped, Requests
<1>1. r # Zero /\ r.phase = "fill" /\ r \in Requests /\ r.session = s
  BY DEF FillCache, AtPhase, IdleIInv, IdleTyped, Requests
<1>2. /\ clock \in Nat /\ Idle \in Nat /\ Zero \notin Int /\ clock \in Times
      /\ touched[s] \in Times /\ usedIn[s] \in Times /\ sessionRows[s] \in Times
      /\ TimesPast(s) /\ Unraced(s) /\ Timely(c)
  BY <1>1, IdleTypes DEF IdleIInv
<1>3. Proceeds(c, "check")
  BY DEF FillCache
<1>4. /\ q # Zero /\ q.session = s /\ q.at = r.at /\ q.used = r.used
      /\ q.last = r.last /\ q.phase = "check" /\ q.blind = r.blind
      /\ \A d \in GuardCalls \ {c} : requests'[d] = requests[d]
      /\ requests' \in [GuardCalls -> Requests \cup {Zero}]
  BY <1>1, <1>3, Proceeding
<1>5. /\ clock' = clock /\ sessionRows' = sessionRows
      /\ usedIn' = usedIn /\ touched' = touched /\ raced' = raced
      /\ cache'[s] = r.last /\ s \in cached'
      /\ \A x \in SessionIds \ {s} : cache'[x] = cache[x] /\ (x \in cached' <=> x \in cached)
  BY <1>1 DEF FillCache, Remember, IdleIInv, IdleTyped
<1> HIDE DEF q
<1>6. IdleTyped'
  <2>1. r.last \in Times
    BY <1>1 DEF Requests, Times
  <2> QED BY <1>1, <1>4, <1>5, <2>1 DEF FillCache, Remember, IdleIInv, IdleTyped
<1>7. NotAfter(touched[s], touched'[s])
  BY <1>2, <1>5 DEF NotAfter, Times
<1>8. TimesPast(s)'
  BY <1>1, <1>2, <1>5 DEF TimesPast, Timely
<1>9. Timely(c)'
  BY <1>1, <1>2, <1>4, <1>5 DEF Timely, q
<1>10. FilledByOne(s)'
  <2> SUFFICES ASSUME r.last = Zero PROVE Filler(c, s)'
    BY <1>5 DEF FilledByOne
  <2>1. Fresh(c)
    BY <1>1, <1>2 DEF Timely
  <2> QED BY <1>4, <1>5, <2>1 DEF Filler, Of, Fresh, q
<1>11. Unraced(s)'
  <2> SUFFICES ASSUME s \notin raced PROVE Unraced(s)'
    BY <1>5 DEF Unraced
  <2>1. Of(c, s) /\ \A d \in GuardCalls : Of(d, s) => d = c
    BY <1>1, <1>2 DEF Unraced, Of
  <2>2. \A d \in GuardCalls : Of(d, s)' => d = c
    BY <1>4, <2>1 DEF Of
  <2>3. /\ KnowsUse(c) /\ cache[s] = Zero
        /\ sessionRows[s] # Zero => Knows(usedIn[s], sessionRows[s], clock)
    <3>1. KnowsUse(c) /\ cache[s] = Zero
      BY <1>1, <1>2, <2>1 DEF Unraced, KnowsUse
    <3> QED BY <1>2, <3>1 DEF Unraced
  <2>4. KnowsUse(c)' /\ (r.last # Zero => Knows(usedIn[s], r.last, clock))
    <3>1. r.last # Zero => Knows(usedIn[s], r.last, r.at)
      BY <1>1, <2>3 DEF KnowsUse
    <3>2. r.at \in Nat /\ r.at <= clock /\ r.last \in Times
      BY <1>1, <1>2 DEF Timely, Requests, Times
    <3>3. r.last # Zero => Knows(usedIn[s], r.last, clock)
      BY <1>2, <3>1, <3>2, KnowsLater
    <3> QED BY <1>1, <1>2, <1>4, <1>5, <2>3, <3>3 DEF KnowsUse, q
  <2> QED BY <1>4, <1>5, <2>2, <2>3, <2>4 DEF Unraced
<1>12. \A d \in GuardCalls : requests'[d] = requests[d] \/
          (requests[d].session = s /\ requests'[d].session = s /\ Timely(d)')
  BY <1>1, <1>4, <1>9 DEF q
<1> QED BY <1>1, <1>5, <1>6, <1>7, <1>8, <1>10, <1>11, <1>12, OneSession

\* The request is to be refused, or to be let through.
LEMMA CheckIdleKeeps ==
  ASSUME IdleIInv, NEW c \in GuardCalls, CheckIdle(c)
  PROVE  IdleIInv'
<1> DEFINE r == requests[c]
           q == requests'[c]
           p == IF r.last # Zero /\ r.at - r.last > Idle THEN "refused" ELSE "passed"
<1> PICK s \in SessionIds : s = requests[c].session
  BY DEF CheckIdle, AtPhase, IdleIInv, IdleTyped, Requests
<1>1. r # Zero /\ r.phase = "check" /\ r \in Requests /\ r.session = s
  BY DEF CheckIdle, AtPhase, IdleIInv, IdleTyped
<1>2. /\ clock \in Nat /\ Idle \in Nat /\ Zero \notin Int /\ clock \in Times
      /\ touched[s] \in Times /\ usedIn[s] \in Times /\ sessionRows[s] \in Times
      /\ TimesPast(s) /\ FilledByOne(s) /\ Unraced(s) /\ Timely(c)
  BY <1>1, IdleTypes DEF IdleIInv
<1>3. Proceeds(c, p) /\ p \in {"refused", "passed"}
  BY DEF CheckIdle
<1>4. /\ q # Zero /\ q.session = s /\ q.at = r.at /\ q.used = r.used
      /\ q.last = r.last /\ q.phase = p /\ q.blind = r.blind
      /\ \A d \in GuardCalls \ {c} : requests'[d] = requests[d]
      /\ requests' \in [GuardCalls -> Requests \cup {Zero}]
  BY <1>1, <1>3, Proceeding
<1>5. /\ clock' = clock /\ sessionRows' = sessionRows /\ cache' = cache /\ cached' = cached
      /\ usedIn' = usedIn /\ touched' = touched /\ raced' = raced
  BY DEF CheckIdle
<1>6. IdleTyped'
  BY <1>4, <1>5 DEF IdleIInv, IdleTyped
<1> HIDE DEF q
<1>7. NotAfter(touched[s], touched'[s])
  BY <1>2, <1>5 DEF NotAfter, Times
<1>8. TimesPast(s)'
  BY <1>2, <1>5 DEF TimesPast
<1>9. Timely(c)'
  <2>1. r.at \in Nat /\ r.last \in Nat \cup {Zero} /\ (r.last # Zero /\ p = "passed" => r.at - r.last <= Idle)
    BY <1>1, <1>2 DEF Requests
  <2> QED BY <1>1, <1>2, <1>3, <1>4, <1>5, <2>1 DEF Timely, q
<1>10. FilledByOne(s)'
  <2> SUFFICES ASSUME s \in cached, cache[s] = Zero PROVE (\E d \in GuardCalls : Filler(d, s))'
    BY <1>5 DEF FilledByOne
  <2>1. PICK d \in GuardCalls : Filler(d, s)
    BY <1>2 DEF FilledByOne
  <2>2. CASE d = c
    <3>1. r.last = Zero /\ Fresh(c)
      BY <2>1, <2>2 DEF Filler
    <3>2. Filler(c, s)'
      BY <1>1, <1>4, <1>5, <3>1 DEF Filler, Of, Fresh, q
    <3> QED BY <3>2
  <2>3. CASE d # c
    BY <1>2, <1>4, <1>5, <1>7, <2>1, <2>3, StaysFiller
  <2> QED BY <2>2, <2>3
<1>11. Unraced(s)'
  <2> SUFFICES ASSUME s \notin raced PROVE Unraced(s)'
    BY <1>5 DEF Unraced
  <2>1. Of(c, s) /\ \A d \in GuardCalls : Of(d, s) => d = c
    BY <1>1, <1>2 DEF Unraced, Of
  <2>2. \A d \in GuardCalls : Of(d, s)' => d = c
    BY <1>4, <2>1 DEF Of
  <2>3. /\ cache[s] # Zero => Knows(usedIn[s], cache[s], clock)
        /\ cache[s] = Zero /\ sessionRows[s] # Zero => Knows(usedIn[s], sessionRows[s], clock)
        /\ KnowsUse(c)
    BY <1>1, <1>2, <2>1 DEF Unraced
  <2>4. KnowsUse(c)'
    BY <1>1, <1>2, <1>3, <1>4, <1>5, <2>3 DEF KnowsUse, q
  <2> QED BY <1>4, <1>5, <2>2, <2>3, <2>4 DEF Unraced
<1>12. \A d \in GuardCalls : requests'[d] = requests[d] \/
          (requests[d].session = s /\ requests'[d].session = s /\ Timely(d)')
  BY <1>1, <1>4, <1>9 DEF q
<1> QED BY <1>1, <1>5, <1>6, <1>7, <1>8, <1>10, <1>11, <1>12, OneSession

\* The session is over.
LEMMA RefuseKeeps ==
  ASSUME IdleIInv, NEW c \in GuardCalls, Refuse(c)
  PROVE  IdleIInv'
<1> DEFINE r == requests[c]
<1> PICK s \in SessionIds : s = requests[c].session
  BY DEF Refuse, AtPhase, IdleIInv, IdleTyped, Requests
<1>1. r # Zero /\ r.phase = "refused" /\ r \in Requests /\ r.session = s
  BY DEF Refuse, AtPhase, IdleIInv, IdleTyped
<1>2. /\ clock \in Nat /\ Zero \notin Int
      /\ touched[s] \in Times /\ usedIn[s] \in Times /\ sessionRows[s] \in Times
      /\ TimesPast(s) /\ FilledByOne(s) /\ Unraced(s)
  BY <1>1, IdleTypes DEF IdleIInv
<1>3. /\ clock' = clock /\ sessionRows' = sessionRows /\ cache' = cache /\ cached' = cached
      /\ usedIn' = usedIn /\ touched' = touched /\ raced' = raced
      /\ requests'[c] = Zero /\ \A d \in GuardCalls \ {c} : requests'[d] = requests[d]
  BY DEF Refuse, IdleIInv, IdleTyped
<1>4. IdleTyped'
  BY <1>3 DEF Refuse, IdleIInv, IdleTyped
<1>5. NotAfter(touched[s], touched'[s])
  BY <1>2, <1>3 DEF NotAfter, Times
<1>6. TimesPast(s)'
  BY <1>2, <1>3 DEF TimesPast
<1>7. FilledByOne(s)'
  BY <1>1, <1>2, <1>3, <1>5, StaysFiller DEF FilledByOne, Filler
<1>8. Unraced(s)'
  <2> SUFFICES ASSUME s \notin raced PROVE Unraced(s)'
    BY <1>3 DEF Unraced
  <2>1. Of(c, s) /\ \A d \in GuardCalls : Of(d, s) => d = c
    BY <1>1, <1>2 DEF Unraced, Of
  <2>2. \A d \in GuardCalls : ~ Of(d, s)'
    BY <1>3, <2>1 DEF Of
  <2>3. /\ cache[s] # Zero => Knows(usedIn[s], cache[s], clock)
        /\ cache[s] = Zero /\ sessionRows[s] # Zero => Knows(usedIn[s], sessionRows[s], clock)
    BY <1>1, <1>2, <2>1 DEF Unraced
  <2> QED BY <1>3, <2>2, <2>3 DEF Unraced
<1>9. \A d \in GuardCalls : requests'[d] = requests[d] \/
          (requests[d].session = s /\ requests'[d] = Zero /\ Timely(d)')
  BY <1>1, <1>3 DEF Timely
<1> QED BY <1>1, <1>3, <1>4, <1>5, <1>6, <1>7, <1>8, <1>9, OneSession

\* The request is let through.
LEMMA PassOnKeeps ==
  ASSUME IdleIInv, NEW c \in GuardCalls, PassOn(c)
  PROVE  IdleIInv'
<1> DEFINE r == requests[c]
           q == requests'[c]
<1> PICK s \in SessionIds : s = requests[c].session
  BY DEF PassOn, AtPhase, IdleIInv, IdleTyped, Requests
<1>1. /\ r # Zero /\ r.phase = "passed" /\ r \in Requests /\ r.session = s /\ r.at \in Nat
      /\ r.at \in Times
  BY DEF PassOn, AtPhase, IdleIInv, IdleTyped, Requests, Times
<1>2. /\ clock \in Nat /\ Zero \notin Int /\ clock \in Times
      /\ touched[s] \in Times /\ usedIn[s] \in Times /\ sessionRows[s] \in Times
      /\ TimesPast(s) /\ Unraced(s) /\ Timely(c)
  BY <1>1, IdleTypes DEF IdleIInv
<1>3. Proceeds(c, "flush")
  BY DEF PassOn
<1>4. /\ q # Zero /\ q.session = s /\ q.at = r.at /\ q.phase = "flush"
      /\ \A d \in GuardCalls \ {c} : requests'[d] = requests[d]
      /\ requests' \in [GuardCalls -> Requests \cup {Zero}]
  BY <1>1, <1>3, Proceeding
<1>5. /\ clock' = clock /\ sessionRows' = sessionRows /\ raced' = raced
      /\ cache' = [cache EXCEPT ![s] = r.at] /\ cached' = cached \cup {s}
      /\ usedIn' = [usedIn EXCEPT ![s] = Later(usedIn[s], r.at)]
      /\ touched' = [touched EXCEPT ![s] = Later(touched[s], r.at)]
  BY DEF PassOn, Remember
<1> HIDE DEF q
<1>6. \A t \in Times : Later(t, r.at) \in Times
  BY <1>1 DEF Later
<1>7. IdleTyped'
  BY <1>1, <1>2, <1>4, <1>5, <1>6 DEF IdleIInv, IdleTyped
<1>8. /\ cache'[s] = r.at /\ usedIn'[s] = Later(usedIn[s], r.at) /\ touched'[s] = Later(touched[s], r.at)
      /\ \A x \in SessionIds \ {s} : /\ cache'[x] = cache[x] /\ usedIn'[x] = usedIn[x]
                                     /\ touched'[x] = touched[x] /\ (x \in cached' <=> x \in cached)
  BY <1>5 DEF IdleIInv, IdleTyped
<1>9. r.at <= clock
  BY <1>1, <1>2 DEF Timely
<1>10. \A t \in Times : NotAfter(t, clock) =>
         NotAfter(t, Later(t, r.at)) /\ NotAfter(r.at, Later(t, r.at)) /\ NotAfter(Later(t, r.at), clock)
  BY <1>1, <1>2, <1>9 DEF NotAfter, Later, Times
<1>11. NotAfter(touched[s], touched'[s])
  BY <1>2, <1>8, <1>10 DEF TimesPast
<1>12. TimesPast(s)'
  <2>1. NotAfter(sessionRows[s], touched'[s])
    <3>1. NotAfter(sessionRows[s], touched[s]) /\ touched'[s] \in Times
      BY <1>2, <1>6, <1>8 DEF TimesPast
    <3> QED BY <1>2, <1>11, <3>1, NotAfterThat
  <2> QED BY <1>2, <1>5, <1>8, <1>10, <2>1 DEF TimesPast
<1>13. Timely(c)'
  BY <1>1, <1>4, <1>5, <1>9 DEF Timely, q
<1>14. FilledByOne(s)'
  BY <1>1, <1>2, <1>8 DEF FilledByOne
<1>15. Unraced(s)'
  <2> SUFFICES ASSUME s \notin raced PROVE Unraced(s)'
    BY <1>5 DEF Unraced
  <2>1. Of(c, s) /\ \A d \in GuardCalls : Of(d, s) => d = c
    BY <1>1, <1>2 DEF Unraced, Of
  <2>2. (\A d \in GuardCalls : Of(d, s)' => d = c) /\ Of(c, s)'
    BY <1>4, <2>1 DEF Of, q
  <2>3. KnowsUse(c)
    BY <1>2, <2>1 DEF Unraced
  <2>4. NotAfter(usedIn[s], r.at)
    BY <1>1, <2>3 DEF KnowsUse
  <2>5. cache'[s] # Zero /\ \A t : Knows(usedIn'[s], cache'[s], t)
    BY <1>1, <1>2, <1>8, <2>4 DEF NotAfter, Knows, Later, Times
  <2>6. KnowsUse(c)'
    BY <1>4 DEF KnowsUse, q
  <2> QED BY <1>4, <2>2, <2>5, <2>6 DEF Unraced, q
<1>16. \A d \in GuardCalls : requests'[d] = requests[d] \/
          (requests[d].session = s /\ requests'[d].session = s /\ Timely(d)')
  BY <1>1, <1>4, <1>13 DEF q
<1> QED BY <1>1, <1>5, <1>7, <1>8, <1>11, <1>12, <1>14, <1>15, <1>16, OneSession

\* The goroutine writes the row.
LEMMA FlushLastSeenKeeps ==
  ASSUME IdleIInv, NEW c \in GuardCalls, FlushLastSeen(c)
  PROVE  IdleIInv'
<1> DEFINE r == requests[c]
<1> PICK s \in SessionIds : s = requests[c].session
  BY DEF FlushLastSeen, AtPhase, IdleIInv, IdleTyped, Requests
<1>1. r # Zero /\ r.phase = "flush" /\ r \in Requests /\ r.session = s
  BY DEF FlushLastSeen, AtPhase, IdleIInv, IdleTyped
<1>2. /\ clock \in Nat /\ Zero \notin Int /\ clock \in Times /\ cache[s] \in Times
      /\ touched[s] \in Times /\ usedIn[s] \in Times /\ sessionRows[s] \in Times
      /\ TimesPast(s) /\ FilledByOne(s) /\ Unraced(s)
  BY <1>1, IdleTypes DEF IdleIInv
<1>3. /\ clock' = clock /\ cache' = cache /\ cached' = cached /\ usedIn' = usedIn /\ raced' = raced
      /\ sessionRows' = IF sessionRows[s] = Zero THEN sessionRows ELSE [sessionRows EXCEPT ![s] = clock]
      /\ touched' = [touched EXCEPT ![s] = clock]
      /\ requests' = [requests EXCEPT ![c] = Zero]
  BY DEF FlushLastSeen
<1>4. /\ requests'[c] = Zero /\ \A d \in GuardCalls \ {c} : requests'[d] = requests[d]
      /\ touched'[s] = clock /\ sessionRows'[s] = IF sessionRows[s] = Zero THEN Zero ELSE clock
      /\ \A x \in SessionIds \ {s} : sessionRows'[x] = sessionRows[x] /\ touched'[x] = touched[x]
  BY <1>3 DEF IdleIInv, IdleTyped
<1>5. IdleTyped'
  BY <1>2, <1>3 DEF IdleIInv, IdleTyped
<1>6. NotAfter(touched[s], touched'[s])
  BY <1>2, <1>4 DEF TimesPast
<1>7. NotAfter(cache[s], clock) /\ NotAfter(clock, clock)
  <2>1. NotAfter(cache[s], touched[s]) /\ NotAfter(touched[s], clock)
    BY <1>2 DEF TimesPast
  <2>2. NotAfter(cache[s], clock)
    BY <1>2, <2>1, NotAfterThat
  <2> QED BY <1>2, <2>2 DEF NotAfter
<1>8. TimesPast(s)'
  BY <1>2, <1>3, <1>4, <1>7 DEF TimesPast, NotAfter
<1>9. FilledByOne(s)'
  BY <1>1, <1>2, <1>3, <1>4, <1>6, StaysFiller DEF FilledByOne, Filler
<1>10. Unraced(s)'
  <2> SUFFICES ASSUME s \notin raced PROVE Unraced(s)'
    BY <1>3 DEF Unraced
  <2>1. Of(c, s) /\ \A d \in GuardCalls : Of(d, s) => d = c
    BY <1>1, <1>2 DEF Unraced, Of
  <2>2. \A d \in GuardCalls : ~ Of(d, s)'
    BY <1>4, <2>1 DEF Of
  <2>3. /\ cache[s] # Zero => Knows(usedIn[s], cache[s], clock)
        /\ sessionRows'[s] # Zero => Knows(usedIn[s], sessionRows'[s], clock)
    BY <1>2, <1>4 DEF Unraced, TimesPast, Knows
  <2> QED BY <1>3, <2>2, <2>3 DEF Unraced
<1>11. \A d \in GuardCalls : requests'[d] = requests[d] \/
          (requests[d].session = s /\ requests'[d] = Zero /\ Timely(d)')
  BY <1>1, <1>4 DEF Timely
<1> QED BY <1>1, <1>2, <1>3, <1>4, <1>5, <1>6, <1>8, <1>9, <1>10, <1>11, OneSession

\* It does not, and the request is over as well.
LEMMA FlushFailsKeeps ==
  ASSUME IdleIInv, NEW c \in GuardCalls, FlushFails(c)
  PROVE  IdleIInv'
<1> DEFINE r == requests[c]
<1> PICK s \in SessionIds : s = requests[c].session
  BY DEF FlushFails, AtPhase, IdleIInv, IdleTyped, Requests
<1>1. r # Zero /\ r.phase = "flush" /\ r \in Requests /\ r.session = s
  BY DEF FlushFails, AtPhase, IdleIInv, IdleTyped
<1>2. /\ clock \in Nat /\ Zero \notin Int
      /\ touched[s] \in Times /\ usedIn[s] \in Times /\ sessionRows[s] \in Times
      /\ TimesPast(s) /\ FilledByOne(s) /\ Unraced(s)
  BY <1>1, IdleTypes DEF IdleIInv
<1>3. /\ clock' = clock /\ sessionRows' = sessionRows /\ cache' = cache /\ cached' = cached
      /\ usedIn' = usedIn /\ touched' = touched /\ raced' = raced
      /\ requests'[c] = Zero /\ \A d \in GuardCalls \ {c} : requests'[d] = requests[d]
  BY DEF FlushFails, IdleIInv, IdleTyped
<1>4. IdleTyped'
  BY <1>3 DEF FlushFails, IdleIInv, IdleTyped
<1>5. NotAfter(touched[s], touched'[s])
  BY <1>2, <1>3 DEF NotAfter, Times
<1>6. TimesPast(s)'
  BY <1>2, <1>3 DEF TimesPast
<1>7. FilledByOne(s)'
  BY <1>1, <1>2, <1>3, <1>5, StaysFiller DEF FilledByOne, Filler
<1>8. Unraced(s)'
  <2> SUFFICES ASSUME s \notin raced PROVE Unraced(s)'
    BY <1>3 DEF Unraced
  <2>1. Of(c, s) /\ \A d \in GuardCalls : Of(d, s) => d = c
    BY <1>1, <1>2 DEF Unraced, Of
  <2>2. \A d \in GuardCalls : ~ Of(d, s)'
    BY <1>3, <2>1 DEF Of
  <2>3. /\ cache[s] # Zero => Knows(usedIn[s], cache[s], clock)
        /\ cache[s] = Zero /\ sessionRows[s] # Zero => Knows(usedIn[s], sessionRows[s], clock)
    BY <1>1, <1>2, <2>1 DEF Unraced
  <2> QED BY <1>3, <2>2, <2>3 DEF Unraced
<1>9. \A d \in GuardCalls : requests'[d] = requests[d] \/
          (requests[d].session = s /\ requests'[d] = Zero /\ Timely(d)')
  BY <1>1, <1>3 DEF Timely
<1> QED BY <1>1, <1>3, <1>4, <1>5, <1>6, <1>7, <1>8, <1>9, OneSession

\* The ticker takes what is over off the cache, and what has no time.
LEMMA FlushCacheKeeps == IdleIInv /\ FlushCache => IdleIInv'
<1> SUFFICES ASSUME IdleIInv, FlushCache PROVE IdleIInv'
  OBVIOUS
<1> DEFINE over == {s \in cached : cache[s] # Zero => clock - cache[s] > Idle}
<1>1. /\ clock' = clock /\ sessionRows' = sessionRows /\ requests' = requests
      /\ usedIn' = usedIn /\ touched' = touched /\ raced' = raced
      /\ cached' = cached \ over /\ cache' = [s \in SessionIds |-> IF s \in over THEN Zero ELSE cache[s]]
  BY DEF FlushCache
<1>2. IdleTyped'
  BY <1>1 DEF IdleIInv, IdleTyped, Times
<1>3. \A c \in GuardCalls : Timely(c)'
  BY <1>1 DEF IdleIInv, Timely, Fresh
<1>4. ASSUME NEW s \in SessionIds PROVE TimesPast(s)' /\ FilledByOne(s)' /\ Unraced(s)'
  <2>1. TimesPast(s) /\ Unraced(s) /\ cache'[s] = IF s \in over THEN Zero ELSE cache[s]
    BY <1>1 DEF IdleIInv
  <2>2. TimesPast(s)'
    BY <1>1, <2>1 DEF TimesPast, NotAfter
  <2>3. FilledByOne(s)'
    BY <1>1, <2>1 DEF FilledByOne
  <2>4. s \in over /\ cache[s] # Zero /\ Knows(usedIn[s], cache[s], clock) =>
          \A t : Knows(usedIn[s], t, clock)
    <3>1. /\ clock \in Nat /\ Idle \in Nat /\ Zero \notin Int /\ usedIn[s] \in Times /\ cache[s] \in Times
      BY IdleTypes
    <3> QED BY <3>1 DEF Knows, NotAfter, Times
  <2>5. Unraced(s)'
    BY <1>1, <2>1, <2>4 DEF Unraced, Of, KnowsUse
  <2> QED BY <2>2, <2>3, <2>5
<1> QED BY <1>2, <1>3, <1>4 DEF IdleIInv

\* Time passes: whoever is not refused or let through yet came within the idle time.
LEMMA IdleTickKeeps == IdleIInv /\ GuardTick => IdleIInv'
<1> SUFFICES ASSUME IdleIInv, GuardTick PROVE IdleIInv'
  OBVIOUS
<1>1. /\ clock' = clock + 1 /\ clock < LastTick /\ sessionRows' = sessionRows /\ requests' = requests
      /\ usedIn' = usedIn /\ touched' = touched /\ raced' = raced
      /\ cached' = cached /\ cache' = cache
  BY DEF GuardTick, idleVars
<1>2. clock \in Nat /\ Idle \in Nat /\ Zero \notin Int /\ LastTick \in Nat
  BY GuardAssumption, ZeroAssumption DEF IdleIInv, IdleTyped
<1>3. IdleTyped'
  BY <1>1, <1>2 DEF IdleIInv, IdleTyped
<1>4. ASSUME NEW c \in GuardCalls PROVE Timely(c)'
  <2>1. Timely(c) /\ (requests[c] # Zero => requests[c] \in Requests /\ requests[c].at \in Nat)
    BY DEF IdleIInv, IdleTyped, Requests
  <2>2. requests[c] # Zero /\ requests[c].phase # "flush" => clock - requests[c].at < Idle
    BY DEF GuardTick
  <2>3. requests[c] # Zero =>
          /\ requests[c].at <= clock + 1
          /\ requests[c].phase # "flush" => clock + 1 - requests[c].at <= Idle
    BY <1>2, <2>1, <2>2 DEF Timely
  <2>4. CASE requests[c] = Zero
    BY <1>1, <2>4 DEF Timely
  <2>5. CASE requests[c] # Zero
    <3> DEFINE r == requests[c]
               s == r.session
    <3>1. /\ r.at <= clock' /\ (r.phase # "flush" => clock' - r.at <= Idle)
      <4>1. r.at <= clock + 1 /\ (r.phase # "flush" => clock + 1 - r.at <= Idle)
        BY <2>3, <2>5
      <4>2. r.at \in Nat /\ clock' = clock + 1
        BY <1>1, <2>1, <2>5
      <4> HIDE DEF r
      <4> QED BY <1>2, <4>1, <4>2
    <3>2. /\ requests'[c] = r /\ touched'[s] = touched[s] /\ sessionRows'[s] = sessionRows[s]
      BY <1>1
    <3>3. /\ r.phase \in {"fill", "check", "passed", "refused"} =>
               /\ NotAfter(r.last, touched[s])
               /\ r.last = Zero /\ ~r.blind /\ sessionRows[s] # Zero => r.at - touched[s] <= Idle
          /\ r.phase = "load" => r.last = Zero
          /\ r.phase = "fill" /\ r.last = Zero => Fresh(c)
          /\ r.phase = "passed" /\ r.last # Zero => r.at - r.last <= Idle
          /\ r.phase = "refused" => r.last # Zero /\ r.at - r.last > Idle
      BY <2>1, <2>5 DEF Timely
    <3>4. Fresh(c) => Fresh(c)'
      BY <1>1 DEF Fresh
    <3> HIDE DEF r
    <3> QED BY <3>1, <3>2, <3>3, <3>4 DEF Timely
  <2> QED BY <2>4, <2>5
<1>5. ASSUME NEW s \in SessionIds PROVE TimesPast(s)' /\ FilledByOne(s)' /\ Unraced(s)'
  <2>1. /\ TimesPast(s) /\ FilledByOne(s) /\ Unraced(s)
        /\ touched[s] \in Times /\ usedIn[s] \in Times
    BY DEF IdleIInv, IdleTyped
  <2>2. TimesPast(s)'
    BY <1>1, <1>2, <2>1 DEF TimesPast, NotAfter, Times
  <2>3. FilledByOne(s)'
    BY <1>1, <2>1 DEF FilledByOne, Filler, Of, Fresh
  <2>4. \A t \in Times : Knows(usedIn[s], t, clock) => Knows(usedIn[s], t, clock')
    BY <1>1, <1>2, <2>1, KnowsLater
  <2>5. Unraced(s)'
    <3>1. cache[s] \in Times /\ sessionRows[s] \in Times
      BY IdleTypes
    <3> QED BY <1>1, <2>1, <2>4, <3>1 DEF Unraced, Of, KnowsUse
  <2> QED BY <2>2, <2>3, <2>5
<1> QED BY <1>3, <1>4, <1>5 DEF IdleIInv

\* Every step of the sessions keeps their invariant.
LEMMA IdleStep == IdleIInv /\ [IdleNext]_<<clock, idleVars>> => IdleIInv'
<1> SUFFICES ASSUME IdleIInv, [IdleNext]_<<clock, idleVars>> PROVE IdleIInv'
  OBVIOUS
<1>1. CASE IdleTick
  BY <1>1, IdleTickKeeps DEF IdleTick
<1>2. ASSUME NEW s \in SessionIds, WriteRow(s) \/ \E c \in GuardCalls : Arrives(c, s) PROVE IdleIInv'
  BY <1>2, WriteRowKeeps, ArrivesKeeps
<1>3. ASSUME NEW c \in GuardCalls,
             \/ LoadLastSeen(c) \/ LoadFails(c) \/ FillCache(c) \/ CheckIdle(c) \/ Refuse(c)
             \/ PassOn(c) \/ FlushLastSeen(c) \/ FlushFails(c)
      PROVE  IdleIInv'
  BY <1>3, LoadKeeps, LoadFailsKeeps, FillCacheKeeps, CheckIdleKeeps, RefuseKeeps, PassOnKeeps,
     FlushLastSeenKeeps, FlushFailsKeeps
<1>4. CASE FlushCache
  BY <1>4, FlushCacheKeeps
<1>5. CASE UNCHANGED <<clock, idleVars>>
  <2>1. /\ clock' = clock /\ sessionRows' = sessionRows /\ requests' = requests
        /\ usedIn' = usedIn /\ touched' = touched /\ raced' = raced
        /\ cached' = cached /\ cache' = cache
    BY <1>5 DEF idleVars
  <2> QED BY <2>1 DEF IdleIInv, IdleTyped, TimesPast, FilledByOne, Unraced, Timely, Filler, Of, Fresh,
                      KnowsUse
<1> QED BY <1>1, <1>2, <1>3, <1>4, <1>5 DEF IdleNext

\* What holds of the idle time follows.
LEMMA IdleGives == IdleIInv => IdleHolds
<1> SUFFICES ASSUME IdleIInv, NEW c \in GuardCalls, requests[c] # Zero
             PROVE  LET r == requests[c] IN
                    /\ r.phase = "passed" /\ ~r.blind /\ sessionRows[r.session] # Zero =>
                         r.at - touched[r.session] <= Idle
                    /\ r.phase = "refused" /\ r.used # Zero /\ r.session \notin raced =>
                         r.at - r.used > Idle
  BY DEF IdleHolds
<1> DEFINE r == requests[c]
<1> PICK s \in SessionIds : s = requests[c].session
  BY DEF IdleIInv, IdleTyped, Requests
<1>1. /\ r \in Requests /\ r.session = s /\ r.at \in Nat /\ r.last \in Times /\ r.used \in Times
      /\ Timely(c) /\ Idle \in Nat /\ Zero \notin Int /\ touched[s] \in Times /\ Unraced(s)
  BY GuardAssumption, ZeroAssumption DEF IdleIInv, IdleTyped, Requests, Times
<1>2. ASSUME r.phase = "passed", ~r.blind, sessionRows[s] # Zero PROVE r.at - touched[s] <= Idle
  <2>1. CASE r.last = Zero
    BY <1>1, <1>2, <2>1 DEF Timely
  <2>2. CASE r.last # Zero
    <3>1. r.at - r.last <= Idle /\ touched[s] # Zero /\ r.last <= touched[s]
      BY <1>1, <1>2, <2>2 DEF Timely, NotAfter
    <3> QED BY <1>1, <2>2, <3>1 DEF Times
  <2> QED BY <2>1, <2>2
<1>3. ASSUME r.phase = "refused", r.used # Zero, s \notin raced PROVE r.at - r.used > Idle
  <2>1. r.last # Zero /\ r.at - r.last > Idle
    BY <1>1, <1>3 DEF Timely
  <2>2. KnowsUse(c)
    BY <1>1, <1>3 DEF Unraced, Of
  <2>3. r.used <= r.last \/ r.at - r.used > Idle
    BY <1>1, <1>3, <2>1, <2>2 DEF KnowsUse, Knows, NotAfter
  <2> QED BY <1>1, <1>3, <2>1, <2>3 DEF Times
<1> QED BY <1>1, <1>2, <1>3

-----------------------------------------------------------------------------
(* The guards together: each keeps its own state, and they share a clock.  *)

\* At the start no login has failed.
LEMMA BackoffStarts == GuardInit => BackoffIInv
BY GuardAssumption, KeysDiffer DEF GuardInit, BackoffIInv, BackoffTyped, KeysCounted, NamesCounted, Counted,
  NameCounted, AloneWaited

GuardsIInv == BackoffIInv /\ IdleIInv /\ RateIInv

\* A step of one guard leaves the others alone, but for the clock they share.
LEMMA GuardsStep ==
  GuardsIInv /\ [BackoffNext \/ IdleNext \/ RateNext]_guardVars => GuardsIInv'
<1> SUFFICES ASSUME GuardsIInv, [BackoffNext \/ IdleNext \/ RateNext]_guardVars PROVE GuardsIInv'
  OBVIOUS
<1> USE DEF GuardsIInv
<1>1. CASE GuardTick
  BY <1>1, BackoffStep, IdleTickKeeps, RateTicks DEF BackoffNext
<1>2. CASE BackoffNext /\ ~GuardTick
  <2>1. clock' = clock /\ idleVars' = idleVars /\ rateVars' = rateVars
    BY <1>2 DEF BackoffNext, CleanUpAttempts, TryLogin, LoginSucceeds, LoginFails, NameFails,
                NameSucceeds, BadLogin
  <2> QED BY <1>2, <2>1, BackoffStep, IdleStep, RateStep
<1>3. CASE IdleNext /\ ~GuardTick
  <2>1. clock' = clock /\ backoffVars' = backoffVars /\ rateVars' = rateVars
    BY <1>3 DEF IdleNext, IdleTick, WriteRow, Arrives, LoadLastSeen, LoadFails, FillCache, CheckIdle,
                Refuse, PassOn, FlushLastSeen, FlushFails, FlushCache
  <2> QED BY <1>3, <2>1, BackoffStep, IdleStep, RateStep
<1>4. CASE RateNext /\ ~GuardTick
  <2>1. clock' = clock /\ backoffVars' = backoffVars /\ idleVars' = idleVars
    BY <1>4 DEF RateNext, CleanUpBuckets, AllowRate
  <2> QED BY <1>4, <2>1, BackoffStep, IdleStep, RateStep
<1>5. CASE UNCHANGED guardVars
  <2>1. clock' = clock /\ backoffVars' = backoffVars /\ idleVars' = idleVars /\ rateVars' = rateVars
    BY <1>5 DEF guardVars
  <2> QED BY <2>1, BackoffStep, IdleStep, RateStep
<1> QED BY <1>1, <1>2, <1>3, <1>4, <1>5

\* The rows and buckets are what their tables and limits allow.
LEMMA GuardsTyped == GuardsIInv => GuardTypeOK
<1> SUFFICES ASSUME GuardsIInv PROVE GuardTypeOK
  OBVIOUS
<1> USE DEF GuardsIInv
<1>1. clock \in 0..LastTick /\ clock \in Nat /\ cached \subseteq SessionIds
      /\ tries \in [LoginCalls -> LoginTries \cup {Zero}]
  BY GuardAssumption DEF BackoffIInv, BackoffTyped, IdleIInv, IdleTyped
<1>2. \A k \in BackoffKeys : attempts[k] # Zero => attempts[k].count \in 1..MaxFailures
  BY DEF BackoffIInv, KeysCounted, Counted
<1>3. ASSUME NEW s \in SessionIds PROVE sessionRows[s] \in 0..clock \cup {Zero}
  <2>1. NotAfter(sessionRows[s], clock)
    <3>1. /\ sessionRows[s] \in Times /\ touched[s] \in Times /\ clock \in Times
          /\ NotAfter(sessionRows[s], touched[s]) /\ NotAfter(touched[s], clock)
      BY IdleTypes DEF TimesPast
    <3> QED BY <3>1, NotAfterThat
  <2>2. sessionRows[s] \in Times
    BY IdleTypes
  <2> QED BY <1>1, <2>1, <2>2 DEF NotAfter, Times
<1>4. ASSUME NEW a \in Addresses, buckets[a] # Zero PROVE buckets[a].units \in 0..(Bucket * PerToken)
  <2>1. FullBucket \in Nat /\ buckets[a] \in BucketRows /\ buckets[a].units <= FullBucket
    BY <1>4, RefilledType DEF RateIInv, Metered
  <2>2. buckets[a].units \in 0..FullBucket
    <3> HIDE DEF FullBucket
    <3> QED BY <2>1 DEF BucketRows
  <2> QED BY <2>2 DEF FullBucket
<1> QED BY <1>1, <1>2, <1>3, <1>4 DEF GuardTypeOK

\* Delays double until the shift overflows; a session is refused or let through for
\* what was last known of its use; no stretch of time sees more requests of an
\* address than a full bucket and what it gains.
THEOREM GuardsCorrect == GuardsSpec => []GuardsInv
<1>1. GuardInit => GuardsIInv
  BY BackoffStarts, IdleStarts, RateStarts DEF GuardsIInv
<1>2. GuardsIInv => GuardsInv
  BY GuardsTyped, BackoffGives, IdleGives, RateGives DEF GuardsIInv, GuardsInv
<1> QED BY <1>1, <1>2, GuardsStep, PTL DEF GuardsSpec
=============================================================================
