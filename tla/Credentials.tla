----------------------------- MODULE Credentials -----------------------------
(***************************************************************************)
(* What clients are known by.  Five parts, each with state of its own:     *)
(*   pkg/apikeys, handleAPIKeys   keys, created, revoked and validated     *)
(*   pkg/device                   trust levels of devices                  *)
(*   pkg/oauth                    states of a login under way elsewhere    *)
(*   handleEnable2FA, Verify2FA   the second factor                        *)
(*   pkg/auth/rbac.go             roles and what they permit               *)
(* A statement of the database is a step; where a call makes two, others   *)
(* come between them.  Hashes, codes, names and the providers are left out.*)
(***************************************************************************)
EXTENDS Naturals, FiniteSets

CONSTANTS
  ApiKeys, Scopes, DeviceIds, Ips, Levels, OauthStates, TotpUsers,
  Checkers,      \* bound: calls under way at once
  StateLife,     \* how long a state is good, ten minutes
  Moments,       \* bound: the clock of states
  Secrets,       \* bound: secrets generated
  RoleNames, BuiltIn, Resources, Verbs,
  Nil        \* no row, no entry, no call, no device id

ASSUME CredentialsAssumption ==
  /\ {"blocked", "guest"} \subseteq Levels /\ StateLife \in Nat /\ Moments \in Nat /\ Secrets \in Nat
  /\ BuiltIn \subseteq RoleNames /\ "read" \in Verbs

VARIABLES
  keyRows,     \* api_keys: key -> [scopes, revoked, used], or Nil
  revokedKeys, \* history: keys Revoke has been called for
  keyCalls,    \* Validate: call -> [key, phase, scopes, late], or Nil
  devices,     \* devices: device id -> [ip, level], or Nil
  deviceCalls, \* IsAllowed: call -> [id, ip, phase, level, known], or Nil
  moment,      \* the clock
  states,      \* s.states: state -> expiry, or Nil
  issued,      \* history: state -> when it was made, or Nil
  accepted,    \* history: <<state, moment>> of the states accepted
  spent,       \* history: states ValidateState was called for
  totp,        \* user_totp: user -> [secret, verified], or Nil
  totpCalls,   \* handleVerify2FA: call -> [user, secret], or Nil
  generated,   \* secrets generated so far, which number them
  proved,      \* history: secrets a right code was given for
  swapped,     \* history: users given a new secret while one was verified
  roles        \* RBAC: role -> permissions, or Nil

keyVars == <<keyRows, revokedKeys, keyCalls>>
deviceVars == <<devices, deviceCalls>>
stateVars == <<moment, states, issued, accepted, spent>>
totpVars == <<totp, totpCalls, generated, proved, swapped>>
credentialVars == <<keyVars, deviceVars, stateVars, totpVars, roles>>

\* A permission is a verb on a resource; "*" is any, and "admin:*" everything.
Permissions == Resources \X (Verbs \cup {"*"})
Everything == <<"admin", "*">>

KeyRows == [scopes : SUBSET Scopes, revoked : BOOLEAN, used : BOOLEAN]

ASSUME NilAssumption ==
  /\ Nil \notin KeyRows /\ Nil \notin Nat /\ Nil \notin [secret : Nat, verified : BOOLEAN]
  /\ \A granted \in SUBSET (Permissions \cup {Everything}) : granted # Nil

CredentialsInit ==
  /\ keyRows = [k \in ApiKeys |-> Nil] /\ revokedKeys = {} /\ keyCalls = [c \in Checkers |-> Nil]
  /\ devices = [d \in DeviceIds |-> Nil] /\ deviceCalls = [c \in Checkers |-> Nil]
  /\ moment = 0 /\ accepted = {} /\ spent = {}
  /\ states = [s \in OauthStates |-> Nil] /\ issued = [s \in OauthStates |-> Nil]
  /\ totp = [u \in TotpUsers |-> Nil] /\ totpCalls = [c \in Checkers |-> Nil]
  /\ generated = 0 /\ proved = {} /\ swapped = {}
  /\ roles = [r \in RoleNames |->
       IF r \notin BuiltIn THEN Nil
       ELSE IF r = "admin" THEN {Everything} ELSE {<<x, "read">> : x \in Resources}]

-----------------------------------------------------------------------------
\* Create: the id and the hash are new.
CreateKey(k, scopes) ==
  /\ keyRows[k] = Nil
  /\ keyRows' = [keyRows EXCEPT ![k] = [scopes |-> scopes, revoked |-> FALSE, used |-> FALSE]]
  /\ UNCHANGED <<revokedKeys, keyCalls, deviceVars, stateVars, totpVars, roles>>

\* Revoke, of a key not revoked before.
RevokeKey(k) ==
  /\ keyRows[k] # Nil /\ ~keyRows[k].revoked
  /\ keyRows' = [keyRows EXCEPT ![k].revoked = TRUE]
  /\ revokedKeys' = revokedKeys \cup {k}
  /\ UNCHANGED <<keyCalls, deviceVars, stateVars, totpVars, roles>>

\* A request with the key arrives; "late" is a history: it was revoked by then.
PresentKey(c, k) ==
  /\ keyCalls[c] = Nil /\ keyRows[k] # Nil
  /\ keyCalls' = [keyCalls EXCEPT ![c] =
       [key |-> k, phase |-> "look", scopes |-> {}, late |-> k \in revokedKeys]]
  /\ UNCHANGED <<keyRows, revokedKeys, deviceVars, stateVars, totpVars, roles>>

\* Validate finds the row by its hash, and refuses a revoked key.
ValidateKey(c) ==
  /\ keyCalls[c] # Nil /\ keyCalls[c].phase = "look"
  /\ keyCalls' = [keyCalls EXCEPT ![c] =
       IF keyRows[keyCalls[c].key].revoked THEN Nil
       ELSE [keyCalls[c] EXCEPT !.phase = "found", !.scopes = keyRows[keyCalls[c].key].scopes]]
  /\ UNCHANGED <<keyRows, revokedKeys, deviceVars, stateVars, totpVars, roles>>

\* Mutated TouchKey: the row is written as it was read.
TouchKeyWhole(c) ==
  LET call == keyCalls[c]
  IN  /\ call # Nil /\ call.phase = "found"
      /\ keyRows' = [keyRows EXCEPT ![call.key] = [scopes |-> call.scopes, revoked |-> FALSE, used |-> TRUE]]
      /\ keyCalls' = [keyCalls EXCEPT ![c] = Nil]
      /\ UNCHANGED <<revokedKeys, deviceVars, stateVars, totpVars, roles>>

\* It sets last_used, which may fail, and answers with the scopes it read.
TouchKey(c) ==
  LET call == keyCalls[c]
  IN  /\ call # Nil /\ call.phase = "found"
      /\ \/ keyRows' = [keyRows EXCEPT ![call.key].used = TRUE]
         \/ UNCHANGED keyRows
      /\ keyCalls' = [keyCalls EXCEPT ![c] = Nil]
      /\ UNCHANGED <<revokedKeys, deviceVars, stateVars, totpVars, roles>>

HasScope(scopes, scope) == scope \in scopes \/ "*" \in scopes

KeyNext ==
  \/ \E k \in ApiKeys :
       RevokeKey(k) \/ (\E scopes \in SUBSET Scopes : CreateKey(k, scopes)) \/ (\E c \in Checkers : PresentKey(c, k))
  \/ \E c \in Checkers : ValidateKey(c) \/ TouchKey(c)

-----------------------------------------------------------------------------
\* "known" is a history: what an operation says of a device id while a call for
\* it is under way: its level at the beginning, and whether it has been the same since.
Witness(d, row) ==
  deviceCalls' = [c \in Checkers |->
    IF deviceCalls[c] # Nil /\ deviceCalls[c].id = d /\ row # devices[d]
    THEN [deviceCalls[c] EXCEPT !.known = "changed"] ELSE deviceCalls[c]]

SetDevice(d, row) ==
  /\ devices' = [devices EXCEPT ![d] = row]
  /\ Witness(d, row)
  /\ UNCHANGED <<keyVars, stateVars, totpVars, roles>>

\* Register: a device that is there gets the new address and level too.
RegisterAs(d, ip, level) == SetDevice(d, [ip |-> ip, level |-> level])
UpdateTrust(d, level) == devices[d] # Nil /\ SetDevice(d, [devices[d] EXCEPT !.level = level])
DeleteDevice(d) == devices[d] # Nil /\ SetDevice(d, Nil)

\* The middleware: IsAllowed of the header and the address of a request.
CheckDevice(c, d, ip) ==
  /\ deviceCalls[c] = Nil
  /\ deviceCalls' = [deviceCalls EXCEPT ![c] =
       [id |-> d, ip |-> ip, phase |-> "id", level |-> "guest",
        known |-> IF d = Nil \/ devices[d] = Nil THEN "unknown" ELSE devices[d].level]]
  /\ UNCHANGED <<devices, keyVars, stateVars, totpVars, roles>>

Answered(c, level) == [deviceCalls EXCEPT ![c].phase = "answer", ![c].level = level]

\* Mutated LookUpId: a device registered with another address is looked up by address.
LookUpIdAndIp(c) ==
  LET call == deviceCalls[c]
      found == call.id # Nil /\ devices[call.id] # Nil /\ devices[call.id].ip = call.ip
  IN  /\ call # Nil /\ call.phase = "id"
      /\ deviceCalls' = IF found THEN Answered(c, devices[call.id].level)
                        ELSE [deviceCalls EXCEPT ![c].phase = "ip"]
      /\ UNCHANGED <<devices, keyVars, stateVars, totpVars, roles>>

\* By the device id first,
LookUpId(c) ==
  LET call == deviceCalls[c]
      found == call.id # Nil /\ devices[call.id] # Nil
  IN  /\ call # Nil /\ call.phase = "id"
      /\ deviceCalls' = IF found THEN Answered(c, devices[call.id].level)
                        ELSE [deviceCalls EXCEPT ![c].phase = "ip"]
      /\ UNCHANGED <<devices, keyVars, stateVars, totpVars, roles>>

\* then by the address, of which some device is taken, if there is one; else a guest.
LookUpIp(c) ==
  LET call == deviceCalls[c]
      there == {d \in DeviceIds : devices[d] # Nil /\ devices[d].ip = call.ip}
  IN  /\ call # Nil /\ call.phase = "ip"
      /\ deviceCalls' \in IF there = {} THEN {Answered(c, "guest")}
                          ELSE {Answered(c, devices[d].level) : d \in there}
      /\ UNCHANGED <<devices, keyVars, stateVars, totpVars, roles>>

\* The request is refused if the level is "blocked", and goes on to RequireTrust.
EndCheck(c) ==
  /\ deviceCalls[c] # Nil /\ deviceCalls[c].phase = "answer"
  /\ deviceCalls' = [deviceCalls EXCEPT ![c] = Nil]
  /\ UNCHANGED <<devices, keyVars, stateVars, totpVars, roles>>

DeviceNext ==
  \/ \E d \in DeviceIds :
       DeleteDevice(d) \/ \E level \in Levels : UpdateTrust(d, level) \/ \E ip \in Ips : RegisterAs(d, ip, level)
  \/ \E c \in Checkers :
       \/ LookUpId(c) \/ LookUpIp(c) \/ EndCheck(c)
       \/ \E d \in DeviceIds \cup {Nil}, ip \in Ips : CheckDevice(c, d, ip)

-----------------------------------------------------------------------------
\* GenerateState, for AuthURL.
GenerateState(s) ==
  /\ issued[s] = Nil
  /\ issued' = [issued EXCEPT ![s] = moment]
  /\ states' = [states EXCEPT ![s] = moment + StateLife]
  /\ UNCHANGED <<moment, accepted, spent, keyVars, deviceVars, totpVars, roles>>

\* ValidateState takes the state away, and says whether it was good.
ValidateState(s) ==
  /\ issued[s] # Nil
  /\ accepted' = IF states[s] # Nil /\ moment < states[s] THEN accepted \cup {<<s, moment>>} ELSE accepted
  /\ states' = [states EXCEPT ![s] = Nil]
  /\ spent' = spent \cup {s}
  /\ UNCHANGED <<moment, issued, keyVars, deviceVars, totpVars, roles>>

\* purgeExpiredStates, of the cleanup loop.
PurgeStates ==
  /\ states' = [s \in OauthStates |->
       IF states[s] # Nil /\ moment > states[s] THEN Nil ELSE states[s]]
  /\ UNCHANGED <<moment, issued, accepted, spent, keyVars, deviceVars, totpVars, roles>>

MomentPasses ==
  /\ moment < Moments /\ moment' = moment + 1
  /\ UNCHANGED <<states, issued, accepted, spent, keyVars, deviceVars, totpVars, roles>>

OauthNext ==
  \/ \E s \in OauthStates : GenerateState(s) \/ ValidateState(s)
  \/ PurgeStates \/ MomentPasses

-----------------------------------------------------------------------------
\* handleEnable2FA: a new secret, not verified, in place of the one there was.
Enable2FA(u) ==
  /\ generated < Secrets
  /\ generated' = generated + 1
  /\ totp' = [totp EXCEPT ![u] = [secret |-> generated + 1, verified |-> FALSE]]
  /\ swapped' = IF \E c \in Checkers : totpCalls[c] # Nil /\ totpCalls[c].user = u
                THEN swapped \cup {u} ELSE swapped
  /\ UNCHANGED <<totpCalls, proved, keyVars, deviceVars, stateVars, roles>>

\* handleVerify2FA reads the secret, and the code is right for it.
ReadSecret(c, u) ==
  /\ totpCalls[c] = Nil /\ totp[u] # Nil
  /\ totpCalls' = [totpCalls EXCEPT ![c] = [user |-> u, secret |-> totp[u].secret]]
  /\ proved' = proved \cup {totp[u].secret}
  /\ UNCHANGED <<totp, generated, swapped, keyVars, deviceVars, stateVars, roles>>

\* Then the user's row is verified, whatever secret it has.
Activate2FA(c) ==
  /\ totpCalls[c] # Nil
  /\ totp' = [totp EXCEPT ![totpCalls[c].user].verified = TRUE]
  /\ totpCalls' = [totpCalls EXCEPT ![c] = Nil]
  /\ UNCHANGED <<generated, proved, swapped, keyVars, deviceVars, stateVars, roles>>

TotpNext ==
  \/ \E u \in TotpUsers : Enable2FA(u) \/ \E c \in Checkers : ReadSecret(c, u)
  \/ \E c \in Checkers : Activate2FA(c)

-----------------------------------------------------------------------------
\* AddRole: for any name, also one there is.
AddRole(r, permissions) ==
  /\ roles' = [roles EXCEPT ![r] = permissions]
  /\ UNCHANGED <<keyVars, deviceVars, stateVars, totpVars>>

\* RemoveRole, but not of a built-in one.
RemoveRole(r) ==
  /\ r \notin BuiltIn
  /\ roles' = [roles EXCEPT ![r] = Nil]
  /\ UNCHANGED <<keyVars, deviceVars, stateVars, totpVars>>

\* HasPermission: one of the role's is all, the very one, or all of the resource.
HasPermission(r, p) ==
  roles[r] # Nil /\ \E q \in roles[r] : q = Everything \/ q = p \/ (q[2] = "*" /\ q[1] = p[1])

RoleNext ==
  \E r \in RoleNames :
    RemoveRole(r) \/ \E permissions \in SUBSET (Permissions \cup {Everything}) :
                       Cardinality(permissions) <= 2 /\ AddRole(r, permissions)

CredentialsNext == KeyNext \/ DeviceNext \/ OauthNext \/ TotpNext \/ RoleNext

CredentialsSpec == CredentialsInit /\ [][CredentialsNext]_credentialVars

-----------------------------------------------------------------------------
CredentialsTypeOK ==
  /\ \A k \in ApiKeys : keyRows[k] # Nil => keyRows[k].scopes \subseteq Scopes
  /\ devices \in [DeviceIds -> [ip : Ips, level : Levels] \cup {Nil}]
  /\ states \in [OauthStates -> 0..(Moments + StateLife) \cup {Nil}]
  /\ totp \in [TotpUsers -> [secret : 1..generated, verified : BOOLEAN] \cup {Nil}]
  /\ \A r \in RoleNames : roles[r] # Nil => roles[r] \subseteq Permissions \cup {Everything}

\* Revocation is for good, though validations of the key go on writing its row:
\* no request that comes after it gets through; one that does has the key's scopes.
KeysHold ==
  /\ \A k \in revokedKeys : keyRows[k].revoked
  /\ \A c \in Checkers : keyCalls[c] # Nil /\ keyCalls[c].phase = "found" =>
       ~keyCalls[c].late /\ keyCalls[c].scopes = keyRows[keyCalls[c].key].scopes

\* A device that is registered, and whose row nobody changes while a request of
\* it is looked at, is judged by that row and no other's, whatever address it
\* comes from.
DevicesHold ==
  \A c \in Checkers : deviceCalls[c] # Nil /\ deviceCalls[c].phase = "answer" =>
    deviceCalls[c].known \in {"changed", "unknown", deviceCalls[c].level}

\* A state is accepted once and only while it is good; and one that is good and
\* was not used yet is never purged.
StatesHold ==
  /\ \A a, b \in accepted : a[1] = b[1] => a = b
  /\ \A a \in accepted : a[2] < issued[a[1]] + StateLife /\ states[a[1]] = Nil
  /\ \A s \in OauthStates : issued[s] # Nil /\ states[s] = Nil =>
       moment > issued[s] + StateLife \/ s \in spent

\* A second factor is active only with a secret its user has shown to have, unless
\* the secret was replaced while a code for the old one was being verified.
TotpHolds ==
  \A u \in TotpUsers \ swapped :
    totp[u] # Nil /\ totp[u].verified => totp[u].secret \in proved

\* The built-in roles are always there, and a role may do what its permissions
\* stand for.
StandsFor(p) == IF p = Everything THEN Permissions
                ELSE IF p[2] = "*" THEN {p[1]} \X (Verbs \cup {"*"}) ELSE {p}
RolesHold ==
  /\ \A r \in BuiltIn : roles[r] # Nil
  /\ \A r \in RoleNames : roles[r] # Nil =>
       {p \in Permissions : HasPermission(r, p)} = (UNION {StandsFor(p) : p \in roles[r]}) \cap Permissions

\* What holds of the credentials.
CredentialsInv == CredentialsTypeOK /\ KeysHold /\ DevicesHold /\ StatesHold /\ TotpHolds /\ RolesHold
=============================================================================
