------------------------------- MODULE Accounts -------------------------------
(***************************************************************************)
(* The users table and the tokens: api/auth.go, auth/auth.go, and the      *)
(* users of db/db.go.  A token says who its bearer is and in which role    *)
(* until it expires, whatever becomes of the row.                          *)
(*                                                                         *)
(* A statement of the database is a step.  Passwords are right or the call *)
(* changes nothing (RequestGuards has the count of failures).  The         *)
(* accounts table and its statements, which api/account.go calls, are not  *)
(* in the repository: its handlers fall back to the users table or fail.   *)
(***************************************************************************)
EXTENDS Naturals, FiniteSets

CONSTANTS
  UserIds, AdminId,   \* ids that are made, and the one of the seeded user
  Names, AdminName,   \* user names
  Roles,              \* roles, "admin" and "user" among them
  TokenTtl,           \* ticks a token is good for
  Clerks,             \* bound: registrations and logins under way at once
  Today, AtOnce,      \* bounds: the clock, tokens good and requests under way together
  Nobody, Gone        \* no row yet, no request, no name; no row any more

ASSUME AccountsAssumption ==
  /\ AdminId \in UserIds /\ AdminName \in Names /\ {"admin", "user"} \subseteq Roles
  /\ TokenTtl \in Nat /\ Today \in Nat /\ AtOnce \in Nat /\ IsFiniteSet(Clerks)
  /\ Nobody \notin Names

VARIABLES
  users,      \* users: id -> [name, role], or Nobody or Gone; an overwritten name is Nobody
  day,        \* the clock
  tokens,     \* tokens made and not expired: [id, role, expires]
  clerks,     \* request -> [job, user, name, role], or Nobody
  admins      \* history: the ids that have been an administrator's

accountVars == <<users, day, tokens, clerks, admins>>

AccountsInit ==
  /\ users = [u \in UserIds |-> IF u = AdminId THEN [name |-> AdminName, role |-> "admin"] ELSE Nobody]
  /\ day = 0 /\ tokens = {} /\ admins = {AdminId}
  /\ clerks = [c \in Clerks |-> Nobody]

\* GetUserByUsername.
HasRow(u) == users[u] \notin {Nobody, Gone}
Named(name) == {u \in UserIds : HasRow(u) /\ users[u].name = name}

-----------------------------------------------------------------------------
\* CreateUser, with an id nobody ever had; the table lets a name in once.
CreateUser(u, name, role) ==
  /\ users[u] = Nobody /\ Named(name) = {}
  /\ users' = [users EXCEPT ![u] = [name |-> name, role |-> role]]
  /\ admins' = IF role = "admin" THEN admins \cup {u} ELSE admins

\* SeedAdminUser when the server starts again: a user, if there is none.
SeedAdminUser ==
  /\ \A u \in UserIds : ~HasRow(u)
  /\ \A c \in Clerks : clerks[c] = Nobody
  /\ users' = [users EXCEPT ![AdminId] = [name |-> AdminName, role |-> "admin"]]
  /\ UNCHANGED <<day, tokens, clerks, admins>>

AtWork == {c \in Clerks : clerks[c] # Nobody}

Begins(c, job, u, name, role) ==
  /\ clerks[c] = Nobody /\ Cardinality(AtWork) + Cardinality(tokens) < AtOnce
  /\ clerks' = [clerks EXCEPT ![c] = [job |-> job, user |-> u, name |-> name, role |-> role]]

Does(c, job) == clerks[c] # Nobody /\ clerks[c].job = job
Ends(c) == clerks' = [clerks EXCEPT ![c] = Nobody]

\* handleRegister: the name is free when it looks,
RegisterLooks(c, name) ==
  /\ Named(name) = {}
  /\ Begins(c, "register", Nobody, name, "user")
  /\ UNCHANGED <<users, day, tokens, admins>>

\* Mutated RegisterInserts: the table takes what has been looked for.
RegisterInsertsBlindly(c, u) ==
  /\ Does(c, "register") /\ u # AdminId
  /\ Ends(c)
  /\ users' = [users EXCEPT ![u] = [name |-> clerks[c].name, role |-> "user"]]
  /\ UNCHANGED <<day, tokens, admins>>

\* and may be taken when it inserts, after the password has been hashed.
RegisterInserts(c, u) ==
  /\ Does(c, "register")
  /\ Ends(c)
  /\ IF Named(clerks[c].name) = {}
     THEN u # AdminId /\ CreateUser(u, clerks[c].name, "user")
     ELSE UNCHANGED <<users, admins>>
  /\ UNCHANGED <<day, tokens>>

\* handleLogin with the right password: the row is read,
LoginReads(c, u) ==
  /\ HasRow(u) /\ users[u].name # Nobody
  /\ Begins(c, "login", u, Nobody, users[u].role)
  /\ UNCHANGED <<users, day, tokens, admins>>

\* GenerateToken, which every handler that answers with a token calls in the end.
GenerateToken(u, role) ==
  LET token == [id |-> u, role |-> role, expires |-> day + TokenTtl]
  IN  Cardinality(AtWork) + Cardinality(tokens \cup {token}) <= AtOnce /\ tokens' = tokens \cup {token}

\* Mutated LoginAnswers: the role is what the request says.
LoginAnswersAny(c) ==
  /\ Does(c, "login")
  /\ Ends(c)
  /\ GenerateToken(clerks[c].user, "admin")
  /\ UNCHANGED <<users, day, admins>>

\* and the token made after the password has been compared, which takes a while.
LoginAnswers(c) ==
  /\ Does(c, "login")
  /\ Ends(c)
  /\ GenerateToken(clerks[c].user, clerks[c].role)
  /\ UNCHANGED <<users, day, admins>>

\* handleSwiftFlowWebhook: a token for the user it names, if the device has no
\* session yet (PersonalData has the sessions).
WebhookToken(u) ==
  /\ GenerateToken(u, "user")
  /\ UNCHANGED <<users, day, clerks, admins>>

\* ValidateToken, and the Middleware that asks it.
ValidateToken(token) == day < token.expires

\* handleSwitchProfile, for a profile of the bearer's: a token made anew from the
\* claims of the old one, whatever has become of the row since.
SwitchProfile(token) ==
  /\ ValidateToken(token)
  /\ GenerateToken(token.id, token.role)
  /\ UNCHANGED <<users, day, clerks, admins>>

\* Mutated SwitchProfile: the new token has the role asked for.
SwitchProfileAny(token) ==
  /\ ValidateToken(token)
  /\ GenerateToken(token.id, "admin")
  /\ UNCHANGED <<users, day, clerks, admins>>

-----------------------------------------------------------------------------
\* RequireRole.
RequireRole(token, role) == ValidateToken(token) /\ token.role \in {"admin", role}

\* handleCreateUser, for the bearer of a token of an admin.
HandleCreateUser(token, u, name, role) ==
  /\ RequireRole(token, "admin") /\ u # AdminId
  /\ CreateUser(u, name, role)
  /\ UNCHANGED <<day, tokens, clerks>>

\* handleUpdateUser.
UpdateUserRole(token, u, role) ==
  /\ RequireRole(token, "admin") /\ HasRow(u)
  /\ users' = [users EXCEPT ![u].role = role]
  /\ admins' = IF role = "admin" THEN admins \cup {u} ELSE admins
  /\ UNCHANGED <<day, tokens, clerks>>

\* handleDeleteUser.
DeleteUser(token, u) ==
  /\ RequireRole(token, "admin") /\ HasRow(u)
  /\ users' = [users EXCEPT ![u] = Gone]
  /\ UNCHANGED <<day, tokens, clerks, admins>>

\* DeleteUserData begins by overwriting the name and the password of the row.
Anonymize(u) ==
  /\ HasRow(u)
  /\ users' = [users EXCEPT ![u].name = Nobody]
  /\ UNCHANGED <<day, tokens, clerks, admins>>

DayPasses ==
  /\ day < Today /\ day' = day + 1
  /\ tokens' = {token \in tokens : day + 1 < token.expires}
  /\ UNCHANGED <<users, clerks, admins>>

AccountsNext ==
  \/ SeedAdminUser \/ DayPasses
  \/ \E u \in UserIds : WebhookToken(u) \/ Anonymize(u)
  \/ \E token \in tokens : SwitchProfile(token)
  \/ \E token \in tokens, u \in UserIds :
       \/ DeleteUser(token, u)
       \/ \E role \in Roles :
            UpdateUserRole(token, u, role) \/ \E name \in Names : HandleCreateUser(token, u, name, role)
  \/ \E c \in Clerks :
       \/ LoginAnswers(c) \/ \E name \in Names : RegisterLooks(c, name)
       \/ \E u \in UserIds : RegisterInserts(c, u) \/ LoginReads(c, u)

AccountsSpec == AccountsInit /\ [][AccountsNext]_accountVars

-----------------------------------------------------------------------------
AccountsTypeOK ==
  /\ users \in [UserIds -> [name : Names \cup {Nobody}, role : Roles] \cup {Nobody, Gone}]
  /\ day \in 0..Today /\ Cardinality(tokens) <= AtOnce

\* Two registrations of a name may both find it free: one of them is refused.
NamesAreUnique == \A name \in Names : Cardinality(Named(name)) <= 1

\* Who bears a token of an administrator, or will when a login is done, has been
\* one, though he may have another role since, or no row: a token is good to the end
\* of its time and may be changed for a fresh one of the same role till then, so
\* that he who switches profiles in time stays an administrator for ever.
TokensAreHonest ==
  /\ \A token \in tokens : token.expires <= day + TokenTtl /\ (token.role = "admin" => token.id \in admins)
  /\ \A c \in Clerks : Does(c, "login") /\ clerks[c].role = "admin" => clerks[c].user \in admins

\* What holds of the users and the tokens.
AccountsInv == AccountsTypeOK /\ NamesAreUnique /\ TokensAreHonest
=============================================================================
