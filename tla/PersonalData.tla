----------------------------- MODULE PersonalData -----------------------------
(***************************************************************************)
(* What the database holds of one user, besides the row of users: the      *)
(* export and the erasure of compliance/gdpr.go, and the sessions of       *)
(* db/db.go, which a webhook makes and api/account.go revokes.  Foreign    *)
(* keys are declared but not enforced, as SQLite does not unless told to:  *)
(* rows may be without their user, and go only when a statement names      *)
(* them.  A statement is a step; of the rows of a kind the model says only *)
(* whether there are any.                                                  *)
(*                                                                         *)
(* The comments of gdpr.go speak of all personal data; the code lists      *)
(* kinds.  TOTP secrets, profiles, parental settings, the audit log and    *)
(* the items of collections are in neither list, sessions are not exported *)
(* and of the activity only what is among everyone's newest 10000 entries: *)
(* the properties say what holds of the listed kinds, and of the others.   *)
(***************************************************************************)
EXTENDS Naturals, Sequences

CONSTANTS
  RowKinds,  \* bound: the kinds of rows that are written, listed or not
  Devices,   \* devices of the user
  NoErasure  \* no erasure goes on

\* What DeleteUserData deletes, in its order, and ExportUserData reads, in its.
\* The export looks for the user in the newest entries of everyone's activity:
\* what is beyond them is "older".
Erased == <<{"collections"}, {"activity", "older"}, {"progress"}, {"history"}, {"sessions"}>>
Exported == <<"collections", "activity", "progress", "history">>

KindsListed == UNION {Erased[i] : i \in 1..Len(Erased)}

ASSUME PersonAssumption == RowKinds \cap {"older", "sessions"} = {}

VARIABLES
  profile,          \* whether the row of users is there
  userRows,         \* kinds of rows there are: of RowKinds, and "older"
  accountSessions,  \* devices with a session
  erasure,          \* statements the erasure has done, or NoErasure
  export,           \* the export: statements done, what they found, what has been there all along,
                    \* listed or not
  dirty             \* history: kinds written since the erasure began

personVars == <<profile, userRows, accountSessions, erasure, export, dirty>>

NoExport == [open |-> FALSE, done |-> 0, got |-> {}, base |-> {}]

PersonInit ==
  /\ profile = TRUE
  /\ userRows = {} /\ accountSessions = {}
  /\ erasure = NoErasure /\ export = NoExport /\ dirty = {}

-----------------------------------------------------------------------------
\* Rows are written for the bearer of a token, whether the user is there or not.
WriteRows(kind) ==
  /\ kind \in RowKinds
  /\ userRows' = userRows \cup {kind} /\ dirty' = dirty \cup ({kind} \cap KindsListed)
  /\ UNCHANGED <<profile, accountSessions, erasure, export>>

\* Others' activity pushes the user's out of the newest entries.
OthersAct ==
  /\ "activity" \in userRows
  /\ userRows' = (userRows \ {"activity"}) \cup {"older"}
  /\ dirty' = IF "activity" \in dirty THEN dirty \cup {"older"} ELSE dirty
  /\ export' = [export EXCEPT !.base = @ \ {"activity"}]
  /\ UNCHANGED <<profile, accountSessions, erasure>>

\* handleSwiftFlowWebhook, CreateSession: it fails if the device has a session.
SwiftFlowWebhook(d) ==
  /\ d \notin accountSessions
  /\ accountSessions' = accountSessions \cup {d} /\ dirty' = dirty \cup {"sessions"}
  /\ UNCHANGED <<profile, userRows, erasure, export>>

\* GetDevicesByAccount.
DevicesByAccount == accountSessions

\* handleRevokeDevice, RevokeDevice: the device may have a session made again.
RevokeDevice(d) ==
  /\ d \in DevicesByAccount
  /\ accountSessions' = accountSessions \ {d}
  /\ UNCHANGED <<profile, userRows, erasure, export, dirty>>

\* DeleteUser leaves all but the row.
DropProfile ==
  /\ profile /\ profile' = FALSE
  /\ UNCHANGED <<userRows, accountSessions, erasure, export, dirty>>

-----------------------------------------------------------------------------
\* DeleteUserData: the name is overwritten, if there is a row (Accounts has the names),
EraseBegins ==
  /\ erasure = NoErasure
  /\ erasure' = 0 /\ dirty' = {}
  /\ UNCHANGED <<profile, userRows, accountSessions, export>>

\* Mutated EraseNext: the entries an export would not list are passed over.
EraseShown ==
  /\ erasure # NoErasure /\ erasure < Len(Erased)
  /\ erasure' = erasure + 1
  /\ userRows' = userRows \ (Erased[erasure + 1] \ {"older"})
  /\ accountSessions' = IF "sessions" \in Erased[erasure + 1] THEN {} ELSE accountSessions
  /\ export' = [export EXCEPT !.base = @ \ Erased[erasure + 1]]
  /\ UNCHANGED <<profile, dirty>>

\* then each statement deletes the next kind,
EraseNext ==
  /\ erasure # NoErasure /\ erasure < Len(Erased)
  /\ erasure' = erasure + 1
  /\ userRows' = userRows \ Erased[erasure + 1]
  /\ accountSessions' = IF "sessions" \in Erased[erasure + 1] THEN {} ELSE accountSessions
  /\ export' = [export EXCEPT !.base = @ \ Erased[erasure + 1]]
  /\ UNCHANGED <<profile, dirty>>

\* until one fails or all are done: what was done stays done.
EraseEnds ==
  /\ erasure # NoErasure /\ erasure' = NoErasure
  /\ UNCHANGED <<profile, userRows, accountSessions, export, dirty>>

\* ExportUserData, GetUserByID: without a row of users there is no export,
ExportOpens ==
  /\ profile /\ ~export.open
  /\ export' = [NoExport EXCEPT !.open = TRUE, !.base = userRows \cap RowKinds]
  /\ UNCHANGED <<profile, userRows, accountSessions, erasure, dirty>>

\* then, whatever becomes of that row, one kind after the other is read.
ExportNext ==
  /\ export.open /\ export.done < Len(Exported)
  /\ LET kind == Exported[export.done + 1]
     IN  export' = [export EXCEPT !.done = @ + 1, !.got = @ \cup (userRows \cap {kind})]
  /\ UNCHANGED <<profile, userRows, accountSessions, erasure, dirty>>

\* The export is delivered, or one of its statements has failed.
ExportEnds ==
  /\ export.open /\ export' = NoExport
  /\ UNCHANGED <<profile, userRows, accountSessions, erasure, dirty>>

PersonNext ==
  \/ OthersAct \/ DropProfile \/ EraseBegins \/ EraseNext \/ EraseEnds
  \/ ExportOpens \/ ExportNext \/ ExportEnds
  \/ \E kind \in RowKinds : WriteRows(kind)
  \/ \E d \in Devices : SwiftFlowWebhook(d) \/ RevokeDevice(d)

PersonSpec == PersonInit /\ [][PersonNext]_personVars

-----------------------------------------------------------------------------
PersonTypeOK ==
  /\ userRows \subseteq RowKinds \cup {"older"} /\ accountSessions \subseteq Devices
  /\ erasure \in (0..Len(Erased)) \cup {NoErasure} /\ export.done \in 0..Len(Exported)

\* An erasure leaves nothing of the listed kinds it has come to but what was written
\* for the user since it began; an earlier one that failed midway makes no difference.
ListedIsGone ==
  erasure # NoErasure =>
    \A i \in 1..erasure :
      /\ Erased[i] \cap userRows \subseteq dirty
      /\ "sessions" \in Erased[i] /\ accountSessions # {} => "sessions" \in dirty

\* An export has every listed kind of rows the user had all the while, though other
\* rows come and go, the user's own row too, and an erasure goes on, between its
\* statements.
ListedIsExported ==
  \A i \in 1..export.done : Exported[i] \in export.base => Exported[i] \in export.got

\* What the user has of other kinds when an export begins is in no export, and no
\* erasure takes it away.
UnlistedStays == (export.base \ KindsListed) \subseteq (userRows \ export.got)

\* What holds of the data of a user.
PersonInv == PersonTypeOK /\ ListedIsGone /\ ListedIsExported /\ UnlistedStays
=============================================================================
