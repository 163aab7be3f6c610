-------------------------------- MODULE Profiles --------------------------------
(***************************************************************************)
(* The profiles of an account (api/profiles.go) and parental control       *)
(* (profiles/profiles.go, profiles/parental.go).                           *)
(*                                                                         *)
(* A handler reads a whole row, changes the fields it was sent and writes  *)
(* the whole row; others may write between.  A row is the parental rating, *)
(* which handleUpdateProfile alone sets, and the preferences.  The         *)
(* statements the handlers call are not in the repository: each is one     *)
(* read or write of the row.  A window of hours and a PIN are values.      *)
(***************************************************************************)
EXTENDS Integers, FiniteSets

CONSTANTS
  ProfileIds, Owner(_),   \* profiles that are made, and their accounts
  Parents,                \* accounts
  MaxProfiles,            \* profiles an account may have (5)
  Edits,                  \* bound: requests under way at once
  Limits, Preferences,    \* ratings and preferences a request may send
  Pins, NoPin,            \* PINs, and the empty hash
  Restrictions,           \* limits UpdateRestrictions is given: [age, rating, unrated, from, to]
  NoLimits,               \* the one SetPIN writes
  Contents,               \* what is asked for: [age, rating, unrated]
  Hours,                  \* hours of the day
  Void                    \* no row, no request

ASSUME ProfilesAssumption ==
  /\ \A p \in ProfileIds : Owner(p) \in Parents
  /\ MaxProfiles \in Nat \ {0} /\ Limits \subseteq Nat /\ 0 \in Limits
  /\ Preferences # {} /\ IsFiniteSet(ProfileIds) /\ IsFiniteSet(Edits)
  /\ NoPin \notin Pins /\ NoLimits \notin Restrictions

\* An age and a place in the order are 0 for none; what time.Parse does not take
\* for a time of day is none.
ASSUME LimitsAssumption ==
  /\ Hours \subseteq Nat
  /\ Restrictions \subseteq [age : Nat, rating : Nat, unrated : BOOLEAN,
                             from : Hours \cup {Void}, to : Hours \cup {Void}]
  /\ NoLimits = [age |-> 0, rating |-> 0, unrated |-> FALSE, from |-> Void, to |-> Void]
  /\ Contents \subseteq [age : Nat, rating : Nat, unrated : BOOLEAN]

VARIABLES
  profileRows,        \* profile -> [limit, pref], or Void
  made,        \* profiles that were made
  edits,       \* request -> [job, profile, row, stale], or Void
  lastLimit,   \* history: the rating handleUpdateProfile wrote last
  undone,      \* history: profiles a request wrote since with a row that was not the latest
  profileTokens,  \* tokens for profiles: <<account, profile>>
  settings,    \* the row of parental settings: [pin, limits], or Void
  firstPin,    \* history: the PIN the row was made with
  lastCall     \* history: what last wrote the row: limits, or NoLimits for SetPIN

profileVars == <<profileRows, made, edits, lastLimit, undone, profileTokens>>
parentalVars == <<settings, firstPin, lastCall>>

ProfilesInit ==
  /\ profileRows = [p \in ProfileIds |-> Void] /\ made = {}
  /\ edits = [q \in Edits |-> Void]
  /\ lastLimit = [p \in ProfileIds |-> 0] /\ undone = {} /\ profileTokens = {}
  /\ settings = Void /\ firstPin = NoPin /\ lastCall = NoLimits

CountProfiles(a) == Cardinality({p \in ProfileIds : profileRows[p] # Void /\ Owner(p) = a})

-----------------------------------------------------------------------------
EditStarts(q, job, p, row) ==
  /\ edits[q] = Void
  /\ edits' = [edits EXCEPT ![q] = [job |-> job, profile |-> p, row |-> row, stale |-> FALSE]]

\* handleCreateProfile: there is room when it counts,
CreateCounts(q, p) ==
  /\ p \notin made /\ CountProfiles(Owner(p)) < MaxProfiles
  /\ \A r \in Edits : edits[r] # Void => edits[r].profile # p
  /\ EditStarts(q, "create", p, [limit |-> 0, pref |-> CHOOSE v \in Preferences : TRUE])
  /\ UNCHANGED <<profileRows, made, lastLimit, undone, profileTokens>>

\* and it inserts without counting again.
CreateInserts(q) ==
  /\ edits[q] # Void /\ edits[q].job = "create"
  /\ profileRows' = [profileRows EXCEPT ![edits[q].profile] = edits[q].row]
  /\ made' = made \cup {edits[q].profile}
  /\ edits' = [edits EXCEPT ![q] = Void]
  /\ UNCHANGED <<lastLimit, undone, profileTokens>>

\* handleUpdateProfile reads the row and replaces both fields,
UpdateReads(q, p, limit, pref) ==
  /\ profileRows[p] # Void
  /\ EditStarts(q, "update", p, [limit |-> limit, pref |-> pref])
  /\ UNCHANGED <<profileRows, made, lastLimit, undone, profileTokens>>

\* Mutated PreferencesRead: the fields it was not sent are written empty.
PreferencesReadBlank(q, p, pref) ==
  /\ profileRows[p] # Void
  /\ EditStarts(q, "preferences", p, [limit |-> 0, pref |-> pref])
  /\ UNCHANGED <<profileRows, made, lastLimit, undone, profileTokens>>

\* handleUpdatePreferences the preferences,
PreferencesRead(q, p, pref) ==
  /\ profileRows[p] # Void
  /\ EditStarts(q, "preferences", p, [profileRows[p] EXCEPT !.pref = pref])
  /\ UNCHANGED <<profileRows, made, lastLimit, undone, profileTokens>>

\* handleSwitchProfile, for the profile's account alone, neither of them.
SwitchReads(q, a, p) ==
  /\ profileRows[p] # Void /\ Owner(p) = a
  /\ EditStarts(q, "switch", p, profileRows[p])
  /\ UNCHANGED <<profileRows, made, lastLimit, undone, profileTokens>>

\* They write the row they hold, if there is still one; a switch gives a token either way.
WriteProfile(q) ==
  /\ edits[q] # Void /\ edits[q].job # "create"
  /\ LET e == edits[q] IN
       /\ profileRows' = IF profileRows[e.profile] = Void THEN profileRows ELSE [profileRows EXCEPT ![e.profile] = e.row]
       /\ lastLimit' = IF e.job = "update" THEN [lastLimit EXCEPT ![e.profile] = e.row.limit] ELSE lastLimit
       /\ undone' = CASE e.job = "update" -> undone \ {e.profile}
                      [] e.stale -> undone \cup {e.profile}
                      [] OTHER -> undone
       /\ profileTokens' = IF e.job = "switch" THEN profileTokens \cup {<<Owner(e.profile), e.profile>>} ELSE profileTokens
       /\ edits' = [r \in Edits |->
            IF r = q THEN Void
            ELSE IF edits[r] # Void /\ edits[r].profile = e.profile THEN [edits[r] EXCEPT !.stale = TRUE]
            ELSE edits[r]]
  /\ UNCHANGED made

\* handleDeleteProfile.
DeleteProfile(p) ==
  /\ profileRows[p] # Void
  /\ profileRows' = [profileRows EXCEPT ![p] = Void]
  /\ UNCHANGED <<made, edits, lastLimit, undone, profileTokens>>

ProfileNext ==
  /\ \/ \E q \in Edits :
          \/ CreateInserts(q) \/ WriteProfile(q)
          \/ \E p \in ProfileIds :
               \/ CreateCounts(q, p)
               \/ \E limit \in Limits, pref \in Preferences : UpdateReads(q, p, limit, pref)
               \/ \E pref \in Preferences : PreferencesRead(q, p, pref)
               \/ \E a \in Parents : SwitchReads(q, a, p)
     \/ \E p \in ProfileIds : DeleteProfile(p)
  /\ UNCHANGED parentalVars

-----------------------------------------------------------------------------
(* Parental control.                                                       *)

\* UpsertParentalSettings: a row that is there keeps its PIN and takes the limits.
Upserts(pin, limits) ==
  /\ settings' = IF settings = Void THEN [pin |-> pin, limits |-> limits] ELSE [settings EXCEPT !.limits = limits]
  /\ firstPin' = IF settings = Void THEN pin ELSE firstPin
  /\ lastCall' = limits
  /\ UNCHANGED profileVars

SetPIN(pin) == Upserts(pin, NoLimits)
UpdateRestrictions(limits) == Upserts(NoPin, limits)

DeleteParentalSettings ==
  /\ settings # Void
  /\ settings' = Void
  /\ UNCHANGED <<firstPin, lastCall, profileVars>>

VerifyPIN(pin) == settings # Void /\ settings.pin # NoPin /\ settings.pin = pin

\* exceedsRating: places in the order G to NC-17, 0 for none and for one it does not know.
Exceeds(rating, max) == rating # 0 /\ max # 0 /\ rating > max

\* The window, over midnight when it ends no later than it starts.
InWindow(l, hour) ==
  \/ l.from = Void \/ l.to = Void
  \/ l.from < l.to /\ ~(hour < l.from \/ hour > l.to)
  \/ l.from >= l.to /\ ~(hour < l.from /\ hour > l.to)

IsAllowed(c, hour) ==
  settings # Void =>
    LET l == settings.limits IN
    /\ InWindow(l, hour)
    /\ ~(c.unrated /\ l.unrated)
    /\ ~(c.age > 0 /\ l.age > 0 /\ c.age > l.age)
    /\ ~Exceeds(c.rating, l.rating)

\* CanAccessContent, of a profile's own limits.
CanAccessContent(l, c) ==
  l.age = 0 \/ IF c.age > 0 THEN c.age <= l.age ELSE ~Exceeds(c.rating, l.rating)

ParentalNext ==
  \/ \E pin \in Pins : SetPIN(pin)
  \/ \E limits \in Restrictions : UpdateRestrictions(limits)
  \/ DeleteParentalSettings

ProfilesSpec == ProfilesInit /\ [][ProfileNext \/ ParentalNext]_<<profileVars, parentalVars>>

-----------------------------------------------------------------------------
ProfilesTypeOK ==
  /\ profileRows \in [ProfileIds -> [limit : Limits, pref : Preferences] \cup {Void}]
  /\ \A q \in Edits : edits[q] # Void => edits[q] \in
       [job : {"create", "update", "preferences", "switch"}, profile : ProfileIds,
        row : [limit : Limits, pref : Preferences], stale : BOOLEAN]
  /\ made \subseteq ProfileIds /\ profileTokens \subseteq Parents \X ProfileIds
  /\ settings # Void => settings \in [pin : Pins \cup {NoPin}, limits : Restrictions \cup {NoLimits}]

\* A profile's parental rating is the one handleUpdateProfile set last, unless a
\* request that read the row before another wrote it has put its own copy back.
RatingIsKept == \A p \in ProfileIds : profileRows[p] # Void /\ p \notin undone => profileRows[p].limit = lastLimit[p]

\* An account has no more profiles than the limit but for those that were
\* counted for while others were being made.
ProfilesAreCounted == \A a \in Parents : CountProfiles(a) < MaxProfiles + Cardinality(Edits)

\* The comment of SetPIN says that it sets or updates the PIN (parental.go:42); its
\* statement does neither where there is a row: the first call's PIN, or none, stays
\* till the row is deleted, and every limit there was is lifted.
PinStays ==
  settings # Void =>
    /\ \A pin \in Pins : VerifyPIN(pin) <=> pin = firstPin
    /\ settings.limits = lastCall
    /\ lastCall = NoLimits => \A c \in Contents, h \in Hours : IsAllowed(c, h)

\* What the last call gave as limits holds: nothing is allowed outside its window,
\* above its age or its rating where the content has one, or unrated where it says
\* so; and a profile with the same limits is refused nothing that is allowed.
LimitsHold ==
  settings # Void => \A c \in Contents, h \in Hours : IsAllowed(c, h) =>
    LET l == lastCall IN
    /\ (l.from # Void /\ l.to # Void) =>
         h \in (IF l.from < l.to THEN l.from..l.to ELSE {x \in Hours : x >= l.from \/ x <= l.to})
    /\ (l.age > 0 => c.age <= l.age)
    /\ (l.rating > 0 => c.rating <= l.rating)
    /\ (l.unrated => ~c.unrated)
    /\ CanAccessContent(l, c)

ProfilesInv == ProfilesTypeOK /\ RatingIsKept /\ ProfilesAreCounted /\ PinStays /\ LimitsHold
=============================================================================
