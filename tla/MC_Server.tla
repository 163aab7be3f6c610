------------------------------ MODULE MC_Server ------------------------------
(***************************************************************************)
(* One instance of the parts that serve devices, accounts and other        *)
(* servers, which share no state with each other: in a behaviour one of    *)
(* them is at work and the others rest in an initial state, which loses    *)
(* none of the behaviours of any.                                          *)
(***************************************************************************)
EXTENDS PlaybackSessions, CastSession, SyncPlay, LiveTV, Replication, LRUCache, DlnaServer,
        RequestGuards, Credentials, Accounts, PersonalData, Backup,
        Collections, WatchProgress, Profiles, Manifests

VARIABLE part

Parts == {"playback", "cast", "rooms", "livetv", "replication", "metadata", "dlna", "transport",
          "backoff", "idle", "rate", "keys", "devices", "oauth", "totp", "roles",
          "accounts", "person", "backup", "auto", "tags", "index",
          "watch", "chapters", "profiles", "parental", "hls", "adaptive", "periods", "dash"}

-----------------------------------------------------------------------------
(* Values of the constants that a configuration cannot write.              *)

\* Two tags that differ only in their case.
TypedTags == [word : {"action", "drama", ""}, plain : BOOLEAN]

\* What clients report: nonsense, the end of an item, its beginning.
ClientReports == {[pos |-> -1, dur |-> 0, pct |-> 120],
                  [pos |-> 9, dur |-> 10, pct |-> 90],
                  [pos |-> 1, dur |-> 10, pct |-> 10]}

\* What ffprobe finds: one chapter, two in a row, three that overlap.
FoundChapters == {<<[start |-> 0, end |-> 4]>>,
                  <<[start |-> 0, end |-> 3], [start |-> 3, end |-> 5]>>,
                  <<[start |-> 0, end |-> 6], [start |-> 2, end |-> 4], [start |-> 5, end |-> 8]>>}

\* The id of one user is the beginning of the others'.
IdsBegin ==
  LET short == CHOOSE u \in SpUsers : TRUE
  IN  {<<u, u>> : u \in SpUsers} \cup {<<short, u>> : u \in SpUsers}

\* Every set of calls, requests or callers under way at once is of the same two, as
\* the viewings are; and so are users, devices, profiles, states and two of the keys.
Interchangeable == Permutations(Callers) \cup Permutations(PbUsers)

Account(p) == "a1"
ParentalLimits == {[age |-> 13, rating |-> 0, unrated |-> TRUE, from |-> 1, to |-> 2],
                   [age |-> 0, rating |-> 3, unrated |-> FALSE, from |-> 3, to |-> 1],
                   [age |-> 7, rating |-> 2, unrated |-> FALSE, from |-> Void, to |-> 2]}
Unlimited == [age |-> 0, rating |-> 0, unrated |-> FALSE, from |-> Void, to |-> Void]
Films == [age : {0, 7, 16}, rating : {0, 2, 4}, unrated : BOOLEAN]

-----------------------------------------------------------------------------
Init ==
  /\ part \in Parts
  /\ PlaybackInit /\ CastInit /\ SyncInit /\ LiveInit
  /\ ReplInit /\ CacheInit /\ DlnaInit
  /\ GuardInit /\ CredentialsInit /\ AccountsInit /\ PersonInit /\ BackupInit
  /\ CollectionsInit /\ WatchInit /\ ProfilesInit /\ ManifestsInit
  /\ part # "cast" => controller = "chromecast"
  /\ part # "metadata" => service = "tmdb"
  /\ part # "dlna" => directory = [c \in Containers |-> {}]
  /\ part # "backup" => missing = {} /\ \A f \in BackedUp : live[f] = BlocksOf(1, 0)
  /\ part # "auto" => pool = 1 /\ (part \notin {"tags", "index"} => stored = {})
  /\ part # "index" => fts5
  /\ part # "hls" => length = 4

Next ==
  /\ UNCHANGED part
  /\ \/ part = "playback" /\ PlaybackNext
     \/ part # "playback" /\ UNCHANGED playbackVars
  /\ \/ part = "cast" /\ CastNext
     \/ part # "cast" /\ UNCHANGED castVars
  /\ \/ part = "rooms" /\ SyncNext
     \/ part # "rooms" /\ UNCHANGED syncVars
  /\ \/ part = "livetv" /\ LiveNext
     \/ part # "livetv" /\ UNCHANGED liveVars
  /\ \/ part = "replication" /\ ReplNext
     \/ part # "replication" /\ UNCHANGED replVars
  /\ \/ part = "metadata" /\ CacheNext
     \/ part # "metadata" /\ UNCHANGED cacheVars
  /\ \/ part = "dlna" /\ (ServerNext \/ BrowseNext)
     \/ part = "transport" /\ (ServerNext \/ TransportNext)
     \/ part \notin {"dlna", "transport"} /\ UNCHANGED dlnaVars
  /\ \/ part = "backoff" /\ BackoffNext
     \/ part = "idle" /\ IdleNext
     \/ part = "rate" /\ RateNext
     \/ part \notin {"backoff", "idle", "rate"} /\ UNCHANGED guardVars
  /\ \/ part = "keys" /\ KeyNext
     \/ part = "devices" /\ DeviceNext
     \/ part = "oauth" /\ OauthNext
     \/ part = "totp" /\ TotpNext
     \/ part = "roles" /\ RoleNext
     \/ part \notin {"keys", "devices", "oauth", "totp", "roles"} /\ UNCHANGED credentialVars
  /\ \/ part = "accounts" /\ AccountsNext
     \/ part # "accounts" /\ UNCHANGED accountVars
  /\ \/ part = "person" /\ PersonNext
     \/ part # "person" /\ UNCHANGED personVars
  /\ \/ part = "backup" /\ BackupNext
     \/ part # "backup" /\ UNCHANGED backupVars
  /\ \/ part = "auto" /\ AutoNext
     \/ part = "tags" /\ TagNext
     \/ part = "index" /\ IndexNext
     \/ part \notin {"auto", "tags", "index"} /\ UNCHANGED collectionsVars
  /\ \/ part = "watch" /\ WatchNext
     \/ part = "chapters" /\ ChapterNext
     \/ part \notin {"watch", "chapters"} /\ UNCHANGED <<watchVars, chapterVars>>
  /\ \/ part = "profiles" /\ ProfileNext
     \/ part = "parental" /\ ParentalNext
     \/ part \notin {"profiles", "parental"} /\ UNCHANGED <<profileVars, parentalVars>>
  /\ \/ part = "hls" /\ HlsNext
     \/ part = "adaptive" /\ AdaptiveNext
     \/ part = "periods" /\ PeriodNext
     \/ part = "dash" /\ DashNext
     \/ part \notin {"hls", "adaptive", "periods", "dash"} /\ UNCHANGED manifestVars

Spec == Init /\ [][Next]_<<part, playbackVars, castVars, syncVars, liveVars, replVars,
  cacheVars, dlnaVars, guardVars, credentialVars, accountVars, personVars, backupVars,
  collectionsVars, watchVars, chapterVars, profileVars, parentalVars, manifestVars>>

\* AccountsInv, PersonInv and ProfilesInv: what concerns people's rows.
PeopleInv == AccountsInv /\ PersonInv /\ ProfilesInv

\* WatchInv and ManifestsInv: what concerns a viewer at play.
MediaInv == WatchInv /\ ManifestsInv
=============================================================================
