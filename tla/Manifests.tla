------------------------------- MODULE Manifests -------------------------------
(***************************************************************************)
(* What a player is told: the HLS playlists of stream/stream.go and        *)
(* hls/hls.go over what ffmpeg has written so far, the profile chosen by   *)
(* stream/adaptive.go, and the DASH manifests of stream/stream.go (those   *)
(* of dash/handler.go are the same) with the table of dash/dash.go that    *)
(* all requests share.                                                     *)
(*                                                                         *)
(* Jobs and their workers are those of TranscodeJobs; here only what they  *)
(* leave on disk counts.  Tokens, headers, audio tracks and the form of    *)
(* XML and M3U are left out; durations are whole seconds.                  *)
(***************************************************************************)
EXTENDS Naturals, Sequences, Functions

CONSTANTS
  ItemLengths,    \* lengths of items, in segments
  MinSegments,    \* listed segments handleHLSMaster waits for
  Masters,        \* requests for master playlists under way at once
  Launches,       \* bound: transcodes that are launched
  Kbps, Edges,    \* bandwidths that are reported, and the heights of items
  ItemSeconds,    \* lengths of items, in seconds
  MpdCalls,       \* requests for DASH manifests under way at once
  Mpds,           \* bound: DASH manifests asked for
  Torn,           \* a string that was read while it was written
  NotThere        \* no directory, no playlist, no call

\* The profiles by bandwidth: ProfileMap, GenerateMasterForProfiles and the encoder agree on them.
Ladder == <<"audio_only", "mobile_low", "mobile", "tablet", "tv", "tv_4k">>
Rung(p) == CHOOSE i \in DOMAIN Ladder : Ladder[i] = p

\* The profiles the handlers have encoded, in this order.
Encoded == <<"mobile", "tablet">>
Made == {Encoded[i] : i \in DOMAIN Encoded}

DeviceTypes == {"mobile", "tablet", "tv", "other"}
Fields == <<"init", "media">>
FieldNames == {"init", "media"}

ASSUME ManifestsAssumption ==
  /\ ItemLengths \subseteq Nat \ {0} /\ MinSegments \in Nat \ {0} /\ Launches \in Nat /\ Mpds \in Nat
  /\ Kbps \subseteq Nat /\ Edges \subseteq Nat /\ ItemSeconds \subseteq Nat

\* What is on disk for a profile, and a call that builds a manifest.
Outputs == [files : Nat, listed : {NotThere} \cup Nat]
PathPrefixes == Seq(Made \cup {Torn})
MpdRows == [list : Seq(Made), at : Nat, field : Nat, held : {NotThere} \cup PathPrefixes]

ASSUME NotThereAssumption ==
  NotThere \notin Nat /\ NotThere \notin Outputs /\ NotThere \notin PathPrefixes /\ NotThere \notin MpdRows

VARIABLES
  length,     \* the item's, in segments
  disk,       \* profile -> [files, listed]: segments there, and in the playlist; or NotThere
  starting,   \* goroutines that are to start the transcode
  ffmpeg,     \* the index of the profile it encodes, and the segments it has opened; at 0: it does not run
  launched,   \* transcodes launched
  again,      \* history: whether ffmpeg was started over an output that was there
  masters,    \* request -> whether it is waiting
  told,       \* history: the profiles of the last master playlist, until the output is removed
  chosen,     \* the last two adaptive selections: [device, kbps, edge, profile]
  periods,    \* the last manifest of several periods: [of, list, duration]
  templates,  \* profile -> field -> the directories put before its file name
  mpdCalls,   \* request -> [list, at, field, held], or NotThere; past the last, the manifest is to be built
  paths,      \* what the last manifest says: directory -> field -> names, or NotThere
  asked,      \* DASH manifests asked for
  alone       \* history: whether no two of them were ever under way at once

hlsVars == <<length, disk, starting, ffmpeg, launched, again, masters, told>>
planVars == <<chosen, periods>>
dashVars == <<templates, mpdCalls, paths, asked, alone>>
manifestVars == <<hlsVars, planVars, dashVars>>

\* What formatDuration prints, which is left out of a manifest when it is 0.
FormatDuration(s) == [h |-> s \div 3600, m |-> (s \div 60) % 60, s |-> s % 60]
InSeconds(f) == f.h * 3600 + f.m * 60 + f.s

ManifestsInit ==
  /\ length \in ItemLengths
  /\ disk = [p \in Made |-> NotThere] /\ starting = 0 /\ launched = 0 /\ again = FALSE
  /\ ffmpeg = [at |-> 0, opened |-> 0]
  /\ masters = [m \in Masters |-> FALSE] /\ told = {}
  /\ chosen = <<>> /\ periods = [of |-> 0, list |-> <<>>, duration |-> FormatDuration(0)]
  /\ templates = [p \in Made |-> [f \in FieldNames |-> <<>>]]
  /\ mpdCalls = [c \in MpdCalls |-> NotThere] /\ paths = NotThere /\ asked = 0 /\ alone = TRUE

-----------------------------------------------------------------------------
(* HLS.  ffmpeg opens segment files one after the other, and writes the    *)
(* playlist anew when one is complete, just before or after it opens the   *)
(* next.                                                                   *)

There(p) == disk[p] # NotThere
Listed(p) == IF disk[p].listed = NotThere THEN 0 ELSE disk[p].listed
NoOutput == \A p \in Made : ~There(p)
Profile == Encoded[ffmpeg.at]
Opened(i) == disk' = IF There(Encoded[i]) THEN disk
                     ELSE [disk EXCEPT ![Encoded[i]] = [files |-> 0, listed |-> NotThere]]

Launch == launched < Launches /\ launched' = launched + 1 /\ starting' = starting + 1

\* A master playlist is asked for: without an output, a goroutine is to make one.
HandleHLSMaster(m) ==
  /\ ~masters[m]
  /\ masters' = [masters EXCEPT ![m] = TRUE]
  /\ IF NoOutput THEN Launch ELSE UNCHANGED <<launched, starting>>
  /\ UNCHANGED <<length, disk, ffmpeg, again, told>>

\* A DASH manifest is asked for before there is an output: the same, and "waiting" is the answer.
HandleDASHWaiting ==
  /\ NoOutput /\ Launch
  /\ UNCHANGED <<length, disk, ffmpeg, again, masters, told>>

\* Mutated ReadyProfiles: segments are counted that no playlist lists.
ReadyFiles == {p \in Made : There(p) /\ disk[p].files >= MinSegments}

\* The profiles that have enough segments in their playlist.
ReadyProfiles == {p \in Made : There(p) /\ Listed(p) >= MinSegments}

\* It polls until there is one.
MasterAnswers(m) ==
  /\ masters[m] /\ ReadyProfiles # {}
  /\ masters' = [masters EXCEPT ![m] = FALSE]
  /\ told' = ReadyProfiles
  /\ UNCHANGED <<length, disk, starting, ffmpeg, launched, again>>

\* Its deadline passes, or its client goes.
MasterGivesUp(m) ==
  /\ masters[m]
  /\ masters' = [masters EXCEPT ![m] = FALSE]
  /\ UNCHANGED <<length, disk, starting, ffmpeg, launched, again, told>>

\* What handleHLSVariant answers: ffmpeg's playlist or, without one, a list of
\* the segments found, which says that the item ends after them.
HandleHLSVariant(p) ==
  IF disk[p].listed # NotThere
  THEN [segments |-> disk[p].listed, ends |-> disk[p].listed = length]
  ELSE [segments |-> disk[p].files, ends |-> TRUE]

\* A goroutine starts the transcode, over what is there, unless it is under way.
Launched ==
  /\ starting > 0
  /\ starting' = starting - 1
  /\ IF ffmpeg.at # 0
     THEN UNCHANGED <<disk, ffmpeg, again>>
     ELSE /\ ffmpeg' = [at |-> 1, opened |-> 0]
          /\ again' = (again \/ ~NoOutput)
          /\ Opened(1)
  /\ UNCHANGED <<length, launched, masters, told>>

FfmpegOpens ==
  /\ ffmpeg.at # 0 /\ ffmpeg.opened < length
  /\ Listed(Profile) + 1 >= ffmpeg.opened
  /\ ffmpeg' = [ffmpeg EXCEPT !.opened = @ + 1]
  /\ disk' = [disk EXCEPT ![Profile].files = IF @ > ffmpeg.opened THEN @ ELSE ffmpeg.opened + 1]
  /\ UNCHANGED <<length, starting, launched, again, masters, told>>

FfmpegLists ==
  /\ ffmpeg.at # 0
  /\ \E n \in 1..ffmpeg.opened :
       /\ n + 1 >= ffmpeg.opened
       /\ again \/ n > Listed(Profile)
       /\ disk' = [disk EXCEPT ![Profile].listed = n]
  /\ UNCHANGED <<length, starting, ffmpeg, launched, again, masters, told>>

\* The next profile, or the end of the job.
FfmpegExits ==
  /\ ffmpeg.at # 0 /\ ffmpeg.opened = length /\ Listed(Profile) = length
  /\ IF ffmpeg.at = Len(Encoded)
     THEN ffmpeg' = [at |-> 0, opened |-> 0] /\ UNCHANGED disk
     ELSE ffmpeg' = [at |-> ffmpeg.at + 1, opened |-> 0] /\ Opened(ffmpeg.at + 1)
  /\ UNCHANGED <<length, starting, launched, again, masters, told>>

\* It fails, is cancelled or runs out of time: what it wrote stays.
FfmpegStops ==
  /\ ffmpeg.at # 0
  /\ ffmpeg' = [at |-> 0, opened |-> 0]
  /\ UNCHANGED <<length, disk, starting, launched, again, masters, told>>

\* handleDeleteTranscode (its race with a job that starts is in TranscodeJobs).
DeleteTranscode ==
  /\ ffmpeg.at = 0 /\ ~NoOutput
  /\ disk' = [p \in Made |-> NotThere] /\ told' = {} /\ again' = FALSE
  /\ UNCHANGED <<length, starting, ffmpeg, launched, masters>>

HlsNext ==
  /\ \/ \E m \in Masters : HandleHLSMaster(m) \/ MasterAnswers(m) \/ MasterGivesUp(m)
     \/ HandleDASHWaiting
     \/ Launched \/ FfmpegOpens \/ FfmpegLists \/ FfmpegExits \/ FfmpegStops \/ DeleteTranscode
  /\ UNCHANGED <<planVars, dashVars>>

-----------------------------------------------------------------------------
(* Adaptive selection, and manifests of several periods.                   *)

\* By reported bandwidth (0: unknown), kind of device and height of the source.
SelectProfile(device, reported, edge) ==
  LET kbps == IF reported = 0 THEN 5000 ELSE reported
  IN CASE device = "mobile" -> IF kbps < 1500 THEN "mobile_low" ELSE "mobile"
       [] device = "tablet" -> IF kbps < 3000 THEN "mobile" ELSE "tablet"
       [] device = "tv" /\ kbps < 8000 -> "tablet"
       [] device = "tv" /\ kbps >= 8000 -> IF edge >= 2160 THEN "tv_4k" ELSE "tv"
       [] OTHER -> IF kbps < 1500 THEN "mobile_low"
                   ELSE IF kbps < 3000 THEN "mobile"
                   ELSE IF kbps < 6000 THEN "tablet"
                   ELSE IF kbps < 15000 THEN "tv" ELSE "tv_4k"

AdaptivePlaylist ==
  \E d \in DeviceTypes, k \in Kbps, e \in Edges :
    LET choice == [device |-> d, kbps |-> k, edge |-> e, profile |-> SelectProfile(d, k, e)]
    IN chosen' = IF chosen = <<>> THEN <<choice>> ELSE <<chosen[Len(chosen)], choice>>

Chapter == 600

\* Mutated MultiPeriod: the last chapter is as long as the others.
MultiPeriodUncut(d) ==
  [i \in 1..d \div Chapter + 1 |-> [start |-> FormatDuration((i - 1) * Chapter),
                                    duration |-> FormatDuration(Chapter)]]

\* HandleMultiPeriodManifest: a chapter every ten minutes.
MultiPeriod(d) ==
  [i \in 1..d \div Chapter + 1 |->
     LET start == (i - 1) * Chapter
     IN [start |-> FormatDuration(start),
         duration |-> FormatDuration(IF start + Chapter > d THEN d - start ELSE Chapter)]]

\* BuildMultiPeriodMPD: the whole is as long as its periods.
Elapsed(l) ==
  LET total[i \in 0..Len(l)] == IF i = 0 THEN 0 ELSE total[i - 1] + InSeconds(l[i].duration)
  IN  total
TotalDuration(l) == Elapsed(l)[Len(l)]

PeriodManifest ==
  \E d \in ItemSeconds :
    periods' = [of |-> d, list |-> MultiPeriod(d), duration |-> FormatDuration(TotalDuration(MultiPeriod(d)))]

AdaptiveNext == AdaptivePlaylist /\ UNCHANGED <<hlsVars, periods, dashVars>>
PeriodNext == PeriodManifest /\ UNCHANGED <<hlsVars, chosen, dashVars>>

-----------------------------------------------------------------------------
(* DASH.  GetProfileByName copies an entry of ProfileMap, but not the      *)
(* template it points to: each manifest puts the directory before the file *)
(* names once more, for all that follow, under no lock.                    *)

Working(c) == mpdCalls[c] # NotThere
Prefixed(c) == mpdCalls[c].at > Len(mpdCalls[c].list)
At(c) == mpdCalls[c].list[mpdCalls[c].at]
Field(c) == Fields[mpdCalls[c].field]

\* Mutated GetProfileByName: a profile of less bandwidth serves those above it.
GetMobile(dir) == "mobile"

\* The profile a directory is served with: unknown ones are taken for "mobile".
GetProfileByName(dir) == IF \E i \in DOMAIN Ladder : Ladder[i] = dir THEN dir ELSE "mobile"

\* The directories of the item are listed: those of the profiles encoded so far.
ManifestBegins(c) ==
  /\ ~Working(c) /\ asked < Mpds
  /\ asked' = asked + 1
  /\ alone' = (alone /\ \A o \in MpdCalls : ~Working(o))
  /\ \E n \in 1..Len(Encoded) :
       mpdCalls' = [mpdCalls EXCEPT ![c] = [list |-> SubSeq(Encoded, 1, n), at |-> 1, field |-> 1, held |-> NotThere]]
  /\ UNCHANGED <<templates, paths>>

Overlaps(c) ==
  \E o \in MpdCalls \ {c} :
    Working(o) /\ mpdCalls[o].held # NotThere /\ At(o) = At(c) /\ Field(o) = Field(c)

\* A field is read: while another call is at it, it may be torn.
ReadTemplate(c) ==
  /\ Working(c) /\ ~Prefixed(c) /\ mpdCalls[c].held = NotThere
  /\ \E h \in {templates[GetProfileByName(At(c))][Field(c)]} \cup (IF Overlaps(c) THEN {<<Torn>>} ELSE {}) :
       mpdCalls' = [mpdCalls EXCEPT ![c].held = h]
  /\ UNCHANGED <<templates, paths, asked, alone>>

\* And written, with the directory before it; then the next.
WriteTemplate(c) ==
  /\ Working(c) /\ mpdCalls[c].held # NotThere
  /\ templates' = [templates EXCEPT ![GetProfileByName(At(c))][Field(c)] = <<At(c)>> \o mpdCalls[c].held]
  /\ mpdCalls' = [mpdCalls EXCEPT ![c] =
       IF mpdCalls[c].field < Len(Fields) THEN [@ EXCEPT !.field = mpdCalls[c].field + 1, !.held = NotThere]
       ELSE [@ EXCEPT !.at = mpdCalls[c].at + 1, !.field = 1, !.held = NotThere]]
  /\ UNCHANGED <<paths, asked, alone>>

\* GenerateMPD looks at the templates once more; a player puts the
\* representation's base before what it finds.
Representation(dir) == [f \in FieldNames |-> <<dir>> \o templates[GetProfileByName(dir)][f]]

\* BuildMPDForItem, of all the directories listed.
ServeManifest(c) ==
  /\ Working(c) /\ Prefixed(c)
  /\ paths' = [dir \in {mpdCalls[c].list[i] : i \in DOMAIN mpdCalls[c].list} |-> Representation(dir)]
  /\ mpdCalls' = [mpdCalls EXCEPT ![c] = NotThere]
  /\ UNCHANGED <<templates, asked, alone>>

DashNext ==
  /\ \E c \in MpdCalls : ManifestBegins(c) \/ ReadTemplate(c) \/ WriteTemplate(c) \/ ServeManifest(c)
  /\ UNCHANGED <<hlsVars, planVars>>

ManifestsNext == HlsNext \/ AdaptiveNext \/ PeriodNext \/ DashNext

ManifestsSpec == ManifestsInit /\ [][ManifestsNext]_manifestVars

-----------------------------------------------------------------------------
(* Properties.                                                             *)

ManifestsTypeOK ==
  /\ length \in ItemLengths /\ starting \in 0..Launches /\ launched \in 0..Launches
  /\ disk \in [Made -> {NotThere} \cup [files : 0..length, listed : {NotThere} \cup 1..length]]
  /\ ffmpeg \in [at : 0..Len(Encoded), opened : 0..length] /\ again \in BOOLEAN
  /\ masters \in [Masters -> BOOLEAN] /\ told \subseteq Made
  /\ asked \in 0..Mpds /\ alone \in BOOLEAN

\* A player that a master playlist sent to a profile finds ffmpeg's playlist
\* there, with as many segments as the master waited for, and never the list
\* handleHLSVariant makes of the files it finds, which ends the item early:
\* as long as the output is neither removed nor encoded over.
ToldIsServed ==
  ~again => \A p \in told :
    /\ disk[p].listed # NotThere
    /\ HandleHLSVariant(p).segments >= MinSegments
    /\ HandleHLSVariant(p).ends => HandleHLSVariant(p).segments = length

\* Of two selections for the same device and item, the one made for more
\* bandwidth is of no lower profile, and bandwidth that is unknown is taken
\* to be neither the least nor the most (SelectProfile).
MoreBandwidthNoLess ==
  Len(chosen) = 2 =>
    LET a == chosen[1]  b == chosen[2]
        known(k) == IF k = 0 THEN 5000 ELSE k
    IN a.device = b.device /\ a.edge = b.edge /\ known(a.kbps) <= known(b.kbps)
         => Rung(a.profile) <= Rung(b.profile)

\* The periods of a manifest follow each other without a gap and end with the
\* item, whatever its length, which is also that of the whole; the printed times
\* lose no second (HandleMultiPeriodManifest, BuildMultiPeriodMPD).
PeriodsTile ==
  LET l == periods.list
  IN l # <<>> =>
       /\ InSeconds(l[1].start) = 0
       /\ \A i \in 1..Len(l) - 1 : InSeconds(l[i + 1].start) = InSeconds(l[i].start) + InSeconds(l[i].duration)
       /\ InSeconds(l[Len(l)].start) + InSeconds(l[Len(l)].duration) = periods.of
       /\ InSeconds(periods.duration) = periods.of

\* What all manifests share never mixes profiles up: whatever is put before the
\* file names of one is its own directory.  And as long as no two manifests are
\* built at once, the first segment and the others of a representation are
\* looked for in the same place, one directory deeper with each manifest that
\* listed it (handleDASHManifest): deeper than any route serves.
ManifestsInStep ==
  /\ \A p \in Made, f \in FieldNames : Range(templates[p][f]) \subseteq {p, Torn}
  /\ paths # NotThere /\ alone => \A dir \in DOMAIN paths :
       /\ paths[dir]["init"] = paths[dir]["media"] /\ Range(paths[dir]["init"]) = {dir}
       /\ Len(paths[dir]["init"]) \in 2..asked + 1

ManifestsInv ==
  /\ ManifestsTypeOK /\ ToldIsServed /\ MoreBandwidthNoLess /\ PeriodsTile /\ ManifestsInStep
=============================================================================
