----------------------------- MODULE WatchProgress -----------------------------
(***************************************************************************)
(* Resume points, watch history and chapters: progress/progress.go, the    *)
(* same tables in db/db.go, and the handlers of api/items.go, mobile.go    *)
(* and chapters.go.  The service and the handlers write the same rows: the *)
(* service corrects what it is given, the handlers store it as it comes.   *)
(*                                                                         *)
(* A statement of the database is a step; what the service does in two,    *)
(* others may come between.  Times are whole seconds, and ids are given.   *)
(* Of an entry of the history only whether it says watched is kept, and how*)
(* recent rows are is left out: of the rows of a report, which are the most*)
(* recent, any may be within its limit.                                    *)
(***************************************************************************)
EXTENDS Integers, Sequences, FiniteSets

CONSTANTS
  Viewings,        \* items of one user, the key of the user's rows in both tables
  RowLimit,        \* rows a report takes of each table
  Reports,         \* what clients report: [pos, dur, pct]
  Markers,         \* calls of MarkWatched and MarkUnwatched under way at once
  ChapterLists,    \* what ffprobe finds: sequences of [start, end]
  Nothing          \* no row, no call

ProgressRows == [pos : Int, dur : Int, pct : Int]
HistoryRows == [watched : BOOLEAN]
Chapters == [start : Int, end : Int]

\* ffprobe's chapters do not end before they begin; nothing checks it.
ASSUME WatchAssumption ==
  /\ RowLimit \in Nat
  /\ Reports \subseteq ProgressRows /\ Nothing \notin ProgressRows \cup HistoryRows
  /\ ChapterLists \subseteq Seq(Chapters)
  /\ \A list \in ChapterLists : \A n \in DOMAIN list : list[n].start <= list[n].end

VARIABLES
  progress,     \* playback_progress: viewing -> report, or Nothing
  history,      \* watch_history: viewing -> [watched], or Nothing
  markers,      \* call -> [viewing, clears] between its statements, or Nothing
  report,       \* GetPlaybackReporting: [resume, told, entry, whole, ended], or Nothing
  served,       \* history: viewings whose resume point the service wrote last
  begun,        \* history: viewings that were saved and not taken out by DeleteProgress
  chapters,     \* the table of chapters, of one item
  scan          \* a transaction of SaveChapters: [list, written], or Nothing

watchVars == <<progress, history, markers, report, served, begun>>
chapterVars == <<chapters, scan>>

WatchInit ==
  /\ progress = [v \in Viewings |-> Nothing] /\ history = [v \in Viewings |-> Nothing]
  /\ markers = [c \in Markers |-> Nothing] /\ report = Nothing
  /\ served = {} /\ begun = {} /\ chapters = <<>> /\ scan = Nothing

AtLeast(n, low) == IF n < low THEN low ELSE n
AtMost(n, high) == IF n > high THEN high ELSE n

-----------------------------------------------------------------------------
Upsert(v, row) ==
  /\ progress' = [progress EXCEPT ![v] = row]
  /\ begun' = begun \cup {v}

\* Mutated SaveProgress: what the client sent is not corrected.
SaveProgressAsSent(v, r) ==
  /\ Upsert(v, r)
  /\ served' = served \cup {v}
  /\ UNCHANGED <<history, markers, report>>

\* Service.SaveProgress.
SaveProgress(v, r) ==
  /\ r.dur > 0
  /\ Upsert(v, [pos |-> AtLeast(r.pos, 0), dur |-> r.dur, pct |-> AtMost(AtLeast(r.pct, 0), 100)])
  /\ served' = served \cup {v}
  /\ UNCHANGED <<history, markers, report>>

\* DB.SavePlaybackProgress, for handleSaveProgress and handleSyncProgress.
SavePlaybackProgress(v, r) ==
  /\ Upsert(v, r)
  /\ served' = served \ {v}
  /\ UNCHANGED <<history, markers, report>>

\* DeleteProgress, called for itself.
DeleteProgress(v) ==
  /\ progress[v] # Nothing
  /\ progress' = [progress EXCEPT ![v] = Nothing]
  /\ begun' = begun \ {v}
  /\ UNCHANGED <<history, markers, report, served>>

\* SaveWatchHistory, for handleMarkWatched: the resume point stays.
SaveWatchHistory(v, watched) ==
  /\ history' = [history EXCEPT ![v] = [watched |-> watched]]
  /\ UNCHANGED <<progress, markers, report, served, begun>>

\* Whether nine tenths were watched.
NearEnd(pos, dur) == 10 * pos >= 9 * dur

\* Service.MarkWatched: the entry first,
MarkWatched(c, v, r) ==
  /\ markers[c] = Nothing /\ r.dur > 0
  /\ history' = [history EXCEPT ![v] = [watched |-> TRUE]]
  /\ markers' = [markers EXCEPT ![c] = [viewing |-> v, clears |-> NearEnd(AtLeast(r.pos, 0), r.dur)]]
  /\ UNCHANGED <<progress, report, served, begun>>

MarkUnwatched(c, v) ==
  /\ markers[c] = Nothing
  /\ history' = [history EXCEPT ![v] = [watched |-> FALSE]]
  /\ markers' = [markers EXCEPT ![c] = [viewing |-> v, clears |-> TRUE]]
  /\ UNCHANGED <<progress, report, served, begun>>

\* then the resume point, even one that was saved in between; that the deletion
\* fails is ignored.
MarkClears(c) ==
  /\ markers[c] # Nothing
  /\ \/ UNCHANGED progress
     \/ /\ markers[c].clears
        /\ progress' = [progress EXCEPT ![markers[c].viewing] = Nothing]
  /\ markers' = [markers EXCEPT ![c] = Nothing]
  /\ UNCHANGED <<history, report, served, begun>>

-----------------------------------------------------------------------------
RowsIn(table) == {v \in Viewings : table[v] # Nothing}

\* ORDER BY the time, LIMIT: as many of the rows as there are, or as it allows.
Selections(table) ==
  IF Cardinality(RowsIn(table)) <= RowLimit THEN {RowsIn(table)}
  ELSE {chosen \in SUBSET RowsIn(table) : Cardinality(chosen) = RowLimit}

\* No row of the table is beyond the limit.
Within(table) == Cardinality(RowsIn(table)) <= RowLimit

\* GetPlaybackReporting and SyncReport read the resume points first,
ReportReads ==
  /\ report # Nothing => report.ended
  /\ \E resume \in Selections(progress) :
       report' = [resume |-> resume, told |-> begun, entry |-> {},
                  whole |-> Within(progress), ended |-> FALSE]
  /\ UNCHANGED <<progress, history, markers, served, begun>>

\* and then the history.
ReportEnds ==
  /\ report # Nothing /\ ~report.ended
  /\ \E entry \in Selections(history) :
       report' = [report EXCEPT !.entry = entry, !.ended = TRUE,
                                !.whole = @ /\ Within(history)]
  /\ UNCHANGED <<progress, history, markers, served, begun>>

\* GetContinueWatching, whatever the history says.
ContinueWatching == {v \in Viewings : progress[v] # Nothing /\ progress[v].pct \in 1..94}

-----------------------------------------------------------------------------
\* handleScanChapters: SaveChapters takes the old rows out in a transaction,
ScanChapters(list) ==
  /\ scan = Nothing /\ list # <<>>
  /\ scan' = [list |-> list, written |-> <<>>]
  /\ UNCHANGED chapters

\* writes the new ones, and commits them or leaves the table as it was.
WriteChapter ==
  /\ scan # Nothing /\ Len(scan.written) < Len(scan.list)
  /\ scan' = [scan EXCEPT !.written = Append(@, scan.list[Len(@) + 1])]
  /\ UNCHANGED chapters

CommitChapters ==
  /\ scan # Nothing /\ Len(scan.written) = Len(scan.list)
  /\ chapters' = scan.written
  /\ scan' = Nothing

SaveChaptersFails ==
  /\ scan # Nothing
  /\ scan' = Nothing
  /\ UNCHANGED chapters

\* GetChapterAtPosition, by its first row: the index of the chapter, or 0.
ChapterAt(p) ==
  LET Holding == {n \in DOMAIN chapters : chapters[n].start <= p /\ chapters[n].end > p}
  IN IF Holding = {} THEN 0 ELSE CHOOSE n \in Holding : \A m \in Holding : n <= m

\* handleGetChapterAt: the last of the list that began by then.
CurrentChapter(list, p) ==
  LET Begun == {n \in DOMAIN list : list[n].start <= p}
  IN IF Begun = {} THEN 0 ELSE CHOOSE n \in Begun : \A m \in Begun : n >= m

\* handleListChapters and handleGetChapterAt parse a column GetItemByID does not select.
ListChapters == <<>>

WatchNext ==
  /\ \/ \E v \in Viewings, r \in Reports :
          \/ SaveProgress(v, r) \/ SavePlaybackProgress(v, r)
          \/ \E c \in Markers : MarkWatched(c, v, r)
     \/ \E v \in Viewings :
          \/ DeleteProgress(v)
          \/ \E watched \in BOOLEAN : SaveWatchHistory(v, watched)
          \/ \E c \in Markers : MarkUnwatched(c, v)
     \/ \E c \in Markers : MarkClears(c)
     \/ ReportReads \/ ReportEnds
  /\ UNCHANGED chapterVars

ChapterNext ==
  /\ (\E list \in ChapterLists : ScanChapters(list)) \/ WriteChapter \/ CommitChapters \/ SaveChaptersFails
  /\ UNCHANGED watchVars

WatchSpec == WatchInit /\ [][WatchNext \/ ChapterNext]_<<watchVars, chapterVars>>

-----------------------------------------------------------------------------
WatchTypeOK ==
  /\ \A v \in Viewings :
       /\ progress[v] # Nothing => progress[v] \in ProgressRows
       /\ history[v] # Nothing => history[v] \in HistoryRows
  /\ \A c \in Markers : markers[c] # Nothing => markers[c] \in [viewing : Viewings, clears : BOOLEAN]
  /\ served \subseteq Viewings /\ begun \subseteq Viewings
  /\ report # Nothing => report.resume \cup report.entry \subseteq Viewings

\* What the service wrote last is a place in something that lasts, and a
\* percentage; a handler's row may be anything its client sent.  A viewing that
\* is offered to be continued was saved, and not taken out since.
ServiceRowsAreSound ==
  /\ \A v \in served : progress[v] # Nothing =>
       progress[v].dur > 0 /\ progress[v].pos >= 0 /\ progress[v].pct \in 0..100
  /\ ContinueWatching \subseteq begun

\* A report that meets neither limit misses no viewing that was saved before it,
\* though one is marked watched meanwhile: MarkWatched writes the entry before it
\* clears the resume point, and the report reads the resume points before the
\* entries.  At a limit it may miss any but the most recent.
ReportsMissNothing ==
  report # Nothing /\ report.ended /\ report.whole => report.told \subseteq report.resume \cup report.entry

\* What is in the table of chapters is the whole of one scan.
ChaptersAreWhole == chapters \in ChapterLists \cup {<<>>}

\* Where chapters follow each other without a gap, the table and the handler find the
\* same one; the handler looks for it in a list that is always empty.
ChaptersAgree ==
  /\ \A p \in 0..10 :
       /\ \A n \in 2..Len(chapters) : chapters[n].start = chapters[n - 1].end
       /\ chapters # <<>> /\ p < chapters[Len(chapters)].end
       => ChapterAt(p) = CurrentChapter(chapters, p)
  /\ \A p \in 0..10 : CurrentChapter(ListChapters, p) = 0

WatchInv == WatchTypeOK /\ ServiceRowsAreSound /\ ReportsMissNothing /\ ChaptersAreWhole /\ ChaptersAgree
=============================================================================
