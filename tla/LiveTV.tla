-------------------------------- MODULE LiveTV --------------------------------
(***************************************************************************)
(* pkg/livetv: channels, recordings and the time shift buffer.  A recording*)
(* is a goroutine that copies the channel's stream into a file until the   *)
(* stream ends or its context does, half a minute after the recording was  *)
(* to end; nothing stops it sooner.  The time shift buffer names a segment *)
(* by the second it is written in and removes the oldest when it is full.  *)
(*                                                                         *)
(* Time is in ticks of a second for the buffer; a recording is past its end*)
(* or not.  The programme guide is left out.                               *)
(***************************************************************************)
EXTENDS Naturals, Sequences

CONSTANTS
  TvChannels, Recordings,
  MaxSegments,   \* maxSize
  Seconds,       \* bound: the seconds there are
  Writes,        \* bound: segments written
  NoChannel

ASSUME LiveAssumption == MaxSegments \in Nat \ {0} /\ Seconds \in Nat /\ Writes \in Nat

VARIABLES
  channels,    \* m.channels
  recs,        \* recording -> [channel, status, phase], or NoChannel
  second,      \* the clock
  segments,    \* segments, oldest first: [path, data]; a path is a second
  files,       \* on disk: path -> data, 0 for none
  written,     \* segments begun so far, which are their data
  crowded,     \* history: a second saw more segments than one
  left         \* history: paths whose write or removal failed and left a file

liveVars == <<channels, recs, second, segments, files, written, crowded, left>>

Statuses == {"scheduled", "recording", "completed", "failed"}
Phases == {"none", "connect", "create", "copy", "over", "ended"}

LiveInit ==
  /\ channels = {}
  /\ recs = [r \in Recordings |-> NoChannel]
  /\ second = 0 /\ written = 0
  /\ segments = <<>> /\ crowded = FALSE /\ left = {}
  /\ files = [p \in 0..Seconds |-> 0]

-----------------------------------------------------------------------------
\* AddChannel: enabled; nothing removes or disables one.
AddChannel(c) ==
  /\ c \notin channels
  /\ channels' = channels \cup {c}
  /\ UNCHANGED <<recs, second, segments, files, written, crowded, left>>

\* ScheduleRecording of a channel there is: nothing ever starts it.
ScheduleRecording(r, c) ==
  /\ recs[r] = NoChannel /\ c \in channels
  /\ recs' = [recs EXCEPT ![r] = [channel |-> c, status |-> "scheduled", phase |-> "none"]]
  /\ UNCHANGED <<channels, second, segments, files, written, crowded, left>>

\* StartRecording, and the goroutine begins.
StartRecording(r, c) ==
  /\ recs[r] = NoChannel /\ c \in channels
  /\ recs' = [recs EXCEPT ![r] = [channel |-> c, status |-> "recording", phase |-> "connect"]]
  /\ UNCHANGED <<channels, second, segments, files, written, crowded, left>>

InPhase(r, phases) == recs[r] # NoChannel /\ recs[r].phase \in phases

GoesOn(r, status, phase) ==
  /\ recs' = [recs EXCEPT ![r].status = status, ![r].phase = phase]
  /\ UNCHANGED <<channels, second, segments, files, written, crowded, left>>

\* The source answers, with whatever status, and the file is created.
Connects(r) == InPhase(r, {"connect"}) /\ GoesOn(r, "recording", "create")
Creates(r) == InPhase(r, {"create"}) /\ GoesOn(r, "recording", "copy")

\* The recording's duration is over: the goroutine does not look at it.
DurationOver(r) == InPhase(r, {"copy"}) /\ GoesOn(r, "recording", "over")

\* The stream ends, before its time or after.
StreamEnds(r) == InPhase(r, {"copy", "over"}) /\ GoesOn(r, "completed", "ended")

\* The request, the file or the copy fails; half a minute past its end the
\* context is done, which is an error of the copy.
RecordingFails(r) ==
  InPhase(r, {"connect", "create", "copy", "over"}) /\ GoesOn(r, "failed", "ended")

-----------------------------------------------------------------------------
Full == Len(segments) >= MaxSegments

\* A segment is begun in a second that has one already.
Crowds == \E i \in 1..Len(segments) : segments[i].path = second

\* Of a segment written the file is there and the list has it last, without the
\* oldest when it was full.
Begun(data) ==
  /\ written < Writes
  /\ written' = data
  /\ crowded' = (crowded \/ Crowds)
  /\ UNCHANGED <<channels, recs, second>>

\* Mutated WriteSegment: the oldest is only taken off the list.
WriteSegmentLeaks(data) ==
  /\ Begun(data)
  /\ segments' = Append(IF Full THEN Tail(segments) ELSE segments, [path |-> second, data |-> data])
  /\ files' = [files EXCEPT ![second] = data]
  /\ left' = left \ {second}

\* WriteSegment: the file, then the removal of the oldest, then the list.  A
\* removal that fails is logged, and the list goes on without the segment.
WriteSegment(data) ==
  /\ Begun(data)
  /\ segments' = Append(IF Full THEN Tail(segments) ELSE segments, [path |-> second, data |-> data])
  /\ LET present == [files EXCEPT ![second] = data]
     IN  \/ /\ files' = IF Full THEN [present EXCEPT ![Head(segments).path] = 0] ELSE present
            /\ left' = left \ {second}
         \/ /\ Full
            /\ files' = present
            /\ left' = (left \ {second}) \cup {Head(segments).path}

\* The write fails: the file was not opened, or part of the data stays in it.
WriteFails(data) ==
  /\ Begun(data)
  /\ \/ UNCHANGED <<files, left>>
     \/ files' = [files EXCEPT ![second] = data] /\ left' = left \cup {second}
  /\ UNCHANGED segments

\* GetPlaylist: the paths in order, sequence number 0 always.
GetPlaylist == [i \in 1..Len(segments) |-> segments[i].path]

SecondPasses ==
  /\ second < Seconds
  /\ second' = second + 1
  /\ UNCHANGED <<channels, recs, segments, files, written, crowded, left>>

LiveNext ==
  \/ \E c \in TvChannels : AddChannel(c)
  \/ \E r \in Recordings, c \in TvChannels : ScheduleRecording(r, c) \/ StartRecording(r, c)
  \/ \E r \in Recordings :
       Connects(r) \/ Creates(r) \/ DurationOver(r) \/ StreamEnds(r) \/ RecordingFails(r)
  \/ WriteSegment(written + 1) \/ WriteFails(written + 1) \/ SecondPasses

LiveSpec == LiveInit /\ [][LiveNext]_liveVars

-----------------------------------------------------------------------------
LiveTypeOK ==
  /\ channels \subseteq TvChannels
  /\ recs \in [Recordings -> [channel : TvChannels, status : Statuses, phase : Phases] \cup {NoChannel}]
  /\ segments \in Seq([path : 0..second, data : 1..written])
  /\ Len(segments) <= MaxSegments /\ left \subseteq 0..second

\* However a recording's goroutine ends, it has said how: it is "recording" only
\* while it runs, and once it has failed or completed it stays so.
RecordingsEnd ==
  \A r \in Recordings : recs[r] # NoChannel =>
    /\ recs[r].status = "recording" <=> recs[r].phase \in {"connect", "create", "copy", "over"}
    /\ recs[r].status \in {"completed", "failed"} <=> recs[r].phase = "ended"

\* Two segments begun within a second have one file, which the second write
\* replaces and the removal of the first takes from the other.  In a buffer that
\* has never seen that, the playlist names files that are there and hold what
\* they were written with, in order, whatever write or removal failed.  The other
\* files on disk are those a failure left, and nothing removes them any more.
PlaylistIsOnDisk ==
  ~crowded =>
    /\ \A p \in 0..Seconds :
         files[p] # 0 <=> p \in left \/ \E i \in 1..Len(segments) : segments[i].path = p
    /\ \A i \in 1..Len(segments) :
         /\ files[segments[i].path] = segments[i].data /\ segments[i].path \notin left
         /\ i > 1 => segments[i - 1].path < segments[i].path

\* What holds of recordings and of the time shift buffer.
LiveInv == LiveTypeOK /\ RecordingsEnd /\ PlaylistIsOnDisk
=============================================================================
