----------------------------- MODULE Replication -----------------------------
(***************************************************************************)
(* pkg/cluster/replication.go with handleReplicate of server.go: a node    *)
(* ships the whole write-ahead log to the nodes its registry has as        *)
(* healthy, when the log is longer than when it was last shipped, and a    *)
(* node that receives one appends it to its own.                           *)
(*                                                                         *)
(* A log is the sequence of the frames written to it.  The database writes *)
(* a frame, or starts the log over after a checkpoint.  Which nodes are    *)
(* healthy is ClusterRegistry's and may be any at each shipment.           *)
(***************************************************************************)
EXTENDS Naturals, Sequences, SequencesExt, FiniteSets

CONSTANTS
  ReplNodes, Source,   \* the nodes, and the one that writes
  Frames,              \* bound: frames written
  Shipments            \* bound: shipments

ASSUME ReplicationAssumption ==
  Source \in ReplNodes /\ Frames \in Nat /\ Shipments \in Nat

VARIABLES
  wal,        \* wal[n]: the log of n; a frame is its number
  frames,     \* frames written
  lastSent,   \* length of the log when it was last shipped
  posts,      \* sendWALToNode goroutines: [to, data, number]
  shipped,    \* shipments so far, which number them
  since       \* history: frames in the log when it was last started over

replVars == <<wal, frames, lastSent, posts, shipped, since>>

Log == Seq(1..Frames)

ReplInit ==
  /\ wal = [n \in ReplNodes |-> <<>>]
  /\ frames = 0 /\ lastSent = 0 /\ shipped = 0 /\ since = 0
  /\ posts = {}

\* A transaction commits on the source.
WriteFrame ==
  /\ frames < Frames
  /\ frames' = frames + 1
  /\ wal' = [wal EXCEPT ![Source] = Append(@, frames + 1)]
  /\ UNCHANGED <<lastSent, posts, shipped, since>>

\* A checkpoint: the next writer starts the log from its beginning.
Checkpoint ==
  /\ wal[Source] # <<>>
  /\ wal' = [wal EXCEPT ![Source] = <<>>]
  /\ since' = frames
  /\ UNCHANGED <<frames, lastSent, posts, shipped>>

\* Mutated ShipWAL: the log is shipped when it is not shorter than it was.
ShipAgain(healthy, grown) ==
  LET length == Len(wal[Source])
      more == IF grown /\ frames < Frames THEN <<frames + 1>> ELSE <<>>
  IN  /\ shipped < Shipments /\ wal[Source] # <<>> /\ length >= lastSent
      /\ wal' = [wal EXCEPT ![Source] = @ \o more]
      /\ frames' = frames + Len(more)
      /\ shipped' = shipped + 1
      /\ posts' = posts \cup {[to |-> n, data |-> wal[Source] \o more, number |-> shipped + 1] :
                               n \in healthy \ {Source}}
      /\ lastSent' = length
      /\ UNCHANGED since

\* shipWAL: nothing to do without a log or one no longer than the last shipped.
\* The length is taken before the log is read, which may have grown by then; all
\* of it is sent, and lastSent set, whatever becomes of the posts.
ShipWAL(healthy, grown) ==
  LET length == Len(wal[Source])
      more == IF grown /\ frames < Frames THEN <<frames + 1>> ELSE <<>>
  IN  /\ shipped < Shipments /\ length > lastSent
      /\ wal' = [wal EXCEPT ![Source] = @ \o more]
      /\ frames' = frames + Len(more)
      /\ shipped' = shipped + 1
      /\ posts' = posts \cup {[to |-> n, data |-> wal[Source] \o more, number |-> shipped + 1] :
                               n \in healthy \ {Source}}
      /\ lastSent' = length
      /\ UNCHANGED since

\* handleReplicate and ApplyWAL: appended, whatever there is.  The answer may be
\* lost, but a post is never sent twice.
ApplyWAL(post) ==
  /\ post \in posts
  /\ wal' = [wal EXCEPT ![post.to] = @ \o post.data]
  /\ posts' = posts \ {post}
  /\ UNCHANGED <<frames, lastSent, shipped, since>>

\* The request fails: a log line.
PostFails(post) ==
  /\ post \in posts
  /\ posts' = posts \ {post}
  /\ UNCHANGED <<wal, frames, lastSent, shipped, since>>

ReplNext ==
  \/ WriteFrame \/ Checkpoint
  \/ \E healthy \in SUBSET ReplNodes, grown \in BOOLEAN : ShipWAL(healthy, grown)
  \/ \E post \in posts : ApplyWAL(post) \/ PostFails(post)

ReplSpec == ReplInit /\ [][ReplNext]_replVars

-----------------------------------------------------------------------------
ReplTypeOK ==
  /\ wal \in [ReplNodes -> Log]
  /\ frames \in 0..Frames /\ shipped \in 0..Shipments
  /\ lastSent \in 0..frames /\ since \in 0..frames
  /\ posts \subseteq [to : ReplNodes \ {Source}, data : Log, number : 1..shipped]

\* How often a log has a frame.
Copies(log, frame) == Cardinality({i \in 1..Len(log) : log[i] = frame})

\* What a replica has is made of shipments, each a run of the source's frames from
\* a start of its log: a frame is there only after its transaction committed, is
\* there with every frame before it of its log, and no more often than it was
\* sent.  A log that has not been started over is sent again only when it has
\* grown, so a frame is there once for each length that holds it at most, and once more
\* when it was written between the two looks at the file.
ReplicaOfShipments ==
  \A n \in ReplNodes \ {Source} : \A f \in ToSet(wal[n]) :
    /\ f <= frames
    /\ Copies(wal[n], f) <= shipped
    /\ since = 0 => Copies(wal[n], f) <= 2 + frames - f
    /\ \A g \in 1..f : since = 0 => Copies(wal[n], g) >= Copies(wal[n], f)

\* What holds of the replicas.
ReplicationInv == ReplTypeOK /\ ReplicaOfShipments
=============================================================================
