----------------------------- MODULE ShardedSend -----------------------------
(***************************************************************************)
(* `wfgen shard-frames` and `wfgen send-arrow` (wfgen, cmd_frames): frames *)
(* replayed to the engine over several connections at once.                *)
(*                                                                         *)
(*   "raw"      every connection sends a copy of the whole file            *)
(*   "sharded"  one reader splits the rows by key and feeds a writer per   *)
(*              connection through a bounded channel                       *)
(*   "files"    shard-frames has split the file, each connection copies    *)
(*              one part                                                   *)
(*                                                                         *)
(* With --sentinel a writer reports its connection's row count in a frame  *)
(* of its own, on a connection of its own.  The engine (outside the        *)
(* repository) reads the connections in any order.                         *)
(*                                                                         *)
(* A row is [tag, key, id]; a message is one frame on the wire.            *)
(***************************************************************************)
EXTENDS Integers, Sequences, FiniteSets

SX == INSTANCE SequencesExt     \* ToSet

CONSTANTS
    Modes,          \* the ways of sending considered: "raw", "sharded", "files"
    Frames,         \* the frame file: a sequence of [tag, keys]
    KeyedStreams,   \* the streams --shard-keys lists
    OddStreams,     \* of these, the ones whose key column is of a type
                    \*   row_shard does not hash
    Connections,    \* their number
    ChannelCap,     \* messages a channel holds (16)
    NetCap,         \* messages the network holds for a connection
    TargetRows,     \* rows shard_frames gathers in a frame (100000)
    Sentinel,       \* whether --sentinel is given
    MaxFaults       \* bound: broken connections, unreadable frames

Conns == 0 .. Connections - 1
Keys == UNION {SX!ToSet(Frames[f].keys) : f \in DOMAIN Frames}
Tags == {Frames[f].tag : f \in DOMAIN Frames}

ASSUME SendAssumption ==
    /\ Modes \subseteq {"raw", "sharded", "files"}
    /\ Frames \in Seq([tag : Tags, keys : Seq(Keys)])
    /\ Connections \in Nat \ {0} /\ ChannelCap \in Nat \ {0} /\ NetCap \in Nat \ {0}
    /\ TargetRows \in Nat \ {0}
    /\ Sentinel \in BOOLEAN

VARIABLES
    mode,       \* the way the command sends
    hash,       \* fnv1a modulo the connections: of a key, of a row number
    main,       \* the command: splitting, reading, joining, or its result
    at,         \* frames read
    gather,     \* per connection, shard_frames' file and pending batch
    out,        \* messages of the current frame still to hand to the writers
    joined,     \* writers joined
    chan,       \* per connection, messages waiting for its writer
    writer,     \* per connection, where its writer is
    rows,       \* per connection, sent_rows, or the rows of its file
    net,        \* per connection, messages on their way
    bottles,    \* sentinels on their way: [round, n]
    got,        \* what the engine has read: rows with their connection, in order
    landed,     \* sentinels the engine has read
    exited,     \* the process is gone
    faults      \* counter behind MaxFaults

setup == << mode, hash >>
reader == << main, at, gather, out, joined >>
vars == << setup, reader, chan, writer, rows, net, bottles, got, landed, exited, faults >>

-----------------------------------------------------------------------------
(* Rows and where they go. *)

RowsOfFrame(f) ==
    [i \in DOMAIN Frames[f].keys |->
        [tag |-> Frames[f].tag, key |-> Frames[f].keys[i], id |-> << f, i >>]]

\* Row numbers are hashed only for the columns that are not.
RowHashes == IF OddStreams = {} THEN {<< >>}
             ELSE [{i - 1 : i \in UNION {DOMAIN Frames[f].keys : f \in DOMAIN Frames}} -> Conns]

FileRows == UNION {SX!ToSet(RowsOfFrame(f)) : f \in DOMAIN Frames}

\* Mutant of ShardOf: every column is split by row number.
ShardByRow(row, h) == (row.id[2] - 1) % Connections

\* row_shard: the hash of the key, the row number for other column types.
ShardOf(row, h) ==
    IF row.tag \in OddStreams THEN h.ofRow[row.id[2] - 1] ELSE h.ofKey[row.key]

\* The numbers of a finite set, smallest first.
InOrder(K) == [j \in 1 .. Cardinality(K) |->
                CHOOSE i \in K : Cardinality({k \in K : k <= i}) = j]

\* shard_batch: the rows of a frame that fall to one connection, by a mask
\* that keeps their order.
Mask(f, c, h) == {i \in DOMAIN Frames[f].keys : ShardOf(RowsOfFrame(f)[i], h) = c}

SubBatch(f, c, h) ==
    LET kept == InOrder(Mask(f, c, h))
    IN  [j \in DOMAIN kept |-> RowsOfFrame(f)[kept[j]]]

Raw(f) == [raw |-> TRUE, tag |-> Frames[f].tag, rows |-> RowsOfFrame(f)]
Batch(tag, rs) == [raw |-> FALSE, tag |-> tag, rows |-> rs]

\* What the reader hands out for a frame, in order: the sub-batches of a
\* listed stream, the untouched frame to connection 0 otherwise.
Route(f, h) ==
    IF Frames[f].tag \notin KeyedStreams THEN << [to |-> 0, msg |-> Raw(f)] >>
    ELSE LET targets == InOrder({c \in Conns : Mask(f, c, h) # {}})
         IN  [j \in DOMAIN targets |->
                [to |-> targets[j],
                 msg |-> Batch(Frames[f].tag, SubBatch(f, targets[j], h))]]

-----------------------------------------------------------------------------
(* shard_frames: the file of one shard, gathered over the input's frames.  *)
(* A gathering is what is written and the batch that is pending.           *)

\* flush_pending: the batch becomes a frame under its own stream's tag.
Flush(g) == IF g.rows = << >> THEN g
            ELSE [g EXCEPT !.file = Append(@, Batch(g.tag, g.rows)), !.rows = << >>]

\* One frame of the input, as the shard of connection c sees it.
Gather(g, f, c, h) ==
    IF Frames[f].tag \notin KeyedStreams
    THEN IF c = 0 THEN [g EXCEPT !.file = Append(@, Raw(f))] ELSE g
    ELSE LET sub == SubBatch(f, c, h)
             base == IF g.tag = Frames[f].tag THEN g
                     ELSE [Flush(g) EXCEPT !.tag = Frames[f].tag]
             next == [base EXCEPT !.rows = @ \o sub]
         IN  IF sub = << >> THEN g
             ELSE IF Len(next.rows) >= TargetRows THEN Flush(next) ELSE next

Empty == [file |-> << >>, tag |-> "none", rows |-> << >>]

-----------------------------------------------------------------------------
(* In the file modes a task copies its file; the file stands in the channel. *)

\* Where the messages of a connection hold a row, the row there, and the rows.
Places(msgs) == UNION {{m} \X DOMAIN msgs[m].rows : m \in DOMAIN msgs}
RowAt(msgs, p) == msgs[p[1]].rows[p[2]]
RowsIn(msgs) == {RowAt(msgs, p) : p \in Places(msgs)}

\* scan_frames: the rows of a file.
Scan(msgs) == Cardinality(Places(msgs))

Init ==
    /\ mode \in Modes
    /\ \E ofKey \in [Keys -> Conns] : \E ofRow \in RowHashes :
            hash = [ofKey |-> ofKey, ofRow |-> ofRow]
    /\ main = CASE mode = "files" -> "split" [] mode = "sharded" -> "read"
                [] mode = "raw" -> "join"
    /\ at = 0 /\ out = << >> /\ joined = 0
    /\ gather = [c \in Conns |-> Empty]
    /\ chan = [c \in Conns |->
                IF mode = "raw" THEN [f \in DOMAIN Frames |-> Raw(f)] ELSE << >>]
    /\ writer = [c \in Conns |-> "connect"]
    /\ rows = [c \in Conns |-> Scan(chan[c])]
    /\ net = [c \in Conns |-> << >>]
    /\ bottles = {} /\ got = << >> /\ landed = {}
    /\ exited = FALSE /\ faults = 0

Fault == faults < MaxFaults /\ faults' = faults + 1

\* The senders are dropped when the reader is done with its input, or returns.
Closed == main \notin {"split", "read"}

-----------------------------------------------------------------------------
(* shard_frames, a command of its own before the files are sent. *)

SplitFrame ==
    /\ main = "split" /\ at < Len(Frames)
    /\ at' = at + 1
    /\ gather' = [c \in Conns |-> Gather(gather[c], at + 1, c, hash)]
    /\ UNCHANGED << setup, main, out, joined, chan, writer, rows, net, bottles, got,
                    landed, exited, faults >>

\* What is pending is flushed and the files are closed; send_arrow_copy_files
\* counts the rows of each.
SplitEnds ==
    /\ main = "split" /\ at = Len(Frames)
    /\ main' = "join"
    /\ chan' = [c \in Conns |-> Flush(gather[c]).file]
    /\ rows' = [c \in Conns |-> Scan(chan'[c])]
    /\ gather' = [c \in Conns |-> Empty]
    /\ UNCHANGED << setup, at, out, joined, writer, net, bottles, got, landed, exited,
                    faults >>

-----------------------------------------------------------------------------
(* The reader, send_arrow_sharded's own task. *)

ReadFrame ==
    /\ main = "read" /\ out = << >> /\ at < Len(Frames)
    /\ at' = at + 1
    /\ out' = Route(at + 1, hash)
    /\ UNCHANGED << setup, main, gather, joined, chan, writer, rows, net, bottles, got,
                    landed, exited, faults >>

\* A frame cannot be read, decoded or split.
ReadError ==
    /\ main = "read" /\ out = << >> /\ at < Len(Frames)
    /\ Fault
    /\ main' = "failed"
    /\ UNCHANGED << setup, at, gather, out, joined, chan, writer, rows, net, bottles,
                    got, landed, exited >>

\* The channel has room.
HandOver ==
    /\ main = "read" /\ out # << >>
    /\ LET c == Head(out).to
       IN  /\ writer[c] # "failed"
           /\ Len(chan[c]) < ChannelCap
           /\ chan' = [chan EXCEPT ![c] = Append(@, Head(out).msg)]
    /\ out' = Tail(out)
    /\ UNCHANGED << setup, main, at, gather, joined, writer, rows, net, bottles, got,
                    landed, exited, faults >>

\* Mutant of HandOverFails: a dead writer is only noticed on the last frame.
HandOverHangs ==
    /\ main = "read" /\ out # << >> /\ at = Len(Frames)
    /\ writer[Head(out).to] = "failed"
    /\ main' = "failed"
    /\ UNCHANGED << setup, at, gather, out, joined, chan, writer, rows, net, bottles,
                    got, landed, exited, faults >>

\* The writer has ended and dropped its end: "writer channel closed".
HandOverFails ==
    /\ main = "read" /\ out # << >>
    /\ writer[Head(out).to] = "failed"
    /\ main' = "failed"
    /\ UNCHANGED << setup, at, gather, out, joined, chan, writer, rows, net, bottles,
                    got, landed, exited, faults >>

EndOfInput ==
    /\ main = "read" /\ out = << >> /\ at = Len(Frames)
    /\ main' = "join"
    /\ UNCHANGED << setup, at, gather, out, joined, chan, writer, rows, net, bottles,
                    got, landed, exited, faults >>

\* The writers are joined in order; the first error is the command's.
Join ==
    /\ main = "join" /\ joined < Connections
    /\ \/ /\ writer[joined] = "done"
          /\ joined' = joined + 1
          /\ main' = IF joined + 1 = Connections THEN "ok" ELSE main
       \/ /\ writer[joined] = "failed"
          /\ main' = "failed"
          /\ UNCHANGED joined
    /\ UNCHANGED << setup, at, gather, out, chan, writer, rows, net, bottles, got,
                    landed, exited, faults >>

\* The command has returned; writers it did not join stop where they are.
Exit ==
    /\ main \in {"ok", "failed"} /\ ~exited
    /\ exited' = TRUE
    /\ UNCHANGED << setup, reader, chan, writer, rows, net, bottles, got, landed, faults >>

-----------------------------------------------------------------------------
(* The writer of connection c. *)

Connect(c) ==
    /\ ~exited /\ main # "split" /\ writer[c] = "connect"
    /\ writer' = [writer EXCEPT ![c] = "run"]
    /\ UNCHANGED << setup, reader, chan, rows, net, bottles, got, landed, exited, faults >>

\* The rows a message adds: none for a frame that is passed on undecoded, nor
\* in the file modes, where the file is scanned beforehand.
Counted(msg) == IF mode # "sharded" \/ msg.raw THEN 0 ELSE Len(msg.rows)

\* Mutant of WriteNext: messages are counted, not their rows.
WriteNextCountsFrames(c) ==
    /\ ~exited /\ writer[c] = "run"
    /\ chan[c] # << >> /\ Len(net[c]) < NetCap
    /\ chan' = [chan EXCEPT ![c] = Tail(@)]
    /\ net' = [net EXCEPT ![c] = Append(@, Head(chan[c]))]
    /\ rows' = [rows EXCEPT ![c] = @ + 1]
    /\ UNCHANGED << setup, reader, writer, bottles, got, landed, exited, faults >>

\* The next message is encoded and written to the connection.
WriteNext(c) ==
    /\ ~exited /\ writer[c] = "run"
    /\ chan[c] # << >> /\ Len(net[c]) < NetCap
    /\ chan' = [chan EXCEPT ![c] = Tail(@)]
    /\ net' = [net EXCEPT ![c] = Append(@, Head(chan[c]))]
    /\ rows' = [rows EXCEPT ![c] = @ + Counted(Head(chan[c]))]
    /\ UNCHANGED << setup, reader, writer, bottles, got, landed, exited, faults >>

\* Mutant of WriterEnds: the channel is not drained once it is closed.
WriterEndsAtOnce(c) ==
    /\ ~exited /\ writer[c] = "run"
    /\ Closed
    /\ writer' = [writer EXCEPT ![c] =
                    IF Sentinel /\ rows[c] > 0 THEN "sentinel" ELSE "done"]
    /\ UNCHANGED << setup, reader, chan, rows, net, bottles, got, landed, exited, faults >>

\* The channel is closed and drained (the file is copied).
WriterEnds(c) ==
    /\ ~exited /\ writer[c] = "run"
    /\ chan[c] = << >> /\ Closed
    /\ writer' = [writer EXCEPT ![c] =
                    IF Sentinel /\ rows[c] > 0 THEN "sentinel" ELSE "done"]
    /\ UNCHANGED << setup, reader, chan, rows, net, bottles, got, landed, exited, faults >>

\* send_conn_sentinel: {round = c, n} over a new connection.
SendSentinel(c) ==
    /\ ~exited /\ writer[c] = "sentinel"
    /\ bottles' = bottles \cup {[round |-> c, n |-> rows[c]]}
    /\ writer' = [writer EXCEPT ![c] = "done"]
    /\ UNCHANGED << setup, reader, chan, rows, net, got, landed, exited, faults >>

\* An error of the writer: it cannot connect, or a send fails and what the
\* connection still held may be lost with it, from some point on.
WriterFails(c) ==
    /\ ~exited /\ main # "split" /\ writer[c] \in {"connect", "run", "sentinel"}
    /\ Fault
    /\ writer' = [writer EXCEPT ![c] = "failed"]
    /\ chan' = [chan EXCEPT ![c] = << >>]
    /\ \E kept \in 0 .. Len(net[c]) : net' = [net EXCEPT ![c] = SubSeq(@, 1, kept)]
    /\ UNCHANGED << setup, reader, rows, bottles, got, landed, exited >>

-----------------------------------------------------------------------------
(* The engine. *)

Receive(c) ==
    /\ net[c] # << >>
    /\ net' = [net EXCEPT ![c] = Tail(@)]
    /\ LET rs == Head(net[c]).rows
       IN  got' = got \o [i \in DOMAIN rs |-> [conn |-> c, row |-> rs[i]]]
    /\ UNCHANGED << setup, reader, chan, writer, rows, bottles, landed, exited, faults >>

\* A sentinel arrives, before or after rows its connection still holds.
Land(b) ==
    /\ bottles' = bottles \ {b}
    /\ landed' = landed \cup {b}
    /\ UNCHANGED << setup, reader, chan, writer, rows, net, got, exited, faults >>

-----------------------------------------------------------------------------
Reader == SplitFrame \/ SplitEnds \/ ReadFrame \/ HandOver \/ HandOverFails \/ EndOfInput \/ Join

Writer(c) == Connect(c) \/ WriteNext(c) \/ WriterEnds(c) \/ SendSentinel(c)

Engine == (\E c \in Conns : Receive(c)) \/ (\E b \in bottles : Land(b))

Next ==
    \/ Reader \/ ReadError \/ Exit
    \/ \E c \in Conns : Writer(c) \/ WriterFails(c)
    \/ Engine

Spec == Init /\ [][Next]_vars

\* Tasks of the runtime are polled, and the engine reads every connection.
FairSpec ==
    /\ Spec
    /\ WF_vars(Reader)
    /\ \A c \in Conns : WF_vars(Writer(c)) /\ WF_vars(Receive(c))

-----------------------------------------------------------------------------
(* Properties. *)

\* The rows of one key of a listed stream, and of one unlisted stream, reach
\* the engine in the order of the file with nothing missing in between,
\* whatever the other connections do and whichever fail (mod.rs:90-94: what
\* makes several connections safe for stateful rules).  Not so for a column
\* of a type that is not hashed, nor for the raw copy, which repeats the file.
Alike(a, b) == a.tag = b.tag /\ (a.tag \in KeyedStreams => a.key = b.key)
Earlier(a, b) == a.id[1] < b.id[1] \/ (a.id[1] = b.id[1] /\ a.id[2] < b.id[2])

PerKeyOrder ==
    mode # "raw" => \A n \in DOMAIN got : got[n].row.tag \notin OddStreams =>
        /\ got[n].row \in FileRows
        /\ \A m \in 1 .. n - 1 : got[m].row # got[n].row
        /\ \A row \in FileRows : Alike(row, got[n].row) /\ Earlier(row, got[n].row) =>
                \E m \in 1 .. n - 1 : got[m].row = row

\* What connection c has been handed over the network, read or not; and that
\* it was handed no row twice.
Read(c) == {got[n].row : n \in {m \in DOMAIN got : got[m].conn = c}}
Handed(c) == Read(c) \cup RowsIn(net[c])

NoneTwice(c) ==
    /\ \A m, n \in DOMAIN got : got[n].conn = c /\ got[m] = got[n] => m = n
    /\ \A p, q \in Places(net[c]) : RowAt(net[c], p) = RowAt(net[c], q) => p = q
    /\ Read(c) \cap RowsIn(net[c]) = {}

\* A command that succeeds has sent every row of the file once - on every
\* connection in the raw mode (shard_frames and the two split modes keep every
\* row; tests.rs checks the counts of one file).
CompleteOnSuccess ==
    main = "ok" =>
        /\ \A c \in Conns : NoneTwice(c) /\ Handed(c) \subseteq FileRows
        /\ \A row \in FileRows :
                IF mode = "raw" THEN \A c \in Conns : row \in Handed(c)
                ELSE \E c \in Conns : \A d \in Conns : row \in Handed(d) <=> d = c

\* A sentinel is sent after the last write of its connection, and counts the
\* rows that were split to it (shard.rs:353-385).
SentinelCounts ==
    \A b \in bottles \cup landed :
        LET counted == {row \in Handed(b.round) : mode # "sharded" \/ row.tag \in KeyedStreams}
        IN  b.n = Cardinality(counted) /\ NoneTwice(b.round) /\ chan[b.round] = << >>

\* The command returns: a writer that dies never leaves the reader waiting on
\* its channel.
Returns == <>(main \in {"ok", "failed"})
=============================================================================
