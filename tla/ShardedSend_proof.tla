--------------------------- MODULE ShardedSend_proof ---------------------------
(***************************************************************************)
(* What `shard-frames` and `send-arrow` do to the rows of a file, for any  *)
(* file, number of connections, sizes of channels and batches, hash and    *)
(* number of faults: the invariant behind PerKeyOrder, CompleteOnSuccess   *)
(* and SentinelCounts of ShardedSend, and its proof.                       *)
(*                                                                         *)
(* A connection holds the rows the engine has read from it, and its line:  *)
(* the messages on the network and then those in its channel.  As long as  *)
(* its writer lives it holds exactly the rows that have left the reader    *)
(* for it, and it always holds them in the order of the file with nothing  *)
(* missing in between.                                                     *)
(***************************************************************************)
EXTENDS ShardedSend, FiniteSetTheorems, SequenceTheorems, TLAPS

\* Rows of listed streams and rows of the others: only within one of the two
\* does a connection keep the order of the file, because shard_frames writes
\* an unlisted frame past the batch it is gathering.
SameClass(a, b) == a.tag \in KeyedStreams <=> b.tag \in KeyedStreams
InFileOrder(a, b) == SameClass(a, b) => Earlier(a, b)

\* The connections a row is for.
Goes(row, c) == CASE mode = "raw" -> TRUE
                  [] mode # "raw" /\ row.tag \in KeyedStreams -> ShardOf(row, hash) = c
                  [] mode # "raw" /\ row.tag \notin KeyedStreams -> c = 0

Increasing(rs) == \A i, j \in DOMAIN rs : i < j => InFileOrder(rs[i], rs[j])

Ordered(msgs) ==
    /\ \A m \in DOMAIN msgs : Increasing(msgs[m].rows)
    /\ \A m, n \in DOMAIN msgs : m < n =>
            \A i \in DOMAIN msgs[m].rows, j \in DOMAIN msgs[n].rows :
                InFileOrder(msgs[m].rows[i], msgs[n].rows[j])

\* A message holds rows of one stream, and says whether that is listed.
Message == {msg \in [raw : BOOLEAN, tag : Tags, rows : Seq(FileRows)] :
                /\ \A i \in DOMAIN msg.rows : msg.rows[i].tag = msg.tag}
Truthful(msg) == mode # "raw" => (msg.raw <=> msg.tag \notin KeyedStreams)

Pending == [file : Seq(Message), tag : Tags \cup {"none"}, rows : Seq(FileRows)]

TypeOK ==
    /\ mode \in Modes
    /\ hash \in [ofKey : [Keys -> Conns], ofRow : RowHashes]
    /\ main \in {"split", "read", "join", "ok", "failed"}
    /\ at \in 0 .. Len(Frames)
    /\ gather \in [Conns -> Pending]
    /\ out \in Seq([to : Conns, msg : Message])
    /\ joined \in 0 .. Connections
    /\ chan \in [Conns -> Seq(Message)]
    /\ writer \in [Conns -> {"connect", "run", "sentinel", "done", "failed"}]
    /\ rows \in [Conns -> Nat]
    /\ net \in [Conns -> Seq(Message)]
    /\ got \in Seq([conn : Conns, row : FileRows])
    /\ bottles \subseteq [round : Conns, n : Nat]
    /\ landed \subseteq [round : Conns, n : Nat]

\* What a shard has gathered of the first n frames: its file, then the batch.
GatherInv(g, c, n) ==
    /\ g \in Pending
    /\ \A m \in DOMAIN g.file : Truthful(g.file[m])
    /\ Ordered(g.file) /\ Increasing(g.rows)
    /\ \A i \in DOMAIN g.rows : g.rows[i].tag = g.tag /\ g.tag \in KeyedStreams
    /\ \A x \in RowsIn(g.file), y \in SX!ToSet(g.rows) : InFileOrder(x, y)
    /\ RowsIn(g.file) \cup SX!ToSet(g.rows) =
            {row \in FileRows : Goes(row, c) /\ row.id[1] <= n}

\* The message of frame f for connection c.
FrameMessage(msg, f, c) ==
    /\ msg \in Message /\ Truthful(msg) /\ Increasing(msg.rows)
    /\ SX!ToSet(msg.rows) = {row \in FileRows : row.id[1] = f /\ Goes(row, c)}

OutInv ==
    /\ mode # "sharded" => out = << >>
    /\ \A m \in DOMAIN out : FrameMessage(out[m].msg, at, out[m].to)
    /\ \A m, n \in DOMAIN out : out[m].to = out[n].to => m = n

\* The rows that have left the reader for connection c, and those that c holds:
\* read by the engine, on their way, or waiting for the writer.
Left(row, c) ==
    IF mode # "sharded" THEN main # "split"
    ELSE \/ row.id[1] < at
         \/ row.id[1] = at /\ \A m \in DOMAIN out : out[m].to # c
Given(c) == {row \in FileRows : Goes(row, c) /\ Left(row, c)}
Line(c) == net[c] \o chan[c]
Held(c) == Read(c) \cup RowsIn(Line(c))

ReadInOrder(c) ==
    \A m, n \in DOMAIN got : m < n /\ got[m].conn = c /\ got[n].conn = c =>
        InFileOrder(got[m].row, got[n].row)

OrderInv(c) ==
    /\ Ordered(Line(c)) /\ ReadInOrder(c)
    /\ \A x \in Read(c), y \in RowsIn(Line(c)) : InFileOrder(x, y)

\* Nothing is missing in between, and nothing at all unless the writer failed.
HeldInv(c) ==
    /\ Held(c) \subseteq Given(c)
    /\ writer[c] # "failed" => Given(c) \subseteq Held(c)
    /\ \A x \in FileRows, y \in Held(c) :
            Goes(x, c) /\ SameClass(x, y) /\ Earlier(x, y) => x \in Held(c)
    /\ writer[c] \in {"sentinel", "done", "failed"} => chan[c] = << >>
    /\ \A m \in DOMAIN chan[c] : Truthful(chan[c][m])

CountInv(c) ==
    IF mode = "sharded"
    THEN writer[c] # "failed" =>
            rows[c] = Cardinality({row \in Handed(c) : row.tag \in KeyedStreams})
    ELSE main # "split" => rows[c] = Cardinality({row \in FileRows : Goes(row, c)})

CommandInv ==
    /\ main # "split" => gather = [c \in Conns |-> Empty]
    /\ main = "split" => /\ mode = "files"
                         /\ \A c \in Conns : GatherInv(gather[c], c, at) /\ writer[c] = "connect"
                                             /\ Line(c) = << >>
                         /\ got = << >>
    /\ main = "read" => mode = "sharded"
    /\ main \in {"split", "read"} => \A c \in Conns : writer[c] \notin {"sentinel", "done"}
    /\ main \in {"join", "ok"} /\ mode = "sharded" => at = Len(Frames) /\ out = << >>
    /\ \A c \in Conns : c < joined => writer[c] = "done"
    /\ main = "ok" => joined = Connections

SentinelInv ==
    \A b \in bottles \cup landed : writer[b.round] = "done" /\ b.n = rows[b.round]

ConnInv(c) == OrderInv(c) /\ HeldInv(c) /\ CountInv(c)

IInv ==
    /\ TypeOK /\ CommandInv /\ OutInv /\ SentinelInv
    /\ \A c \in Conns : ConnInv(c)

-----------------------------------------------------------------------------
(* Lists of numbers, and the rows of a frame. *)

\* InOrder lists a finite set of numbers: each once, smallest first.
LEMMA InOrderLists ==
    ASSUME NEW K \in SUBSET Nat, IsFiniteSet(K)
    PROVE  /\ InOrder(K) \in Seq(K)
           /\ DOMAIN InOrder(K) = 1 .. Cardinality(K)
           /\ \A i, j \in DOMAIN InOrder(K) : i < j => InOrder(K)[i] < InOrder(K)[j]
           /\ \A k \in K : \E j \in DOMAIN InOrder(K) : InOrder(K)[j] = k
<1>. DEFINE UpTo(i) == {k \in K : k <= i}
            n == Cardinality(K)
            rank == [i \in K |-> Cardinality(UpTo(i))]
<1>0. \A i \in K : i \in Nat
  OBVIOUS
<1>1. n \in Nat /\ \A i \in K : IsFiniteSet(UpTo(i)) /\ Cardinality(UpTo(i)) \in Nat
  <2>1. \A i \in K : UpTo(i) \in SUBSET K
    OBVIOUS
  <2>. QED BY <2>1, FS_Subset, FS_CardinalityType
<1>2. \A i \in K : rank[i] \in 1 .. n
  <2>. SUFFICES ASSUME NEW i \in K PROVE Cardinality(UpTo(i)) \in 1 .. n
    OBVIOUS
  <2>1. UpTo(i) \in SUBSET K /\ UpTo(i) # {}
    OBVIOUS
  <2>2. Cardinality(UpTo(i)) <= n /\ Cardinality(UpTo(i)) # 0
    BY <2>1, <1>1, FS_Subset, FS_EmptySet
  <2>. QED BY <2>2, <1>1
<1>3. \A i, j \in K : i < j => rank[i] < rank[j]
  <2>. SUFFICES ASSUME NEW i \in K, NEW j \in K, i < j
                PROVE  Cardinality(UpTo(i)) < Cardinality(UpTo(j))
    OBVIOUS
  <2>1. /\ \A k \in UpTo(i) : k \in UpTo(j)
        /\ j \in UpTo(j) /\ j \notin UpTo(i)
    BY <1>0
  <2>2. /\ UpTo(i) # UpTo(j) /\ IsFiniteSet(UpTo(j))
        /\ Cardinality(UpTo(i)) \in Nat /\ Cardinality(UpTo(j)) \in Nat
        /\ UpTo(i) \in SUBSET UpTo(j)
    BY <2>1, <1>1
  <2>. HIDE DEF UpTo
  <2>3. /\ Cardinality(UpTo(i)) <= Cardinality(UpTo(j))
        /\ Cardinality(UpTo(j)) # Cardinality(UpTo(i))
    BY <2>1, <2>2, FS_Subset
  <2>. QED BY <2>2, <2>3
<1>. HIDE DEF n
<1>4. \A i, j \in K : rank[i] = rank[j] => i = j
  <2>. SUFFICES ASSUME NEW i \in K, NEW j \in K, rank[i] = rank[j], i # j
                PROVE  FALSE
    OBVIOUS
  <2>1. i < j \/ j < i
    OBVIOUS
  <2>2. rank[i] \in Nat /\ rank[j] \in Nat
    BY <1>2, <1>1
  <2>. QED BY <2>1, <2>2, <1>3
<1>5. \A j \in 1 .. n : \E i \in K : rank[i] = j
  <2>1. rank \in Injection(K, 1 .. n)
    BY <1>2, <1>4 DEF Injection, IsInjective
  <2>2. IsFiniteSet(1 .. n) /\ Cardinality(1 .. n) = n
    BY <1>1, FS_Interval
  <2>3. rank \in Surjection(K, 1 .. n)
    BY <2>1, <2>2, FS_Injection DEF n
  <2>. QED BY <2>3 DEF Surjection
<1>6. \A j \in 1 .. n : InOrder(K)[j] \in K /\ rank[InOrder(K)[j]] = j
  <2>. TAKE j \in 1 .. n
  <2>1. InOrder(K)[j] = CHOOSE i \in K : Cardinality({k \in K : k <= i}) = j
    BY DEF InOrder, n
  <2>2. \E i \in K : Cardinality({k \in K : k <= i}) = j
    BY <1>5
  <2>. QED BY <2>1, <2>2
<1>7. DOMAIN InOrder(K) = 1 .. n
  BY DEF InOrder, n
<1>8. InOrder(K) \in Seq(K)
  <2>1. InOrder(K) \in [1 .. n -> K]
    BY <1>6, <1>7 DEF InOrder, n
  <2>. QED BY <2>1, <1>1
<1>9. ASSUME NEW i \in 1 .. n, NEW j \in 1 .. n, i < j
      PROVE  InOrder(K)[i] < InOrder(K)[j]
  <2>. DEFINE a == InOrder(K)[i]
              b == InOrder(K)[j]
  <2>1. a \in K /\ b \in K /\ rank[a] = i /\ rank[b] = j
    BY <1>6
  <2>. HIDE DEF a, b, rank
  <2>2. a \in Nat /\ b \in Nat /\ i \in Int /\ j \in Int
    BY <2>1
  <2>3. ~ (b <= a)
    BY <2>1, <2>2, <1>3, <1>9
  <2>. QED BY <2>2, <2>3 DEF a, b
<1>10. ASSUME NEW k \in K
       PROVE  \E j \in 1 .. n : InOrder(K)[j] = k
  <2>1. rank[k] \in 1 .. n
    BY <1>2
  <2>2. rank[InOrder(K)[rank[k]]] = rank[k] /\ InOrder(K)[rank[k]] \in K
    BY <2>1, <1>6
  <2>. HIDE DEF rank
  <2>3. InOrder(K)[rank[k]] = k
    BY <2>2, <1>4
  <2>. QED BY <2>1, <2>3
<1>. HIDE DEF rank
<1>. QED BY <1>7, <1>8, <1>9, <1>10 DEF n

\* Frames are sequences of keys with a tag, and their rows are the file's.
LEMMA FrameType ==
    ASSUME NEW f \in DOMAIN Frames
    PROVE  /\ f \in Nat /\ f >= 1 /\ f <= Len(Frames) /\ Len(Frames) \in Nat
           /\ Frames[f].keys \in Seq(Keys) /\ Frames[f].tag \in Tags
           /\ DOMAIN RowsOfFrame(f) = DOMAIN Frames[f].keys
           /\ RowsOfFrame(f) \in Seq(FileRows)
<1>1. Frames \in Seq([tag : Tags, keys : Seq(Keys)])
  BY SendAssumption
<1>2. /\ f \in Nat /\ f >= 1 /\ f <= Len(Frames) /\ Len(Frames) \in Nat
      /\ Frames[f].keys \in Seq(Keys) /\ Frames[f].tag \in Tags
  <2>1. DOMAIN Frames = 1 .. Len(Frames) /\ Len(Frames) \in Nat
    BY <1>1, LenProperties
  <2>2. Frames[f] \in [tag : Tags, keys : Seq(Keys)]
    BY <1>1, <2>1, ElementOfSeq
  <2>. QED BY <2>1, <2>2
<1>3. DOMAIN RowsOfFrame(f) = DOMAIN Frames[f].keys
  BY DEF RowsOfFrame
<1>4. \A i \in DOMAIN Frames[f].keys : RowsOfFrame(f)[i] \in FileRows
  BY <1>3 DEF FileRows, SX!ToSet
<1>5. DOMAIN Frames[f].keys = 1 .. Len(Frames[f].keys) /\ Len(Frames[f].keys) \in Nat
  BY <1>2
<1>6. RowsOfFrame(f) \in [1 .. Len(Frames[f].keys) -> FileRows]
  BY <1>3, <1>4, <1>5 DEF RowsOfFrame
<1>. QED BY <1>2, <1>3, <1>5, <1>6

\* A row of the file stands at one place, its id.
LEMMA FileRow ==
    ASSUME NEW row \in FileRows
    PROVE  \E f \in DOMAIN Frames : \E i \in DOMAIN Frames[f].keys :
                /\ row = RowsOfFrame(f)[i]
                /\ row.id[1] = f /\ row.id[2] = i /\ f \in Nat /\ i \in Nat
                /\ row.tag = Frames[f].tag /\ row.key = Frames[f].keys[i]
                /\ row.key \in Keys
<1>1. PICK f \in DOMAIN Frames : row \in SX!ToSet(RowsOfFrame(f))
  BY DEF FileRows
<1>2. PICK i \in DOMAIN RowsOfFrame(f) : row = RowsOfFrame(f)[i]
  BY <1>1 DEF SX!ToSet
<1>3. i \in DOMAIN Frames[f].keys /\ i \in Nat /\ Frames[f].keys[i] \in Keys /\ f \in Nat
  BY <1>2, FrameType
<1>4. row = [tag |-> Frames[f].tag, key |-> Frames[f].keys[i], id |-> << f, i >>]
  BY <1>2, <1>3 DEF RowsOfFrame
<1>5. /\ row.tag = Frames[f].tag /\ row.key = Frames[f].keys[i]
      /\ row.id[1] = f /\ row.id[2] = i
  BY <1>4
<1>. QED BY <1>2, <1>3, <1>5

\* The order of the file is a strict order of its rows.
LEMMA EarlierIsStrict ==
    /\ \A x \in FileRows : ~ Earlier(x, x) /\ SameClass(x, x)
    /\ \A x, y \in FileRows : ~ (Earlier(x, y) /\ Earlier(y, x))
    /\ \A x, y \in FileRows : x # y => Earlier(x, y) \/ Earlier(y, x)
    /\ \A x, y \in FileRows : x.id[1] < y.id[1] => Earlier(x, y)
    /\ \A x, y \in FileRows : Earlier(x, y) => x.id[1] <= y.id[1]
<1>1. \A x \in FileRows : x.id[1] \in Nat /\ x.id[2] \in Nat
  BY FileRow
<1>2. \A x, y \in FileRows : x.id[1] = y.id[1] /\ x.id[2] = y.id[2] => x = y
  BY FileRow
<1>. QED BY <1>1, <1>2 DEF Earlier, SameClass

\* The hash of a row is a connection.
LEMMA ShardType ==
    ASSUME NEW row \in FileRows, hash \in [ofKey : [Keys -> Conns], ofRow : RowHashes]
    PROVE  ShardOf(row, hash) \in Conns
<1>1. PICK f \in DOMAIN Frames : \E i \in DOMAIN Frames[f].keys :
        row.id[2] = i /\ row.key \in Keys
  BY FileRow
<1>0. PICK i \in DOMAIN Frames[f].keys : row.id[2] = i /\ row.key \in Keys
  BY <1>1
<1>2. CASE row.tag \in OddStreams
  <2>1. i - 1 \in {j - 1 : j \in UNION {DOMAIN Frames[g].keys : g \in DOMAIN Frames}}
    BY <1>0
  <2>2. hash.ofRow \in RowHashes /\ OddStreams # {}
    BY <1>2
  <2>. QED BY <1>0, <1>2, <2>1, <2>2 DEF ShardOf, RowHashes
<1>3. CASE row.tag \notin OddStreams
  BY <1>0, <1>3 DEF ShardOf
<1>. QED BY <1>2, <1>3

\* The rows of a frame are those of the file with its number.
LEMMA FrameRows ==
    ASSUME NEW f \in DOMAIN Frames
    PROVE  /\ \A i \in DOMAIN RowsOfFrame(f) :
                /\ RowsOfFrame(f)[i] \in FileRows /\ i \in Nat
                /\ RowsOfFrame(f)[i].id[1] = f /\ RowsOfFrame(f)[i].id[2] = i
                /\ RowsOfFrame(f)[i].tag = Frames[f].tag
           /\ \A row \in FileRows : row.id[1] = f =>
                \E i \in DOMAIN RowsOfFrame(f) : row = RowsOfFrame(f)[i]
<1>1. ASSUME NEW i \in DOMAIN RowsOfFrame(f)
      PROVE  /\ RowsOfFrame(f)[i] \in FileRows /\ i \in Nat
             /\ RowsOfFrame(f)[i].id[1] = f /\ RowsOfFrame(f)[i].id[2] = i
             /\ RowsOfFrame(f)[i].tag = Frames[f].tag
  <2>1. RowsOfFrame(f)[i] \in FileRows /\ i \in Nat /\ i \in DOMAIN Frames[f].keys
    BY FrameType
  <2>2. RowsOfFrame(f)[i] = [tag |-> Frames[f].tag, key |-> Frames[f].keys[i], id |-> << f, i >>]
    BY <2>1 DEF RowsOfFrame
  <2>. QED BY <2>1, <2>2
<1>2. ASSUME NEW row \in FileRows, row.id[1] = f
      PROVE  \E i \in DOMAIN RowsOfFrame(f) : row = RowsOfFrame(f)[i]
  <2>1. PICK g \in DOMAIN Frames : \E i \in DOMAIN Frames[g].keys :
            row = RowsOfFrame(g)[i] /\ row.id[1] = g
    BY FileRow
  <2>. QED BY <1>2, <2>1, FrameType
<1>. QED BY <1>1, <1>2

\* The frame itself as a message.
LEMMA RawMessage ==
    ASSUME NEW f \in DOMAIN Frames
    PROVE  /\ Raw(f) \in Message /\ Raw(f).raw /\ Raw(f).tag = Frames[f].tag
           /\ Raw(f).rows = RowsOfFrame(f) /\ Increasing(Raw(f).rows)
           /\ SX!ToSet(Raw(f).rows) = {row \in FileRows : row.id[1] = f}
<1>1. /\ Raw(f).raw /\ Raw(f).tag = Frames[f].tag /\ Raw(f).rows = RowsOfFrame(f)
      /\ Raw(f) \in [raw : BOOLEAN, tag : Tags, rows : Seq(FileRows)]
  BY FrameType DEF Raw
<1>2. Raw(f) \in Message
  BY <1>1, FrameRows DEF Message
<1>3. Increasing(Raw(f).rows)
  BY <1>1, FrameRows DEF Increasing, InFileOrder, Earlier
<1>4. SX!ToSet(Raw(f).rows) = {row \in FileRows : row.id[1] = f}
  BY <1>1, FrameRows DEF SX!ToSet
<1>. QED BY <1>1, <1>2, <1>3, <1>4

\* What shard_batch gives a connection of a frame.
LEMMA SubBatchRows ==
    ASSUME NEW f \in DOMAIN Frames, NEW c \in Conns
    PROVE  LET sub == SubBatch(f, c, hash)
           IN  /\ sub \in Seq(FileRows)
               /\ Increasing(sub)
               /\ \A i \in DOMAIN sub : sub[i].tag = Frames[f].tag
               /\ SX!ToSet(sub) = {row \in FileRows : row.id[1] = f /\ ShardOf(row, hash) = c}
<1>. DEFINE K == Mask(f, c, hash)
            kept == InOrder(K)
            sub == SubBatch(f, c, hash)
<1>1. K \in SUBSET Nat /\ IsFiniteSet(K) /\ K \subseteq DOMAIN RowsOfFrame(f)
  <2>1. DOMAIN Frames[f].keys = 1 .. Len(Frames[f].keys) /\ Len(Frames[f].keys) \in Nat
    BY FrameType, LenProperties
  <2>2. IsFiniteSet(1 .. Len(Frames[f].keys))
    BY <2>1, FS_Interval
  <2>3. K \in SUBSET (1 .. Len(Frames[f].keys))
    BY <2>1 DEF Mask
  <2>. QED BY <2>1, <2>2, <2>3, FS_Subset, FrameType
<1>2. /\ kept \in Seq(K)
      /\ \A i, j \in DOMAIN kept : i < j => kept[i] < kept[j]
      /\ \A k \in K : \E j \in DOMAIN kept : kept[j] = k
  BY <1>1, InOrderLists
<1>. HIDE DEF kept
<1>3. sub = [j \in DOMAIN kept |-> RowsOfFrame(f)[kept[j]]]
  BY DEF SubBatch, kept
<1>4. DOMAIN kept = 1 .. Len(kept) /\ Len(kept) \in Nat /\ \A j \in DOMAIN kept : kept[j] \in K
  BY <1>2, LenProperties
<1>5. /\ DOMAIN sub = DOMAIN kept
      /\ \A j \in DOMAIN kept : sub[j] = RowsOfFrame(f)[kept[j]] /\ sub[j] \in FileRows
                                /\ kept[j] \in DOMAIN RowsOfFrame(f)
  BY <1>1, <1>3, <1>4, FrameRows
<1>6. sub \in Seq(FileRows)
  <2>1. sub \in [1 .. Len(kept) -> FileRows]
    BY <1>3, <1>4, <1>5
  <2>. QED BY <2>1, <1>4
<1>. HIDE DEF sub, K
<1>7. \A i, j \in DOMAIN sub : i < j => Earlier(sub[i], sub[j])
  BY <1>2, <1>5, FrameRows DEF Earlier
<1>8. \A i \in DOMAIN sub : sub[i].tag = Frames[f].tag
  BY <1>5, FrameRows
<1>9. \A i \in DOMAIN sub : sub[i] \in FileRows /\ sub[i].id[1] = f /\ ShardOf(sub[i], hash) = c
  BY <1>4, <1>5, FrameRows DEF K, Mask
<1>10. ASSUME NEW row \in FileRows, row.id[1] = f, ShardOf(row, hash) = c
       PROVE  \E i \in DOMAIN sub : row = sub[i]
  <2>1. PICK i \in DOMAIN RowsOfFrame(f) : row = RowsOfFrame(f)[i]
    BY <1>10, FrameRows
  <2>2. i \in K
    BY <1>10, <2>1, FrameType DEF K, Mask
  <2>3. PICK j \in DOMAIN kept : kept[j] = i
    BY <2>2, <1>2
  <2>. QED BY <2>1, <2>3, <1>5
<1>11. SX!ToSet(sub) = {row \in FileRows : row.id[1] = f /\ ShardOf(row, hash) = c}
  BY <1>9, <1>10 DEF SX!ToSet
<1>12. Increasing(sub)
  BY <1>7 DEF Increasing, InFileOrder
<1>. QED BY <1>6, <1>8, <1>11, <1>12 DEF sub

\* The two kinds of message the reader makes of a frame.
LEMMA RawFrameMessage ==
    ASSUME NEW f \in DOMAIN Frames, mode # "raw", Frames[f].tag \notin KeyedStreams
    PROVE  /\ FrameMessage(Raw(f), f, 0)
           /\ \A row \in FileRows : row.id[1] = f => (Goes(row, 0) /\ \A c \in Conns \ {0} : ~ Goes(row, c))
<1>1. \A row \in FileRows : row.id[1] = f => row.tag \notin KeyedStreams
  BY FrameRows
<1>2. \A row \in FileRows : row.id[1] = f => (Goes(row, 0) /\ \A c \in Conns \ {0} : ~ Goes(row, c))
  BY <1>1 DEF Goes
<1>. QED BY <1>2, RawMessage DEF FrameMessage, Truthful

\* Of a listed stream's frame, the sub-batch of one connection.
LEMMA BatchFrameMessage ==
    ASSUME NEW f \in DOMAIN Frames, NEW c \in Conns, mode # "raw",
           Frames[f].tag \in KeyedStreams
    PROVE  /\ FrameMessage(Batch(Frames[f].tag, SubBatch(f, c, hash)), f, c)
           /\ \A row \in FileRows : row.id[1] = f => (Goes(row, c) <=> ShardOf(row, hash) = c)
<1>. DEFINE sub == SubBatch(f, c, hash)
            msg == Batch(Frames[f].tag, sub)
<1>1. /\ sub \in Seq(FileRows) /\ Increasing(sub)
      /\ \A i \in DOMAIN sub : sub[i].tag = Frames[f].tag
      /\ SX!ToSet(sub) = {row \in FileRows : row.id[1] = f /\ ShardOf(row, hash) = c}
  BY SubBatchRows
<1>. HIDE DEF sub
<1>2. /\ msg \in [raw : BOOLEAN, tag : Tags, rows : Seq(FileRows)]
      /\ msg.rows = sub /\ msg.tag = Frames[f].tag /\ msg.raw = FALSE
  BY <1>1, FrameType DEF Batch
<1>. HIDE DEF msg
<1>3. msg \in Message
  BY <1>1, <1>2 DEF Message
<1>4. \A row \in FileRows : row.id[1] = f => (Goes(row, c) <=> ShardOf(row, hash) = c)
  <2>. SUFFICES ASSUME NEW row \in FileRows, row.id[1] = f
                PROVE  Goes(row, c) <=> ShardOf(row, hash) = c
    OBVIOUS
  <2>1. row.tag \in KeyedStreams
    BY FrameRows
  <2>2. Goes(row, c) = (ShardOf(row, hash) = c)
    BY <2>1, Zenon DEF Goes
  <2>. QED BY <2>2
<1>5. SX!ToSet(msg.rows) = {row \in FileRows : row.id[1] = f /\ Goes(row, c)}
  BY <1>1, <1>2, <1>4
<1>6. FrameMessage(msg, f, c)
  BY <1>1, <1>2, <1>3, <1>5 DEF FrameMessage, Truthful
<1>. QED BY <1>4, <1>6 DEF msg, sub

-----------------------------------------------------------------------------
(* Sequences of messages. *)

\* The rows of messages, by message and place in it.
LEMMA RowsInIs ==
    ASSUME NEW msgs
    PROVE  \A x : x \in RowsIn(msgs) <=>
                \E m \in DOMAIN msgs : \E i \in DOMAIN msgs[m].rows : x = msgs[m].rows[i]
<1>1. ASSUME NEW x, x \in RowsIn(msgs)
      PROVE  \E m \in DOMAIN msgs : \E i \in DOMAIN msgs[m].rows : x = msgs[m].rows[i]
  <2>1. PICK p \in Places(msgs) : x = RowAt(msgs, p)
    BY <1>1 DEF RowsIn
  <2>2. PICK m \in DOMAIN msgs : p \in {m} \X DOMAIN msgs[m].rows
    BY <2>1 DEF Places
  <2>3. p[1] = m /\ p[2] \in DOMAIN msgs[m].rows
    BY <2>2
  <2>. QED BY <2>1, <2>3 DEF RowAt
<1>2. ASSUME NEW m \in DOMAIN msgs, NEW i \in DOMAIN msgs[m].rows
      PROVE  msgs[m].rows[i] \in RowsIn(msgs)
  <2>1. << m, i >> \in Places(msgs)
    BY DEF Places
  <2>2. RowAt(msgs, << m, i >>) = msgs[m].rows[i]
    BY DEF RowAt
  <2>. QED BY <2>1, <2>2 DEF RowsIn
<1>. QED BY <1>1, <1>2

\* No message, and one.
LEMMA NoMessage == RowsIn(<< >>) = {} /\ Ordered(<< >>)
<1>1. DOMAIN << >> = {}
  OBVIOUS
<1>. QED BY <1>1, RowsInIs DEF Ordered

\* A single message is ordered when its rows are.
LEMMA OneMessage ==
    ASSUME NEW msg \in Message
    PROVE  /\ RowsIn(<< msg >>) = SX!ToSet(msg.rows)
           /\ Ordered(<< msg >>) <=> Increasing(msg.rows)
<1>1. DOMAIN << msg >> = {1} /\ << msg >>[1] = msg
  OBVIOUS
<1>. QED BY <1>1, RowsInIs DEF Ordered, SX!ToSet

\* Messages that follow others.
LEMMA ConcatMessages ==
    ASSUME NEW a \in Seq(Message), NEW b \in Seq(Message)
    PROVE  /\ RowsIn(a \o b) = RowsIn(a) \cup RowsIn(b)
           /\ Ordered(a \o b) <=>
                /\ Ordered(a) /\ Ordered(b)
                /\ \A x \in RowsIn(a), y \in RowsIn(b) : InFileOrder(x, y)
<1>1. /\ DOMAIN a = 1 .. Len(a) /\ DOMAIN b = 1 .. Len(b)
      /\ Len(a) \in Nat /\ Len(b) \in Nat
      /\ DOMAIN (a \o b) = 1 .. Len(a) + Len(b)
      /\ \A m \in DOMAIN a : (a \o b)[m] = a[m]
      /\ \A m \in DOMAIN b : (a \o b)[Len(a) + m] = b[m]
  BY ConcatProperties, LenProperties
<1>. DEFINE ab == a \o b
<1>. HIDE DEF ab
<1>2. \A m \in DOMAIN ab : m \in DOMAIN a \/ ((m - Len(a)) \in DOMAIN b /\ m = Len(a) + (m - Len(a)))
  BY <1>1 DEF ab
<1>3. /\ \A m \in DOMAIN a : m \in DOMAIN ab /\ ab[m] = a[m]
      /\ \A m \in DOMAIN b : Len(a) + m \in DOMAIN ab /\ ab[Len(a) + m] = b[m]
  BY <1>1 DEF ab
<1>4. RowsIn(ab) = RowsIn(a) \cup RowsIn(b)
  <2>1. ASSUME NEW x \in RowsIn(ab) PROVE x \in RowsIn(a) \cup RowsIn(b)
    <3>1. PICK m \in DOMAIN ab : \E i \in DOMAIN ab[m].rows : x = ab[m].rows[i]
      BY RowsInIs
    <3>2. CASE m \in DOMAIN a
      BY <3>1, <3>2, <1>3, RowsInIs
    <3>3. CASE m - Len(a) \in DOMAIN b /\ m = Len(a) + (m - Len(a))
      <4>. DEFINE k == m - Len(a)
      <4>. HIDE DEF k
      <4>1. k \in DOMAIN b /\ ab[m] = b[k]
        BY <3>3, <1>3 DEF k
      <4>. QED BY <3>1, <4>1, RowsInIs
    <3>. QED BY <1>2, <3>2, <3>3
  <2>2. ASSUME NEW x \in RowsIn(a) PROVE x \in RowsIn(ab)
    BY <1>3, RowsInIs
  <2>3. ASSUME NEW x \in RowsIn(b) PROVE x \in RowsIn(ab)
    <3>1. PICK m \in DOMAIN b : \E i \in DOMAIN b[m].rows : x = b[m].rows[i]
      BY RowsInIs
    <3>2. Len(a) + m \in DOMAIN ab /\ ab[Len(a) + m] = b[m]
      BY <1>3
    <3>. QED BY <3>1, <3>2, RowsInIs
  <2>. QED BY <2>1, <2>2, <2>3
<1>5. ASSUME Ordered(ab)
      PROVE  /\ Ordered(a) /\ Ordered(b)
             /\ \A x \in RowsIn(a), y \in RowsIn(b) : InFileOrder(x, y)
  <2>1. Ordered(a)
    BY <1>5, <1>3 DEF Ordered
  <2>2. Ordered(b)
    <3>1. \A m \in DOMAIN b : Increasing(b[m].rows)
      BY <1>5, <1>3 DEF Ordered
    <3>2. \A m, n \in DOMAIN b : m < n => Len(a) + m < Len(a) + n
      BY <1>1
    <3>. QED BY <1>5, <1>3, <3>1, <3>2 DEF Ordered
  <2>3. \A m \in DOMAIN a, n \in DOMAIN b : m < Len(a) + n
    BY <1>1
  <2>4. ASSUME NEW x \in RowsIn(a), NEW y \in RowsIn(b) PROVE InFileOrder(x, y)
    <3>1. PICK m \in DOMAIN a : \E i \in DOMAIN a[m].rows : x = a[m].rows[i]
      BY RowsInIs
    <3>2. PICK n \in DOMAIN b : \E i \in DOMAIN b[n].rows : y = b[n].rows[i]
      BY RowsInIs
    <3>. QED BY <1>5, <1>3, <2>3, <3>1, <3>2 DEF Ordered
  <2>. QED BY <2>1, <2>2, <2>4
<1>6. ASSUME Ordered(a), Ordered(b), \A x \in RowsIn(a), y \in RowsIn(b) : InFileOrder(x, y)
      PROVE  Ordered(ab)
  <2>1. ASSUME NEW m \in DOMAIN ab PROVE Increasing(ab[m].rows)
    <3>1. CASE m \in DOMAIN a
      BY <1>6, <3>1, <1>3 DEF Ordered
    <3>2. CASE m - Len(a) \in DOMAIN b /\ m = Len(a) + (m - Len(a))
      <4>. DEFINE k == m - Len(a)
      <4>. HIDE DEF k
      <4>1. k \in DOMAIN b /\ ab[m] = b[k]
        BY <3>2, <1>3 DEF k
      <4>. QED BY <4>1, <1>6 DEF Ordered
    <3>. QED BY <1>2, <3>1, <3>2
  <2>2. ASSUME NEW m \in DOMAIN ab, NEW n \in DOMAIN ab, m < n,
               NEW i \in DOMAIN ab[m].rows, NEW j \in DOMAIN ab[n].rows
        PROVE  InFileOrder(ab[m].rows[i], ab[n].rows[j])
    <3>1. CASE n \in DOMAIN a
      <4>1. m \in DOMAIN a
        BY <2>2, <3>1, <1>1 DEF ab
      <4>2. ab[m] = a[m] /\ ab[n] = a[n]
        BY <3>1, <4>1, <1>3
      <4>. QED BY <2>2, <3>1, <4>1, <4>2, <1>6 DEF Ordered
    <3>2. CASE m \in DOMAIN a /\ n \notin DOMAIN a
      <4>. DEFINE k == n - Len(a)
      <4>. HIDE DEF k
      <4>1. k \in DOMAIN b /\ ab[n] = b[k]
        BY <3>2, <1>2, <1>3 DEF k
      <4>2. ab[m].rows[i] \in RowsIn(a) /\ ab[n].rows[j] \in RowsIn(b)
        BY <3>2, <4>1, <1>3, RowsInIs
      <4>. QED BY <4>2, <1>6
    <3>3. CASE m \notin DOMAIN a /\ n \notin DOMAIN a
      <4>. DEFINE k == m - Len(a)
                  l == n - Len(a)
      <4>1. k < l
        BY <2>2, <3>3, <1>1, <1>2
      <4>. HIDE DEF k, l
      <4>2. k \in DOMAIN b /\ ab[m] = b[k] /\ l \in DOMAIN b /\ ab[n] = b[l]
        BY <3>3, <1>2, <1>3 DEF k, l
      <4>. QED BY <4>1, <4>2, <1>6 DEF Ordered
    <3>4. n \in DOMAIN a \/ m \in DOMAIN a \/ (m \notin DOMAIN a /\ n \notin DOMAIN a)
      OBVIOUS
    <3>. QED BY <3>1, <3>2, <3>3
  <2>. QED BY <2>1, <2>2 DEF Ordered
<1>. QED BY <1>4, <1>5, <1>6 DEF ab

\* A message more at the end, and the first one gone.
LEMMA AppendMessage ==
    ASSUME NEW msgs \in Seq(Message), NEW msg \in Message
    PROVE  /\ Append(msgs, msg) \in Seq(Message)
           /\ RowsIn(Append(msgs, msg)) = RowsIn(msgs) \cup SX!ToSet(msg.rows)
           /\ Ordered(Append(msgs, msg)) <=>
                /\ Ordered(msgs) /\ Increasing(msg.rows)
                /\ \A x \in RowsIn(msgs), y \in SX!ToSet(msg.rows) : InFileOrder(x, y)
<1>1. Append(msgs, msg) = msgs \o << msg >> /\ << msg >> \in Seq(Message)
  BY AppendIsConcat
<1>2. Append(msgs, msg) \in Seq(Message)
  BY AppendProperties
<1>3. /\ RowsIn(msgs \o << msg >>) = RowsIn(msgs) \cup RowsIn(<< msg >>)
      /\ Ordered(msgs \o << msg >>) <=>
            /\ Ordered(msgs) /\ Ordered(<< msg >>)
            /\ \A x \in RowsIn(msgs), y \in RowsIn(<< msg >>) : InFileOrder(x, y)
  BY <1>1, ConcatMessages
<1>. QED BY <1>1, <1>2, <1>3, OneMessage

\* One more on a line of two parts.
LEMMA AppendLine ==
    ASSUME NEW a \in Seq(Message), NEW b \in Seq(Message), NEW msg \in Message
    PROVE  /\ a \o Append(b, msg) = Append(a \o b, msg)
           /\ a \o b \in Seq(Message)
<1>1. /\ << msg >> \in Seq(Message) /\ a \o b \in Seq(Message)
      /\ Append(b, msg) = b \o << msg >> /\ Append(a \o b, msg) = (a \o b) \o << msg >>
  BY AppendIsConcat, ConcatProperties
<1>. QED BY <1>1, ConcatAssociative

\* The first message of several.
LEMMA FirstMessage ==
    ASSUME NEW msgs \in Seq(Message), msgs # << >>
    PROVE  /\ Head(msgs) \in Message /\ Tail(msgs) \in Seq(Message)
           /\ RowsIn(msgs) = SX!ToSet(Head(msgs).rows) \cup RowsIn(Tail(msgs))
           /\ Ordered(msgs) <=>
                /\ Increasing(Head(msgs).rows) /\ Ordered(Tail(msgs))
                /\ \A x \in SX!ToSet(Head(msgs).rows), y \in RowsIn(Tail(msgs)) : InFileOrder(x, y)
<1>1. PICK msg \in Message, rest \in Seq(Message) : msg = Head(msgs) /\ rest = Tail(msgs)
  BY HeadTailProperties
<1>2. << msg >> \in Seq(Message)
  OBVIOUS
<1>3. msgs = << msg >> \o rest
  BY <1>1, <1>2
<1>4. /\ RowsIn(<< msg >> \o rest) = RowsIn(<< msg >>) \cup RowsIn(rest)
      /\ Ordered(<< msg >> \o rest) <=>
            /\ Ordered(<< msg >>) /\ Ordered(rest)
            /\ \A x \in RowsIn(<< msg >>), y \in RowsIn(rest) : InFileOrder(x, y)
  BY <1>2, ConcatMessages
<1>5. /\ RowsIn(<< msg >>) = SX!ToSet(msg.rows)
      /\ Ordered(<< msg >>) <=> Increasing(msg.rows)
  BY OneMessage
<1>. QED BY <1>1, <1>3, <1>4, <1>5

\* Moving the first message of one part of a line to the end of the other.
LEMMA MoveMessage ==
    ASSUME NEW a \in Seq(Message), NEW b \in Seq(Message), b # << >>
    PROVE  Append(a, Head(b)) \o Tail(b) = a \o b
<1>1. PICK msg \in Message : msg = Head(b)
  BY HeadTailProperties
<1>2. PICK rest \in Seq(Message) : rest = Tail(b)
  BY HeadTailProperties
<1>3. << msg >> \in Seq(Message)
  OBVIOUS
<1>4. Append(a, msg) = a \o << msg >> /\ b = << msg >> \o rest
  BY <1>1, <1>2, AppendIsConcat
<1>5. (a \o << msg >>) \o rest = a \o (<< msg >> \o rest)
  BY <1>3, ConcatAssociative
<1>. QED BY <1>1, <1>2, <1>4, <1>5

\* Messages cut in two.
LEMMA CutMessages ==
    ASSUME NEW msgs \in Seq(Message), NEW k \in 0 .. Len(msgs)
    PROVE  LET first == SubSeq(msgs, 1, k)
               rest == SubSeq(msgs, k + 1, Len(msgs))
           IN  first \in Seq(Message) /\ rest \in Seq(Message) /\ msgs = first \o rest
<1>1. PICK n \in Nat : n = Len(msgs) /\ k \in Nat /\ k <= n /\ DOMAIN msgs = 1 .. n
  BY LenProperties
<1>2. SubSeq(msgs, 1, k) \in Seq(Message) /\ SubSeq(msgs, k + 1, n) \in Seq(Message)
  BY <1>1
<1>3. 1 \in 1 .. n + 1 /\ k \in 1 - 1 .. n /\ n \in k .. n
  BY <1>1
<1>4. SubSeq(msgs, 1, k) \o SubSeq(msgs, k + 1, n) = SubSeq(msgs, 1, n)
  BY <1>1, <1>3, ConcatAdjacentSubSeq
<1>5. SubSeq(msgs, 1, n) = msgs
  BY <1>1, SubSeqFull
<1>. QED BY <1>1, <1>2, <1>4, <1>5

\* The rows of messages are the file's.
LEMMA RowsInFile ==
    ASSUME NEW msgs \in Seq(Message)
    PROVE  RowsIn(msgs) \subseteq FileRows
<1>1. \A m \in DOMAIN msgs : msgs[m].rows \in Seq(FileRows)
  BY DEF Message
<1>2. \A m \in DOMAIN msgs : \A i \in DOMAIN msgs[m].rows : msgs[m].rows[i] \in FileRows
  BY <1>1
<1>. QED BY <1>2, RowsInIs

-----------------------------------------------------------------------------
(* Counting rows. *)

\* A file has finitely many rows.
LEMMA FileIsFinite == IsFiniteSet(FileRows)
<1>. DEFINE frames == DOMAIN Frames
            rowsOf == [f \in frames |-> SX!ToSet(RowsOfFrame(f))]
            all == {SX!ToSet(RowsOfFrame(f)) : f \in frames}
<1>1. IsFiniteSet(frames)
  <2>1. frames = 1 .. Len(Frames) /\ Len(Frames) \in Nat
    BY SendAssumption, LenProperties
  <2>. QED BY <2>1, FS_Interval
<1>2. IsFiniteSet(all)
  <2>1. rowsOf \in Surjection(frames, all)
    BY DEF Surjection
  <2>. HIDE DEF rowsOf, all, frames
  <2>. QED BY <1>1, <2>1, FS_Surjection
<1>3. ASSUME NEW f \in frames
      PROVE  IsFiniteSet(SX!ToSet(RowsOfFrame(f)))
  <2>. DEFINE rs == RowsOfFrame(f)
  <2>1. DOMAIN rs = 1 .. Len(rs) /\ Len(rs) \in Nat
    BY FrameType, LenProperties
  <2>2. IsFiniteSet(DOMAIN rs)
    BY <2>1, FS_Interval
  <2>. DEFINE g == [i \in DOMAIN rs |-> rs[i]]
  <2>3. g \in Surjection(DOMAIN rs, SX!ToSet(rs))
    BY DEF Surjection, SX!ToSet
  <2>. HIDE DEF g, rs
  <2>. QED BY <2>2, <2>3, FS_Surjection DEF rs
<1>4. \A T \in all : IsFiniteSet(T)
  BY <1>3
<1>5. FileRows = UNION all
  BY DEF FileRows
<1>. HIDE DEF all
<1>. QED BY <1>2, <1>4, <1>5, FS_UNION

\* Rows of one stream in order are as many as their sequence is long.
LEMMA IncreasingCount ==
    ASSUME NEW rs \in Seq(FileRows), Increasing(rs),
           \A i, j \in DOMAIN rs : rs[i].tag = rs[j].tag
    PROVE  IsFiniteSet(SX!ToSet(rs)) /\ Cardinality(SX!ToSet(rs)) = Len(rs)
<1>1. DOMAIN rs = 1 .. Len(rs) /\ Len(rs) \in Nat /\ \A i \in DOMAIN rs : rs[i] \in FileRows
  BY LenProperties, ElementOfSeq
<1>2. IsFiniteSet(DOMAIN rs) /\ Cardinality(DOMAIN rs) = Len(rs)
  <2>. DEFINE n == Len(rs)
  <2>1. n \in Nat /\ DOMAIN rs = 1 .. n
    BY <1>1
  <2>. HIDE DEF n
  <2>2. /\ IsFiniteSet(1 .. n)
        /\ Cardinality(1 .. n) = IF 1 > n THEN 0 ELSE n - 1 + 1
    BY <2>1, FS_Interval
  <2>3. Cardinality(1 .. n) = n
    BY <2>1, <2>2
  <2>. QED BY <2>1, <2>2, <2>3 DEF n
<1>3. \A i, j \in DOMAIN rs : i < j => Earlier(rs[i], rs[j])
  BY DEF Increasing, InFileOrder, SameClass
<1>4. \A i, j \in DOMAIN rs : rs[i] = rs[j] => i = j
  <2>. SUFFICES ASSUME NEW i \in DOMAIN rs, NEW j \in DOMAIN rs, rs[i] = rs[j], i # j
                PROVE  FALSE
    OBVIOUS
  <2>1. i < j \/ j < i
    BY <1>1
  <2>. QED BY <2>1, <1>1, <1>3, EarlierIsStrict
<1>. DEFINE g == [i \in DOMAIN rs |-> rs[i]]
<1>5. g \in Injection(DOMAIN rs, SX!ToSet(rs)) /\ g \in Surjection(DOMAIN rs, SX!ToSet(rs))
  BY <1>4 DEF Injection, IsInjective, Surjection, SX!ToSet
<1>. HIDE DEF g
<1>. QED BY <1>2, <1>5, FS_Surjection

\* Ordered messages hold no row twice.
LEMMA OrderedOnce ==
    ASSUME NEW msgs \in Seq(Message), Ordered(msgs)
    PROVE  \A p, q \in Places(msgs) : RowAt(msgs, p) = RowAt(msgs, q) => p = q
<1>. SUFFICES ASSUME NEW p \in Places(msgs), NEW q \in Places(msgs),
                     RowAt(msgs, p) = RowAt(msgs, q), p # q
              PROVE  FALSE
  OBVIOUS
<1>1. PICK m \in DOMAIN msgs : p \in {m} \X DOMAIN msgs[m].rows
  BY DEF Places
<1>2. PICK n \in DOMAIN msgs : q \in {n} \X DOMAIN msgs[n].rows
  BY DEF Places
<1>3. PICK i \in DOMAIN msgs[m].rows : p = << m, i >>
  BY <1>1
<1>4. PICK j \in DOMAIN msgs[n].rows : q = << n, j >>
  BY <1>2
<1>. DEFINE x == msgs[m].rows[i]
<1>5. x = msgs[n].rows[j] /\ (m # n \/ i # j)
  BY <1>3, <1>4 DEF RowAt
<1>6. /\ m \in Nat /\ n \in Nat
      /\ msgs[m].rows \in Seq(FileRows) /\ msgs[n].rows \in Seq(FileRows)
  BY DEF Message
<1>7. i \in Nat /\ j \in Nat /\ x \in FileRows
  BY <1>6
<1>. HIDE DEF x
<1>8. ~ InFileOrder(x, x)
  BY <1>7, EarlierIsStrict DEF InFileOrder
<1>9. CASE m # n
  <2>1. m < n \/ n < m
    BY <1>6, <1>9
  <2>. QED BY <2>1, <1>5, <1>8 DEF Ordered, x
<1>10. CASE m = n /\ i # j
  <2>1. i < j \/ j < i
    BY <1>7, <1>10
  <2>. QED BY <2>1, <1>5, <1>8, <1>10 DEF Ordered, Increasing, x
<1>. QED BY <1>5, <1>9, <1>10

\* So the count of a file is that of its rows.
LEMMA ScanCounts ==
    ASSUME NEW msgs \in Seq(Message), Ordered(msgs)
    PROVE  Scan(msgs) = Cardinality(RowsIn(msgs)) /\ Scan(msgs) \in Nat
<1>. DEFINE g == [p \in Places(msgs) |-> RowAt(msgs, p)]
<1>1. IsFiniteSet(RowsIn(msgs))
  BY RowsInFile, FileIsFinite, FS_Subset
<1>2. g \in Injection(Places(msgs), RowsIn(msgs)) /\ g \in Surjection(Places(msgs), RowsIn(msgs))
  BY OrderedOnce DEF Injection, IsInjective, Surjection, RowsIn
<1>. HIDE DEF g
<1>3. /\ IsFiniteSet(Places(msgs))
      /\ Cardinality(Places(msgs)) = Cardinality(RowsIn(msgs))
  BY <1>1, <1>2, FS_Injection
<1>. QED BY <1>1, <1>3, FS_CardinalityType DEF Scan

-----------------------------------------------------------------------------
(* shard_frames. *)

\* Flushing writes the batch to the file and loses nothing.
LEMMA FlushKeeps ==
    ASSUME NEW g, NEW c, NEW n, GatherInv(g, c, n)
    PROVE  GatherInv(Flush(g), c, n) /\ Flush(g).rows = << >>
<1>1. CASE g.rows = << >>
  BY <1>1 DEF Flush
<1>2. CASE g.rows # << >>
  <2>. DEFINE msg == Batch(g.tag, g.rows)
              h == Flush(g)
  <2>1. /\ g \in Pending /\ g.file \in Seq(Message) /\ g.rows \in Seq(FileRows)
        /\ Ordered(g.file) /\ Increasing(g.rows)
        /\ \A i \in DOMAIN g.rows : g.rows[i].tag = g.tag /\ g.tag \in KeyedStreams
        /\ \A x \in RowsIn(g.file), y \in SX!ToSet(g.rows) : InFileOrder(x, y)
        /\ \A m \in DOMAIN g.file : Truthful(g.file[m])
    BY DEF GatherInv, Pending
  <2>2. /\ h = [g EXCEPT !.file = Append(@, msg), !.rows = << >>]
        /\ h.file = Append(g.file, msg) /\ h.rows = << >> /\ h.tag = g.tag
    <3>1. h = [g EXCEPT !.file = Append(@, msg), !.rows = << >>]
      BY <1>2 DEF Flush
    <3>2. DOMAIN g = {"file", "tag", "rows"}
      BY <2>1 DEF Pending
    <3>. HIDE DEF h, msg
    <3>. QED BY <3>1, <3>2
  <2>3. msg.raw = FALSE /\ msg.tag = g.tag /\ msg.rows = g.rows
    BY DEF Batch
  <2>4. g.tag \in KeyedStreams /\ g.tag \in Tags
    <3>1. 1 \in DOMAIN g.rows /\ g.rows[1] \in FileRows
      BY <1>2, <2>1
    <3>2. PICK f \in DOMAIN Frames : g.rows[1].tag = Frames[f].tag
      BY <3>1, FileRow
    <3>. QED BY <2>1, <3>1, <3>2 DEF Tags
  <2>5. msg \in Message /\ Truthful(msg)
    <3>1. msg \in [raw : BOOLEAN, tag : Tags, rows : Seq(FileRows)]
      BY <2>1, <2>4 DEF Batch
    <3>. QED BY <3>1, <2>1, <2>3, <2>4 DEF Message, Truthful
  <2>. HIDE DEF msg, h
  <2>6. /\ h.file \in Seq(Message) /\ Ordered(h.file)
        /\ RowsIn(h.file) = RowsIn(g.file) \cup SX!ToSet(g.rows)
    BY <2>1, <2>2, <2>3, <2>5, AppendMessage
  <2>7. \A m \in DOMAIN h.file : Truthful(h.file[m])
    <3>1. \A m \in DOMAIN h.file : (m \in DOMAIN g.file /\ h.file[m] = g.file[m]) \/ h.file[m] = msg
      BY <2>1, <2>2, <2>5
    <3>. QED BY <3>1, <2>1, <2>5
  <2>8. SX!ToSet(h.rows) = {} /\ Increasing(h.rows) /\ DOMAIN h.rows = {}
    <3>1. DOMAIN << >> = {}
      OBVIOUS
    <3>2. DOMAIN h.rows = {}
      BY <2>2, <3>1
    <3>. QED BY <3>2 DEF SX!ToSet, Increasing
  <2>9. h \in Pending
    <3>1. PICK file \in Seq(Message) : h = [g EXCEPT !.file = file, !.rows = << >>]
      BY <2>2, <2>6
    <3>2. << >> \in Seq(FileRows)
      OBVIOUS
    <3>. QED BY <2>1, <3>1, <3>2 DEF Pending
  <2>10. RowsIn(h.file) \cup SX!ToSet(h.rows) = {row \in FileRows : Goes(row, c) /\ row.id[1] <= n}
    BY <2>6, <2>8 DEF GatherInv
  <2>11. GatherInv(h, c, n)
    BY <2>6, <2>7, <2>8, <2>9, <2>10 DEF GatherInv
  <2>. QED BY <2>2, <2>11 DEF h
<1>. QED BY <1>1, <1>2

\* The rows of another frame are later than all that is gathered.
LEMMA LaterFrame ==
    ASSUME NEW n \in Nat, NEW x \in FileRows, NEW y \in FileRows,
           x.id[1] <= n, y.id[1] = n + 1
    PROVE  InFileOrder(x, y)
<1>1. x.id[1] \in Nat
  BY FileRow
<1>. QED BY <1>1, EarlierIsStrict DEF InFileOrder

\* A frame of an unlisted stream goes to the first file, past the batch.
LEMMA GatherRaw ==
    ASSUME NEW g, NEW c \in Conns, NEW n \in Nat, n + 1 \in DOMAIN Frames,
           mode # "raw", Frames[n + 1].tag \notin KeyedStreams, GatherInv(g, c, n)
    PROVE  GatherInv(Gather(g, n + 1, c, hash), c, n + 1)
<1>. DEFINE f == n + 1
            msg == Raw(f)
            h == Gather(g, f, c, hash)
<1>1. /\ g \in Pending /\ g.file \in Seq(Message) /\ g.rows \in Seq(FileRows)
      /\ Ordered(g.file) /\ Increasing(g.rows)
      /\ \A i \in DOMAIN g.rows : g.rows[i].tag = g.tag /\ g.tag \in KeyedStreams
      /\ \A x \in RowsIn(g.file), y \in SX!ToSet(g.rows) : InFileOrder(x, y)
      /\ \A m \in DOMAIN g.file : Truthful(g.file[m])
      /\ RowsIn(g.file) \cup SX!ToSet(g.rows) = {row \in FileRows : Goes(row, c) /\ row.id[1] <= n}
  BY DEF GatherInv, Pending
<1>2. \A row \in FileRows : row.id[1] \in Nat
  BY FileRow
<1>3. /\ FrameMessage(msg, f, 0)
      /\ \A row \in FileRows : row.id[1] = f =>
            (Goes(row, 0) /\ \A d \in Conns \ {0} : ~ Goes(row, d))
  BY RawFrameMessage
<1>4. CASE c # 0
  <2>1. h = g
    BY <1>4 DEF Gather
  <2>2. \A row \in FileRows : Goes(row, c) /\ row.id[1] <= f => row.id[1] <= n
    BY <1>2, <1>3, <1>4
  <2>3. {row \in FileRows : Goes(row, c) /\ row.id[1] <= n} =
            {row \in FileRows : Goes(row, c) /\ row.id[1] <= f}
    BY <1>2, <2>2
  <2>4. GatherInv(g, c, f)
    BY <1>1, <2>3 DEF GatherInv
  <2>. QED BY <2>1, <2>4
<1>5. CASE c = 0
  <2>1. /\ h = [g EXCEPT !.file = Append(@, msg)]
        /\ h.file = Append(g.file, msg) /\ h.rows = g.rows /\ h.tag = g.tag
    BY <1>1, <1>5 DEF Gather, Pending
  <2>2. /\ msg \in Message /\ Truthful(msg) /\ Increasing(msg.rows)
        /\ SX!ToSet(msg.rows) = {row \in FileRows : row.id[1] = f /\ Goes(row, c)}
    BY <1>3, <1>5 DEF FrameMessage
  <2>. HIDE DEF msg, h
  <2>3. \A x \in RowsIn(g.file), y \in SX!ToSet(msg.rows) : InFileOrder(x, y)
    BY <1>1, <2>2, LaterFrame
  <2>4. /\ h.file \in Seq(Message) /\ Ordered(h.file)
        /\ RowsIn(h.file) = RowsIn(g.file) \cup SX!ToSet(msg.rows)
    BY <1>1, <2>1, <2>2, <2>3, AppendMessage
  <2>5. \A m \in DOMAIN h.file : Truthful(h.file[m])
    <3>1. \A m \in DOMAIN h.file : (m \in DOMAIN g.file /\ h.file[m] = g.file[m]) \/ h.file[m] = msg
      BY <1>1, <2>1, <2>2
    <3>. QED BY <3>1, <1>1, <2>2
  <2>6. \A x \in SX!ToSet(msg.rows), y \in SX!ToSet(h.rows) : InFileOrder(x, y)
    <3>1. \A x \in SX!ToSet(msg.rows) : x.tag \notin KeyedStreams
      BY RawMessage, FrameRows DEF msg, SX!ToSet
    <3>2. \A y \in SX!ToSet(h.rows) : y.tag \in KeyedStreams
      BY <1>1, <2>1 DEF SX!ToSet
    <3>. QED BY <3>1, <3>2 DEF InFileOrder, SameClass
  <2>7. h \in Pending
    BY <1>1, <2>1, <2>4 DEF Pending
  <2>8. RowsIn(h.file) \cup SX!ToSet(h.rows) = {row \in FileRows : Goes(row, c) /\ row.id[1] <= f}
    <3>1. \A row \in FileRows : row.id[1] <= f <=> (row.id[1] <= n \/ row.id[1] = f)
      BY <1>2
    <3>. QED BY <1>1, <2>1, <2>2, <2>4, <3>1
  <2>9. \A x \in RowsIn(h.file), y \in SX!ToSet(h.rows) : InFileOrder(x, y)
    BY <1>1, <2>1, <2>4, <2>6
  <2>10. GatherInv(h, c, f)
    BY <1>1, <2>1, <2>4, <2>5, <2>7, <2>8, <2>9 DEF GatherInv
  <2>. QED BY <2>10 DEF h
<1>. QED BY <1>4, <1>5

\* Rows of one stream after others.
LEMMA ConcatRows ==
    ASSUME NEW a \in Seq(FileRows), NEW b \in Seq(FileRows), NEW t,
           Increasing(a), Increasing(b),
           \A x \in SX!ToSet(a), y \in SX!ToSet(b) : InFileOrder(x, y),
           \A i \in DOMAIN a : a[i].tag = t, \A i \in DOMAIN b : b[i].tag = t
    PROVE  /\ a \o b \in Seq(FileRows) /\ Increasing(a \o b)
           /\ SX!ToSet(a \o b) = SX!ToSet(a) \cup SX!ToSet(b)
           /\ \A i \in DOMAIN (a \o b) : (a \o b)[i].tag = t
<1>. DEFINE ab == a \o b
<1>1. /\ DOMAIN a = 1 .. Len(a) /\ DOMAIN b = 1 .. Len(b)
      /\ Len(a) \in Nat /\ Len(b) \in Nat
      /\ ab \in Seq(FileRows) /\ DOMAIN ab = 1 .. Len(a) + Len(b)
      /\ \A m \in DOMAIN a : ab[m] = a[m]
      /\ \A m \in DOMAIN b : ab[Len(a) + m] = b[m]
  BY ConcatProperties, LenProperties
<1>. HIDE DEF ab
<1>2. \A m \in DOMAIN ab : m \in DOMAIN a \/ \E k \in DOMAIN b : m = Len(a) + k
  <2>. SUFFICES ASSUME NEW m \in DOMAIN ab, m \notin DOMAIN a
                PROVE  \E k \in DOMAIN b : m = Len(a) + k
    OBVIOUS
  <2>. DEFINE k == m - Len(a)
  <2>1. k \in DOMAIN b /\ m = Len(a) + k
    BY <1>1
  <2>. QED BY <2>1
<1>3. /\ \A m \in DOMAIN a : m \in DOMAIN ab /\ ab[m] = a[m]
      /\ \A k \in DOMAIN b : Len(a) + k \in DOMAIN ab /\ ab[Len(a) + k] = b[k]
  BY <1>1
<1>4. SX!ToSet(ab) = SX!ToSet(a) \cup SX!ToSet(b)
  BY <1>2, <1>3 DEF SX!ToSet
<1>5. \A i \in DOMAIN ab : ab[i].tag = t
  BY <1>2, <1>3
<1>6. ASSUME NEW i \in DOMAIN ab, NEW j \in DOMAIN ab, i < j
      PROVE  InFileOrder(ab[i], ab[j])
  <2>1. CASE j \in DOMAIN a
    <3>1. i \in DOMAIN a
      BY <2>1, <1>6, <1>1
    <3>. QED BY <2>1, <3>1, <1>3, <1>6 DEF Increasing
  <2>2. CASE i \in DOMAIN a /\ j \notin DOMAIN a
    <3>1. PICK l \in DOMAIN b : j = Len(a) + l
      BY <2>2, <1>2
    <3>2. ab[i] \in SX!ToSet(a) /\ ab[j] \in SX!ToSet(b)
      BY <2>2, <3>1, <1>3 DEF SX!ToSet
    <3>. QED BY <3>2
  <2>3. CASE i \notin DOMAIN a /\ j \notin DOMAIN a
    <3>1. PICK k \in DOMAIN b : i = Len(a) + k
      BY <2>3, <1>2
    <3>2. PICK l \in DOMAIN b : j = Len(a) + l
      BY <2>3, <1>2
    <3>3. k < l
      BY <3>1, <3>2, <1>1, <1>6
    <3>. QED BY <3>1, <3>2, <3>3, <1>3 DEF Increasing
  <2>. QED BY <2>1, <2>2, <2>3
<1>. QED BY <1>1, <1>4, <1>5, <1>6 DEF Increasing, ab

\* The rows of a frame of a listed stream join the batch of their stream; a
\* batch of another stream is written before.
LEMMA GatherBatch ==
    ASSUME NEW g, NEW c \in Conns, NEW n \in Nat, n + 1 \in DOMAIN Frames,
           mode # "raw", Frames[n + 1].tag \in KeyedStreams, GatherInv(g, c, n)
    PROVE  GatherInv(Gather(g, n + 1, c, hash), c, n + 1)
<1>. DEFINE f == n + 1
            tag == Frames[f].tag
            sub == SubBatch(f, c, hash)
            base == IF g.tag = tag THEN g ELSE [Flush(g) EXCEPT !.tag = tag]
            next == [base EXCEPT !.rows = @ \o sub]
<1>1. Gather(g, f, c, hash) = IF sub = << >> THEN g
                              ELSE IF Len(next.rows) >= TargetRows THEN Flush(next) ELSE next
  BY DEF Gather
<1>2. /\ sub \in Seq(FileRows) /\ Increasing(sub)
      /\ \A i \in DOMAIN sub : sub[i].tag = tag
      /\ SX!ToSet(sub) = {row \in FileRows : row.id[1] = f /\ Goes(row, c)}
  <2>1. /\ sub \in Seq(FileRows) /\ Increasing(sub)
        /\ \A i \in DOMAIN sub : sub[i].tag = tag
        /\ SX!ToSet(sub) = {row \in FileRows : row.id[1] = f /\ ShardOf(row, hash) = c}
    BY SubBatchRows
  <2>2. \A row \in FileRows : row.id[1] = f => (Goes(row, c) <=> ShardOf(row, hash) = c)
    BY BatchFrameMessage
  <2>. HIDE DEF sub, f
  <2>. QED BY <2>1, <2>2
<1>3. \A row \in FileRows : /\ row.id[1] \in Nat
                            /\ row.id[1] <= f <=> (row.id[1] <= n \/ row.id[1] = f)
  BY FileRow
<1>4. tag \in Tags /\ tag \in KeyedStreams
  BY DEF Tags
<1>. HIDE DEF sub, tag
<1>5. CASE sub = << >>
  <2>1. SX!ToSet(sub) = {}
    BY <1>5 DEF SX!ToSet
  <2>2. {row \in FileRows : Goes(row, c) /\ row.id[1] <= n} =
            {row \in FileRows : Goes(row, c) /\ row.id[1] <= f}
    BY <1>2, <1>3, <2>1
  <2>3. GatherInv(g, c, f)
    BY <2>2 DEF GatherInv
  <2>. QED BY <1>1, <1>5, <2>3
<1>6. CASE sub # << >>
  <2>1. GatherInv(base, c, n) /\ base.tag = tag
    <3>1. CASE g.tag = tag
      BY <3>1
    <3>2. CASE g.tag # tag
      <4>. DEFINE h == Flush(g)
      <4>1. GatherInv(h, c, n) /\ h.rows = << >>
        BY FlushKeeps
      <4>. HIDE DEF h
      <4>2. base = [h EXCEPT !.tag = tag] /\ h \in Pending
        BY <3>2, <4>1 DEF GatherInv, h
      <4>. HIDE DEF base
      <4>3. /\ base.tag = tag /\ base.rows = << >> /\ base.file = h.file /\ base \in Pending
        BY <4>1, <4>2, <1>4 DEF Pending
      <4>4. DOMAIN base.rows = {}
        <5>1. DOMAIN << >> = {}
          OBVIOUS
        <5>. QED BY <4>3, <5>1
      <4>. QED BY <4>1, <4>3, <4>4 DEF GatherInv
    <3>. QED BY <3>1, <3>2
  <2>. HIDE DEF base
  <2>2. /\ base \in Pending /\ base.file \in Seq(Message) /\ base.rows \in Seq(FileRows)
        /\ Ordered(base.file) /\ Increasing(base.rows)
        /\ \A i \in DOMAIN base.rows : base.rows[i].tag = tag
        /\ \A x \in RowsIn(base.file), y \in SX!ToSet(base.rows) : InFileOrder(x, y)
        /\ \A m \in DOMAIN base.file : Truthful(base.file[m])
        /\ RowsIn(base.file) \cup SX!ToSet(base.rows) =
                {row \in FileRows : Goes(row, c) /\ row.id[1] <= n}
    BY <2>1 DEF GatherInv, Pending
  <2>3. \A x \in RowsIn(base.file) \cup SX!ToSet(base.rows), y \in SX!ToSet(sub) : InFileOrder(x, y)
    BY <1>2, <2>2, LaterFrame
  <2>4. /\ base.rows \o sub \in Seq(FileRows) /\ Increasing(base.rows \o sub)
        /\ SX!ToSet(base.rows \o sub) = SX!ToSet(base.rows) \cup SX!ToSet(sub)
        /\ \A i \in DOMAIN (base.rows \o sub) : (base.rows \o sub)[i].tag = tag
    BY <1>2, <2>2, <2>3, ConcatRows
  <2>5. PICK rs \in Seq(FileRows) : rs = base.rows \o sub
    BY <2>4
  <2>6. /\ next = [base EXCEPT !.rows = rs]
        /\ next.rows = rs /\ next.file = base.file /\ next.tag = tag /\ next \in Pending
    BY <2>1, <2>2, <2>5 DEF Pending
  <2>. HIDE DEF next
  <2>7. RowsIn(next.file) \cup SX!ToSet(next.rows) =
            {row \in FileRows : Goes(row, c) /\ row.id[1] <= f}
    BY <1>2, <1>3, <2>2, <2>4, <2>5, <2>6
  <2>8. \A x \in RowsIn(next.file), y \in SX!ToSet(next.rows) : InFileOrder(x, y)
    BY <2>2, <2>3, <2>4, <2>5, <2>6
  <2>9. GatherInv(next, c, f)
    BY <1>4, <2>2, <2>4, <2>5, <2>6, <2>7, <2>8 DEF GatherInv
  <2>10. GatherInv(Flush(next), c, f)
    BY <2>9, FlushKeeps
  <2>. QED BY <1>1, <1>6, <2>9, <2>10
<1>. QED BY <1>5, <1>6

-----------------------------------------------------------------------------
(* The reader's messages. *)

\* The messages of a frame: one for each connection that has rows of it, and
\* none for the others.
LEMMA RouteMessages ==
    ASSUME NEW f \in DOMAIN Frames, mode # "raw",
           hash \in [ofKey : [Keys -> Conns], ofRow : RowHashes]
    PROVE  LET route == Route(f, hash)
           IN  /\ route \in Seq([to : Conns, msg : Message])
               /\ \A m \in DOMAIN route : FrameMessage(route[m].msg, f, route[m].to)
               /\ \A m, n \in DOMAIN route : route[m].to = route[n].to => m = n
               /\ \A c \in Conns : (\A m \in DOMAIN route : route[m].to # c) =>
                        \A row \in FileRows : row.id[1] = f => ~ Goes(row, c)
<1>. DEFINE route == Route(f, hash)
<1>1. CASE Frames[f].tag \notin KeyedStreams
  <2>1. FrameMessage(Raw(f), f, 0) /\ Raw(f) \in Message /\ 0 \in Conns
    BY <1>1, RawFrameMessage, RawMessage, SendAssumption DEF Conns
  <2>2. route = << [to |-> 0, msg |-> Raw(f)] >>
    BY <1>1 DEF Route
  <2>. HIDE DEF route
  <2>3. \A row \in FileRows : row.id[1] = f => \A c \in Conns \ {0} : ~ Goes(row, c)
    BY <1>1, RawFrameMessage
  <2>4. /\ route \in Seq([to : Conns, msg : Message]) /\ DOMAIN route = {1}
        /\ route[1].to = 0 /\ route[1].msg = Raw(f)
    BY <2>1, <2>2
  <2>. QED BY <2>1, <2>3, <2>4 DEF route
<1>2. CASE Frames[f].tag \in KeyedStreams
  <2>. DEFINE K == {c \in Conns : Mask(f, c, hash) # {}}
              targets == InOrder(K)
              message(c) == Batch(Frames[f].tag, SubBatch(f, c, hash))
  <2>1. K \in SUBSET Nat /\ IsFiniteSet(K)
    <3>1. IsFiniteSet(Conns) /\ K \in SUBSET Conns /\ Conns \in SUBSET Nat
      BY SendAssumption, FS_Interval DEF Conns
    <3>. QED BY <3>1, FS_Subset
  <2>2. /\ targets \in Seq(K) /\ DOMAIN targets = 1 .. Len(targets)
        /\ \A i, j \in DOMAIN targets : i < j => targets[i] < targets[j]
        /\ \A k \in K : \E j \in DOMAIN targets : targets[j] = k
    BY <2>1, InOrderLists, LenProperties
  <2>3. \A c \in Conns : FrameMessage(message(c), f, c)
    BY <1>2, BatchFrameMessage
  <2>4. \A row \in FileRows, c \in Conns : row.id[1] = f => (Goes(row, c) <=> ShardOf(row, hash) = c)
    BY <1>2, BatchFrameMessage
  <2>5. route = [j \in DOMAIN targets |-> [to |-> targets[j], msg |-> message(targets[j])]]
    BY <1>2 DEF Route
  <2>6. ASSUME NEW c \in Conns, NEW row \in FileRows, row.id[1] = f, Goes(row, c)
        PROVE  c \in K
    <3>1. PICK i \in DOMAIN RowsOfFrame(f) : row = RowsOfFrame(f)[i]
      BY <2>6, FrameRows
    <3>2. i \in Mask(f, c, hash)
      BY <2>4, <2>6, <3>1, FrameType DEF Mask
    <3>. QED BY <3>2
  <2>. HIDE DEF route, targets, message
  <2>7. \A j \in DOMAIN targets : targets[j] \in K /\ targets[j] \in Conns /\ targets[j] \in Nat
    BY <2>1, <2>2, ElementOfSeq
  <2>8. \A i, j \in DOMAIN targets : targets[i] = targets[j] => i = j
    <3>. SUFFICES ASSUME NEW i \in DOMAIN targets, NEW j \in DOMAIN targets,
                         targets[i] = targets[j], i # j
                  PROVE  FALSE
      OBVIOUS
    <3>1. i \in Nat /\ j \in Nat
      BY <2>2
    <3>2. i < j \/ j < i
      BY <3>1
    <3>. QED BY <3>2, <2>2, <2>7
  <2>9. route \in Seq([to : Conns, msg : Message])
    <3>1. \A c \in Conns : message(c) \in Message
      BY <2>3 DEF FrameMessage
    <3>2. PICK n \in Nat : n = Len(targets)
      BY <2>2, LenProperties
    <3>. DEFINE Handover == [to : Conns, msg : Message]
    <3>3. route \in [1 .. n -> Handover]
      BY <2>2, <2>5, <2>7, <3>1, <3>2
    <3>. HIDE DEF Handover
    <3>4. route \in Seq(Handover)
      BY <3>3
    <3>. QED BY <3>4 DEF Handover
  <2>10. /\ DOMAIN route = DOMAIN targets
         /\ \A m \in DOMAIN route : route[m].to = targets[m] /\ route[m].msg = message(targets[m])
    BY <2>5
  <2>. HIDE DEF K
  <2>11. \A m \in DOMAIN route : FrameMessage(route[m].msg, f, route[m].to)
    <3>. SUFFICES ASSUME NEW m \in DOMAIN route
                  PROVE  FrameMessage(route[m].msg, f, route[m].to)
      OBVIOUS
    <3>1. PICK d \in Conns : d = targets[m]
      BY <2>7, <2>10
    <3>2. FrameMessage(message(d), f, d) /\ route[m].to = d /\ route[m].msg = message(d)
      BY <2>3, <2>10, <3>1
    <3>. QED BY <3>2
  <2>12. \A m, n \in DOMAIN route : route[m].to = route[n].to => m = n
    BY <2>8, <2>10
  <2>13. ASSUME NEW c \in Conns, \A m \in DOMAIN route : route[m].to # c,
                NEW row \in FileRows, row.id[1] = f
         PROVE  ~ Goes(row, c)
    BY <2>2, <2>6, <2>10, <2>13
  <2>. QED BY <2>9, <2>11, <2>12, <2>13 DEF route
<1>. QED BY <1>1, <1>2

-----------------------------------------------------------------------------
(* What a step that does not touch a connection leaves alone. *)

\* A connection holds the same rows of those that have left the reader.
LEMMA KeepHeld ==
    ASSUME NEW c \in Conns, HeldInv(c), mode' = mode, hash' = hash,
           Held(c)' = Held(c), Given(c)' = Given(c),
           writer'[c] = "failed" <=> writer[c] = "failed",
           writer'[c] \in {"sentinel", "done", "failed"} => chan'[c] = << >>,
           \A m \in DOMAIN chan'[c] : Truthful(chan'[c][m])
    PROVE  HeldInv(c)'
<1>1. \A x : Goes(x, c)' <=> Goes(x, c)
  BY Zenon DEF Goes
<1>2. \A m \in DOMAIN chan'[c] : Truthful(chan[c][m])'
  BY DEF Truthful
<1>. QED BY <1>1, <1>2 DEF HeldInv

\* Neither its line, nor its count, nor what the engine has read from it.
LEMMA KeepConnection ==
    ASSUME NEW c \in Conns, ConnInv(c),
           mode' = mode, hash' = hash, net'[c] = net[c], chan'[c] = chan[c],
           rows'[c] = rows[c], Read(c)' = Read(c), ReadInOrder(c)',
           Given(c)' = Given(c), main' # "split" => main # "split",
           writer'[c] = "failed" <=> writer[c] = "failed",
           writer'[c] \in {"sentinel", "done"} => chan[c] = << >>
    PROVE  ConnInv(c)'
<1>0. OrderInv(c) /\ HeldInv(c) /\ CountInv(c)
  BY DEF ConnInv
<1>1. Line(c)' = Line(c)
  BY DEF Line
<1>2. Held(c)' = Held(c)
  BY <1>1 DEF Held
<1>3. Handed(c)' = Handed(c)
  BY DEF Handed
<1>4. OrderInv(c)'
  BY <1>0, <1>1 DEF OrderInv
<1>5. HeldInv(c)'
  <2>1. /\ \A m \in DOMAIN chan'[c] : Truthful(chan'[c][m])
        /\ writer'[c] \in {"sentinel", "done", "failed"} => chan'[c] = << >>
    BY <1>0 DEF HeldInv
  <2>. QED BY <1>0, <1>2, <2>1, KeepHeld
<1>6. CountInv(c)'
  <2>1. \A x : Goes(x, c)' <=> Goes(x, c)
    BY Zenon DEF Goes
  <2>. QED BY <1>0, <1>3, <2>1 DEF CountInv
<1>. QED BY <1>4, <1>5, <1>6 DEF ConnInv

\* What has left the reader depends on the reader alone.
LEMMA KeepGiven ==
    ASSUME NEW c, UNCHANGED << mode, hash, at, out >>, main' = "split" <=> main = "split"
    PROVE  Given(c)' = Given(c)
<1>1. \A x : Goes(x, c)' <=> Goes(x, c)
  BY Zenon DEF Goes
<1>2. \A x : Left(x, c)' <=> Left(x, c)
  BY DEF Left
<1>. QED BY <1>1, <1>2 DEF Given

\* Nor anything the engine has read.
LEMMA KeepStill ==
    ASSUME NEW c \in Conns, ConnInv(c), Given(c)' = Given(c),
           mode' = mode, hash' = hash, got' = got,
           net'[c] = net[c], chan'[c] = chan[c], rows'[c] = rows[c],
           main' # "split" => main # "split",
           writer'[c] = "failed" <=> writer[c] = "failed",
           writer'[c] \in {"sentinel", "done"} => chan[c] = << >>
    PROVE  ConnInv(c)'
<1>1. Read(c)' = Read(c)
  BY DEF Read
<1>2. ReadInOrder(c)'
  BY DEF ConnInv, OrderInv, ReadInOrder
<1>. QED BY <1>1, <1>2, KeepConnection

-----------------------------------------------------------------------------
(* The variables keep their types. *)

\* The next frame of the input is gathered for every connection.
LEMMA SplitGathers ==
    ASSUME IInv, main = "split", at < Len(Frames), NEW c \in Conns
    PROVE  GatherInv(Gather(gather[c], at + 1, c, hash), c, at + 1)
<1>0. at \in 0 .. Len(Frames) /\ Len(Frames) \in Nat
  BY SendAssumption, LenProperties DEF IInv, TypeOK
<1>1. PICK n \in Nat : n = at
  BY <1>0
<1>2. PICK g : g = gather[c]
  OBVIOUS
<1>3. GatherInv(g, c, n) /\ mode # "raw" /\ n < Len(Frames)
  BY <1>1, <1>2 DEF IInv, CommandInv
<1>4. n + 1 \in DOMAIN Frames
  BY <1>3, SendAssumption, LenProperties
<1>5. GatherInv(Gather(g, n + 1, c, hash), c, n + 1)
  BY <1>3, <1>4, GatherRaw, GatherBatch
<1>. QED BY <1>1, <1>2, <1>5

\* The files, once the last batch is written.
LEMMA SplitFiles ==
    ASSUME IInv, main = "split", at = Len(Frames), NEW c \in Conns
    PROVE  LET file == Flush(gather[c]).file
           IN  /\ file \in Seq(Message) /\ Ordered(file)
               /\ \A m \in DOMAIN file : Truthful(file[m])
               /\ RowsIn(file) = {row \in FileRows : Goes(row, c)}
               /\ Scan(file) = Cardinality({row \in FileRows : Goes(row, c)})
               /\ Scan(file) \in Nat
<1>0. at \in 0 .. Len(Frames) /\ Len(Frames) \in Nat
  BY SendAssumption, LenProperties DEF IInv, TypeOK
<1>1. PICK n \in Nat : n = at
  BY <1>0
<1>2. PICK g : g = gather[c]
  OBVIOUS
<1>3. GatherInv(g, c, n) /\ n = Len(Frames)
  BY <1>1, <1>2 DEF IInv, CommandInv
<1>4. PICK h : h = Flush(g)
  OBVIOUS
<1>5. GatherInv(h, c, n) /\ h.rows = << >>
  BY <1>3, <1>4, FlushKeeps
<1>6. SX!ToSet(h.rows) = {}
  <2>1. DOMAIN << >> = {}
    OBVIOUS
  <2>. QED BY <1>5, <2>1 DEF SX!ToSet
<1>7. /\ h.file \in Seq(Message) /\ Ordered(h.file)
      /\ \A m \in DOMAIN h.file : Truthful(h.file[m])
      /\ RowsIn(h.file) = {row \in FileRows : Goes(row, c) /\ row.id[1] <= n}
  BY <1>5, <1>6 DEF GatherInv, Pending
<1>8. \A row \in FileRows : row.id[1] <= n
  <2>. SUFFICES ASSUME NEW row \in FileRows PROVE row.id[1] <= n
    OBVIOUS
  <2>1. PICK f \in DOMAIN Frames : row.id[1] = f
    BY FileRow
  <2>. QED BY <2>1, <1>3, FrameType
<1>9. {row \in FileRows : Goes(row, c) /\ row.id[1] <= n} = {row \in FileRows : Goes(row, c)}
  BY <1>8
<1>10. Scan(h.file) = Cardinality(RowsIn(h.file)) /\ Scan(h.file) \in Nat
  BY <1>7, ScanCounts
<1>. QED BY <1>2, <1>4, <1>7, <1>9, <1>10

\* The type invariant is kept.
LEMMA TypeStep ==
    ASSUME IInv, [Next]_vars
    PROVE  TypeOK'
<1>0. TypeOK
  BY DEF IInv
<1>. USE DEF TypeOK, vars, setup, reader
<1>1. CASE SplitFrame
  <2>1. \A c \in Conns : Gather(gather[c], at + 1, c, hash) \in Pending
    BY <1>1, SplitGathers DEF SplitFrame, GatherInv
  <2>2. gather' \in [Conns -> Pending]
    BY <1>1, <2>1 DEF SplitFrame
  <2>3. at' \in 0 .. Len(Frames)
    BY <1>0, <1>1, SendAssumption, LenProperties DEF SplitFrame
  <2>. QED BY <1>0, <1>1, <2>2, <2>3 DEF SplitFrame
<1>2. CASE SplitEnds
  <2>1. \A c \in Conns : Flush(gather[c]).file \in Seq(Message) /\ Scan(Flush(gather[c]).file) \in Nat
    BY <1>2, SplitFiles DEF SplitEnds
  <2>2. chan' \in [Conns -> Seq(Message)] /\ rows' \in [Conns -> Nat]
    BY <1>2, <2>1 DEF SplitEnds
  <2>3. Empty \in Pending
    <3>1. << >> \in Seq(Message) /\ << >> \in Seq(FileRows)
      OBVIOUS
    <3>. QED BY <3>1 DEF Empty, Pending
  <2>. QED BY <1>0, <1>2, <2>2, <2>3 DEF SplitEnds
<1>3. CASE ReadFrame
  <2>1. PICK n \in Nat : n = at
    BY <1>0
  <2>2. n + 1 \in DOMAIN Frames /\ mode # "raw"
    BY <1>3, <2>1, SendAssumption, LenProperties DEF ReadFrame, IInv, CommandInv
  <2>3. Route(n + 1, hash) \in Seq([to : Conns, msg : Message])
    BY <1>0, <2>2, RouteMessages
  <2>4. at' \in 0 .. Len(Frames) /\ out' \in Seq([to : Conns, msg : Message])
    BY <1>3, <2>1, <2>2, <2>3, SendAssumption, LenProperties DEF ReadFrame
  <2>. QED BY <1>0, <1>3, <2>4 DEF ReadFrame
<1>4. CASE ReadError
  BY <1>0, <1>4 DEF ReadError
<1>5. CASE HandOver
  <2>1. /\ Head(out) \in [to : Conns, msg : Message] /\ Tail(out) \in Seq([to : Conns, msg : Message])
    BY <1>0, <1>5, HeadTailProperties DEF HandOver
  <2>2. PICK c \in Conns, msg \in Message : Head(out).to = c /\ Head(out).msg = msg
    BY <2>1
  <2>3. chan' = [chan EXCEPT ![c] = Append(@, msg)] /\ Append(chan[c], msg) \in Seq(Message)
    BY <1>0, <1>5, <2>2, AppendProperties DEF HandOver
  <2>4. chan' \in [Conns -> Seq(Message)]
    BY <1>0, <2>3
  <2>5. out' \in Seq([to : Conns, msg : Message])
    BY <1>5, <2>1 DEF HandOver
  <2>. QED BY <1>0, <1>5, <2>4, <2>5 DEF HandOver
<1>6. CASE HandOverFails
  BY <1>0, <1>6 DEF HandOverFails
<1>7. CASE EndOfInput
  BY <1>0, <1>7 DEF EndOfInput
<1>8. CASE Join
  <2>1. joined' \in 0 .. Connections /\ main' \in {"split", "read", "join", "ok", "failed"}
    BY <1>0, <1>8, SendAssumption DEF Join
  <2>. QED BY <1>0, <1>8, <2>1 DEF Join
<1>9. CASE Exit
  BY <1>0, <1>9 DEF Exit
<1>10. ASSUME NEW c \in Conns, Connect(c)
       PROVE  TypeOK'
  BY <1>0, <1>10 DEF Connect
<1>11. ASSUME NEW c \in Conns, WriteNext(c)
       PROVE  TypeOK'
  <2>1. Head(chan[c]) \in Message /\ Tail(chan[c]) \in Seq(Message)
    BY <1>0, <1>11, HeadTailProperties DEF WriteNext
  <2>2. PICK msg \in Message : msg = Head(chan[c])
    BY <2>1
  <2>3. Append(net[c], msg) \in Seq(Message) /\ Counted(msg) \in Nat
    <3>1. msg.rows \in Seq(FileRows)
      BY DEF Message
    <3>. QED BY <1>0, <3>1, AppendProperties, LenProperties DEF Counted
  <2>4. /\ chan' \in [Conns -> Seq(Message)] /\ net' \in [Conns -> Seq(Message)]
        /\ rows' \in [Conns -> Nat]
    BY <1>0, <1>11, <2>1, <2>2, <2>3 DEF WriteNext
  <2>. QED BY <1>0, <1>11, <2>4 DEF WriteNext
<1>12. ASSUME NEW c \in Conns, WriterEnds(c)
       PROVE  TypeOK'
  BY <1>0, <1>12 DEF WriterEnds
<1>13. ASSUME NEW c \in Conns, SendSentinel(c)
       PROVE  TypeOK'
  BY <1>0, <1>13 DEF SendSentinel
<1>14. ASSUME NEW c \in Conns, WriterFails(c)
       PROVE  TypeOK'
  <2>1. PICK kept \in 0 .. Len(net[c]) : net' = [net EXCEPT ![c] = SubSeq(@, 1, kept)]
    BY <1>14 DEF WriterFails
  <2>2. SubSeq(net[c], 1, kept) \in Seq(Message)
    BY <1>0, <2>1, SubSeqProperties
  <2>3. net' \in [Conns -> Seq(Message)] /\ << >> \in Seq(Message)
    BY <1>0, <2>1, <2>2
  <2>4. chan' \in [Conns -> Seq(Message)]
    BY <1>0, <1>14, <2>3 DEF WriterFails
  <2>. QED BY <1>0, <1>14, <2>3, <2>4 DEF WriterFails
<1>15. ASSUME NEW c \in Conns, Receive(c)
       PROVE  TypeOK'
  <2>1. Head(net[c]) \in Message /\ Tail(net[c]) \in Seq(Message)
    BY <1>0, <1>15, HeadTailProperties DEF Receive
  <2>2. PICK rs \in Seq(FileRows) : rs = Head(net[c]).rows
    BY <2>1 DEF Message
  <2>. DEFINE read == [i \in DOMAIN rs |-> [conn |-> c, row |-> rs[i]]]
  <2>. DEFINE Reading == [conn : Conns, row : FileRows]
  <2>3. read \in Seq(Reading)
    <3>1. PICK n \in Nat : n = Len(rs) /\ DOMAIN rs = 1 .. n
      BY <2>2, LenProperties
    <3>2. read \in [1 .. n -> Reading]
      BY <2>2, <3>1
    <3>. HIDE DEF Reading, read
    <3>. QED BY <3>2
  <2>4. got' = got \o read
    BY <1>15, <2>2 DEF Receive
  <2>. HIDE DEF read
  <2>5. got' \in Seq([conn : Conns, row : FileRows])
    BY <1>0, <2>3, <2>4, ConcatProperties DEF Reading
  <2>6. net' \in [Conns -> Seq(Message)]
    BY <1>0, <1>15, <2>1 DEF Receive
  <2>. QED BY <1>0, <1>15, <2>5, <2>6 DEF Receive
<1>16. ASSUME NEW b \in bottles, Land(b)
       PROVE  TypeOK'
  BY <1>0, <1>16 DEF Land
<1>17. CASE UNCHANGED vars
  BY <1>0, <1>17
<1>. QED
  BY <1>1, <1>2, <1>3, <1>4, <1>5, <1>6, <1>7, <1>8, <1>9, <1>10, <1>11, <1>12, <1>13,
     <1>14, <1>15, <1>16, <1>17 DEF Next, Reader, Writer, Engine

-----------------------------------------------------------------------------
(* The command, its reader and the sentinels. *)

\* What the reader still has to hand over.
LEMMA OutStep ==
    ASSUME IInv, [Next]_vars
    PROVE  OutInv'
<1>0. TypeOK /\ OutInv /\ CommandInv
  BY DEF IInv
<1>1. ASSUME UNCHANGED << mode, hash >>, mode # "sharded" => out' = << >>,
             \A m \in DOMAIN out' : FrameMessage(out'[m].msg, at', out'[m].to),
             \A m, n \in DOMAIN out' : out'[m].to = out'[n].to => m = n
      PROVE  OutInv'
  <2>1. \A x, c : Goes(x, c)' <=> Goes(x, c)
    BY <1>1, Zenon DEF Goes
  <2>2. \A msg : Truthful(msg)' <=> Truthful(msg)
    BY <1>1 DEF Truthful
  <2>. SUFFICES ASSUME NEW m \in DOMAIN out'
                PROVE  FrameMessage(out[m].msg, at, out[m].to)'
    BY <1>1 DEF OutInv
  <2>3. PICK msg, f, c : msg = out'[m].msg /\ f = at' /\ c = out'[m].to
    OBVIOUS
  <2>4. FrameMessage(msg, f, c)
    BY <1>1, <2>3
  <2>. QED BY <1>1, <2>1, <2>2, <2>3, <2>4 DEF FrameMessage, Truthful
<1>2. CASE UNCHANGED << mode, hash, at, out >>
  BY <1>0, <1>1, <1>2 DEF OutInv
<1>3. CASE SplitFrame
  <2>1. out = << >> /\ DOMAIN << >> = {}
    BY <1>0, <1>3 DEF SplitFrame, CommandInv, OutInv
  <2>2. out' = << >> /\ DOMAIN out' = {} /\ UNCHANGED << mode, hash >>
    BY <1>3, <2>1 DEF SplitFrame, setup
  <2>. QED BY <1>1, <2>2
<1>4. CASE ReadFrame
  <2>1. at \in Nat /\ at + 1 \in DOMAIN Frames
    BY <1>0, <1>4, SendAssumption, LenProperties DEF TypeOK, ReadFrame
  <2>2. PICK f \in DOMAIN Frames : f = at + 1
    BY <2>1
  <2>6. mode = "sharded"
    BY <1>0, <1>4 DEF ReadFrame, CommandInv
  <2>3. PICK route : route = Route(f, hash)
    OBVIOUS
  <2>4. /\ \A m \in DOMAIN route : FrameMessage(route[m].msg, f, route[m].to)
        /\ \A m, n \in DOMAIN route : route[m].to = route[n].to => m = n
    BY <1>0, <2>3, <2>6, RouteMessages DEF TypeOK
  <2>5. out' = route /\ at' = f /\ UNCHANGED << mode, hash >>
    BY <1>4, <2>2, <2>3 DEF ReadFrame, setup
  <2>. QED BY <1>1, <2>4, <2>5, <2>6
<1>5. CASE HandOver
  <2>1. out \in Seq([to : Conns, msg : Message]) /\ out # << >> /\ out' = Tail(out)
    BY <1>0, <1>5 DEF TypeOK, HandOver
  <2>2. \A m \in DOMAIN out' : m \in Nat /\ m + 1 \in DOMAIN out /\ out'[m] = out[m + 1]
    BY <2>1, HeadTailProperties, LenProperties
  <2>3. UNCHANGED << mode, hash, at >> /\ mode = "sharded"
    BY <1>0, <1>5 DEF HandOver, setup, CommandInv
  <2>4. \A m \in DOMAIN out' : FrameMessage(out'[m].msg, at', out'[m].to)
    BY <1>0, <2>2, <2>3 DEF OutInv
  <2>5. \A m, n \in DOMAIN out' : out'[m].to = out'[n].to => m = n
    <3>. SUFFICES ASSUME NEW m \in DOMAIN out', NEW n \in DOMAIN out', out'[m].to = out'[n].to
                  PROVE  m = n
      OBVIOUS
    <3>1. m + 1 = n + 1
      BY <1>0, <2>2 DEF OutInv
    <3>. QED BY <2>2, <3>1
  <2>. QED BY <1>1, <2>3, <2>4, <2>5
<1>6. ASSUME Next PROVE SplitFrame \/ ReadFrame \/ HandOver \/ UNCHANGED << mode, hash, at, out >>
  BY <1>6 DEF Next, Reader, Writer, Engine, setup, reader, SplitEnds, ReadError, HandOverFails,
     EndOfInput, Join, Exit, Connect, WriteNext, WriterEnds, SendSentinel, WriterFails, Receive, Land
<1>7. CASE UNCHANGED vars
  BY <1>2, <1>7 DEF vars, setup, reader
<1>. QED BY <1>2, <1>3, <1>4, <1>5, <1>6, <1>7

\* A sentinel is of a writer that is done, and counts what it counted.
LEMMA SentinelStep ==
    ASSUME IInv, [Next]_vars
    PROVE  SentinelInv'
<1>0. TypeOK /\ SentinelInv /\ CommandInv
  BY DEF IInv
<1>1. CASE UNCHANGED << writer, rows, bottles, landed >>
  BY <1>0, <1>1 DEF SentinelInv
<1>. SUFFICES ASSUME Next, ~ UNCHANGED << writer, rows, bottles, landed >>
              PROVE  SentinelInv'
  BY <1>1 DEF vars
<1>2. CASE SplitEnds
  <2>1. bottles \cup landed = {}
    BY <1>0, <1>2 DEF SplitEnds, CommandInv, SentinelInv, TypeOK
  <2>. QED BY <1>2, <2>1 DEF SplitEnds, SentinelInv
<1>3. ASSUME NEW c \in Conns, \/ Connect(c) \/ WriteNext(c) \/ WriterEnds(c) \/ WriterFails(c)
      PROVE  SentinelInv'
  <2>1. writer[c] # "done" /\ UNCHANGED << bottles, landed >>
    BY <1>3 DEF Connect, WriteNext, WriterEnds, WriterFails
  <2>2. \A d \in Conns \ {c} : writer'[d] = writer[d] /\ rows'[d] = rows[d]
    BY <1>0, <1>3 DEF TypeOK, Connect, WriteNext, WriterEnds, WriterFails
  <2>. QED BY <1>0, <2>1, <2>2 DEF SentinelInv, TypeOK
<1>4. ASSUME NEW c \in Conns, SendSentinel(c)
      PROVE  SentinelInv'
  <2>1. /\ bottles' = bottles \cup {[round |-> c, n |-> rows[c]]} /\ landed' = landed
        /\ rows' = rows /\ writer' = [writer EXCEPT ![c] = "done"]
    BY <1>4 DEF SendSentinel
  <2>. QED BY <1>0, <2>1 DEF SentinelInv, TypeOK
<1>5. ASSUME NEW b \in bottles, Land(b)
      PROVE  SentinelInv'
  BY <1>0, <1>5 DEF Land, SentinelInv
<1>6. UNCHANGED << writer, rows, bottles, landed >> \/ SplitEnds
        \/ (\E c \in Conns : \/ Connect(c) \/ WriteNext(c) \/ WriterEnds(c) \/ WriterFails(c)
                             \/ SendSentinel(c))
        \/ (\E b \in bottles : Land(b))
  BY DEF Next, Reader, Writer, Engine, SplitFrame, ReadFrame, ReadError, HandOver, HandOverFails,
     EndOfInput, Join, Exit, Receive
<1>. QED BY <1>2, <1>3, <1>4, <1>5, <1>6

\* The command's phases.
LEMMA CommandStep ==
    ASSUME IInv, [Next]_vars
    PROVE  CommandInv'
<1>0. TypeOK /\ CommandInv /\ OutInv /\ SentinelInv
  BY DEF IInv
<1>. USE DEF setup, reader
<1>1. CASE SplitFrame
  <2>1. /\ main = "split" /\ main' = "split" /\ mode' = "files" /\ got' = << >>
        /\ \A c \in Conns : writer'[c] = "connect" /\ Line(c)' = << >>
    BY <1>0, <1>1 DEF SplitFrame, CommandInv, Line
  <2>2. ASSUME NEW c \in Conns
        PROVE  GatherInv(gather[c], c, at)'
    <3>1. PICK g, n : g = Gather(gather[c], at + 1, c, hash) /\ n = at + 1
      OBVIOUS
    <3>2. GatherInv(g, c, n)
      BY <1>1, <3>1, SplitGathers DEF SplitFrame
    <3>3. gather'[c] = g /\ at' = n /\ UNCHANGED << mode, hash >>
      BY <1>1, <3>1 DEF SplitFrame
    <3>4. \A x : Goes(x, c)' <=> Goes(x, c)
      BY <3>3, Zenon DEF Goes
    <3>5. \A msg : Truthful(msg)' <=> Truthful(msg)
      BY <3>3 DEF Truthful
    <3>. QED BY <3>2, <3>3, <3>4, <3>5 DEF GatherInv
  <2>3. joined' = joined /\ writer' = writer
    BY <1>1 DEF SplitFrame
  <2>. QED BY <1>0, <2>1, <2>2, <2>3 DEF CommandInv
<1>2. CASE SplitEnds
  <2>1. main = "split" /\ main' = "join" /\ mode = "files" /\ UNCHANGED << mode, joined, writer >>
    BY <1>0, <1>2 DEF SplitEnds, CommandInv
  <2>2. gather' = [c \in Conns |-> Empty]
    BY <1>2 DEF SplitEnds
  <2>. QED BY <1>0, <2>1, <2>2 DEF CommandInv
<1>3. CASE ReadFrame \/ ReadError \/ HandOver \/ HandOverFails \/ EndOfInput \/ Exit
  BY <1>0, <1>3 DEF CommandInv, ReadFrame, ReadError, HandOver, HandOverFails, EndOfInput, Exit
<1>4. CASE Join
  <2>1. /\ main = "join" /\ main' \in {"join", "ok", "failed"}
        /\ UNCHANGED << mode, gather, at, out, writer >>
    BY <1>4 DEF Join
  <2>2. \A c \in Conns : c < joined' => writer'[c] = "done"
    BY <1>0, <1>4, SendAssumption DEF CommandInv, Join, TypeOK, Conns
  <2>3. main' = "ok" => joined' = Connections
    BY <1>4, <2>1 DEF Join
  <2>. QED BY <1>0, <2>1, <2>2, <2>3 DEF CommandInv
<1>5. ASSUME main # "split", UNCHANGED << mode, main, gather, at, out, joined >>,
             \A c \in Conns : /\ writer[c] = "done" => writer'[c] = "done"
                              /\ ~ Closed => writer'[c] \in {writer[c], "run", "failed"}
      PROVE  CommandInv'
  BY <1>0, <1>5 DEF CommandInv, Closed
<1>6. ASSUME NEW c \in Conns, Connect(c) \/ WriterEnds(c) \/ WriterFails(c)
      PROVE  CommandInv'
  <2>1. /\ main # "split" /\ UNCHANGED << mode, main, gather, at, out, joined >>
        /\ writer[c] # "done" /\ (~ Closed => writer'[c] \in {"run", "failed"})
    BY <1>0, <1>6 DEF CommandInv, Connect, WriterEnds, WriterFails, TypeOK, Closed
  <2>2. \A d \in Conns \ {c} : writer'[d] = writer[d]
    BY <1>0, <1>6 DEF TypeOK, Connect, WriterEnds, WriterFails
  <2>. QED BY <1>5, <2>1, <2>2
<1>7. ASSUME NEW c \in Conns, SendSentinel(c)
      PROVE  CommandInv'
  <2>1. /\ main \notin {"split", "read"} /\ UNCHANGED << mode, main, gather, at, out, joined >>
        /\ writer' = [writer EXCEPT ![c] = "done"]
    BY <1>0, <1>7 DEF CommandInv, SendSentinel
  <2>. QED BY <1>0, <1>5, <2>1 DEF TypeOK, Closed
<1>8. ASSUME NEW c \in Conns, WriteNext(c)
      PROVE  CommandInv'
  <2>1. main # "split" /\ UNCHANGED << mode, main, gather, at, out, joined, writer >>
    BY <1>0, <1>8 DEF CommandInv, WriteNext
  <2>. QED BY <1>5, <2>1
<1>9. ASSUME NEW c \in Conns, Receive(c)
      PROVE  CommandInv'
  <2>1. net[c] \in Seq(Message) /\ net[c] # << >> /\ chan[c] \in Seq(Message)
    BY <1>0, <1>9 DEF TypeOK, Receive
  <2>2. Line(c) # << >>
    BY <2>1, ConcatProperties, LenProperties DEF Line
  <2>3. main # "split" /\ UNCHANGED << mode, main, gather, at, out, joined, writer >>
    BY <1>0, <1>9, <2>2 DEF CommandInv, Receive
  <2>. QED BY <1>5, <2>3
<1>10. ASSUME NEW b \in bottles, Land(b)
       PROVE  CommandInv'
  <2>1. b.round \in Conns /\ writer[b.round] = "done"
    BY <1>0, <1>10 DEF TypeOK, SentinelInv
  <2>2. main # "split" /\ UNCHANGED << mode, main, gather, at, out, joined, writer >>
    BY <1>0, <1>10, <2>1 DEF CommandInv, Land
  <2>. QED BY <1>5, <2>2
<1>11. CASE UNCHANGED vars
  <2>1. UNCHANGED << mode, hash, main, gather, at, out, joined, writer, got >>
        /\ \A c : Line(c)' = Line(c)
    BY <1>11 DEF vars, Line
  <2>2. \A c : GatherInv(gather[c], c, at)' <=> GatherInv(gather[c], c, at)
    <3>1. \A x, c : Goes(x, c)' <=> Goes(x, c)
      BY <2>1, Zenon DEF Goes
    <3>2. \A msg : Truthful(msg)' <=> Truthful(msg)
      BY <2>1 DEF Truthful
    <3>. QED BY <2>1, <3>1, <3>2 DEF GatherInv
  <2>. QED BY <1>0, <2>1, <2>2 DEF CommandInv
<1>. QED
  BY <1>1, <1>2, <1>3, <1>4, <1>6, <1>7, <1>8, <1>9, <1>10, <1>11 DEF Next, Reader, Writer, Engine

-----------------------------------------------------------------------------
(* The connections, step by step. *)

\* The rows of a line are those on the network and those in the channel.
LEMMA LineRows ==
    ASSUME TypeOK, NEW c \in Conns
    PROVE  /\ net[c] \in Seq(Message) /\ chan[c] \in Seq(Message) /\ Line(c) \in Seq(Message)
           /\ RowsIn(Line(c)) = RowsIn(net[c]) \cup RowsIn(chan[c])
           /\ Held(c) = Handed(c) \cup RowsIn(chan[c])
           /\ Ordered(Line(c)) <=>
                /\ Ordered(net[c]) /\ Ordered(chan[c])
                /\ \A x \in RowsIn(net[c]), y \in RowsIn(chan[c]) : InFileOrder(x, y)
<1>1. net[c] \in Seq(Message) /\ chan[c] \in Seq(Message)
  BY DEF TypeOK
<1>2. net[c] \o chan[c] \in Seq(Message)
  BY <1>1, ConcatProperties
<1>3. /\ RowsIn(net[c] \o chan[c]) = RowsIn(net[c]) \cup RowsIn(chan[c])
      /\ Ordered(net[c] \o chan[c]) <=>
                /\ Ordered(net[c]) /\ Ordered(chan[c])
                /\ \A x \in RowsIn(net[c]), y \in RowsIn(chan[c]) : InFileOrder(x, y)
  BY <1>1, ConcatMessages
<1>. QED BY <1>1, <1>2, <1>3 DEF Line, Held, Handed

\* The rows read and the rows on a line are of the file.
LEMMA HeldInFile ==
    ASSUME TypeOK, NEW c \in Conns
    PROVE  /\ Read(c) \subseteq FileRows /\ RowsIn(net[c]) \subseteq FileRows
           /\ RowsIn(chan[c]) \subseteq FileRows /\ Held(c) \subseteq FileRows
           /\ IsFiniteSet(Handed(c))
<1>1. Read(c) \subseteq FileRows
  <2>. DEFINE Reading == [conn : Conns, row : FileRows]
  <2>1. got \in Seq(Reading)
    BY DEF TypeOK
  <2>. HIDE DEF Reading
  <2>2. \A n \in DOMAIN got : got[n] \in Reading
    BY <2>1, ElementOfSeq, LenProperties
  <2>. QED BY <2>2 DEF Read, Reading
<1>2. RowsIn(net[c]) \subseteq FileRows /\ RowsIn(chan[c]) \subseteq FileRows
  BY LineRows, RowsInFile
<1>3. Handed(c) \in SUBSET FileRows
  BY <1>1, <1>2 DEF Handed
<1>4. IsFiniteSet(Handed(c))
  BY <1>3, FileIsFinite, FS_Subset
<1>. QED BY <1>1, <1>2, <1>3, <1>4, LineRows

\* The reader takes a frame: it has only left for connections it has rows for.
LEMMA ReadFrameStep ==
    ASSUME IInv, ReadFrame, NEW c \in Conns
    PROVE  ConnInv(c)'
<1>0. TypeOK /\ CommandInv /\ ConnInv(c)
  BY DEF IInv
<1>1. /\ at \in Nat /\ at + 1 \in DOMAIN Frames /\ main = "read" /\ mode = "sharded"
      /\ out = << >> /\ at' = at + 1
      /\ UNCHANGED << mode, hash, main, chan, writer, rows, net, got >>
  BY <1>0, SendAssumption, LenProperties DEF TypeOK, CommandInv, ReadFrame, setup
<1>2. PICK f \in DOMAIN Frames : f = at + 1
  BY <1>1
<1>3. (\A m \in DOMAIN out' : out'[m].to # c) => \A row \in FileRows : row.id[1] = f => ~ Goes(row, c)
  <2>1. PICK route : route = Route(f, hash)
    OBVIOUS
  <2>2. (\A m \in DOMAIN route : route[m].to # c) => \A row \in FileRows : row.id[1] = f => ~ Goes(row, c)
    BY <1>0, <1>1, <2>1, RouteMessages DEF TypeOK
  <2>. QED BY <1>2, <2>1, <2>2 DEF ReadFrame
<1>4. Given(c)' = Given(c)
  <2>1. \A row : Goes(row, c)' <=> Goes(row, c)
    BY <1>1, Zenon DEF Goes
  <2>2. ASSUME NEW row \in FileRows, Goes(row, c)
        PROVE  Left(row, c)' <=> Left(row, c)
    <3>1. row.id[1] \in Nat
      BY FileRow
    <3>2. Left(row, c) <=> row.id[1] < at \/ row.id[1] = at
      <4>1. DOMAIN << >> = {}
        OBVIOUS
      <4>. QED BY <1>1, <4>1 DEF Left
    <3>3. Left(row, c)' <=> row.id[1] < f \/ (row.id[1] = f /\ \A m \in DOMAIN out' : out'[m].to # c)
      BY <1>1, <1>2 DEF Left
    <3>. QED BY <1>1, <1>2, <1>3, <2>2, <3>1, <3>2, <3>3
  <2>. QED BY <2>1, <2>2 DEF Given
<1>5. writer'[c] \in {"sentinel", "done"} => chan[c] = << >>
  BY <1>0, <1>1 DEF ConnInv, HeldInv
<1>. QED BY <1>0, <1>1, <1>4, <1>5, KeepStill

\* A message is handed over: connection c holds the rows of the frame it is for.
LEMMA HandOverStep ==
    ASSUME IInv, HandOver, NEW d \in Conns
    PROVE  ConnInv(d)'
<1>0. TypeOK /\ CommandInv /\ OutInv /\ ConnInv(d)
  BY DEF IInv
<1>1. PICK c \in Conns, msg \in Message : Head(out).to = c /\ Head(out).msg = msg
  <2>1. Head(out) \in [to : Conns, msg : Message]
    BY <1>0, HeadTailProperties DEF HandOver, TypeOK
  <2>. QED BY <2>1
<1>2. /\ main = "read" /\ mode = "sharded" /\ writer[c] # "failed"
      /\ chan' = [chan EXCEPT ![c] = Append(@, msg)] /\ out' = Tail(out)
      /\ UNCHANGED << mode, hash, main, at, writer, rows, net, got >>
  BY <1>0, <1>1 DEF HandOver, CommandInv, setup
<1>3. at \in Nat
  BY <1>0, SendAssumption, LenProperties DEF TypeOK
<1>4. /\ 1 \in DOMAIN out /\ out[1].to = c /\ out[1].msg = msg
      /\ \A m \in DOMAIN out' : m \in Nat \ {0} /\ m + 1 \in DOMAIN out /\ out'[m] = out[m + 1]
      /\ \A m \in DOMAIN out : m # 1 => m - 1 \in DOMAIN out' /\ out'[m - 1] = out[m]
  <2>1. out \in Seq([to : Conns, msg : Message]) /\ out # << >>
    BY <1>0 DEF TypeOK, HandOver
  <2>2. /\ DOMAIN out = 1 .. Len(out) /\ Len(out) \in Nat /\ Len(out) # 0
        /\ DOMAIN out' = 1 .. Len(out) - 1 /\ \A m \in 1 .. Len(out) - 1 : out'[m] = out[m + 1]
    BY <1>2, <2>1, HeadTailProperties, LenProperties, EmptySeq
  <2>3. Head(out) = out[1]
    BY <2>1
  <2>. QED BY <1>1, <2>2, <2>3
<1>5. FrameMessage(msg, at, c)
  BY <1>0, <1>4 DEF OutInv
<1>6. \A row \in FileRows : row.id[1] \in Nat
  BY FileRow
<1>7. \A row, e : Goes(row, e)' <=> Goes(row, e)
  BY <1>2, Zenon DEF Goes
<1>8. CASE d # c
  <2>0. (\A m \in DOMAIN out' : out'[m].to # d) <=> (\A m \in DOMAIN out : out[m].to # d)
    BY <1>4, <1>8
  <2>1. \A row : Left(row, d)' <=> Left(row, d)
    BY <1>2, <2>0 DEF Left
  <2>2. Given(d)' = Given(d)
    BY <1>7, <2>1 DEF Given
  <2>3. chan'[d] = chan[d] /\ (writer'[d] \in {"sentinel", "done"} => chan[d] = << >>)
    BY <1>0, <1>2, <1>8 DEF TypeOK, ConnInv, HeldInv
  <2>. QED BY <1>0, <1>2, <2>2, <2>3, KeepStill
<1>9. CASE d = c
  <2>1. \A row \in FileRows : /\ Left(row, c) <=> row.id[1] < at
                              /\ Left(row, c)' <=> row.id[1] <= at
    <3>1. \A m \in DOMAIN out' : out'[m].to # c
      <4>. SUFFICES ASSUME NEW m \in DOMAIN out', out'[m].to = c PROVE FALSE
        OBVIOUS
      <4>1. m + 1 = 1 /\ m \in Nat \ {0}
        BY <1>0, <1>4 DEF OutInv
      <4>. QED BY <4>1
    <3>2. \E m \in DOMAIN out : out[m].to = c
      BY <1>4
    <3>3. \A row : Left(row, c) <=> row.id[1] < at
      BY <1>2, <3>2 DEF Left
    <3>4. \A row : Left(row, c)' <=> row.id[1] < at \/ row.id[1] = at
      BY <1>2, <3>1 DEF Left
    <3>. QED BY <1>3, <1>6, <3>3, <3>4
  <2>2. Given(c) = {row \in FileRows : Goes(row, c) /\ row.id[1] < at}
    BY <2>1 DEF Given
  <2>3. Given(c)' = {row \in FileRows : Goes(row, c) /\ row.id[1] <= at}
    BY <1>7, <2>1 DEF Given
  <2>4. /\ msg \in Message /\ Truthful(msg) /\ Increasing(msg.rows)
        /\ SX!ToSet(msg.rows) = {row \in FileRows : row.id[1] = at /\ Goes(row, c)}
    BY <1>5 DEF FrameMessage
  <2>5. Given(c)' = Given(c) \cup SX!ToSet(msg.rows)
    BY <1>3, <1>6, <2>2, <2>3, <2>4
  <2>6. Held(c) = Given(c) /\ OrderInv(c)
    BY <1>0, <1>2, <1>9 DEF ConnInv, HeldInv
  <2>7. PICK line : line = Line(c)
    OBVIOUS
  <2>8. line \in Seq(Message) /\ Line(c)' = Append(line, msg)
    <3>1. net[c] \in Seq(Message) /\ chan[c] \in Seq(Message)
      BY <1>0 DEF TypeOK
    <3>2. net'[c] = net[c] /\ chan'[c] = Append(chan[c], msg)
      BY <1>0, <1>2 DEF TypeOK
    <3>3. net[c] \o Append(chan[c], msg) = Append(net[c] \o chan[c], msg)
      BY <3>1, AppendLine
    <3>. QED BY <3>1, <3>2, <3>3, <2>7, ConcatProperties DEF Line
  <2>9. /\ RowsIn(Line(c)') = RowsIn(line) \cup SX!ToSet(msg.rows)
        /\ Ordered(Line(c)') <=>
                /\ Ordered(line) /\ Increasing(msg.rows)
                /\ \A x \in RowsIn(line), y \in SX!ToSet(msg.rows) : InFileOrder(x, y)
    BY <2>4, <2>8, AppendMessage
  <2>10. Read(c)' = Read(c)
    BY <1>2 DEF Read
  <2>11. Held(c)' = Held(c) \cup SX!ToSet(msg.rows)
    BY <2>7, <2>9, <2>10 DEF Held
  <2>12. \A x \in Held(c), y \in SX!ToSet(msg.rows) : InFileOrder(x, y)
    BY <2>2, <2>4, <2>6, EarlierIsStrict DEF InFileOrder
  <2>13. OrderInv(c)'
    <3>1. ReadInOrder(c)'
      BY <1>2, <2>6 DEF OrderInv, ReadInOrder
    <3>2. Ordered(Line(c)') /\ \A x \in Read(c), y \in RowsIn(Line(c)') : InFileOrder(x, y)
      BY <2>4, <2>6, <2>7, <2>9, <2>12 DEF OrderInv, Held
    <3>. QED BY <2>10, <3>1, <3>2 DEF OrderInv
  <2>14. HeldInv(c)'
    <3>1. Held(c)' = Given(c)'
      BY <2>5, <2>6, <2>11
    <3>2. ASSUME NEW x \in FileRows, NEW y \in Held(c)', Goes(x, c), Earlier(x, y)
          PROVE  x \in Held(c)'
      <4>1. y \in FileRows /\ y.id[1] <= at
        BY <2>3, <3>1
      <4>2. x.id[1] <= at
        BY <1>3, <1>6, <3>2, <4>1, EarlierIsStrict
      <4>. QED BY <2>3, <3>1, <3>2, <4>2
    <3>3. writer'[c] \notin {"sentinel", "done", "failed"}
      BY <1>0, <1>2 DEF CommandInv
    <3>4. \A m \in DOMAIN chan'[c] : Truthful(chan'[c][m])
      <4>1. chan[c] \in Seq(Message) /\ chan'[c] = Append(chan[c], msg)
        BY <1>0, <1>2 DEF TypeOK
      <4>2. \A m \in DOMAIN chan'[c] : (m \in DOMAIN chan[c] /\ chan'[c][m] = chan[c][m]) \/ chan'[c][m] = msg
        BY <4>1
      <4>. QED BY <1>0, <1>9, <2>4, <4>2 DEF ConnInv, HeldInv
    <3>5. \A m \in DOMAIN chan'[c] : Truthful(chan[c][m])'
      BY <1>2, <3>4 DEF Truthful
    <3>. QED BY <1>7, <3>1, <3>2, <3>3, <3>5 DEF HeldInv
  <2>15. CountInv(c)'
    <3>1. Handed(c)' = Handed(c)
      BY <1>2, <2>10 DEF Handed
    <3>. QED BY <1>0, <1>2, <1>9, <3>1 DEF CountInv, ConnInv
  <2>. QED BY <1>9, <2>13, <2>14, <2>15 DEF ConnInv
<1>. QED BY <1>8, <1>9

\* A message goes from the channel to the network: the line stays as it is,
\* and the writer counts the rows that the connection has now been handed.
LEMMA WriteNextStep ==
    ASSUME IInv, NEW c \in Conns, WriteNext(c), NEW d \in Conns
    PROVE  ConnInv(d)'
<1>0. TypeOK /\ CommandInv /\ ConnInv(c) /\ ConnInv(d)
  BY DEF IInv
<1>1. PICK msg, rest : msg = Head(chan[c]) /\ rest = Tail(chan[c])
  OBVIOUS
<1>2. /\ chan[c] \in Seq(Message) /\ chan[c] # << >> /\ net[c] \in Seq(Message)
      /\ msg \in Message /\ rest \in Seq(Message) /\ chan[c] = << msg >> \o rest
      /\ RowsIn(chan[c]) = SX!ToSet(msg.rows) \cup RowsIn(rest)
      /\ Ordered(chan[c]) => Increasing(msg.rows)
  <2>1. chan[c] \in Seq(Message) /\ net[c] \in Seq(Message) /\ chan[c] # << >>
    BY <1>0 DEF TypeOK, WriteNext
  <2>2. msg \in Message /\ rest \in Seq(Message) /\ chan[c] = << msg >> \o rest
    BY <1>1, <2>1
  <2>. QED BY <1>1, <2>1, <2>2, FirstMessage
<1>3. /\ chan' = [chan EXCEPT ![c] = rest] /\ net' = [net EXCEPT ![c] = Append(@, msg)]
      /\ rows' = [rows EXCEPT ![c] = @ + Counted(msg)] /\ writer[c] = "run"
      /\ UNCHANGED << mode, hash, main, at, out, writer, got >>
  BY <1>1 DEF WriteNext, setup, reader
<1>4. Given(d)' = Given(d)
  BY <1>3, KeepGiven
<1>5. CASE d # c
  <2>1. net'[d] = net[d] /\ chan'[d] = chan[d] /\ rows'[d] = rows[d]
    BY <1>0, <1>3, <1>5 DEF TypeOK
  <2>2. writer'[d] \in {"sentinel", "done"} => chan[d] = << >>
    BY <1>0, <1>3 DEF ConnInv, HeldInv
  <2>. QED BY <1>0, <1>3, <1>4, <2>1, <2>2, KeepStill
<1>6. CASE d = c
  <2>1. chan'[c] = rest /\ net'[c] = Append(net[c], msg) /\ rows'[c] = rows[c] + Counted(msg)
    BY <1>0, <1>3 DEF TypeOK
  <2>2. Line(c)' = Line(c)
    <3>1. Append(net[c], msg) \o rest = net[c] \o chan[c]
      BY <1>1, <1>2, MoveMessage
    <3>. QED BY <2>1, <3>1 DEF Line
  <2>3. Read(c)' = Read(c) /\ Held(c)' = Held(c)
    BY <1>3, <2>2 DEF Read, Held
  <2>4. OrderInv(c) /\ HeldInv(c) /\ CountInv(c)
    BY <1>0 DEF ConnInv
  <2>5. OrderInv(c)'
    <3>1. ReadInOrder(c)'
      BY <1>3, <2>4 DEF OrderInv, ReadInOrder
    <3>. QED BY <2>2, <2>3, <2>4, <3>1 DEF OrderInv
  <2>6. HeldInv(c)'
    <3>1. \A m \in DOMAIN rest : m + 1 \in DOMAIN chan[c] /\ rest[m] = chan[c][m + 1]
      BY <1>1, <1>2, HeadTailProperties, LenProperties
    <3>2. \A m \in DOMAIN chan'[c] : Truthful(chan'[c][m])
      BY <2>1, <2>4, <3>1 DEF HeldInv
    <3>. QED BY <1>3, <1>4, <1>6, <2>3, <2>4, <3>2, KeepHeld
  <2>7. CountInv(c)'
    <3>1. CASE mode # "sharded"
      <4>1. \A row : Goes(row, c)' <=> Goes(row, c)
        BY <1>3, Zenon DEF Goes
      <4>2. rows'[c] = rows[c]
        BY <1>0, <2>1, <3>1 DEF Counted, TypeOK
      <4>. QED BY <1>3, <2>4, <3>1, <4>1, <4>2 DEF CountInv
    <3>2. CASE mode = "sharded"
      <4>. DEFINE listed(rs) == {row \in rs : row.tag \in KeyedStreams}
      <4>1. rows[c] = Cardinality(listed(Handed(c))) /\ rows[c] \in Nat
        BY <1>0, <1>3, <2>4, <3>2 DEF CountInv, TypeOK
      <4>2. Handed(c)' = Handed(c) \cup SX!ToSet(msg.rows)
        <5>1. RowsIn(Append(net[c], msg)) = RowsIn(net[c]) \cup SX!ToSet(msg.rows)
          BY <1>2, AppendMessage
        <5>. QED BY <2>1, <2>3, <5>1 DEF Handed
      <4>3. /\ Increasing(msg.rows) /\ msg.rows \in Seq(FileRows)
            /\ \A i \in DOMAIN msg.rows : msg.rows[i].tag = msg.tag
            /\ msg.raw <=> msg.tag \notin KeyedStreams
        <5>1. Ordered(chan[c])
          BY <1>0, <2>4, LineRows DEF OrderInv
        <5>2. chan[c][1] = msg /\ 1 \in DOMAIN chan[c]
          BY <1>1, <1>2, LenProperties, EmptySeq
        <5>3. Truthful(msg)
          BY <2>4, <5>2 DEF HeldInv
        <5>. QED BY <1>2, <3>2, <5>1, <5>3 DEF Truthful, Message
      <4>4. CASE msg.raw
        <5>1. listed(SX!ToSet(msg.rows)) = {}
          BY <4>3, <4>4 DEF SX!ToSet
        <5>2. listed(Handed(c)') = listed(Handed(c))
          BY <4>2, <5>1
        <5>3. rows'[c] = rows[c]
          BY <2>1, <4>1, <4>4 DEF Counted
        <5>. QED BY <1>3, <3>2, <4>1, <5>2, <5>3 DEF CountInv
      <4>5. CASE ~ msg.raw
        <5>1. listed(SX!ToSet(msg.rows)) = SX!ToSet(msg.rows)
          BY <4>3, <4>5 DEF SX!ToSet
        <5>2. PICK old : old = listed(Handed(c))
          OBVIOUS
        <5>3. PICK new : new = SX!ToSet(msg.rows)
          OBVIOUS
        <5>4. listed(Handed(c)') = old \cup new
          BY <4>2, <5>1, <5>2, <5>3
        <5>5. IsFiniteSet(new) /\ Cardinality(new) = Len(msg.rows) /\ Len(msg.rows) \in Nat
          BY <4>3, <5>3, IncreasingCount, LenProperties
        <5>6. IsFiniteSet(old) /\ Cardinality(old) = rows[c]
          <6>1. old \in SUBSET Handed(c)
            BY <5>2
          <6>. QED BY <1>0, <4>1, <5>2, <6>1, HeldInFile, FS_Subset
        <5>7. old \cap new = {}
          <6>. SUFFICES ASSUME NEW x \in old, x \in new PROVE FALSE
            OBVIOUS
          <6>1. x \in Handed(c) /\ x \in RowsIn(chan[c]) /\ x \in FileRows
            BY <1>0, <1>2, <5>2, <5>3, HeldInFile
          <6>2. InFileOrder(x, x)
            BY <1>0, <2>4, <6>1, LineRows DEF OrderInv, Handed
          <6>. QED BY <6>1, <6>2, EarlierIsStrict DEF InFileOrder
        <5>8. Cardinality(old \cup new) = rows[c] + Len(msg.rows)
          <6>1. Cardinality(old \cap new) = 0
            BY <5>7, FS_EmptySet
          <6>2. Cardinality(old \cup new) = Cardinality(old) + Cardinality(new) - Cardinality(old \cap new)
            BY <5>5, <5>6, FS_Union
          <6>. QED BY <4>1, <5>5, <5>6, <6>1, <6>2
        <5>9. rows'[c] = rows[c] + Len(msg.rows)
          BY <2>1, <3>2, <4>5 DEF Counted
        <5>10. {row \in Handed(c)' : row.tag \in KeyedStreams} = old \cup new
          BY <5>4
        <5>. QED BY <1>3, <3>2, <5>8, <5>9, <5>10 DEF CountInv
      <4>. QED BY <4>4, <4>5
    <3>. QED BY <3>1, <3>2
  <2>. QED BY <1>6, <2>5, <2>6, <2>7 DEF ConnInv
<1>. QED BY <1>5, <1>6

\* A writer fails: its channel is gone, and the network keeps a first part of
\* what it had.  What is lost is later than all that is kept.
LEMMA WriterFailsStep ==
    ASSUME IInv, NEW c \in Conns, WriterFails(c), NEW d \in Conns
    PROVE  ConnInv(d)'
<1>0. TypeOK /\ CommandInv /\ ConnInv(c) /\ ConnInv(d)
  BY DEF IInv
<1>1. PICK kept \in 0 .. Len(net[c]) : net' = [net EXCEPT ![c] = SubSeq(@, 1, kept)]
  BY DEF WriterFails
<1>2. /\ chan' = [chan EXCEPT ![c] = << >>] /\ writer' = [writer EXCEPT ![c] = "failed"]
      /\ main # "split" /\ UNCHANGED << mode, hash, main, at, out, rows, got >>
  BY DEF WriterFails, setup, reader
<1>3. Given(d)' = Given(d)
  BY <1>2, KeepGiven
<1>4. CASE d # c
  <2>1. net'[d] = net[d] /\ chan'[d] = chan[d] /\ writer'[d] = writer[d]
    BY <1>0, <1>1, <1>2, <1>4 DEF TypeOK
  <2>2. writer'[d] \in {"sentinel", "done"} => chan[d] = << >>
    BY <1>0, <2>1 DEF ConnInv, HeldInv
  <2>. QED BY <1>0, <1>2, <1>3, <2>1, <2>2, KeepStill
<1>5. CASE d = c
  <2>1. net[c] \in Seq(Message) /\ chan[c] \in Seq(Message) /\ kept \in Nat
    BY <1>0, <1>1, LenProperties DEF TypeOK
  <2>2. PICK first, rest : first = SubSeq(net[c], 1, kept) /\ rest = SubSeq(net[c], kept + 1, Len(net[c]))
    OBVIOUS
  <2>3. first \in Seq(Message) /\ rest \in Seq(Message) /\ net[c] = first \o rest
    BY <1>1, <2>1, <2>2, CutMessages
  <2>4. net'[c] = first /\ chan'[c] = << >> /\ writer'[c] = "failed"
    BY <1>0, <1>1, <1>2, <2>2 DEF TypeOK
  <2>5. Line(c)' = first
    BY <2>3, <2>4, ConcatEmptySeq DEF Line
  <2>6. /\ RowsIn(Line(c)) = RowsIn(first) \cup (RowsIn(rest) \cup RowsIn(chan[c]))
        /\ Ordered(Line(c)) => /\ Ordered(first)
                               /\ \A x \in RowsIn(first), y \in RowsIn(rest) \cup RowsIn(chan[c]) : InFileOrder(x, y)
    <3>1. /\ RowsIn(first \o rest) = RowsIn(first) \cup RowsIn(rest)
          /\ Ordered(first \o rest) =>
                Ordered(first) /\ \A x \in RowsIn(first), y \in RowsIn(rest) : InFileOrder(x, y)
      BY <2>3, ConcatMessages
    <3>2. /\ RowsIn(Line(c)) = RowsIn(net[c]) \cup RowsIn(chan[c])
          /\ Ordered(Line(c)) => /\ Ordered(net[c])
                                 /\ \A x \in RowsIn(net[c]), y \in RowsIn(chan[c]) : InFileOrder(x, y)
      BY <1>0, LineRows
    <3>3. RowsIn(net[c]) = RowsIn(first) \cup RowsIn(rest)
      BY <2>3, <3>1
    <3>4. Ordered(net[c]) =>
                Ordered(first) /\ \A x \in RowsIn(first), y \in RowsIn(rest) : InFileOrder(x, y)
      BY <2>3, <3>1
    <3>. QED BY <3>2, <3>3, <3>4
  <2>7. OrderInv(c) /\ HeldInv(c) /\ CountInv(c)
    BY <1>0 DEF ConnInv
  <2>8. Read(c)' = Read(c)
    BY <1>2 DEF Read
  <2>9. OrderInv(c)'
    <3>1. ReadInOrder(c)'
      BY <1>2, <2>7 DEF OrderInv, ReadInOrder
    <3>. QED BY <2>5, <2>6, <2>7, <2>8, <3>1 DEF OrderInv
  <2>10. HeldInv(c)'
    <3>1. /\ Held(c)' = Read(c) \cup RowsIn(first)
          /\ Held(c) = Held(c)' \cup (RowsIn(rest) \cup RowsIn(chan[c]))
      BY <2>5, <2>6, <2>8 DEF Held
    <3>2. \A row : Goes(row, c)' <=> Goes(row, c)
      BY <1>2, Zenon DEF Goes
    <3>3. ASSUME NEW x \in FileRows, NEW y \in Held(c)', Goes(x, c), SameClass(x, y), Earlier(x, y)
          PROVE  x \in Held(c)'
      <4>1. x \in Held(c) /\ y \in FileRows
        BY <1>0, <2>7, <3>1, <3>3, HeldInFile DEF HeldInv
      <4>2. CASE x \in RowsIn(rest) \cup RowsIn(chan[c])
        <5>1. InFileOrder(y, x)
          BY <2>6, <2>7, <3>1, <4>2 DEF OrderInv
        <5>2. SameClass(y, x)
          BY <3>3 DEF SameClass
        <5>. QED BY <3>3, <4>1, <5>1, <5>2, EarlierIsStrict DEF InFileOrder
      <4>. QED BY <3>1, <4>1, <4>2
    <3>4. DOMAIN << >> = {}
      OBVIOUS
    <3>. QED BY <1>3, <1>5, <2>4, <2>7, <3>1, <3>2, <3>3, <3>4 DEF HeldInv
  <2>11. CountInv(c)'
    <3>1. \A row : Goes(row, c)' <=> Goes(row, c)
      BY <1>2, Zenon DEF Goes
    <3>. QED BY <1>2, <2>4, <2>7, <3>1 DEF CountInv
  <2>. QED BY <1>5, <2>9, <2>10, <2>11 DEF ConnInv
<1>. QED BY <1>4, <1>5

\* What has been read, once the rows rs of connection c are read too.
LEMMA ReadGrows ==
    ASSUME NEW c \in Conns, NEW rs \in Seq(FileRows),
           got \in Seq([conn : Conns, row : FileRows]),
           got' = got \o [i \in DOMAIN rs |-> [conn |-> c, row |-> rs[i]]]
    PROVE  /\ Read(c)' = Read(c) \cup SX!ToSet(rs)
           /\ \A d \in Conns \ {c} : Read(d)' = Read(d) /\ (ReadInOrder(d) => ReadInOrder(d)')
           /\ ReadInOrder(c) /\ Increasing(rs)
                /\ (\A x \in Read(c), y \in SX!ToSet(rs) : InFileOrder(x, y)) => ReadInOrder(c)'
<1>. DEFINE Reading == [conn : Conns, row : FileRows]
            news == [i \in DOMAIN rs |-> [conn |-> c, row |-> rs[i]]]
<1>1. PICK k \in Nat : k = Len(rs) /\ DOMAIN rs = 1 .. k
  BY LenProperties
<1>2. DOMAIN news = 1 .. k /\ \A i \in 1 .. k : news[i].conn = c /\ news[i].row = rs[i]
  BY <1>1
<1>3. news \in Seq(Reading)
  <2>1. news \in [1 .. k -> Reading]
    BY <1>1
  <2>. HIDE DEF news, Reading
  <2>. QED BY <2>1
<1>4. got' = got \o news /\ got \in Seq(Reading)
  OBVIOUS
<1>. HIDE DEF news, Reading
<1>5. PICK n \in Nat : n = Len(got) /\ DOMAIN got = 1 .. n
  BY <1>4, LenProperties
<1>6. /\ DOMAIN got' = 1 .. n + k
      /\ \A i \in 1 .. n : got'[i] = got[i]
      /\ \A i \in 1 .. k : got'[n + i] = news[i]
  <2>1. Len(news) = k
    BY <1>2, <1>3, LenProperties
  <2>2. /\ got \o news \in Seq(Reading) /\ Len(got \o news) = n + k
        /\ \A i \in 1 .. n + k : (got \o news)[i] = IF i <= n THEN got[i] ELSE news[i - n]
    BY <1>3, <1>4, <1>5, <2>1, ConcatProperties
  <2>3. DOMAIN got' = 1 .. n + k
    BY <1>4, <2>2, LenProperties
  <2>4. ASSUME NEW i \in 1 .. k PROVE got'[n + i] = news[i]
    <3>1. n + i \in 1 .. n + k /\ ~ (n + i <= n) /\ (n + i) - n = i
      BY <1>1, <1>5
    <3>. QED BY <1>4, <2>2, <3>1
  <2>5. ASSUME NEW i \in 1 .. n PROVE got'[i] = got[i]
    <3>1. i \in 1 .. n + k /\ i <= n
      BY <1>1, <1>5
    <3>. QED BY <1>4, <2>2, <3>1
  <2>. QED BY <2>3, <2>4, <2>5
<1>7. \A j \in DOMAIN got' : j \in Nat /\ (j \in 1 .. n \/ \E i \in 1 .. k : j = n + i)
  <2>1. ASSUME NEW j \in 1 .. n + k, j \notin 1 .. n
        PROVE  \E i \in 1 .. k : j = n + i
    <3>1. j - n \in 1 .. k /\ j = n + (j - n)
      BY <2>1
    <3>. QED BY <3>1
  <2>2. ASSUME NEW j \in DOMAIN got'
        PROVE  j \in 1 .. n + k /\ j \in Nat
    BY <1>6
  <2>. QED BY <2>1, <2>2
<1>8. \A i \in 1 .. k : n + i \in DOMAIN got' /\ got'[n + i].conn = c /\ got'[n + i].row = rs[i]
  <2>1. \A i \in 1 .. k : n + i \in 1 .. n + k
    OBVIOUS
  <2>. QED BY <1>2, <1>6, <2>1
<1>9. \A i \in 1 .. n : i \in DOMAIN got' /\ got'[i] = got[i]
  <2>1. \A i \in 1 .. n : i \in 1 .. n + k
    OBVIOUS
  <2>. QED BY <1>6, <2>1
<1>10. Read(c)' = Read(c) \cup SX!ToSet(rs)
  <2>1. Read(c) = {got[i].row : i \in {m \in 1 .. n : got[m].conn = c}}
    BY <1>5 DEF Read
  <2>2. Read(c)' = {got'[i].row : i \in {m \in DOMAIN got' : got'[m].conn = c}}
    BY DEF Read
  <2>3. SX!ToSet(rs) = {rs[i] : i \in 1 .. k}
    BY <1>1 DEF SX!ToSet
  <2>4. ASSUME NEW x \in Read(c)' PROVE x \in Read(c) \cup SX!ToSet(rs)
    <3>1. PICK j \in DOMAIN got' : got'[j].conn = c /\ x = got'[j].row
      BY <2>2, <2>4
    <3>2. CASE j \in 1 .. n
      BY <1>9, <2>1, <3>1, <3>2
    <3>3. ASSUME NEW i \in 1 .. k, j = n + i
          PROVE  x \in SX!ToSet(rs)
      BY <1>8, <2>3, <3>1, <3>3
    <3>. QED BY <1>7, <3>2, <3>3
  <2>5. Read(c) \subseteq Read(c)'
    BY <1>9, <2>1, <2>2
  <2>6. SX!ToSet(rs) \subseteq Read(c)'
    BY <1>8, <2>2, <2>3
  <2>. QED BY <2>4, <2>5, <2>6
<1>11. ASSUME NEW d \in Conns \ {c}
       PROVE  Read(d)' = Read(d) /\ (ReadInOrder(d) => ReadInOrder(d)')
  <2>1. \A j \in DOMAIN got' : got'[j].conn = d => j \in 1 .. n
    BY <1>7, <1>8
  <2>2. Read(d)' = Read(d)
    BY <1>5, <1>9, <2>1 DEF Read
  <2>3. ReadInOrder(d) => ReadInOrder(d)'
    BY <1>5, <1>9, <2>1 DEF ReadInOrder
  <2>. QED BY <2>2, <2>3
<1>12. ASSUME ReadInOrder(c), Increasing(rs),
              \A x \in Read(c), y \in SX!ToSet(rs) : InFileOrder(x, y)
       PROVE  ReadInOrder(c)'
  <2>. SUFFICES ASSUME NEW a \in DOMAIN got', NEW b \in DOMAIN got', a < b,
                       got'[a].conn = c, got'[b].conn = c
                PROVE  InFileOrder(got'[a].row, got'[b].row)
    BY DEF ReadInOrder
  <2>1. CASE b \in 1 .. n
    <3>1. a \in 1 .. n
      BY <1>7, <2>1
    <3>. QED BY <1>5, <1>9, <1>12, <2>1, <3>1 DEF ReadInOrder
  <2>2. CASE a \in 1 .. n /\ b \notin 1 .. n
    <3>1. PICK j \in 1 .. k : b = n + j
      BY <1>7, <2>2
    <3>2. got'[a].row \in Read(c)
      BY <1>5, <1>9, <2>2 DEF Read
    <3>3. got'[b].row \in SX!ToSet(rs)
      BY <1>1, <1>8, <3>1 DEF SX!ToSet
    <3>. QED BY <1>12, <3>2, <3>3
  <2>3. CASE a \notin 1 .. n /\ b \notin 1 .. n
    <3>1. PICK i \in 1 .. k : a = n + i
      BY <1>7, <2>3
    <3>2. PICK j \in 1 .. k : b = n + j
      BY <1>7, <2>3
    <3>3. i < j
      BY <3>1, <3>2
    <3>. QED BY <1>1, <1>8, <1>12, <3>1, <3>2, <3>3 DEF Increasing
  <2>. QED BY <2>1, <2>2, <2>3
<1>. QED BY <1>10, <1>11, <1>12

\* The engine reads the first message of a line.
LEMMA ReceiveStep ==
    ASSUME IInv, NEW c \in Conns, Receive(c), NEW d \in Conns
    PROVE  ConnInv(d)'
<1>0. TypeOK /\ CommandInv /\ ConnInv(c) /\ ConnInv(d)
  BY DEF IInv
<1>1. PICK msg, rest : msg = Head(net[c]) /\ rest = Tail(net[c])
  OBVIOUS
<1>2. /\ net[c] \in Seq(Message) /\ net[c] # << >> /\ chan[c] \in Seq(Message)
      /\ msg \in Message /\ rest \in Seq(Message)
      /\ RowsIn(net[c]) = SX!ToSet(msg.rows) \cup RowsIn(rest)
      /\ Ordered(net[c]) => /\ Increasing(msg.rows) /\ Ordered(rest)
                            /\ \A x \in SX!ToSet(msg.rows), y \in RowsIn(rest) : InFileOrder(x, y)
  <2>1. net[c] \in Seq(Message) /\ net[c] # << >> /\ chan[c] \in Seq(Message)
    BY <1>0 DEF TypeOK, Receive
  <2>. QED BY <1>1, <2>1, FirstMessage
<1>3. PICK rs \in Seq(FileRows) : rs = msg.rows
  BY <1>2 DEF Message
<1>4. /\ net' = [net EXCEPT ![c] = rest]
      /\ got' = got \o [i \in DOMAIN rs |-> [conn |-> c, row |-> rs[i]]]
      /\ UNCHANGED << mode, hash, main, at, out, chan, writer, rows >>
  BY <1>1, <1>3 DEF Receive, setup, reader
<1>5. Given(d)' = Given(d)
  BY <1>4, KeepGiven
<1>6. /\ Read(c)' = Read(c) \cup SX!ToSet(rs)
      /\ \A e \in Conns \ {c} : Read(e)' = Read(e) /\ (ReadInOrder(e) => ReadInOrder(e)')
      /\ ReadInOrder(c) /\ Increasing(rs)
            /\ (\A x \in Read(c), y \in SX!ToSet(rs) : InFileOrder(x, y)) => ReadInOrder(c)'
  <2>1. got \in Seq([conn : Conns, row : FileRows])
    BY <1>0 DEF TypeOK
  <2>. QED BY <1>4, <2>1, ReadGrows
<1>7. CASE d # c
  <2>1. net'[d] = net[d] /\ (writer'[d] \in {"sentinel", "done"} => chan[d] = << >>)
    BY <1>0, <1>4, <1>7 DEF TypeOK, ConnInv, HeldInv
  <2>2. Read(d)' = Read(d) /\ ReadInOrder(d)'
    BY <1>0, <1>6, <1>7 DEF ConnInv, OrderInv
  <2>. QED BY <1>0, <1>4, <1>5, <2>1, <2>2, KeepConnection
<1>8. CASE d = c
  <2>1. OrderInv(c) /\ HeldInv(c) /\ CountInv(c)
    BY <1>0 DEF ConnInv
  <2>2. net'[c] = rest /\ chan'[c] = chan[c]
    BY <1>0, <1>4 DEF TypeOK
  <2>3. /\ RowsIn(Line(c)) = RowsIn(net[c]) \cup RowsIn(chan[c])
        /\ Ordered(net[c]) /\ Ordered(chan[c])
        /\ \A x \in RowsIn(net[c]), y \in RowsIn(chan[c]) : InFileOrder(x, y)
    BY <1>0, <2>1, LineRows DEF OrderInv
  <2>4. /\ RowsIn(rest \o chan[c]) = RowsIn(rest) \cup RowsIn(chan[c])
        /\ Ordered(rest \o chan[c])
    BY <1>2, <2>3, ConcatMessages
  <2>5. Line(c)' = rest \o chan[c]
    BY <2>2 DEF Line
  <2>6. OrderInv(c)'
    <3>1. \A x \in Read(c), y \in RowsIn(Line(c)) : InFileOrder(x, y)
      BY <2>1 DEF OrderInv
    <3>2. ReadInOrder(c)'
      BY <1>2, <1>3, <1>6, <2>1, <2>3, <3>1 DEF OrderInv
    <3>3. \A x \in Read(c)', y \in RowsIn(rest \o chan[c]) : InFileOrder(x, y)
      BY <1>2, <1>3, <1>6, <2>3, <2>4, <3>1
    <3>. QED BY <2>4, <2>5, <3>2, <3>3 DEF OrderInv
  <2>7. Held(c)' = Held(c)
    BY <1>2, <1>3, <1>6, <2>3, <2>4, <2>5 DEF Held
  <2>8. Handed(c)' = Handed(c)
    BY <1>2, <1>3, <1>6, <2>2 DEF Handed
  <2>9. HeldInv(c)'
    <3>1. /\ \A m \in DOMAIN chan'[c] : Truthful(chan'[c][m])
          /\ writer'[c] \in {"sentinel", "done", "failed"} => chan'[c] = << >>
      BY <1>4, <2>1, <2>2 DEF HeldInv
    <3>. QED BY <1>4, <1>5, <1>8, <2>1, <2>7, <3>1, KeepHeld
  <2>10. CountInv(c)'
    <3>1. \A row : Goes(row, c)' <=> Goes(row, c)
      BY <1>4, Zenon DEF Goes
    <3>. QED BY <1>4, <2>1, <2>8, <3>1 DEF CountInv
  <2>. QED BY <1>8, <2>6, <2>9, <2>10 DEF ConnInv
<1>. QED BY <1>7, <1>8

\* Another frame of the input is split: nothing is sent yet.
LEMMA SplitFrameStep ==
    ASSUME IInv, SplitFrame, NEW c \in Conns
    PROVE  ConnInv(c)'
<1>0. TypeOK /\ CommandInv /\ ConnInv(c)
  BY DEF IInv
<1>1. /\ main = "split" /\ mode = "files" /\ writer[c] = "connect"
      /\ UNCHANGED << mode, hash, main, out, chan, writer, rows, net, got >>
  BY <1>0 DEF SplitFrame, CommandInv, setup
<1>2. \A x : (Goes(x, c)' <=> Goes(x, c)) /\ (Left(x, c)' <=> Left(x, c))
  <2>1. \A x : Goes(x, c)' <=> Goes(x, c)
    BY <1>1, Zenon DEF Goes
  <2>2. \A x : Left(x, c)' <=> Left(x, c)
    BY <1>1 DEF Left
  <2>. QED BY <2>1, <2>2
<1>3. Given(c)' = Given(c)
  BY <1>2 DEF Given
<1>. QED BY <1>0, <1>1, <1>3, KeepStill

\* The files are complete, and each is its connection's.
LEMMA SplitEndsStep ==
    ASSUME IInv, SplitEnds, NEW c \in Conns
    PROVE  ConnInv(c)'
<1>0. TypeOK /\ CommandInv
  BY DEF IInv
<1>1. PICK file : file = Flush(gather[c]).file
  OBVIOUS
<1>2. /\ main = "split" /\ main' = "join" /\ mode = "files" /\ at = Len(Frames)
      /\ got = << >> /\ writer[c] = "connect" /\ Line(c) = << >>
      /\ UNCHANGED << mode, hash, writer, net, got >>
      /\ chan'[c] = file /\ rows'[c] = Scan(file)
  BY <1>0, <1>1 DEF SplitEnds, CommandInv, setup
<1>3. /\ file \in Seq(Message) /\ Ordered(file)
      /\ \A m \in DOMAIN file : Truthful(file[m])
      /\ RowsIn(file) = {row \in FileRows : Goes(row, c)}
      /\ Scan(file) = Cardinality({row \in FileRows : Goes(row, c)})
  BY <1>1, <1>2, SplitFiles
<1>4. Line(c)' = file
  <2>1. net[c] \in Seq(Message) /\ chan[c] \in Seq(Message)
    BY <1>0 DEF TypeOK
  <2>2. net[c] = << >>
    BY <1>2, <2>1, ConcatEqualIffEmpty DEF Line
  <2>. QED BY <1>2, <1>3, <2>2, ConcatEmptySeq DEF Line
<1>5. Read(c)' = {} /\ ReadInOrder(c)'
  <2>1. DOMAIN << >> = {}
    OBVIOUS
  <2>2. DOMAIN got' = {}
    BY <1>2, <2>1
  <2>. QED BY <2>2 DEF Read, ReadInOrder
<1>6. \A row : Goes(row, c)' <=> Goes(row, c)
  BY <1>2, Zenon DEF Goes
<1>7. Held(c)' = RowsIn(file) /\ Given(c)' = RowsIn(file)
  <2>1. \A row : Left(row, c)'
    BY <1>2 DEF Left
  <2>2. Given(c)' = RowsIn(file)
    BY <1>3, <1>6, <2>1 DEF Given
  <2>. QED BY <1>4, <1>5, <2>2 DEF Held
<1>8. OrderInv(c)'
  BY <1>3, <1>4, <1>5 DEF OrderInv
<1>9. HeldInv(c)'
  <2>1. \A m \in DOMAIN chan'[c] : Truthful(chan[c][m])'
    BY <1>2, <1>3 DEF Truthful
  <2>2. writer'[c] = "connect"
    BY <1>2
  <2>. QED BY <1>3, <1>6, <1>7, <2>1, <2>2 DEF HeldInv
<1>10. CountInv(c)'
  BY <1>2, <1>3, <1>6 DEF CountInv
<1>. QED BY <1>8, <1>9, <1>10 DEF ConnInv

\* Every step keeps every connection's part of the invariant.
LEMMA ConnStep ==
    ASSUME IInv, [Next]_vars, NEW c \in Conns
    PROVE  ConnInv(c)'
<1>0. TypeOK /\ CommandInv /\ ConnInv(c)
  BY DEF IInv
<1>1. ASSUME UNCHANGED << mode, hash, at, out, chan, rows, net, got >>,
             main' = "split" <=> main = "split",
             writer'[c] = "failed" <=> writer[c] = "failed",
             writer'[c] \in {"sentinel", "done"} => chan[c] = << >>
      PROVE  ConnInv(c)'
  BY <1>0, <1>1, KeepGiven, KeepStill
<1>2. writer[c] \in {"sentinel", "done"} => chan[c] = << >>
  BY <1>0 DEF ConnInv, HeldInv
<1>. USE DEF setup, reader
<1>3. CASE ReadError \/ HandOverFails \/ EndOfInput \/ Join \/ Exit
  <2>1. /\ UNCHANGED << mode, hash, at, out, chan, writer, rows, net, got >>
        /\ main' = "split" <=> main = "split"
    BY <1>3 DEF ReadError, HandOverFails, EndOfInput, Join, Exit
  <2>. QED BY <1>1, <1>2, <2>1
<1>4. ASSUME NEW d \in Conns, Connect(d) \/ WriterEnds(d) \/ SendSentinel(d)
      PROVE  ConnInv(c)'
  <2>1. UNCHANGED << mode, hash, main, at, out, chan, rows, net, got >>
    BY <1>4 DEF Connect, WriterEnds, SendSentinel
  <2>2. \/ writer'[c] = writer[c]
        \/ c = d /\ writer[c] # "failed" /\ writer'[c] # "failed"
    BY <1>0, <1>4 DEF TypeOK, Connect, WriterEnds, SendSentinel
  <2>3. writer'[c] \in {"sentinel", "done"} => chan[c] = << >>
    BY <1>0, <1>2, <1>4 DEF TypeOK, Connect, WriterEnds, SendSentinel
  <2>. QED BY <1>1, <2>1, <2>2, <2>3
<1>5. ASSUME NEW b \in bottles, Land(b)
      PROVE  ConnInv(c)'
  BY <1>1, <1>2, <1>5 DEF Land
<1>6. CASE UNCHANGED vars
  BY <1>1, <1>2, <1>6 DEF vars
<1>. QED
  BY <1>3, <1>4, <1>5, <1>6, SplitFrameStep, SplitEndsStep, ReadFrameStep, HandOverStep,
     WriteNextStep, WriterFailsStep, ReceiveStep DEF Next, Reader, Writer, Engine

-----------------------------------------------------------------------------
(* The invariant. *)

\* It holds at the start: in the raw mode the file stands in every channel.
LEMMA InitIInv ==
    ASSUME Init
    PROVE  IInv
<1>. USE DEF Init
<1>1. Conns # {} /\ 0 \in Conns /\ Len(Frames) \in Nat /\ Connections \in Nat
      /\ DOMAIN Frames = 1 .. Len(Frames)
  BY SendAssumption, LenProperties DEF Conns
<1>2. mode \in {"raw", "sharded", "files"}
  BY SendAssumption
<1>3. /\ main \in {"split", "read", "join"}
      /\ (main = "split") <=> (mode = "files")
      /\ (main = "read") <=> (mode = "sharded")
  <2>1. mode = "files" => main = "split"
    OBVIOUS
  <2>2. mode = "sharded" => main = "read"
    OBVIOUS
  <2>3. mode = "raw" => main = "join"
    OBVIOUS
  <2>. QED BY <1>2, <2>1, <2>2, <2>3
<1>4. hash \in [ofKey : [Keys -> Conns], ofRow : RowHashes]
  OBVIOUS
<1>5. DOMAIN << >> = {} /\ << >> \in Seq(Message) /\ << >> \in Seq(FileRows)
      /\ << >> \in Seq([to : Conns, msg : Message]) /\ << >> \in Seq([conn : Conns, row : FileRows])
  OBVIOUS
<1>6. Empty \in Pending
  BY <1>5 DEF Empty, Pending
<1>7. \A row \in FileRows : row.id[1] \in Nat /\ row.id[1] >= 1
  <2>. SUFFICES ASSUME NEW row \in FileRows PROVE row.id[1] \in Nat /\ row.id[1] >= 1
    OBVIOUS
  <2>1. PICK f \in DOMAIN Frames : row.id[1] = f
    BY FileRow
  <2>. QED BY <2>1, FrameType
<1>8. PICK copy : copy = [f \in DOMAIN Frames |-> Raw(f)]
  OBVIOUS
<1>9. /\ copy \in Seq(Message) /\ Ordered(copy) /\ RowsIn(copy) = FileRows
      /\ Scan(copy) = Cardinality(FileRows)
  <2>1. copy \in Seq(Message)
    <3>1. PICK n \in Nat : n = Len(Frames)
      BY <1>1
    <3>2. copy \in [1 .. n -> Message]
      BY <1>1, <1>8, <3>1, RawMessage
    <3>. QED BY <3>2
  <2>2. DOMAIN copy = DOMAIN Frames /\ \A f \in DOMAIN Frames : copy[f].rows = Raw(f).rows
    BY <1>8
  <2>3. ASSUME NEW f \in DOMAIN Frames
        PROVE  /\ Increasing(copy[f].rows) /\ f \in Nat
               /\ \A i \in DOMAIN copy[f].rows :
                    copy[f].rows[i] \in FileRows /\ copy[f].rows[i].id[1] = f
               /\ \A row \in FileRows : row.id[1] = f =>
                    \E i \in DOMAIN copy[f].rows : copy[f].rows[i] = row
    <3>1. /\ Increasing(Raw(f).rows) /\ f \in Nat /\ copy[f].rows = Raw(f).rows
          /\ SX!ToSet(Raw(f).rows) = {row \in FileRows : row.id[1] = f}
      BY <2>2, RawMessage, FrameType
    <3>2. PICK rs : rs = Raw(f).rows
      OBVIOUS
    <3>3. {rs[i] : i \in DOMAIN rs} = {row \in FileRows : row.id[1] = f}
      BY <3>1, <3>2 DEF SX!ToSet
    <3>. QED BY <3>1, <3>2, <3>3
  <2>4. ASSUME NEW f \in DOMAIN Frames, NEW g \in DOMAIN Frames, f < g,
               NEW i \in DOMAIN copy[f].rows, NEW j \in DOMAIN copy[g].rows
        PROVE  InFileOrder(copy[f].rows[i], copy[g].rows[j])
    <3>1. /\ copy[f].rows[i] \in FileRows /\ copy[f].rows[i].id[1] = f
          /\ copy[g].rows[j] \in FileRows /\ copy[g].rows[j].id[1] = g
      BY <2>3
    <3>. QED BY <2>4, <3>1, EarlierIsStrict DEF InFileOrder
  <2>5. Ordered(copy)
    BY <2>2, <2>3, <2>4 DEF Ordered
  <2>6. \A x : x \in RowsIn(copy) <=> x \in FileRows
    <3>1. \A x \in RowsIn(copy) : x \in FileRows
      BY <2>1, RowsInFile
    <3>2. ASSUME NEW x \in FileRows PROVE x \in RowsIn(copy)
      <4>1. PICK f \in DOMAIN Frames : x.id[1] = f
        BY FileRow
      <4>. QED BY <2>2, <2>3, <4>1, RowsInIs
    <3>. QED BY <3>1, <3>2
  <2>7. RowsIn(copy) = FileRows
    BY <2>6
  <2>8. Scan(copy) = Cardinality(RowsIn(copy))
    BY <2>1, <2>5, ScanCounts
  <2>. QED BY <2>1, <2>5, <2>7, <2>8
<1>10. \A c \in Conns : /\ chan[c] = IF mode = "raw" THEN copy ELSE << >>
                        /\ net[c] = << >> /\ writer[c] = "connect" /\ gather[c] = Empty
                        /\ rows[c] = Scan(chan[c]) /\ chan[c] \in Seq(Message)
                        /\ Ordered(chan[c]) /\ Scan(chan[c]) = Cardinality(RowsIn(chan[c]))
                        /\ rows[c] \in Nat
  <2>1. \A c \in Conns : /\ chan[c] = IF mode = "raw" THEN copy ELSE << >>
                         /\ net[c] = << >> /\ writer[c] = "connect" /\ gather[c] = Empty
                         /\ rows[c] = Scan(chan[c])
    BY <1>8
  <2>2. \A c \in Conns : chan[c] \in Seq(Message) /\ Ordered(chan[c])
    BY <1>5, <1>9, <2>1, NoMessage
  <2>. QED BY <2>1, <2>2, ScanCounts
<1>11. TypeOK
  <2>1. chan \in [Conns -> Seq(Message)] /\ net \in [Conns -> Seq(Message)]
    BY <1>5, <1>10
  <2>2. rows \in [Conns -> Nat] /\ gather \in [Conns -> Pending]
    BY <1>6, <1>10
  <2>3. writer \in [Conns -> {"connect", "run", "sentinel", "done", "failed"}]
    OBVIOUS
  <2>4. /\ mode \in Modes /\ at = 0 /\ out = << >> /\ joined = 0 /\ got = << >>
        /\ bottles = {} /\ landed = {}
    OBVIOUS
  <2>5. 0 \in 0 .. Len(Frames) /\ 0 \in 0 .. Connections
    BY <1>1
  <2>6. main \in {"split", "read", "join", "ok", "failed"}
    BY <1>3
  <2>. HIDE DEF Init
  <2>. QED BY <1>4, <1>5, <2>1, <2>2, <2>3, <2>4, <2>5, <2>6 DEF TypeOK
<1>12. OutInv
  BY <1>5 DEF OutInv
<1>13. SentinelInv
  BY DEF SentinelInv
<1>14. \A c \in Conns : Line(c) = chan[c] /\ Read(c) = {} /\ ReadInOrder(c)
  <2>1. \A c \in Conns : << >> \o chan[c] = chan[c]
    BY <1>10, ConcatEmptySeq
  <2>2. \A c \in Conns : Line(c) = chan[c]
    BY <1>10, <2>1 DEF Line
  <2>3. DOMAIN got = {}
    BY <1>5
  <2>. QED BY <2>2, <2>3 DEF Read, ReadInOrder
<1>15. ASSUME NEW c \in Conns
       PROVE  GatherInv(gather[c], c, at)
  <2>1. gather[c] = Empty /\ Empty.file = << >> /\ Empty.rows = << >> /\ at = 0
    BY <1>10 DEF Empty
  <2>2. RowsIn(<< >>) = {} /\ Ordered(<< >>)
    BY NoMessage
  <2>3. SX!ToSet(<< >>) = {} /\ Increasing(<< >>)
    BY <1>5 DEF SX!ToSet, Increasing
  <2>4. {row \in FileRows : Goes(row, c) /\ row.id[1] <= 0} = {}
    BY <1>7
  <2>. QED BY <1>5, <1>6, <2>1, <2>2, <2>3, <2>4 DEF GatherInv
<1>16. CommandInv
  <2>1. mode = "files" => \A c \in Conns : Line(c) = << >>
    BY <1>10, <1>14
  <2>2. \A c \in Conns : ~ (c < joined)
    BY DEF Conns
  <2>3. \A c \in Conns : writer[c] = "connect"
    BY <1>10
  <2>4. got = << >> /\ gather = [c \in Conns |-> Empty]
    OBVIOUS
  <2>. HIDE DEF Init
  <2>. QED BY <1>3, <1>15, <2>1, <2>2, <2>3, <2>4 DEF CommandInv
<1>17. ASSUME NEW c \in Conns
       PROVE  ConnInv(c)
  <2>1. Held(c) = RowsIn(chan[c])
    BY <1>14 DEF Held
  <2>2. RowsIn(chan[c]) = IF mode = "raw" THEN FileRows ELSE {}
    BY <1>9, <1>10, NoMessage
  <2>3. \A row \in FileRows : mode = "raw" => Goes(row, c)
    BY DEF Goes
  <2>4. Given(c) = IF mode = "raw" THEN FileRows ELSE {}
    <3>1. \A row \in FileRows : Left(row, c) <=> mode = "raw"
      BY <1>2, <1>3, <1>7 DEF Left
    <3>. QED BY <2>3, <3>1 DEF Given
  <2>5. OrderInv(c)
    BY <1>10, <1>14 DEF OrderInv
  <2>6. \A m \in DOMAIN chan[c] : Truthful(chan[c][m])
    BY <1>5, <1>10 DEF Truthful
  <2>7. HeldInv(c)
    <3>1. \A x \in FileRows, y \in Held(c) : x \in Held(c)
      BY <2>1, <2>2
    <3>2. Held(c) = Given(c) /\ writer[c] = "connect"
      BY <1>10, <2>1, <2>2, <2>4
    <3>. QED BY <2>6, <3>1, <3>2 DEF HeldInv
  <2>8. CountInv(c)
    <3>1. CASE mode = "raw"
      <4>1. {row \in FileRows : Goes(row, c)} = FileRows
        BY <2>3, <3>1
      <4>. QED BY <1>9, <1>10, <3>1, <4>1 DEF CountInv
    <3>2. CASE mode = "sharded"
      <4>1. Handed(c) = {} /\ rows[c] = Cardinality({})
        BY <1>10, <1>14, <2>2, <3>2, NoMessage DEF Handed
      <4>2. {row \in Handed(c) : row.tag \in KeyedStreams} = {}
        BY <4>1
      <4>. QED BY <3>2, <4>1, <4>2 DEF CountInv
    <3>3. CASE mode = "files"
      BY <1>3, <3>3 DEF CountInv
    <3>. QED BY <1>2, <3>1, <3>2, <3>3
  <2>. QED BY <2>5, <2>7, <2>8 DEF ConnInv
<1>. QED BY <1>11, <1>12, <1>13, <1>16, <1>17 DEF IInv

\* Spec keeps the invariant, with it the types of the variables.
THEOREM SendInvariant == Spec => []IInv
<1>1. Init => IInv
  BY InitIInv
<1>2. IInv /\ [Next]_vars => IInv'
  <2>. SUFFICES ASSUME IInv, [Next]_vars PROVE IInv'
    OBVIOUS
  <2>. QED BY TypeStep, CommandStep, OutStep, SentinelStep, ConnStep DEF IInv
<1>. QED BY <1>1, <1>2, PTL DEF Spec

-----------------------------------------------------------------------------
(* What follows. *)

\* What the engine has read, by place.
LEMMA ReadRows ==
    ASSUME TypeOK
    PROVE  /\ \A n \in DOMAIN got : /\ n \in Nat /\ n >= 1
                                    /\ got[n].conn \in Conns /\ got[n].row \in FileRows
                                    /\ got[n].row \in Read(got[n].conn)
                                    /\ \A m \in 1 .. n - 1 : m \in DOMAIN got
           /\ \A c \in Conns : \A x \in Read(c) : \E n \in DOMAIN got :
                    got[n].conn = c /\ got[n].row = x
<1>. DEFINE Reading == [conn : Conns, row : FileRows]
<1>1. got \in Seq(Reading)
  BY DEF TypeOK
<1>. HIDE DEF Reading
<1>2. PICK k \in Nat : k = Len(got) /\ DOMAIN got = 1 .. k
  BY <1>1, LenProperties
<1>3. \A n \in DOMAIN got : got[n] \in Reading
  BY <1>1, <1>2, ElementOfSeq
<1>4. \A n \in DOMAIN got : n \in Nat /\ n >= 1 /\ \A m \in 1 .. n - 1 : m \in DOMAIN got
  BY <1>2
<1>5. \A n \in DOMAIN got : got[n].conn \in Conns /\ got[n].row \in FileRows
  BY <1>3 DEF Reading
<1>. QED BY <1>4, <1>5 DEF Read

\* A connection is handed no row twice.
LEMMA HandedOnce ==
    ASSUME IInv, NEW c \in Conns
    PROVE  NoneTwice(c)
<1>0. TypeOK /\ OrderInv(c)
  BY DEF IInv, ConnInv
<1>1. ASSUME NEW m \in DOMAIN got, NEW n \in DOMAIN got, got[n].conn = c, got[m] = got[n], m # n
      PROVE  FALSE
  <2>1. m \in Nat /\ n \in Nat /\ got[n].row \in FileRows
    BY <1>0, ReadRows
  <2>2. m < n \/ n < m
    BY <1>1, <2>1
  <2>3. InFileOrder(got[n].row, got[n].row)
    BY <1>0, <1>1, <2>2 DEF OrderInv, ReadInOrder
  <2>. QED BY <2>1, <2>3, EarlierIsStrict DEF InFileOrder
<1>2. \A p, q \in Places(net[c]) : RowAt(net[c], p) = RowAt(net[c], q) => p = q
  BY <1>0, LineRows, OrderedOnce DEF OrderInv
<1>3. ASSUME NEW x \in Read(c), x \in RowsIn(net[c])
      PROVE  FALSE
  <2>1. x \in RowsIn(Line(c)) /\ x \in FileRows
    BY <1>0, <1>3, LineRows, HeldInFile
  <2>2. InFileOrder(x, x)
    BY <1>0, <2>1 DEF OrderInv
  <2>. QED BY <2>1, <2>2, EarlierIsStrict DEF InFileOrder
<1>. QED BY <1>1, <1>2, <1>3 DEF NoneTwice

\* A connection whose writer is done has been handed all that is for it.
LEMMA DoneHasAll ==
    ASSUME IInv, NEW c \in Conns, writer[c] = "done"
    PROVE  Handed(c) = Given(c) /\ chan[c] = << >>
<1>1. TypeOK /\ HeldInv(c)
  BY DEF IInv, ConnInv
<1>2. Held(c) = Given(c) /\ chan[c] = << >>
  BY <1>1 DEF HeldInv
<1>. QED BY <1>1, <1>2, LineRows, NoMessage

\* The rows of one key of a listed stream, and of one unlisted stream, reach
\* the engine once, in the order of the file and with nothing missing in
\* between, over any connections, whichever fail (mod.rs:90-94).
THEOREM OrderKept == Spec => []PerKeyOrder
<1>1. IInv => PerKeyOrder
  <2>. SUFFICES ASSUME IInv, mode # "raw", NEW n \in DOMAIN got, got[n].row.tag \notin OddStreams
                PROVE  /\ got[n].row \in FileRows
                       /\ \A m \in 1 .. n - 1 : got[m].row # got[n].row
                       /\ \A row \in FileRows :
                            Alike(row, got[n].row) /\ Earlier(row, got[n].row) =>
                                \E m \in 1 .. n - 1 : got[m].row = row
    BY DEF PerKeyOrder
  <2>0. TypeOK /\ \A c \in Conns : OrderInv(c) /\ HeldInv(c)
    BY DEF IInv, ConnInv
  <2>1. PICK c \in Conns, y \in FileRows : c = got[n].conn /\ y = got[n].row
    BY <2>0, ReadRows
  <2>2. n \in Nat /\ n >= 1 /\ y \in Read(c) /\ \A m \in 1 .. n - 1 : m \in DOMAIN got
    BY <2>0, <2>1, ReadRows
  <2>3. \A d \in Conns : \A x \in Read(d) : Goes(x, d)
    BY <2>0 DEF HeldInv, Held, Given
  <2>4. ASSUME NEW m \in 1 .. n - 1, got[m].row = y
        PROVE  FALSE
    <3>1. m \in DOMAIN got /\ m < n
      BY <2>2
    <3>2. PICK d \in Conns : d = got[m].conn /\ y \in Read(d)
      BY <2>0, <2>4, <3>1, ReadRows
    <3>3. d = c
      BY <2>2, <2>3, <3>2 DEF Goes
    <3>4. InFileOrder(y, y)
      BY <2>0, <2>1, <2>4, <3>1, <3>2, <3>3 DEF OrderInv, ReadInOrder
    <3>. QED BY <3>4, EarlierIsStrict DEF InFileOrder
  <2>5. ASSUME NEW row \in FileRows, Alike(row, y), Earlier(row, y)
        PROVE  \E m \in 1 .. n - 1 : got[m].row = row
    <3>1. Goes(row, c)
      <4>1. row.tag = y.tag /\ (row.tag \in KeyedStreams => row.key = y.key)
        BY <2>5 DEF Alike
      <4>2. ShardOf(row, hash) = ShardOf(y, hash) \/ row.tag \notin KeyedStreams
        BY <2>1, <4>1 DEF ShardOf
      <4>3. Goes(y, c)
        BY <2>2, <2>3
      <4>. QED BY <4>1, <4>2, <4>3 DEF Goes
    <3>2. SameClass(row, y) /\ ~ InFileOrder(y, row)
      <4>1. SameClass(row, y) /\ SameClass(y, row)
        BY <2>5 DEF Alike, SameClass
      <4>. QED BY <2>5, <4>1, EarlierIsStrict DEF InFileOrder
    <3>3. row \in Read(c)
      <4>1. y \in Held(c)
        BY <2>2 DEF Held
      <4>2. row \in Read(c) \/ row \in RowsIn(Line(c))
        BY <2>0, <2>5, <3>1, <3>2, <4>1 DEF HeldInv, Held
      <4>. QED BY <2>0, <2>2, <3>2, <4>2 DEF OrderInv
    <3>4. PICK m \in DOMAIN got : got[m].conn = c /\ got[m].row = row
      BY <2>0, <3>3, ReadRows
    <3>5. m \in Nat /\ m >= 1
      BY <2>0, ReadRows
    <3>6. ~ (n < m)
      BY <2>0, <2>1, <3>2, <3>4 DEF OrderInv, ReadInOrder
    <3>7. m # n
      BY <2>1, <2>5, <3>4, EarlierIsStrict
    <3>8. m \in 1 .. n - 1
      BY <2>2, <3>5, <3>6, <3>7
    <3>. QED BY <3>4, <3>8
  <2>. QED BY <2>1, <2>4, <2>5
<1>. QED BY <1>1, SendInvariant, PTL

\* A command that succeeds has sent every row of the file once, and on every
\* connection in the raw mode.
THEOREM NothingLost == Spec => []CompleteOnSuccess
<1>1. IInv => CompleteOnSuccess
  <2>. SUFFICES ASSUME IInv, main = "ok" PROVE CompleteOnSuccess
    BY DEF CompleteOnSuccess
  <2>0. TypeOK /\ CommandInv
    BY DEF IInv
  <2>1. \A c \in Conns : writer[c] = "done"
    BY <2>0, SendAssumption DEF CommandInv, Conns
  <2>2. \A row \in FileRows, c \in Conns : Left(row, c)
    <3>1. CASE mode # "sharded"
      BY <3>1 DEF Left
    <3>2. CASE mode = "sharded"
      <4>1. at = Len(Frames) /\ out = << >> /\ DOMAIN << >> = {}
        BY <2>0, <3>2 DEF CommandInv
      <4>2. \A row \in FileRows : row.id[1] < Len(Frames) \/ row.id[1] = Len(Frames)
        <5>. SUFFICES ASSUME NEW row \in FileRows
                      PROVE  row.id[1] < Len(Frames) \/ row.id[1] = Len(Frames)
          OBVIOUS
        <5>1. PICK f \in DOMAIN Frames : row.id[1] = f
          BY FileRow
        <5>. QED BY <5>1, FrameType
      <4>. QED BY <3>2, <4>1, <4>2 DEF Left
    <3>. QED BY <3>1, <3>2
  <2>3. \A c \in Conns : Handed(c) = {row \in FileRows : Goes(row, c)}
    BY <2>1, <2>2, DoneHasAll DEF Given
  <2>4. \A c \in Conns : NoneTwice(c) /\ Handed(c) \subseteq FileRows
    BY <2>3, HandedOnce
  <2>5. ASSUME NEW row \in FileRows
        PROVE  IF mode = "raw" THEN \A c \in Conns : row \in Handed(c)
               ELSE \E c \in Conns : \A d \in Conns : row \in Handed(d) <=> d = c
    <3>1. CASE mode = "raw"
      BY <2>3, <3>1 DEF Goes
    <3>2. CASE mode # "raw"
      <4>1. \E c \in Conns : \A d \in Conns : Goes(row, d) <=> d = c
        <5>1. CASE row.tag \in KeyedStreams
          <6>1. ShardOf(row, hash) \in Conns
            BY <2>0, ShardType DEF TypeOK
          <6>2. \A d \in Conns : Goes(row, d) <=> ShardOf(row, hash) = d
            BY <3>2, <5>1, Zenon DEF Goes
          <6>. QED BY <6>1, <6>2
        <5>2. CASE row.tag \notin KeyedStreams
          <6>1. 0 \in Conns
            BY SendAssumption DEF Conns
          <6>2. \A d \in Conns : Goes(row, d) <=> d = 0
            BY <3>2, <5>2, Zenon DEF Goes
          <6>. QED BY <6>1, <6>2
        <5>. QED BY <5>1, <5>2
      <4>. QED BY <2>3, <3>2, <4>1
    <3>. QED BY <3>1, <3>2
  <2>. QED BY <2>4, <2>5 DEF CompleteOnSuccess
<1>. QED BY <1>1, SendInvariant, PTL

\* A sentinel counts the rows its connection was handed, none of them twice,
\* and nothing is written to the connection after it (shard.rs:353-385).
THEOREM SentinelsCount == Spec => []SentinelCounts
<1>1. IInv => SentinelCounts
  <2>. SUFFICES ASSUME IInv, NEW b \in bottles \cup landed
                PROVE  LET counted == {row \in Handed(b.round) :
                                            mode # "sharded" \/ row.tag \in KeyedStreams}
                       IN  /\ b.n = Cardinality(counted) /\ NoneTwice(b.round)
                           /\ chan[b.round] = << >>
    BY DEF SentinelCounts
  <2>0. TypeOK /\ CommandInv /\ SentinelInv
    BY DEF IInv
  <2>1. PICK c \in Conns : c = b.round
    BY <2>0 DEF TypeOK
  <2>2. writer[c] = "done" /\ b.n = rows[c] /\ CountInv(c)
    BY <2>0, <2>1 DEF SentinelInv, IInv, ConnInv
  <2>3. Handed(c) = Given(c) /\ chan[c] = << >> /\ NoneTwice(c)
    BY <2>2, DoneHasAll, HandedOnce
  <2>4. CASE mode = "sharded"
    <3>1. {row \in Handed(c) : mode # "sharded" \/ row.tag \in KeyedStreams} =
            {row \in Handed(c) : row.tag \in KeyedStreams}
      BY <2>4
    <3>. QED BY <2>1, <2>2, <2>3, <2>4, <3>1 DEF CountInv
  <2>5. CASE mode # "sharded"
    <3>1. main # "split"
      BY <2>0, <2>2 DEF CommandInv
    <3>2. Given(c) = {row \in FileRows : Goes(row, c)}
      BY <2>5, <3>1 DEF Given, Left
    <3>3. {row \in Handed(c) : mode # "sharded" \/ row.tag \in KeyedStreams} =
            {row \in FileRows : Goes(row, c)}
      BY <2>3, <2>5, <3>2
    <3>. QED BY <2>1, <2>2, <2>3, <2>5, <3>1, <3>3 DEF CountInv
  <2>. QED BY <2>4, <2>5
<1>. QED BY <1>1, SendInvariant, PTL

=============================================================================
