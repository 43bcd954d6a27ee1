---------------------------- MODULE Oracle_proof ----------------------------
(***************************************************************************)
(* What the reference evaluator guarantees for any rules and any stream of *)
(* events: the invariants behind JoinSeesWindow, DeferredOnce,             *)
(* ClosedInTime and IntermediateDelivered of Oracle, and their proofs.     *)
(*                                                                         *)
(* Each is about one rule at a time, and each has an invariant of its own, *)
(* on top of TypeOK: the window of a join holds what the rule has met and  *)
(* not outlived; the instances of a close rule end after what it met last; *)
(* what a deferred rule holds back, has taken out and has put out are      *)
(* three sets of different events; the windows of a statistics rule, one   *)
(* after the other, are the rows it was given; and an intermediate output  *)
(* is queued, being delivered, or delivered.                               *)
(***************************************************************************)
EXTENDS Oracle, FiniteSetTheorems, SequenceTheorems, TLAPS

Windows == STRING \cup {Rules[i].target : i \in Rule}
Event == [win : Windows, key : Keys, ts : Nat, due : Nat, id : Nat]
Entry == [ev : Event, from : Nat]
RowSet == [ts : Nat, id : Nat, copy : {"preload", "main"}]
WindowState == [rows : [Keys -> SUBSET RowSet], byTs : SUBSET [ts : Nat, key : Keys]]
Pending == [rule : Rule, key : Keys, ts : Nat, due : Nat, id : Nat]
Engine == [win : WindowState, watermark : Int, pending : SUBSET Pending,
           inst : SUBSET [key : Keys, end : Nat], bucket : Int, end : Nat,
           rows : Seq(Event), closed : Seq([end : Nat, row : Event])]
Alert == [rule : Rule, ts : Nat, key : Keys, id : Nat,
          origin : {"event", "close:timeout", "close:eos"},
          joined : SUBSET RowSet, intermediate : BOOLEAN]

(* What each kind of rule keeps. *)
KindOK(i) ==
    /\ IsFiniteSet(eng[i].inst)
    /\ eng[i].inst # {} => Rules[i].kind = "close"
    /\ eng[i].pending # {} => Rules[i].kind = "deferred"
    /\ \A p \in eng[i].pending : p.rule = i

(* Before the main pass, only the windows of the joins are used. *)
NothingMet ==
    /\ left = {} /\ due = {} /\ feed = << >> /\ alerts = << >>
    /\ fed = [i \in Rule |-> << >>]
    /\ \A i \in Rule : eng[i] = [NewEngine EXCEPT !.win = eng[i].win]

FedBack(entry) == entry.from > 0 /\ entry.ev.win \in IntermediateWindows

TypeOK ==
    /\ events \in Streams /\ closeAtEos \in BOOLEAN
    /\ pass \in {"preload", "main", "eos", "done"}
    /\ at \in 0 .. Len(events)
    /\ left \subseteq Engines
    /\ left # {} /\ pass = "main" => cur \in Entry
    /\ due \subseteq Pending
    /\ feed \in Seq(Entry)
    /\ eng \in [Rule -> Engine]
    /\ alerts \in Seq(Alert)
    /\ fed \in [Rule -> Seq(Entry)]
    /\ \A i \in Rule : KindOK(i)
    /\ \A p \in due : Rules[p.rule].kind = "deferred"
    /\ \A n \in DOMAIN feed : FedBack(feed[n])
    /\ left # {} /\ pass = "main" => cur.from = 0 \/ FedBack(cur)
    /\ pass = "preload" => NothingMet
    /\ pass = "done" => left = {} /\ due = {}

(* The rules are driven with an event of the stream, the last one consumed, *)
(* or with one that was fed back after it.                                  *)
CurInv ==
    pass = "main" =>
        /\ at = 0 => left = {} /\ due = {} /\ feed = << >>
        /\ left # {} /\ cur.from = 0 => cur.ev = events[at]

-----------------------------------------------------------------------------
(* A join window: what the index lists, and the rows that a join still has *)
(* to see.                                                                 *)

IndexInv(w) ==
    w.byTs = UNION {{[ts |-> r.ts, key |-> k] : r \in w.rows[k]} : k \in Keys}

Holds(w, ev) == \E r \in w.rows[ev.key] : r.id = ev.id /\ r.ts = ev.ts

JoinInv(i) ==
    LET own == {m \in Met(i) : events[m].win = Rules[i].join}
    IN  /\ IndexInv(eng[i].win)
        /\ \A m \in own : (\A n \in own : events[m].ts > events[n].ts - Over)
                            => Holds(eng[i].win, events[m])

(* The last event of the stream that rule i has met. *)
Last(i) == IF i \in left /\ cur.from = 0 THEN at - 1 ELSE at

(* The windows that a set of late outputs reaches. *)
ClosedUnder(late) ==
    \A j \in Rule :
        /\ Rules[j].target \in IntermediateWindows
        /\ Rules[j].kind = "deferred" \/ \E win \in late : Binds(j, win)
        => Rules[j].target \in late

(* What is fed back is late or as old as the event it was made of. *)
LateInv(late) ==
    /\ \A n \in DOMAIN feed : feed[n].ev.win \in late \/ feed[n].ev.ts = events[at].ts
    /\ left # {} => cur.ev.win \in late \/ cur.ev.ts = events[at].ts

CloseInv(i) ==
    /\ \A x \in eng[i].inst : \E q \in Nat : x.end = q * Dur
    /\ IF Last(i) = 0 THEN eng[i].inst = {}
       ELSE /\ eng[i].bucket = events[Last(i)].ts \div Dur
            /\ \A x \in eng[i].inst : x.end > events[Last(i)].ts

TimelyInv ==
    /\ \A late \in SUBSET IntermediateWindows : ClosedUnder(late) => LateInv(late)
    /\ \A i \in Rule : Rules[i].kind = "close" /\ Timely(i) => CloseInv(i)

ScanInv == pass = "main" => TimelyInv

-----------------------------------------------------------------------------
(* A deferred rule: the events it holds back, those it has taken out, and  *)
(* those it has put out are different ones, and all of them have been met. *)

OnStream(i) == \A win \in IntermediateWindows : ~ Binds(i, win)

AlertsOf(i) == {n \in DOMAIN alerts : alerts[n].rule = i}
DueOf(i) == {p \in due : p.rule = i}
IsMet(i, id) == \E m \in Met(i) : events[m].id = id
Flushing == pass \in {"eos", "done"} /\ closeAtEos

DeferInv(i) ==
    /\ \A m, n \in AlertsOf(i) : alerts[m].id = alerts[n].id => m = n
    /\ \A n \in AlertsOf(i) :
        /\ IsMet(i, alerts[n].id)
        /\ alerts[n].ts <= eng[i].watermark \/ Flushing
    /\ eng[i].pending \cap DueOf(i) = {}
    /\ \A p, q \in eng[i].pending \cup DueOf(i) : p.id = q.id => p = q
    /\ \A p \in eng[i].pending \cup DueOf(i) :
        IsMet(i, p.id) /\ \A n \in AlertsOf(i) : alerts[n].id # p.id
    /\ \A p \in eng[i].pending : p.due > eng[i].watermark
    /\ \A p \in DueOf(i) : p.due <= eng[i].watermark \/ Flushing
    /\ \A m \in DOMAIN fed[i] : fed[i][m].ev.ts <= eng[i].watermark
    /\ eng[i].watermark = -1 \/ \E m \in DOMAIN fed[i] : fed[i][m].ev.ts = eng[i].watermark
    /\ Flushing /\ i \notin left => eng[i].pending = {}

-----------------------------------------------------------------------------
(* A statistics rule: its windows and the rows it was given.               *)

AllRows(e) == e.closed \o Counted(e)

StatsInv(i) ==
    LET e == eng[i]
        rows == AllRows(e)
        End(n) == BucketEnd(fed[i][n].ev.ts)
    IN  /\ e.end = 0 => fed[i] = << >> /\ e.rows = << >> /\ e.closed = << >>
        /\ e.end # 0 => \E m \in DOMAIN fed[i] : e.end = End(m)
        /\ \A m \in DOMAIN fed[i] : End(m) <= e.end
        /\ Len(rows) = Len(fed[i])
        /\ \A n \in DOMAIN fed[i] :
                /\ rows[n].row = fed[i][n].ev
                /\ \E m \in 1 .. n : rows[n].end = End(m)
                /\ \A m \in 1 .. n : rows[n].end >= End(m)
        /\ IF pass = "done" THEN e.rows = << >>
           ELSE \A n \in DOMAIN e.closed : e.closed[n].end < e.end

-----------------------------------------------------------------------------
(* An intermediate output is queued, on its way through the rules, or has  *)
(* reached rule i; in the order of the alerts.                             *)

Made(entry, raised) ==
    /\ entry.from \in DOMAIN raised
    /\ entry.ev = AsEvent(raised[entry.from])
    /\ raised[entry.from].origin = "event"

Back(i) == {n \in DOMAIN fed[i] : fed[i][n].from # 0}
For(i) == {a \in DOMAIN alerts : alerts[a].origin = "event"
                                /\ Binds(i, Rules[alerts[a].rule].target)}

QueueInv ==
    /\ \A n \in DOMAIN feed : Made(feed[n], alerts)
    /\ \A m, n \in DOMAIN feed : m < n => feed[m].from < feed[n].from
    /\ left # {} /\ cur.from # 0 =>
            Made(cur, alerts) /\ \A n \in DOMAIN feed : cur.from < feed[n].from

ReachInv(i) ==
    /\ \A n \in Back(i) :
        /\ Made(fed[i][n], alerts) /\ Binds(i, fed[i][n].ev.win)
        /\ \A m \in DOMAIN feed : fed[i][n].from < feed[m].from
        /\ i \in left /\ cur.from # 0 => fed[i][n].from < cur.from
    /\ \A m, n \in Back(i) : m < n => fed[i][m].from < fed[i][n].from
    /\ \A a \in For(i) :
        \/ \E n \in DOMAIN feed : feed[n].from = a
        \/ i \in left /\ cur.from = a
        \/ \E n \in Back(i) : fed[i][n].from = a

DeliverInv == pass = "main" => QueueInv /\ \A i \in Rule : ReachInv(i)

-----------------------------------------------------------------------------
(* Facts about numbers, sequences and finite sets. *)

(* A whole quotient, and the multiple of the divisor below a number. *)
LEMMA Division ==
    ASSUME NEW t \in Nat, NEW w \in Nat \ {0}
    PROVE  /\ t \div w \in Nat
           /\ (t \div w) * w \in Nat
           /\ (t \div w) * w <= t /\ t < (t \div w) * w + w
OBVIOUS

(* Multiplying the next number. *)
LEMMA TimesDistributes ==
    ASSUME NEW q \in Int, NEW w \in Int
    PROVE  (q + 1) * w = q * w + w
OBVIOUS

(* Multiplying keeps the order. *)
LEMMA TimesGrows ==
    ASSUME NEW p \in Int, NEW q \in Int, NEW w \in Nat, p <= q
    PROVE  p * w <= q * w
OBVIOUS

(* A fixed window ends after the times that fall into it, and no end of a  *)
(* window lies between a time and the end of its window.                   *)
LEMMA Bucket ==
    ASSUME NEW t \in Nat
    PROVE  /\ t \div Dur \in Nat /\ BucketEnd(t) \in Nat \ {0} /\ BucketEnd(t) > t
           /\ BucketEnd(t) = (t \div Dur + 1) * Dur
           /\ \A q \in Nat : q * Dur \in Nat /\ (q * Dur > t => BucketEnd(t) <= q * Dur)
<1>. Dur \in Nat \ {0}
  BY OracleAssumption
<1>1. /\ t \div Dur \in Nat /\ (t \div Dur) * Dur \in Nat
      /\ (t \div Dur) * Dur <= t /\ t < (t \div Dur) * Dur + Dur
  BY Division
<1>2. BucketEnd(t) = (t \div Dur + 1) * Dur
  BY <1>1, TimesDistributes DEF BucketEnd
<1>3. ASSUME NEW q \in Nat
      PROVE  q * Dur \in Nat /\ (q * Dur > t => BucketEnd(t) <= q * Dur)
  <2>. DEFINE b == t \div Dur
  <2>1. q * Dur \in Nat
    BY <1>1
  <2>2. CASE q <= b
    <3>1. q * Dur <= b * Dur
      BY <2>2, <1>1, TimesGrows
    <3>. QED BY <3>1, <2>1, <1>1
  <2>3. CASE b + 1 <= q
    BY <2>3, <2>1, <1>1, <1>2, TimesGrows
  <2>. QED BY <2>2, <2>3, <1>1
<1>. QED BY <1>1, <1>2, <1>3 DEF BucketEnd

(* A later time falls into the same window or a later one. *)
LEMMA BucketGrows ==
    ASSUME NEW s \in Nat, NEW t \in Nat, s <= t
    PROVE  BucketEnd(s) <= BucketEnd(t)
<1>1. BucketEnd(t) = (t \div Dur + 1) * Dur /\ t \div Dur \in Nat /\ BucketEnd(t) > t
  BY Bucket
<1>2. BucketEnd(s) \in Nat
  BY Bucket
<1>3. t \div Dur + 1 \in Nat
  BY <1>1
<1>4. (t \div Dur + 1) * Dur > s
  BY <1>1, Bucket
<1>. QED BY <1>1, <1>3, <1>4, Bucket

(* The elements of a finite set, in some order. *)
LEMMA Listed ==
    ASSUME NEW S, IsFiniteSet(S)
    PROVE  SX!SetToSeq(S) \in [1 .. Cardinality(S) -> S] /\ Cardinality(S) \in Nat
<1>1. Cardinality(S) \in Nat /\ ExistsBijection(1 .. Cardinality(S), S)
  BY FS_CardinalityType
<1>2. \E f \in [1 .. Cardinality(S) -> S] : SX!IsInjective(f)
  BY <1>1, Zenon DEF ExistsBijection, Bijection, Injection, IsInjective, SX!IsInjective
<1>3. SX!Cardinality(S) = Cardinality(S)
  BY Zenon DEF SX!Cardinality, Cardinality
<1>. QED BY <1>1, <1>2, <1>3, Zenon DEF SX!SetToSeq

(* A function on 1 .. n is a sequence of length n. *)
LEMMA FunIsSeq ==
    ASSUME NEW S, NEW n \in Nat, NEW f \in [1 .. n -> S]
    PROVE  f \in Seq(S) /\ Len(f) = n /\ DOMAIN f = 1 .. n
<1>1. f \in Seq(S)
  BY SeqDef
<1>. QED BY <1>1, LenProperties

-----------------------------------------------------------------------------
(* Types. *)

(* The events of a stream are events. *)
LEMMA StreamTyped ==
    ASSUME events \in Streams, NEW n \in 1 .. Len(events)
    PROVE  events[n] \in Event /\ DOMAIN events = 1 .. Len(events) /\ Len(events) \in Nat
<1>. DEFINE E == [win : STRING, key : Keys, ts : Nat, due : Nat, id : Nat]
<1>1. events \in Seq(E)
  BY OracleAssumption
<1>2. events[n] \in E /\ DOMAIN events = 1 .. Len(events) /\ Len(events) \in Nat
  <2>. HIDE DEF E
  <2>. QED BY <1>1, ElementOfSeq, LenProperties
<1>. QED BY <1>2 DEF Event, Windows

(* The length of a stream is a number, and `at` one up to it. *)
LEMMA LengthTyped ==
    ASSUME events \in Streams
    PROVE  Len(events) \in Nat /\ DOMAIN events = 1 .. Len(events)
<1>. DEFINE E == [win : STRING, key : Keys, ts : Nat, due : Nat, id : Nat]
<1>1. events \in Seq(E)
  BY OracleAssumption
<1>. HIDE DEF E
<1>. QED BY <1>1, LenProperties

(* Feeding or expiring a window yields a window. *)
LEMMA WindowTyped ==
    ASSUME NEW i, NEW w \in WindowState, NEW ev \in Event, pass \in {"preload", "main"}
    PROVE  FeedWindow(i, w, ev) \in WindowState
<1>1. ev.key \in Keys /\ ev.ts \in Nat /\ ev.id \in Nat
  BY DEF Event
<1>2. Row(ev) \in RowSet
  BY <1>1 DEF Row, RowSet
<1>3. Expire(w, ev.ts) \in WindowState
  <2>. DEFINE x == Expire(w, ev.ts)
  <2>1. x.rows \in [Keys -> SUBSET RowSet] /\ x.byTs \in SUBSET [ts : Nat, key : Keys]
    BY DEF Expire, WindowState
  <2>2. x = [rows |-> x.rows, byTs |-> x.byTs]
    BY DEF Expire
  <2>. QED BY <2>1, <2>2 DEF WindowState
<1>4. ASSUME NEW x \in WindowState
      PROVE  Enter(x, ev) \in WindowState
  <2>1. x.rows \in [Keys -> SUBSET RowSet] /\ x.byTs \in SUBSET [ts : Nat, key : Keys]
    BY DEF WindowState
  <2>2. [x.rows EXCEPT ![ev.key] = @ \cup {Row(ev)}] \in [Keys -> SUBSET RowSet]
    BY <2>1, <1>1, <1>2
  <2>3. x.byTs \cup {[ts |-> ev.ts, key |-> ev.key]} \in SUBSET [ts : Nat, key : Keys]
    BY <2>1, <1>1
  <2>. QED BY <2>2, <2>3 DEF Enter, WindowState
<1>. QED BY <1>3, <1>4 DEF FeedWindow

(* What an update of a rule's state may put in. *)
LEMMA EngineTyped ==
    ASSUME NEW e \in Engine
    PROVE  /\ e.win \in WindowState /\ e.watermark \in Int /\ e.pending \in SUBSET Pending
           /\ e.inst \in SUBSET [key : Keys, end : Nat] /\ e.bucket \in Int /\ e.end \in Nat
           /\ e.rows \in Seq(Event) /\ e.closed \in Seq([end : Nat, row : Event])
BY DEF Engine

(* A rule's state after an event of the stream came by is one. *)
LEMMA AheadTyped ==
    ASSUME TypeOK, pass = "main", NEW i \in Rule, NEW ev \in Event
    PROVE  /\ Ahead(i, ev) \in Engine
           /\ Gone(i, ev) \subseteq eng[i].inst
           /\ \A n \in {"watermark", "pending", "end", "rows", "closed"} :
                Ahead(i, ev)[n] = eng[i][n]
           /\ Ahead(i, ev).inst = eng[i].inst \ Gone(i, ev)
           /\ Ahead(i, ev).win = FeedWindow(i, eng[i].win, ev)
           /\ Ahead(i, ev).bucket = IF Scans(i, ev) THEN ev.ts \div Dur ELSE eng[i].bucket
<1>. DEFINE e == eng[i]
<1>1. e \in Engine
  BY DEF TypeOK
<1>2. FeedWindow(i, e.win, ev) \in WindowState
  BY <1>1, EngineTyped, WindowTyped
<1>3. ev.ts \in Nat /\ ev.ts \div Dur \in Int
  <2>1. ev.ts \in Nat
    BY DEF Event
  <2>. QED BY <2>1, Bucket
<1>4. Gone(i, ev) \subseteq e.inst
  BY DEF Gone, Expired
<1>. DEFINE w == FeedWindow(i, e.win, ev)
            b == IF Scans(i, ev) THEN ev.ts \div Dur ELSE e.bucket
            s == e.inst \ Gone(i, ev)
<1>5. b \in Int /\ s \in SUBSET [key : Keys, end : Nat]
  BY <1>1, <1>3, EngineTyped
<1>6. Ahead(i, ev) = [e EXCEPT !.win = w, !.bucket = b, !.inst = s]
  BY DEF Ahead
<1>. HIDE DEF w, b, s, e
<1>7. /\ [e EXCEPT !.win = w, !.bucket = b, !.inst = s] \in Engine
      /\ \A n \in {"watermark", "pending", "end", "rows", "closed"} :
            [e EXCEPT !.win = w, !.bucket = b, !.inst = s][n] = e[n]
      /\ [e EXCEPT !.win = w, !.bucket = b, !.inst = s].inst = s
      /\ [e EXCEPT !.win = w, !.bucket = b, !.inst = s].win = w
      /\ [e EXCEPT !.win = w, !.bucket = b, !.inst = s].bucket = b
  BY <1>1, <1>2, <1>5 DEF Engine, w
<1>. QED BY <1>4, <1>6, <1>7 DEF w, b, s, e

(* The outputs of instances that close. *)
LEMMA ClosedTyped ==
    ASSUME NEW i \in Rule, NEW S \in SUBSET [key : Keys, end : Nat], IsFiniteSet(S),
           NEW reason \in {"close:timeout", "close:eos"}
    PROVE  /\ CloseOutputs(i, S, reason) \in Seq(Alert)
           /\ \A n \in DOMAIN CloseOutputs(i, S, reason) :
                /\ CloseOutputs(i, S, reason)[n].rule = i
                /\ CloseOutputs(i, S, reason)[n].origin = reason
           /\ S = {} => CloseOutputs(i, S, reason) = << >>
<1>. DEFINE order == SX!SetToSeq(S)
            out(n) == Output(i, [key |-> order[n].key, id |-> 0], order[n].end, reason, {})
            n0 == Cardinality(S)
            outs == [n \in 1 .. n0 |-> out(n)]
<1>1. order \in [1 .. n0 -> S] /\ n0 \in Nat
  BY Listed
<1>2. CloseOutputs(i, S, reason) = outs
  BY <1>1 DEF CloseOutputs
<1>3. ASSUME NEW n \in 1 .. n0
      PROVE  out(n) \in Alert /\ out(n).rule = i /\ out(n).origin = reason
  <2>1. order[n] \in S
    BY <1>1
  <2>2. order[n].key \in Keys /\ order[n].end \in Nat
    BY <2>1
  <2>. QED BY <2>2 DEF Output, Alert
<1>4. outs \in [1 .. n0 -> Alert]
  BY <1>3
<1>5. outs \in Seq(Alert) /\ DOMAIN outs = 1 .. n0 /\ Len(outs) = n0
  <2>. HIDE DEF outs, n0
  <2>. QED BY <1>1, <1>4, FunIsSeq
<1>6. S = {} => outs = << >>
  <2>1. S = {} => n0 = 0
    BY FS_EmptySet
  <2>. HIDE DEF outs, n0
  <2>. QED BY <2>1, <1>5, EmptySeq
<1>. QED BY <1>2, <1>3, <1>5, <1>6

(* An output at once carries the rows of the join window. *)
LEMMA EachTyped ==
    ASSUME NEW i \in Rule, NEW w \in WindowState, NEW ev \in Event
    PROVE  EachOutput(i, w, ev) \in Alert
<1>1. ev.key \in Keys /\ ev.ts \in Nat /\ ev.id \in Nat
  BY DEF Event
<1>2. w.rows[ev.key] \in SUBSET RowSet
  BY <1>1 DEF WindowState
<1>. QED BY <1>1, <1>2 DEF EachOutput, Output, Alert

(* Recording an output. *)
LEMMA RecordTyped ==
    ASSUME NEW o \in Alert, feed \in Seq(Entry), alerts \in Seq(Alert), RecordOutput(o),
           \A n \in DOMAIN feed : FedBack(feed[n])
    PROVE  /\ feed' \in Seq(Entry) /\ alerts' \in Seq(Alert)
           /\ \A n \in DOMAIN feed' : FedBack(feed'[n])
           /\ Len(alerts') = Len(alerts) + 1 /\ Len(alerts) \in Nat
           /\ \A n \in 1 .. Len(alerts) : alerts'[n] = alerts[n]
           /\ alerts'[Len(alerts) + 1] = [o EXCEPT !.intermediate = Intermediate(o)]
<1>. DEFINE a == [o EXCEPT !.intermediate = Intermediate(o)]
            x == [ev |-> AsEvent(o), from |-> Len(alerts) + 1]
<1>1. o.rule \in Rule /\ o.key \in Keys /\ o.ts \in Nat /\ o.id \in Nat
  BY DEF Alert
<1>2. a \in Alert
  <2>1. Intermediate(o) \in BOOLEAN
    BY DEF Intermediate
  <2>. QED BY <2>1 DEF Alert
<1>3. Len(alerts) \in Nat
  BY LenProperties
<1>4. x \in Entry
  <2>1. AsEvent(o) \in Event
    BY <1>1 DEF AsEvent, Event, Windows
  <2>. QED BY <2>1, <1>3 DEF Entry
<1>5. Intermediate(o) => FedBack(x)
  <2>1. x.ev.win = Rules[o.rule].target
    BY DEF AsEvent
  <2>. QED BY <2>1, <1>3 DEF FedBack, Intermediate
<1>6. feed' = feed \o Queued(o) /\ alerts' = Append(alerts, a)
  BY DEF RecordOutput
<1>7. Queued(o) = IF Intermediate(o) THEN << x >> ELSE << >>
  BY DEF Queued
<1>. HIDE DEF a, x
<1>8. << x >> \in Seq(Entry) /\ Len(<< x >>) = 1 /\ << x >>[1] = x
  BY <1>4
<1>9. << >> \in Seq(Entry) /\ Len(<< >>) = 0
  BY EmptySeq
<1>10. Queued(o) \in Seq(Entry) /\ \A n \in 1 .. Len(Queued(o)) : FedBack(Queued(o)[n])
  BY <1>5, <1>7, <1>8, <1>9
<1>11. feed' \in Seq(Entry)
  BY <1>6, <1>10, ConcatProperties
<1>12. \A n \in DOMAIN feed' : FedBack(feed'[n])
  <2>1. /\ Len(feed) \in Nat /\ DOMAIN feed = 1 .. Len(feed)
        /\ Len(Queued(o)) \in Nat /\ DOMAIN feed' = 1 .. Len(feed')
    BY <1>10, <1>11, LenProperties
  <2>2. /\ Len(feed') = Len(feed) + Len(Queued(o))
        /\ \A n \in 1 .. Len(feed) + Len(Queued(o)) :
              feed'[n] = IF n <= Len(feed) THEN feed[n] ELSE Queued(o)[n - Len(feed)]
    BY <1>6, <1>10, ConcatProperties
  <2>3. ASSUME NEW n \in 1 .. Len(feed), n \in DOMAIN feed'
        PROVE  FedBack(feed'[n])
    <3>1. feed'[n] = feed[n]
      BY <2>1, <2>2
    <3>. QED BY <3>1, <2>1
  <2>4. ASSUME NEW n \in DOMAIN feed', n > Len(feed)
        PROVE  FedBack(feed'[n])
    <3>1. n - Len(feed) \in 1 .. Len(Queued(o)) /\ feed'[n] = Queued(o)[n - Len(feed)]
      BY <2>1, <2>2, <2>4
    <3>. QED BY <3>1, <1>10
  <2>. QED BY <2>1, <2>3, <2>4
<1>13. /\ alerts' \in Seq(Alert) /\ Len(alerts') = Len(alerts) + 1
       /\ \A n \in 1 .. Len(alerts) : alerts'[n] = alerts[n]
       /\ alerts'[Len(alerts) + 1] = a
  BY <1>2, <1>3, <1>6, AppendProperties
<1>. QED BY <1>3, <1>11, <1>12, <1>13 DEF a

(* A rule's state with an event waiting is one. *)
LEMMA PendTyped ==
    ASSUME NEW i \in Rule, NEW e \in Engine, NEW ev \in Event
    PROVE  /\ Pend(i, e, ev) \in Engine
           /\ \A n \in {"win", "inst", "bucket", "end", "rows", "closed"} :
                Pend(i, e, ev)[n] = e[n]
           /\ Pend(i, e, ev).watermark = IF ev.ts > e.watermark THEN ev.ts ELSE e.watermark
           /\ Pend(i, e, ev).pending = e.pending \cup
                {[rule |-> i, key |-> ev.key, ts |-> ev.ts, due |-> ev.due, id |-> ev.id]}
<1>. DEFINE p == [rule |-> i, key |-> ev.key, ts |-> ev.ts, due |-> ev.due, id |-> ev.id]
            t == IF ev.ts > e.watermark THEN ev.ts ELSE e.watermark
<1>1. p \in Pending
  BY DEF Pending, Event
<1>2. t \in Int
  BY EngineTyped DEF Event
<1>3. Pend(i, e, ev) = [e EXCEPT !.watermark = t, !.pending = @ \cup {p}]
  BY DEF Pend
<1>. HIDE DEF p, t
<1>4. e.pending \cup {p} \in SUBSET Pending
  BY <1>1, EngineTyped
<1>5. /\ [e EXCEPT !.watermark = t, !.pending = @ \cup {p}] \in Engine
      /\ \A n \in {"win", "inst", "bucket", "end", "rows", "closed"} :
            [e EXCEPT !.watermark = t, !.pending = @ \cup {p}][n] = e[n]
      /\ [e EXCEPT !.watermark = t, !.pending = @ \cup {p}].watermark = t
      /\ [e EXCEPT !.watermark = t, !.pending = @ \cup {p}].pending = e.pending \cup {p}
  BY <1>2, <1>4 DEF Engine
<1>. QED BY <1>3, <1>5 DEF p, t

(* A rule's state with one more instance is one. *)
LEMMA InstanceTyped ==
    ASSUME NEW e \in Engine, NEW ev \in Event
    PROVE  /\ Instance(e, ev) \in Engine
           /\ \A n \in {"win", "watermark", "pending", "bucket", "end", "rows", "closed"} :
                Instance(e, ev)[n] = e[n]
           /\ Instance(e, ev).inst = e.inst \cup {[key |-> ev.key, end |-> BucketEnd(ev.ts)]}
<1>1. ev.key \in Keys /\ ev.ts \in Nat
  BY DEF Event
<1>. DEFINE x == [key |-> ev.key, end |-> BucketEnd(ev.ts)]
<1>2. x \in [key : Keys, end : Nat]
  BY <1>1, Bucket
<1>3. Instance(e, ev) = [e EXCEPT !.inst = @ \cup {x}]
  BY DEF Instance
<1>. HIDE DEF x
<1>4. e.inst \cup {x} \in SUBSET [key : Keys, end : Nat]
  BY <1>2, EngineTyped
<1>5. /\ [e EXCEPT !.inst = @ \cup {x}] \in Engine
      /\ \A n \in {"win", "watermark", "pending", "bucket", "end", "rows", "closed"} :
            [e EXCEPT !.inst = @ \cup {x}][n] = e[n]
      /\ [e EXCEPT !.inst = @ \cup {x}].inst = e.inst \cup {x}
  BY <1>4 DEF Engine
<1>. QED BY <1>3, <1>5 DEF x

(* The rows of the open window, as rows of a closed one. *)
LEMMA CountedTyped ==
    ASSUME NEW e \in Engine
    PROVE  /\ Counted(e) \in Seq([end : Nat, row : Event])
           /\ Len(Counted(e)) = Len(e.rows) /\ Len(e.rows) \in Nat
           /\ \A n \in 1 .. Len(e.rows) : Counted(e)[n] = [end |-> e.end, row |-> e.rows[n]]
<1>. DEFINE R == [end : Nat, row : Event]
            k == Len(e.rows)
<1>1. e.rows \in Seq(Event) /\ e.end \in Nat
  BY EngineTyped
<1>2. k \in Nat /\ DOMAIN e.rows = 1 .. k /\ \A n \in 1 .. k : e.rows[n] \in Event
  BY <1>1, LenProperties, ElementOfSeq
<1>3. Counted(e) = [n \in 1 .. k |-> [end |-> e.end, row |-> e.rows[n]]]
  BY <1>2 DEF Counted
<1>4. Counted(e) \in [1 .. k -> R]
  BY <1>1, <1>2, <1>3
<1>5. Counted(e) \in Seq(R) /\ Len(Counted(e)) = k
  <2>. HIDE DEF R, k
  <2>. QED BY <1>2, <1>4, FunIsSeq
<1>. QED BY <1>2, <1>3, <1>5

(* The state of a statistics rule that was fed is one. *)
LEMMA StatsTyped ==
    ASSUME NEW e \in Engine, NEW ev \in Event
    PROVE  /\ FeedStats(e, ev) \in Engine
           /\ \A n \in {"win", "watermark", "pending", "inst", "bucket"} :
                FeedStats(e, ev)[n] = e[n]
           /\ FeedStats(e, ev).end = IF e.end # 0 /\ ev.ts < e.end THEN e.end
                                                           ELSE BucketEnd(ev.ts)
           /\ FeedStats(e, ev).rows = IF e.end # 0 /\ ev.ts < e.end
                                      THEN Append(e.rows, ev) ELSE << ev >>
           /\ FeedStats(e, ev).closed = IF e.end # 0 /\ ~ ev.ts < e.end
                                        THEN e.closed \o Counted(e) ELSE e.closed
<1>. DEFINE R == [end : Nat, row : Event]
            x == IF e.end # 0 /\ ev.ts < e.end THEN e.end ELSE BucketEnd(ev.ts)
            r == IF e.end # 0 /\ ev.ts < e.end THEN Append(e.rows, ev) ELSE << ev >>
            c == IF e.end # 0 /\ ~ ev.ts < e.end THEN e.closed \o Counted(e) ELSE e.closed
            f == [e EXCEPT !.closed = c, !.end = x, !.rows = r]
<1>1. e.rows \in Seq(Event) /\ e.end \in Nat /\ e.closed \in Seq(R) /\ Counted(e) \in Seq(R)
  BY EngineTyped, CountedTyped
<1>2. x \in Nat
  <2>1. ev.ts \in Nat
    BY DEF Event
  <2>. QED BY <2>1, <1>1, Bucket
<1>3. r \in Seq(Event)
  <2>1. << ev >> \in Seq(Event)
    <3>. HIDE DEF R
    <3>. QED OBVIOUS
  <2>2. Append(e.rows, ev) \in Seq(Event)
    BY <1>1, AppendProperties
  <2>. QED BY <2>1, <2>2
<1>4. c \in Seq(R)
  <2>. HIDE DEF R
  <2>. QED BY <1>1, ConcatProperties
<1>5. FeedStats(e, ev) = f
  BY DEF FeedStats, Engine
<1>. HIDE DEF x, r, c
<1>6. /\ f \in Engine /\ f.end = x /\ f.rows = r /\ f.closed = c
      /\ \A n \in {"win", "watermark", "pending", "inst", "bucket"} : f[n] = e[n]
  BY <1>2, <1>3, <1>4 DEF Engine
<1>. QED BY <1>5, <1>6 DEF x, r, c

(* The state of a statistics rule whose last window closed is one. *)
LEMMA TailTyped ==
    ASSUME NEW e \in Engine
    PROVE  /\ CloseTail(e) \in Engine
           /\ \A n \in {"win", "watermark", "pending", "inst", "bucket", "end"} :
                CloseTail(e)[n] = e[n]
           /\ CloseTail(e).rows = IF e.end = 0 THEN e.rows ELSE << >>
           /\ CloseTail(e).closed = IF e.end = 0 THEN e.closed ELSE e.closed \o Counted(e)
<1>. DEFINE R == [end : Nat, row : Event]
            c == e.closed \o Counted(e)
            f == [e EXCEPT !.closed = c, !.rows = << >>]
<1>1. e.closed \in Seq(R) /\ Counted(e) \in Seq(R)
  BY EngineTyped, CountedTyped
<1>2. c \in Seq(R)
  <2>. HIDE DEF R
  <2>. QED BY <1>1, ConcatProperties
<1>3. << >> \in Seq(Event)
  OBVIOUS
<1>4. CloseTail(e) = IF e.end = 0 THEN e ELSE f
  BY DEF CloseTail
<1>. HIDE DEF c
<1>5. /\ f \in Engine /\ f.rows = << >> /\ f.closed = c
      /\ \A n \in {"win", "watermark", "pending", "inst", "bucket", "end"} : f[n] = e[n]
  BY <1>2, <1>3 DEF Engine
<1>. QED BY <1>4, <1>5 DEF c

(* The initial states have the types. *)
LEMMA InitTyped == Init => TypeOK
<1>. SUFFICES ASSUME Init PROVE TypeOK
  OBVIOUS
<1>1. << >> \in Seq(Entry) /\ << >> \in Seq(Alert) /\ << >> \in Seq(Event)
      /\ << >> \in Seq([end : Nat, row : Event])
  OBVIOUS
<1>2. DOMAIN << >> = {}
  OBVIOUS
<1>3. EmptyWindow \in WindowState
  BY DEF EmptyWindow, WindowState
<1>4. NewEngine \in Engine
  BY <1>1, <1>3 DEF NewEngine, Engine
<1>5. \A i \in Rule : eng[i] = NewEngine
  BY DEF Init
<1>6. ASSUME NEW i \in Rule
      PROVE  KindOK(i) /\ eng[i] = [NewEngine EXCEPT !.win = eng[i].win]
  <2>1. eng[i].inst = {} /\ eng[i].pending = {}
    BY <1>5 DEF NewEngine
  <2>2. IsFiniteSet(eng[i].inst)
    BY <2>1, FS_EmptySet
  <2>3. eng[i] = [NewEngine EXCEPT !.win = eng[i].win]
    BY <1>5 DEF NewEngine
  <2>. QED BY <2>1, <2>2, <2>3 DEF KindOK
<1>7. NothingMet
  BY <1>6 DEF Init, NothingMet
<1>8. Len(events) \in Nat
  BY LengthTyped DEF Init
<1>9. eng \in [Rule -> Engine]
  BY <1>4 DEF Init
<1>10. fed \in [Rule -> Seq(Entry)]
  BY <1>1 DEF Init
<1>. QED BY <1>1, <1>2, <1>6, <1>7, <1>8, <1>9, <1>10 DEF Init, TypeOK

(* The step of each action keeps them, one lemma for each action. *)
LEMMA PreloadTyped == TypeOK /\ Preload => TypeOK'
<1>. SUFFICES ASSUME TypeOK, Preload PROVE TypeOK'
  OBVIOUS
<1>. USE DEF Preload
<1>1. at + 1 \in 1 .. Len(events) /\ Len(events) \in Nat
  BY LengthTyped DEF TypeOK
<1>. DEFINE ev == events[at + 1]
<1>2. ev \in Event
  BY <1>1, StreamTyped DEF TypeOK
<1>3. ASSUME NEW i \in Rule
      PROVE  /\ eng'[i] \in Engine /\ KindOK(i)'
             /\ eng'[i] = [NewEngine EXCEPT !.win = eng'[i].win]
  <2>. DEFINE w == IF i \in Engines THEN FeedWindow(i, eng[i].win, ev) ELSE eng[i].win
  <2>1. eng[i] \in Engine /\ eng[i].win \in WindowState
    BY EngineTyped DEF TypeOK
  <2>2. w \in WindowState
    BY <1>2, <2>1, WindowTyped DEF TypeOK
  <2>3. eng'[i] = [eng[i] EXCEPT !.win = w]
    BY <2>1 DEF Engine
  <2>. HIDE DEF w
  <2>4. eng'[i] \in Engine /\ eng'[i].inst = eng[i].inst /\ eng'[i].pending = eng[i].pending
    BY <2>1, <2>2, <2>3 DEF Engine
  <2>5. eng[i] = [NewEngine EXCEPT !.win = eng[i].win]
    BY DEF TypeOK, NothingMet
  <2>6. eng'[i] = [NewEngine EXCEPT !.win = eng'[i].win]
    <3>1. eng'[i] = [NewEngine EXCEPT !.win = w]
      BY <2>3, <2>5 DEF NewEngine
    <3>. QED BY <3>1 DEF NewEngine
  <2>7. KindOK(i)'
    BY <2>4 DEF TypeOK, KindOK
  <2>. QED BY <2>4, <2>6, <2>7
<1>4. NothingMet'
  BY <1>3 DEF TypeOK, NothingMet
<1>5. eng' \in [Rule -> Engine]
  BY <1>3
<1>6. /\ at' = at + 1 /\ pass = "preload"
      /\ UNCHANGED << events, closeAtEos, pass, cur, left, due, feed, alerts, fed >>
  OBVIOUS
<1>7. \A i \in Rule : KindOK(i)'
  BY <1>3
<1>. HIDE DEF Preload
<1>. QED BY <1>1, <1>4, <1>5, <1>6, <1>7 DEF TypeOK

(* The main pass begins where the preload left off. *)
LEMMA MainPassTyped == TypeOK /\ MainPass => TypeOK'
<1>. SUFFICES ASSUME TypeOK, MainPass PROVE TypeOK'
  OBVIOUS
<1>1. Len(events) \in Nat
  BY LengthTyped DEF TypeOK
<1>. QED BY <1>1 DEF TypeOK, MainPass, KindOK, NothingMet

(* The rules of statistics meet an event, the others are yet to. *)
LEMMA TakeTyped ==
    ASSUME TypeOK, NEW entry \in Entry, Take(entry)
    PROVE  /\ eng' \in [Rule -> Engine] /\ fed' \in [Rule -> Seq(Entry)]
           /\ \A i \in Rule : KindOK(i)'
           /\ left' = Engines /\ cur' = entry
           /\ \A i \in Rule :
                IF i \in Stats /\ Binds(i, entry.ev.win)
                THEN eng'[i] = FeedStats(eng[i], entry.ev) /\ fed'[i] = Append(fed[i], entry)
                ELSE eng'[i] = eng[i] /\ fed'[i] = fed[i]
           /\ \A i \in Rule : \A n \in {"win", "watermark", "pending", "inst", "bucket"} :
                eng'[i][n] = eng[i][n]
<1>. USE DEF Take
<1>1. entry.ev \in Event
  BY DEF Entry
<1>2. ASSUME NEW i \in Rule
      PROVE  /\ eng'[i] \in Engine /\ fed'[i] \in Seq(Entry)
             /\ \A n \in {"win", "watermark", "pending", "inst", "bucket"} :
                    eng'[i][n] = eng[i][n]
  <2>1. eng[i] \in Engine /\ fed[i] \in Seq(Entry)
    BY DEF TypeOK
  <2>2. Append(fed[i], entry) \in Seq(Entry)
    BY <2>1, AppendProperties
  <2>. QED BY <1>1, <2>1, <2>2, StatsTyped
<1>3. \A i \in Rule : KindOK(i)'
  BY <1>2 DEF TypeOK, KindOK
<1>4. DOMAIN eng' = Rule /\ DOMAIN fed' = Rule /\ eng' = [i \in Rule |-> eng'[i]]
      /\ fed' = [i \in Rule |-> fed'[i]]
  OBVIOUS
<1>5. eng' \in [Rule -> Engine] /\ fed' \in [Rule -> Seq(Entry)]
  BY <1>2, <1>4
<1>. QED BY <1>2, <1>3, <1>5

(* The next event of the stream is taken. *)
LEMMA NextEventTyped ==
    ASSUME TypeOK, NextEvent
    PROVE  /\ TypeOK'
           /\ OfStream(events[at + 1]) \in Entry
           /\ Take(OfStream(events[at + 1]))
           /\ at + 1 \in 1 .. Len(events) /\ cur'.from = 0 /\ cur'.ev = events[at + 1]
<1>. USE DEF NextEvent
<1>1. at + 1 \in 1 .. Len(events) /\ Len(events) \in Nat
  BY LengthTyped DEF TypeOK
<1>2. events[at + 1] \in Event
  BY <1>1, StreamTyped DEF TypeOK
<1>3. OfStream(events[at + 1]) \in Entry
  BY <1>2 DEF OfStream, Entry
<1>4. Take(OfStream(events[at + 1]))
  OBVIOUS
<1>5. /\ eng' \in [Rule -> Engine] /\ fed' \in [Rule -> Seq(Entry)]
      /\ \A i \in Rule : KindOK(i)'
      /\ left' = Engines /\ cur' = OfStream(events[at + 1])
  BY <1>3, <1>4, TakeTyped
<1>6. cur'.from = 0 /\ cur'.ev = events[at + 1]
  BY <1>5 DEF OfStream
<1>7. TypeOK'
  BY <1>1, <1>3, <1>5, <1>6 DEF TypeOK, FedBack
<1>. QED BY <1>1, <1>3, <1>4, <1>6, <1>7

(* The next intermediate event is taken from the head of the queue. *)
LEMMA FeedBackTyped ==
    ASSUME TypeOK, FeedBack
    PROVE  /\ TypeOK'
           /\ Head(feed) \in Entry /\ Take(Head(feed)) /\ FedBack(Head(feed))
           /\ Head(feed) = feed[1] /\ Len(feed) \in Nat \ {0}
           /\ Len(feed') = Len(feed) - 1
           /\ \A n \in 1 .. Len(feed') : feed'[n] = feed[n + 1]
<1>. USE DEF FeedBack
<1>1. feed \in Seq(Entry) /\ feed # << >>
  BY DEF TypeOK
<1>2. /\ Head(feed) \in Entry /\ feed' \in Seq(Entry) /\ Len(feed') = Len(feed) - 1
      /\ \A n \in 1 .. Len(feed') : feed'[n] = feed[n + 1]
  BY <1>1, HeadTailProperties
<1>3. Len(feed) \in Nat \ {0} /\ DOMAIN feed = 1 .. Len(feed) /\ DOMAIN feed' = 1 .. Len(feed')
  BY <1>1, <1>2, LenProperties, EmptySeq
<1>4. Head(feed) = feed[1]
  BY <1>1
<1>5. FedBack(Head(feed))
  <2>1. 1 \in DOMAIN feed
    BY <1>3
  <2>2. FedBack(feed[1])
    BY <2>1 DEF TypeOK
  <2>. HIDE DEF FeedBack
  <2>. QED BY <1>4, <2>2 DEF FedBack
<1>6. ASSUME NEW n \in DOMAIN feed'
      PROVE  FedBack(feed'[n])
  <2>1. n + 1 \in DOMAIN feed /\ feed'[n] = feed[n + 1]
    BY <1>2, <1>3
  <2>. QED BY <2>1 DEF TypeOK
<1>7. /\ eng' \in [Rule -> Engine] /\ fed' \in [Rule -> Seq(Entry)]
      /\ \A i \in Rule : KindOK(i)'
      /\ left' = Engines /\ cur' = Head(feed)
  BY <1>2, TakeTyped
<1>8. FedBack(cur')
  BY <1>5, <1>7
<1>9. TypeOK'
  BY <1>2, <1>6, <1>7, <1>8 DEF TypeOK, FedBack
<1>. QED BY <1>2, <1>3, <1>4, <1>5, <1>9

(* A rule that meets an event. *)
LEMMA MeetTyped ==
    ASSUME TypeOK, NEW i, Meet(i)
    PROVE  /\ i \in Rule /\ i \in Engines /\ i \in left /\ due = {} /\ pass = "main"
           /\ cur \in Entry /\ cur.ev \in Event /\ eng[i] \in Engine
           /\ cur.from = 0 \/ FedBack(cur)
           /\ left' = left \ {i}
           /\ UNCHANGED << events, closeAtEos, pass, at, cur >>
<1>1. i \in left /\ due = {} /\ pass = "main" /\ left' = left \ {i}
      /\ UNCHANGED << events, closeAtEos, pass, at, cur >>
  BY DEF Meet, Turn
<1>2. i \in Engines /\ i \in Rule
  BY <1>1 DEF TypeOK, Engines
<1>3. cur \in Entry
  BY <1>1 DEF TypeOK
<1>4. cur.ev \in Event /\ eng[i] \in Engine /\ (cur.from = 0 \/ FedBack(cur))
  BY <1>1, <1>2, <1>3 DEF Entry, TypeOK
<1>. QED BY <1>1, <1>2, <1>3, <1>4

(* It leaves the types right when its new state is one. *)
LEMMA MetTyped ==
    ASSUME TypeOK, NEW i, Meet(i), NEW e \in Engine, eng' = [eng EXCEPT ![i] = e],
           IsFiniteSet(e.inst),
           e.inst # {} => Rules[i].kind = "close",
           e.pending # {} => Rules[i].kind = "deferred",
           \A p \in e.pending : p.rule = i,
           feed' \in Seq(Entry), \A n \in DOMAIN feed' : FedBack(feed'[n]),
           alerts' \in Seq(Alert), fed' \in [Rule -> Seq(Entry)],
           due' \subseteq Pending, \A p \in due' : Rules[p.rule].kind = "deferred"
    PROVE  TypeOK' /\ \A j \in Rule : eng'[j] = IF j = i THEN e ELSE eng[j]
<1>1. /\ i \in Rule /\ i \in left /\ pass = "main"
      /\ left' = left \ {i} /\ UNCHANGED << events, closeAtEos, pass, at, cur >>
  BY MeetTyped
<1>2. eng \in [Rule -> Engine]
  BY DEF TypeOK
<1>3. eng' \in [Rule -> Engine] /\ \A j \in Rule : eng'[j] = IF j = i THEN e ELSE eng[j]
  BY <1>1, <1>2
<1>4. ASSUME NEW j \in Rule
      PROVE  KindOK(j)'
  <2>1. CASE j = i
    BY <1>3, <2>1 DEF KindOK
  <2>2. CASE j # i
    <3>1. eng'[j] = eng[j]
      BY <1>3, <2>2
    <3>. QED BY <3>1 DEF KindOK, TypeOK
  <2>. QED BY <2>1, <2>2
<1>5. \A j \in Rule : KindOK(j)'
  BY <1>4
<1>6. left' \subseteq Engines /\ left # {}
  BY <1>1 DEF TypeOK
<1>7. TypeOK'
  BY <1>1, <1>3, <1>5, <1>6 DEF TypeOK, FedBack
<1>. QED BY <1>3, <1>7

(* What it is driven with is recorded. *)
LEMMA DrivenTyped ==
    ASSUME TypeOK, NEW i, Drive(i)
    PROVE  /\ Meet(i) /\ Binds(i, cur.ev.win)
           /\ fed' \in [Rule -> Seq(Entry)]
           /\ \A j \in Rule : fed'[j] = IF j = i THEN Append(fed[i], cur) ELSE fed[j]
<1>1. Meet(i) /\ Binds(i, cur.ev.win) /\ fed' = [fed EXCEPT ![i] = Append(@, cur)]
  BY DEF Drive
<1>2. i \in Rule /\ cur \in Entry
  BY <1>1, MeetTyped
<1>3. fed \in [Rule -> Seq(Entry)] /\ fed[i] \in Seq(Entry)
  BY <1>2 DEF TypeOK
<1>4. Append(fed[i], cur) \in Seq(Entry)
  BY <1>2, <1>3, AppendProperties
<1>. QED BY <1>1, <1>2, <1>3, <1>4

(* Several outputs that are only raised. *)
LEMMA PushTyped ==
    ASSUME TypeOK, NEW outs \in Seq(Alert), PushAlerts(outs)
    PROVE  /\ alerts' \in Seq(Alert) /\ feed' = feed
           /\ feed' \in Seq(Entry) /\ \A n \in DOMAIN feed' : FedBack(feed'[n])
           /\ Len(alerts') = Len(alerts) + Len(outs)
           /\ Len(alerts) \in Nat /\ Len(outs) \in Nat
           /\ \A n \in 1 .. Len(alerts) : alerts'[n] = alerts[n]
           /\ \A n \in 1 .. Len(outs) : alerts'[Len(alerts) + n] = outs[n]
<1>1. alerts \in Seq(Alert) /\ alerts' = alerts \o outs /\ feed' = feed
  BY DEF TypeOK, PushAlerts
<1>2. /\ Len(alerts) \in Nat /\ Len(outs) \in Nat
  BY <1>1, LenProperties
<1>3. /\ alerts' \in Seq(Alert) /\ Len(alerts') = Len(alerts) + Len(outs)
      /\ \A n \in 1 .. Len(alerts) + Len(outs) :
            alerts'[n] = IF n <= Len(alerts) THEN alerts[n] ELSE outs[n - Len(alerts)]
  BY <1>1, ConcatProperties
<1>4. \A n \in 1 .. Len(alerts) : alerts'[n] = alerts[n]
  BY <1>2, <1>3
<1>5. \A n \in 1 .. Len(outs) : alerts'[Len(alerts) + n] = outs[n]
  BY <1>2, <1>3
<1>6. feed' \in Seq(Entry) /\ \A n \in DOMAIN feed' : FedBack(feed'[n])
  BY <1>1 DEF TypeOK, FedBack
<1>. QED BY <1>1, <1>2, <1>3, <1>4, <1>5, <1>6

(* What an event of the stream does to a rule before the rule looks at it. *)
LEMMA AheadKind ==
    ASSUME TypeOK, pass = "main", NEW i \in Rule, NEW ev \in Event
    PROVE  /\ IsFiniteSet(Ahead(i, ev).inst)
           /\ Ahead(i, ev).inst # {} => Rules[i].kind = "close"
           /\ Ahead(i, ev).pending # {} => Rules[i].kind = "deferred"
           /\ \A p \in Ahead(i, ev).pending : p.rule = i
           /\ IsFiniteSet(Gone(i, ev)) /\ Gone(i, ev) \in SUBSET [key : Keys, end : Nat]
           /\ Rules[i].kind # "close" => Gone(i, ev) = {}
           /\ Timeouts(i, ev) \in Seq(Alert)
           /\ \A n \in DOMAIN Timeouts(i, ev) :
                Timeouts(i, ev)[n].rule = i /\ Timeouts(i, ev)[n].origin = "close:timeout"
           /\ Rules[i].kind # "close" => Timeouts(i, ev) = << >>
<1>1. KindOK(i) /\ eng[i] \in Engine
  BY DEF TypeOK
<1>2. /\ Ahead(i, ev).inst = eng[i].inst \ Gone(i, ev)
      /\ Ahead(i, ev).pending = eng[i].pending /\ Gone(i, ev) \subseteq eng[i].inst
  BY AheadTyped
<1>3. IsFiniteSet(eng[i].inst) /\ IsFiniteSet(Ahead(i, ev).inst) /\ IsFiniteSet(Gone(i, ev))
  BY <1>1, <1>2, FS_Subset DEF KindOK
<1>4. Gone(i, ev) \in SUBSET [key : Keys, end : Nat]
  BY <1>1, <1>2, EngineTyped
<1>5. Rules[i].kind # "close" => Gone(i, ev) = {}
  BY <1>1, <1>2 DEF KindOK
<1>6. /\ Timeouts(i, ev) \in Seq(Alert)
      /\ \A n \in DOMAIN Timeouts(i, ev) :
            Timeouts(i, ev)[n].rule = i /\ Timeouts(i, ev)[n].origin = "close:timeout"
      /\ Gone(i, ev) = {} => Timeouts(i, ev) = << >>
  BY <1>3, <1>4, ClosedTyped DEF Timeouts
<1>. QED BY <1>1, <1>2, <1>3, <1>4, <1>5, <1>6 DEF KindOK

(* A rule that does not bind the event's window only looks at its time. *)
LEMMA PassByTyped ==
    ASSUME TypeOK, NEW i, PassBy(i)
    PROVE  /\ TypeOK' /\ Meet(i) /\ ~ Binds(i, cur.ev.win) /\ due' = due /\ fed' = fed /\ feed' = feed
           /\ cur.from = 0 => /\ \A j \in Rule : eng'[j] = IF j = i THEN Ahead(i, cur.ev) ELSE eng[j]
                              /\ PushAlerts(Timeouts(i, cur.ev))
           /\ cur.from # 0 => eng' = eng /\ alerts' = alerts
<1>. USE DEF PassBy
<1>1. Meet(i) /\ due' = due /\ fed' = fed /\ ~ Binds(i, cur.ev.win)
  OBVIOUS
<1>2. /\ i \in Rule /\ pass = "main" /\ cur.ev \in Event
      /\ due = {} /\ eng[i] \in Engine /\ KindOK(i) /\ eng \in [Rule -> Engine]
  BY <1>1, MeetTyped DEF TypeOK
<1>3. CASE cur.from = 0
  <2>. DEFINE e == Ahead(i, cur.ev)
  <2>1. /\ eng' = [eng EXCEPT ![i] = e] /\ PushAlerts(Timeouts(i, cur.ev))
    BY <1>3
  <2>2. e \in Engine
    BY <1>2, AheadTyped
  <2>3. Timeouts(i, cur.ev) \in Seq(Alert)
    BY <1>2, AheadKind
  <2>4. /\ alerts' \in Seq(Alert) /\ feed' = feed
        /\ feed' \in Seq(Entry) /\ \A n \in DOMAIN feed' : FedBack(feed'[n])
    BY <2>1, <2>3, PushTyped
  <2>5. /\ IsFiniteSet(e.inst)
        /\ e.inst # {} => Rules[i].kind = "close"
        /\ e.pending # {} => Rules[i].kind = "deferred"
        /\ \A p \in e.pending : p.rule = i
    BY <1>2, AheadKind
  <2>6. fed' \in [Rule -> Seq(Entry)] /\ due' \subseteq Pending
        /\ \A p \in due' : Rules[p.rule].kind = "deferred"
    BY <1>1, <1>2 DEF TypeOK
  <2>. HIDE DEF e, PassBy
  <2>7. TypeOK' /\ \A j \in Rule : eng'[j] = IF j = i THEN e ELSE eng[j]
    BY <1>1, <2>1, <2>2, <2>4, <2>5, <2>6, MetTyped
  <2>. QED BY <1>1, <1>3, <2>1, <2>4, <2>7 DEF e
<1>4. CASE cur.from # 0
  <2>1. eng' = eng /\ alerts' = alerts /\ feed' = feed
    BY <1>4
  <2>2. eng' = [eng EXCEPT ![i] = eng[i]]
    BY <1>2, <2>1
  <2>3. /\ feed' \in Seq(Entry) /\ (\A n \in DOMAIN feed' : FedBack(feed'[n]))
        /\ alerts' \in Seq(Alert)
        /\ fed' \in [Rule -> Seq(Entry)] /\ due' \subseteq Pending
        /\ \A p \in due' : Rules[p.rule].kind = "deferred"
    BY <1>1, <1>2, <2>1 DEF TypeOK, FedBack
  <2>4. TypeOK'
    <3>. HIDE DEF PassBy
    <3>. QED BY <1>1, <1>2, <2>2, <2>3, MetTyped DEF KindOK
  <2>. QED BY <1>1, <1>4, <2>1, <2>4
<1>. QED BY <1>3, <1>4

(* A rule that puts out one output for the event. *)
LEMMA DriveEachTyped ==
    ASSUME TypeOK, NEW i, DriveEach(i)
    PROVE  /\ TypeOK' /\ Drive(i) /\ cur.from = 0 /\ Rules[i].kind = "each" /\ due' = due
           /\ \A j \in Rule : eng'[j] = IF j = i THEN Ahead(i, cur.ev) ELSE eng[j]
           /\ EachOutput(i, Ahead(i, cur.ev).win, cur.ev) \in Alert
           /\ RecordOutput(EachOutput(i, Ahead(i, cur.ev).win, cur.ev))
<1>. DEFINE e == Ahead(i, cur.ev)
<1>1. /\ Drive(i) /\ cur.from = 0 /\ Rules[i].kind = "each" /\ due' = due
      /\ eng' = [eng EXCEPT ![i] = e] /\ RecordOutput(EachOutput(i, e.win, cur.ev))
  BY DEF DriveEach
<1>2. Meet(i) /\ fed' \in [Rule -> Seq(Entry)]
  BY <1>1, DrivenTyped
<1>3. i \in Rule /\ pass = "main" /\ cur.ev \in Event /\ due = {}
  BY <1>2, MeetTyped
<1>4. e \in Engine
  BY <1>3, AheadTyped
<1>5. EachOutput(i, e.win, cur.ev) \in Alert
  BY <1>3, <1>4, EngineTyped, EachTyped
<1>6. /\ alerts' \in Seq(Alert) /\ feed' \in Seq(Entry)
      /\ \A n \in DOMAIN feed' : FedBack(feed'[n])
  BY <1>1, <1>5, RecordTyped DEF TypeOK
<1>7. /\ IsFiniteSet(e.inst)
      /\ e.inst # {} => Rules[i].kind = "close"
      /\ e.pending # {} => Rules[i].kind = "deferred"
      /\ \A p \in e.pending : p.rule = i
  BY <1>3, AheadKind
<1>8. due' \subseteq Pending /\ \A p \in due' : Rules[p.rule].kind = "deferred"
  BY <1>1, <1>3
<1>. HIDE DEF e
<1>9. TypeOK' /\ \A j \in Rule : eng'[j] = IF j = i THEN e ELSE eng[j]
  BY <1>1, <1>2, <1>4, <1>6, <1>7, <1>8, MetTyped
<1>. QED BY <1>1, <1>5, <1>9 DEF e

(* The state of a deferred rule with the event added, before what is due is *)
(* taken out.                                                               *)
Waiting(i) == Pend(i, Ahead(i, cur.ev), cur.ev)

(* A rule that lets the event wait. *)
LEMMA DriveDeferredTyped ==
    ASSUME TypeOK, NEW i, DriveDeferred(i)
    PROVE  /\ TypeOK' /\ Drive(i) /\ cur.from = 0 /\ Rules[i].kind = "deferred"
           /\ feed' = feed /\ alerts' = alerts
           /\ due' = Due(Waiting(i), Waiting(i).watermark)
           /\ \A j \in Rule : j # i => eng'[j] = eng[j]
           /\ eng'[i].pending = Waiting(i).pending \ due'
           /\ \A n \in {"win", "watermark", "inst", "bucket", "end", "rows", "closed"} :
                eng'[i][n] = Waiting(i)[n]
<1>. DEFINE w == Waiting(i)
            e == [w EXCEPT !.pending = @ \ due']
<1>1. /\ Drive(i) /\ cur.from = 0 /\ Rules[i].kind = "deferred" /\ feed' = feed /\ alerts' = alerts
      /\ due' = Due(w, w.watermark) /\ eng' = [eng EXCEPT ![i] = e]
  BY Zenon DEF DriveDeferred, Waiting
<1>2. Meet(i) /\ fed' \in [Rule -> Seq(Entry)]
  BY <1>1, DrivenTyped
<1>3. i \in Rule /\ pass = "main" /\ cur.ev \in Event /\ due = {}
  BY <1>2, MeetTyped
<1>4. Ahead(i, cur.ev) \in Engine
  BY <1>3, AheadTyped
<1>5. /\ w \in Engine /\ w.inst = Ahead(i, cur.ev).inst
      /\ w.pending = Ahead(i, cur.ev).pending \cup
            {[rule |-> i, key |-> cur.ev.key, ts |-> cur.ev.ts, due |-> cur.ev.due, id |-> cur.ev.id]}
  BY <1>3, <1>4, PendTyped DEF Waiting
<1>6. /\ IsFiniteSet(w.inst) /\ w.inst = {} /\ \A p \in w.pending : p.rule = i
  BY <1>1, <1>3, <1>5, AheadKind
<1>7. due' \subseteq w.pending /\ w.pending \subseteq Pending
  BY <1>1, <1>5, EngineTyped DEF Due
<1>. HIDE DEF w
<1>8. /\ e \in Engine /\ e.inst = w.inst /\ e.pending = w.pending \ due'
      /\ \A n \in {"win", "watermark", "inst", "bucket", "end", "rows", "closed"} : e[n] = w[n]
  BY <1>5, <1>7 DEF Engine
<1>9. /\ feed' \in Seq(Entry) /\ (\A n \in DOMAIN feed' : FedBack(feed'[n]))
      /\ alerts' \in Seq(Alert) /\ due' \subseteq Pending
      /\ \A p \in due' : Rules[p.rule].kind = "deferred"
  BY <1>1, <1>6, <1>7 DEF TypeOK, FedBack
<1>10. /\ IsFiniteSet(e.inst) /\ e.inst = {} /\ \A p \in e.pending : p.rule = i
  BY <1>6, <1>8
<1>. HIDE DEF e
<1>11. TypeOK' /\ \A j \in Rule : eng'[j] = IF j = i THEN e ELSE eng[j]
  <2>1. /\ eng' = [eng EXCEPT ![i] = e] /\ e.inst = {} /\ Rules[i].kind = "deferred"
        /\ e \in Engine
    BY <1>1, <1>8, <1>10
  <2>. QED BY <1>2, <1>9, <1>10, <2>1, MetTyped
<1>12. due' = Due(Waiting(i), Waiting(i).watermark)
  BY <1>1 DEF w
<1>13. eng'[i] = e
  BY <1>3, <1>11
<1>. QED BY <1>1, <1>3, <1>8, <1>11, <1>12, <1>13 DEF w

(* A rule that opens an instance for the event. *)
LEMMA DriveCloseTyped ==
    ASSUME TypeOK, NEW i, DriveClose(i)
    PROVE  /\ TypeOK' /\ Drive(i) /\ cur.from = 0 /\ Rules[i].kind = "close"
           /\ due' = due /\ feed' = feed
           /\ \A j \in Rule : eng'[j] = IF j = i THEN Instance(Ahead(i, cur.ev), cur.ev) ELSE eng[j]
           /\ PushAlerts(Timeouts(i, cur.ev))
<1>. DEFINE e == Instance(Ahead(i, cur.ev), cur.ev)
<1>1. /\ Drive(i) /\ cur.from = 0 /\ Rules[i].kind = "close" /\ due' = due
      /\ PushAlerts(Timeouts(i, cur.ev)) /\ eng' = [eng EXCEPT ![i] = e]
  BY DEF DriveClose
<1>2. Meet(i) /\ fed' \in [Rule -> Seq(Entry)]
  BY <1>1, DrivenTyped
<1>3. i \in Rule /\ pass = "main" /\ cur.ev \in Event /\ due = {}
  BY <1>2, MeetTyped
<1>4. Ahead(i, cur.ev) \in Engine
  BY <1>3, AheadTyped
<1>5. /\ e \in Engine /\ e.pending = Ahead(i, cur.ev).pending
      /\ e.inst = Ahead(i, cur.ev).inst \cup {[key |-> cur.ev.key, end |-> BucketEnd(cur.ev.ts)]}
  BY <1>3, <1>4, InstanceTyped
<1>6. /\ IsFiniteSet(Ahead(i, cur.ev).inst) /\ e.pending = {}
      /\ Timeouts(i, cur.ev) \in Seq(Alert)
  BY <1>1, <1>3, <1>5, AheadKind
<1>7. IsFiniteSet(e.inst)
  BY <1>5, <1>6, FS_AddElement
<1>8. /\ alerts' \in Seq(Alert) /\ feed' = feed
      /\ feed' \in Seq(Entry) /\ \A n \in DOMAIN feed' : FedBack(feed'[n])
  BY <1>1, <1>6, PushTyped
<1>9. due' \subseteq Pending /\ \A p \in due' : Rules[p.rule].kind = "deferred"
  BY <1>1, <1>3
<1>. HIDE DEF e
<1>10. TypeOK' /\ \A j \in Rule : eng'[j] = IF j = i THEN e ELSE eng[j]
  <2>1. /\ eng' = [eng EXCEPT ![i] = e] /\ e.pending = {} /\ Rules[i].kind = "close"
        /\ e \in Engine
    BY <1>1, <1>5, <1>6
  <2>. QED BY <1>2, <1>7, <1>8, <1>9, <2>1, MetTyped
<1>. QED BY <1>1, <1>8, <1>10 DEF e

(* A rule that answers an intermediate event at once. *)
LEMMA DriveFedEachTyped ==
    ASSUME TypeOK, NEW i, DriveFedEach(i)
    PROVE  /\ TypeOK' /\ Drive(i) /\ cur.from # 0 /\ Rules[i].kind \in {"each", "deferred"}
           /\ eng' = eng /\ due' = due
           /\ EachOutput(i, eng[i].win, cur.ev) \in Alert
           /\ RecordOutput(EachOutput(i, eng[i].win, cur.ev))
<1>1. /\ Drive(i) /\ cur.from # 0 /\ Rules[i].kind \in {"each", "deferred"}
      /\ eng' = eng /\ due' = due /\ RecordOutput(EachOutput(i, eng[i].win, cur.ev))
  BY DEF DriveFedEach
<1>2. Meet(i) /\ fed' \in [Rule -> Seq(Entry)]
  BY <1>1, DrivenTyped
<1>3. /\ i \in Rule /\ cur.ev \in Event /\ due = {} /\ eng[i] \in Engine /\ KindOK(i)
      /\ eng \in [Rule -> Engine]
  BY <1>2, MeetTyped DEF TypeOK
<1>4. EachOutput(i, eng[i].win, cur.ev) \in Alert
  BY <1>3, EngineTyped, EachTyped
<1>5. /\ alerts' \in Seq(Alert) /\ feed' \in Seq(Entry)
      /\ \A n \in DOMAIN feed' : FedBack(feed'[n])
  BY <1>1, <1>4, RecordTyped DEF TypeOK
<1>6. due' \subseteq Pending /\ \A p \in due' : Rules[p.rule].kind = "deferred"
  BY <1>1, <1>3
<1>7. eng' = [eng EXCEPT ![i] = eng[i]]
  BY <1>1, <1>3
<1>8. TypeOK'
  BY <1>2, <1>3, <1>5, <1>6, <1>7, MetTyped DEF KindOK
<1>. QED BY <1>1, <1>4, <1>8

(* A rule that opens an instance for an intermediate event. *)
LEMMA DriveFedCloseTyped ==
    ASSUME TypeOK, NEW i, DriveFedClose(i)
    PROVE  /\ TypeOK' /\ Drive(i) /\ cur.from # 0 /\ Rules[i].kind = "close"
           /\ due' = due /\ feed' = feed /\ alerts' = alerts
           /\ \A j \in Rule : eng'[j] = IF j = i THEN Instance(eng[i], cur.ev) ELSE eng[j]
<1>. DEFINE e == Instance(eng[i], cur.ev)
<1>1. /\ Drive(i) /\ cur.from # 0 /\ Rules[i].kind = "close"
      /\ due' = due /\ feed' = feed /\ alerts' = alerts /\ eng' = [eng EXCEPT ![i] = e]
  BY DEF DriveFedClose
<1>2. Meet(i) /\ fed' \in [Rule -> Seq(Entry)]
  BY <1>1, DrivenTyped
<1>3. i \in Rule /\ cur.ev \in Event /\ due = {} /\ eng[i] \in Engine /\ KindOK(i)
  BY <1>2, MeetTyped DEF TypeOK
<1>4. /\ e \in Engine /\ e.pending = eng[i].pending
      /\ e.inst = eng[i].inst \cup {[key |-> cur.ev.key, end |-> BucketEnd(cur.ev.ts)]}
  BY <1>3, InstanceTyped
<1>5. e.pending = {} /\ IsFiniteSet(eng[i].inst)
  BY <1>1, <1>3, <1>4 DEF KindOK
<1>6. IsFiniteSet(e.inst)
  BY <1>4, <1>5, FS_AddElement
<1>7. /\ feed' \in Seq(Entry) /\ (\A n \in DOMAIN feed' : FedBack(feed'[n]))
      /\ alerts' \in Seq(Alert) /\ due' \subseteq Pending
      /\ \A p \in due' : Rules[p.rule].kind = "deferred"
  BY <1>1, <1>3 DEF TypeOK, FedBack
<1>. HIDE DEF e
<1>8. TypeOK' /\ \A j \in Rule : eng'[j] = IF j = i THEN e ELSE eng[j]
  <2>1. /\ eng' = [eng EXCEPT ![i] = e] /\ e.pending = {} /\ Rules[i].kind = "close"
        /\ e \in Engine
    BY <1>1, <1>4, <1>5
  <2>. QED BY <1>2, <1>6, <1>7, <2>1, MetTyped
<1>. QED BY <1>1, <1>8 DEF e

DueOutput(p) == Output(p.rule, p, p.due, "event", Joined(eng[p.rule].win, p))

(* A deferred join is evaluated. *)
LEMMA EvaluateDueTyped ==
    ASSUME TypeOK, EvaluateDue
    PROVE  /\ TypeOK' /\ pass \in {"main", "eos"}
           /\ UNCHANGED << events, closeAtEos, pass, at, cur, left, eng, fed >>
           /\ \E p \in due :
                /\ p \in Pending /\ due' = due \ {p} /\ \A q \in due : NoLater(p, q)
                /\ DueOutput(p) \in Alert
                /\ \/ alerts' = alerts /\ feed' = feed
                   \/ pass = "main" /\ RecordOutput(DueOutput(p))
                   \/ pass = "eos" /\ PushAlerts(<< DueOutput(p) >>)
<1>1. UNCHANGED << events, closeAtEos, pass, at, cur, left, eng, fed >>
  BY DEF EvaluateDue
<1>2. PICK p \in due :
        /\ \A q \in due : NoLater(p, q)
        /\ due' = due \ {p}
        /\ IF Joined(eng[p.rule].win, p) = {} THEN UNCHANGED << alerts, feed >>
           ELSE IF pass = "main" THEN RecordOutput(DueOutput(p)) ELSE PushAlerts(<< DueOutput(p) >>)
  BY Zenon DEF EvaluateDue, DueOutput
<1>3. pass \in {"main", "eos"}
  BY <1>2 DEF TypeOK, NothingMet
<1>4. p \in Pending
  BY DEF TypeOK
<1>5. p.rule \in Rule /\ p.key \in Keys /\ p.ts \in Nat /\ p.due \in Nat /\ p.id \in Nat
  BY <1>4 DEF Pending
<1>6. Joined(eng[p.rule].win, p) \in SUBSET RowSet
  <2>1. eng[p.rule].win \in WindowState
    BY <1>5, EngineTyped DEF TypeOK
  <2>2. eng[p.rule].win.rows[p.key] \in SUBSET RowSet
    BY <1>5, <2>1 DEF WindowState
  <2>. QED BY <2>2 DEF Joined
<1>7. DueOutput(p) \in Alert
  <2>. HIDE DEF RowSet
  <2>. QED BY <1>5, <1>6 DEF DueOutput, Output, Alert
<1>8. \/ alerts' = alerts /\ feed' = feed
      \/ pass = "main" /\ RecordOutput(DueOutput(p))
      \/ pass = "eos" /\ PushAlerts(<< DueOutput(p) >>)
  BY <1>2, <1>3
<1>9. /\ alerts' \in Seq(Alert) /\ feed' \in Seq(Entry)
      /\ \A n \in DOMAIN feed' : FedBack(feed'[n])
  <2>1. CASE alerts' = alerts /\ feed' = feed
    BY <2>1 DEF TypeOK, FedBack
  <2>2. CASE RecordOutput(DueOutput(p))
    BY <1>7, <2>2, RecordTyped DEF TypeOK
  <2>3. CASE PushAlerts(<< DueOutput(p) >>)
    <3>. DEFINE o == DueOutput(p)
    <3>. HIDE DEF o
    <3>1. << o >> \in Seq(Alert)
      BY <1>7 DEF o
    <3>2. PushAlerts(<< o >>)
      BY <2>3 DEF o
    <3>. QED BY <3>1, <3>2, PushTyped
  <2>. QED BY <1>8, <2>1, <2>2, <2>3
<1>10. \A i \in Rule : KindOK(i)'
  BY <1>1 DEF TypeOK, KindOK
<1>11. due' \subseteq due
  BY <1>2
<1>12. TypeOK'
  BY <1>1, <1>3, <1>9, <1>10, <1>11 DEF TypeOK, FedBack
<1>. QED BY <1>1, <1>2, <1>3, <1>4, <1>7, <1>8, <1>12

(* The main pass ends. *)
LEMMA EndOfStreamTyped == TypeOK /\ EndOfStream => TypeOK'
BY DEF TypeOK, EndOfStream, Resting, KindOK, FedBack

(* A rule closes what it still has. *)
LEMMA SettleTyped ==
    ASSUME TypeOK, NEW i \in left, Settle(i)
    PROVE  /\ TypeOK' /\ i \in Engines /\ i \in Rule /\ due = {} /\ feed' = feed /\ left' = left \ {i}
           /\ UNCHANGED << events, closeAtEos, pass, at, cur, fed >> /\ pass = "eos"
           /\ due' = IF closeAtEos THEN eng[i].pending ELSE {}
           /\ \A j \in Rule : j # i => eng'[j] = eng[j]
           /\ eng'[i].pending = eng[i].pending \ due'
           /\ \A n \in {"win", "watermark", "bucket", "end", "rows", "closed"} :
                eng'[i][n] = eng[i][n]
           /\ \E outs \in Seq(Alert) :
                /\ PushAlerts(outs)
                /\ \A n \in DOMAIN outs : outs[n].rule = i /\ outs[n].origin # "event"
                /\ Rules[i].kind # "close" => outs = << >>
<1>. DEFINE late == Expired(eng[i], EosTime)
            rest == IF closeAtEos THEN eng[i].inst \ late ELSE {}
            e == [eng[i] EXCEPT !.inst = @ \ (late \cup rest), !.pending = @ \ due']
            outs == CloseOutputs(i, late, "close:timeout") \o CloseOutputs(i, rest, "close:eos")
<1>1. /\ pass = "eos" /\ due = {} /\ left' = left \ {i}
      /\ due' = IF closeAtEos THEN eng[i].pending ELSE {}
      /\ PushAlerts(outs)
      /\ UNCHANGED << events, closeAtEos, pass, at, cur, fed >>
  BY DEF Settle, Turn
<1>2. i \in Rule /\ i \in Engines /\ eng[i] \in Engine /\ KindOK(i) /\ eng \in [Rule -> Engine]
  BY DEF TypeOK, Engines
<1>3. eng' = [eng EXCEPT ![i] = e]
  BY <1>2 DEF Settle
<1>4. late \subseteq eng[i].inst /\ rest \subseteq eng[i].inst
  BY DEF Expired
<1>5. /\ IsFiniteSet(late) /\ IsFiniteSet(rest)
      /\ late \in SUBSET [key : Keys, end : Nat] /\ rest \in SUBSET [key : Keys, end : Nat]
      /\ Rules[i].kind # "close" => late = {} /\ rest = {}
  <2>1. IsFiniteSet(eng[i].inst) /\ eng[i].inst \in SUBSET [key : Keys, end : Nat]
        /\ (eng[i].inst # {} => Rules[i].kind = "close")
    BY <1>2, EngineTyped DEF KindOK
  <2>. HIDE DEF late, rest
  <2>. QED BY <1>4, <2>1, FS_Subset
<1>. DEFINE a == CloseOutputs(i, late, "close:timeout")
            b == CloseOutputs(i, rest, "close:eos")
<1>6. /\ a \in Seq(Alert) /\ \A n \in DOMAIN a : a[n].rule = i /\ a[n].origin = "close:timeout"
      /\ late = {} => a = << >>
  <2>. HIDE DEF late, rest
  <2>. QED BY <1>2, <1>5, ClosedTyped
<1>7. /\ b \in Seq(Alert) /\ \A n \in DOMAIN b : b[n].rule = i /\ b[n].origin = "close:eos"
      /\ rest = {} => b = << >>
  <2>. HIDE DEF late, rest
  <2>. QED BY <1>2, <1>5, ClosedTyped
<1>8. /\ outs \in Seq(Alert)
      /\ \A n \in DOMAIN outs : outs[n].rule = i /\ outs[n].origin # "event"
      /\ Rules[i].kind # "close" => outs = << >>
  <2>. HIDE DEF a, b
  <2>1. outs = a \o b
    BY DEF a, b
  <2>. HIDE DEF outs
  <2>2. /\ outs \in Seq(Alert) /\ Len(outs) = Len(a) + Len(b)
        /\ \A n \in 1 .. Len(a) + Len(b) : outs[n] = IF n <= Len(a) THEN a[n] ELSE b[n - Len(a)]
    BY <1>6, <1>7, <2>1, ConcatProperties
  <2>3. /\ Len(a) \in Nat /\ Len(b) \in Nat /\ DOMAIN a = 1 .. Len(a) /\ DOMAIN b = 1 .. Len(b)
        /\ DOMAIN outs = 1 .. Len(outs)
    BY <1>6, <1>7, <2>2, LenProperties
  <2>4. ASSUME NEW n \in DOMAIN outs
        PROVE  outs[n].rule = i /\ outs[n].origin # "event"
    <3>1. CASE n <= Len(a)
      BY <1>6, <2>2, <2>3, <3>1
    <3>2. CASE n > Len(a)
      <4>1. n - Len(a) \in DOMAIN b /\ outs[n] = b[n - Len(a)]
        BY <2>2, <2>3, <3>2
      <4>. QED BY <4>1, <1>7
    <3>. QED BY <2>3, <3>1, <3>2
  <2>5. Rules[i].kind # "close" => outs = << >>
    <3>1. Rules[i].kind # "close" => a = << >> /\ b = << >>
      BY <1>5, <1>6, <1>7
    <3>2. << >> \in Seq(Alert)
      OBVIOUS
    <3>. QED BY <2>1, <3>1, <3>2, ConcatEmptySeq
  <2>. QED BY <2>2, <2>4, <2>5
<1>9. /\ alerts' \in Seq(Alert) /\ feed' = feed
      /\ feed' \in Seq(Entry) /\ \A n \in DOMAIN feed' : FedBack(feed'[n])
  <2>. HIDE DEF outs
  <2>. QED BY <1>1, <1>8, PushTyped
<1>10. /\ e \in Engine /\ e.pending = eng[i].pending \ due' /\ e.inst \subseteq eng[i].inst
       /\ \A n \in {"win", "watermark", "bucket", "end", "rows", "closed"} : e[n] = eng[i][n]
  <2>. HIDE DEF late, rest
  <2>. QED BY <1>2 DEF Engine
<1>. HIDE DEF e, outs
<1>11. \A j \in Rule : eng'[j] = IF j = i THEN e ELSE eng[j]
  BY <1>2, <1>3
<1>12. eng' \in [Rule -> Engine]
  BY <1>2, <1>3, <1>10
<1>13. ASSUME NEW j \in Rule
       PROVE  KindOK(j)'
  <2>1. CASE j = i
    <3>1. IsFiniteSet(e.inst)
      BY <1>2, <1>10, FS_Subset DEF KindOK
    <3>2. eng'[j] = e
      BY <1>11, <2>1
    <3>. QED BY <1>2, <1>10, <2>1, <3>1, <3>2 DEF KindOK
  <2>2. CASE j # i
    <3>1. eng'[j] = eng[j]
      BY <1>11, <2>2
    <3>. QED BY <3>1 DEF KindOK, TypeOK
  <2>. QED BY <2>1, <2>2
<1>14. /\ due' \subseteq Pending
       /\ \A p \in due' : Rules[p.rule].kind = "deferred"
  BY <1>1, <1>2, EngineTyped DEF KindOK
<1>15. left' \subseteq Engines
  BY <1>1 DEF TypeOK
<1>16. \A j \in Rule : KindOK(j)'
  BY <1>13
<1>17. TypeOK'
  BY <1>1, <1>9, <1>12, <1>14, <1>15, <1>16 DEF TypeOK
<1>. QED BY <1>1, <1>2, <1>8, <1>9, <1>10, <1>11, <1>17

(* The last statistics windows close. *)
LEMMA FinishTyped ==
    ASSUME TypeOK, Finish
    PROVE  /\ TypeOK'
           /\ \A i \in Rule : eng'[i] = IF i \in Stats THEN CloseTail(eng[i]) ELSE eng[i]
           /\ \A i \in Rule : \A n \in {"win", "watermark", "pending", "inst", "bucket"} :
                eng'[i][n] = eng[i][n]
<1>1. /\ pass = "eos" /\ pass' = "done" /\ left = {} /\ due = {}
      /\ eng' = [i \in Rule |-> IF i \in Stats THEN CloseTail(eng[i]) ELSE eng[i]]
      /\ UNCHANGED << events, closeAtEos, at, cur, left, due, feed, alerts, fed >>
  BY DEF Finish, Resting
<1>2. ASSUME NEW i \in Rule
      PROVE  /\ eng'[i] \in Engine /\ KindOK(i)'
             /\ \A n \in {"win", "watermark", "pending", "inst", "bucket"} : eng'[i][n] = eng[i][n]
  <2>1. eng[i] \in Engine /\ KindOK(i)
    BY DEF TypeOK
  <2>2. eng'[i] = IF i \in Stats THEN CloseTail(eng[i]) ELSE eng[i]
    BY <1>1
  <2>3. /\ eng'[i] \in Engine
        /\ \A n \in {"win", "watermark", "pending", "inst", "bucket"} : eng'[i][n] = eng[i][n]
    BY <2>1, <2>2, TailTyped
  <2>. QED BY <2>1, <2>3 DEF KindOK
<1>3. eng' \in [Rule -> Engine]
  <2>1. eng' = [i \in Rule |-> eng'[i]]
    BY <1>1
  <2>. QED BY <1>2, <2>1
<1>4. \A i \in Rule : eng'[i] = IF i \in Stats THEN CloseTail(eng[i]) ELSE eng[i]
  BY <1>1
<1>5. \A i \in Rule : KindOK(i)'
  BY <1>2
<1>6. /\ pass = "eos" /\ pass' = "done" /\ left = {} /\ due = {}
      /\ UNCHANGED << events, closeAtEos, at, cur, left, due, feed, alerts, fed >>
  BY <1>1
<1>7. TypeOK'
  BY <1>3, <1>5, <1>6 DEF TypeOK, FedBack
<1>. QED BY <1>2, <1>4, <1>7

(* Every state of a run has the types above. *)
LEMMA StepTyped == TypeOK /\ [Next]_vars => TypeOK'
<1>. SUFFICES ASSUME TypeOK, [Next]_vars PROVE TypeOK'
  OBVIOUS
<1>1. CASE Preload
  BY <1>1, PreloadTyped
<1>2. CASE MainPass
  BY <1>2, MainPassTyped
<1>3. CASE NextEvent
  BY <1>3, NextEventTyped
<1>4. CASE FeedBack
  BY <1>4, FeedBackTyped
<1>5. CASE DriveRule
  BY <1>5, PassByTyped, DriveEachTyped, DriveDeferredTyped, DriveCloseTyped,
     DriveFedEachTyped, DriveFedCloseTyped DEF DriveRule
<1>6. CASE EvaluateDue
  BY <1>6, EvaluateDueTyped
<1>7. CASE EndOfStream
  BY <1>7, EndOfStreamTyped
<1>8. CASE \E i \in left : Settle(i)
  BY <1>8, SettleTyped
<1>9. CASE Finish
  BY <1>9, FinishTyped
<1>10. CASE UNCHANGED vars
  BY <1>10 DEF vars, TypeOK, KindOK, FedBack, NothingMet
<1>. QED BY <1>1, <1>2, <1>3, <1>4, <1>5, <1>6, <1>7, <1>8, <1>9, <1>10 DEF Next

(* In every state of the evaluator its variables have the types above: only   *)
(* close rules keep instances, only deferred rules keep events back, and only *)
(* intermediate events are queued.                                            *)
THEOREM TypeCorrect == Spec => []TypeOK
<1>. QED BY InitTyped, StepTyped, PTL DEF Spec

-----------------------------------------------------------------------------
(* Joins. *)

(* The rules are driven with the last event consumed. *)
LEMMA StepCurrent == TypeOK /\ CurInv /\ [Next]_vars => CurInv'
<1>. SUFFICES ASSUME TypeOK, CurInv, [Next]_vars PROVE CurInv'
  OBVIOUS
<1>1. CASE Preload
  BY <1>1 DEF Preload, CurInv
<1>2. CASE MainPass
  BY <1>2 DEF MainPass, CurInv, TypeOK, NothingMet
<1>3. CASE NextEvent
  <2>1. at' = at + 1 /\ at + 1 \in 1 .. Len(events) /\ cur'.ev = events[at + 1]
        /\ events' = events
    BY <1>3, NextEventTyped DEF NextEvent
  <2>. QED BY <2>1 DEF CurInv
<1>4. CASE FeedBack
  <2>1. FedBack(Head(feed)) /\ Head(feed) \in Entry /\ Len(feed) \in Nat \ {0} /\ feed # << >>
        /\ cur' = Head(feed) /\ at' = at /\ pass = "main"
    BY <1>4, FeedBackTyped DEF FeedBack, Take
  <2>2. cur'.from # 0
    BY <2>1 DEF FedBack, Entry
  <2>3. at # 0
    BY <2>1 DEF CurInv
  <2>. QED BY <2>1, <2>2, <2>3 DEF CurInv
<1>5. CASE DriveRule
  <2>1. PICK i \in left : Meet(i)
    BY <1>5, PassByTyped, DriveEachTyped, DriveDeferredTyped, DriveCloseTyped,
       DriveFedEachTyped, DriveFedCloseTyped, DrivenTyped DEF DriveRule
  <2>2. left' \subseteq left /\ UNCHANGED << events, pass, at, cur >> /\ pass = "main"
    BY <2>1, MeetTyped
  <2>. QED BY <2>1, <2>2 DEF CurInv
<1>6. CASE EvaluateDue
  <2>1. UNCHANGED << events, pass, at, cur, left >> /\ due # {}
    BY <1>6 DEF EvaluateDue
  <2>. QED BY <2>1 DEF CurInv
<1>7. CASE EndOfStream
  BY <1>7 DEF EndOfStream, CurInv
<1>8. CASE \E i \in left : Settle(i)
  BY <1>8 DEF Settle, CurInv
<1>9. CASE Finish
  BY <1>9 DEF Finish, CurInv
<1>10. CASE UNCHANGED vars
  BY <1>10 DEF vars, CurInv
<1>. QED BY <1>1, <1>2, <1>3, <1>4, <1>5, <1>6, <1>7, <1>8, <1>9, <1>10 DEF Next

-----------------------------------------------------------------------------
(* Joins. *)

(* What a row of the window has to be for an event to be in it still. *)
LEMMA WindowFed ==
    ASSUME NEW i, NEW w \in WindowState, NEW ev \in Event, IndexInv(w)
    PROVE  /\ IndexInv(FeedWindow(i, w, ev))
           /\ Rules[i].join = ev.win => Holds(FeedWindow(i, w, ev), ev)
           /\ \A old \in Event :
                Holds(w, old) /\ (Rules[i].join = ev.win => old.ts > ev.ts - Over)
                    => Holds(FeedWindow(i, w, ev), old)
<1>1. /\ w.rows \in [Keys -> SUBSET RowSet] /\ w.byTs \in SUBSET [ts : Nat, key : Keys]
      /\ \A k \in Keys : \A r \in w.rows[k] : r.ts \in Nat
  BY DEF WindowState, RowSet
<1>2. ev.ts \in Nat /\ ev.key \in Keys /\ Over \in Nat
  BY OracleAssumption DEF Event
<1>. DEFINE x == Expire(w, ev.ts)
            cutoff == ev.ts - Over
<1>3. \A k \in Keys : x.rows[k] = {r \in w.rows[k] : r.ts > cutoff}
  <2>. SUFFICES ASSUME NEW k \in Keys
                PROVE  x.rows[k] = {r \in w.rows[k] : r.ts > cutoff}
    OBVIOUS
  <2>. DEFINE expired == {y.key : y \in {z \in w.byTs : z.ts <= cutoff}}
  <2>1. x.rows[k] = IF k \notin expired THEN w.rows[k] ELSE {r \in w.rows[k] : r.ts > cutoff}
    BY DEF Expire
  <2>2. ASSUME k \notin expired, NEW r \in w.rows[k]
        PROVE  r.ts > cutoff
    <3>1. [ts |-> r.ts, key |-> k] \in w.byTs
      BY DEF IndexInv
    <3>2. ~ r.ts <= cutoff
      BY <2>2, <3>1
    <3>. QED BY <1>1, <1>2, <3>2
  <2>. QED BY <2>1, <2>2
<1>4. x.byTs = {y \in w.byTs : y.ts > cutoff}
  BY DEF Expire
<1>5. DOMAIN x.rows = Keys
  BY DEF Expire
<1>. DEFINE f == Enter(x, ev)
            row == Row(ev)
<1>6. row.ts = ev.ts /\ row.id = ev.id
  BY DEF Row
<1>7. /\ \A k \in Keys : f.rows[k] = IF k = ev.key THEN x.rows[k] \cup {row} ELSE x.rows[k]
      /\ f.byTs = x.byTs \cup {[ts |-> ev.ts, key |-> ev.key]}
  BY <1>2, <1>5 DEF Enter
<1>. HIDE DEF f, x, row
<1>8. IndexInv(f)
  <2>1. \A y \in w.byTs : \E k \in Keys : \E r \in w.rows[k] : y = [ts |-> r.ts, key |-> k]
    BY DEF IndexInv
  <2>2. \A k \in Keys : \A r \in w.rows[k] : [ts |-> r.ts, key |-> k] \in w.byTs
    BY DEF IndexInv
  <2>3. ASSUME NEW y \in f.byTs
        PROVE  \E k \in Keys : \E r \in f.rows[k] : y = [ts |-> r.ts, key |-> k]
    <3>1. CASE y = [ts |-> ev.ts, key |-> ev.key]
      BY <1>2, <1>6, <1>7, <3>1
    <3>2. CASE y \in x.byTs
      <4>1. y \in w.byTs /\ y.ts > cutoff
        BY <1>4, <3>2
      <4>2. PICK k \in Keys : \E r \in w.rows[k] : y = [ts |-> r.ts, key |-> k]
        BY <2>1, <4>1
      <4>3. PICK r \in w.rows[k] : y = [ts |-> r.ts, key |-> k]
        BY <4>2
      <4>4. r \in x.rows[k]
        BY <1>3, <4>1, <4>3
      <4>. QED BY <1>7, <4>3, <4>4
    <3>. QED BY <1>7, <3>1, <3>2
  <2>4. ASSUME NEW k \in Keys, NEW r \in f.rows[k]
        PROVE  [ts |-> r.ts, key |-> k] \in f.byTs
    <3>1. CASE r \in x.rows[k]
      <4>1. r \in w.rows[k] /\ r.ts > cutoff
        BY <1>3, <3>1
      <4>. QED BY <1>4, <1>7, <2>2, <4>1
    <3>2. CASE k = ev.key /\ r = row
      BY <1>6, <1>7, <3>2
    <3>. QED BY <1>7, <3>1, <3>2
  <2>. QED BY <2>3, <2>4 DEF IndexInv
<1>9. Holds(f, ev)
  BY <1>2, <1>6, <1>7 DEF Holds
<1>10. ASSUME NEW old \in Event, Holds(w, old), old.ts > ev.ts - Over
       PROVE  Holds(f, old)
  <2>1. PICK r \in w.rows[old.key] : r.id = old.id /\ r.ts = old.ts
    BY <1>10 DEF Holds
  <2>2. old.key \in Keys
    BY DEF Event
  <2>3. r \in x.rows[old.key]
    BY <1>3, <1>10, <2>1, <2>2
  <2>. QED BY <1>7, <2>1, <2>2, <2>3 DEF Holds
<1>11. FeedWindow(i, w, ev) = IF Rules[i].join # ev.win THEN w ELSE f
  BY DEF FeedWindow, f, x
<1>12. CASE Rules[i].join # ev.win
  BY <1>11, <1>12
<1>13. CASE Rules[i].join = ev.win
  BY <1>8, <1>9, <1>10, <1>11, <1>13
<1>. QED BY <1>12, <1>13

(* What a rule has met is a part of the stream. *)
LEMMA MetTypes ==
    ASSUME TypeOK, NEW i \in Rule
    PROVE  Met(i) \in SUBSET (1 .. Len(events)) /\ at \in Nat /\ Len(events) \in Nat
<1>1. at \in Nat /\ Len(events) \in Nat /\ at <= Len(events)
  BY LengthTyped DEF TypeOK
<1>. QED BY <1>1 DEF Met

(* A rule that has met nothing new and whose window is the same. *)
LEMMA JoinKept ==
    ASSUME TypeOK, NEW i \in Rule, JoinInv(i),
           Met(i)' = Met(i), events' = events, eng'[i].win = eng[i].win
    PROVE  JoinInv(i)'
BY DEF JoinInv, IndexInv, Holds

(* A rule whose window has been fed the next event of the stream. *)
LEMMA JoinFed ==
    ASSUME TypeOK, pass \in {"preload", "main"}, NEW i \in Rule, JoinInv(i), NEW n \in Nat,
           n + 1 \in 1 .. Len(events),
           Met(i) = 1 .. n, Met(i)' = 1 .. n + 1, events' = events,
           eng'[i].win = FeedWindow(i, eng[i].win, events[n + 1])
    PROVE  JoinInv(i)'
<1>. DEFINE ev == events[n + 1]
            w == FeedWindow(i, eng[i].win, ev)
            own == {m \in 1 .. n : events[m].win = Rules[i].join}
            now == {m \in 1 .. n + 1 : events[m].win = Rules[i].join}
<1>1. Len(events) \in Nat /\ n \in Nat /\ n + 1 <= Len(events)
  BY LengthTyped DEF TypeOK
<1>2. \A m \in 1 .. n + 1 : events[m] \in Event
  BY <1>1, StreamTyped DEF TypeOK
<1>3. ev \in Event /\ eng[i].win \in WindowState
  BY <1>2, EngineTyped DEF TypeOK
<1>4. /\ IndexInv(eng[i].win)
      /\ \A m \in own : (\A k \in own : events[m].ts > events[k].ts - Over)
                            => Holds(eng[i].win, events[m])
  BY DEF JoinInv
<1>5. /\ IndexInv(w)
      /\ Rules[i].join = ev.win => Holds(w, ev)
      /\ \A old \in Event :
            Holds(eng[i].win, old) /\ (Rules[i].join = ev.win => old.ts > ev.ts - Over)
                => Holds(w, old)
  <2>1. IndexInv(eng[i].win)
    BY <1>4
  <2>. HIDE DEF ev, own
  <2>. QED BY ONLY <1>3, <2>1, WindowFed
<1>6. ASSUME NEW m \in now, \A k \in now : events[m].ts > events[k].ts - Over
      PROVE  Holds(w, events[m])
  <2>1. CASE m = n + 1
    BY <1>5, <2>1
  <2>2. CASE m \in 1 .. n
    <3>1. m \in own /\ own \subseteq now /\ events[m] \in Event
      BY <1>2, <2>2
    <3>2. Holds(eng[i].win, events[m])
      BY <1>4, <1>6, <3>1
    <3>3. Rules[i].join = ev.win => events[m].ts > ev.ts - Over
      <4>1. Rules[i].join = ev.win => n + 1 \in now
        OBVIOUS
      <4>. QED BY <1>6, <4>1
    <3>. QED BY <1>5, <3>1, <3>2, <3>3
  <2>. QED BY <2>1, <2>2
<1>7. /\ IndexInv(eng'[i].win)
      /\ \A m \in now : (\A k \in now : events[m].ts > events[k].ts - Over)
                            => Holds(eng'[i].win, events[m])
  BY <1>5, <1>6
<1>. HIDE DEF own, w, ev
<1>. QED BY <1>7 DEF JoinInv, IndexInv, Holds

(* What a rule that meets an event does to its window. *)
LEMMA DriveWindow ==
    ASSUME TypeOK, DriveRule
    PROVE  \E i \in left :
              /\ Meet(i)
              /\ \A j \in Rule : j # i => eng'[j] = eng[j]
              /\ eng'[i].win = IF cur.from = 0 THEN FeedWindow(i, eng[i].win, cur.ev) ELSE eng[i].win
<1>1. PICK i \in left : \/ PassBy(i) \/ DriveEach(i) \/ DriveDeferred(i) \/ DriveClose(i)
                        \/ DriveFedEach(i) \/ DriveFedClose(i)
  BY DEF DriveRule
<1>2. Meet(i)
  BY <1>1, PassByTyped, DriveEachTyped, DriveDeferredTyped, DriveCloseTyped,
     DriveFedEachTyped, DriveFedCloseTyped, DrivenTyped
<1>3. i \in Rule /\ pass = "main" /\ cur.ev \in Event /\ eng[i] \in Engine
  BY <1>2, MeetTyped
<1>4. Ahead(i, cur.ev) \in Engine /\ Ahead(i, cur.ev).win = FeedWindow(i, eng[i].win, cur.ev)
  BY <1>3, AheadTyped
<1>5. CASE PassBy(i)
  BY <1>2, <1>3, <1>4, <1>5, PassByTyped
<1>6. CASE DriveEach(i)
  BY <1>2, <1>3, <1>4, <1>6, DriveEachTyped
<1>7. CASE DriveDeferred(i)
  <2>1. Waiting(i).win = Ahead(i, cur.ev).win
    BY <1>3, <1>4, PendTyped DEF Waiting
  <2>. QED BY <1>2, <1>4, <1>7, <2>1, DriveDeferredTyped
<1>8. CASE DriveClose(i)
  <2>1. Instance(Ahead(i, cur.ev), cur.ev).win = Ahead(i, cur.ev).win
    BY <1>3, <1>4, InstanceTyped
  <2>. QED BY <1>2, <1>3, <1>4, <1>8, <2>1, DriveCloseTyped
<1>9. CASE DriveFedEach(i)
  BY <1>2, <1>9, DriveFedEachTyped
<1>10. CASE DriveFedClose(i)
  <2>1. Instance(eng[i], cur.ev).win = eng[i].win
    BY <1>3, InstanceTyped
  <2>. QED BY <1>2, <1>3, <1>10, <2>1, DriveFedCloseTyped
<1>. QED BY <1>1, <1>5, <1>6, <1>7, <1>8, <1>9, <1>10

(* One case for each action: the window is fed with each event met, once. *)
LEMMA StepJoins ==
    ASSUME TypeOK, CurInv, [Next]_vars, NEW i \in Joining, JoinInv(i)
    PROVE  JoinInv(i)'
<1>0. i \in Rule /\ i \in Engines
  BY DEF Joining, Engines
<1>1. CASE Preload
  <2>1. /\ at + 1 \in 1 .. Len(events) /\ at \in Nat /\ pass = "preload" /\ pass' = "preload"
        /\ at' = at + 1 /\ events' = events
    BY <1>1, LengthTyped DEF Preload, TypeOK
  <2>2. Met(i) = 1 .. at /\ Met(i)' = 1 .. at + 1
    BY <2>1 DEF Met
  <2>3. eng[i] \in Engine /\ eng[i].win \in WindowState
    BY <1>0, EngineTyped DEF TypeOK
  <2>4. eng'[i].win = FeedWindow(i, eng[i].win, events[at + 1])
    BY <1>0, <1>1, <2>3 DEF Preload, Engine
  <2>. QED BY <1>0, <2>1, <2>2, <2>4, JoinFed
<1>2. CASE MainPass
  <2>1. pass' = "main" /\ at' = 0 /\ left' = {} /\ eng' = eng /\ events' = events
    BY <1>2 DEF MainPass, TypeOK, NothingMet
  <2>2. Met(i)' = {}
    BY <2>1 DEF Met
  <2>3. eng'[i].win = eng[i].win
    BY <2>1
  <2>4. IndexInv(eng[i].win)
    BY DEF JoinInv
  <2>5. IndexInv(eng[i].win)'
    BY <2>3, <2>4 DEF IndexInv
  <2>6. {m \in Met(i)' : events'[m].win = Rules[i].join} = {}
    BY <2>2
  <2>. QED BY <2>5, <2>6 DEF JoinInv
<1>3. CASE NextEvent
  <2>1. /\ at' = at + 1 /\ at \in Nat /\ pass = "main" /\ pass' = "main" /\ left = {}
        /\ left' = Engines /\ cur'.from = 0 /\ events' = events
    BY <1>3, NextEventTyped, MetTypes, <1>0 DEF NextEvent, Resting, Take
  <2>2. Met(i) = 1 .. at /\ Met(i)' = 1 .. at
    BY <1>0, <2>1 DEF Met
  <2>3. eng'[i].win = eng[i].win
    BY <1>0, <1>3, NextEventTyped, TakeTyped
  <2>. QED BY <1>0, <2>1, <2>2, <2>3, JoinKept
<1>4. CASE FeedBack
  <2>1. /\ at' = at /\ pass = "main" /\ pass' = "main" /\ left = {}
        /\ cur' = Head(feed) /\ FedBack(Head(feed)) /\ Head(feed) \in Entry /\ events' = events
    BY <1>4, FeedBackTyped DEF FeedBack, Resting, Take
  <2>2. cur'.from # 0
    BY <2>1 DEF FedBack, Entry
  <2>3. Met(i) = 1 .. at /\ Met(i)' = 1 .. at
    BY <2>1, <2>2 DEF Met
  <2>4. eng'[i].win = eng[i].win
    BY <1>0, <1>4, FeedBackTyped, TakeTyped
  <2>. QED BY <1>0, <2>1, <2>3, <2>4, JoinKept
<1>5. CASE DriveRule
  <2>1. PICK j \in left :
          /\ Meet(j)
          /\ \A k \in Rule : k # j => eng'[k] = eng[k]
          /\ eng'[j].win = IF cur.from = 0 THEN FeedWindow(j, eng[j].win, cur.ev) ELSE eng[j].win
    BY <1>5, DriveWindow
  <2>2. /\ j \in left /\ pass = "main" /\ left' = left \ {j}
        /\ UNCHANGED << events, pass, at, cur >>
    BY <2>1, MeetTyped
  <2>3. CASE i # j
    <3>1. eng'[i].win = eng[i].win
      BY <1>0, <2>1, <2>3
    <3>2. Met(i)' = Met(i)
      BY <2>2, <2>3 DEF Met
    <3>. QED BY <1>0, <2>2, <3>1, <3>2, JoinKept
  <2>4. CASE i = j /\ cur.from # 0
    <3>1. eng'[i].win = eng[i].win
      BY <2>1, <2>4
    <3>2. Met(i)' = Met(i)
      BY <2>2, <2>4 DEF Met
    <3>. QED BY <1>0, <2>2, <3>1, <3>2, JoinKept
  <2>5. CASE i = j /\ cur.from = 0
    <3>1. at # 0 /\ cur.ev = events[at] /\ at \in 1 .. Len(events) /\ Len(events) \in Nat
      BY <2>2, <2>5, LengthTyped DEF CurInv, TypeOK
    <3>2. eng'[i].win = FeedWindow(i, eng[i].win, events[at])
      BY <2>1, <2>5, <3>1
    <3>3. Met(i) = 1 .. at - 1 /\ Met(i)' = 1 .. at
      BY <2>2, <2>5 DEF Met
    <3>. DEFINE n == at - 1
    <3>4. n \in Nat /\ n + 1 = at
      BY <3>1
    <3>5. n + 1 \in 1 .. Len(events) /\ Met(i) = 1 .. n /\ Met(i)' = 1 .. n + 1
          /\ eng'[i].win = FeedWindow(i, eng[i].win, events[n + 1])
      BY <3>1, <3>2, <3>3, <3>4
    <3>. HIDE DEF n
    <3>. QED BY <1>0, <2>2, <3>4, <3>5, JoinFed
  <2>. QED BY <2>3, <2>4, <2>5
<1>6. CASE EvaluateDue
  <2>1. UNCHANGED << events, pass, at, cur, left, eng >>
    BY <1>6 DEF EvaluateDue
  <2>2. Met(i)' = Met(i)
    BY <2>1 DEF Met
  <2>. QED BY <1>0, <2>1, <2>2, JoinKept
<1>7. CASE EndOfStream
  <2>1. UNCHANGED << events, at, cur, eng >> /\ left = {} /\ pass' = "eos"
    BY <1>7 DEF EndOfStream, Resting
  <2>2. Met(i)' = Met(i)
    BY <2>1 DEF Met
  <2>. QED BY <1>0, <2>1, <2>2, JoinKept
<1>8. CASE \E j \in left : Settle(j)
  <2>1. PICK j \in left : Settle(j)
    BY <1>8
  <2>2. UNCHANGED << events, pass, at, cur >> /\ pass = "eos"
    BY <2>1, SettleTyped
  <2>3. eng'[i].win = eng[i].win
    BY <1>0, <2>1, SettleTyped
  <2>4. Met(i)' = Met(i)
    BY <2>2 DEF Met
  <2>. QED BY <1>0, <2>2, <2>3, <2>4, JoinKept
<1>9. CASE Finish
  <2>1. UNCHANGED << events, at, cur, left >> /\ pass = "eos" /\ pass' = "done"
    BY <1>9 DEF Finish
  <2>2. eng'[i].win = eng[i].win
    BY <1>0, <1>9, FinishTyped
  <2>3. Met(i)' = Met(i)
    BY <2>1 DEF Met
  <2>. QED BY <1>0, <2>1, <2>2, <2>3, JoinKept
<1>10. CASE UNCHANGED vars
  <2>1. Met(i)' = Met(i) /\ events' = events /\ eng' = eng
    BY <1>10 DEF vars, Met
  <2>. QED BY <1>0, <2>1, JoinKept
<1>. QED BY <1>1, <1>2, <1>3, <1>4, <1>5, <1>6, <1>7, <1>8, <1>9, <1>10 DEF Next

JoinsInv == \A i \in Joining : JoinInv(i)

(* No window has a row at first. *)
LEMMA InitJoins == Init => CurInv /\ JoinsInv
<1>. SUFFICES ASSUME Init PROVE CurInv /\ JoinsInv
  OBVIOUS
<1>1. CurInv
  BY DEF Init, CurInv
<1>2. ASSUME NEW i \in Joining
      PROVE  JoinInv(i)
  <2>1. eng[i].win = EmptyWindow
    BY DEF Init, Joining, Engines, NewEngine
  <2>2. Met(i) = {}
    BY DEF Init, Met
  <2>3. IndexInv(EmptyWindow)
    BY DEF IndexInv, EmptyWindow
  <2>. QED BY <2>1, <2>2, <2>3 DEF JoinInv
<1>. QED BY <1>1, <1>2 DEF JoinsInv

(* All joins at once. *)
LEMMA StepAllJoins == TypeOK /\ CurInv /\ JoinsInv /\ [Next]_vars => JoinsInv'
<1>. SUFFICES ASSUME TypeOK, CurInv, JoinsInv, [Next]_vars, NEW i \in Joining
              PROVE  JoinInv(i)'
  BY DEF JoinsInv, Joining
<1>. QED BY StepJoins DEF JoinsInv

(* The invariant is the property. *)
LEMMA JoinsSuffice == TypeOK /\ JoinsInv => JoinSeesWindow
<1>. SUFFICES ASSUME TypeOK, JoinsInv PROVE JoinSeesWindow
  OBVIOUS
<1>1. ASSUME NEW i \in Joining, NEW ev, Holds(eng[i].win, ev)
      PROVE  ev.id \in {r.id : r \in eng[i].win.rows[ev.key]}
  BY <1>1 DEF Holds
<1>. QED BY <1>1 DEF JoinsInv, JoinInv, IndexInv, JoinSeesWindow

(* While a rule is driven, the window of its join holds every row of the   *)
(* window's own stream that is younger than the retention, and the index   *)
(* that expiry walks lists those rows exactly, for any rules, any stream   *)
(* in any order of time and any retention (oracle/window.rs, mod.rs).      *)
THEOREM JoinsSeeWindow == Spec => []JoinSeesWindow
<1>1. Init => TypeOK /\ CurInv /\ JoinsInv
  BY InitTyped, InitJoins
<1>2. (TypeOK /\ CurInv /\ JoinsInv) /\ [Next]_vars => (TypeOK /\ CurInv /\ JoinsInv)'
  BY StepTyped, StepCurrent, StepAllJoins
<1>3. TypeOK /\ CurInv /\ JoinsInv => JoinSeesWindow
  BY JoinsSuffice
<1>. QED BY <1>1, <1>2, <1>3, PTL DEF Spec

-----------------------------------------------------------------------------
(* Statistics. *)

(* The rows of a statistics rule, closed and open, are one sequence. *)
LEMMA RowsTyped ==
    ASSUME NEW e \in Engine
    PROVE  /\ AllRows(e) \in Seq([end : Nat, row : Event])
           /\ Len(AllRows(e)) = Len(e.closed) + Len(e.rows)
           /\ Len(e.closed) \in Nat /\ Len(e.rows) \in Nat
           /\ DOMAIN e.closed = 1 .. Len(e.closed)
           /\ \A n \in 1 .. Len(e.closed) : AllRows(e)[n] = e.closed[n]
           /\ \A n \in 1 .. Len(e.rows) :
                AllRows(e)[Len(e.closed) + n] = [end |-> e.end, row |-> e.rows[n]]
<1>. DEFINE R == [end : Nat, row : Event]
            c == Counted(e)
<1>1. /\ c \in Seq(R) /\ Len(c) = Len(e.rows) /\ Len(e.rows) \in Nat
      /\ \A n \in 1 .. Len(e.rows) : c[n] = [end |-> e.end, row |-> e.rows[n]]
  BY CountedTyped
<1>. DEFINE s == e.closed
            all == AllRows(e)
            k == Len(s)
            r == Len(c)
<1>2. s \in Seq(R)
  BY EngineTyped
<1>3. all = s \o c
  BY DEF AllRows
<1>. HIDE DEF R, c, s, all
<1>4. k \in Nat /\ DOMAIN s = 1 .. k
  BY <1>2, LenProperties
<1>5. /\ all \in Seq(R) /\ Len(all) = k + r
      /\ \A n \in 1 .. k + r : all[n] = IF n <= k THEN s[n] ELSE c[n - k]
  <2>1. c \in Seq(R)
    BY <1>1
  <2>. QED BY <1>2, <1>3, <2>1, ConcatProperties
<1>6. r \in Nat
  BY <1>1
<1>. HIDE DEF k, r
<1>7. (\A n \in 1 .. k : all[n] = s[n]) /\ (\A n \in 1 .. r : all[k + n] = c[n])
  BY <1>4, <1>5, <1>6
<1>8. /\ \A n \in 1 .. r : all[k + n] = [end |-> e.end, row |-> e.rows[n]]
      /\ r = Len(e.rows)
  BY <1>1, <1>7 DEF r
<1>. QED BY <1>4, <1>5, <1>6, <1>7, <1>8 DEF R, s, all, k

(* A row given to the rule is the last of its rows, in a window that does  *)
(* not end before that of the row.                                         *)
LEMMA RowsFed ==
    ASSUME NEW e \in Engine, NEW ev \in Event, NEW f, f = FeedStats(e, ev),
           e.end = 0 => e.rows = << >> /\ e.closed = << >>,
           e.end # 0 => \E t \in Nat : e.end = BucketEnd(t),
           \A n \in DOMAIN e.closed : e.closed[n].end < e.end
    PROVE  /\ Len(AllRows(f)) = Len(AllRows(e)) + 1
           /\ \A n \in 1 .. Len(AllRows(e)) : AllRows(f)[n] = AllRows(e)[n]
           /\ AllRows(f)[Len(AllRows(e)) + 1] = [end |-> f.end, row |-> ev]
           /\ f.end # 0 /\ f.end >= BucketEnd(ev.ts) /\ f.end >= e.end
           /\ f.end = BucketEnd(ev.ts) \/ (e.end # 0 /\ f.end = e.end)
           /\ \A n \in DOMAIN f.closed : f.closed[n].end < f.end
<1>. DEFINE R == [end : Nat, row : Event]
            k == Len(e.closed)
            r == Len(e.rows)
<1>1. /\ f \in Engine
      /\ f.end = IF e.end # 0 /\ ev.ts < e.end THEN e.end ELSE BucketEnd(ev.ts)
      /\ f.rows = IF e.end # 0 /\ ev.ts < e.end THEN Append(e.rows, ev) ELSE << ev >>
      /\ f.closed = IF e.end # 0 /\ ~ ev.ts < e.end THEN AllRows(e) ELSE e.closed
  BY StatsTyped DEF AllRows
<1>2. /\ AllRows(e) \in Seq(R) /\ Len(AllRows(e)) = k + r /\ k \in Nat /\ r \in Nat
      /\ DOMAIN e.closed = 1 .. k
      /\ \A n \in 1 .. k : AllRows(e)[n] = e.closed[n]
      /\ \A n \in 1 .. r : AllRows(e)[k + n] = [end |-> e.end, row |-> e.rows[n]]
  BY RowsTyped
<1>3. /\ Len(AllRows(f)) = Len(f.closed) + Len(f.rows)
      /\ Len(f.closed) \in Nat /\ Len(f.rows) \in Nat
      /\ DOMAIN f.closed = 1 .. Len(f.closed)
      /\ \A n \in 1 .. Len(f.closed) : AllRows(f)[n] = f.closed[n]
      /\ \A n \in 1 .. Len(f.rows) :
            AllRows(f)[Len(f.closed) + n] = [end |-> f.end, row |-> f.rows[n]]
  BY <1>1, RowsTyped
<1>4. /\ ev.ts \in Nat /\ e.end \in Nat /\ e.rows \in Seq(Event)
      /\ BucketEnd(ev.ts) \in Nat \ {0} /\ BucketEnd(ev.ts) > ev.ts
  <2>1. ev.ts \in Nat
    BY DEF Event
  <2>. QED BY <2>1, Bucket, EngineTyped
<1>. HIDE DEF k, r, R
<1>5. CASE e.end # 0 /\ ev.ts < e.end
  <2>1. f.end = e.end /\ f.rows = Append(e.rows, ev) /\ f.closed = e.closed
    BY <1>1, <1>5
  <2>2. Len(f.rows) = r + 1 /\ f.rows[r + 1] = ev /\ \A n \in 1 .. r : f.rows[n] = e.rows[n]
    BY <1>4, <2>1, AppendProperties DEF r
  <2>3. BucketEnd(ev.ts) <= e.end
    <3>1. PICK t \in Nat : e.end = BucketEnd(t)
      BY <1>5
    <3>2. BucketEnd(t) = (t \div Dur + 1) * Dur /\ t \div Dur \in Nat
      BY Bucket
    <3>. DEFINE q == t \div Dur + 1
    <3>3. q \in Nat /\ q * Dur > ev.ts /\ q * Dur = e.end
      BY <1>5, <3>1, <3>2
    <3>. HIDE DEF q
    <3>4. q * Dur > ev.ts => BucketEnd(ev.ts) <= q * Dur
      BY <1>4, <3>3, Bucket
    <3>. QED BY <3>3, <3>4
  <2>4. ASSUME NEW n \in 1 .. k + r
        PROVE  AllRows(f)[n] = AllRows(e)[n]
    <3>1. CASE n <= k
      <4>1. n \in 1 .. k
        BY <1>2, <3>1
      <4>2. AllRows(f)[n] = f.closed[n]
        BY <1>3, <2>1, <4>1 DEF k
      <4>. QED BY <1>2, <2>1, <4>1, <4>2
    <3>2. CASE n > k
      <4>. DEFINE m == n - k
      <4>1. m \in 1 .. r /\ n = k + m
        BY <1>2, <3>2
      <4>. HIDE DEF m
      <4>2. m \in 1 .. Len(f.rows)
        BY <1>2, <2>2, <4>1
      <4>3. AllRows(f)[k + m] = [end |-> f.end, row |-> f.rows[m]]
        BY <1>3, <2>1, <4>2 DEF k
      <4>4. AllRows(e)[k + m] = [end |-> e.end, row |-> e.rows[m]]
        BY <1>2, <4>1
      <4>. QED BY <2>1, <2>2, <4>1, <4>3, <4>4
    <3>. QED BY <1>2, <3>1, <3>2
  <2>5. Len(AllRows(f)) = k + r + 1
    <3>1. Len(f.closed) = k /\ Len(f.rows) = r + 1
      BY <2>1, <2>2 DEF k
    <3>2. Len(AllRows(f)) = Len(f.closed) + Len(f.rows)
      BY <1>3
    <3>. QED BY <1>2, <3>1, <3>2
  <2>6. AllRows(f)[k + r + 1] = [end |-> f.end, row |-> ev]
    <3>1. r + 1 \in 1 .. Len(f.rows)
      BY <1>2, <2>2
    <3>2. AllRows(f)[k + (r + 1)] = [end |-> f.end, row |-> f.rows[r + 1]]
      BY <1>3, <2>1, <3>1 DEF k
    <3>3. k + (r + 1) = k + r + 1
      BY <1>2
    <3>. QED BY <2>2, <3>2, <3>3
  <2>7. Len(AllRows(e)) = k + r
    BY <1>2
  <2>8. /\ f.end # 0 /\ f.end >= BucketEnd(ev.ts) /\ f.end >= e.end
        /\ e.end # 0 /\ f.end = e.end
    BY <1>4, <1>5, <2>1, <2>3
  <2>9. \A n \in DOMAIN f.closed : f.closed[n].end < f.end
    BY <2>1
  <2>. QED BY <2>4, <2>5, <2>6, <2>7, <2>8, <2>9
<1>6. CASE ~ (e.end # 0 /\ ev.ts < e.end)
  <2>1. f.end = BucketEnd(ev.ts) /\ f.rows = << ev >>
    BY <1>1, <1>6
  <2>2. Len(f.rows) = 1 /\ f.rows[1] = ev
    BY <2>1
  <2>3. << >> \in Seq(R) /\ Len(<< >>) = 0
    OBVIOUS
  <2>4. f.closed = AllRows(e)
    <3>1. CASE e.end = 0
      <4>1. e.closed = << >> /\ k = 0 /\ r = 0
        BY <3>1, <2>3 DEF k, r
      <4>2. Len(AllRows(e)) = 0
        BY <1>2, <4>1
      <4>3. AllRows(e) = << >>
        BY <1>2, <4>2, EmptySeq
      <4>. QED BY <1>1, <3>1, <4>1, <4>3
    <3>2. CASE e.end # 0
      BY <1>1, <1>6, <3>2
    <3>. QED BY <3>1, <3>2
  <2>5. Len(f.closed) = k + r
    BY <1>2, <2>4
  <2>6. Len(AllRows(f)) = k + r + 1 /\ AllRows(f)[k + r + 1] = [end |-> f.end, row |-> ev]
    <3>1. 1 \in 1 .. Len(f.rows)
      BY <2>2
    <3>. QED BY <1>3, <2>2, <2>5, <3>1
  <2>7. \A n \in 1 .. k + r : AllRows(f)[n] = AllRows(e)[n]
    BY <1>3, <2>4, <2>5
  <2>8. f.end > e.end
    BY <1>4, <1>6, <2>1
  <2>9. ASSUME NEW n \in DOMAIN f.closed
        PROVE  f.closed[n].end < f.end
    <3>1. n \in 1 .. k + r /\ f.closed[n] = AllRows(e)[n]
      BY <1>3, <2>4, <2>5
    <3>2. f.closed[n].end <= e.end /\ f.closed[n].end \in Nat
      <4>1. CASE n <= k
        <5>1. AllRows(e)[n] \in [end : Nat, row : Event]
          BY <1>2, <3>1, ElementOfSeq DEF R
        <5>2. n \in DOMAIN e.closed /\ AllRows(e)[n] = e.closed[n]
          BY <1>2, <3>1, <4>1
        <5>. QED BY <1>4, <3>1, <5>1, <5>2
      <4>2. CASE n > k
        <5>1. n - k \in 1 .. r /\ n = k + (n - k)
          BY <1>2, <3>1, <4>2
        <5>2. AllRows(e)[n] = [end |-> e.end, row |-> e.rows[n - k]]
          BY <1>2, <5>1
        <5>. QED BY <1>4, <3>1, <5>2
      <4>. QED BY <1>2, <3>1, <4>1, <4>2
    <3>. QED BY <1>4, <2>1, <2>8, <3>2
  <2>. QED BY <1>2, <1>4, <2>1, <2>6, <2>7, <2>8, <2>9
<1>. QED BY <1>5, <1>6

(* A statistics rule that is given no row. *)
LEMMA StatsKept ==
    ASSUME NEW i \in Rule, StatsInv(i), eng'[i] = eng[i], fed'[i] = fed[i],
           pass' = "done" <=> pass = "done"
    PROVE  StatsInv(i)'
BY DEF StatsInv, AllRows, Counted

(* ... and one that is given one. *)
LEMMA StatsFed ==
    ASSUME TypeOK, NEW i \in Rule, StatsInv(i), pass = "main", pass' = "main",
           NEW entry \in Entry, eng'[i] = FeedStats(eng[i], entry.ev),
           fed'[i] = Append(fed[i], entry)
    PROVE  StatsInv(i)'
<1>. DEFINE e == eng[i]
            f == eng'[i]
            F == fed[i]
            G == fed'[i]
            k == Len(F)
            ev == entry.ev
            old == AllRows(e)
            new == AllRows(f)
<1>1. e \in Engine /\ F \in Seq(Entry) /\ ev \in Event
  BY DEF TypeOK, Entry
<1>2. /\ k \in Nat /\ DOMAIN F = 1 .. k /\ Len(G) = k + 1 /\ DOMAIN G = 1 .. k + 1
      /\ \A m \in 1 .. k : G[m] = F[m] /\ F[m] \in Entry
      /\ G[k + 1] = entry
  <2>1. k \in Nat /\ DOMAIN F = 1 .. k /\ \A m \in 1 .. k : F[m] \in Entry
    BY <1>1, LenProperties, ElementOfSeq
  <2>2. /\ G \in Seq(Entry) /\ Len(G) = k + 1 /\ G[k + 1] = entry
        /\ \A m \in 1 .. k : G[m] = F[m]
    BY <1>1, AppendProperties
  <2>3. DOMAIN G = 1 .. Len(G)
    BY <2>2, LenProperties
  <2>. QED BY <2>1, <2>2, <2>3
<1>. DEFINE End(m) == BucketEnd(F[m].ev.ts)
<1>3. /\ e.end = 0 => F = << >> /\ e.rows = << >> /\ e.closed = << >>
      /\ e.end # 0 => \E m \in 1 .. k : e.end = End(m)
      /\ \A m \in 1 .. k : End(m) <= e.end
      /\ Len(old) = k
      /\ \A n \in 1 .. k :
            /\ old[n].row = F[n].ev
            /\ \E m \in 1 .. n : old[n].end = End(m)
            /\ \A m \in 1 .. n : old[n].end >= End(m)
      /\ \A n \in DOMAIN e.closed : e.closed[n].end < e.end
  BY <1>2 DEF StatsInv
<1>4. \A m \in 1 .. k : F[m].ev.ts \in Nat /\ End(m) \in Nat
  <2>1. \A m \in 1 .. k : F[m].ev.ts \in Nat
    BY <1>2 DEF Entry, Event
  <2>. QED BY <2>1, Bucket
<1>5. e.end # 0 => \E t \in Nat : e.end = BucketEnd(t)
  BY <1>3, <1>4
<1>6. ev.ts \in Nat /\ BucketEnd(ev.ts) \in Nat /\ e.end \in Nat
  <2>1. ev.ts \in Nat
    BY <1>1 DEF Event
  <2>. QED BY <1>1, <2>1, Bucket, EngineTyped
<1>7. /\ Len(new) = Len(old) + 1
      /\ \A n \in 1 .. Len(old) : new[n] = old[n]
      /\ new[Len(old) + 1] = [end |-> f.end, row |-> ev]
      /\ f.end # 0 /\ f.end >= BucketEnd(ev.ts) /\ f.end >= e.end
      /\ (f.end = BucketEnd(ev.ts) \/ (e.end # 0 /\ f.end = e.end))
      /\ \A n \in DOMAIN f.closed : f.closed[n].end < f.end
  <2>1. /\ e.end = 0 => e.rows = << >> /\ e.closed = << >>
        /\ \A n \in DOMAIN e.closed : e.closed[n].end < e.end
        /\ f = FeedStats(e, ev)
    BY <1>3
  <2>. HIDE DEF e, f, ev
  <2>. QED BY <1>1, <1>5, <2>1, RowsFed
<1>. DEFINE Fin(m) == BucketEnd(G[m].ev.ts)
<1>8. Fin(k + 1) = BucketEnd(ev.ts) /\ \A m \in 1 .. k : Fin(m) = End(m)
  BY <1>2
<1>9. f.end \in Nat
  BY <1>6, <1>7
<1>. HIDE DEF e, f, F, G, k, ev, old, new, End, Fin
<1>10. \E m \in 1 .. k + 1 : f.end = Fin(m)
  <2>1. CASE f.end = BucketEnd(ev.ts)
    BY <1>2, <1>8, <2>1
  <2>2. CASE e.end # 0 /\ f.end = e.end
    <3>1. PICK m \in 1 .. k : e.end = End(m)
      BY <1>3, <2>2
    <3>. QED BY <1>2, <1>8, <2>2, <3>1
  <2>. QED BY <1>7, <2>1, <2>2
<1>11. \A m \in 1 .. k + 1 : Fin(m) <= f.end
  <2>1. \A m \in 1 .. k : Fin(m) <= f.end
    BY <1>3, <1>4, <1>6, <1>7, <1>8, <1>9
  <2>2. Fin(k + 1) <= f.end
    BY <1>6, <1>7, <1>8, <1>9
  <2>. QED BY <1>2, <2>1, <2>2
<1>12. ASSUME NEW n \in 1 .. k + 1
       PROVE  /\ new[n].row = G[n].ev
              /\ \E m \in 1 .. n : new[n].end = Fin(m)
              /\ \A m \in 1 .. n : new[n].end >= Fin(m)
  <2>1. CASE n = k + 1
    <3>1. new[n].row = ev /\ new[n].end = f.end
      BY <1>3, <1>7, <2>1
    <3>2. G[n].ev = ev
      BY <1>2, <2>1 DEF ev
    <3>3. \A m \in 1 .. n : new[n].end >= Fin(m)
      BY <1>2, <1>4, <1>6, <1>8, <1>9, <1>11, <2>1, <3>1
    <3>. QED BY <1>10, <2>1, <3>1, <3>2, <3>3
  <2>2. CASE n \in 1 .. k
    <3>1. new[n] = old[n]
      BY <1>3, <1>7, <2>2
    <3>2. \A m \in 1 .. n : m \in 1 .. k /\ Fin(m) = End(m)
      BY <1>2, <1>8, <2>2
    <3>3. old[n].row = F[n].ev /\ G[n] = F[n]
      BY <1>2, <1>3, <2>2
    <3>4. PICK m \in 1 .. n : old[n].end = End(m)
      BY <1>3, <2>2
    <3>5. \A j \in 1 .. n : old[n].end >= End(j)
      BY <1>3, <2>2
    <3>. QED BY <3>1, <3>2, <3>3, <3>4, <3>5
  <2>. QED BY <1>2, <2>1, <2>2
<1>13. Len(new) = k + 1
  BY <1>3, <1>7
<1>14. /\ f.end # 0 /\ \E m \in DOMAIN G : f.end = Fin(m)
       /\ \A m \in DOMAIN G : Fin(m) <= f.end
       /\ Len(new) = Len(G)
       /\ \A n \in DOMAIN G :
            /\ new[n].row = G[n].ev
            /\ \E m \in 1 .. n : new[n].end = Fin(m)
            /\ \A m \in 1 .. n : new[n].end >= Fin(m)
       /\ \A n \in DOMAIN f.closed : f.closed[n].end < f.end
  BY <1>2, <1>7, <1>10, <1>11, <1>12, <1>13
<1>15. AllRows(eng[i])' = new
  BY DEF AllRows, Counted, new, f
<1>. QED BY <1>14, <1>15 DEF StatsInv, f, G, Fin

(* ... and one whose last window closes. *)
LEMMA StatsEnded ==
    ASSUME TypeOK, NEW i \in Stats, StatsInv(i), pass = "eos", Finish
    PROVE  StatsInv(i)'
<1>. DEFINE e == eng[i]
            f == eng'[i]
            R == [end : Nat, row : Event]
<1>1. /\ i \in Rule /\ e \in Engine /\ f = CloseTail(e) /\ fed'[i] = fed[i] /\ pass' = "done"
      /\ f \in Engine
  BY FinishTyped DEF Stats, Finish, TypeOK
<1>2. /\ f.rows = IF e.end = 0 THEN e.rows ELSE << >>
      /\ f.closed = IF e.end = 0 THEN e.closed ELSE AllRows(e)
      /\ f.end = e.end
  BY <1>1, TailTyped DEF AllRows
<1>3. f.rows = << >>
  BY <1>2 DEF StatsInv
<1>4. AllRows(f) = AllRows(e)
  <2>1. CASE e.end = 0
    <3>1. f = e
      BY <1>1, <2>1 DEF CloseTail
    <3>. QED BY <3>1
  <2>2. CASE e.end # 0
    <3>1. AllRows(e) \in Seq(R) /\ Counted(f) \in Seq(R) /\ Len(Counted(f)) = Len(f.rows)
      BY <1>1, RowsTyped, CountedTyped
    <3>2. Len(f.rows) = 0
      BY <1>3
    <3>. HIDE DEF R, e, f
    <3>3. Counted(f) = << >>
      BY <3>1, <3>2, EmptySeq
    <3>4. AllRows(f) = AllRows(e) \o << >>
      BY <1>2, <2>2, <3>3 DEF AllRows
    <3>. QED BY <3>1, <3>4, ConcatEmptySeq
  <2>. QED BY <2>1, <2>2
<1>5. AllRows(eng[i])' = AllRows(f)
  BY DEF AllRows, Counted
<1>6. /\ e.end = 0 => fed[i] = << >> /\ e.rows = << >> /\ e.closed = << >>
      /\ e.end = 0 => f.closed = << >>
  BY <1>2 DEF StatsInv
<1>. QED BY <1>1, <1>2, <1>3, <1>4, <1>5, <1>6 DEF StatsInv

(* A rule that meets an event changes its own state, and what it has been  *)
(* driven with, at most.                                                   *)
LEMMA DriveOne ==
    ASSUME TypeOK, DriveRule
    PROVE  \E i \in left :
              /\ Meet(i) /\ i \in Engines
              /\ PassBy(i) \/ DriveEach(i) \/ DriveDeferred(i) \/ DriveClose(i)
                    \/ DriveFedEach(i) \/ DriveFedClose(i)
              /\ \A j \in Rule : j # i => eng'[j] = eng[j] /\ fed'[j] = fed[j]
<1>1. PICK i \in left : \/ PassBy(i) \/ DriveEach(i) \/ DriveDeferred(i) \/ DriveClose(i)
                        \/ DriveFedEach(i) \/ DriveFedClose(i)
  BY DEF DriveRule
<1>2. Meet(i)
  BY <1>1, PassByTyped, DriveEachTyped, DriveDeferredTyped, DriveCloseTyped,
     DriveFedEachTyped, DriveFedCloseTyped, DrivenTyped
<1>3. i \in Engines
  BY <1>2, MeetTyped
<1>4. ASSUME NEW j \in Rule, j # i
      PROVE  eng'[j] = eng[j]
  <2>1. CASE PassBy(i)
    BY <1>4, <2>1, PassByTyped
  <2>2. CASE DriveEach(i)
    BY <1>4, <2>2, DriveEachTyped
  <2>3. CASE DriveDeferred(i)
    BY <1>4, <2>3, DriveDeferredTyped
  <2>4. CASE DriveClose(i)
    BY <1>4, <2>4, DriveCloseTyped
  <2>5. CASE DriveFedEach(i)
    BY <1>4, <2>5, DriveFedEachTyped
  <2>6. CASE DriveFedClose(i)
    BY <1>4, <2>6, DriveFedCloseTyped
  <2>. QED BY <1>1, <2>1, <2>2, <2>3, <2>4, <2>5, <2>6
<1>5. ASSUME NEW j \in Rule, j # i
      PROVE  fed'[j] = fed[j]
  <2>1. CASE PassBy(i)
    BY <2>1, PassByTyped
  <2>2. CASE Drive(i)
    BY <1>5, <2>2, DrivenTyped
  <2>3. PassBy(i) \/ Drive(i)
    BY <1>1, DriveEachTyped, DriveDeferredTyped, DriveCloseTyped,
       DriveFedEachTyped, DriveFedCloseTyped
  <2>. QED BY <2>1, <2>2, <2>3
<1>6. \A j \in Rule : j # i => eng'[j] = eng[j] /\ fed'[j] = fed[j]
  BY <1>4, <1>5
<1>. QED BY <1>1, <1>2, <1>3, <1>6

(* One case for each action. *)
LEMMA StepStats ==
    ASSUME TypeOK, [Next]_vars, NEW i \in Stats, StatsInv(i)
    PROVE  StatsInv(i)'
<1>0. i \in Rule /\ i \notin Engines /\ eng[i] \in Engine
  BY DEF Stats, Engines, TypeOK
<1>1. CASE Preload
  <2>1. fed'[i] = fed[i] /\ pass' = pass
    BY <1>1 DEF Preload
  <2>2. eng'[i] = [eng[i] EXCEPT !.win = @]
    BY <1>0, <1>1 DEF Preload
  <2>3. eng'[i] = eng[i]
    BY <1>0, <2>2 DEF Engine
  <2>. QED BY <1>0, <2>1, <2>3, StatsKept
<1>2. CASE MainPass
  <2>1. fed'[i] = fed[i] /\ eng'[i] = eng[i] /\ (pass' = "done" <=> pass = "done")
    BY <1>2 DEF MainPass
  <2>. QED BY <1>0, <2>1, StatsKept
<1>3. ASSUME NEW entry \in Entry, Take(entry), pass = "main", pass' = "main"
      PROVE  StatsInv(i)'
  <2>1. CASE Binds(i, entry.ev.win)
    <3>1. eng'[i] = FeedStats(eng[i], entry.ev) /\ fed'[i] = Append(fed[i], entry)
      BY <1>0, <1>3, <2>1, TakeTyped
    <3>. QED BY <1>0, <1>3, <3>1, StatsFed
  <2>2. CASE ~ Binds(i, entry.ev.win)
    <3>1. eng'[i] = eng[i] /\ fed'[i] = fed[i]
      BY <1>0, <1>3, <2>2, TakeTyped
    <3>. QED BY <1>0, <1>3, <3>1, StatsKept
  <2>. QED BY <2>1, <2>2
<1>4. CASE NextEvent
  BY <1>3, <1>4, NextEventTyped DEF NextEvent
<1>5. CASE FeedBack
  BY <1>3, <1>5, FeedBackTyped DEF FeedBack
<1>6. CASE DriveRule
  <2>1. PICK j \in left : /\ Meet(j) /\ j \in Engines
                          /\ \A k \in Rule : k # j => eng'[k] = eng[k] /\ fed'[k] = fed[k]
    BY <1>6, DriveOne
  <2>2. pass' = pass
    BY <2>1, MeetTyped
  <2>3. eng'[i] = eng[i] /\ fed'[i] = fed[i]
    BY <1>0, <2>1
  <2>. QED BY <1>0, <2>2, <2>3, StatsKept
<1>7. CASE EvaluateDue
  <2>1. eng'[i] = eng[i] /\ fed'[i] = fed[i] /\ pass' = pass
    BY <1>7 DEF EvaluateDue
  <2>. QED BY <1>0, <2>1, StatsKept
<1>8. CASE EndOfStream
  <2>1. eng'[i] = eng[i] /\ fed'[i] = fed[i] /\ (pass' = "done" <=> pass = "done")
    BY <1>8 DEF EndOfStream
  <2>. QED BY <1>0, <2>1, StatsKept
<1>9. CASE \E j \in left : Settle(j)
  <2>1. PICK j \in left : Settle(j)
    BY <1>9
  <2>2. pass' = pass /\ j \in Engines /\ fed' = fed
    BY <2>1, SettleTyped
  <2>3. eng'[i] = eng[i] /\ fed'[i] = fed[i]
    BY <1>0, <2>1, <2>2, SettleTyped
  <2>. QED BY <1>0, <2>2, <2>3, StatsKept
<1>10. CASE Finish
  BY <1>10, StatsEnded DEF Finish
<1>11. CASE UNCHANGED vars
  <2>1. eng'[i] = eng[i] /\ fed'[i] = fed[i] /\ pass' = pass
    BY <1>11 DEF vars
  <2>. QED BY <1>0, <2>1, StatsKept
<1>. QED BY <1>1, <1>2, <1>4, <1>5, <1>6, <1>7, <1>8, <1>9, <1>10, <1>11 DEF Next

(* No row is counted at first. *)
LEMMA InitStats == Init => \A i \in Stats : StatsInv(i)
<1>. SUFFICES ASSUME Init, NEW i \in Stats PROVE StatsInv(i)
  OBVIOUS
<1>1. i \in Rule /\ eng[i] = NewEngine /\ fed[i] = << >> /\ pass = "preload"
  BY DEF Init, Stats
<1>2. NewEngine.end = 0 /\ NewEngine.rows = << >> /\ NewEngine.closed = << >>
  BY DEF NewEngine
<1>3. DOMAIN << >> = {}
  OBVIOUS
<1>4. Len(AllRows(NewEngine)) = 0
  <2>1. NewEngine \in Engine
    BY <1>1, InitTyped DEF TypeOK
  <2>2. Len(<< >>) = 0
    OBVIOUS
  <2>3. Len(AllRows(NewEngine)) = Len(NewEngine.closed) + Len(NewEngine.rows)
    BY <2>1, RowsTyped
  <2>4. Len(NewEngine.closed) = 0 /\ Len(NewEngine.rows) = 0
    BY <1>2, <2>2
  <2>. QED BY <2>3, <2>4
<1>5. Len(<< >>) = 0
  OBVIOUS
<1>. QED BY <1>1, <1>2, <1>3, <1>4, <1>5 DEF StatsInv

(* The invariant is the statistics part of the property. *)
LEMMA StatsSuffice ==
    ASSUME TypeOK, \A i \in Stats : StatsInv(i)
    PROVE  StatsClosed
<1>. SUFFICES ASSUME NEW i \in Stats
              PROVE  LET rows == eng[i].closed \o Counted(eng[i])
                         End(n) == BucketEnd(fed[i][n].ev.ts)
                     IN  /\ Len(rows) = Len(fed[i])
                         /\ \A n \in DOMAIN fed[i] :
                                 /\ rows[n].row = fed[i][n].ev
                                 /\ \E m \in 1 .. n : rows[n].end = End(m)
                                 /\ \A m \in 1 .. n : rows[n].end >= End(m)
                         /\ IF pass = "done" THEN eng[i].rows = << >>
                            ELSE \A n \in DOMAIN eng[i].closed :
                                    eng[i].closed[n].end < eng[i].end
  BY Zenon DEF StatsClosed
<1>. QED BY DEF StatsInv, AllRows

-----------------------------------------------------------------------------
(* Instances. *)

(* What recording an output adds to the queue. *)
LEMMA RecordQueues ==
    ASSUME TypeOK, NEW o \in Alert, RecordOutput(o)
    PROVE  /\ Len(feed) \in Nat /\ DOMAIN feed = 1 .. Len(feed)
           /\ DOMAIN feed' = 1 .. IF Intermediate(o) THEN Len(feed) + 1 ELSE Len(feed)
           /\ \A n \in 1 .. Len(feed) : feed'[n] = feed[n]
           /\ Intermediate(o) =>
                feed'[Len(feed) + 1] = [ev |-> AsEvent(o), from |-> Len(alerts) + 1]
<1>. DEFINE x == [ev |-> AsEvent(o), from |-> Len(alerts) + 1]
            q == Queued(o)
            k == Len(feed)
<1>1. feed \in Seq(Entry) /\ feed' \in Seq(Entry)
  BY RecordTyped DEF TypeOK
<1>2. k \in Nat /\ DOMAIN feed = 1 .. k /\ DOMAIN feed' = 1 .. Len(feed')
  BY <1>1, LenProperties
<1>3. feed' = feed \o q
  BY DEF RecordOutput
<1>4. q = IF Intermediate(o) THEN << x >> ELSE << >>
  BY DEF Queued
<1>5. x \in Entry
  <2>1. o.rule \in Rule /\ o.key \in Keys /\ o.ts \in Nat /\ o.id \in Nat
    BY DEF Alert
  <2>2. AsEvent(o) \in Event
    BY <2>1 DEF AsEvent, Event, Windows
  <2>3. Len(alerts) \in Nat
    BY LenProperties DEF TypeOK
  <2>. QED BY <2>2, <2>3 DEF Entry
<1>. HIDE DEF x, q
<1>6. CASE Intermediate(o)
  <2>1. q = << x >> /\ q \in Seq(Entry) /\ Len(q) = 1 /\ q[1] = x
    BY <1>4, <1>5, <1>6
  <2>2. /\ Len(feed') = k + 1
        /\ \A n \in 1 .. k + 1 : feed'[n] = IF n <= k THEN feed[n] ELSE q[n - k]
    BY <1>1, <1>3, <2>1, ConcatProperties
  <2>. HIDE DEF k
  <2>3. feed'[k + 1] = x /\ \A n \in 1 .. k : feed'[n] = feed[n]
    BY <1>2, <2>1, <2>2
  <2>. QED BY <1>2, <1>6, <2>2, <2>3 DEF x, k
<1>7. CASE ~ Intermediate(o)
  <2>1. feed' = feed
    BY <1>1, <1>3, <1>4, <1>7, ConcatEmptySeq
  <2>. QED BY <1>2, <1>7, <2>1
<1>. QED BY <1>6, <1>7

(* A recorded output is as old as the last event, or its window is a late  *)
(* one.                                                                    *)
LEMMA LateRecorded ==
    ASSUME TypeOK, NEW late, LateInv(late), NEW o \in Alert, RecordOutput(o),
           Intermediate(o) => o.ts = events[at].ts \/ Rules[o.rule].target \in late,
           left' \subseteq left, UNCHANGED << events, at, cur >>
    PROVE  LateInv(late)'
<1>1. /\ Len(feed) \in Nat /\ DOMAIN feed = 1 .. Len(feed)
      /\ DOMAIN feed' = 1 .. IF Intermediate(o) THEN Len(feed) + 1 ELSE Len(feed)
      /\ \A n \in 1 .. Len(feed) : feed'[n] = feed[n]
      /\ Intermediate(o) =>
            feed'[Len(feed) + 1] = [ev |-> AsEvent(o), from |-> Len(alerts) + 1]
  BY RecordQueues
<1>2. ASSUME NEW n \in DOMAIN feed'
      PROVE  feed'[n].ev.win \in late \/ feed'[n].ev.ts = events[at].ts
  <2>1. CASE n \in 1 .. Len(feed)
    BY <1>1, <2>1 DEF LateInv
  <2>2. CASE Intermediate(o) /\ n = Len(feed) + 1
    BY <1>1, <2>2 DEF AsEvent
  <2>. QED BY <1>1, <2>1, <2>2
<1>. QED BY <1>2 DEF LateInv

(* Nothing is queued and the event is the same. *)
LEMMA LateKept ==
    ASSUME NEW late, LateInv(late), feed' = feed,
           left' \subseteq left, UNCHANGED << events, at, cur >>
    PROVE  LateInv(late)'
BY DEF LateInv

(* One case for each action. *)
LEMMA StepLate ==
    ASSUME TypeOK, CurInv, pass = "main", pass' = "main", [Next]_vars,
           NEW late \in SUBSET IntermediateWindows, ClosedUnder(late), LateInv(late)
    PROVE  LateInv(late)'
<1>1. CASE NextEvent
  <2>1. feed' = << >> /\ cur'.ev = events[at + 1] /\ at' = at + 1 /\ events' = events
    BY <1>1, NextEventTyped DEF NextEvent
  <2>2. DOMAIN << >> = {}
    OBVIOUS
  <2>. QED BY <2>1, <2>2 DEF LateInv
<1>2. CASE FeedBack
  <2>1. /\ feed \in Seq(Entry) /\ feed' \in Seq(Entry)
        /\ Head(feed) = feed[1] /\ Len(feed) \in Nat \ {0} /\ Len(feed') = Len(feed) - 1
        /\ \A n \in 1 .. Len(feed') : feed'[n] = feed[n + 1]
        /\ cur' = Head(feed) /\ at' = at /\ events' = events
    BY <1>2, FeedBackTyped DEF TypeOK, FeedBack, Take
  <2>2. DOMAIN feed = 1 .. Len(feed) /\ DOMAIN feed' = 1 .. Len(feed')
    BY <2>1, LenProperties
  <2>3. 1 \in DOMAIN feed /\ \A n \in DOMAIN feed' : n + 1 \in DOMAIN feed /\ feed'[n] = feed[n + 1]
    BY <2>1, <2>2
  <2>. QED BY <2>1, <2>3 DEF LateInv
<1>3. CASE DriveRule
  <2>1. PICK i \in left : \/ PassBy(i) \/ DriveEach(i) \/ DriveDeferred(i) \/ DriveClose(i)
                          \/ DriveFedEach(i) \/ DriveFedClose(i)
    BY <1>3 DEF DriveRule
  <2>2. Meet(i)
    BY <2>1, PassByTyped, DriveEachTyped, DriveDeferredTyped, DriveCloseTyped,
       DriveFedEachTyped, DriveFedCloseTyped, DrivenTyped
  <2>3. /\ i \in Rule /\ left' \subseteq left /\ left # {} /\ cur \in Entry
        /\ UNCHANGED << events, at, cur >>
    BY <2>2, MeetTyped
  <2>4. CASE PassBy(i) \/ DriveDeferred(i) \/ DriveClose(i) \/ DriveFedClose(i)
    <3>1. feed' = feed
      BY <2>4, PassByTyped, DriveDeferredTyped, DriveCloseTyped, DriveFedCloseTyped
    <3>. QED BY <2>3, <3>1, LateKept
  <2>5. CASE DriveEach(i)
    <3>. DEFINE o == EachOutput(i, Ahead(i, cur.ev).win, cur.ev)
    <3>1. o \in Alert /\ RecordOutput(o) /\ cur.from = 0
      BY <2>5, DriveEachTyped
    <3>2. o.ts = cur.ev.ts
      BY DEF EachOutput, Output
    <3>3. cur.ev = events[at]
      BY <2>3, <3>1 DEF CurInv
    <3>. HIDE DEF o
    <3>. QED BY <2>3, <3>1, <3>2, <3>3, LateRecorded
  <2>6. CASE DriveFedEach(i)
    <3>. DEFINE o == EachOutput(i, eng[i].win, cur.ev)
    <3>1. o \in Alert /\ RecordOutput(o) /\ Binds(i, cur.ev.win)
      BY <2>6, DriveFedEachTyped, DrivenTyped
    <3>2. o.ts = cur.ev.ts /\ o.rule = i
      BY DEF EachOutput, Output
    <3>3. cur.ev.win \in late \/ cur.ev.ts = events[at].ts
      BY <2>3 DEF LateInv
    <3>4. Intermediate(o) => Rules[i].target \in IntermediateWindows
      BY <3>2 DEF Intermediate
    <3>5. Intermediate(o) => o.ts = events[at].ts \/ Rules[o.rule].target \in late
      BY <2>3, <3>1, <3>2, <3>3, <3>4 DEF ClosedUnder
    <3>. HIDE DEF o
    <3>. QED BY <2>3, <3>1, <3>5, LateRecorded
  <2>. QED BY <2>1, <2>4, <2>5, <2>6
<1>4. CASE EvaluateDue
  <2>1. PICK p \in due :
          /\ p \in Pending /\ DueOutput(p) \in Alert
          /\ \/ alerts' = alerts /\ feed' = feed
             \/ pass = "main" /\ RecordOutput(DueOutput(p))
             \/ pass = "eos" /\ PushAlerts(<< DueOutput(p) >>)
    BY <1>4, EvaluateDueTyped
  <2>2. UNCHANGED << events, at, cur, left >>
    BY <1>4, EvaluateDueTyped
  <2>3. CASE feed' = feed
    BY <2>2, <2>3, LateKept
  <2>4. CASE RecordOutput(DueOutput(p))
    <3>. DEFINE o == DueOutput(p)
    <3>1. o.rule = p.rule /\ p.rule \in Rule /\ Rules[p.rule].kind = "deferred"
      BY <2>1 DEF DueOutput, Output, Pending, TypeOK
    <3>2. Intermediate(o) => Rules[o.rule].target \in late
      BY <3>1 DEF Intermediate, ClosedUnder
    <3>3. o \in Alert /\ RecordOutput(o)
      BY <2>1, <2>4
    <3>. HIDE DEF o
    <3>. QED BY <2>2, <3>2, <3>3, LateRecorded
  <2>. QED BY <2>1, <2>3, <2>4
<1>5. CASE UNCHANGED vars
  BY <1>5, LateKept DEF vars
<1>6. ~ Preload /\ ~ MainPass /\ ~ EndOfStream /\ ~ Finish /\ ~ \E i \in left : Settle(i)
  BY DEF Preload, MainPass, EndOfStream, Finish, Settle
<1>. QED BY <1>1, <1>2, <1>3, <1>4, <1>5, <1>6 DEF Next

(* A close rule that met nothing keeps what the invariant says of it. *)
LEMMA CloseKept ==
    ASSUME NEW i \in Rule, CloseInv(i), Last(i)' = Last(i), events' = events,
           eng'[i].inst = eng[i].inst, eng'[i].bucket = eng[i].bucket
    PROVE  CloseInv(i)'
BY DEF CloseInv

(* The last event met is one of the stream, or none. *)
LEMMA LastTypes ==
    ASSUME TypeOK, CurInv, pass = "main", NEW i \in Rule
    PROVE  /\ Last(i) \in 0 .. at /\ at \in 0 .. Len(events) /\ Len(events) \in Nat
           /\ Last(i) # 0 => events[Last(i)] \in Event /\ events[Last(i)].ts \in Nat
<1>1. at \in 0 .. Len(events) /\ Len(events) \in Nat
  BY LengthTyped DEF TypeOK
<1>2. Last(i) \in 0 .. at
  BY <1>1 DEF Last, CurInv
<1>3. ASSUME Last(i) # 0
      PROVE  events[Last(i)] \in Event /\ events[Last(i)].ts \in Nat
  <2>1. Last(i) \in 1 .. Len(events)
    BY <1>1, <1>2, <1>3
  <2>2. events[Last(i)] \in Event
    BY <2>1, StreamTyped DEF TypeOK
  <2>. QED BY <2>2 DEF Event
<1>. QED BY <1>1, <1>2, <1>3

(* What is left of the instances ends after the event, scanned or not.     *)
LEMMA CloseAhead ==
    ASSUME TypeOK, CurInv, pass = "main", NEW i \in Rule, Rules[i].kind = "close",
           CloseInv(i), NEW ev \in Event
    PROVE  /\ Ahead(i, ev).bucket = ev.ts \div Dur
           /\ \A x \in Ahead(i, ev).inst :
                x.end > ev.ts /\ \E q \in Nat : x.end = q * Dur
<1>. DEFINE e == eng[i]
            f == Ahead(i, ev)
<1>1. /\ f.inst = e.inst \ Gone(i, ev)
      /\ f.bucket = IF Scans(i, ev) THEN ev.ts \div Dur ELSE e.bucket
  BY AheadTyped
<1>2. e \in Engine /\ e.inst \in SUBSET [key : Keys, end : Nat] /\ ev.ts \in Nat
  BY EngineTyped DEF TypeOK, Event
<1>3. CASE Scans(i, ev)
  <2>1. \A x \in f.inst : x \in e.inst /\ ~ x.end <= ev.ts
    BY <1>1, <1>3 DEF Gone, Expired
  <2>2. \A x \in f.inst : x.end > ev.ts
    BY <1>2, <2>1
  <2>. QED BY <1>1, <1>3, <2>1, <2>2 DEF CloseInv
<1>4. CASE ~ Scans(i, ev)
  <2>1. e.bucket = ev.ts \div Dur /\ f.bucket = e.bucket
    BY <1>1, <1>4 DEF Scans, MustScan
  <2>2. f.inst = e.inst
    BY <1>1, <1>4 DEF Gone
  <2>3. CASE Last(i) = 0
    BY <2>1, <2>2, <2>3 DEF CloseInv
  <2>4. CASE Last(i) # 0
    <3>. DEFINE t == events[Last(i)].ts
    <3>1. t \in Nat
      BY <2>4, LastTypes
    <3>2. t \div Dur = ev.ts \div Dur
      BY <2>1, <2>4 DEF CloseInv
    <3>3. BucketEnd(t) = BucketEnd(ev.ts)
      BY <3>2 DEF BucketEnd
    <3>4. BucketEnd(ev.ts) > ev.ts /\ BucketEnd(ev.ts) \in Nat
      BY <1>2, Bucket
    <3>5. ASSUME NEW x \in e.inst
          PROVE  x.end > ev.ts /\ \E q \in Nat : x.end = q * Dur
      <4>1. PICK q \in Nat : x.end = q * Dur
        BY DEF CloseInv
      <4>2. x.end > t
        BY <2>4 DEF CloseInv
      <4>3. q * Dur \in Nat /\ q * Dur > t
        BY <3>1, <4>1, <4>2, Bucket
      <4>. HIDE DEF t
      <4>4. BucketEnd(t) <= q * Dur
        BY <3>1, <4>3, Bucket
      <4>. DEFINE y == q * Dur
      <4>5. y \in Nat /\ BucketEnd(t) <= y /\ x.end = y
        BY <4>1, <4>3, <4>4
      <4>. HIDE DEF y
      <4>6. x.end > ev.ts
        BY <1>2, <3>3, <3>4, <4>5
      <4>. QED BY <4>1, <4>6
    <3>. QED BY <2>1, <2>2, <3>5
  <2>. QED BY <2>3, <2>4
<1>. QED BY <1>3, <1>4

(* One case for each action: the rule itself scans, and no other touches it. *)
LEMMA StepClose ==
    ASSUME TypeOK, CurInv, pass = "main", pass' = "main", [Next]_vars,
           NEW i \in Rule, Rules[i].kind = "close", Timely(i), CloseInv(i),
           \A late \in SUBSET IntermediateWindows : ClosedUnder(late) => LateInv(late)
    PROVE  CloseInv(i)'
<1>0. i \in Engines /\ eng[i] \in Engine
  BY DEF Engines, Stats, TypeOK
<1>1. CASE NextEvent
  <2>1. /\ left = {} /\ left' = Engines /\ cur'.from = 0 /\ at' = at + 1 /\ at \in Nat
        /\ events' = events
    BY <1>1, NextEventTyped, MetTypes DEF NextEvent, Resting, Take
  <2>2. Last(i)' = Last(i)
    BY <1>0, <2>1 DEF Last
  <2>3. eng'[i].inst = eng[i].inst /\ eng'[i].bucket = eng[i].bucket
    BY <1>1, NextEventTyped, TakeTyped
  <2>. QED BY <2>1, <2>2, <2>3, CloseKept
<1>2. CASE FeedBack
  <2>1. /\ left = {} /\ at' = at /\ cur' = Head(feed) /\ FedBack(Head(feed))
        /\ Head(feed) \in Entry /\ events' = events
    BY <1>2, FeedBackTyped DEF FeedBack, Resting, Take
  <2>2. cur'.from # 0
    BY <2>1 DEF FedBack, Entry
  <2>3. Last(i)' = Last(i)
    BY <2>1, <2>2 DEF Last
  <2>4. eng'[i].inst = eng[i].inst /\ eng'[i].bucket = eng[i].bucket
    BY <1>2, FeedBackTyped, TakeTyped
  <2>. QED BY <2>1, <2>3, <2>4, CloseKept
<1>3. CASE DriveRule
  <2>1. PICK j \in left :
              /\ Meet(j)
              /\ PassBy(j) \/ DriveEach(j) \/ DriveDeferred(j) \/ DriveClose(j)
                    \/ DriveFedEach(j) \/ DriveFedClose(j)
              /\ \A k \in Rule : k # j => eng'[k] = eng[k]
    BY <1>3, DriveOne
  <2>2. /\ j \in left /\ left' = left \ {j} /\ cur \in Entry /\ cur.ev \in Event
        /\ UNCHANGED << events, at, cur >>
    BY <2>1, MeetTyped
  <2>3. CASE j # i
    <3>1. Last(i)' = Last(i)
      BY <2>2, <2>3 DEF Last
    <3>2. eng'[i] = eng[i]
      BY <2>1, <2>3
    <3>. QED BY <2>2, <3>1, <3>2, CloseKept
  <2>4. CASE j = i /\ cur.from = 0
    <3>1. Last(i)' = at /\ at # 0 /\ cur.ev = events[at] /\ events' = events
      BY <2>2, <2>4 DEF Last, CurInv
    <3>2. cur.ev.ts \in Nat
      BY <2>2 DEF Event
    <3>3. /\ Ahead(i, cur.ev).bucket = cur.ev.ts \div Dur
          /\ \A x \in Ahead(i, cur.ev).inst :
                x.end > cur.ev.ts /\ \E q \in Nat : x.end = q * Dur
      BY <2>2, CloseAhead
    <3>4. /\ eng'[i].bucket = cur.ev.ts \div Dur
          /\ \A x \in eng'[i].inst :
                x.end > cur.ev.ts /\ \E q \in Nat : x.end = q * Dur
      <4>1. CASE PassBy(i)
        <5>1. eng'[i] = Ahead(i, cur.ev)
          BY <2>4, <4>1, PassByTyped
        <5>. QED BY <3>3, <5>1
      <4>2. CASE DriveClose(i)
        <5>. DEFINE y == [key |-> cur.ev.key, end |-> BucketEnd(cur.ev.ts)]
        <5>1. eng'[i] = Instance(Ahead(i, cur.ev), cur.ev)
          BY <4>2, DriveCloseTyped
        <5>2. Ahead(i, cur.ev) \in Engine
          BY <2>2, AheadTyped
        <5>3. /\ eng'[i].bucket = Ahead(i, cur.ev).bucket
              /\ eng'[i].inst = Ahead(i, cur.ev).inst \cup {y}
          BY <2>2, <5>1, <5>2, InstanceTyped
        <5>4. /\ BucketEnd(cur.ev.ts) > cur.ev.ts
              /\ BucketEnd(cur.ev.ts) = (cur.ev.ts \div Dur + 1) * Dur
              /\ cur.ev.ts \div Dur + 1 \in Nat
          BY <3>2, Bucket
        <5>5. \E q \in Nat : BucketEnd(cur.ev.ts) = q * Dur
          BY <5>4
        <5>6. y.end > cur.ev.ts /\ \E q \in Nat : y.end = q * Dur
          BY <5>4, <5>5
        <5>. HIDE DEF y
        <5>. QED BY <3>3, <5>3, <5>6
      <4>3. PassBy(i) \/ DriveClose(i)
        BY <2>1, <2>4, DriveEachTyped, DriveDeferredTyped, DriveFedEachTyped, DriveFedCloseTyped
      <4>. QED BY <4>1, <4>2, <4>3
    <3>. QED BY <3>1, <3>4 DEF CloseInv
  <2>5. CASE j = i /\ cur.from # 0
    <3>1. /\ Last(i)' = at /\ Last(i) = at /\ at # 0 /\ events' = events
      BY <2>2, <2>5 DEF Last, CurInv
    <3>2. CASE PassBy(i)
      <4>1. eng' = eng
        BY <2>5, <3>2, PassByTyped
      <4>. QED BY <3>1, <4>1, CloseKept
    <3>3. CASE DriveFedClose(i)
      <4>. DEFINE y == [key |-> cur.ev.key, end |-> BucketEnd(cur.ev.ts)]
      <4>1. eng'[i] = Instance(eng[i], cur.ev) /\ Binds(i, cur.ev.win)
        BY <3>3, DriveFedCloseTyped, DrivenTyped
      <4>2. eng'[i].bucket = eng[i].bucket /\ eng'[i].inst = eng[i].inst \cup {y}
        BY <1>0, <2>2, <4>1, InstanceTyped
      <4>3. cur.ev.ts = events[at].ts
        <5>1. PICK late \in SUBSET IntermediateWindows :
                ClosedUnder(late) /\ \A win \in late : ~ Binds(i, win)
          BY DEF Timely, ClosedUnder
        <5>2. LateInv(late)
          BY <5>1
        <5>3. cur.ev.win \notin late
          BY <4>1, <5>1
        <5>. QED BY <2>2, <5>2, <5>3 DEF LateInv
      <4>4. cur.ev.ts \in Nat
        BY <2>2 DEF Event
      <4>5. /\ BucketEnd(cur.ev.ts) > cur.ev.ts
            /\ BucketEnd(cur.ev.ts) = (cur.ev.ts \div Dur + 1) * Dur
            /\ cur.ev.ts \div Dur + 1 \in Nat
        BY <4>4, Bucket
      <4>6. y.end > events[at].ts /\ \E q \in Nat : y.end = q * Dur
        BY <4>3, <4>5
      <4>7. /\ eng[i].bucket = events[at].ts \div Dur
            /\ \A x \in eng[i].inst : x.end > events[at].ts /\ \E q \in Nat : x.end = q * Dur
        BY <3>1 DEF CloseInv
      <4>. HIDE DEF y
      <4>8. /\ eng'[i].bucket = events[at].ts \div Dur
            /\ \A x \in eng'[i].inst : x.end > events[at].ts /\ \E q \in Nat : x.end = q * Dur
        BY <4>2, <4>6, <4>7
      <4>. QED BY <3>1, <4>8 DEF CloseInv
    <3>4. PassBy(i) \/ DriveFedClose(i)
      BY <2>1, <2>5, DriveEachTyped, DriveDeferredTyped, DriveFedEachTyped, DriveCloseTyped
    <3>. QED BY <3>2, <3>3, <3>4
  <2>. QED BY <2>3, <2>4, <2>5
<1>4. CASE EvaluateDue
  <2>1. UNCHANGED << events, at, cur, left, eng >>
    BY <1>4, EvaluateDueTyped
  <2>2. Last(i)' = Last(i)
    BY <2>1 DEF Last
  <2>. QED BY <2>1, <2>2, CloseKept
<1>5. CASE UNCHANGED vars
  <2>1. UNCHANGED << events, at, cur, left, eng >>
    BY <1>5 DEF vars
  <2>2. Last(i)' = Last(i)
    BY <2>1 DEF Last
  <2>. QED BY <2>1, <2>2, CloseKept
<1>6. ~ Preload /\ ~ MainPass /\ ~ EndOfStream /\ ~ Finish /\ ~ \E j \in left : Settle(j)
  BY DEF Preload, MainPass, EndOfStream, Finish, Settle
<1>. QED BY <1>1, <1>2, <1>3, <1>4, <1>5, <1>6 DEF Next

(* Both parts together, over the step into the main pass and out of it. *)
LEMMA StepScan == TypeOK /\ CurInv /\ ScanInv /\ [Next]_vars => ScanInv'
<1>. SUFFICES ASSUME TypeOK, CurInv, ScanInv, [Next]_vars, pass' = "main"
              PROVE  TimelyInv'
  BY DEF ScanInv
<1>1. CASE pass = "main"
  <2>1. TimelyInv
    BY <1>1 DEF ScanInv
  <2>2. ASSUME NEW late \in SUBSET IntermediateWindows, ClosedUnder(late)
        PROVE  LateInv(late)'
    BY <1>1, <2>1, <2>2, StepLate DEF TimelyInv
  <2>3. ASSUME NEW i \in Rule, Rules[i].kind = "close", Timely(i)
        PROVE  CloseInv(i)'
    BY <1>1, <2>1, <2>3, StepClose DEF TimelyInv
  <2>. QED BY <2>2, <2>3 DEF TimelyInv
<1>2. CASE pass # "main"
  <2>1. MainPass
    BY <1>2 DEF Next, vars, Preload, NextEvent, FeedBack, DriveRule, PassBy, DriveEach,
       DriveDeferred, DriveClose, DriveFedEach, DriveFedClose, Drive, Meet, EvaluateDue,
       EndOfStream, Settle, Finish
  <2>2. /\ at' = 0 /\ left' = {} /\ feed' = << >> /\ NothingMet
        /\ eng' = eng
    BY <2>1 DEF MainPass, TypeOK, NothingMet
  <2>3. DOMAIN << >> = {}
    OBVIOUS
  <2>4. ASSUME NEW i \in Rule
        PROVE  CloseInv(i)'
    <3>1. eng[i] = [NewEngine EXCEPT !.win = eng[i].win]
      BY <2>2 DEF NothingMet
    <3>2. eng[i].inst = {}
      BY <3>1 DEF NewEngine
    <3>. QED BY <2>2, <3>2 DEF CloseInv, Last
  <2>5. \A late : LateInv(late)'
    BY <2>2, <2>3 DEF LateInv
  <2>. QED BY <2>4, <2>5 DEF TimelyInv
<1>. QED BY <1>1, <1>2

(* What a rule has met last is the event that the property names. *)
LEMMA ScanSuffices == TypeOK /\ CurInv /\ ScanInv => InstancesClosed
<1>. SUFFICES ASSUME TypeOK, CurInv, ScanInv, NEW i \in Rule,
                     Rules[i].kind = "close", Timely(i), pass = "main", at \in Met(i),
                     NEW x \in eng[i].inst
              PROVE  x.end > events[at].ts
  BY DEF InstancesClosed
<1>1. at \in Nat
  BY MetTypes
<1>2. Last(i) = at /\ at # 0
  BY <1>1 DEF Met, Last
<1>. QED BY <1>2 DEF ScanInv, TimelyInv, CloseInv

AllStatsInv == \A i \in Stats : StatsInv(i)

(* All statistics rules at once. *)
LEMMA StepAllStats == TypeOK /\ AllStatsInv /\ [Next]_vars => AllStatsInv'
<1>. SUFFICES ASSUME TypeOK, AllStatsInv, [Next]_vars, NEW i \in Stats
              PROVE  StatsInv(i)'
  BY DEF AllStatsInv, Stats
<1>. QED BY StepStats DEF AllStatsInv

(* Windows close when they must: no instance that has ended outlives the   *)
(* event that passed its end, though the scan is skipped inside a bucket,  *)
(* and every row of a statistics rule is counted in exactly one window, in *)
(* order, for any rules, any lengths and any order of the times            *)
(* (mod.rs:289-306, 661-735).                                              *)
THEOREM ClosesInTime == Spec => []ClosedInTime
<1>. DEFINE Inv == TypeOK /\ CurInv /\ ScanInv /\ AllStatsInv
<1>1. Init => Inv
  <2>1. Init => TypeOK /\ CurInv /\ AllStatsInv
    BY InitTyped, InitJoins, InitStats DEF AllStatsInv
  <2>2. Init => ScanInv
    BY DEF Init, ScanInv
  <2>. QED BY <2>1, <2>2
<1>2. Inv /\ [Next]_vars => Inv'
  BY StepTyped, StepCurrent, StepScan, StepAllStats
<1>3. Inv => ClosedInTime
  BY ScanSuffices, StatsSuffice DEF ClosedInTime, AllStatsInv
<1>. QED BY <1>1, <1>2, <1>3, PTL DEF Spec

-----------------------------------------------------------------------------
(* Intermediate outputs. *)

(* Alerts are added, and an output that some rule binds is queued.         *)
Grown ==
    /\ Len(alerts) \in Nat /\ DOMAIN alerts = 1 .. Len(alerts)
    /\ Len(feed) \in Nat /\ DOMAIN feed = 1 .. Len(feed)
    /\ \A a \in DOMAIN alerts :
        /\ a \in DOMAIN alerts'
        /\ \A n \in {"rule", "ts", "key", "id", "origin"} : alerts'[a][n] = alerts[a][n]
    /\ \A n \in DOMAIN feed : n \in DOMAIN feed' /\ feed'[n] = feed[n]
    /\ \A n \in DOMAIN feed' :
        \/ n \in DOMAIN feed
        \/ n = Len(feed) + 1 /\ feed'[n].from = Len(alerts) + 1 /\ Made(feed'[n], alerts')
    /\ \A a \in DOMAIN alerts' :
        \/ a \in DOMAIN alerts
        \/ alerts'[a].origin # "event"
        \/ \A i \in Rule : ~ Binds(i, Rules[alerts'[a].rule].target)
        \/ \E n \in DOMAIN feed' : feed'[n].from = a

(* Queue and alerts are sequences. *)
LEMMA TypesOfLists ==
    ASSUME TypeOK
    PROVE  /\ Len(alerts) \in Nat /\ DOMAIN alerts = 1 .. Len(alerts)
           /\ Len(feed) \in Nat /\ DOMAIN feed = 1 .. Len(feed)
BY LenProperties DEF TypeOK

(* Recording an output is such a growth, *)
LEMMA GrownByRecord ==
    ASSUME TypeOK, NEW o \in Alert, o.origin = "event", RecordOutput(o)
    PROVE  Grown
<1>. DEFINE k == Len(alerts)
            x == [o EXCEPT !.intermediate = Intermediate(o)]
<1>1. /\ k \in Nat /\ DOMAIN alerts = 1 .. k
      /\ Len(feed) \in Nat /\ DOMAIN feed = 1 .. Len(feed)
  BY TypesOfLists
<1>2. /\ alerts' \in Seq(Alert) /\ Len(alerts') = k + 1
      /\ \A n \in 1 .. k : alerts'[n] = alerts[n]
      /\ alerts'[k + 1] = x
  BY RecordTyped DEF TypeOK
<1>3. DOMAIN alerts' = 1 .. k + 1
  BY <1>2, LenProperties
<1>4. /\ DOMAIN feed' = 1 .. IF Intermediate(o) THEN Len(feed) + 1 ELSE Len(feed)
      /\ \A n \in 1 .. Len(feed) : feed'[n] = feed[n]
      /\ Intermediate(o) => feed'[Len(feed) + 1] = [ev |-> AsEvent(o), from |-> k + 1]
  BY RecordQueues
<1>5. /\ \A n \in {"rule", "ts", "key", "id", "origin"} : x[n] = o[n]
      /\ AsEvent(x) = AsEvent(o) /\ x.origin = "event" /\ x.rule = o.rule /\ o.rule \in Rule
  BY DEF Alert, AsEvent
<1>. HIDE DEF k, x
<1>6. ASSUME NEW n \in DOMAIN feed', n \notin DOMAIN feed
      PROVE  n = Len(feed) + 1 /\ feed'[n].from = k + 1 /\ Made(feed'[n], alerts')
  <2>1. Intermediate(o) /\ n = Len(feed) + 1
    BY <1>1, <1>4, <1>6
  <2>2. feed'[n].from = k + 1 /\ feed'[n].ev = AsEvent(o)
    BY <1>4, <2>1
  <2>3. k + 1 \in DOMAIN alerts'
    BY <1>1, <1>3
  <2>. QED BY <1>2, <1>5, <2>1, <2>2, <2>3 DEF Made
<1>7. ASSUME NEW a \in DOMAIN alerts', a \notin DOMAIN alerts
      PROVE  \/ \A i \in Rule : ~ Binds(i, Rules[alerts'[a].rule].target)
             \/ \E n \in DOMAIN feed' : feed'[n].from = a
  <2>1. a = k + 1 /\ alerts'[a].rule = o.rule
    BY <1>1, <1>2, <1>3, <1>5, <1>7
  <2>2. CASE Intermediate(o)
    <3>1. Len(feed) + 1 \in DOMAIN feed' /\ feed'[Len(feed) + 1].from = k + 1
      BY <1>1, <1>4, <2>2
    <3>. QED BY <2>1, <3>1
  <2>3. CASE ~ Intermediate(o)
    <3>1. ASSUME NEW i \in Rule, Binds(i, Rules[o.rule].target)
          PROVE  FALSE
      <4>1. Rules[o.rule].target \in IntermediateWindows
        BY <1>5, <3>1 DEF IntermediateWindows, Binds
      <4>. QED BY <2>3, <4>1 DEF Intermediate
    <3>. QED BY <2>1, <3>1
  <2>. QED BY <2>2, <2>3
<1>8. \A a \in DOMAIN alerts : a \in DOMAIN alerts' /\ alerts'[a] = alerts[a]
  BY <1>1, <1>2, <1>3
<1>9. \A n \in DOMAIN feed : n \in DOMAIN feed' /\ feed'[n] = feed[n]
  BY <1>1, <1>4
<1>. QED BY <1>1, <1>6, <1>7, <1>8, <1>9 DEF Grown, k

(* so is raising outputs of closes, *)
LEMMA GrownByPush ==
    ASSUME TypeOK, NEW outs \in Seq(Alert), PushAlerts(outs),
           \A n \in DOMAIN outs : outs[n].origin # "event"
    PROVE  Grown
<1>. DEFINE k == Len(alerts)
            r == Len(outs)
<1>1. /\ k \in Nat /\ DOMAIN alerts = 1 .. k
      /\ Len(feed) \in Nat /\ DOMAIN feed = 1 .. Len(feed)
  BY TypesOfLists
<1>2. /\ alerts' \in Seq(Alert) /\ feed' = feed /\ Len(alerts') = k + r /\ r \in Nat
      /\ \A n \in 1 .. k : alerts'[n] = alerts[n]
      /\ \A n \in 1 .. r : alerts'[k + n] = outs[n]
  BY PushTyped
<1>3. DOMAIN alerts' = 1 .. k + r /\ DOMAIN outs = 1 .. r
  BY <1>2, LenProperties
<1>. HIDE DEF k, r
<1>4. ASSUME NEW a \in DOMAIN alerts', a \notin DOMAIN alerts
      PROVE  alerts'[a].origin # "event"
  <2>1. a - k \in 1 .. r /\ a = k + (a - k)
    BY <1>1, <1>2, <1>3, <1>4
  <2>2. alerts'[a] = outs[a - k]
    BY <1>2, <2>1
  <2>. QED BY <1>3, <2>1, <2>2
<1>5. \A a \in DOMAIN alerts : a \in DOMAIN alerts' /\ alerts'[a] = alerts[a]
  BY <1>1, <1>2, <1>3
<1>. QED BY <1>1, <1>2, <1>4, <1>5 DEF Grown, k

(* and so is nothing at all. *)
LEMMA GrownByNone ==
    ASSUME TypeOK, alerts' = alerts, feed' = feed
    PROVE  Grown
BY TypesOfLists DEF Grown

(* The event made of an alert is made of it when more are raised. *)
LEMMA MadeStays ==
    ASSUME Grown, NEW x, Made(x, alerts)
    PROVE  Made(x, alerts') /\ x.from \in 1 .. Len(alerts)
           /\ x.ev.win = Rules[alerts[x.from].rule].target
<1>1. /\ x.from \in DOMAIN alerts /\ x.from \in DOMAIN alerts'
      /\ x.ev = AsEvent(alerts[x.from]) /\ alerts[x.from].origin = "event"
      /\ \A n \in {"rule", "ts", "key", "id", "origin"} : alerts'[x.from][n] = alerts[x.from][n]
  BY DEF Made, Grown
<1>2. AsEvent(alerts'[x.from]) = AsEvent(alerts[x.from])
  BY <1>1 DEF AsEvent
<1>3. x.ev.win = Rules[alerts[x.from].rule].target
  BY <1>1 DEF AsEvent
<1>. QED BY <1>1, <1>2, <1>3 DEF Made, Grown

(* The queue stays in the order of the alerts when it grows. *)
LEMMA QueueGrown ==
    ASSUME Grown, QueueInv, left' \subseteq left, cur' = cur
    PROVE  QueueInv'
<1>1. ASSUME NEW n \in DOMAIN feed
      PROVE  feed[n].from \in 1 .. Len(alerts) /\ Made(feed[n], alerts')
  <2>1. Made(feed[n], alerts)
    BY DEF QueueInv
  <2>. QED BY <2>1, MadeStays
<1>2. /\ Len(alerts) \in Nat /\ Len(feed) \in Nat /\ DOMAIN feed = 1 .. Len(feed)
      /\ \A n \in DOMAIN feed : n \in DOMAIN feed' /\ feed'[n] = feed[n]
      /\ \A n \in DOMAIN feed' :
            \/ n \in DOMAIN feed
            \/ n = Len(feed) + 1 /\ feed'[n].from = Len(alerts) + 1 /\ Made(feed'[n], alerts')
  BY DEF Grown
<1>3. ASSUME NEW n \in DOMAIN feed'
      PROVE  Made(feed'[n], alerts')
  BY <1>1, <1>2
<1>4. ASSUME NEW m \in DOMAIN feed', NEW n \in DOMAIN feed', m < n
      PROVE  feed'[m].from < feed'[n].from
  <2>1. CASE n \in DOMAIN feed
    <3>1. m \in DOMAIN feed
      BY <1>2, <1>4, <2>1
    <3>. QED BY <1>2, <1>4, <2>1, <3>1 DEF QueueInv
  <2>2. CASE n = Len(feed) + 1 /\ feed'[n].from = Len(alerts) + 1
    <3>1. m \in DOMAIN feed
      BY <1>2, <1>4, <2>2
    <3>. QED BY <1>1, <1>2, <2>2, <3>1
  <2>. QED BY <1>2, <2>1, <2>2
<1>5. ASSUME left' # {}, cur'.from # 0
      PROVE  Made(cur', alerts') /\ \A n \in DOMAIN feed' : cur'.from < feed'[n].from
  <2>1. Made(cur, alerts) /\ \A n \in DOMAIN feed : cur.from < feed[n].from
    BY <1>5 DEF QueueInv
  <2>2. Made(cur, alerts') /\ cur.from \in 1 .. Len(alerts)
    BY <2>1, MadeStays
  <2>3. \A n \in DOMAIN feed' : cur.from < feed'[n].from
    BY <1>2, <2>1, <2>2
  <2>. QED BY <2>2, <2>3
<1>. QED BY <1>3, <1>4, <1>5 DEF QueueInv

(* A rule that is still to meet the event, or has met it.                  *)
LEMMA ReachKept ==
    ASSUME Grown, QueueInv, NEW i \in Rule, ReachInv(i), fed'[i] = fed[i], cur' = cur,
           i \in left' => i \in left,
           i \in left /\ i \notin left' => cur.from = 0 \/ ~ Binds(i, cur.ev.win)
    PROVE  ReachInv(i)'
<1>1. /\ Len(alerts) \in Nat
      /\ \A n \in DOMAIN feed : n \in DOMAIN feed' /\ feed'[n] = feed[n]
      /\ \A n \in DOMAIN feed' :
            n \in DOMAIN feed \/ feed'[n].from = Len(alerts) + 1
  BY DEF Grown
<1>2. Back(i)' = Back(i)
  BY DEF Back
<1>3. ASSUME NEW n \in Back(i)
      PROVE  /\ Made(fed[i][n], alerts') /\ Binds(i, fed[i][n].ev.win)
             /\ \A m \in DOMAIN feed' : fed[i][n].from < feed'[m].from
             /\ i \in left' /\ cur.from # 0 => fed[i][n].from < cur.from
  <2>1. /\ Made(fed[i][n], alerts) /\ Binds(i, fed[i][n].ev.win)
        /\ \A m \in DOMAIN feed : fed[i][n].from < feed[m].from
        /\ i \in left /\ cur.from # 0 => fed[i][n].from < cur.from
    BY DEF ReachInv
  <2>2. Made(fed[i][n], alerts') /\ fed[i][n].from \in 1 .. Len(alerts)
    BY <2>1, MadeStays
  <2>3. ASSUME NEW m \in DOMAIN feed'
        PROVE  fed[i][n].from < feed'[m].from
    BY <1>1, <2>1, <2>2
  <2>. QED BY <2>1, <2>2, <2>3
<1>4. ASSUME NEW a \in For(i)'
      PROVE  \/ \E n \in DOMAIN feed' : feed'[n].from = a
             \/ i \in left' /\ cur.from = a
             \/ \E n \in Back(i) : fed[i][n].from = a
  <2>1. /\ a \in DOMAIN alerts' /\ alerts'[a].origin = "event"
        /\ Binds(i, Rules[alerts'[a].rule].target)
    BY DEF For
  <2>2. CASE a \in DOMAIN alerts
    <3>1. alerts[a].rule = alerts'[a].rule /\ alerts[a].origin = alerts'[a].origin
      BY <2>2 DEF Grown
    <3>2. a \in For(i)
      BY <2>1, <2>2, <3>1 DEF For
    <3>3. \/ \E n \in DOMAIN feed : feed[n].from = a
          \/ i \in left /\ cur.from = a
          \/ \E n \in Back(i) : fed[i][n].from = a
      BY <3>2 DEF ReachInv
    <3>4. ASSUME i \in left, i \notin left', cur.from = a
          PROVE  FALSE
      <4>1. a \in 1 .. Len(alerts)
        BY <2>2 DEF Grown
      <4>2. Made(cur, alerts)
        BY <3>4, <4>1 DEF QueueInv
      <4>3. cur.ev.win = Rules[alerts[a].rule].target
        BY <3>4, <4>2, MadeStays
      <4>. QED BY <2>1, <3>1, <3>4, <4>1, <4>3
    <3>. QED BY <1>1, <3>3, <3>4
  <2>3. CASE a \notin DOMAIN alerts
    BY <2>1, <2>3 DEF Grown
  <2>. QED BY <2>2, <2>3
<1>5. \A m, n \in Back(i) : m < n => fed[i][m].from < fed[i][n].from
  BY DEF ReachInv
<1>. QED BY <1>2, <1>3, <1>4, <1>5 DEF ReachInv

(* A rule that has been driven with an intermediate event.                 *)
LEMMA ReachDriven ==
    ASSUME TypeOK, Grown, QueueInv, NEW i \in Rule, ReachInv(i), cur \in Entry, cur' = cur,
           i \in left, i \notin left', Binds(i, cur.ev.win),
           fed'[i] = Append(fed[i], cur)
    PROVE  ReachInv(i)'
<1>. DEFINE F == fed[i]
            G == fed'[i]
            k == Len(F)
<1>0. /\ k \in Nat /\ DOMAIN F = 1 .. k /\ DOMAIN G = 1 .. k + 1
      /\ \A m \in 1 .. k : G[m] = F[m]
      /\ G[k + 1] = cur
  <2>1. F \in Seq(Entry)
    BY DEF TypeOK
  <2>2. /\ G \in Seq(Entry) /\ Len(G) = k + 1 /\ G[k + 1] = cur
        /\ \A m \in 1 .. k : G[m] = F[m]
    BY <2>1, AppendProperties
  <2>. QED BY <2>1, <2>2, LenProperties
<1>1. /\ Len(alerts) \in Nat
      /\ \A n \in DOMAIN feed : n \in DOMAIN feed' /\ feed'[n] = feed[n]
      /\ \A n \in DOMAIN feed' :
            n \in DOMAIN feed \/ feed'[n].from = Len(alerts) + 1
  BY DEF Grown
<1>2. Back(i) = {n \in 1 .. k : F[n].from # 0}
      /\ Back(i)' = {n \in 1 .. k + 1 : G[n].from # 0}
  BY <1>0 DEF Back
<1>. HIDE DEF F, G, k
<1>3. /\ \A n \in Back(i) : n \in Back(i)' /\ G[n] = F[n] /\ n < k + 1
      /\ \A n \in Back(i)' : n \in Back(i) \/ n = k + 1
      /\ k + 1 \in Back(i)' <=> cur.from # 0
  BY <1>0, <1>2
<1>4. ASSUME NEW n \in Back(i)
      PROVE  /\ Made(F[n], alerts') /\ Binds(i, F[n].ev.win)
             /\ \A m \in DOMAIN feed' : F[n].from < feed'[m].from
             /\ cur.from # 0 => F[n].from < cur.from
  <2>1. /\ Made(F[n], alerts) /\ Binds(i, F[n].ev.win)
        /\ \A m \in DOMAIN feed : F[n].from < feed[m].from
        /\ i \in left /\ cur.from # 0 => F[n].from < cur.from
    BY DEF ReachInv, F
  <2>2. Made(F[n], alerts') /\ F[n].from \in 1 .. Len(alerts)
    BY <2>1, MadeStays
  <2>3. ASSUME NEW m \in DOMAIN feed'
        PROVE  F[n].from < feed'[m].from
    BY <1>1, <2>1, <2>2
  <2>. QED BY <2>1, <2>2, <2>3
<1>5. ASSUME cur.from # 0
      PROVE  Made(cur, alerts') /\ \A m \in DOMAIN feed' : cur.from < feed'[m].from
  <2>1. Made(cur, alerts) /\ \A n \in DOMAIN feed : cur.from < feed[n].from
    BY <1>5 DEF QueueInv
  <2>2. Made(cur, alerts') /\ cur.from \in 1 .. Len(alerts)
    BY <2>1, MadeStays
  <2>. QED BY <1>1, <2>1, <2>2
<1>6. ASSUME NEW n \in Back(i)'
      PROVE  /\ Made(G[n], alerts') /\ Binds(i, G[n].ev.win)
             /\ \A m \in DOMAIN feed' : G[n].from < feed'[m].from
  <2>1. CASE n \in Back(i)
    BY <1>3, <1>4, <2>1
  <2>2. CASE n = k + 1
    BY <1>0, <1>3, <1>5, <2>2
  <2>. QED BY <1>3, <2>1, <2>2
<1>7. ASSUME NEW m \in Back(i)', NEW n \in Back(i)', m < n
      PROVE  G[m].from < G[n].from
  <2>1. m \in Back(i)
    BY <1>0, <1>2, <1>3, <1>7
  <2>2. CASE n \in Back(i)
    <3>1. F[m].from < F[n].from
      BY <1>7, <2>1, <2>2 DEF ReachInv, F
    <3>. QED BY <1>3, <2>1, <2>2, <3>1
  <2>3. CASE n = k + 1
    BY <1>0, <1>3, <1>4, <2>1, <2>3
  <2>. QED BY <1>3, <2>2, <2>3
<1>8. ASSUME NEW a \in For(i)'
      PROVE  \/ \E n \in DOMAIN feed' : feed'[n].from = a
             \/ \E n \in Back(i)' : G[n].from = a
  <2>1. /\ a \in DOMAIN alerts' /\ alerts'[a].origin = "event"
        /\ Binds(i, Rules[alerts'[a].rule].target)
    BY DEF For
  <2>2. CASE a \in DOMAIN alerts
    <3>1. alerts[a].rule = alerts'[a].rule /\ alerts[a].origin = alerts'[a].origin
          /\ a \in 1 .. Len(alerts)
      BY <2>2 DEF Grown
    <3>2. a \in For(i)
      BY <2>1, <2>2, <3>1 DEF For
    <3>3. \/ \E n \in DOMAIN feed : feed[n].from = a
          \/ i \in left /\ cur.from = a
          \/ \E n \in Back(i) : F[n].from = a
      BY <3>2 DEF ReachInv, F
    <3>4. cur.from = a => k + 1 \in Back(i)' /\ G[k + 1].from = a
      BY <1>0, <1>3, <3>1
    <3>5. (\E n \in Back(i) : F[n].from = a) => \E n \in Back(i)' : G[n].from = a
      BY <1>3
    <3>6. (\E n \in DOMAIN feed : feed[n].from = a) => \E n \in DOMAIN feed' : feed'[n].from = a
      BY <1>1
    <3>. QED BY <3>3, <3>4, <3>5, <3>6
  <2>3. CASE a \notin DOMAIN alerts
    BY <2>1, <2>3 DEF Grown
  <2>. QED BY <2>2, <2>3
<1>. QED BY <1>6, <1>7, <1>8 DEF ReachInv, G

(* What a rule has been given when the rules are to meet an entry.         *)
LEMMA TakenBack ==
    ASSUME TypeOK, NEW entry \in Entry, Take(entry), NEW i \in Rule
    PROVE  LET counted == i \in Stats /\ Binds(i, entry.ev.win)
               last == Len(fed[i]) + 1
           IN  /\ \A n \in Back(i) : n \in Back(i)' /\ fed'[i][n] = fed[i][n] /\ n < last
               /\ \A n \in Back(i)' :
                    n \in Back(i) \/ (n = last /\ counted /\ entry.from # 0 /\ fed'[i][n] = entry)
               /\ counted /\ entry.from # 0 => last \in Back(i)' /\ fed'[i][last] = entry
<1>. DEFINE F == fed[i]
            G == fed'[i]
            k == Len(F)
            counted == i \in Stats /\ Binds(i, entry.ev.win)
<1>1. F \in Seq(Entry) /\ k \in Nat /\ DOMAIN F = 1 .. k
  BY LenProperties DEF TypeOK
<1>2. G = IF counted THEN Append(F, entry) ELSE F
  BY TakeTyped
<1>3. Back(i) = {n \in 1 .. k : F[n].from # 0}
      /\ Back(i)' = {n \in DOMAIN G : G[n].from # 0}
  BY <1>1 DEF Back
<1>4. CASE ~ counted
  BY <1>1, <1>2, <1>3, <1>4
<1>5. CASE counted
  <2>1. /\ G \in Seq(Entry) /\ Len(G) = k + 1 /\ G[k + 1] = entry
        /\ \A n \in 1 .. k : G[n] = F[n]
    BY <1>1, <1>2, <1>5, AppendProperties
  <2>2. DOMAIN G = 1 .. k + 1
    BY <2>1, LenProperties
  <2>. HIDE DEF F, G, k
  <2>. QED BY <1>1, <1>3, <1>5, <2>1, <2>2 DEF F, G, k
<1>. QED BY <1>4, <1>5

(* A rule that is still to meet the entry taken, or is of statistics and has *)
(* met it.                                                                   *)
LEMMA ReachTaken ==
    ASSUME TypeOK, NEW entry \in Entry, Take(entry), left = {}, alerts' = alerts,
           QueueInv, NEW i \in Rule, ReachInv(i),
           entry.from # 0 => Made(entry, alerts),
           \A m \in DOMAIN feed' : entry.from < feed'[m].from,
           \A m \in DOMAIN feed' : \E n \in DOMAIN feed : feed'[m] = feed[n],
           \A n \in DOMAIN feed : (feed[n] = entry /\ entry.from # 0)
                                    \/ \E m \in DOMAIN feed' : feed'[m] = feed[n],
           entry.from # 0 => \E n \in DOMAIN feed : feed[n] = entry
    PROVE  ReachInv(i)'
<1>. DEFINE counted == i \in Stats /\ Binds(i, entry.ev.win)
            last == Len(fed[i]) + 1
<1>1. cur' = entry /\ left' = Engines
  BY DEF Take
<1>2. /\ \A n \in Back(i) : n \in Back(i)' /\ fed'[i][n] = fed[i][n] /\ n < last
      /\ \A n \in Back(i)' :
            n \in Back(i) \/ (n = last /\ counted /\ entry.from # 0 /\ fed'[i][n] = entry)
      /\ counted /\ entry.from # 0 => last \in Back(i)' /\ fed'[i][last] = entry
  BY TakenBack
<1>3. last \in Nat /\ \A n \in Back(i) : n \in Nat
  <2>1. fed[i] \in Seq(Entry)
    BY DEF TypeOK
  <2>. QED BY <2>1, LenProperties DEF Back
<1>. HIDE DEF last
<1>4. ASSUME NEW n \in Back(i)
      PROVE  /\ Made(fed[i][n], alerts) /\ Binds(i, fed[i][n].ev.win)
             /\ \A m \in DOMAIN feed' : fed[i][n].from < feed'[m].from
             /\ entry.from # 0 => fed[i][n].from < entry.from
  BY DEF ReachInv
<1>5. ASSUME NEW n \in Back(i)'
      PROVE  /\ Made(fed'[i][n], alerts) /\ Binds(i, fed'[i][n].ev.win)
             /\ \A m \in DOMAIN feed' : fed'[i][n].from < feed'[m].from
             /\ i \in Engines /\ entry.from # 0 => fed'[i][n].from < entry.from
  <2>1. CASE n \in Back(i)
    BY <1>2, <1>4, <2>1
  <2>2. CASE counted /\ entry.from # 0 /\ fed'[i][n] = entry
    <3>1. i \notin Engines
      BY <2>2 DEF Engines
    <3>. QED BY <2>2, <3>1
  <2>. QED BY <1>2, <2>1, <2>2
<1>6. ASSUME NEW m \in Back(i)', NEW n \in Back(i)', m < n
      PROVE  fed'[i][m].from < fed'[i][n].from
  <2>1. m \in Back(i)
    BY <1>2, <1>3, <1>6
  <2>2. CASE n \in Back(i)
    <3>1. fed[i][m].from < fed[i][n].from
      BY <1>6, <2>1, <2>2 DEF ReachInv
    <3>. QED BY <1>2, <2>1, <2>2, <3>1
  <2>3. CASE entry.from # 0 /\ fed'[i][n] = entry
    BY <1>2, <1>4, <2>1, <2>3
  <2>. QED BY <1>2, <2>2, <2>3
<1>7. ASSUME NEW a \in For(i)'
      PROVE  \/ \E n \in DOMAIN feed' : feed'[n].from = a
             \/ i \in Engines /\ entry.from = a
             \/ \E n \in Back(i)' : fed'[i][n].from = a
  <2>1. /\ a \in For(i) /\ a \in DOMAIN alerts /\ Binds(i, Rules[alerts[a].rule].target)
    BY DEF For
  <2>2. \/ \E n \in DOMAIN feed : feed[n].from = a
        \/ \E n \in Back(i) : fed[i][n].from = a
    BY <2>1 DEF ReachInv
  <2>3. CASE \E n \in DOMAIN feed' : feed'[n].from = a
    BY <2>3
  <2>4. CASE entry.from # 0 /\ entry.from = a
    <3>1. CASE i \in Engines
      BY <2>4, <3>1
    <3>2. CASE i \notin Engines
      <4>1. i \in Stats
        BY <3>2 DEF Engines
      <4>2. entry.ev.win = Rules[alerts[a].rule].target
        BY <2>4 DEF Made, AsEvent
      <4>3. counted
        BY <2>1, <4>1, <4>2
      <4>. QED BY <1>2, <2>4, <4>3
    <3>. QED BY <3>1, <3>2
  <2>5. CASE \E n \in Back(i) : fed[i][n].from = a
    BY <1>2, <2>5
  <2>. QED BY <2>2, <2>3, <2>4, <2>5
<1>. QED BY <1>1, <1>5, <1>6, <1>7 DEF ReachInv

(* One case for each action. *)
LEMMA StepDeliver == TypeOK /\ DeliverInv /\ [Next]_vars => DeliverInv'
<1>. SUFFICES ASSUME TypeOK, DeliverInv, [Next]_vars, pass' = "main"
              PROVE  QueueInv' /\ \A i \in Rule : ReachInv(i)'
  BY DEF DeliverInv
<1>1. CASE MainPass
  <2>1. NothingMet /\ UNCHANGED << left, feed, alerts, fed >>
    BY <1>1 DEF MainPass, TypeOK
  <2>2. left' = {} /\ feed' = << >> /\ alerts' = << >> /\ \A i \in Rule : fed'[i] = << >>
    BY <2>1 DEF NothingMet
  <2>3. DOMAIN << >> = {}
    OBVIOUS
  <2>. QED BY <2>2, <2>3 DEF QueueInv, ReachInv, Back, For
<1>. SUFFICES ASSUME pass = "main", QueueInv, \A i \in Rule : ReachInv(i)
              PROVE  QueueInv' /\ \A i \in Rule : ReachInv(i)'
  BY <1>1 DEF DeliverInv, Next, vars, Preload, NextEvent, FeedBack, DriveRule, PassBy, DriveEach,
     DriveDeferred, DriveClose, DriveFedEach, DriveFedClose, Drive, Meet, EvaluateDue,
     EndOfStream, Settle, Finish
<1>2. CASE NextEvent
  <2>. DEFINE entry == OfStream(events[at + 1])
  <2>1. /\ entry \in Entry /\ Take(entry) /\ left = {} /\ alerts' = alerts
        /\ feed = << >> /\ feed' = << >>
    BY <1>2, NextEventTyped DEF NextEvent, Resting
  <2>2. entry.from = 0 /\ DOMAIN << >> = {} /\ cur'.from = 0
    BY <1>2, NextEventTyped DEF OfStream
  <2>. HIDE DEF entry
  <2>3. QueueInv'
    BY <2>1, <2>2 DEF QueueInv
  <2>4. ASSUME NEW i \in Rule
        PROVE  ReachInv(i)'
    <3>1. DOMAIN feed = {} /\ DOMAIN feed' = {}
      BY <2>1, <2>2
    <3>. QED BY <2>1, <2>2, <3>1, ReachTaken
  <2>. QED BY <2>3, <2>4
<1>3. CASE FeedBack
  <2>. DEFINE entry == Head(feed)
  <2>1. /\ entry \in Entry /\ Take(entry) /\ left = {} /\ alerts' = alerts /\ cur' = entry
        /\ entry = feed[1] /\ FedBack(entry)
        /\ Len(feed) \in Nat \ {0} /\ Len(feed') = Len(feed) - 1
        /\ \A n \in 1 .. Len(feed') : feed'[n] = feed[n + 1]
        /\ feed \in Seq(Entry) /\ feed' \in Seq(Entry)
    BY <1>3, FeedBackTyped DEF FeedBack, Resting, Take, TypeOK
  <2>. HIDE DEF entry
  <2>2. DOMAIN feed = 1 .. Len(feed) /\ DOMAIN feed' = 1 .. Len(feed')
    BY <2>1, LenProperties
  <2>3. entry.from # 0
    BY <2>1 DEF FedBack, Entry
  <2>4. 1 \in DOMAIN feed /\ Made(entry, alerts)
    <3>1. 1 \in DOMAIN feed
      BY <2>1, <2>2
    <3>. QED BY <2>1, <3>1 DEF QueueInv
  <2>5. \A m \in DOMAIN feed' : m + 1 \in DOMAIN feed /\ 1 < m + 1 /\ feed'[m] = feed[m + 1]
    BY <2>1, <2>2
  <2>6. \A m \in DOMAIN feed' : entry.from < feed'[m].from
    BY <2>1, <2>4, <2>5 DEF QueueInv
  <2>7. ASSUME NEW n \in DOMAIN feed
        PROVE  (feed[n] = entry /\ entry.from # 0) \/ \E m \in DOMAIN feed' : feed'[m] = feed[n]
    <3>1. CASE n = 1
      BY <2>1, <2>3, <3>1
    <3>2. CASE n # 1
      <4>1. n - 1 \in DOMAIN feed' /\ (n - 1) + 1 = n
        BY <2>1, <2>2, <3>2
      <4>. QED BY <2>5, <4>1
    <3>. QED BY <3>1, <3>2
  <2>8. QueueInv'
    <3>1. \A n \in DOMAIN feed' : Made(feed'[n], alerts')
      BY <2>1, <2>5 DEF QueueInv
    <3>2. ASSUME NEW m \in DOMAIN feed', NEW n \in DOMAIN feed', m < n
          PROVE  feed'[m].from < feed'[n].from
      <4>1. m + 1 \in DOMAIN feed /\ n + 1 \in DOMAIN feed /\ m + 1 < n + 1
        BY <2>2, <2>5, <3>2
      <4>. QED BY <2>5, <4>1 DEF QueueInv
    <3>3. Made(cur', alerts') /\ \A n \in DOMAIN feed' : cur'.from < feed'[n].from
      BY <2>1, <2>4, <2>6
    <3>. QED BY <3>1, <3>2, <3>3 DEF QueueInv
  <2>9. ASSUME NEW i \in Rule
        PROVE  ReachInv(i)'
    <3>1. \A m \in DOMAIN feed' : \E n \in DOMAIN feed : feed'[m] = feed[n]
      BY <2>5
    <3>2. \E n \in DOMAIN feed : feed[n] = entry
      BY <2>1, <2>4
    <3>. QED BY <2>1, <2>4, <2>6, <2>7, <3>1, <3>2, ReachTaken
  <2>. QED BY <2>8, <2>9
<1>4. CASE DriveRule
  <2>1. PICK i \in left :
              /\ Meet(i)
              /\ PassBy(i) \/ DriveEach(i) \/ DriveDeferred(i) \/ DriveClose(i)
                    \/ DriveFedEach(i) \/ DriveFedClose(i)
              /\ \A j \in Rule : j # i => fed'[j] = fed[j]
    BY <1>4, DriveOne
  <2>2. /\ i \in Rule /\ left' = left \ {i} /\ cur' = cur /\ cur \in Entry /\ cur.ev \in Event
    BY <2>1, MeetTyped
  <2>3. /\ Timeouts(i, cur.ev) \in Seq(Alert)
        /\ \A n \in DOMAIN Timeouts(i, cur.ev) : Timeouts(i, cur.ev)[n].origin # "event"
    BY <2>2, AheadKind
  <2>4. Grown
    <3>1. CASE PassBy(i)
      <4>1. CASE cur.from = 0
        BY <2>3, <3>1, <4>1, PassByTyped, GrownByPush
      <4>2. CASE cur.from # 0
        BY <3>1, <4>2, PassByTyped, GrownByNone
      <4>. QED BY <4>1, <4>2
    <3>2. CASE DriveEach(i)
      <4>. DEFINE o == EachOutput(i, Ahead(i, cur.ev).win, cur.ev)
      <4>1. o.origin = "event"
        BY DEF EachOutput, Output
      <4>2. o \in Alert /\ RecordOutput(o)
        BY <3>2, DriveEachTyped
      <4>. HIDE DEF o
      <4>. QED BY <4>1, <4>2, GrownByRecord
    <3>3. CASE DriveDeferred(i)
      BY <3>3, DriveDeferredTyped, GrownByNone
    <3>4. CASE DriveClose(i)
      BY <2>3, <3>4, DriveCloseTyped, GrownByPush
    <3>5. CASE DriveFedEach(i)
      <4>. DEFINE o == EachOutput(i, eng[i].win, cur.ev)
      <4>1. o.origin = "event"
        BY DEF EachOutput, Output
      <4>2. o \in Alert /\ RecordOutput(o)
        BY <3>5, DriveFedEachTyped
      <4>. HIDE DEF o
      <4>. QED BY <4>1, <4>2, GrownByRecord
    <3>6. CASE DriveFedClose(i)
      BY <3>6, DriveFedCloseTyped, GrownByNone
    <3>. QED BY <2>1, <3>1, <3>2, <3>3, <3>4, <3>5, <3>6
  <2>5. QueueInv'
    BY <2>2, <2>4, QueueGrown
  <2>6. PassBy(i) \/ Drive(i)
    BY <2>1, DriveEachTyped, DriveDeferredTyped, DriveCloseTyped,
       DriveFedEachTyped, DriveFedCloseTyped
  <2>7. ASSUME NEW j \in Rule
        PROVE  ReachInv(j)'
    <3>1. CASE j # i
      <4>1. fed'[j] = fed[j] /\ (j \in left' <=> j \in left)
        BY <2>1, <2>2, <3>1
      <4>. QED BY <2>2, <2>4, <4>1, ReachKept
    <3>2. CASE j = i /\ PassBy(i)
      <4>1. fed' = fed /\ ~ Binds(i, cur.ev.win)
        BY <3>2, PassByTyped
      <4>. QED BY <2>2, <2>4, <3>2, <4>1, ReachKept
    <3>3. CASE j = i /\ Drive(i)
      <4>1. fed'[i] = Append(fed[i], cur) /\ Binds(i, cur.ev.win)
        BY <2>2, <3>3, DrivenTyped
      <4>2. i \in left /\ i \notin left'
        BY <2>2
      <4>. QED BY <2>2, <2>4, <3>3, <4>1, <4>2, ReachDriven
    <3>. QED BY <2>6, <3>1, <3>2, <3>3
  <2>. QED BY <2>5, <2>7
<1>5. CASE EvaluateDue
  <2>1. PICK p \in due :
          /\ DueOutput(p) \in Alert
          /\ \/ alerts' = alerts /\ feed' = feed
             \/ pass = "main" /\ RecordOutput(DueOutput(p))
             \/ pass = "eos" /\ PushAlerts(<< DueOutput(p) >>)
    BY <1>5, EvaluateDueTyped
  <2>2. UNCHANGED << cur, left, fed >>
    BY <1>5, EvaluateDueTyped
  <2>3. DueOutput(p).origin = "event"
    BY DEF DueOutput, Output
  <2>4. Grown
    BY <2>1, <2>3, GrownByNone, GrownByRecord
  <2>. QED BY <2>2, <2>4, QueueGrown, ReachKept
<1>6. CASE UNCHANGED vars
  <2>1. UNCHANGED << cur, left, fed, feed, alerts >>
    BY <1>6 DEF vars
  <2>2. Grown
    BY <2>1, GrownByNone
  <2>. QED BY <2>1, <2>2, QueueGrown, ReachKept
<1>7. ~ Preload /\ ~ EndOfStream /\ ~ Finish /\ ~ \E j \in left : Settle(j)
  BY DEF Preload, EndOfStream, Finish, Settle
<1>. QED BY <1>1, <1>2, <1>3, <1>4, <1>5, <1>6, <1>7 DEF Next

(* When nothing is queued or on its way, all has been delivered. *)
LEMMA DeliverSuffices == TypeOK /\ DeliverInv => IntermediateDelivered
<1>. SUFFICES ASSUME TypeOK, DeliverInv, pass = "main", left = {}, feed = << >>, NEW i \in Rule
              PROVE  /\ {fed[i][n].from : n \in Back(i)} = For(i)
                     /\ \A n \in Back(i) : fed[i][n].ev = AsEvent(alerts[fed[i][n].from])
                     /\ \A m, n \in Back(i) : m < n => fed[i][m].from < fed[i][n].from
  BY Zenon DEF IntermediateDelivered, Resting, Back, For
<1>1. ReachInv(i)
  BY DEF DeliverInv
<1>2. DOMAIN << >> = {}
  OBVIOUS
<1>3. ASSUME NEW n \in Back(i)
      PROVE  fed[i][n].from \in For(i) /\ fed[i][n].ev = AsEvent(alerts[fed[i][n].from])
  <2>1. Made(fed[i][n], alerts) /\ Binds(i, fed[i][n].ev.win)
    BY <1>1 DEF ReachInv
  <2>2. fed[i][n].ev.win = Rules[alerts[fed[i][n].from].rule].target
    BY <2>1 DEF Made, AsEvent
  <2>. QED BY <2>1, <2>2 DEF Made, For
<1>4. \A a \in For(i) : \E n \in Back(i) : fed[i][n].from = a
  BY <1>1, <1>2 DEF ReachInv
<1>5. \A m, n \in Back(i) : m < n => fed[i][m].from < fed[i][n].from
  BY <1>1 DEF ReachInv
<1>. QED BY <1>3, <1>4, <1>5

(* Before the next event of the stream, every output into an intermediate  *)
(* window has driven each rule that binds the window, as often as it was   *)
(* put out and in that order, for any rules and chains of them, cyclic     *)
(* ones included (mod.rs:466-494).                                         *)
THEOREM IntermediatesReach == Spec => []IntermediateDelivered
<1>1. Init => TypeOK /\ DeliverInv
  <2>1. Init => DeliverInv
    BY DEF Init, DeliverInv
  <2>. QED BY <2>1, InitTyped
<1>2. (TypeOK /\ DeliverInv) /\ [Next]_vars => (TypeOK /\ DeliverInv)'
  BY StepTyped, StepDeliver
<1>3. TypeOK /\ DeliverInv => IntermediateDelivered
  BY DeliverSuffices
<1>. QED BY <1>1, <1>2, <1>3, PTL DEF Spec

-----------------------------------------------------------------------------
(* Deferred joins. *)

(* The alerts of rule i are the same. *)
SameAlerts(i) == /\ AlertsOf(i)' = AlertsOf(i)
                 /\ \A n \in AlertsOf(i) : alerts'[n] = alerts[n]

(* Outputs of other rules are raised. *)
LEMMA OthersPush ==
    ASSUME TypeOK, NEW i \in Rule, NEW outs \in Seq(Alert), PushAlerts(outs),
           \A n \in DOMAIN outs : outs[n].rule # i
    PROVE  SameAlerts(i)
<1>. DEFINE k == Len(alerts)
            r == Len(outs)
<1>1. k \in Nat /\ DOMAIN alerts = 1 .. k
  BY TypesOfLists
<1>2. /\ alerts' \in Seq(Alert) /\ Len(alerts') = k + r /\ r \in Nat
      /\ \A n \in 1 .. k : alerts'[n] = alerts[n]
      /\ \A n \in 1 .. r : alerts'[k + n] = outs[n]
  BY PushTyped
<1>3. DOMAIN alerts' = 1 .. k + r /\ DOMAIN outs = 1 .. r
  BY <1>2, LenProperties
<1>. HIDE DEF k, r
<1>4. ASSUME NEW a \in DOMAIN alerts', a \notin DOMAIN alerts
      PROVE  alerts'[a].rule # i
  <2>1. a - k \in 1 .. r /\ a = k + (a - k)
    BY <1>1, <1>2, <1>3, <1>4
  <2>2. alerts'[a] = outs[a - k]
    BY <1>2, <2>1
  <2>. QED BY <1>3, <2>1, <2>2
<1>5. \A a \in DOMAIN alerts : a \in DOMAIN alerts' /\ alerts'[a] = alerts[a]
  BY <1>1, <1>2, <1>3
<1>. QED BY <1>4, <1>5 DEF SameAlerts, AlertsOf

(* Recording an output of rule i adds one alert with its id and time.      *)
LEMMA OneRecorded ==
    ASSUME TypeOK, NEW i \in Rule, NEW o \in Alert, RecordOutput(o)
    PROVE  /\ \A n \in AlertsOf(i) : n \in AlertsOf(i)' /\ alerts'[n] = alerts[n]
           /\ \E last :
                /\ last \notin AlertsOf(i)
                /\ AlertsOf(i)' = IF o.rule = i THEN AlertsOf(i) \cup {last} ELSE AlertsOf(i)
                /\ alerts'[last].id = o.id /\ alerts'[last].ts = o.ts
<1>. DEFINE k == Len(alerts)
            x == [o EXCEPT !.intermediate = Intermediate(o)]
<1>1. k \in Nat /\ DOMAIN alerts = 1 .. k
  BY TypesOfLists
<1>2. /\ alerts' \in Seq(Alert) /\ Len(alerts') = k + 1
      /\ \A n \in 1 .. k : alerts'[n] = alerts[n]
      /\ alerts'[k + 1] = x
  BY RecordTyped DEF TypeOK
<1>3. DOMAIN alerts' = 1 .. k + 1
  BY <1>2, LenProperties
<1>4. x.rule = o.rule /\ x.id = o.id /\ x.ts = o.ts
  BY DEF Alert
<1>. HIDE DEF k, x
<1>5. \A n \in AlertsOf(i) : n \in 1 .. k /\ alerts[n].rule = i
  BY <1>1 DEF AlertsOf
<1>6. \A n \in AlertsOf(i) : n \in AlertsOf(i)' /\ alerts'[n] = alerts[n]
  BY <1>1, <1>2, <1>3, <1>5 DEF AlertsOf
<1>7. k + 1 \notin AlertsOf(i)
  BY <1>1, <1>5
<1>8. AlertsOf(i)' = IF o.rule = i THEN AlertsOf(i) \cup {k + 1} ELSE AlertsOf(i)
  <2>1. AlertsOf(i)' = {n \in 1 .. k + 1 : alerts'[n].rule = i}
    BY <1>3 DEF AlertsOf
  <2>2. AlertsOf(i) = {n \in 1 .. k : alerts[n].rule = i}
    BY <1>1 DEF AlertsOf
  <2>. QED BY <1>1, <1>2, <1>4, <2>1, <2>2
<1>. QED BY <1>2, <1>4, <1>6, <1>7, <1>8

(* The same of an output that is raised and not fed back. *)
LEMMA OnePushed ==
    ASSUME TypeOK, NEW i \in Rule, NEW o \in Alert, PushAlerts(<< o >>)
    PROVE  /\ \A n \in AlertsOf(i) : n \in AlertsOf(i)' /\ alerts'[n] = alerts[n]
           /\ \E last :
                /\ last \notin AlertsOf(i)
                /\ AlertsOf(i)' = IF o.rule = i THEN AlertsOf(i) \cup {last} ELSE AlertsOf(i)
                /\ alerts'[last].id = o.id /\ alerts'[last].ts = o.ts
<1>. DEFINE k == Len(alerts)
            outs == << o >>
<1>0. outs \in Seq(Alert) /\ Len(outs) = 1 /\ outs[1] = o
  OBVIOUS
<1>. HIDE DEF outs
<1>1. k \in Nat /\ DOMAIN alerts = 1 .. k
  BY TypesOfLists
<1>2. /\ alerts' \in Seq(Alert) /\ Len(alerts') = k + 1
      /\ \A n \in 1 .. k : alerts'[n] = alerts[n]
      /\ alerts'[k + 1] = o
  <2>1. PushAlerts(outs)
    BY DEF outs
  <2>2. /\ alerts' \in Seq(Alert) /\ Len(alerts') = k + Len(outs)
        /\ \A n \in 1 .. k : alerts'[n] = alerts[n]
        /\ \A n \in 1 .. Len(outs) : alerts'[k + n] = outs[n]
    BY <1>0, <2>1, PushTyped
  <2>. QED BY <1>0, <2>2
<1>3. DOMAIN alerts' = 1 .. k + 1
  BY <1>2, LenProperties
<1>. HIDE DEF k
<1>5. \A n \in AlertsOf(i) : n \in 1 .. k /\ alerts[n].rule = i
  BY <1>1 DEF AlertsOf
<1>6. \A n \in AlertsOf(i) : n \in AlertsOf(i)' /\ alerts'[n] = alerts[n]
  BY <1>1, <1>2, <1>3, <1>5 DEF AlertsOf
<1>7. k + 1 \notin AlertsOf(i)
  BY <1>1, <1>5
<1>8. AlertsOf(i)' = IF o.rule = i THEN AlertsOf(i) \cup {k + 1} ELSE AlertsOf(i)
  <2>1. AlertsOf(i)' = {n \in 1 .. k + 1 : alerts'[n].rule = i}
    BY <1>3 DEF AlertsOf
  <2>2. AlertsOf(i) = {n \in 1 .. k : alerts[n].rule = i}
    BY <1>1 DEF AlertsOf
  <2>. QED BY <1>1, <1>2, <2>1, <2>2
<1>. QED BY <1>2, <1>6, <1>7, <1>8

(* Nothing happens to a deferred rule but that it may have met more. *)
LEMMA DeferKept ==
    ASSUME NEW i \in Rule, DeferInv(i), SameAlerts(i), DueOf(i)' = DueOf(i),
           eng'[i].pending = eng[i].pending, eng'[i].watermark = eng[i].watermark,
           fed'[i] = fed[i], events' = events, Met(i) \subseteq Met(i)',
           Flushing => Flushing',
           Flushing' /\ i \notin left' => eng[i].pending = {}
    PROVE  DeferInv(i)'
<1>. DEFINE Seen(id) == \E m \in Met(i)' : events'[m].id = id
<1>1. \A id : IsMet(i, id) => Seen(id)
  BY DEF IsMet
<1>2. /\ AlertsOf(i)' = AlertsOf(i)
      /\ \A n \in AlertsOf(i) : alerts'[n] = alerts[n]
  BY DEF SameAlerts
<1>3. \A n \in AlertsOf(i) : Seen(alerts'[n].id) /\ (alerts'[n].ts <= eng'[i].watermark \/ Flushing')
  <2>. HIDE DEF Seen
  <2>. QED BY <1>1, <1>2 DEF DeferInv
<1>4. \A p \in eng[i].pending \cup DueOf(i) : Seen(p.id) /\ \A n \in AlertsOf(i) : alerts'[n].id # p.id
  <2>. HIDE DEF Seen
  <2>. QED BY <1>1, <1>2 DEF DeferInv
<1>5. \A p \in DueOf(i) : p.due <= eng'[i].watermark \/ Flushing'
  BY DEF DeferInv
<1>. QED BY <1>2, <1>3, <1>4, <1>5 DEF DeferInv, IsMet

(* A rule that has met nothing holds nothing back. *)
LEMMA DeferAtFirst ==
    ASSUME TypeOK, NothingMet, NEW i \in Rule
    PROVE  DeferInv(i)
<1>1. eng[i] = [NewEngine EXCEPT !.win = eng[i].win]
  BY DEF NothingMet
<1>2. eng[i].pending = {} /\ eng[i].watermark = -1
  BY <1>1 DEF NewEngine
<1>3. DOMAIN << >> = {}
  OBVIOUS
<1>4. AlertsOf(i) = {} /\ DueOf(i) = {} /\ fed[i] = << >>
  BY <1>3 DEF NothingMet, AlertsOf, DueOf
<1>. QED BY <1>2, <1>3, <1>4 DEF DeferInv

(* ... and the same of the state that a step leads to. *)
LEMMA DeferAtFirstNext ==
    ASSUME TypeOK', NothingMet', NEW i \in Rule
    PROVE  DeferInv(i)'
<1>1. eng'[i] = [NewEngine EXCEPT !.win = eng'[i].win]
  BY DEF NothingMet
<1>2. eng'[i].pending = {} /\ eng'[i].watermark = -1
  BY <1>1 DEF NewEngine
<1>3. DOMAIN << >> = {}
  OBVIOUS
<1>4. AlertsOf(i)' = {} /\ DueOf(i)' = {} /\ fed'[i] = << >>
  BY <1>3 DEF NothingMet, AlertsOf, DueOf
<1>. QED BY <1>2, <1>3, <1>4 DEF DeferInv

(* The events of a stream have different ids. *)
LEMMA IdsDiffer ==
    ASSUME TypeOK, NEW m \in 1 .. Len(events), NEW n \in 1 .. Len(events),
           events[m].id = events[n].id
    PROVE  m = n
<1>1. events \in Streams
  BY DEF TypeOK
<1>2. /\ events \in Seq([win : STRING, key : Keys, ts : Nat, due : Nat, id : Nat])
      /\ \A a, b \in DOMAIN events : events[a].id = events[b].id => a = b
  BY <1>1, OracleAssumption
<1>3. DOMAIN events = 1 .. Len(events)
  BY <1>2, LenProperties
<1>. QED BY <1>2, <1>3

(* An event of the stream waits in a deferred rule: its id is that of no   *)
(* event met before, and all that the new watermark reaches is taken out.  *)
LEMMA DeferWaits ==
    ASSUME TypeOK, CurInv, NEW i \in Rule, DriveDeferred(i), DeferInv(i)
    PROVE  DeferInv(i)'
<1>. DEFINE e == eng[i]
            w == e.watermark
            t == eng'[i].watermark
            ev == cur.ev
            new == [rule |-> i, key |-> ev.key, ts |-> ev.ts, due |-> ev.due, id |-> ev.id]
            all == e.pending \cup {new}
<1>1. /\ Meet(i) /\ fed'[i] = Append(fed[i], cur) /\ cur.from = 0 /\ alerts' = alerts
  BY DriveDeferredTyped, DrivenTyped
<1>2. /\ i \in left /\ due = {} /\ pass = "main" /\ cur \in Entry /\ ev \in Event /\ e \in Engine
      /\ left' = left \ {i} /\ UNCHANGED << events, closeAtEos, pass, at, cur >>
  BY <1>1, MeetTyped
<1>3. at # 0 /\ ev = events[at] /\ at \in 1 .. Len(events)
  BY <1>1, <1>2, LengthTyped DEF CurInv, TypeOK
<1>4. ev.ts \in Nat /\ ev.due \in Nat /\ w \in Int /\ e.pending \in SUBSET Pending
  BY <1>2, EngineTyped DEF Event
<1>5. /\ Ahead(i, ev) \in Engine /\ Ahead(i, ev).watermark = w /\ Ahead(i, ev).pending = e.pending
  BY <1>2, AheadTyped
<1>6. /\ Waiting(i).watermark = IF ev.ts > w THEN ev.ts ELSE w
      /\ Waiting(i).pending = all
  BY <1>2, <1>5, PendTyped DEF Waiting
<1>7. /\ t = IF ev.ts > w THEN ev.ts ELSE w
      /\ due' = {p \in all : p.due <= t}
      /\ eng'[i].pending = all \ due'
  BY <1>6, DriveDeferredTyped DEF Due
<1>8. \A p \in all : p.rule = i /\ p.due \in Nat
  <2>1. \A p \in e.pending : p.rule = i
    BY DEF TypeOK, KindOK
  <2>. QED BY <1>4, <2>1 DEF Pending
<1>9. DueOf(i)' = due' /\ DueOf(i) = {}
  BY <1>2, <1>7, <1>8 DEF DueOf
<1>10. eng'[i].pending \cup DueOf(i)' = all
  BY <1>7, <1>9
<1>11. Met(i) = 1 .. at - 1 /\ Met(i)' = 1 .. at
  BY <1>1, <1>2 DEF Met
<1>12. \A id : IsMet(i, id) => id # ev.id /\ \E m \in Met(i)' : events'[m].id = id
  <2>1. ASSUME NEW m \in 1 .. at - 1
        PROVE  m \in 1 .. at /\ events[m].id # ev.id
    <3>1. m \in 1 .. Len(events) /\ m # at
      BY <1>3, MetTypes
    <3>. QED BY <1>3, <3>1, IdsDiffer
  <2>. QED BY <1>2, <1>11, <2>1 DEF IsMet
<1>13. \E m \in Met(i)' : events'[m].id = ev.id
  BY <1>2, <1>3, <1>11
<1>14. \A p \in e.pending : p.id # ev.id
  BY <1>12 DEF DeferInv
<1>15. \A p, q \in all : p.id = q.id => p = q
  BY <1>14 DEF DeferInv
<1>16. AlertsOf(i)' = AlertsOf(i)
  BY <1>1 DEF AlertsOf
<1>17. \A n \in AlertsOf(i) : /\ alerts[n].id # ev.id
                              /\ \E m \in Met(i)' : events'[m].id = alerts[n].id
  BY <1>12 DEF DeferInv
<1>18. \A p \in all : /\ \E m \in Met(i)' : events'[m].id = p.id
                      /\ \A n \in AlertsOf(i) : alerts[n].id # p.id
  BY <1>9, <1>12, <1>13, <1>17 DEF DeferInv
<1>19. w <= t /\ ev.ts <= t /\ t \in Int /\ (t = w \/ t = ev.ts)
  BY <1>4, <1>7
<1>20. ~ Flushing /\ ~ Flushing'
  BY <1>2 DEF Flushing
<1>21. \A n \in AlertsOf(i) : alerts[n].ts <= t
  <2>1. \A n \in AlertsOf(i) : alerts[n].ts <= w
    BY <1>20 DEF DeferInv
  <2>2. \A n \in AlertsOf(i) : alerts[n].ts \in Nat
    <3>1. alerts \in Seq(Alert) /\ \A n \in AlertsOf(i) : n \in 1 .. Len(alerts)
      BY LenProperties DEF TypeOK, AlertsOf
    <3>2. \A n \in AlertsOf(i) : alerts[n] \in Alert
      BY <3>1, ElementOfSeq
    <3>. QED BY <3>2 DEF Alert
  <2>. QED BY <1>4, <1>19, <2>1, <2>2
<1>22. /\ \A m \in DOMAIN fed'[i] : fed'[i][m].ev.ts <= t
       /\ t = -1 \/ \E m \in DOMAIN fed'[i] : fed'[i][m].ev.ts = t
  <2>. DEFINE f == fed[i]
              k == Len(f)
              g == fed'[i]
  <2>1. f \in Seq(Entry)
    BY DEF TypeOK
  <2>2. k \in Nat /\ DOMAIN f = 1 .. k
    BY <2>1, LenProperties
  <2>3. /\ g \in Seq(Entry) /\ Len(g) = k + 1
        /\ \A m \in 1 .. k : g[m] = f[m]
        /\ g[k + 1] = cur
    BY <1>1, <1>2, <2>1, AppendProperties
  <2>4. DOMAIN g = 1 .. k + 1
    BY <2>3, LenProperties
  <2>5. \A m \in 1 .. k : f[m].ev.ts \in Nat
    <3>1. \A m \in 1 .. k : f[m] \in Entry
      BY <2>1, ElementOfSeq
    <3>. QED BY <3>1 DEF Entry, Event
  <2>6. /\ \A m \in 1 .. k : f[m].ev.ts <= w
        /\ w = -1 \/ \E m \in 1 .. k : f[m].ev.ts = w
    BY <2>2 DEF DeferInv
  <2>. HIDE DEF f, k, g, t, w, ev
  <2>7. ASSUME NEW m \in 1 .. k + 1
        PROVE  g[m].ev.ts <= t
    <3>1. CASE m = k + 1
      BY <1>19, <2>3, <3>1 DEF ev
    <3>2. CASE m \in 1 .. k
      BY <1>4, <1>19, <2>3, <2>5, <2>6, <3>2
    <3>. QED BY <2>2, <3>1, <3>2
  <2>8. CASE t = ev.ts
    <3>1. k + 1 \in 1 .. k + 1 /\ g[k + 1].ev.ts = t
      BY <2>2, <2>3, <2>8 DEF ev
    <3>. QED BY <2>4, <2>7, <3>1 DEF g
  <2>9. CASE t = w
    <3>1. t = -1 \/ \E m \in 1 .. k + 1 : g[m].ev.ts = t
      BY <2>2, <2>3, <2>6, <2>9
    <3>. QED BY <2>4, <2>7, <3>1 DEF g
  <2>. QED BY <1>19, <2>8, <2>9
<1>23. \A p \in eng'[i].pending : p.due > t
  BY <1>7, <1>8, <1>19
<1>24. \A p \in DueOf(i)' : p.due <= t
  BY <1>7, <1>9
<1>25. eng'[i].pending \cap DueOf(i)' = {}
  BY <1>7, <1>9
<1>26. \A m, n \in AlertsOf(i) : alerts[m].id = alerts[n].id => m = n
  BY DEF DeferInv
<1>27. \A p, q \in eng'[i].pending \cup DueOf(i)' : p.id = q.id => p = q
  BY <1>10, <1>15
<1>28. \A p \in eng'[i].pending \cup DueOf(i)' :
            /\ \E m \in Met(i)' : events'[m].id = p.id
            /\ \A n \in AlertsOf(i) : alerts[n].id # p.id
  BY <1>10, <1>18
<1>. HIDE DEF all, new, ev, e, w
<1>. QED BY <1>1, <1>16, <1>17, <1>20, <1>21, <1>22, <1>23, <1>24, <1>25, <1>26, <1>27, <1>28
     DEF DeferInv, IsMet, t

(* A deferred join that has been taken out is put out once, or not at all. *)
LEMMA DeferEvaluated ==
    ASSUME TypeOK, NEW i \in Rule, EvaluateDue, DeferInv(i)
    PROVE  DeferInv(i)'
<1>1. /\ pass \in {"main", "eos"}
      /\ UNCHANGED << events, closeAtEos, pass, at, cur, left, eng, fed >>
  BY EvaluateDueTyped
<1>2. PICK p \in due :
        /\ p \in Pending /\ due' = due \ {p} /\ DueOutput(p) \in Alert
        /\ \/ alerts' = alerts /\ feed' = feed
           \/ pass = "main" /\ RecordOutput(DueOutput(p))
           \/ pass = "eos" /\ PushAlerts(<< DueOutput(p) >>)
  BY EvaluateDueTyped
<1>. DEFINE o == DueOutput(p)
<1>3. o.rule = p.rule /\ o.id = p.id /\ o.ts = p.due
  BY DEF DueOutput, Output
<1>. HIDE DEF o
<1>4. Met(i)' = Met(i) /\ Flushing' = Flushing /\ eng' = eng /\ fed' = fed /\ left' = left
      /\ events' = events
  BY <1>1 DEF Met, Flushing
<1>5. DueOf(i)' = IF p.rule = i THEN DueOf(i) \ {p} ELSE DueOf(i)
  BY <1>2 DEF DueOf
<1>6. \/ SameAlerts(i)
      \/ /\ \A n \in AlertsOf(i) : n \in AlertsOf(i)' /\ alerts'[n] = alerts[n]
         /\ \E last :
                /\ last \notin AlertsOf(i)
                /\ AlertsOf(i)' = IF o.rule = i THEN AlertsOf(i) \cup {last} ELSE AlertsOf(i)
                /\ alerts'[last].id = o.id /\ alerts'[last].ts = o.ts
  <2>1. CASE alerts' = alerts
    BY <2>1 DEF SameAlerts, AlertsOf
  <2>2. CASE RecordOutput(o)
    BY <1>2, <2>2, OneRecorded DEF o
  <2>3. CASE PushAlerts(<< o >>)
    BY <1>2, <2>3, OnePushed DEF o
  <2>. QED BY <1>2, <2>1, <2>2, <2>3 DEF o
<1>7. CASE p.rule # i
  <2>1. SameAlerts(i)
    BY <1>3, <1>6, <1>7 DEF SameAlerts
  <2>. QED BY <1>4, <1>5, <1>7, <2>1, DeferKept DEF DeferInv
<1>8. CASE p.rule = i
  <2>1. /\ p \in DueOf(i) /\ DueOf(i)' = DueOf(i) \ {p}
    BY <1>2, <1>5, <1>8 DEF DueOf
  <2>2. /\ IsMet(i, p.id)
        /\ p.due <= eng[i].watermark \/ Flushing
        /\ \A n \in AlertsOf(i) : alerts[n].id # p.id
        /\ \A q \in eng[i].pending \cup DueOf(i)' : q.id # p.id
    BY <2>1 DEF DeferInv
  <2>3. CASE SameAlerts(i)
    BY <1>4, <2>1, <2>3 DEF DeferInv, SameAlerts, IsMet
  <2>4. CASE \E last :
                /\ last \notin AlertsOf(i)
                /\ AlertsOf(i)' = AlertsOf(i) \cup {last}
                /\ alerts'[last].id = o.id /\ alerts'[last].ts = o.ts
                /\ \A n \in AlertsOf(i) : alerts'[n] = alerts[n]
    <3>1. PICK last : /\ last \notin AlertsOf(i)
                      /\ AlertsOf(i)' = AlertsOf(i) \cup {last}
                      /\ alerts'[last].id = p.id /\ alerts'[last].ts = p.due
                      /\ \A n \in AlertsOf(i) : alerts'[n] = alerts[n]
      BY <1>3, <2>4
    <3>2. \A m, n \in AlertsOf(i)' : alerts'[m].id = alerts'[n].id => m = n
      BY <2>2, <3>1 DEF DeferInv
    <3>3. \A n \in AlertsOf(i)' : /\ \E m \in Met(i)' : events'[m].id = alerts'[n].id
                                  /\ alerts'[n].ts <= eng'[i].watermark \/ Flushing'
      <4>1. \A n \in AlertsOf(i) : /\ \E m \in Met(i) : events[m].id = alerts[n].id
                                   /\ alerts[n].ts <= eng[i].watermark \/ Flushing
        BY DEF DeferInv, IsMet
      <4>2. \E m \in Met(i) : events[m].id = p.id
        BY <2>2 DEF IsMet
      <4>. QED BY <1>4, <2>2, <3>1, <4>1, <4>2
    <3>4. \A q \in eng'[i].pending \cup DueOf(i)' :
              /\ \E m \in Met(i)' : events'[m].id = q.id
              /\ \A n \in AlertsOf(i)' : alerts'[n].id # q.id
      <4>1. \A q \in eng[i].pending \cup DueOf(i)' :
              /\ \E m \in Met(i) : events[m].id = q.id
              /\ \A n \in AlertsOf(i) : alerts[n].id # q.id
        BY <2>1 DEF DeferInv, IsMet
      <4>. QED BY <1>4, <2>2, <3>1, <4>1
    <3>5. /\ eng'[i].pending \cap DueOf(i)' = {}
          /\ \A q, r \in eng'[i].pending \cup DueOf(i)' : q.id = r.id => q = r
          /\ \A q \in DueOf(i)' : q.due <= eng'[i].watermark \/ Flushing'
      BY <1>4, <2>1 DEF DeferInv
    <3>. QED BY <1>4, <3>2, <3>3, <3>4, <3>5 DEF DeferInv, IsMet
  <2>. QED BY <1>3, <1>6, <1>8, <2>3, <2>4
<1>. QED BY <1>7, <1>8

(* At the end of the stream a deferred rule keeps what it holds back, or   *)
(* in batch mode takes out all of it.                                      *)
LEMMA DeferSettled ==
    ASSUME TypeOK, NEW i \in left, Rules[i].kind = "deferred", Settle(i), DeferInv(i)
    PROVE  DeferInv(i)'
<1>1. /\ i \in Rule /\ due = {} /\ left' = left \ {i}
      /\ UNCHANGED << events, closeAtEos, pass, at, cur, fed >> /\ pass = "eos"
      /\ due' = IF closeAtEos THEN eng[i].pending ELSE {}
      /\ eng'[i].pending = eng[i].pending \ due'
      /\ eng'[i].watermark = eng[i].watermark
  BY SettleTyped
<1>2. alerts' = alerts
  <2>1. PushAlerts(<< >>)
    BY SettleTyped
  <2>2. alerts \in Seq(Alert)
    BY DEF TypeOK
  <2>. QED BY <2>1, <2>2, ConcatEmptySeq DEF PushAlerts
<1>3. AlertsOf(i)' = AlertsOf(i) /\ Met(i)' = Met(i) /\ DueOf(i) = {}
      /\ (Flushing <=> closeAtEos) /\ (Flushing' <=> closeAtEos)
  BY <1>1, <1>2 DEF AlertsOf, Met, DueOf, Flushing
<1>4. DueOf(i)' = due'
  <2>1. \A p \in eng[i].pending : p.rule = i
    BY <1>1 DEF TypeOK, KindOK
  <2>. QED BY <1>1, <2>1 DEF DueOf
<1>5. eng'[i].pending \cup DueOf(i)' = eng[i].pending /\ eng'[i].pending \subseteq eng[i].pending
      /\ eng'[i].pending \cap DueOf(i)' = {}
  BY <1>1, <1>4
<1>6. \A p \in eng[i].pending : /\ \E m \in Met(i) : events[m].id = p.id
                                /\ \A n \in AlertsOf(i) : alerts[n].id # p.id
  BY DEF DeferInv, IsMet
<1>7. \A p \in DueOf(i)' : Flushing'
  BY <1>1, <1>3, <1>4
<1>8. Flushing' => eng'[i].pending = {}
  BY <1>1, <1>3
<1>. QED BY <1>1, <1>2, <1>3, <1>5, <1>6, <1>7, <1>8 DEF DeferInv, IsMet

(* What a rule that meets an event does to another rule's alerts and       *)
(* deferred joins.                                                         *)
LEMMA DeferOthers ==
    ASSUME TypeOK, NEW i \in Rule, NEW j, j # i,
           \/ PassBy(j) \/ DriveEach(j) \/ DriveDeferred(j) \/ DriveClose(j)
           \/ DriveFedEach(j) \/ DriveFedClose(j)
    PROVE  SameAlerts(i) /\ DueOf(i)' = DueOf(i)
<1>1. Meet(j)
  BY PassByTyped, DriveEachTyped, DriveDeferredTyped, DriveCloseTyped,
     DriveFedEachTyped, DriveFedCloseTyped, DrivenTyped
<1>2. /\ j \in Rule /\ due = {} /\ pass = "main" /\ cur.ev \in Event
  BY <1>1, MeetTyped
<1>3. alerts' = alerts => SameAlerts(i)
  BY DEF SameAlerts, AlertsOf
<1>4. due' = due => DueOf(i)' = DueOf(i)
  BY DEF DueOf
<1>5. PushAlerts(Timeouts(j, cur.ev)) => SameAlerts(i)
  <2>1. /\ Timeouts(j, cur.ev) \in Seq(Alert)
        /\ \A n \in DOMAIN Timeouts(j, cur.ev) : Timeouts(j, cur.ev)[n].rule # i
    BY <1>2, AheadKind
  <2>. QED BY <2>1, OthersPush
<1>6. ASSUME NEW w, NEW o, o = EachOutput(j, w, cur.ev), o \in Alert, RecordOutput(o)
      PROVE  SameAlerts(i)
  <2>1. o.rule = j
    BY <1>6 DEF EachOutput, Output
  <2>. QED BY <1>6, <2>1, OneRecorded DEF SameAlerts
<1>7. CASE PassBy(j)
  BY <1>3, <1>4, <1>5, <1>7, PassByTyped
<1>8. CASE DriveEach(j)
  BY <1>4, <1>6, <1>8, DriveEachTyped
<1>9. CASE DriveDeferred(j)
  <2>1. alerts' = alerts /\ TypeOK' /\ due' \subseteq Waiting(j).pending
    BY <1>9, DriveDeferredTyped DEF Due
  <2>2. Ahead(j, cur.ev) \in Engine /\ \A p \in Ahead(j, cur.ev).pending : p.rule = j
    BY <1>2, AheadKind, AheadTyped DEF TypeOK
  <2>3. \A p \in Waiting(j).pending : p.rule = j
    BY <1>2, <2>2, PendTyped DEF Waiting
  <2>4. DueOf(i)' = {} /\ DueOf(i) = {}
    BY <1>2, <2>1, <2>3 DEF DueOf
  <2>. QED BY <1>3, <2>1, <2>4
<1>10. CASE DriveClose(j)
  BY <1>4, <1>5, <1>10, DriveCloseTyped
<1>11. CASE DriveFedEach(j)
  BY <1>4, <1>6, <1>11, DriveFedEachTyped
<1>12. CASE DriveFedClose(j)
  BY <1>3, <1>4, <1>12, DriveFedCloseTyped
<1>. QED BY <1>7, <1>8, <1>9, <1>10, <1>11, <1>12

(* A deferred rule that binds no intermediate window meets an event.       *)
LEMMA DeferDriven ==
    ASSUME TypeOK, CurInv, DriveRule, NEW i \in Rule, Rules[i].kind = "deferred", OnStream(i),
           DeferInv(i)
    PROVE  DeferInv(i)'
<1>1. PICK j \in left :
          /\ Meet(j)
          /\ PassBy(j) \/ DriveEach(j) \/ DriveDeferred(j) \/ DriveClose(j)
                \/ DriveFedEach(j) \/ DriveFedClose(j)
          /\ \A k \in Rule : k # j => eng'[k] = eng[k] /\ fed'[k] = fed[k]
  BY DriveOne
<1>2. /\ j \in Rule /\ due = {} /\ pass = "main" /\ cur.ev \in Event /\ eng[j] \in Engine
      /\ cur.from = 0 \/ FedBack(cur)
      /\ left' = left \ {j}
      /\ UNCHANGED << events, closeAtEos, pass, at, cur >>
  BY <1>1, MeetTyped
<1>3. ~ Flushing /\ ~ Flushing'
  BY <1>2 DEF Flushing
<1>4. Met(i) \subseteq Met(i)'
  <2>1. at \in Nat
    BY MetTypes
  <2>. QED BY <1>2, <2>1 DEF Met
<1>5. CASE j # i
  <2>1. SameAlerts(i) /\ DueOf(i)' = DueOf(i)
    BY <1>1, <1>5, DeferOthers
  <2>. QED BY <1>1, <1>2, <1>3, <1>4, <1>5, <2>1, DeferKept
<1>6. CASE j = i
  <2>1. CASE PassBy(i)
    <3>1. due' = due /\ fed' = fed
      BY <2>1, PassByTyped
    <3>2. /\ eng'[i].pending = eng[i].pending /\ eng'[i].watermark = eng[i].watermark
          /\ alerts' = alerts
      <4>1. CASE cur.from = 0
        <5>1. eng'[i] = Ahead(i, cur.ev) /\ PushAlerts(Timeouts(i, cur.ev))
          BY <2>1, <4>1, PassByTyped
        <5>2. Timeouts(i, cur.ev) = << >>
          BY <1>2, AheadKind
        <5>3. alerts' = alerts
          <6>1. alerts \in Seq(Alert)
            BY DEF TypeOK
          <6>. QED BY <5>1, <5>2, <6>1, ConcatEmptySeq DEF PushAlerts
        <5>. QED BY <1>2, <1>6, <5>1, <5>3, AheadTyped
      <4>2. CASE cur.from # 0
        BY <2>1, <4>2, PassByTyped
      <4>. QED BY <4>1, <4>2
    <3>3. SameAlerts(i) /\ DueOf(i)' = DueOf(i)
      BY <3>1, <3>2 DEF SameAlerts, AlertsOf, DueOf
    <3>. QED BY <1>2, <1>3, <1>4, <3>1, <3>2, <3>3, DeferKept
  <2>2. CASE DriveDeferred(i)
    BY <2>2, DeferWaits
  <2>3. ~ DriveEach(i) /\ ~ DriveClose(i) /\ ~ DriveFedClose(i)
    BY DEF DriveEach, DriveClose, DriveFedClose
  <2>4. ~ DriveFedEach(i)
    <3>. SUFFICES ASSUME DriveFedEach(i) PROVE FALSE
      OBVIOUS
    <3>1. Drive(i) /\ cur.from # 0
      BY DEF DriveFedEach
    <3>2. Binds(i, cur.ev.win) /\ FedBack(cur)
      BY <1>2, <3>1 DEF Drive
    <3>. QED BY <3>2 DEF OnStream, FedBack
  <2>. QED BY <1>1, <1>6, <2>1, <2>2, <2>3, <2>4
<1>. QED BY <1>5, <1>6

(* No step but those of the rule, of its deferred joins and of the end of  *)
(* the stream touches what the invariant is about.                         *)
LEMMA StepDefer ==
    ASSUME TypeOK, CurInv, [Next]_vars, NEW i \in Rule, Rules[i].kind = "deferred",
           OnStream(i), DeferInv(i)
    PROVE  DeferInv(i)'
<1>0. i \in Engines /\ i \notin Stats
  BY DEF Engines, Stats
<1>1. CASE Preload
  <2>1. TypeOK' /\ pass' = "preload"
    BY <1>1, PreloadTyped DEF Preload
  <2>2. NothingMet'
    BY <2>1 DEF TypeOK
  <2>. QED BY <2>1, <2>2, DeferAtFirstNext
<1>2. CASE MainPass
  <2>1. /\ NothingMet /\ pass' = "main" /\ at' = 0
        /\ UNCHANGED << left, due, feed, eng, alerts, fed >>
    BY <1>2 DEF MainPass, TypeOK
  <2>2. TypeOK' /\ NothingMet'
    BY <1>2, <2>1, MainPassTyped DEF NothingMet
  <2>. QED BY <2>2, DeferAtFirstNext
<1>3. ASSUME NEW entry \in Entry, Take(entry), pass = "main", pass' = "main", left = {},
             due' = due, alerts' = alerts, events' = events,
             \/ at' = at /\ entry.from # 0
             \/ at' = at + 1 /\ entry.from = 0
      PROVE  DeferInv(i)'
  <2>1. /\ eng'[i].pending = eng[i].pending /\ eng'[i].watermark = eng[i].watermark
        /\ fed'[i] = fed[i] /\ left' = Engines /\ cur' = entry
    BY <1>0, <1>3, TakeTyped
  <2>2. Met(i) \subseteq Met(i)'
    <3>1. at \in Nat
      BY MetTypes
    <3>2. Met(i) = 1 .. at
      BY <1>3 DEF Met
    <3>3. CASE at' = at /\ entry.from # 0
      BY <1>3, <2>1, <3>2, <3>3 DEF Met
    <3>4. CASE at' = at + 1 /\ entry.from = 0
      BY <1>0, <1>3, <2>1, <3>1, <3>2, <3>4 DEF Met
    <3>. QED BY <1>3, <3>3, <3>4
  <2>3. SameAlerts(i) /\ DueOf(i)' = DueOf(i) /\ ~ Flushing /\ ~ Flushing'
    BY <1>3 DEF SameAlerts, AlertsOf, DueOf, Flushing
  <2>. QED BY <1>3, <2>1, <2>2, <2>3, DeferKept
<1>4. CASE NextEvent
  <2>1. /\ OfStream(events[at + 1]) \in Entry /\ Take(OfStream(events[at + 1]))
        /\ OfStream(events[at + 1]).from = 0
    BY <1>4, NextEventTyped DEF OfStream
  <2>2. /\ pass = "main" /\ left = {} /\ at' = at + 1
        /\ UNCHANGED << events, pass, due, alerts >>
    BY <1>4 DEF NextEvent, Resting
  <2>. QED BY <1>3, <2>1, <2>2
<1>5. CASE FeedBack
  <2>1. Head(feed) \in Entry /\ Take(Head(feed)) /\ Head(feed).from # 0
    BY <1>5, FeedBackTyped DEF FedBack
  <2>2. /\ pass = "main" /\ left = {} /\ at' = at
        /\ UNCHANGED << events, pass, due, alerts >>
    BY <1>5 DEF FeedBack, Resting
  <2>. QED BY <1>3, <2>1, <2>2
<1>6. CASE DriveRule
  BY <1>6, DeferDriven
<1>7. CASE EvaluateDue
  BY <1>7, DeferEvaluated
<1>8. CASE EndOfStream
  <2>1. /\ UNCHANGED << events, closeAtEos, at, cur, due, feed, eng, alerts, fed >>
        /\ left = {} /\ pass = "main" /\ pass' = "eos" /\ left' = Engines
    BY <1>8 DEF EndOfStream, Resting
  <2>2. Met(i) \subseteq Met(i)' /\ SameAlerts(i) /\ DueOf(i)' = DueOf(i) /\ ~ Flushing
    BY <2>1 DEF Met, SameAlerts, AlertsOf, DueOf, Flushing
  <2>. QED BY <1>0, <2>1, <2>2, DeferKept
<1>9. CASE \E j \in left : Settle(j)
  <2>1. PICK j \in left : Settle(j)
    BY <1>9
  <2>2. CASE j = i
    BY <2>1, <2>2, DeferSettled
  <2>3. CASE j # i
    <3>1. /\ j \in Rule /\ due = {} /\ left' = left \ {j}
          /\ UNCHANGED << events, closeAtEos, pass, at, cur, fed >> /\ pass = "eos"
          /\ due' \subseteq eng[j].pending /\ eng'[i] = eng[i]
      BY <2>1, <2>3, SettleTyped
    <3>2. \E outs \in Seq(Alert) : /\ PushAlerts(outs)
                                   /\ \A n \in DOMAIN outs : outs[n].rule = j
      BY <2>1, SettleTyped
    <3>3. SameAlerts(i)
      BY <2>3, <3>2, OthersPush
    <3>4. DueOf(i) = {} /\ DueOf(i)' = {}
      <4>1. \A p \in eng[j].pending : p.rule = j
        BY <3>1 DEF TypeOK, KindOK
      <4>. QED BY <2>3, <3>1, <4>1 DEF DueOf
    <3>5. Met(i) \subseteq Met(i)' /\ (Flushing <=> Flushing')
      BY <3>1 DEF Met, Flushing
    <3>6. Flushing' /\ i \notin left' => eng[i].pending = {}
      BY <2>3, <3>1, <3>5 DEF DeferInv
    <3>. QED BY <3>1, <3>3, <3>4, <3>5, <3>6, DeferKept
  <2>. QED BY <2>2, <2>3
<1>10. CASE Finish
  <2>1. /\ UNCHANGED << events, closeAtEos, at, cur, left, due, feed, alerts, fed >>
        /\ pass = "eos" /\ pass' = "done"
    BY <1>10 DEF Finish
  <2>2. eng'[i].pending = eng[i].pending /\ eng'[i].watermark = eng[i].watermark
    BY <1>10, FinishTyped
  <2>3. /\ Met(i) \subseteq Met(i)' /\ SameAlerts(i) /\ DueOf(i)' = DueOf(i)
        /\ (Flushing <=> Flushing')
    BY <2>1 DEF Met, SameAlerts, AlertsOf, DueOf, Flushing
  <2>4. Flushing' /\ i \notin left' => eng[i].pending = {}
    BY <2>1, <2>3 DEF DeferInv
  <2>. QED BY <2>1, <2>2, <2>3, <2>4, DeferKept
<1>11. CASE UNCHANGED vars
  <2>1. /\ UNCHANGED << events, fed, eng, left >>
        /\ Met(i) \subseteq Met(i)' /\ SameAlerts(i) /\ DueOf(i)' = DueOf(i)
        /\ (Flushing <=> Flushing')
    BY <1>11 DEF vars, Met, SameAlerts, AlertsOf, DueOf, Flushing
  <2>2. Flushing' /\ i \notin left' => eng[i].pending = {}
    BY <2>1 DEF DeferInv
  <2>. QED BY <2>1, <2>2, DeferKept
<1>. QED BY <1>1, <1>2, <1>4, <1>5, <1>6, <1>7, <1>8, <1>9, <1>10, <1>11 DEF Next

(* The deferred rules that the property is about. *)
Deferring == {i \in Rule : Rules[i].kind = "deferred" /\ OnStream(i)}
DefersInv == \A i \in Deferring : DeferInv(i)

(* All deferred rules at once. *)
LEMMA StepAllDefer == TypeOK /\ CurInv /\ DefersInv /\ [Next]_vars => DefersInv'
<1>. SUFFICES ASSUME TypeOK, CurInv, DefersInv, [Next]_vars, NEW i \in Deferring
              PROVE  DeferInv(i)'
  BY DEF DefersInv, Deferring, OnStream
<1>. QED BY StepDefer DEF DefersInv, Deferring

(* They have met nothing at first. *)
LEMMA InitDefer == Init => DefersInv
<1>. SUFFICES ASSUME Init, NEW i \in Deferring PROVE DeferInv(i)
  BY DEF DefersInv
<1>1. TypeOK
  BY InitTyped
<1>2. NothingMet
  BY <1>1 DEF TypeOK, Init
<1>. QED BY <1>1, <1>2, DeferAtFirst DEF Deferring

(* An alert's time lies below the watermark, which is the time of an event met; *)
(* a waiting event's due time lies above it.                                    *)
LEMMA DefersSuffice == TypeOK /\ DefersInv => DeferredOnce
<1>. SUFFICES ASSUME TypeOK, DefersInv PROVE DeferredOnce
  OBVIOUS
<1>1. SUFFICES ASSUME NEW i \in Rule, Rules[i].kind = "deferred",
                      \A win \in IntermediateWindows : ~ Binds(i, win)
               PROVE  LET outs == {n \in DOMAIN alerts : alerts[n].rule = i}
                          Reached(t) == \E m \in DOMAIN fed[i] : t <= fed[i][m].ev.ts
                      IN  /\ \A m, n \in outs : alerts[m].id = alerts[n].id => m = n
                          /\ \A n \in outs : Reached(alerts[n].ts)
                                              \/ (pass \in {"eos", "done"} /\ closeAtEos)
                          /\ \A p \in eng[i].pending : ~ Reached(p.due)
                          /\ pass = "done" /\ closeAtEos => eng[i].pending = {}
  BY Zenon DEF DeferredOnce
<1>. DEFINE Reached(t) == \E m \in DOMAIN fed[i] : t <= fed[i][m].ev.ts
            w == eng[i].watermark
<1>2. DeferInv(i)
  BY <1>1 DEF DefersInv, Deferring, OnStream
<1>3. /\ w \in Int /\ eng[i].pending \in SUBSET Pending /\ eng[i] \in Engine
  BY EngineTyped DEF TypeOK
<1>4. \A m \in DOMAIN fed[i] : fed[i][m].ev.ts \in Nat /\ fed[i][m].ev.ts <= w
  <2>1. fed[i] \in Seq(Entry) /\ DOMAIN fed[i] = 1 .. Len(fed[i])
    BY LenProperties DEF TypeOK
  <2>2. \A m \in DOMAIN fed[i] : fed[i][m] \in Entry
    BY <2>1, ElementOfSeq
  <2>. QED BY <1>2, <2>2 DEF DeferInv, Entry, Event
<1>5. \A n \in AlertsOf(i) : alerts[n].ts \in Nat
  <2>1. alerts \in Seq(Alert) /\ \A n \in AlertsOf(i) : n \in 1 .. Len(alerts)
    BY LenProperties DEF TypeOK, AlertsOf
  <2>2. \A n \in AlertsOf(i) : alerts[n] \in Alert
    BY <2>1, ElementOfSeq
  <2>. QED BY <2>2 DEF Alert
<1>6. ASSUME NEW n \in AlertsOf(i), ~ Flushing
      PROVE  Reached(alerts[n].ts)
  <2>1. alerts[n].ts <= w /\ alerts[n].ts \in Nat
    BY <1>2, <1>5, <1>6 DEF DeferInv
  <2>2. PICK m \in DOMAIN fed[i] : fed[i][m].ev.ts = w
    BY <1>2, <1>3, <2>1 DEF DeferInv
  <2>. QED BY <2>1, <2>2
<1>7. ASSUME NEW p \in eng[i].pending
      PROVE  ~ Reached(p.due)
  <2>1. p.due > w /\ p.due \in Nat
    BY <1>2, <1>3 DEF DeferInv, Pending
  <2>. QED BY <1>3, <1>4, <2>1
<1>8. pass = "done" /\ closeAtEos => eng[i].pending = {}
  <2>1. pass = "done" => left = {}
    BY DEF TypeOK
  <2>. QED BY <1>2, <2>1 DEF DeferInv, Flushing
<1>9. AlertsOf(i) = {n \in DOMAIN alerts : alerts[n].rule = i}
  BY DEF AlertsOf
<1>10. \A m, n \in AlertsOf(i) : alerts[m].id = alerts[n].id => m = n
  BY <1>2 DEF DeferInv
<1>. QED BY <1>6, <1>7, <1>8, <1>9, <1>10 DEF Flushing

(* An event that a rule defers is evaluated when the rule's watermark has  *)
(* reached its due time and not before, puts out at most once, and does    *)
(* not wait any longer; in batch mode the end of the stream leaves none    *)
(* waiting, for any number of rules and any order of the times             *)
(* (mod.rs:355-400, 535-560).                                              *)
THEOREM DeferredJoinsOnce == Spec => []DeferredOnce
<1>1. Init => TypeOK /\ CurInv /\ DefersInv
  BY InitTyped, InitJoins, InitDefer
<1>2. (TypeOK /\ CurInv /\ DefersInv) /\ [Next]_vars => (TypeOK /\ CurInv /\ DefersInv)'
  BY StepTyped, StepCurrent, StepAllDefer
<1>3. TypeOK /\ DefersInv => DeferredOnce
  BY DefersSuffice
<1>. QED BY <1>1, <1>2, <1>3, PTL DEF Spec

=============================================================================
