----------------------------- MODULE TestBench -----------------------------
(***************************************************************************)
(* How wfgen makes a test and judges its outcome: the generated chunks are *)
(* merged by time (datagen/mod.rs), faults reorder, repeat and drop events *)
(* (datagen/fault_gen.rs), and the alerts expected of the clean stream are *)
(* paired with those an engine raised for the faulty one (verify/).        *)
(*                                                                         *)
(* The loops are stepped through one iteration at a time.  The random      *)
(* generator is a choice; the engine (external) raises one alert for each  *)
(* event it receives, which is what an `on each` rule does.                *)
(*                                                                         *)
(* An event is [chunk, nr, ts, key]; a chunk is sorted by time.            *)
(***************************************************************************)
EXTENDS Verdict

SX == INSTANCE SequencesExt     \* InsertAt, RemoveAt, ToSet

CONSTANTS
    Inputs,         \* the generated chunks considered, sequences of events each
    Keys,           \* the keys of events
    Faults,         \* the kinds of fault the scenario has
    LateSpan        \* largest offset of a late event (120)

ASSUME TestBenchAssumption ==
    /\ Faults \subseteq {"drop", "duplicate", "outOfOrder", "late"}
    /\ LateSpan \in Nat \ {0}
    /\ \A input \in Inputs :
        /\ input \in Seq(Seq([chunk : Nat, nr : Nat, ts : Nat, key : Keys]))
        /\ \A c \in DOMAIN input : \A i \in DOMAIN input[c] :
                /\ input[c][i].chunk = c /\ input[c][i].nr = i
                /\ \A j \in DOMAIN input[c] : i < j => input[c][i].ts <= input[c][j].ts

VARIABLES
    pc,         \* "merge", "transform", "insert", "verify", "pair" or "done"
    chunks,     \* what generation produced
    cursor,     \* events taken from each chunk: the rest is in its iterator
    merged,     \* the clean stream
    kind,       \* the fault assigned to each event, or "clean"
    at,         \* loop index of the transform
    consumed,   \* events that were the partner of a swap
    result,     \* what is sent
    deferred,   \* late events with their target index, in the order deferred
    stats,      \* FaultStats
    report      \* the verify report

generated == << chunks, cursor, merged >>
faulted == << kind, at, consumed, result, deferred, stats >>
compared == << pairing, report >>
vars == << pc, generated, faulted, compared >>

NoReport == [status |-> "none"]
NoFaults == [outOfOrder |-> 0, late |-> 0, duplicate |-> 0, drop |-> 0, clean |-> 0]

Start ==
    /\ pc = "merge"
    /\ cursor = [c \in DOMAIN chunks |-> 0] /\ merged = << >>
    /\ kind = << >> /\ at = 1 /\ consumed = {} /\ result = << >>
    /\ deferred = << >> /\ stats = NoFaults
    /\ NotPaired /\ report = NoReport

Init == chunks \in Inputs /\ Start

-----------------------------------------------------------------------------
(* Generation: a heap holds the first event left of every chunk. *)

Heads == {c \in DOMAIN chunks : cursor[c] < Len(chunks[c])}
HeadOf(c) == chunks[c][cursor[c] + 1]

\* HeapItem::cmp: by time, then by chunk.
Before(c, d) == HeadOf(c).ts < HeadOf(d).ts \/ (HeadOf(c).ts = HeadOf(d).ts /\ c < d)

MergeNext ==
    /\ pc = "merge"
    /\ \E c \in Heads :
        /\ \A d \in Heads \ {c} : Before(c, d)
        /\ merged' = Append(merged, HeadOf(c))
        /\ cursor' = [cursor EXCEPT ![c] = @ + 1]
    /\ UNCHANGED << pc, chunks, faulted, compared >>

\* assign_faults: each event gets at most one fault, whatever the others got.
\* Without events or without faults the stream is passed on as it is.
Assign ==
    /\ pc = "merge" /\ Heads = {}
    /\ IF merged = << >> \/ Faults = {}
       THEN /\ result' = merged /\ stats' = [stats EXCEPT !.clean = Len(merged)]
            /\ pc' = "verify" /\ UNCHANGED kind
       ELSE /\ kind' \in [DOMAIN merged -> Faults \cup {"clean"}]
            /\ pc' = "transform" /\ UNCHANGED << result, stats >>
    /\ UNCHANGED << generated, at, consumed, deferred, compared >>

-----------------------------------------------------------------------------
(* two_pass_transform, first pass: one action for each branch. *)

Transforming(k) == pc = "transform" /\ at <= Len(merged) /\ at \notin consumed /\ kind[at] = k

\* The rest of an iteration: events out, the counter of what was done.
Emit(events, counter) ==
    /\ result' = result \o events
    /\ stats' = [stats EXCEPT ![counter] = @ + 1]
    /\ at' = at + 1
    /\ UNCHANGED << pc, generated, kind, compared >>

EmitClean == Transforming("clean") /\ Emit(<< merged[at] >>, "clean")
                /\ UNCHANGED << consumed, deferred >>

Drop == Transforming("drop") /\ Emit(<< >>, "drop") /\ UNCHANGED << consumed, deferred >>

Duplicate == Transforming("duplicate") /\ Emit(<< merged[at], merged[at] >>, "duplicate")
                /\ UNCHANGED << consumed, deferred >>

Lesser(m, n) == IF m < n THEN m ELSE n

\* Mutant of Swap: the partner is processed again.
SwapForgetsPartner ==
    /\ Transforming("outOfOrder") /\ at < Len(merged)
    /\ result' = result \o << merged[at + 1], merged[at] >>
    /\ stats' = [stats EXCEPT !.outOfOrder = @ + 1, !.clean = @ + 1]
    /\ at' = at + 1
    /\ UNCHANGED << pc, generated, kind, consumed, deferred, compared >>

\* The partner of a swap counts as clean, whatever it was assigned.
Swap ==
    /\ Transforming("outOfOrder") /\ at < Len(merged)
    /\ result' = result \o << merged[at + 1], merged[at] >>
    /\ consumed' = consumed \cup {at + 1}
    /\ stats' = [stats EXCEPT !.outOfOrder = @ + 1, !.clean = @ + 1]
    /\ at' = at + 1
    /\ UNCHANGED << pc, generated, kind, deferred, compared >>

\* Mutant of Defer: the offset may be zero.
DeferNowhere ==
    /\ Transforming("late") /\ at < Len(merged)
    /\ \E offset \in 0 .. Lesser(Len(merged) - at, LateSpan) :
            deferred' = Append(deferred, [event |-> at, target |-> Len(result) + offset])
    /\ Emit(<< >>, "late")
    /\ UNCHANGED consumed

\* A late event waits for the second pass, with its place in the result.
Defer ==
    /\ Transforming("late") /\ at < Len(merged)
    /\ \E offset \in 1 .. Lesser(Len(merged) - at, LateSpan) :
            deferred' = Append(deferred, [event |-> at, target |-> Len(result) + offset])
    /\ Emit(<< >>, "late")
    /\ UNCHANGED consumed

\* The last event cannot be swapped nor come later: it stays as it is.
Degrade ==
    /\ Transforming("outOfOrder") \/ Transforming("late")
    /\ at = Len(merged)
    /\ Emit(<< merged[at] >>, "clean")
    /\ UNCHANGED << consumed, deferred >>

SkipPartner ==
    /\ pc = "transform" /\ at \in consumed
    /\ at' = at + 1
    /\ UNCHANGED << pc, generated, kind, consumed, result, deferred, stats, compared >>

SecondPass ==
    /\ pc = "transform" /\ at > Len(merged)
    /\ pc' = "insert"
    /\ UNCHANGED << generated, faulted, compared >>

\* Second pass: from the largest target down, the first deferred first among
\* equals; a target past the end is the end.
InsertLate ==
    /\ pc = "insert"
    /\ \E n \in DOMAIN deferred :
        /\ \A m \in DOMAIN deferred \ {n} :
                \/ deferred[m].target < deferred[n].target
                \/ deferred[m].target = deferred[n].target /\ n < m
        /\ result' = SX!InsertAt(result, Lesser(deferred[n].target, Len(result)) + 1,
                                merged[deferred[n].event])
        /\ deferred' = SX!RemoveAt(deferred, n)
    /\ UNCHANGED << pc, generated, kind, at, consumed, stats, compared >>

Sent ==
    /\ pc = "insert" /\ deferred = << >>
    /\ pc' = "verify"
    /\ UNCHANGED << generated, faulted, compared >>

-----------------------------------------------------------------------------
(* verify. *)

\* An engine with one `on each` rule whose score tells the chunks apart.
Alerts(stream) ==
    [n \in DOMAIN stream |-> [key |-> stream[n].key, time |-> stream[n].ts,
                              score |-> stream[n].chunk]]

\* Expected alerts are those of the clean stream (cmd_gen.rs).
Expected == Alerts(merged)
Actual == Alerts(result)

Verify ==
    /\ pc = "verify"
    /\ pc' = "pair"
    /\ CollectGroups(Expected, Actual)
    /\ UNCHANGED << generated, faulted, report >>

PairAlerts ==
    /\ pc = "pair"
    /\ Pair(Expected, Actual, Exactly)
    /\ UNCHANGED << pc, generated, faulted, report >>

Judge ==
    /\ pc = "pair" /\ AllPaired
    /\ pc' = "done"
    /\ report' = Report
    /\ UNCHANGED << generated, faulted, pairing >>

Next ==
    \/ MergeNext \/ Assign
    \/ EmitClean \/ Drop \/ Duplicate \/ Swap \/ Defer \/ Degrade \/ SkipPartner
    \/ SecondPass \/ InsertLate \/ Sent
    \/ Verify \/ PairAlerts \/ Judge

Spec == Init /\ [][Next]_vars

-----------------------------------------------------------------------------
(* Properties. *)

Times(event, stream) == Cardinality({n \in DOMAIN stream : stream[n] = event})

\* The first event occurs, and before every occurrence of the second.
Ahead(first, second, stream) ==
    \E p \in DOMAIN stream :
        stream[p] = first /\ \A q \in DOMAIN stream : stream[q] = second => p < q

\* What event n of the clean stream was done to.
Done(n) == IF n \in consumed THEN "clean" ELSE kind[n]

\* Every event is counted under one fault or as clean, and the stream that is
\* sent has each event as often as its fault says: dropped ones not at all,
\* duplicates twice, the partner of a swap once whatever it was assigned
\* (fault_gen.rs:94-186: indices of two passes, one of which skips).
FaultsAccounted ==
    pc \in {"verify", "pair", "done"} /\ kind # << >> =>
        /\ stats.outOfOrder + stats.late + stats.duplicate + stats.drop + stats.clean = Len(merged)
        /\ Len(result) = Len(merged) - stats.drop + stats.duplicate
        /\ \A n \in DOMAIN merged :
                Times(merged[n], result) = CASE Done(n) = "drop" -> 0
                                             [] Done(n) = "duplicate" -> 2
                                             [] OTHER -> 1

\* Events leave in the order of their times, and of their chunk among equals,
\* but for the two that a swap exchanges and for late events; and a late one
\* does arrive after an event that follows it in the clean stream, if any that
\* follows is neither late nor dropped (fault_gen.rs:96-98, 148-161: the
\* target index is taken while the result still grows, and other late events
\* are inserted around it).
ArrivalExplained ==
    pc \in {"verify", "pair", "done"} =>
        /\ \A m, n \in DOMAIN merged :
              m < n => \/ merged[m].ts < merged[n].ts
                       \/ merged[m].ts = merged[n].ts /\ merged[m].chunk <= merged[n].chunk
        /\ kind # << >> =>
             LET sent == {n \in DOMAIN merged : Done(n) # "drop"}
                 Late(n) == Done(n) = "late" /\ n < Len(merged)
             IN  /\ \A m, n \in sent :
                       m < n /\ ~ Late(m) /\ ~ Late(n) /\ ~ Ahead(merged[m], merged[n], result)
                           => n = m + 1 /\ n \in consumed
                 /\ \A m \in sent : Late(m) /\ (\E n \in sent : n > m /\ ~ Late(n))
                       => \E n \in sent : n > m /\ Ahead(merged[n], merged[m], result)

\* With no tolerance the verdict is exact: it passes only when both sides
\* raised the same alerts, each as often, in whatever order the events came,
\* and does pass then unless alerts of one group and time differ in score
\* (greedy pairing takes the first of these); and what is missing less what is
\* unexpected is what was dropped less what was duplicated.
VerdictExact ==
    pc = "done" =>
        LET alerts == SX!ToSet(Expected) \cup SX!ToSet(Actual)
            same == \A a \in alerts : Times(a, Expected) = Times(a, Actual)
            tied == \E a, b \in SX!ToSet(Expected) : a.key = b.key /\ a.time = b.time /\ a.score # b.score
        IN  /\ report.status = "pass" => same
            /\ same /\ ~ tied => report.status = "pass"
            /\ report.missing - report.unexpected = stats.drop - stats.duplicate
            /\ report.matched + report.mismatched + report.missing = Len(Expected)
=============================================================================
