------------------------------- MODULE Oracle -------------------------------
(***************************************************************************)
(* The reference evaluator of wfgen (oracle/mod.rs, run_oracle_events_full,*)
(* and oracle/window.rs): it drives every rule over a finite stream of     *)
(* events and collects the alerts a correct engine would raise.            *)
(*                                                                         *)
(* Two passes over the stream.  The first (preload) only feeds the join    *)
(* windows; the second drives the rules, one event at a time, and feeds    *)
(* what they yield into a window that another rule binds back to the rules *)
(* before the next event.  At the end of the stream expired instances,     *)
(* deferred joins and the last statistics windows are closed.  An action   *)
(* is one turn of a loop: an event of a pass, the statistics rules at the  *)
(* event, one rule at the event, one deferred join.                        *)
(*                                                                         *)
(* A rule is one of                                                        *)
(*   "each"      one output for each event (`on each`)                     *)
(*   "deferred"  `on each` with a join evaluated at event.due (`emit at`)  *)
(*   "close"     fixed windows of length Dur per key, an output when one   *)
(*               closes (`and close`)                                      *)
(*   "stats"     rows counted per fixed window of length Dur               *)
(* Their evaluation (executor, CEP state machine) is the external rule     *)
(* engine's and kept to what this loop relies on.                          *)
(*                                                                         *)
(* An event is [win, key, ts, due, id]; times are not negative.            *)
(***************************************************************************)
EXTENDS Integers, Sequences

SX == INSTANCE SequencesExt     \* SetToSeq, ToSet

CONSTANTS
    Rules,          \* the rule plans, a sequence of [kind, binds, target, join]
    Streams,        \* the event streams considered
    Keys,           \* join and match keys
    Dur,            \* length of the fixed windows
    Over,           \* retention of the join windows
    EosTime,        \* scenario start plus duration
    None            \* no join

ASSUME OracleAssumption ==
    /\ Dur \in Nat \ {0} /\ Over \in Nat \ {0} /\ EosTime \in Nat
    /\ \A i \in DOMAIN Rules : Rules[i].kind \in {"each", "deferred", "close", "stats"}
    /\ \A s \in Streams :
            /\ s \in Seq([win : STRING, key : Keys, ts : Nat, due : Nat, id : Nat])
            /\ \A m, n \in DOMAIN s : s[m].id = s[n].id => m = n

VARIABLES
    events,     \* the stream
    closeAtEos, \* batch semantics (cmd_gen) or those of a replay
    pass,       \* "preload", "main", "eos" or "done"
    at,         \* events the pass has consumed
    cur,        \* the event the rules are driven with: [ev, from]
    left,       \* the rules that have yet to meet it, or the end of the stream
    due,        \* deferred joins that a rule has taken out and not evaluated
    feed,       \* feed_queue from feed_index on: [ev, from]
    eng,        \* state of each rule
    alerts,     \* what has been raised
    fed         \* history: per rule, what it was driven with: [ev, from]

vars == << events, closeAtEos, pass, at, cur, left, due, feed, eng, alerts, fed >>

\* `from` is the alert that an event was made of, 0 for an event of the stream.
OfStream(ev) == [ev |-> ev, from |-> 0]

Rule == DOMAIN Rules
Stats == {i \in Rule : Rules[i].kind = "stats"}
Engines == Rule \ Stats

\* Windows that one rule yields into and another binds.
IntermediateWindows ==
    {Rules[i].target : i \in Rule} \cap UNION {SX!ToSet(Rules[i].binds) : i \in Rule}

Binds(i, win) == win \in SX!ToSet(Rules[i].binds)
BucketEnd(t) == (t \div Dur) * Dur + Dur

-----------------------------------------------------------------------------
(* A join window: its rows by key, and the index of row times that expiry  *)
(* walks.                                                                  *)

EmptyWindow == [rows |-> [k \in Keys |-> {}], byTs |-> {}]

\* A row of an event; each pass puts in its own.
Row(ev) == [ts |-> ev.ts, id |-> ev.id, copy |-> pass]

\* expire_before: entries at or before watermark - over leave the index, and
\* their keys lose the rows as old.
Expire(w, watermark) ==
    LET cutoff == watermark - Over
        expired == {x.key : x \in {y \in w.byTs : y.ts <= cutoff}}
    IN  [rows |-> [k \in Keys |->
                    IF k \notin expired THEN w.rows[k]
                    ELSE {r \in w.rows[k] : r.ts > cutoff}],
         byTs |-> {x \in w.byTs : x.ts > cutoff}]

\* The row pushed, and its time entered in the index.
Enter(w, ev) == [rows |-> [w.rows EXCEPT ![ev.key] = @ \cup {Row(ev)}],
                 byTs |-> w.byTs \cup {[ts |-> ev.ts, key |-> ev.key]}]

\* Mutant of FeedWindow: every event advances the window's watermark.
FeedWindowByAny(i, w, ev) ==
    IF Rules[i].join # ev.win THEN Expire(w, ev.ts) ELSE Enter(Expire(w, ev.ts), ev)

\* feed_window: only the window's own events advance it and are kept.
FeedWindow(i, w, ev) ==
    IF Rules[i].join # ev.win THEN w ELSE Enter(Expire(w, ev.ts), ev)

-----------------------------------------------------------------------------
(* What a rule puts out: the alert, and the event it becomes for the rules *)
(* that bind its target.                                                   *)

Output(i, ev, ts, origin, joined) ==
    [rule |-> i, ts |-> ts, key |-> ev.key, id |-> ev.id, origin |-> origin,
     joined |-> joined, intermediate |-> FALSE]

Intermediate(o) == Rules[o.rule].target \in IntermediateWindows

\* record_to_event.
AsEvent(o) == [win |-> Rules[o.rule].target, key |-> o.key, ts |-> o.ts,
               due |-> o.ts, id |-> o.id]

\* Mutant of Queued: what a deferred join yields is only raised.
QueuedButDeferred(o) ==
    IF Intermediate(o) /\ Rules[o.rule].kind # "deferred"
    THEN << [ev |-> AsEvent(o), from |-> Len(alerts) + 1] >> ELSE << >>

\* An output into an intermediate window is also an event.
Queued(o) ==
    IF Intermediate(o) THEN << [ev |-> AsEvent(o), from |-> Len(alerts) + 1] >> ELSE << >>

RecordOutput(o) ==
    /\ feed' = feed \o Queued(o)
    /\ alerts' = Append(alerts, [o EXCEPT !.intermediate = Intermediate(o)])

\* push_alert, for several outputs: raised, and not fed back.
PushAlerts(outs) == alerts' = alerts \o outs /\ UNCHANGED feed

-----------------------------------------------------------------------------
(* Deferred joins. *)

\* Mutant of Due: an instance due at the watermark waits for the next event.
DueBefore(d, watermark) == {p \in d.pending : p.due < watermark}

\* pop_due: the instances due at the watermark.
Due(d, watermark) == {p \in d.pending : p.due <= watermark}

\* ... which are evaluated in order of their due time, then of arrival.
NoLater(p, q) == p.due < q.due \/ (p.due = q.due /\ p.id <= q.id)

\* execute_deferred_join (external): an inner join over the rows of the key
\* within [ts, due]; nothing is put out when there are none.
Joined(w, p) == {r \in w.rows[p.key] : p.ts <= r.ts /\ r.ts <= p.due}

\* An event of a deferred rule waits until its due time (the ring of pending
\* instances and the watermark only this rule's own events advance).
Pend(i, e, ev) ==
    [e EXCEPT !.watermark = IF ev.ts > @ THEN ev.ts ELSE @,
              !.pending = @ \cup {[rule |-> i, key |-> ev.key, ts |-> ev.ts,
                                   due |-> ev.due, id |-> ev.id]}]

-----------------------------------------------------------------------------
(* Fixed windows. *)

\* scan_expired_at_with_conv (external): instances that ended by time t.
Expired(e, t) == {x \in e.inst : x.end <= t}

\* collect_close_alerts: raised with the reason of the close, never fed back.
CloseOutputs(i, instances, reason) ==
    LET order == SX!SetToSeq(instances)
    IN  [n \in DOMAIN order |->
            Output(i, [key |-> order[n].key, id |-> 0], order[n].end, reason, {})]

\* Mutant of MustScan: only a later bucket is scanned.
MustScanForward(e, t) == t \div Dur > e.bucket

\* Scanned only when the event is in another bucket than the last scan.
MustScan(e, t) == t \div Dur # e.bucket

-----------------------------------------------------------------------------
(* Statistics rules. *)

\* The rows of the open window, each with the end of the window.
Counted(e) == [n \in DOMAIN e.rows |-> [end |-> e.end, row |-> e.rows[n]]]

\* StatsOracleEngine::feed: an event at or past the end of the open window
\* closes it and opens its own; any other counts in the open window.
FeedStats(e, ev) ==
    IF e.end = 0 THEN [e EXCEPT !.end = BucketEnd(ev.ts), !.rows = << ev >>]
    ELSE IF ev.ts < e.end THEN [e EXCEPT !.rows = Append(@, ev)]
    ELSE [e EXCEPT !.closed = @ \o Counted(e), !.end = BucketEnd(ev.ts), !.rows = << ev >>]

\* close_tail.
CloseTail(e) ==
    IF e.end = 0 THEN e ELSE [e EXCEPT !.closed = @ \o Counted(e), !.rows = << >>]

-----------------------------------------------------------------------------
(* The evaluator. *)

\* A rule with no event yet: no watermark, no bucket scanned, no window open.
NewEngine == [win |-> EmptyWindow, watermark |-> -1, pending |-> {},
              inst |-> {}, bucket |-> -1, end |-> 0, rows |-> << >>, closed |-> << >>]

Init ==
    /\ events \in Streams /\ closeAtEos \in BOOLEAN
    /\ pass = "preload" /\ at = 0
    /\ cur = << >> /\ left = {} /\ due = {} /\ feed = << >>
    /\ alerts = << >>
    /\ eng = [i \in Rule |-> NewEngine]
    /\ fed = [i \in Rule |-> << >>]

\* The preload pass: the next event goes through the join windows only.
Preload ==
    /\ pass = "preload" /\ at < Len(events)
    /\ at' = at + 1
    /\ eng' = [i \in Rule |->
                [eng[i] EXCEPT !.win = IF i \in Engines THEN FeedWindow(i, @, events[at + 1]) ELSE @]]
    /\ UNCHANGED << events, closeAtEos, pass, cur, left, due, feed, alerts, fed >>

MainPass ==
    /\ pass = "preload" /\ at = Len(events)
    /\ pass' = "main" /\ at' = 0
    /\ UNCHANGED << events, closeAtEos, cur, left, due, feed, eng, alerts, fed >>

\* Every rule has met the event, and nothing it has taken out is left.
Resting == left = {} /\ due = {}

\* The rules are to be driven with an event; those of statistics come first,
\* and count it if they bind its window.
Take(entry) ==
    LET Counts(i) == i \in Stats /\ Binds(i, entry.ev.win)
    IN  /\ cur' = entry /\ left' = Engines
        /\ eng' = [i \in Rule |-> IF Counts(i) THEN FeedStats(eng[i], entry.ev) ELSE eng[i]]
        /\ fed' = [i \in Rule |-> IF Counts(i) THEN Append(fed[i], entry) ELSE fed[i]]

\* The next event of the stream, once nothing is left to feed back.
NextEvent ==
    /\ pass = "main" /\ Resting /\ feed = << >> /\ at < Len(events)
    /\ at' = at + 1
    /\ Take(OfStream(events[at + 1]))
    /\ UNCHANGED << events, closeAtEos, pass, due, feed, alerts >>

\* The next intermediate event of this one.
FeedBack ==
    /\ pass = "main" /\ Resting /\ feed # << >>
    /\ Take(Head(feed))
    /\ feed' = Tail(feed)
    /\ UNCHANGED << events, closeAtEos, pass, at, due, alerts >>

-----------------------------------------------------------------------------
(* One rule meets the event.  What an event of the stream does before it is *)
(* looked at: the join window is fed, and expired instances close.          *)

Turn(i) == due = {} /\ i \in left /\ \A j \in left : i <= j

Scans(i, ev) == Rules[i].kind = "close" /\ MustScan(eng[i], ev.ts)
Gone(i, ev) == IF Scans(i, ev) THEN Expired(eng[i], ev.ts) ELSE {}
Ahead(i, ev) ==
    [eng[i] EXCEPT !.win = FeedWindow(i, @, ev),
                   !.bucket = IF Scans(i, ev) THEN ev.ts \div Dur ELSE @,
                   !.inst = @ \ Gone(i, ev)]
Timeouts(i, ev) == CloseOutputs(i, Gone(i, ev), "close:timeout")

Meet(i) == /\ pass = "main" /\ Turn(i)
           /\ left' = left \ {i}
           /\ UNCHANGED << events, closeAtEos, pass, at, cur >>

\* The rule binds the event's window, and is driven with it.
Drive(i) == /\ Meet(i) /\ Binds(i, cur.ev.win)
            /\ fed' = [fed EXCEPT ![i] = Append(@, cur)]

\* `on each`, at once, with the rows of a join if there is one (external).
EachOutput(i, w, ev) == Output(i, ev, ev.ts, "event", w.rows[ev.key])

Instance(e, ev) ==
    [e EXCEPT !.inst = @ \cup {[key |-> ev.key, end |-> BucketEnd(ev.ts)]}]

\* The rule does not use the window of the event.
PassBy(i) ==
    /\ Meet(i) /\ ~ Binds(i, cur.ev.win)
    /\ IF cur.from = 0
       THEN /\ eng' = [eng EXCEPT ![i] = Ahead(i, cur.ev)]
            /\ PushAlerts(Timeouts(i, cur.ev))
       ELSE UNCHANGED << eng, alerts, feed >>
    /\ UNCHANGED << due, fed >>

DriveEach(i) ==
    /\ Drive(i) /\ cur.from = 0 /\ Rules[i].kind = "each"
    /\ eng' = [eng EXCEPT ![i] = Ahead(i, cur.ev)]
    /\ RecordOutput(EachOutput(i, Ahead(i, cur.ev).win, cur.ev))
    /\ UNCHANGED due

\* The event waits, and what is due by now is taken out.
DriveDeferred(i) ==
    /\ Drive(i) /\ cur.from = 0 /\ Rules[i].kind = "deferred"
    /\ LET waiting == Pend(i, Ahead(i, cur.ev), cur.ev)
       IN  /\ due' = Due(waiting, waiting.watermark)
           /\ eng' = [eng EXCEPT ![i] = [waiting EXCEPT !.pending = @ \ due']]
    /\ UNCHANGED << alerts, feed >>

DriveClose(i) ==
    /\ Drive(i) /\ cur.from = 0 /\ Rules[i].kind = "close"
    /\ eng' = [eng EXCEPT ![i] = Instance(Ahead(i, cur.ev), cur.ev)]
    /\ PushAlerts(Timeouts(i, cur.ev))
    /\ UNCHANGED due

\* process_engine_event: an event fed back feeds no join window, scans nothing
\* and is never deferred.
DriveFedEach(i) ==
    /\ Drive(i) /\ cur.from # 0 /\ Rules[i].kind \in {"each", "deferred"}
    /\ RecordOutput(EachOutput(i, eng[i].win, cur.ev))
    /\ UNCHANGED << eng, due >>

DriveFedClose(i) ==
    /\ Drive(i) /\ cur.from # 0 /\ Rules[i].kind = "close"
    /\ eng' = [eng EXCEPT ![i] = Instance(@, cur.ev)]
    /\ UNCHANGED << due, alerts, feed >>

DriveRule ==
    \E i \in left :
        \/ PassBy(i) \/ DriveEach(i) \/ DriveDeferred(i) \/ DriveClose(i)
        \/ DriveFedEach(i) \/ DriveFedClose(i)

\* One deferred join that is due; at the end of the stream its output is
\* raised and no longer fed back.
EvaluateDue ==
    /\ \E p \in due :
        /\ \A q \in due : NoLater(p, q)
        /\ due' = due \ {p}
        /\ LET rows == Joined(eng[p.rule].win, p)
               out == Output(p.rule, p, p.due, "event", rows)
           IN  IF rows = {} THEN UNCHANGED << alerts, feed >>
               ELSE IF pass = "main" THEN RecordOutput(out) ELSE PushAlerts(<< out >>)
    /\ UNCHANGED << events, closeAtEos, pass, at, cur, left, eng, fed >>

-----------------------------------------------------------------------------
(* The end of the stream. *)

EndOfStream ==
    /\ pass = "main" /\ Resting /\ feed = << >> /\ at = Len(events)
    /\ pass' = "eos" /\ left' = Engines
    /\ UNCHANGED << events, closeAtEos, at, cur, due, feed, eng, alerts, fed >>

\* What one rule still owes: instances that the scenario's end has passed, and
\* in batch mode all deferred joins and all other instances.
Settle(i) ==
    /\ pass = "eos" /\ Turn(i)
    /\ left' = left \ {i}
    /\ LET late == Expired(eng[i], EosTime)
           rest == IF closeAtEos THEN eng[i].inst \ late ELSE {}
       IN  /\ due' = IF closeAtEos THEN eng[i].pending ELSE {}
           /\ eng' = [eng EXCEPT ![i].inst = @ \ (late \cup rest), ![i].pending = @ \ due']
           /\ PushAlerts(CloseOutputs(i, late, "close:timeout")
                            \o CloseOutputs(i, rest, "close:eos"))
    /\ UNCHANGED << events, closeAtEos, pass, at, cur, fed >>

\* The last statistics windows close in either mode.
Finish ==
    /\ pass = "eos" /\ Resting
    /\ pass' = "done"
    /\ eng' = [i \in Rule |-> IF i \in Stats THEN CloseTail(eng[i]) ELSE eng[i]]
    /\ UNCHANGED << events, closeAtEos, at, cur, left, due, feed, alerts, fed >>

Next ==
    \/ Preload \/ MainPass
    \/ NextEvent \/ FeedBack \/ DriveRule \/ EvaluateDue
    \/ EndOfStream \/ (\E i \in left : Settle(i)) \/ Finish

Spec == Init /\ [][Next]_vars

-----------------------------------------------------------------------------
(* Properties. *)

Joining == {i \in Engines : Rules[i].join # None}

\* The events of the stream that the pass has shown to rule i.
Met(i) == IF pass = "main" /\ i \in left /\ cur.from = 0 THEN 1 .. at - 1 ELSE 1 .. at

\* While a rule is driven, its join window holds every row that came before
\* and is younger than the retention, by the time of the window's own stream:
\* a late event of another window evicts nothing.  The index that expiry walks
\* lists the rows, no more and no less: a row it has lost would never expire
\* (window.rs:88-95, 187-211).
JoinSeesWindow ==
    \A i \in Joining :
        LET own == {m \in Met(i) : events[m].win = Rules[i].join}
            w == eng[i].win
        IN  /\ \A m \in own : (\A n \in own : events[m].ts > events[n].ts - Over) =>
                    events[m].id \in {r.id : r \in w.rows[events[m].key]}
            /\ w.byTs = UNION {{[ts |-> r.ts, key |-> k] : r \in w.rows[k]} : k \in Keys}

\* A deferred event is evaluated when the rule's own watermark has reached its
\* due time and not before, puts out at most once, and is not left waiting
\* after that; the end of the stream flushes the rest only in batch mode
\* (mod.rs:355-400, 535-560).  A rule that binds intermediate windows is not
\* meant: it answers what is fed back at once.
DeferredOnce ==
    \A i \in Rule :
        Rules[i].kind = "deferred" /\ (\A win \in IntermediateWindows : ~ Binds(i, win)) =>
            LET outs == {n \in DOMAIN alerts : alerts[n].rule = i}
                Reached(t) == \E m \in DOMAIN fed[i] : t <= fed[i][m].ev.ts
            IN  /\ \A m, n \in outs : alerts[m].id = alerts[n].id => m = n
                /\ \A n \in outs : Reached(alerts[n].ts)
                                    \/ (pass \in {"eos", "done"} /\ closeAtEos)
                /\ \A p \in eng[i].pending : ~ Reached(p.due)
                /\ pass = "done" /\ closeAtEos => eng[i].pending = {}

\* No event that a late output has become reaches rule i: one of a deferred
\* join, or of a rule that answers such events.
Timely(i) ==
    \E late \in SUBSET IntermediateWindows :
        /\ \A win \in late : ~ Binds(i, win)
        /\ \A j \in Rule :
            /\ Rules[j].target \in IntermediateWindows
            /\ Rules[j].kind = "deferred" \/ \E win \in late : Binds(j, win)
            => Rules[j].target \in late

\* Skipping the scan inside one bucket loses no close: once a rule has met an
\* event of the stream, no window is open that had ended by then, late events
\* and a stream that jumps back included (mod.rs:289-306).
InstancesClosed ==
    \A i \in Rule :
        Rules[i].kind = "close" /\ Timely(i) /\ pass = "main" /\ at \in Met(i)
            => \A x \in eng[i].inst : x.end > events[at].ts

\* Every row a statistics rule was given is counted in one window, the one
\* that the latest time met so far falls into, and windows close once and in
\* order, the last one at the end of the stream (mod.rs:661-689, 728-735).
StatsClosed ==
    \A i \in Stats :
        LET rows == eng[i].closed \o Counted(eng[i])
            End(n) == BucketEnd(fed[i][n].ev.ts)
        IN  /\ Len(rows) = Len(fed[i])
            /\ \A n \in DOMAIN fed[i] :
                    /\ rows[n].row = fed[i][n].ev
                    /\ \E m \in 1 .. n : rows[n].end = End(m)
                    /\ \A m \in 1 .. n : rows[n].end >= End(m)
            /\ IF pass = "done" THEN eng[i].rows = << >>
               ELSE \A n \in DOMAIN eng[i].closed : eng[i].closed[n].end < eng[i].end

\* Windows close when they must, of both kinds of rule that keep them and for
\* any order of the times.
ClosedInTime == InstancesClosed /\ StatsClosed

\* Before the next event of the stream, every output into an intermediate
\* window has driven each rule that binds the window, as often as it was put
\* out and in that order, at every level of the chain (mod.rs:466-494; the fix
\* of 2026-08-27).
IntermediateDelivered ==
    pass = "main" /\ Resting /\ feed = << >> =>
        \A i \in Rule :
            LET toRule == {a \in DOMAIN alerts : alerts[a].origin = "event"
                                                /\ Binds(i, Rules[alerts[a].rule].target)}
                back == {n \in DOMAIN fed[i] : fed[i][n].from # 0}
            IN  /\ {fed[i][n].from : n \in back} = toRule
                /\ \A n \in back : fed[i][n].ev = AsEvent(alerts[fed[i][n].from])
                /\ \A m, n \in back : m < n => fed[i][m].from < fed[i][n].from
=============================================================================
