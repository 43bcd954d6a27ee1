------------------------------- MODULE Replay -------------------------------
(***************************************************************************)
(* `wfl replay` and the replay half of `wfl verify` (cmd_replay.rs): the   *)
(* lines of a file are routed to the rules that bind their window, what a  *)
(* stage of a pipeline yields is queued for the next stage, and the end of *)
(* the file closes what is still open.  In verify mode every line first    *)
(* closes, in all rules, the windows its time has passed.                  *)
(*                                                                         *)
(* One action is one line read, one engine scanned or closed, one closed   *)
(* window evaluated, one route taken or one consumer driven.  A rule's     *)
(* state machine and executor (wf_engine)                                  *)
(* are external: fixed windows of length Dur per key that count the events *)
(* of the rule; a "match" rule puts out the Need-th event of a window, a   *)
(* "close" rule an output for a closed window of at least Need events; the *)
(* keys in `fails` make the evaluation of the output fail.                 *)
(***************************************************************************)
EXTENDS Integers, Sequences

CONSTANTS
    RuleFiles,  \* the rule files, each with its compiled rules, sequences of
                \* [kind, binds, first, need, target, fails]
    Schemas,    \* the windows: [name, streams, timeField]
    Pipes,      \* names of pipeline windows (prefix __wf_pipe_)
    Files,      \* the inputs considered, sequences of lines
    Width,      \* length of the fixed windows
    PipeTime,   \* the field that carries the time of a pipeline event
    NoField     \* no time field

ASSUME ReplayAssumption ==
    /\ Width \in Nat \ {0}
    /\ DOMAIN Schemas \subseteq Nat
    /\ \A i, j \in DOMAIN Schemas : Schemas[i].name = Schemas[j].name => i = j
    /\ \A f \in DOMAIN RuleFiles :
        /\ Len(RuleFiles[f]) \in Nat /\ DOMAIN RuleFiles[f] = 1 .. Len(RuleFiles[f])
        /\ \A i \in DOMAIN RuleFiles[f] :
            /\ RuleFiles[f][i].kind \in {"match", "close"} /\ RuleFiles[f][i].need \in Nat \ {0}
            /\ DOMAIN RuleFiles[f][i].binds \subseteq Nat

VARIABLES
    lines,      \* the input
    verifying,  \* scan_expired_each_event
    plans,      \* the compiled rules of the file replayed
    phase,      \* "load", "read", "scan", "route", "eof" or "done"
    line,       \* lines read so far
    watermark,  \* the time of the current line, as inferred
    engine,     \* the engine scanned or closed last
    closing,    \* the windows it has closed whose output is not yet evaluated
    routes,     \* routes of the line not yet taken: the front of the queue
    queue,      \* what stages have yielded, behind them: [route, ev]
    current,    \* the event whose route was taken
    consumers,  \* those of its route it has yet to meet
    open,       \* per engine, the open windows
    raised,     \* the alerts
    counts,     \* event_count, match_count and error_count
    drivenBy    \* history: per engine, the [line, bind] it was driven with

loaded == << lines, verifying, plans >>
replayVars == << loaded, phase, line, watermark, engine, closing, routes, queue, current,
                 consumers, open, raised, counts, drivenBy >>

Plan == DOMAIN plans
Binds == UNION {{[engine |-> i, bind |-> b] : b \in DOMAIN plans[i].binds} : i \in Plan}
BindOf(c) == plans[c.engine].binds[c.bind]
IsPipe(window) == window \in Pipes
IsExternal(c) == ~ IsPipe(BindOf(c).window)

-----------------------------------------------------------------------------
(* Routing tables. *)

\* external_route_key, and a pipeline window's own key.
External(alias) == << "ext", alias >>
Internal(window) == << "pipe", window >>

\* build_all_routes: the consumers of a key, which are driven in rule order.
RouteKey(c) == IF IsExternal(c) THEN External(BindOf(c).alias) ELSE Internal(BindOf(c).window)
Consumers(key) == {c \in Binds : RouteKey(c) = key}
Before(c, d) == c.engine < d.engine \/ (c.engine = d.engine /\ c.bind < d.bind)

\* resolve_event_routes: one for each bind of a window that subscribes the
\* stream; windows come in schema order.
EventRoutes(stream) ==
    {r \in [window : DOMAIN Schemas, to : Binds] :
        /\ stream \in Schemas[r.window].streams
        /\ IsExternal(r.to) /\ BindOf(r.to).window = Schemas[r.window].name}
Precedes(r, s) == r.window < s.window \/ (r.window = s.window /\ Before(r.to, s.to))

\* A window of a schema, looked up by name; NoField when there is none.
SchemaTime(window) ==
    LET found == SelectSeq(Schemas, LAMBDA s : s.name = window)
    IN  IF found = << >> THEN NoField ELSE found[1].timeField

\* resolve_replay_time_field_auto: the bind of the first event step, else the
\* first bind that has a time field.
TimeField(i) ==
    LET Field(b) == IF IsPipe(b.window) THEN PipeTime ELSE SchemaTime(b.window)
        preferred == SelectSeq(plans[i].binds, LAMBDA b : b.alias = plans[i].first)
        known == SelectSeq(preferred \o plans[i].binds, LAMBDA b : Field(b) # NoField)
    IN  IF known = << >> THEN NoField ELSE Field(known[1])

KnownTimeFields == {Schemas[n].timeField : n \in DOMAIN Schemas} \ {NoField}

\* infer_event_watermark_nanos: `_timestamp`, else any known time field of the
\* line: they are in a hash set, so which one is not determined.
Watermarks(json) ==
    IF "_timestamp" \in DOMAIN json.times THEN {json.times["_timestamp"]}
    ELSE {json.times[f] : f \in KnownTimeFields \cap DOMAIN json.times}

-----------------------------------------------------------------------------
(* The external rule engine. *)

WindowEnd(t) == (t \div Width) * Width + Width
Accepts(c, ev) == ev.kind \in BindOf(c).accepts

\* advance_with: the event counts in its window; the state after it, and
\* whether the window has matched and is gone.
Advance(i, windows, ev) ==
    LET end == WindowEnd(ev.times[TimeField(i)])
        same == {w \in windows : w.key = ev.key /\ w.end = end}
        n == IF same = {} THEN 1 ELSE 1 + (CHOOSE w \in same : TRUE).n
        matched == plans[i].kind = "match" /\ n = plans[i].need
    IN  [matched |-> matched,
         windows |-> (windows \ same) \cup
                        (IF matched THEN {} ELSE {[key |-> ev.key, end |-> end, n |-> n]})]

\* The order of the outputs of scan_expired_at_with_conv, close_all_with_conv.
Sooner(v, w) == v.end < w.end \/ (v.end = w.end /\ v.key < w.key)

-----------------------------------------------------------------------------
(* Outputs. *)

Record(i, key, ts, origin) ==
    [rule |-> i, key |-> key, ts |-> ts, origin |-> origin, target |-> plans[i].target]

\* output_record_to_event: the fields and the time of the output.
RecordToEvent(r) == [line |-> line, kind |-> "piped", key |-> r.key,
                     times |-> [f \in {PipeTime} |-> r.ts]]

\* handle_output_record: what a stage yields is queued, all else is an alert.
HandleOutput(record) ==
    IF IsPipe(record.target)
    THEN /\ queue' = Append(queue, [route |-> Internal(record.target), ev |-> RecordToEvent(record)])
         /\ UNCHANGED << raised, counts >>
    ELSE /\ raised' = Append(raised, record)
         /\ counts' = [counts EXCEPT !.matches = @ + 1]
         /\ UNCHANGED queue

\* The executor of a rule: no output, an error, which is counted and stops no
\* other rule, or an output.
Execute(i, matched, key, ts, origin) ==
    IF ~ matched THEN UNCHANGED << queue, raised, counts >>
    ELSE IF key \in plans[i].fails
    THEN counts' = [counts EXCEPT !.errors = @ + 1] /\ UNCHANGED << queue, raised >>
    ELSE HandleOutput(Record(i, key, ts, origin))

-----------------------------------------------------------------------------
(* The event loop. *)

Start ==
    /\ phase = "load" /\ plans = << >>
    /\ line = 0 /\ watermark = 0 /\ engine = 0 /\ closing = {}
    /\ routes = {} /\ queue = << >> /\ current = << >> /\ consumers = {}
    /\ open = << >> /\ raised = << >> /\ drivenBy = << >>
    /\ counts = [events |-> 0, matches |-> 0, errors |-> 0]

InitReplay == lines \in Files /\ verifying \in BOOLEAN /\ Start

\* The rule file is compiled, with an engine for each rule; without rules the
\* input is not read at all.
Load(file) ==
    /\ phase = "load"
    /\ plans' = RuleFiles[file]
    /\ phase' = IF plans' = << >> THEN "done" ELSE "read"
    /\ open' = [i \in DOMAIN plans' |-> {}]
    /\ drivenBy' = [i \in DOMAIN plans' |-> << >>]
    /\ UNCHANGED << lines, verifying, line, watermark, engine, closing, routes, queue, current,
                    consumers, raised, counts >>

\* Everything closed is evaluated and everything queued is routed.
Idle(where) ==
    phase = where /\ closing = {} /\ routes = {} /\ queue = << >> /\ consumers = {}

\* A blank line is passed over, one that is not JSON counted as an error.
SkipLine ==
    /\ Idle("read") /\ line < Len(lines) /\ lines[line + 1].type # "event"
    /\ line' = line + 1
    /\ counts' = [counts EXCEPT !.errors = @ + (IF lines[line'].type = "invalid" THEN 1 ELSE 0)]
    /\ UNCHANGED << loaded, phase, watermark, engine, closing, routes, queue, current, consumers,
                    open, raised, drivenBy >>

\* The next event; the scan comes first if its time is known.
ReadLine ==
    /\ Idle("read") /\ line < Len(lines) /\ lines[line + 1].type = "event"
    /\ line' = line + 1
    /\ LET known == Watermarks(lines[line + 1])
       IN  IF known # {} /\ verifying
           THEN phase' = "scan" /\ engine' = 0 /\ watermark' \in known
           ELSE phase' = "route" /\ UNCHANGED << engine, watermark >>
    /\ UNCHANGED << loaded, closing, routes, queue, current, consumers, open, raised, counts, drivenBy >>

\* Windows of the next engine are closed.
Close(closed) ==
    /\ engine' = engine + 1
    /\ closing' = closed
    /\ open' = [open EXCEPT ![engine + 1] = @ \ closed]
    /\ UNCHANGED << loaded, phase, line, watermark, routes, queue, current, consumers, raised, counts, drivenBy >>

\* Mutant of ScanEngine: a window that ends at the watermark stays open.
ScanLate ==
    /\ Idle("scan") /\ engine + 1 \in Plan
    /\ Close({w \in open[engine + 1] : w.end < watermark})

\* run_timeout_scan_for_engine.
ScanEngine ==
    /\ Idle("scan") /\ engine + 1 \in Plan
    /\ Close({w \in open[engine + 1] : w.end <= watermark})

\* handle_close_outputs_for_engine: the closed windows are evaluated in order,
\* before anything they yield is routed.
EvaluateClose ==
    /\ \E w \in closing :
        /\ \A v \in closing \ {w} : Sooner(w, v)
        /\ closing' = closing \ {w}
        /\ Execute(engine, plans[engine].kind = "close" /\ w.n >= plans[engine].need, w.key, w.end,
                   IF phase = "scan" THEN "close:timeout" ELSE "close:eos")
    /\ UNCHANGED << loaded, phase, line, watermark, engine, routes, current, consumers, open, drivenBy >>

Scanned ==
    /\ Idle("scan") /\ engine + 1 \notin Plan
    /\ phase' = "route"
    /\ UNCHANGED << loaded, line, watermark, engine, closing, routes, queue, current, consumers,
                    open, raised, counts, drivenBy >>

\* json_to_event_with_time_fields: the fields of the line, its times parsed.
JsonToEvent(json) == [line |-> line, kind |-> json.kind, key |-> json.key, times |-> json.times]

\* The event is counted and queued once for each route.
RouteEvent ==
    /\ Idle("route")
    /\ phase' = "read"
    /\ routes' = EventRoutes(lines[line].stream)
    /\ counts' = [counts EXCEPT !.events = @ + 1]
    /\ UNCHANGED << loaded, line, watermark, engine, closing, queue, current, consumers, open, raised, drivenBy >>

\* The front of the queue: a route of the line is its alias, whosever bind it was.
TakeRoute ==
    /\ consumers = {} /\ closing = {}
    /\ \E r \in routes :
        /\ \A s \in routes \ {r} : Precedes(r, s)
        /\ routes' = routes \ {r}
        /\ current' = JsonToEvent(lines[line])
        /\ consumers' = Consumers(External(BindOf(r.to).alias))
    /\ UNCHANGED << loaded, phase, line, watermark, engine, closing, queue, open, raised, counts, drivenBy >>

TakeQueued ==
    /\ consumers = {} /\ closing = {} /\ routes = {} /\ queue # << >>
    /\ queue' = Tail(queue)
    /\ current' = Head(queue).ev
    /\ consumers' = Consumers(Head(queue).route)
    /\ UNCHANGED << loaded, phase, line, watermark, engine, closing, routes, open, raised, counts, drivenBy >>

\* A consumer's machine advances, and a match is evaluated.
Drive(c) ==
    LET i == c.engine
        step == Advance(i, open[i], current)
    IN  /\ open' = [open EXCEPT ![i] = step.windows]
        /\ drivenBy' = [drivenBy EXCEPT ![i] = Append(@, [line |-> current.line, bind |-> c.bind])]
        /\ Execute(i, step.matched, current.key, current.times[TimeField(i)], "event")

\* Mutant of RouteOnce: a consumer is driven whatever its bind's filter says.
RouteUnfiltered ==
    /\ \E c \in consumers :
        /\ \A d \in consumers \ {c} : Before(c, d)
        /\ consumers' = consumers \ {c}
        /\ Drive(c)
    /\ UNCHANGED << loaded, phase, line, watermark, engine, closing, routes, current >>

\* route_event_once, one iteration: the next consumer meets the event if its
\* bind's filter accepts it.
RouteOnce ==
    /\ \E c \in consumers :
        /\ \A d \in consumers \ {c} : Before(c, d)
        /\ consumers' = consumers \ {c}
        /\ IF Accepts(c, current) THEN Drive(c)
           ELSE UNCHANGED << queue, open, raised, counts, drivenBy >>
    /\ UNCHANGED << loaded, phase, line, watermark, engine, closing, routes, current >>

\* Mutant of EndOfFile: what is open stays open.
EndWithoutClosing ==
    /\ Idle("read") /\ line = Len(lines)
    /\ phase' = "eof" /\ engine' = Len(plans)
    /\ UNCHANGED << loaded, line, watermark, closing, routes, queue, current, consumers,
                    open, raised, counts, drivenBy >>

EndOfFile ==
    /\ Idle("read") /\ line = Len(lines)
    /\ phase' = "eof" /\ engine' = 0
    /\ UNCHANGED << loaded, line, watermark, closing, routes, queue, current, consumers,
                    open, raised, counts, drivenBy >>

\* close_all_with_conv of each engine in turn, in both modes.
CloseEngine ==
    /\ Idle("eof") /\ engine + 1 \in Plan
    /\ Close(open[engine + 1])

Finish ==
    /\ Idle("eof") /\ engine + 1 \notin Plan
    /\ phase' = "done"
    /\ UNCHANGED << loaded, line, watermark, engine, closing, routes, queue, current, consumers,
                    open, raised, counts, drivenBy >>

ReplayNext ==
    \/ SkipLine \/ ReadLine \/ ScanEngine \/ EvaluateClose \/ Scanned
    \/ RouteEvent \/ TakeRoute \/ TakeQueued \/ RouteOnce
    \/ EndOfFile \/ CloseEngine \/ Finish

ReplaySpec == InitReplay /\ [][(\E file \in DOMAIN RuleFiles : Load(file)) \/ ReplayNext]_replayVars

-----------------------------------------------------------------------------
(* Properties. *)

\* A line that a rule must meet by one of its binds.
Meets(c, n) ==
    /\ lines[n].type = "event" /\ IsExternal(c) /\ lines[n].kind \in BindOf(c).accepts
    /\ \E m \in DOMAIN Schemas :
            Schemas[m].name = BindOf(c).window /\ lines[n].stream \in Schemas[m].streams
WindowAt(c) == CHOOSE m \in DOMAIN Schemas : Schemas[m].name = BindOf(c).window

\* "Find which binds reference that window; apply each bind's filter; route
\* matching events to the appropriate engine" (cmd_replay.rs:214-222): between
\* two lines a rule has met each line once for every bind of its own that
\* references a window of the line's stream and accepts it, and no other; in the
\* order of the lines and, for one line, of the windows and the binds, whatever
\* failed in another rule.
RoutedAsBound ==
    Idle("read") \/ phase = "done" =>
        \A i \in Plan :
            LET At(d) == [engine |-> i, bind |-> d.bind]
                met == {n \in DOMAIN drivenBy[i] : IsExternal(At(drivenBy[i][n]))}
            IN  /\ {drivenBy[i][n] : n \in met} =
                       {d \in [line : 1 .. line, bind : DOMAIN plans[i].binds] : Meets(At(d), d.line)}
                /\ \A m, n \in met : m < n =>
                       LET d == drivenBy[i][m]
                           e == drivenBy[i][n]
                       IN  \/ d.line < e.line
                           \/ d.line = e.line /\ Precedes([window |-> WindowAt(At(d)), to |-> At(d)],
                                                          [window |-> WindowAt(At(e)), to |-> At(e)])

\* Once the scan before a line is over, no rule has a window open that ended by
\* the time of the line, those that the scan of an earlier stage has opened
\* included (cmd_replay.rs:296-312).  And the end of the file closes everything:
\* a stage is closed before the stages it feeds, and what it yields has reached
\* them by then (cmd_replay.rs:341-363, the fix of issue #23).
NothingLeftOpen ==
    /\ Idle("scan") /\ engine + 1 \notin Plan =>
            \A i \in Plan : \A w \in open[i] : ~ (w.end <= watermark)
    /\ phase = "done" => \A i \in Plan : open[i] = {}
=============================================================================
