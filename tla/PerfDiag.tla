------------------------------ MODULE PerfDiag ------------------------------
(***************************************************************************)
(* `wfgen perf-diag` (wfgen, cmd_perf_diag): the driver that measures the  *)
(* engine stage by stage through a file.  It sends a prefix of the frame   *)
(* file and, behind it on the same connection, a sentinel {round, n,       *)
(* start_ns}; the engine answers by appending records to                   *)
(* perf_sentinel.ndjson, which the driver polls.  The rates it computes    *)
(* become the wall table, a baseline or a gate's verdict (PerfGate).       *)
(*                                                                         *)
(* The engine is outside the repository: EngineEmit and EngineSwitch are   *)
(* what the driver, its mock engine (tests.rs:119-158) and the sink        *)
(* template say of it.  Sessions of the driver follow one another, as the  *)
(* documentation has them do: one to record a baseline, then the gate.     *)
(*                                                                         *)
(* A wall-clock reading is the number of the send it stamps; the time the  *)
(* engine takes is the record's dt = emit_ns - start_ns.                   *)
(***************************************************************************)
EXTENDS PerfGate, FiniteSets

CONSTANTS
    Stages,         \* the [[stages]] of perf-diag.toml, a sequence of names
    Frames,         \* the rows of each frame of the frame file
    NList,          \* --n-list
    Rounds,         \* --rounds
    Gate,           \* the configuration --gate names
    RuleSets,       \* rule sets the engine may run
    Cost,           \* Cost[stage][rule set]: time one row takes
    Load,           \* the factor by which load stretches a measurement
    MaxLoads,       \* bound: measurements under load
    CleanStart,     \* whether the daemon is restarted on an empty file
                    \*   before every session
    MaxSessions,    \* bound: sessions of the driver
    MaxFaults,      \* bound: timeouts, broken sends, clocks set back
    MaxRuleChanges  \* bound: edits of the rule set

ASSUME RunAssumption ==
    /\ Stages \in Seq(STRING) \ {<< >>} /\ NList \in Seq(Nat) \ {<< >>}
    /\ Frames # << >>
    /\ Rounds \in Nat \ {0}
    /\ CleanStart \in BOOLEAN

VARIABLES
    sfile,      \* the records of perf_sentinel.ndjson, oldest first
    engine,     \* the engine: stage in force, connections to read, a switch due
    rules,      \* the rule set the engine runs
    fresh,      \* the daemon has been restarted on an empty file since the last session
    pc,         \* where the driver is
    mode,       \* "diag", "record" (--record-baseline) or "gate" (--gate)
    k, ni, r,   \* its loop indices: stage, entry of NList, round
    best,       \* best_eps of the current point
    t0,         \* start_ns of the last send (also the number of sends so far)
    wall,       \* the rows of the wall table
    used,       \* history: what each measurement of the session was read from
    baseline,   \* the baseline file (empty: absent)
    verdict,    \* the last session's result
    bounds      \* counters behind MaxSessions, MaxFaults, MaxRuleChanges, MaxLoads

driver == << pc, mode, k, ni, r, best, t0, wall, used >>
results == << baseline, verdict >>
vars == << sfile, engine, rules, fresh, driver, results, bounds >>

-----------------------------------------------------------------------------
(* Records of the file, and the frame prefix of a row count. *)

StageRecord(s) == [type |-> "stage", current |-> s]

IsStage(rec, s) == rec.type = "stage" /\ rec.current = s

\* Mutant of IsSentinel: the row count is not compared.
IsSentinelAnyN(rec, round, n) == rec.type = "sentinel" /\ rec.round = round

IsSentinel(rec, round, n) ==
    rec.type = "sentinel" /\ rec.round = round /\ rec.n = n

RowsOf(frames) == SE!FoldLeft(LAMBDA sum, rows : sum + rows, 0, frames)

\* prefix_range_for_n: the rows of the shortest frame prefix that covers the
\* target (at least one frame), all rows when none does.
SentRows(target) ==
    LET sums == {RowsOf(SubSeq(Frames, 1, i)) : i \in DOMAIN Frames}
        covering == {s \in sums : s >= target}
    IN  IF covering = {} THEN RowsOf(Frames) ELSE FSE!Min(covering)

\* compute_eps, over integers.
EpsOf(n, dt) == (n * Unit) \div dt

LastStage == Len(Stages) - 1
Sent == SentRows(NList[ni])

\* Where the records are that the current measurement may be read from, and
\* which of them (if any) has that number of others before it.
Matching == LET n == Sent IN {i \in DOMAIN sfile : IsSentinel(sfile[i], k, n)}
Matched(occurrence) ==
    {i \in Matching : Cardinality({j \in Matching : j < i}) = occurrence}

-----------------------------------------------------------------------------
NoDriver == /\ pc = "idle" /\ mode = "diag"
            /\ k = 0 /\ ni = 1 /\ r = 0 /\ best = 0 /\ t0 = 0
            /\ wall = << >> /\ used = << >>

Init ==
    /\ sfile = << StageRecord(0) >>
    /\ engine = [stage |-> 0, inbox |-> << >>, due |-> FALSE]
    /\ rules \in RuleSets
    /\ fresh = TRUE
    /\ NoDriver
    /\ baseline = << >> /\ verdict = "none"
    /\ bounds = [sessions |-> 0, faults |-> 0, changes |-> 0, loads |-> 0]

Fault == /\ bounds.faults < MaxFaults
         /\ bounds' = [bounds EXCEPT !.faults = @ + 1]

-----------------------------------------------------------------------------
(* The driver: run_perf_diag. *)

\* A session starts; --gate and --record-baseline exclude each other, so a
\* session has one mode.  Configuration, frames and n-list are valid.
Begin(m) ==
    /\ pc = "idle"
    /\ bounds.sessions < MaxSessions
    /\ CleanStart => fresh
    /\ pc' = "stage" /\ mode' = m
    /\ k' = 0 /\ ni' = 1 /\ r' = 0 /\ best' = 0
    /\ wall' = << >> /\ used' = << >>
    /\ verdict' = "none"
    /\ fresh' = FALSE
    /\ bounds' = [bounds EXCEPT !.sessions = @ + 1]
    /\ UNCHANGED << sfile, engine, rules, t0, baseline >>

\* An error return of the driver: no table, no verdict.
Abort == /\ pc' = "idle"
         /\ verdict' = "Error"
         /\ UNCHANGED << mode, k, ni, r, best, t0, wall, used, baseline >>

\* wait_for_stage: some record of the file says that stage k is applied.
StageApplied ==
    /\ pc = "stage"
    /\ \E i \in DOMAIN sfile : IsStage(sfile[i], k)
    /\ pc' = "send"
    /\ ni' = 1 /\ r' = 0 /\ best' = 0
    /\ UNCHANGED << sfile, engine, rules, fresh, mode, k, t0, wall, used,
                    results, bounds >>

\* ... and the deadline passes without one.
StageTimeout ==
    /\ pc = "stage"
    /\ ~\E i \in DOMAIN sfile : IsStage(sfile[i], k)
    /\ Fault /\ Abort
    /\ UNCHANGED << sfile, engine, rules, fresh >>

\* send_payload_stream: the prefix and the sentinel behind it, one connection.
Send ==
    /\ pc = "send"
    /\ t0' = t0 + 1
    /\ engine' = [engine EXCEPT !.inbox =
                    Append(@, [round |-> k, n |-> Sent, start |-> t0 + 1])]
    /\ pc' = "sentinel"
    /\ UNCHANGED << sfile, rules, fresh, mode, k, ni, r, best, wall, used,
                    results, bounds >>

\* The connection cannot be made, or breaks before the sentinel is out: the
\* engine gets rows at most.
SendBreaks ==
    /\ pc = "send"
    /\ Fault /\ Abort
    /\ UNCHANGED << sfile, engine, rules, fresh >>

\* The row of a point is complete: the next row count, the next stage or the end.
NextPoint(value) ==
    /\ wall' = Append(wall, [stage |-> Stages[k + 1], n |-> NList[ni], eps |-> value])
    /\ r' = 0 /\ best' = 0
    /\ IF ni < Len(NList)
       THEN ni' = ni + 1 /\ k' = k /\ pc' = "send"
       ELSE /\ ni' = 1
            /\ IF k < LastStage THEN k' = k + 1 /\ pc' = "stage"
               ELSE k' = k /\ pc' = "report"

\* Mutant of SentinelRead: occurrences are counted from one.
SentinelReadLater ==
    /\ pc = "sentinel"
    /\ \E i \in Matched(r + 1) :
         LET rec == sfile[i]
             eps == EpsOf(rec.n, rec.dt)
             high == FSE!Max({best, eps})
         IN  /\ rec.dt > 0
             /\ used' = Append(used, [k |-> k, ni |-> ni, t0 |-> t0,
                                      start |-> rec.start, eps |-> eps])
             /\ IF r + 1 < Rounds
                THEN /\ r' = r + 1 /\ best' = high /\ pc' = "send"
                     /\ UNCHANGED << k, ni, wall >>
                ELSE NextPoint(high)
    /\ UNCHANGED << sfile, engine, rules, fresh, mode, t0, results, bounds >>

\* wait_for_sentinel finds record number r of {round = k, n = sent rows}; its
\* rate counts towards the best of the point.
SentinelRead ==
    /\ pc = "sentinel"
    /\ \E i \in Matched(r) :
         LET rec == sfile[i]
             eps == EpsOf(rec.n, rec.dt)
             high == FSE!Max({best, eps})
         IN  /\ rec.dt > 0
             /\ used' = Append(used, [k |-> k, ni |-> ni, t0 |-> t0,
                                      start |-> rec.start, eps |-> eps])
             /\ IF r + 1 < Rounds
                THEN /\ r' = r + 1 /\ best' = high /\ pc' = "send"
                     /\ UNCHANGED << k, ni, wall >>
                ELSE NextPoint(high)
    /\ UNCHANGED << sfile, engine, rules, fresh, mode, t0, results, bounds >>

\* The record's times are out of order: compute_eps has no value.
SentinelBad ==
    /\ pc = "sentinel"
    /\ \E i \in Matched(r) : sfile[i].dt <= 0
    /\ Abort
    /\ UNCHANGED << sfile, engine, rules, fresh, bounds >>

\* The deadline passes; the engine may still answer later.
SentinelTimeout ==
    /\ pc = "sentinel"
    /\ Matched(r) = {}
    /\ Fault /\ Abort
    /\ UNCHANGED << sfile, engine, rules, fresh >>

\* Mutant of Report: the gate's own table becomes the baseline first.
ReportRecordsFirst ==
    /\ pc = "report"
    /\ pc' = "idle"
    /\ baseline' = IF mode \in {"record", "gate"} THEN wall ELSE baseline
    /\ verdict' = IF mode = "gate" THEN Evaluate(Gate, wall, wall) ELSE "NotApplied"
    /\ UNCHANGED << sfile, engine, rules, fresh, mode, k, ni, r, best, t0, wall,
                    used, bounds >>

\* The table is written; then the baseline is recorded or the gate judges.
Report ==
    /\ pc = "report"
    /\ pc' = "idle"
    /\ baseline' = IF mode = "record" THEN wall ELSE baseline
    /\ verdict' = IF mode = "gate" THEN Evaluate(Gate, wall, baseline) ELSE "NotApplied"
    /\ UNCHANGED << sfile, engine, rules, fresh, mode, k, ni, r, best, t0, wall,
                    used, bounds >>

-----------------------------------------------------------------------------
(* The engine and its operator. *)

\* A connection's rows are drained: the sentinel's record is written.  dt is
\* the rows' cost under the stage in force, stretched by load, or nothing when
\* the clock is set back.
EngineEmit ==
    /\ engine.inbox # << >>
    /\ LET msg == Head(engine.inbox)
           Record(dt) == [type |-> "sentinel", round |-> msg.round, n |-> msg.n,
                          start |-> msg.start, dt |-> dt, under |-> engine.stage]
           rowsCost == msg.n * Cost[Stages[engine.stage + 1]][rules]
       IN  /\ \/ /\ sfile' = Append(sfile, Record(rowsCost))
                 /\ UNCHANGED bounds
              \/ /\ bounds.loads < MaxLoads
                 /\ bounds' = [bounds EXCEPT !.loads = @ + 1]
                 /\ sfile' = Append(sfile, Record(rowsCost * Load))
              \/ /\ Fault
                 /\ sfile' = Append(sfile, Record(0))
           /\ engine' = [engine EXCEPT
                            !.inbox = Tail(@),
                            !.due = @ \/ (msg.round = engine.stage
                                            /\ engine.stage < LastStage)]
    /\ UNCHANGED << rules, fresh, driver, results >>

\* The sentinel of the stage in force makes the engine apply the next one.
EngineSwitch ==
    /\ engine.due
    /\ engine' = [engine EXCEPT !.stage = @ + 1, !.due = FALSE]
    /\ sfile' = Append(sfile, StageRecord(engine.stage + 1))
    /\ UNCHANGED << rules, fresh, driver, results, bounds >>

\* The daemon is restarted on an empty file: it applies stage 0 and says so.
Restart ==
    /\ CleanStart /\ ~fresh /\ pc = "idle"
    /\ bounds.sessions < MaxSessions
    /\ engine' = [stage |-> 0, inbox |-> << >>, due |-> FALSE]
    /\ sfile' = << StageRecord(0) >>
    /\ fresh' = TRUE
    /\ UNCHANGED << rules, driver, results, bounds >>

\* The rules are edited, and reloaded, between two sessions.
EditRules ==
    /\ pc = "idle"
    /\ bounds.changes < MaxRuleChanges
    /\ bounds' = [bounds EXCEPT !.changes = @ + 1]
    /\ \E other \in RuleSets \ {rules} : rules' = other
    /\ UNCHANGED << sfile, engine, fresh, driver, results >>

-----------------------------------------------------------------------------
Modes == {"diag", "record", "gate"}

DriverStep == \/ StageApplied \/ Send \/ SentinelRead \/ SentinelBad \/ Report

Next ==
    \/ \E m \in Modes : Begin(m)
    \/ DriverStep
    \/ StageTimeout \/ SendBreaks \/ SentinelTimeout
    \/ EngineEmit \/ EngineSwitch
    \/ Restart \/ EditRules

Spec == Init /\ [][Next]_vars

\* The driver polls without end until its deadline, the engine reads what it
\* is sent and applies what it owes.
FairSpec == /\ Spec
            /\ WF_vars(DriverStep)
            /\ WF_vars(EngineEmit) /\ WF_vars(EngineSwitch)

-----------------------------------------------------------------------------
(* Properties. *)

\* A rate is computed from the send it follows: the record read is the answer
\* to the sentinel the driver has just sent (mod.rs:8-11, T0 of the send is
\* the start_ns of the rate).
OwnAnswer == \A i \in DOMAIN used : used[i].start = used[i].t0

\* The first data sent for a stage is processed under that stage: what the
\* engine reported as applied is still in force (mod.rs:206, wait for the
\* switch).  What follows its sentinel is measured under whatever the engine
\* has moved on to, which is the engine's affair.
OwnStage ==
    \A i \in DOMAIN sfile :
        sfile[i].type = "sentinel"
            => \/ sfile[i].under = sfile[i].round
               \/ \E j \in 1 .. i - 1 : /\ sfile[j].type = "sentinel"
                                       /\ sfile[j].round = sfile[i].round

\* A measurement is of what the driver has sent, under the stage it is for.
OwnMeasurement == OwnAnswer /\ OwnStage

\* The rates the rule set in force would show, without load.
TrueWall ==
    [i \in 1 .. Len(Stages) * Len(NList) |->
        LET s == Stages[((i - 1) \div Len(NList)) + 1]
            target == NList[((i - 1) % Len(NList)) + 1]
        IN  [stage |-> s, n |-> target,
             eps |-> EpsOf(SentRows(target), SentRows(target) * Cost[s][rules])]]

\* The gate stops a rule set that is too slow: a session passes only when the
\* rules then in force pass it (docs/useage/ai_native_rule_dev_loop.md:100).
GateCatchesRegression ==
    [][(Report /\ mode = "gate" /\ verdict' = "Passed")
            => Evaluate(Gate, TrueWall, baseline) = "Passed"]_vars

\* The two sides never wait for one another: once nothing fails any more, a
\* session that goes on is reported (wait_for_stage, wait_for_sentinel).
SessionIsReported ==
    (pc = "stage" /\ bounds.faults = MaxFaults) ~> (pc = "report")
=============================================================================
