------------------------------ MODULE MCReplay ------------------------------
(***************************************************************************)
(* Instances of Replay for TLC, in two modes.  "verify": the oracle        *)
(* evaluates the rules of a case over a generated stream, wfgen writes the *)
(* stream and the alerts, and `wfl verify` replays the one and compares it *)
(* with the other.  "replay": files with several rules and any lines.      *)
(***************************************************************************)
EXTENDS WflVerify

SE == INSTANCE SequencesExt

CONSTANTS MaxLines, MaxTime, MaxEvents, EosTime

VARIABLES mode, events, closeAtEos, pass, at, cur, left, due, feed, eng, alerts, fed
oracleVars == << events, closeAtEos, pass, at, cur, left, due, feed, eng, alerts, fed >>

Keys == {1, 2}
MCPipes == {"__wf_pipe_1"}

\* auth rows come on stream s1, which the conn window also subscribes.
MCSchemas == << [name |-> "auth", streams |-> {"s1"}, timeField |-> "event_time"],
                [name |-> "conn", streams |-> {"s1", "s2"}, timeField |-> "conn_time"] >>

Bind(alias, window, accepts) == [alias |-> alias, window |-> window, accepts |-> accepts]
Any == {"bad", "benign"}
BruteRules ==
    << [kind |-> "close", binds |-> << Bind("e", "auth", Any) >>, first |-> "e",
        need |-> 1, target |-> "out", fails |-> {}] >>
\* A pipeline of two closing stages, and a rule with two sources.
PipeRules ==
    << [kind |-> "close", binds |-> << Bind("a", "auth", {"bad"}) >>, first |-> "a",
        need |-> 1, target |-> "__wf_pipe_1", fails |-> {}],
       [kind |-> "close", binds |-> << Bind("p", "__wf_pipe_1", {"piped"}) >>, first |-> "p",
        need |-> 1, target |-> "out", fails |-> {2}],
       [kind |-> "match", binds |-> << Bind("c", "conn", Any), Bind("d", "auth", {"benign"}) >>,
        first |-> "c", need |-> 2, target |-> "out", fails |-> {1}] >>
\* Two rules that both call their source `e`.
SharedRules ==
    << [kind |-> "match", binds |-> << Bind("e", "auth", Any) >>, first |-> "e",
        need |-> 2, target |-> "out", fails |-> {}],
       [kind |-> "match", binds |-> << Bind("e", "conn", Any) >>, first |-> "e",
        need |-> 2, target |-> "out", fails |-> {}] >>

Case == << "brute", "force" >>
BruteFile == << "rules", << "brute" >> >>
MCRuleFiles == [f \in {BruteFile, << "rules", Case >>} |-> IF f = BruteFile THEN BruteRules ELSE << >>]
PipeFile == << "rules", << "pipe" >> >>
PipeFiles == [f \in {PipeFile} |-> PipeRules]
SharedFiles == [f \in {PipeFile} |-> SharedRules]

Line(stream, kind, key, times) ==
    [type |-> "event", stream |-> stream, kind |-> kind, key |-> key, times |-> times]
Stamps(t) == {[f \in {"_timestamp", "event_time", "conn_time"} |-> t],
              [f \in {"event_time", "conn_time"} |-> IF f = "event_time" THEN t ELSE t + 1]}
AnyLine == UNION {{Line(s, k, key, times) : s \in {"s1", "s2"}, k \in Any, key \in Keys, times \in Stamps(t)}
                  : t \in 0 .. MaxTime}
            \cup {[type |-> "blank"], [type |-> "invalid"]}
MCFiles == UNION {[1 .. n -> AnyLine] : n \in 0 .. MaxLines}

\* What the generator wrote: every row with its stream and its time.
Shapes == [win : {"auth", "conn"}, key : Keys, ts : 0 .. MaxTime]
MCStreams ==
    UNION {{[m \in 1 .. n |-> [win |-> s[m].win, key |-> s[m].key, ts |-> s[m].ts,
                               due |-> s[m].ts, id |-> m]] : s \in [1 .. n -> Shapes]}
           : n \in 1 .. MaxEvents}
Written(stream) ==
    [m \in DOMAIN stream |->
        Line(IF stream[m].win = "auth" THEN "s1" ELSE "s2", "bad", stream[m].key,
             [f \in {"_timestamp", "event_time", "conn_time"} |-> stream[m].ts])]

O == INSTANCE Oracle WITH
        Rules <- << [kind |-> "close", binds |-> << "auth" >>, target |-> "out", join |-> None] >>,
        Streams <- MCStreams, Dur <- Width, Over <- 1

WrittenAlerts(raisedByOracle) ==
    [n \in DOMAIN raisedByOracle |->
        [key |-> << raisedByOracle[n].rule, raisedByOracle[n].key, raisedByOracle[n].origin >>,
         time |-> raisedByOracle[n].ts, score |-> 0]]

Ask(file, input, time) ==
    [file |-> file, case |-> Case, input |-> input, expected |-> None, meta |-> None,
     tolerance |-> [score |-> None, time |-> time]]
MCRequests == {Ask(None, None, None), Ask(BruteFile, None, 1), Ask(None, << "input", << "other" >> >>, None),
               [Ask(BruteFile, None, None) EXCEPT !.case = None]}
FullDisk == {BruteFile, << "input", Case >>, << "expected", Case >>, << "meta", Case >>}
MCDisks == {FullDisk, FullDisk \ {<< "meta", Case >>}, FullDisk \ {<< "expected", Case >>},
            FullDisk \ {BruteFile}, FullDisk \cup {<< "rules", Case >>}}
Lenient == [score |-> 0, time |-> 1]

OracleIdle ==
    /\ events = << >> /\ closeAtEos = FALSE /\ pass = "done" /\ at = 0
    /\ cur = << >> /\ left = {} /\ due = {} /\ feed = << >>
    /\ eng = << >> /\ alerts = << >> /\ fed = << >>

VerifyIdle ==
    /\ args = None /\ disk = {} /\ expected = << >>
    /\ stage = "none" /\ resolved = None /\ report = None /\ NotPaired

InitCase ==
    /\ mode = "verify"
    /\ O!Init /\ closeAtEos = TRUE
    /\ InitVerify /\ (Len(events) = 1 \/ (args = Ask(None, None, None) /\ disk = FullDisk))
    /\ lines = Written(events) /\ verifying = TRUE /\ Start

Generate ==
    /\ mode = "verify" /\ pass # "done"
    /\ O!Next
    /\ expected' = IF pass' = "done" THEN WrittenAlerts(alerts') ELSE expected
    /\ UNCHANGED << mode, args, disk, stage, resolved, report, pairing, replayVars >>

RunVerify ==
    /\ mode = "verify" /\ pass = "done"
    /\ VerifyNext
    /\ UNCHANGED << mode, oracleVars >>

RunReplay ==
    /\ mode = "replay"
    /\ \/ Load(PipeFile)
       \/ ReplayNext
    /\ UNCHANGED << mode, verifyVars, oracleVars >>

InitFiles == mode = "replay" /\ InitReplay /\ VerifyIdle /\ OracleIdle

Init == InitFiles \/ InitCase
Next == Generate \/ RunVerify \/ RunReplay
Spec == Init /\ [][Next]_<< mode, replayVars, verifyVars, oracleVars >>

\* Only the files with several rules.
SpecFiles == InitFiles /\ [][RunReplay]_<< mode, replayVars, verifyVars, oracleVars >>

AllRuleFiles == [f \in DOMAIN MCRuleFiles \cup DOMAIN PipeFiles |->
                    IF f \in DOMAIN PipeFiles THEN PipeFiles[f] ELSE MCRuleFiles[f]]

\* `wfl verify` passes on what wfgen wrote for the same rules: the replay,
\* which scans every rule before every line, closes the same windows of the
\* same entities for the same reason as the oracle, which scans at bucket
\* changes (cmd_replay.rs:123-126, oracle/mod.rs:289-306).  Left out: windows
\* that the end of the file closes although the scenario's end had passed
\* them, for the oracle reports those as timeouts (oracle/mod.rs:506-530).
ReproducesExpected ==
    (stage = "exited" /\ resolved.file = BruteFile) =>
        (\/ report.status = "pass"
         \/ \E n \in DOMAIN raised : raised[n].origin = "close:eos" /\ raised[n].ts <= EosTime)
=============================================================================
