----------------------------- MODULE WflVerify -----------------------------
(***************************************************************************)
(* `wfl verify` (cmd_replay_verify.rs): the files of a case are found, its *)
(* input is replayed in verify mode, and the alerts are compared with      *)
(* those that `wfgen` wrote beside the input.                              *)
(*                                                                         *)
(* A path is << directory, name >>, a case or rule name the sequence of    *)
(* its parts between underscores.  The contents of the input and of the    *)
(* expected file are the variables `lines` and `expected`; files that do   *)
(* not parse are left out.                                                 *)
(***************************************************************************)
EXTENDS Replay, Verdict

CONSTANTS
    Requests,   \* [file, case, input, expected, meta, tolerance], None for absent
    Disks,      \* the sets of paths considered
    MetaTolerance,      \* what a meta file says
    DefaultTolerance,   \* OracleTolerances::default
    None

VARIABLES
    args,       \* the command line
    disk,       \* the files that exist
    expected,   \* content of the expected file: alerts [key, time, score]
    stage,      \* "resolve", "replay", "pair", "failed" or "exited"
    resolved,   \* ResolvedPaths
    report      \* the verify report

verifyVars == << args, disk, expected, stage, resolved, report, pairing >>

InitVerify ==
    /\ args \in Requests /\ disk \in Disks
    /\ expected = << >>
    /\ stage = "resolve" /\ resolved = None /\ report = None /\ NotPaired

\* The case name without its last parts, what remains not empty.
Trimmed(case) == {SubSeq(case, 1, n) : n \in 1 .. Len(case)}

\* resolve_rule_file: the file given, else rules/<case>.wfl, parts trimmed from
\* the right until there is such a file.
RuleFile(a) ==
    LET there == {p \in Trimmed(a.case) : << "rules", p >> \in disk}
    IN  IF a.file # None THEN a.file
        ELSE IF a.case = None \/ there = {} THEN None
        ELSE << "rules", CHOOSE p \in there : \A q \in there : Len(q) <= Len(p) >>

Or(given, default) == IF given # None THEN given ELSE default

\* resolve_paths: with a case, what is not given is looked for under its name
\* in the data directory, the meta file only if it is there; without a case,
\* input and expected file must be given.
ResolvePaths(a) ==
    LET named == a.case # None
        auto == << "meta", a.case >>
        paths == [file |-> RuleFile(a),
                  input |-> Or(a.input, IF named THEN << "input", a.case >> ELSE None),
                  expected |-> Or(a.expected, IF named THEN << "expected", a.case >> ELSE None),
                  meta |-> Or(a.meta, IF named /\ auto \in disk THEN auto ELSE None)]
    IN  IF None \in {paths.file, paths.input, paths.expected} THEN None ELSE paths

\* Any error ends the command; so does a file that is not there.
Fail == stage' = "failed" /\ UNCHANGED report

Resolve ==
    /\ stage = "resolve"
    /\ resolved' = ResolvePaths(args)
    /\ IF resolved' = None THEN Fail /\ UNCHANGED replayVars
       ELSE IF {resolved'.file, resolved'.input} \subseteq disk
       THEN stage' = "replay" /\ Load(resolved'.file) /\ UNCHANGED report
       ELSE Fail /\ UNCHANGED replayVars
    /\ UNCHANGED << args, disk, expected, pairing >>

\* What the replay raised, as verify compares it: the rule, the entity and the
\* origin make the key.
Actual == [n \in DOMAIN raised |->
            [key |-> << raised[n].rule, raised[n].key, raised[n].origin >>,
             time |-> raised[n].ts, score |-> 0]]

\* A tolerance given on the command line overrides the meta file's, that the
\* default; each of the two by itself.
Tolerance ==
    LET base == IF resolved.meta # None THEN MetaTolerance ELSE DefaultTolerance
    IN  [score |-> Or(args.tolerance.score, base.score),
         time |-> Or(args.tolerance.time, base.time)]

\* The replay is over: the expected file and the meta file are read.
Compare ==
    /\ stage = "replay" /\ phase = "done"
    /\ IF {resolved.expected} \cup ({resolved.meta} \ {None}) \subseteq disk
       THEN stage' = "pair" /\ CollectGroups(expected, Actual) /\ UNCHANGED report
       ELSE Fail /\ UNCHANGED pairing
    /\ UNCHANGED << args, disk, expected, resolved, replayVars >>

PairAlerts ==
    /\ stage = "pair"
    /\ Pair(expected, Actual, Tolerance)
    /\ UNCHANGED << args, disk, expected, stage, resolved, report, replayVars >>

\* The exit code is that of the report.
Judge ==
    /\ stage = "pair" /\ AllPaired
    /\ report' = Report
    /\ stage' = "exited"
    /\ UNCHANGED << args, disk, expected, resolved, pairing, replayVars >>

ReplayStep == stage = "replay" /\ ReplayNext /\ UNCHANGED verifyVars

VerifyNext == Resolve \/ ReplayStep \/ Compare \/ PairAlerts \/ Judge
=============================================================================
