------------------------------ MODULE MCTools ------------------------------
(***************************************************************************)
(* Five commands, each on every small input: the performance gate,         *)
(* `gen-nexmark --check`, `verify-nexmark`, `wfadm check` and `wfgen       *)
(* stream`.  A behaviour is one command (`subject`); the variables of the  *)
(* others keep their first value.                                          *)
(***************************************************************************)
EXTENDS GateRun, Nexmark, NexmarkVerify, ProjectCheck, Stream

VARIABLE subject    \* the command

-----------------------------------------------------------------------------
(* The gate: every small configuration, and tables that lack some rows.     *)

GateStages == {"floor", "rules"}
GateCounts == {1, 2}
GateRates == {1, 2, 4}

MCGateConfigs ==
    [rule_count         : {0, 2},
     rules_eps_min      : {None, 0, 2},
     per_rule_ns_max    : {None, 0, 2},
     baseline           : BOOLEAN,
     stages             : {<< >>, << "rules" >>, << "rules", "floor" >>},
     max_regression_pct : {None, 0, 50, 100, 101}]

\* Tables with at most one row for each stage and count, absent rows marked 0.
Tables(stages) ==
    LET points == SE!SetToSeq(stages \X GateCounts)
        Line(f, p) == [stage |-> p[1], n |-> p[2], eps |-> f[p]]
    IN  {SelectSeq([i \in 1 .. Len(points) |-> Line(f, points[i])], LAMBDA line : line.eps > 0) :
            f \in [stages \X GateCounts -> GateRates \cup {0}]}

MCWalls == Tables(GateStages)
MCBases == Tables({"rules"})

-----------------------------------------------------------------------------
(* The rules of `verify-nexmark`: a pair through a window beside a rule of  *)
(* its own, a chain of three listed backwards, and two that yield into one  *)
(* window.                                                                 *)

Query(name, target, binds) == [name |-> name, target |-> target, binds |-> binds]
MCRuleSets ==
    {<< Query("q1", "out", << "bid" >>), Query("q13a", "mod", << "bid" >>),
        Query("q13b", "out", << "mod", "person" >>) >>,
     << Query("q4", "out", << "final" >>), Query("q4_avg", "final", << "max" >>),
        Query("q4_max", "max", << "bid" >>) >>,
     << Query("left", "joined", << "bid" >>), Query("right", "joined", << "person" >>),
        Query("q8", "out", << "joined" >>), Query("q12", "out", << "joined" >>) >>}
MCEventsOn == [bid |-> 3, person |-> 1, auction |-> 0]

-----------------------------------------------------------------------------
(* Projects for `wfadm check`: rules in the project, outside of it, behind  *)
(* a pattern or nowhere, and any directory missing, empty or with an        *)
(* invalid file.                                                           *)

FileDirs == {"sources", "sinks", "../source.d", "rules", "shared", "schemas", "scenarios"}
Contents == {<< >>, << TRUE >>, << TRUE, FALSE >>}
WithDirs(dirs) ==
    dirs @@ [d \in {"business.d", "windows.toml"} |-> << TRUE >>]
Wrong(d) == WithDirs([x \in FileDirs |-> IF x = d THEN << FALSE, TRUE >> ELSE << TRUE >>])
Only(d, c) == [x \in {d} |-> c]

MCProjects ==
    [conf    : {"valid", "invalid"},
     rules   : {Absent, [dir |-> "shared", pattern |-> FALSE], [dir |-> "shared", pattern |-> TRUE]},
     schemas : {[dir |-> "shared", pattern |-> FALSE]},
     dirs    : {Wrong(d) : d \in FileDirs}
               \cup {Only(d, c) : d \in {"shared", "schemas", "rules", "infra.d"}, c \in Contents}
               \cup {Only("schemas", << TRUE >>) @@ Only("windows.toml", << FALSE >>)}]

MCCommands ==
    [what     : {<< >>, << "all" >>, << "conn", "rules" >>, << "wpl", "all" >>, << "typo" >>,
                 << "scenario", "conf" >>},
     failFast : BOOLEAN,
     onlyFail : BOOLEAN]

-----------------------------------------------------------------------------
(* Scenarios for `wfgen stream`: slow, fast, without a rate, unreadable.    *)

Timeline(rate) == [rate |-> rate, parses |-> TRUE]
MCOptions == [rate : Rates, slice : Slices, budget : Budgets]
MCScenarioDirs ==
    {<< >>, << Timeline(1) >>, << Timeline(3), Timeline(0), Timeline(2) >>, << Timeline(0) >>,
     << Timeline(2), [Timeline(1) EXCEPT !.parses = FALSE] >>}

-----------------------------------------------------------------------------

Init ==
    /\ subject \in {"gate", "nexmark", "verify", "check", "stream"}
    /\ InitGate /\ (subject # "gate" => cfg = CHOOSE c \in GateConfigs : TRUE)
    /\ InitNexmark /\ (subject # "nexmark" => count = 1)
    /\ InitVerifyNexmark /\ (subject # "verify" => rules = CHOOSE r \in RuleSets : TRUE)
    /\ project \in Projects /\ (subject # "check" => project = CHOOSE p \in Projects : TRUE)
    /\ InitCheck /\ (subject # "check" => command = CHOOSE c \in Commands : TRUE)
    /\ InitStream
    /\ subject # "stream" => dir = << >> /\ option = CHOOSE o \in MCOptions : TRUE

GateStep == subject = "gate" /\ GateNext
            /\ UNCHANGED << subject, nexmarkVars, verifyNexmarkVars, checkVars, streamVars >>
NexmarkStep == subject = "nexmark" /\ NexmarkNext
               /\ UNCHANGED << subject, gateVars, verifyNexmarkVars, checkVars, streamVars >>
VerifyStep == subject = "verify" /\ NexmarkVerifyNext
              /\ UNCHANGED << subject, gateVars, nexmarkVars, checkVars, streamVars >>
CheckStep == subject = "check" /\ CheckNext
             /\ UNCHANGED << subject, gateVars, nexmarkVars, verifyNexmarkVars, streamVars >>
StreamStep == subject = "stream" /\ StreamNext
              /\ UNCHANGED << subject, gateVars, nexmarkVars, verifyNexmarkVars, checkVars >>

Next == GateStep \/ NexmarkStep \/ VerifyStep \/ CheckStep \/ StreamStep
toolsVars == << subject, gateVars, nexmarkVars, verifyNexmarkVars, checkVars, streamVars >>
Spec == Init /\ [][Next]_toolsVars /\ (subject = "stream" => StreamFairness)
=============================================================================
