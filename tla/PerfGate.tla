------------------------------ MODULE PerfGate ------------------------------
(***************************************************************************)
(* The performance gate of `wfgen perf-diag --gate` (wfgen, module         *)
(* cmd_perf_diag/gate.rs): which configurations are accepted and what      *)
(* verdict a table of measurements (the wall table) gets.                  *)
(*                                                                         *)
(* Rates are integers: events per Unit of time, the code's f64 events per  *)
(* second with Unit for its 1e9 ns.  A wall table is a sequence of rows    *)
(* [stage, eps, n]; the rounds column is not read by the gate.             *)
(***************************************************************************)
EXTENDS Integers, Sequences

SE == INSTANCE SequencesExt
FSE == INSTANCE FiniteSetsExt

CONSTANTS
    Unit,   \* the 1e9 of the cost formula
    None    \* an optional setting that the file does not give

ASSUME UnitAssumption == Unit \in Nat \ {0}

-----------------------------------------------------------------------------
(* The configuration: rule_count, the two absolute caps, whether a baseline *)
(* file is named, the stages compared with it and the percentage allowed.  *)

HasAbsolute(cfg) == cfg.rules_eps_min # None \/ cfg.per_rule_ns_max # None

HasRelative(cfg) == cfg.baseline \/ cfg.max_regression_pct # None

PositiveCap(v) == v # None => v > 0

\* GateConfig::validate: what a gate file must say to be accepted.
Validate(cfg) ==
    /\ HasAbsolute(cfg) \/ HasRelative(cfg)
    /\ cfg.per_rule_ns_max # None => cfg.rule_count > 0
    /\ cfg.baseline => cfg.stages # << >> /\ cfg.max_regression_pct # None
    /\ cfg.max_regression_pct # None => cfg.baseline
    /\ cfg.max_regression_pct # None => cfg.max_regression_pct \in 0 .. 100
    /\ PositiveCap(cfg.rules_eps_min)
    /\ PositiveCap(cfg.per_rule_ns_max)

-----------------------------------------------------------------------------
(* Lookups in a wall table. *)

MaxN(wall) == FSE!Max({row.n : row \in SE!ToSet(wall)})

\* The first row of a (stage, n), or None.
EpsAt(wall, stage, n) ==
    LET hits == {i \in DOMAIN wall : wall[i].stage = stage /\ wall[i].n = n}
    IN  IF hits = {} THEN None ELSE wall[FSE!Min(hits)].eps

-----------------------------------------------------------------------------
(* The three families of checks.  Each is "pass", "fail" or "missing": a    *)
(* measurement the check needs is not there, which is an error.            *)

Outcome(ok) == IF ok THEN "pass" ELSE "fail"

RulesSetEps(cfg, wall, n) ==
    LET eps == EpsAt(wall, "rules", n)
    IN  IF eps = None THEN "missing" ELSE Outcome(eps >= cfg.rules_eps_min)

\* (Unit/rules - Unit/floor) / rule_count <= per_rule_ns_max, multiplied out;
\* a negative increment counts as 0 and so passes.
PerRuleNs(cfg, wall, n) ==
    LET floor == EpsAt(wall, "floor", n)
        rules == EpsAt(wall, "rules", n)
    IN  IF floor = None \/ rules = None THEN "missing"
        ELSE Outcome(Unit * (floor - rules)
                        <= cfg.per_rule_ns_max * cfg.rule_count * floor * rules)

\* Mutant of EpsRegression: a row the baseline lacks is skipped.
EpsRegressionSkips(cfg, wall, base, n, stage) ==
    LET now == EpsAt(wall, stage, n)
        was == EpsAt(base, stage, n)
    IN  IF now = None \/ was = None THEN "pass"
        ELSE Outcome(now * 100 >= was * (100 - cfg.max_regression_pct))

\* now >= was * (1 - pct/100), against the same (stage, n) of the baseline.
EpsRegression(cfg, wall, base, n, stage) ==
    LET now == EpsAt(wall, stage, n)
        was == EpsAt(base, stage, n)
    IN  IF now = None \/ was = None THEN "missing"
        ELSE Outcome(now * 100 >= was * (100 - cfg.max_regression_pct))

\* evaluate_gate: the outcome of every check the configuration asks for.  An
\* empty baseline table stands for a file that is absent or holds no row.
Checks(cfg, wall, base) ==
    LET n == MaxN(wall)
    IN  (IF cfg.rules_eps_min = None THEN {} ELSE {RulesSetEps(cfg, wall, n)})
        \cup (IF cfg.per_rule_ns_max = None THEN {} ELSE {PerRuleNs(cfg, wall, n)})
        \cup (IF ~cfg.baseline THEN {}
              ELSE {EpsRegression(cfg, wall, base, n, s) : s \in SE!ToSet(cfg.stages)})

\* The verdict of a session with --gate: a missing measurement is an error,
\* never a pass; otherwise every check must pass.
Evaluate(cfg, wall, base) ==
    IF ~Validate(cfg) \/ wall = << >> THEN "Error"
    ELSE LET checks == Checks(cfg, wall, base)
         IN  IF "missing" \in checks THEN "Error"
             ELSE IF "fail" \in checks THEN "Failed" ELSE "Passed"
=============================================================================
