------------------------------ MODULE GateRun ------------------------------
(***************************************************************************)
(* `wfgen perf-diag --gate` once the measurements are taken: the gate's    *)
(* file is loaded, and if it is accepted it judges the wall table against  *)
(* the baseline (cmd_perf_diag/mod.rs, gate.rs).  Whatever was measured,   *)
(* the two tables are any of a given set.                                  *)
(***************************************************************************)
EXTENDS PerfGate

CONSTANTS
    GateConfigs,    \* what a gate file may say
    Walls,          \* the wall tables of a session
    Bases           \* the tables of a baseline file, empty if it is absent

VARIABLES
    cfg,    \* GateConfig
    wall, base,
    judged  \* "none", "Error", "Failed" or "Passed"

gateVars == << cfg, wall, base, judged >>

InitGate == cfg \in GateConfigs /\ wall = << >> /\ base = << >> /\ judged = "none"

\* GateConfig::load refuses the file.
Reject ==
    /\ judged = "none" /\ ~ Validate(cfg)
    /\ judged' = "Error"
    /\ UNCHANGED << cfg, wall, base >>

Judge ==
    /\ judged = "none" /\ Validate(cfg)
    /\ wall' \in Walls /\ base' \in Bases
    /\ judged' = Evaluate(cfg, wall', base')
    /\ UNCHANGED cfg

GateNext == Reject \/ Judge

GateSpec == InitGate /\ [][GateNext]_gateVars

\* A pass is never given over a hole: whatever rows the configured checks
\* compare are there, at the largest row count, in the table and in the
\* baseline (gate.rs:319-394 report a missing row as an error).
PassNeedsEveryRow ==
    judged = "Passed" =>
        LET n == MaxN(wall)
            needed == (IF HasAbsolute(cfg) THEN {"rules"} ELSE {})
                      \cup (IF cfg.per_rule_ns_max # None THEN {"floor"} ELSE {})
            compared == IF HasRelative(cfg) THEN SE!ToSet(cfg.stages) ELSE {}
            Has(table, s) == \E i \in DOMAIN table : table[i].stage = s /\ table[i].n = n
        IN  /\ \A s \in needed \cup compared : Has(wall, s)
            /\ \A s \in compared : Has(base, s)
=============================================================================
