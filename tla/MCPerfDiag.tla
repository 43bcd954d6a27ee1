----------------------------- MODULE MCPerfDiag -----------------------------
(* Instances of PerfDiag for TLC. *)
EXTENDS PerfDiag

MCStages == << "floor", "rules" >>

\* The floor stage runs no rule; the heavy rule set takes four times the lean
\* one's time.
MCCost == [floor |-> [lean |-> 1, heavy |-> 1],
           rules |-> [lean |-> 2, heavy |-> 8]]

\* Three frames, prefixes of 1, 2 and 4 rows: the two targets differ.
MCFrames == << 1, 1, 2 >>
MCTargets == << 1, 3 >>

MCOneTarget == << 2 >>

\* A gate with a lower bound no rule set falls under and a baseline.
MCGate == [rule_count |-> 1, rules_eps_min |-> 1, per_rule_ns_max |-> None,
           baseline |-> TRUE, stages |-> << "rules" >>,
           max_regression_pct |-> 60]
=============================================================================
