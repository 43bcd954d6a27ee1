------------------------------- MODULE Stream -------------------------------
(***************************************************************************)
(* `wfgen stream` (cmd_stream.rs): scenarios in turn, each for an interval *)
(* of wall time, generated in slices of event time and sent over one       *)
(* connection; with --sentinel until a budget of events is spent, which a  *)
(* sentinel then reports.                                                  *)
(*                                                                         *)
(* A scenario is [rate, parses]: the sum of its streams' rates and whether *)
(* its start is a time.  `generate` gives as many events as it is asked    *)
(* for (it may give more where injections outgrow a slice: module Inject), *)
(* none if no stream has a rate.  Wall time is not measured: an interval   *)
(* may elapse after any batch.  Event time (cursor_nanos) is left out.     *)
(***************************************************************************)
EXTENDS Integers, Sequences

FS == INSTANCE FiniteSetsExt

CONSTANTS
    ScenarioDirs,   \* sequences of scenarios
    Rates,          \* --rate, 0 when not given
    Slices,         \* --slice-ms
    Budgets,        \* --sentinel
    Unlimited,      \* among Budgets: not given
    MaxBatch,       \* MAX_BATCH
    MaxTotal        \* bound: events of a stream without a budget

ASSUME StreamAssumption ==
    /\ MaxBatch \in Nat \ {0} /\ MaxTotal \in Nat
    /\ ScenarioDirs \subseteq Seq([rate : Nat, parses : BOOLEAN])
    /\ Rates \subseteq Nat /\ Slices \subseteq Nat /\ Budgets \ {Unlimited} \subseteq Nat \ {0}

VARIABLES
    dir, option,    \* what the command was given
    phase,          \* "scenario", "slice", "sentinel", "sent" or "failed"
    idx,
    begun,          \* the scenario has had a batch in this turn
    total,          \* events sent
    told            \* the count in the sentinel

streamVars == << dir, option, phase, idx, begun, total, told >>

InitStream ==
    /\ dir \in ScenarioDirs
    /\ option \in [rate : Rates, slice : Slices, budget : Budgets]
    /\ phase = "scenario" /\ idx = 1
    /\ begun = FALSE /\ total = 0 /\ told = -1

-----------------------------------------------------------------------------

Limited == option.budget # Unlimited
Spent == Limited /\ total >= option.budget
Rate == IF option.rate > 0 THEN option.rate ELSE dir[idx].rate
Playable == IF dir = << >> THEN FALSE ELSE Rate > 0 /\ dir[idx].parses

\* Mutant of BatchTotal: the budget is looked at only between batches.
BatchTotalWhole == FS!Max({1, FS!Min({Rate * option.slice, MaxBatch})})

\* A slice's worth of events, cut to what is left of the budget.
BatchTotal ==
    LET whole == FS!Max({1, FS!Min({Rate * option.slice, MaxBatch})})
    IN  IF Limited THEN FS!Min({whole, FS!Max({1, option.budget - total})}) ELSE whole

\* No scenario, no rate or no start: the command ends.
Fail ==
    /\ phase = "scenario" /\ ~ Playable
    /\ phase' = "failed"
    /\ UNCHANGED << dir, option, idx, begun, total, told >>

BeginScenario ==
    /\ phase = "scenario" /\ Playable
    /\ phase' = "slice" /\ begun' = FALSE
    /\ UNCHANGED << dir, option, idx, total, told >>

\* A batch is generated and sent, in chunks at the pace of its rate.
SendSlice ==
    /\ phase = "slice" /\ ~ Spent
    /\ ~ Limited => total < MaxTotal
    /\ begun' = TRUE
    /\ total' = IF dir[idx].rate = 0 THEN total ELSE total + BatchTotal
    /\ UNCHANGED << dir, option, phase, idx, told >>

\* The connection is lost.
SendFails ==
    /\ phase \in {"slice", "sentinel"}
    /\ phase' = "failed"
    /\ UNCHANGED << dir, option, idx, begun, total, told >>

\* The interval elapsed, or the budget is spent.
EndScenario ==
    /\ phase = "slice" /\ begun
    /\ idx' = (idx % Len(dir)) + 1
    /\ phase' = IF Spent THEN "sentinel" ELSE "scenario"
    /\ UNCHANGED << dir, option, begun, total, told >>

\* On a connection of its own.
SendSentinel ==
    /\ phase = "sentinel"
    /\ told' = total /\ phase' = "sent"
    /\ UNCHANGED << dir, option, idx, begun, total >>

StreamNext ==
    Fail \/ BeginScenario \/ SendSlice \/ SendFails \/ EndScenario \/ SendSentinel

StreamSpec == InitStream /\ [][StreamNext]_streamVars

\* The loop goes on, and time does.
StreamFairness ==
    /\ WF_streamVars(Fail \/ BeginScenario \/ SendSlice)
    /\ WF_streamVars(EndScenario) /\ WF_streamVars(SendSentinel)

-----------------------------------------------------------------------------
(* Properties. *)

\* A stream with a budget ends, however the intervals fall and even if some
\* scenarios of the directory generate nothing: with exactly the budget, which
\* is also what the sentinel says, unless the command fails
\* (cmd_stream.rs:201-208, 253-292: "no more than the budget, and stop when the
\* last batch is out").
BudgetIsMet ==
    (phase = "slice" /\ Limited /\ \E n \in DOMAIN dir : dir[n].rate > 0)
        ~> (phase = "failed" \/ (phase = "sent" /\ total = option.budget /\ told = option.budget))
=============================================================================
