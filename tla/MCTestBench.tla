----------------------------- MODULE MCTestBench -----------------------------
(* Instances of TestBench for TLC: faults on given chunks, and the merge of    *)
(* the chunks that Inject generates from small scenarios.                      *)
EXTENDS TestBench, Inject

CONSTANTS MaxTime, MaxChunk

\* The times of a chunk, sorted, and its events: odd and even times belong to
\* different entities.
SortedTimes == UNION {{s \in [1 .. n -> 0 .. MaxTime] : \A i \in 1 .. n - 1 : s[i] <= s[i + 1]}
                      : n \in 0 .. MaxChunk}
Chunk(c, times) == [n \in DOMAIN times |-> [chunk |-> c, nr |-> n, ts |-> times[n],
                                            key |-> IF times[n] % 2 = 0 THEN "even" ELSE "odd"]]
MCInputs == {<< Chunk(1, s), Chunk(2, t) >> : s, t \in SortedTimes}

-----------------------------------------------------------------------------
(* Scenarios. *)

Stream(alias, window, rate) == [alias |-> alias, window |-> window, rate |-> rate]
TextKey == << [name |-> "k", type |-> "text"] >>
Bind(alias, window, filter) == [alias |-> alias, window |-> window, filter |-> filter]
RuleStep(source, threshold, guard) == [source |-> source, threshold |-> threshold, guard |-> guard]
Plain(mode, percent, streams) ==
    [syntax |-> FALSE, mode |-> mode, percent |-> percent, rule |-> "r", streams |-> streams,
     entity |-> Absent, cpe |-> Absent, completed |-> Absent, within |-> Absent, uses |-> << >>]
Case(mode, percent, stream, uses) ==
    [Plain(mode, percent, << stream >>) EXCEPT !.syntax = TRUE, !.rule = Absent, !.uses = uses,
                                               !.entity = [name |-> "k", type |-> "text"]]
Uses(count, preds) == [count |-> count, preds |-> preds]

\* Twice on window wa and then once on window wb.
Across == [name |-> "r", window |-> 2, keys |-> TextKey,
           binds |-> << Bind("a", "wa", << >>), Bind("b", "wb", [f |-> "x"]) >>,
           steps |-> << RuleStep("a", 2, << >>), RuleStep("b", 1, << >>) >>]
\* Both steps on one window, told apart by their guards.
Within == [name |-> "r", window |-> 2, keys |-> TextKey,
           binds |-> << Bind("a", "wa", << >>) >>,
           steps |-> << RuleStep("a", 2, [g |-> "1"]), RuleStep("a", 1, [g |-> "2"]) >>]

TwoStreams == << Stream("a", "wa", 1), Stream("s2", "wb", 1) >>
Scenario(streams, total, rules, lines) ==
    [streams |-> streams, total |-> total, duration |-> 4, rules |-> rules, lines |-> lines]
Both == << "a", "s2" >>

MCScenarios == {
    Scenario(TwoStreams, 12, << Across >>,
        << Plain("hit", 40, Both), Plain("near_miss", 40, Both), Plain("miss", 20, Both) >>),
    Scenario(TwoStreams, 14, << Across >>,
        << [Plain("near_miss", 60, Both) EXCEPT !.completed = 0, !.within = 1],
           [Plain("hit", 40, Both) EXCEPT !.cpe = 1] >>),
    Scenario(TwoStreams, 10, << [Across EXCEPT !.keys = << [name |-> "k", type |-> "digit"] >>] >>,
        << Plain("hit", 40, Both), Plain("near_miss", 40, << "a" >>), Plain("miss", 50, << "s2" >>) >>),
    Scenario(<< Stream("s1", "wa", 2) >>, 12, << Within >>,
        << Case("hit", 50, "s1", << Uses(3, [h |-> "y"]) >>),
           Case("near_miss", 25, "s1", << Uses(2, << >>), Uses(1, << >>) >>),
           Case("miss", 30, "s1", << Uses(1, [g |-> "1"]), Uses(1, [g |-> "3"]) >>) >>),
    Scenario(<< Stream("s1", "wa", 1), Stream("a", "wa", 1), Stream("z", "wz", 1) >>, 8, << Within >>,
        << Plain("hit", 100, << "a" >>), Plain("miss", 50, << "a" >>) >>),
    Scenario(TwoStreams, 5, << >>, << Plain("hit", 50, Both) >>),
    Scenario(<< Stream("a", "wa", 0) >>, 2, << Within >>, << >>),
    Scenario(TwoStreams, 4, << Across >>, << [Plain("hit", 50, Both) EXCEPT !.rule = "q"] >>),
    Scenario(TwoStreams, 4, << Across >>, << Plain("hit", 50, << "zz" >>) >>),
    Scenario(TwoStreams, 4, << Within >>, << Plain("miss", 50, << "s2" >>) >>),
    Scenario(TwoStreams, 4, << Within, Across >>, << Case("hit", 50, "a", << Uses(1, << >>) >>) >>),
    Scenario(TwoStreams, 4, << Within >>, << Case("hit", 50, "a", << Uses(1, [g |-> "2"]) >>) >>),
    Scenario(TwoStreams, 4, << Within >>, << Case("miss", 50, "a", << Uses(0, << >>) >>) >>) }

VARIABLE mode

MCInit ==
    \/ /\ mode = "faults" /\ Init
       /\ scenario = Absent /\ step = "none" /\ next = 0
       /\ injected = << >> /\ used = << >> /\ background = << >>
    \/ /\ mode = "generate" /\ chunks = << >> /\ Start
       /\ InitInject

\* `generate` merges what the injection and the streams gave.
HandOver ==
    /\ step = "generated" /\ chunks = << >>
    /\ chunks' = SortedChunks
    /\ cursor' = [c \in DOMAIN chunks' |-> 0]
    /\ UNCHANGED << pc, merged, faulted, compared, mode, injectVars >>

MCNext ==
    \/ mode = "faults" /\ Next /\ UNCHANGED << mode, injectVars >>
    \/ mode = "generate" /\ InjectNext /\ UNCHANGED << mode, vars >>
    \/ mode = "generate" /\ HandOver
    \/ mode = "generate" /\ MergeNext /\ UNCHANGED << mode, injectVars >>

MCSpec == MCInit /\ [][MCNext]_<< vars, mode, injectVars >>

-----------------------------------------------------------------------------

\* The scenario has been generated and its chunks merged.
Generated == mode = "generate" /\ chunks # << >> /\ Heads = {}

\* Merged by time among background and the other clusters, the events of every
\* hit cluster still arrive so that they complete the rule within its window
\* (helpers/generate.rs:42-117: each step has its part of the window).
HitCompletes == Generated => HitsComplete(merged)

\* No entity of a near_miss or miss line meets the rule, over everything that
\* the lines generate for it, as far as the generator keeps entities apart
\* (near_miss.rs, non_hit.rs; README, section 5 for where it does not).
QuietStaysQuiet == Generated => QuietStayQuiet(merged)

\* The merged stream has every stream's share of the scenario's total, inject
\* events included, and each line stays within its percentage
\* (datagen/mod.rs:82-121, helpers/plan.rs:84-153).
SharesKept == Generated => SharesMet(merged)
=============================================================================
