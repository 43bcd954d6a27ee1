---------------------------- MODULE NexmarkVerify ----------------------------
(***************************************************************************)
(* `wfgen verify-nexmark` (cmd_verify_nexmark.rs): the rules are divided   *)
(* into groups along what they yield and bind, each group is run by an     *)
(* oracle of its own on the same events, and the number of alerts of each  *)
(* rule is compared with what an engine reports.                           *)
(*                                                                         *)
(* A rule is [name, target, binds], binds a sequence of windows.  The      *)
(* oracle (external) raises an alert for every event of a window its rule  *)
(* binds, and passes it on to the rules of the group that bind its target. *)
(***************************************************************************)
EXTENDS Integers, Sequences, TLC    \* :>, @@

LOCAL INSTANCE SequencesExt     \* FoldLeft, FlattenSeq, ToSet
LOCAL INSTANCE FiniteSetsExt    \* Max, SumSet, MapThenSumSet

CONSTANTS
    RuleSets,       \* sequences of rules
    EventsOn,       \* the number of generated events of each source window
    Known           \* known_diff_rules

ASSUME NexmarkVerifyAssumption ==
    \A rules \in RuleSets : \A i, j \in DOMAIN rules :
        i # j => rules[i].name # rules[j].name

VARIABLES
    stage,      \* "group", "run", "compare" or "done"
    rules,
    groupOf,    \* a group for each rule
    counts,     \* rule name -> alerts, of the groups that are done
    engine,     \* the lines << rule, number >> of the files of the engine
    verdict

verifyNexmarkVars == << stage, rules, groupOf, counts, engine, verdict >>

InitVerifyNexmark ==
    /\ rules \in RuleSets
    /\ groupOf = [i \in DOMAIN rules |-> i]
    /\ stage = "group" /\ counts = << >> /\ engine = << >> /\ verdict = "none"

-----------------------------------------------------------------------------

Yielding(window) == {i \in DOMAIN rules : rules[i].target = window}

Union(groups, i, j) == [k \in DOMAIN groups |-> IF groups[k] = groups[i] THEN groups[j] ELSE groups[k]]

\* Mutant of Grouped: every rule on its own.
GroupedApart == [i \in DOMAIN rules |-> i]

\* A rule joins the group of the rule that yields into a window it binds: of
\* several, the last one, which is the one that the index keeps.
Grouped ==
    LET bound == FlattenSeq([i \in DOMAIN rules |->
                    [n \in DOMAIN rules[i].binds |-> << i, rules[i].binds[n] >>]])
        Join(groups, bind) ==
            IF Yielding(bind[2]) = {} THEN groups
            ELSE Union(groups, bind[1], Max(Yielding(bind[2])))
    IN  FoldLeft(Join, groupOf, bound)

Group ==
    /\ stage = "group"
    /\ groupOf' = Grouped /\ stage' = "run"
    /\ UNCHANGED << rules, counts, engine, verdict >>

\* The alerts of rule i when the rules of `members` run together.
AlertsOf(members, i) ==
    LET alerts[k \in DOMAIN rules] ==
            LET on(w) == IF w \in DOMAIN EventsOn THEN EventsOn[w]
                         ELSE MapThenSumSet(LAMBDA p : alerts[p], Yielding(w) \cap members)
            IN  FoldLeft(LAMBDA sum, w : sum + on(w), 0, rules[k].binds)
    IN  alerts[i]

Groups == {groupOf[i] : i \in DOMAIN rules}
Members(g) == {i \in DOMAIN rules : groupOf[i] = g}
NamesOf(g) == {rules[i].name : i \in Members(g)}
RuleNamed(name) == CHOOSE i \in DOMAIN rules : rules[i].name = name

\* Only rules with alerts are counted.
Counted(g) ==
    LET raised(name) == AlertsOf(Members(g), RuleNamed(name))
    IN  [name \in {n \in NamesOf(g) : raised(n) > 0} |-> raised(name)]

\* The thread of a group is done.
RunGroup ==
    /\ stage = "run"
    /\ \E g \in Groups :
        /\ DOMAIN counts \cap NamesOf(g) = {} /\ Counted(g) # << >>
        /\ counts' = counts @@ Counted(g)
    /\ UNCHANGED << stage, rules, groupOf, engine, verdict >>

\* All rules in one engine, which may be wrong about one of them; the files
\* may hold an earlier round.  A rule without alerts has no line.
EngineRuns ==
    LET exact == [i \in DOMAIN rules |-> AlertsOf(DOMAIN rules, i)]
        Lines(numbers) == SelectSeq([i \in DOMAIN rules |-> << rules[i].name, numbers[i] >>],
                                    LAMBDA line : line[2] > 0)
        last == {exact} \cup {[exact EXCEPT ![i] = n] : i \in DOMAIN rules, n \in {0, 1}}
    IN  {Lines(n) : n \in last} \cup {Lines([i \in DOMAIN rules |-> 1]) \o Lines(n) : n \in last}

Joined ==
    /\ stage = "run"
    /\ \A g \in Groups : DOMAIN Counted(g) \subseteq DOMAIN counts
    /\ engine' \in EngineRuns
    /\ stage' = "compare"
    /\ UNCHANGED << rules, groupOf, counts, verdict >>

\* read_engine_emits: of several lines on a rule the last counts.
EngineCounts == FoldLeft(LAMBDA read, line : (line[1] :> line[2]) @@ read, << >>, engine)

\* normalize_counts: the rules that the oracle counted, without known ones.
Compared == DOMAIN counts \ Known
OracleSide == [r \in Compared |-> counts[r]]
EngineSide(compared) == [r \in compared \cap DOMAIN EngineCounts |-> EngineCounts[r]]

CompareCounts ==
    /\ stage = "compare"
    /\ stage' = "done"
    /\ verdict' = IF OracleSide = EngineSide(Compared) THEN "identical" ELSE "different"
    /\ UNCHANGED << rules, groupOf, counts, engine >>

NexmarkVerifyNext == Group \/ RunGroup \/ Joined \/ CompareCounts

-----------------------------------------------------------------------------
(* Properties. *)

\* What an engine would report if it were right about every rule.
Exactly(i) == IF rules[i].name \in DOMAIN EngineCounts
              THEN EngineCounts[rules[i].name] = AlertsOf(DOMAIN rules, i)
              ELSE AlertsOf(DOMAIN rules, i) = 0

\* An engine that runs all rules together, and is right about each, is found
\* identical: running the rules in separate groups must cut no chain of yields
\* and binds (cmd_verify_nexmark.rs:213-246; the comment asks for it, and the
\* code gives it where no two rules yield into one window).
ExactEngineAgrees ==
    /\ stage = "done"
    /\ \A i \in DOMAIN rules : Exactly(i)
    /\ \A i, j \in DOMAIN rules : i # j /\ rules[i].target = rules[j].target
            => \A k \in DOMAIN rules : rules[i].target \notin ToSet(rules[k].binds)
    => verdict = "identical"

\* And one that is wrong, in its last round, about a rule that raises alerts is
\* found different, unless the difference is a known one
\* (cmd_verify_nexmark.rs:580-607).
WrongEngineDiffers ==
    /\ stage = "done"
    /\ \E i \in DOMAIN rules :
            /\ rules[i].name \notin Known /\ ~ Exactly(i)
            /\ AlertsOf(Members(groupOf[i]), i) > 0
            /\ AlertsOf(Members(groupOf[i]), i) = AlertsOf(DOMAIN rules, i)
    => verdict = "different"

\* The comparison decides what it is for: whether the engine counts what the
\* oracle counts.
VerdictFollowsEngine == ExactEngineAgrees /\ WrongEngineDiffers
=============================================================================
