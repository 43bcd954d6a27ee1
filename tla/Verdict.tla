------------------------------ MODULE Verdict ------------------------------
(***************************************************************************)
(* The comparison of expected with actual alerts (wfgen verify/mod.rs and  *)
(* matching.rs), which `wfgen gen`, `wfgen verify` and `wfl verify` share. *)
(* An alert is [key, time, score]; `key` stands for the match key (rule,   *)
(* entity type, entity, origin).                                           *)
(*                                                                         *)
(* The loops are stepped through: one action is one group begun, one       *)
(* expected alert paired or one group ended.  Both sides and the tolerance *)
(* belong to the module that compares.                                     *)
(***************************************************************************)
EXTENDS Integers, Sequences, FiniteSets

VARIABLES
    groups,     \* the match keys still to come
    todo,       \* the expected alerts of the group still to be paired: indices
    free,       \* its actual alerts that are not used
    tally       \* matched, mismatched, missing, unexpected

pairing == << groups, todo, free, tally >>

NoTally == [matched |-> 0, mismatched |-> 0, missing |-> 0, unexpected |-> 0]
NotPaired == groups = {} /\ todo = {} /\ free = {} /\ tally = NoTally

Exactly == [score |-> 0, time |-> 0]

Difference(x, y) == IF x < y THEN y - x ELSE x - y
Distance(a, b) == Difference(a.time, b.time)

Fits(a, b, tolerance) ==
    /\ Difference(a.score, b.score) <= tolerance.score
    /\ Distance(a, b) <= tolerance.time

KeysOf(alerts) == {alerts[n].key : n \in DOMAIN alerts}
OfGroup(alerts, key) == {n \in DOMAIN alerts : alerts[n].key = key}

\* group_expected, group_actual: the keys of both sides.
CollectGroups(expected, actual) ==
    /\ groups' = KeysOf(expected) \cup KeysOf(actual)
    /\ UNCHANGED << todo, free, tally >>

\* The next group; they are in a hash map, so which is not determined.
BeginGroup(expected, actual) ==
    /\ todo = {} /\ free = {}
    /\ \E key \in groups :
        /\ groups' = groups \ {key}
        /\ todo' = OfGroup(expected, key)
        /\ free' = OfGroup(actual, key)
    /\ UNCHANGED tally

\* The nearest in time of the actual alerts left, the first of several.
IsBest(j, e, actual) ==
    j \in free /\ \A k \in free \ {j} :
        \/ Distance(e, actual[j]) < Distance(e, actual[k])
        \/ Distance(e, actual[j]) = Distance(e, actual[k]) /\ j < k

\* Mutant of PairNext: an actual alert may serve several expected ones.
PairNextReusing(expected, actual, tolerance) ==
    /\ \E n \in todo :
        /\ \A m \in todo : n <= m
        /\ todo' = todo \ {n}
        /\ IF free = {} THEN tally' = [tally EXCEPT !.missing = @ + 1]
           ELSE \E j \in free :
                    /\ IsBest(j, expected[n], actual)
                    /\ tally' = IF Fits(expected[n], actual[j], tolerance)
                                THEN [tally EXCEPT !.matched = @ + 1]
                                ELSE [tally EXCEPT !.mismatched = @ + 1]
    /\ UNCHANGED << groups, free >>

\* greedy_match, one iteration: the next expected alert takes the best actual
\* one, and the pair matches or is a mismatch.
PairNext(expected, actual, tolerance) ==
    /\ \E n \in todo :
        /\ \A m \in todo : n <= m
        /\ todo' = todo \ {n}
        /\ IF free = {} THEN tally' = [tally EXCEPT !.missing = @ + 1] /\ UNCHANGED free
           ELSE \E j \in free :
                    /\ IsBest(j, expected[n], actual)
                    /\ free' = free \ {j}
                    /\ tally' = IF Fits(expected[n], actual[j], tolerance)
                                THEN [tally EXCEPT !.matched = @ + 1]
                                ELSE [tally EXCEPT !.mismatched = @ + 1]
    /\ UNCHANGED groups

\* What is left of the actual alerts was not expected.
EndGroup ==
    /\ todo = {} /\ free # {}
    /\ tally' = [tally EXCEPT !.unexpected = @ + Cardinality(free)]
    /\ free' = {}
    /\ UNCHANGED << groups, todo >>

Pair(expected, actual, tolerance) ==
    \/ BeginGroup(expected, actual)
    \/ PairNext(expected, actual, tolerance)
    \/ EndGroup

\* verify: the report.
AllPaired == groups = {} /\ todo = {} /\ free = {}
Report ==
    [status |-> IF tally.missing = 0 /\ tally.unexpected = 0 /\ tally.mismatched = 0
                THEN "pass" ELSE "fail",
     matched |-> tally.matched, mismatched |-> tally.mismatched,
     missing |-> tally.missing, unexpected |-> tally.unexpected]
=============================================================================
