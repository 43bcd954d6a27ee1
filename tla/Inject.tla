------------------------------- MODULE Inject -------------------------------
(***************************************************************************)
(* How wfgen fills a scenario (datagen/mod.rs, datagen/inject_gen): every  *)
(* inject line becomes clusters of events that meet its rule (hit), just   *)
(* miss it (near_miss) or never come near it (miss), and what is left of   *)
(* each stream's share is background.  One action is one inject line or    *)
(* one stream; the random start of a cluster is a choice.                  *)
(*                                                                         *)
(* A rule is [name, window, keys, binds, steps]: keys [name, type], binds  *)
(* [alias, window, filter], steps [source, threshold, guard]; a filter, a  *)
(* guard and the predicates of a use step map fields to the values they    *)
(* require.  A line is [syntax, mode, percent, rule, streams, entity, cpe, *)
(* completed, within, uses], Absent for what is; `syntax` tells the cases of  *)
(* the new syntax, which name one stream, from the lines of an inject      *)
(* block.  An event is [stream, window, ts, fields, line, cluster]: the    *)
(* last two are a history.  Times are whole units; fields that are neither *)
(* keys nor required by anything are left out.                             *)
(***************************************************************************)
EXTENDS Integers, Sequences, TLC    \* @@, SortSeq

LOCAL INSTANCE SequencesExt     \* FlattenSeq, ToSet, FoldLeft
LOCAL INSTANCE FiniteSetsExt    \* Min, Max
LOCAL INSTANCE FiniteSets       \* Cardinality

CONSTANTS
    Scenarios,  \* [streams, total, duration, rules, lines]; a stream is
                \* [alias, window, rate]
    MissOffset, \* the entity counter of a miss line starts here
    Absent      \* what is not given

ASSUME InjectAssumption ==
    /\ MissOffset \in Nat
    /\ \A s \in Scenarios : s.total \in Nat /\ s.duration \in Nat \ {0}

VARIABLES
    scenario,
    step,       \* "inject", "background", "generated" or "rejected"
    next,       \* the next line, or the next stream
    injected,   \* the inject events
    used,       \* inject_counts, by stream alias
    background  \* the chunks of the streams

injectVars == << scenario, step, next, injected, used, background >>

-----------------------------------------------------------------------------
(* Shares. *)

Sum(s) == FoldLeft(LAMBDA a, b : a + b, 0, s)
Rounded(n, d) == (2 * n + d) \div (2 * d)
Aliases == {scenario.streams[i].alias : i \in DOMAIN scenario.streams}
StreamOf(alias) == CHOOSE i \in DOMAIN scenario.streams : scenario.streams[i].alias = alias

\* compute_stream_totals, and the same loop in `generate`: proportional to the
\* rates, no more than remains, the last stream takes the rest.
StreamTotals ==
    LET rates == [i \in DOMAIN scenario.streams |-> scenario.streams[i].rate]
        share[i \in DOMAIN rates] ==
            LET before == Sum([j \in 1 .. i - 1 |-> share[j]])
            IN  IF Sum(rates) = 0 THEN 0
                ELSE IF i = Len(rates) THEN scenario.total - before
                ELSE Min({Rounded(scenario.total * rates[i], Sum(rates)), scenario.total - before})
    IN  [a \in Aliases |-> share[StreamOf(a)]]

Budget(alias, percent) == Rounded(StreamTotals[alias] * percent, 100)

-----------------------------------------------------------------------------
(* What a line says about its rule. *)

\* resolve_rule_plan: by name; without a name there must be one rule.
RuleOf(line) ==
    LET named == SelectSeq(scenario.rules, LAMBDA r : r.name = line.rule)
    IN  IF line.rule = Absent
        THEN IF Len(scenario.rules) = 1 THEN scenario.rules[1] ELSE Absent
        ELSE IF named = << >> THEN Absent ELSE named[1]

\* build_alias_map: the bind named as the stream, else those on its window.
BindsFor(rule, alias) ==
    LET byName == {b \in ToSet(rule.binds) : b.alias = alias}
    IN  IF byName # {} THEN byName
        ELSE {b \in ToSet(rule.binds) : b.window = scenario.streams[StreamOf(alias)].window}

\* The stream of each bind that a line covers; Absent if one of its streams is
\* unknown or stands for none or for several binds.  A case maps its stream to
\* every bind of its window that a step reads.
AliasMap(line, rule) ==
    LET sources == {rule.steps[n].source : n \in DOMAIN rule.steps}
        ofCase == {b.alias : b \in {c \in ToSet(rule.binds) : c.alias \in sources
                    /\ c.window = scenario.streams[StreamOf(line.streams[1])].window}}
        alias == [n \in DOMAIN line.streams |->
                    (CHOOSE b \in BindsFor(rule, line.streams[n]) : TRUE).alias]
        lastOf(b) == Max({n \in DOMAIN line.streams : alias[n] = b})
    IN  IF ~ ToSet(line.streams) \subseteq Aliases THEN Absent
        ELSE IF line.syntax
        THEN IF ofCase = {} THEN Absent ELSE [b \in ofCase |-> line.streams[1]]
        ELSE IF \E a \in ToSet(line.streams) : Cardinality(BindsFor(rule, a)) # 1 THEN Absent
        ELSE [b \in ToSet(alias) |-> line.streams[lastOf(b)]]

\* extract_rule_structure: the steps whose bind a stream of the line stands
\* for, with what bind filter and guard require (the guard wins).
Steps(line, rule) ==
    LET map == AliasMap(line, rule)
        covered == SelectSeq(rule.steps, LAMBDA s : s.source \in DOMAIN map)
        BindOf(s) == CHOOSE b \in ToSet(rule.binds) : b.alias = s.source
    IN  IF map = Absent THEN << >>
        ELSE [n \in DOMAIN covered |->
                [stream |-> map[covered[n].source], threshold |-> covered[n].threshold,
                 window |-> scenario.streams[StreamOf(map[covered[n].source])].window,
                 filter |-> covered[n].guard @@ BindOf(covered[n]).filter]]

-----------------------------------------------------------------------------
(* Counts per step and clusters per line. *)

\* plan_use_steps: one use for one step, each at least one event; for hits and
\* near misses, none against the filter of its step.
UsesAreValid(uses, steps, strict) ==
    /\ Len(uses) <= Len(steps)
    /\ \A n \in DOMAIN uses :
        /\ uses[n].count > 0
        /\ strict => \A f \in DOMAIN uses[n].preds \cap DOMAIN steps[n].filter :
                        uses[n].preds[f] = steps[n].filter[f]

UseCount(line, n) == IF n \in DOMAIN line.uses THEN line.uses[n].count ELSE 0

\* A hit line may override the threshold of every step.
HitSteps(line, steps) ==
    [n \in DOMAIN steps |->
        IF line.cpe = Absent THEN steps[n] ELSE [steps[n] EXCEPT !.threshold = line.cpe]]

\* compute_hit_counts: what is not declared is filled to the threshold.
HitCounts(line, steps) ==
    [n \in DOMAIN steps |-> IF UseCount(line, n) = 0 THEN steps[n].threshold ELSE UseCount(line, n)]

Below(count) == IF count = 0 THEN 0 ELSE count - 1

\* Mutant of NearMissCounts: the boundary step is completed.
NearMissCountsFull(line, steps) ==
    [n \in DOMAIN steps |-> steps[n].threshold]

\* compute_near_miss_counts: the last declared step falls short of its
\* threshold and later ones get nothing; without declarations the step after
\* `steps_completed` does, by the last step's threshold.
NearMissCounts(line, steps) ==
    LET size == Len(steps)
        boundary == IF line.uses # << >> THEN Len(line.uses)
                    ELSE IF line.completed = Absent THEN size ELSE Min({line.completed + 1, size})
        full(n) == IF line.cpe = Absent THEN steps[n].threshold ELSE line.cpe
    IN  [n \in DOMAIN steps |->
            IF n > boundary THEN 0
            ELSE IF line.uses # << >>
            THEN IF n < boundary THEN UseCount(line, n)
                 ELSE Min({UseCount(line, n), Below(steps[n].threshold)})
            ELSE IF n = boundary THEN Below(full(size)) ELSE full(n)]

MissCounts(line, steps) == [n \in DOMAIN steps |-> UseCount(line, n)]

\* The least of what the streams allow, 0 when no stream limits it.
Least(limits) == IF limits = {} THEN 0 ELSE Min(limits)

\* compute_cluster_count_for_step_counts: by the events a cluster takes of each
\* stream.
ClustersByStream(line, steps, counts) ==
    LET taken(a) == Sum([n \in DOMAIN steps |-> IF steps[n].stream = a THEN counts[n] ELSE 0])
    IN  Least({Budget(a, line.percent) \div taken(a) :
                a \in {b \in {steps[n].stream : n \in DOMAIN steps} : taken(b) > 0}})

\* compute_cluster_count: by the events a cluster takes for each step.
ClustersByStep(line, steps) ==
    Least({Budget(steps[n].stream, line.percent) \div steps[n].threshold :
                n \in {m \in DOMAIN steps : steps[m].threshold > 0}})

-----------------------------------------------------------------------------
(* Events. *)

\* generate_key_values: text keys carry the kind of line and the counter, the
\* numbers and addresses only the counter, shifted by the place of the key.
KeyValues(rule, entity, prefix, counter) ==
    LET names == rule.keys \o (IF entity = Absent \/ \E n \in DOMAIN rule.keys : rule.keys[n].name = entity.name
                               THEN << >> ELSE << entity >>)
        At(name) == CHOOSE n \in DOMAIN names : names[n].name = name
    IN  [name \in {names[n].name : n \in DOMAIN names} |->
            IF names[At(name)].type = "text" THEN << prefix, counter >>
            ELSE << "", counter + At(name) - 1 >>]

\* build_event_fields_with_predicates: keys before predicates before filters.
Event(on, ts, keys, preds, cluster) ==
    [stream |-> on.stream, window |-> on.window, ts |-> ts, fields |-> keys @@ preds @@ on.filter,
     line |-> next, cluster |-> cluster]

Nothing == << >>
Predicates(line, n, i) == IF i <= UseCount(line, n) THEN line.uses[n].preds ELSE Nothing

\* Mutant of ClusterEvents: every step has the whole window.
ClusterEventsOverlong(line, window, steps, counts, keys, cluster, start) ==
    FlattenSeq([n \in DOMAIN steps |->
        [i \in 1 .. counts[n] |->
            Event(steps[n], start + (n - 1) * window + (window * (i - 1)) \div counts[n],
                  keys, Predicates(line, n, i), cluster)]])

\* generate_cluster_events: the window is divided among the steps, a step that
\* has no events leaves no gap.
ClusterEvents(line, window, steps, counts, keys, cluster, start) ==
    LET part == window \div Len(steps)
        before(n) == Cardinality({m \in 1 .. n - 1 : counts[m] > 0})
    IN  FlattenSeq([n \in DOMAIN steps |->
            [i \in 1 .. counts[n] |->
                Event(steps[n], start + before(n) * part + (part * (i - 1)) \div counts[n],
                      keys, Predicates(line, n, i), cluster)]])

\* Events spread over the duration.
Spread(i, count) ==
    IF count > 1 THEN (scenario.duration * i) \div count ELSE scenario.duration \div 2

-----------------------------------------------------------------------------
(* Inject lines. *)

Untouched ==
    /\ step = "inject" /\ next = 1
    /\ injected = << >> /\ background = << >>
    /\ used = [a \in Aliases |-> 0]

InitInject == scenario \in Scenarios /\ Untouched

Line == scenario.lines[next]
Rule == RuleOf(Line)
LineSteps == Steps(Line, Rule)

\* The line has a rule, and at least one of its steps is covered.
Resolved ==
    /\ step = "inject" /\ scenario.rules # << >> /\ next \in DOMAIN scenario.lines
    /\ Rule # Absent /\ LineSteps # << >>

Add(events, counts, times) ==
    /\ injected' = injected \o events
    /\ used' = [a \in Aliases |-> used[a] + times *
                    Sum([n \in DOMAIN counts |-> IF LineSteps[n].stream = a THEN counts[n] ELSE 0])]
    /\ next' = next + 1
    /\ UNCHANGED << scenario, step, background >>

\* The clusters of a hit or near-miss line, each with an entity of its own and
\* a random start that leaves room for its window.
Clusters(prefix, steps, counts, number) ==
    LET window == IF Line.within = Absent THEN Rule.window ELSE Line.within
        room == scenario.duration - window
    IN  \E starts \in [1 .. number -> IF room > 0 THEN 0 .. room - 1 ELSE {0}] :
            Add(FlattenSeq([c \in 1 .. number |->
                    ClusterEvents(Line, window, steps, counts,
                                  KeyValues(Rule, Line.entity, prefix, c - 1), c, starts[c])]),
                counts, number)

\* generate_hit_clusters.
HitLine ==
    /\ Resolved /\ Line.mode = "hit" /\ UsesAreValid(Line.uses, LineSteps, TRUE)
    /\ LET steps == HitSteps(Line, LineSteps)
           counts == HitCounts(Line, steps)
       IN  Clusters("hit", steps, counts,
                    IF Line.uses = << >> THEN ClustersByStep(Line, steps)
                    ELSE ClustersByStream(Line, steps, counts))

\* generate_near_miss_clusters.
NearMissLine ==
    /\ Resolved /\ Line.mode = "near_miss" /\ UsesAreValid(Line.uses, LineSteps, TRUE)
    /\ LET counts == NearMissCounts(Line, LineSteps)
       IN  Clusters("nm", LineSteps, counts, ClustersByStream(Line, LineSteps, counts))

\* generate_non_hit_events: on the stream of every step, the line's share, each
\* event with an entity of its own.
MissLine ==
    /\ Resolved /\ Line.mode = "miss" /\ Line.uses = << >>
    /\ LET steps == LineSteps
           counts == [n \in DOMAIN steps |-> Budget(steps[n].stream, Line.percent)]
           first(n) == MissOffset + Sum([m \in 1 .. n - 1 |-> counts[m]])
       IN  Add(FlattenSeq([n \in DOMAIN steps |->
                    [i \in 1 .. counts[n] |->
                        Event(steps[n], Spread(i - 1, counts[n]),
                              KeyValues(Rule, Absent, "bg", first(n) + i - 1), Nothing, 0)]]),
               counts, 1)

\* generate_non_hit_use_step_events: the declared events over and over, each
\* with an entity of its own.
MissUsesLine ==
    /\ Resolved /\ Line.mode = "miss" /\ Line.uses # << >>
    /\ UsesAreValid(Line.uses, LineSteps, FALSE)
    /\ LET steps == LineSteps
           counts == MissCounts(Line, steps)
           repeats == ClustersByStream(Line, steps, counts)
           shape == FlattenSeq([n \in DOMAIN steps |-> [i \in 1 .. counts[n] |-> n]])
           total == repeats * Len(shape)
           stepAt(i) == shape[((i - 1) % Len(shape)) + 1]
       IN  Add([i \in 1 .. total |->
                    Event(steps[stepAt(i)], Spread(i - 1, total),
                          KeyValues(Rule, Line.entity, "miss", MissOffset + i - 1),
                          Line.uses[stepAt(i)].preds, 0)],
               counts, repeats)

\* A line that names no rule, no step or impossible uses fails the generation.
Reject ==
    /\ step = "inject" /\ scenario.rules # << >> /\ next \in DOMAIN scenario.lines
    /\ \/ Rule = Absent
       \/ Rule # Absent /\ LineSteps = << >>
       \/ Resolved /\ ~ UsesAreValid(Line.uses, LineSteps, Line.mode # "miss")
    /\ step' = "rejected"
    /\ UNCHANGED << scenario, next, injected, used, background >>

-----------------------------------------------------------------------------
(* Background. *)

Injected ==
    /\ step = "inject" /\ (scenario.rules = << >> \/ next \notin DOMAIN scenario.lines)
    /\ IF Sum([i \in DOMAIN scenario.streams |-> scenario.streams[i].rate]) = 0
       THEN step' = "rejected" ELSE step' = "background"
    /\ next' = 1
    /\ UNCHANGED << scenario, injected, used, background >>

\* What a stream has left after its inject events, saturating.
Left(alias) == Max({0, StreamTotals[alias] - used[alias]})

\* Mutant of FillStream: the whole share, inject events or not.
FillWholeShare ==
    /\ step = "background" /\ next \in DOMAIN scenario.streams
    /\ LET s == scenario.streams[next]
           count == StreamTotals[s.alias]
           interval == IF count > 1 THEN scenario.duration \div count ELSE 0
           on == [stream |-> s.alias, window |-> s.window, filter |-> Nothing]
           events == [i \in 1 .. count |-> [Event(on, interval * (i - 1), Nothing, Nothing, 0) EXCEPT !.line = 0]]
       IN  background' = IF count = 0 THEN background ELSE Append(background, events)
    /\ next' = next + 1
    /\ UNCHANGED << scenario, step, injected, used >>

\* generate_stream_events, for each stream in turn.
FillStream ==
    /\ step = "background" /\ next \in DOMAIN scenario.streams
    /\ LET s == scenario.streams[next]
           count == Left(s.alias)
           interval == IF count > 1 THEN scenario.duration \div count ELSE 0
           on == [stream |-> s.alias, window |-> s.window, filter |-> Nothing]
           events == [i \in 1 .. count |-> [Event(on, interval * (i - 1), Nothing, Nothing, 0) EXCEPT !.line = 0]]
       IN  background' = IF count = 0 THEN background ELSE Append(background, events)
    /\ next' = next + 1
    /\ UNCHANGED << scenario, step, injected, used >>

Filled ==
    /\ step = "background" /\ next \notin DOMAIN scenario.streams
    /\ step' = "generated"
    /\ UNCHANGED << scenario, next, injected, used, background >>

InjectNext ==
    \/ HitLine \/ NearMissLine \/ MissLine \/ MissUsesLine \/ Reject
    \/ Injected \/ FillStream \/ Filled

\* What is merged: the inject events by time, then a chunk for each stream.
SortedChunks ==
    LET order == SortSeq([n \in DOMAIN injected |-> n],
                    LAMBDA m, n : injected[m].ts < injected[n].ts
                                    \/ (injected[m].ts = injected[n].ts /\ m < n))
    IN  (IF injected = << >> THEN << >> ELSE << [n \in DOMAIN order |-> injected[order[n]]] >>)
            \o background

-----------------------------------------------------------------------------
(* What a stream of events means to a rule and to the scenario. *)

\* The event is one that step n of the rule counts.
Feeds(rule, n, event) ==
    LET bind == CHOOSE b \in ToSet(rule.binds) : b.alias = rule.steps[n].source
        need == rule.steps[n].guard @@ bind.filter
    IN  event.window = bind.window /\ \A f \in DOMAIN need :
                                        f \in DOMAIN event.fields /\ event.fields[f] = need[f]

\* The events, in their order, complete every step of the rule.
Completes(rule, events) ==
    LET at[k \in 0 .. Len(events)] ==
            IF k = 0 THEN << 1, 0 >>
            ELSE LET n == at[k - 1][1]
                     count == at[k - 1][2] + 1
                 IN  IF n > Len(rule.steps) \/ ~ Feeds(rule, n, events[k]) THEN at[k - 1]
                     ELSE IF count >= rule.steps[n].threshold THEN << n + 1, 0 >> ELSE << n, count >>
    IN  at[Len(events)][1] > Len(rule.steps)

\* The values that an inject event has for the keys of the rule.
EntityOf(rule, event) == [n \in DOMAIN rule.keys |-> event.fields[rule.keys[n].name]]

\* Without rules no line is generated.
LinesInMode(modes) ==
    {l \in DOMAIN scenario.lines : scenario.rules # << >> /\ scenario.lines[l].mode \in modes}
IsDefault(rule, line) ==
    /\ line.cpe = Absent
    /\ line.within = Absent \/ line.within <= rule.window
    /\ \A n \in DOMAIN line.uses \cap DOMAIN rule.steps :
            line.mode = "hit" => line.uses[n].count >= rule.steps[n].threshold

\* Every cluster of a hit line that covers all steps, and lowers no threshold,
\* completes its rule in the order in which its events arrive, within the
\* window of the rule.
HitsComplete(events) ==
    \A l \in LinesInMode({"hit"}) :
        LET line == scenario.lines[l]
            rule == RuleOf(line)
            own(c) == SelectSeq(events, LAMBDA e : e.line = l /\ e.cluster = c)
        IN  Len(Steps(line, rule)) = Len(rule.steps) /\ IsDefault(rule, line) =>
                \A c \in {events[k].cluster : k \in {j \in DOMAIN events : events[j].line = l}} :
                    /\ Completes(rule, own(c))
                    /\ own(c)[Len(own(c))].ts - own(c)[1].ts < rule.window

\* The entities of the scenario are kept apart by the generator: text keys, one
\* line of each kind, and a miss event does not complete the rule by itself.
EntitiesApart ==
    /\ Len(scenario.rules) = 1
    /\ LET rule == scenario.rules[1]
       IN  /\ \A n \in DOMAIN rule.keys : rule.keys[n].type = "text"
           /\ Sum([n \in DOMAIN rule.steps |-> rule.steps[n].threshold]) > 1
           /\ \A l \in LinesInMode({"near_miss"}) :
                /\ scenario.lines[l].cpe = Absent
                /\ \A n \in DOMAIN scenario.lines[l].uses \cap DOMAIN rule.steps :
                        n = Len(scenario.lines[l].uses)
                            \/ scenario.lines[l].uses[n].count <= rule.steps[n].threshold
    /\ Cardinality(LinesInMode({"near_miss"})) <= 1 /\ Cardinality(LinesInMode({"miss"})) <= 1

\* No entity of near_miss and miss lines completes the rule, over all the
\* events it has.
QuietStayQuiet(events) ==
    EntitiesApart =>
        LET rule == scenario.rules[1]
            lineEvents == SelectSeq(events, LAMBDA e : e.line # 0)
            of(id) == SelectSeq(lineEvents, LAMBDA e : EntityOf(rule, e) = id)
        IN  \A k \in DOMAIN lineEvents :
                scenario.lines[lineEvents[k].line].mode \in {"near_miss", "miss"}
                    => ~ Completes(rule, of(EntityOf(rule, lineEvents[k])))

\* Each stream has its share of the total, or its inject events if they are
\* more; and a line stays within its percentage of a stream, unless two steps
\* of a line without uses share the stream.
SharesMet(events) ==
    LET on(a) == {k \in DOMAIN events : events[k].stream = a}
        from(a, l) == {k \in on(a) : events[k].line = l}
    IN  \A a \in Aliases :
            /\ Cardinality(on(a)) =
                    Max({StreamTotals[a], Cardinality(on(a)) - Cardinality(from(a, 0))})
            /\ \A l \in LinesInMode({"hit", "near_miss", "miss"}) :
                LET line == scenario.lines[l]
                    steps == Steps(line, RuleOf(line))
                IN  \/ line.uses = << >> /\ line.mode # "near_miss"
                            /\ \E m, n \in DOMAIN steps : m # n /\ steps[m].stream = a /\ steps[n].stream = a
                    \/ Cardinality(from(a, l)) <= Budget(a, line.percent)
=============================================================================
