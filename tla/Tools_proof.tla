----------------------------- MODULE Tools_proof -----------------------------
(***************************************************************************)
(* What the smaller commands guarantee for any input: the performance gate *)
(* (GateRun), `wfadm check` (ProjectCheck), `wfgen stream` (Stream), and   *)
(* the generator of the NEXMark stream with the check written beside it    *)
(* (Nexmark).                                                              *)
(***************************************************************************)
EXTENDS GateRun, Nexmark, ProjectCheck, Stream, FiniteSetTheorems, SequenceTheorems, TLAPS

-----------------------------------------------------------------------------
(* The gate. *)

JudgedInv == judged = "Passed" => Evaluate(cfg, wall, base) = "Passed"

LEMMA RowIsThere ==
    ASSUME NEW table, NEW s, NEW n, EpsAt(table, s, n) # None
    PROVE  \E i \in DOMAIN table : table[i].stage = s /\ table[i].n = n
BY DEF EpsAt

LEMMA PassedComplete ==
    ASSUME Evaluate(cfg, wall, base) = "Passed"
    PROVE  /\ Validate(cfg)
           /\ "missing" \notin Checks(cfg, wall, base)
BY DEF Evaluate

LEMMA PassedHasRows ==
    ASSUME JudgedInv
    PROVE  PassNeedsEveryRow
<1>. SUFFICES ASSUME judged = "Passed" PROVE PassNeedsEveryRow
  BY DEF PassNeedsEveryRow
<1>. DEFINE n == MaxN(wall)
            Has(table, s) == \E i \in DOMAIN table :
                               table[i].stage = s /\ table[i].n = n
<1>1. Validate(cfg) /\ "missing" \notin Checks(cfg, wall, base)
  BY PassedComplete DEF JudgedInv
<1>2. cfg.rules_eps_min # None => RulesSetEps(cfg, wall, n) # "missing"
  BY <1>1 DEF Checks
<1>3. cfg.per_rule_ns_max # None => PerRuleNs(cfg, wall, n) # "missing"
  BY <1>1 DEF Checks
<1>4. ASSUME cfg.baseline, NEW s \in SE!ToSet(cfg.stages)
      PROVE  EpsRegression(cfg, wall, base, n, s) # "missing"
  BY <1>1, <1>4 DEF Checks
<1>. HIDE DEF n
<1>5. /\ cfg.rules_eps_min # None => Has(wall, "rules")
      /\ cfg.per_rule_ns_max # None => Has(wall, "rules") /\ Has(wall, "floor")
  BY <1>2, <1>3, RowIsThere DEF RulesSetEps, PerRuleNs
<1>6. ASSUME HasRelative(cfg), NEW s \in SE!ToSet(cfg.stages)
      PROVE  Has(wall, s) /\ Has(base, s)
  <2>1. cfg.baseline
    BY <1>1, <1>6 DEF Validate, HasRelative
  <2>2. EpsAt(wall, s, n) # None /\ EpsAt(base, s, n) # None
    BY <1>4, <1>6, <2>1 DEF EpsRegression
  <2>. QED BY <2>2, RowIsThere
<1>. QED BY <1>5, <1>6 DEF PassNeedsEveryRow, HasAbsolute, n

(* The gate never passes a session for lack of a measurement: whatever     *)
(* file, tables and baseline, each row that a configured check compares is *)
(* there (evaluate_gate, missing_measurement).                             *)
THEOREM PassIsMeasured == GateSpec => []PassNeedsEveryRow
<1>1. InitGate => JudgedInv
  BY DEF InitGate, JudgedInv
<1>2. JudgedInv /\ [GateNext]_gateVars => JudgedInv'
  BY DEF JudgedInv, GateNext, Reject, Judge, gateVars
<1>3. JudgedInv => PassNeedsEveryRow
  BY PassedHasRows
<1>. QED BY <1>1, <1>2, <1>3, PTL DEF GateSpec

-----------------------------------------------------------------------------
(* `wfadm check`.  The first `last` components have had their turn; with   *)
(* --fail-fast the command may have stopped there, at a failure.           *)

Everything == SQ!ToSet(Components)

Clean(i) == Components[i] \in selected => Cells[Components[i]].state # "failed"

StoppedAt(last) ==
    /\ at = Len(Components) + 1 /\ command.failFast
    /\ last >= 1 /\ Components[last] \in selected
    /\ Cells[Components[last]].state = "failed"
    /\ \A i \in 1 .. last - 1 : Clean(i)

GoneTo(last) ==
    /\ at = last + 1 \/ (at = 0 /\ last = 0)
    /\ command.failFast => \A i \in 1 .. last : Clean(i)

RowUpTo(last) ==
    \A j \in 1 .. 7 :
        row[Components[j]] = IF j <= last /\ Components[j] \in selected
                             THEN Cells[Components[j]] ELSE Skipped

CheckInv ==
    /\ selected \subseteq Everything
    /\ at = 0 => selected = {}
    /\ DOMAIN row = Everything
    /\ exit \in {"ok", "failed"} =>
         at > Len(Components) /\ exit = (IF HasFailures THEN "failed" ELSE "ok")
    /\ \E last \in 0 .. 7 : (StoppedAt(last) \/ GoneTo(last)) /\ RowUpTo(last)

LEMMA SevenComponents ==
    /\ Len(Components) = 7 /\ DOMAIN Components = 1 .. 7
    /\ \A i, j \in 1 .. 7 : Components[i] = Components[j] => i = j
    /\ \A i \in 1 .. 7 : Components[i] \in Everything
    /\ \A c \in Everything : \E i \in 1 .. 7 : Components[i] = c
<1>1. Len(Components) = 7 /\ DOMAIN Components = 1 .. 7
  BY DEF Components
<1>2. \A i, j \in 1 .. 7 : Components[i] = Components[j] => i = j
  BY DEF Components
<1>. QED BY <1>1, <1>2 DEF Everything, SQ!ToSet

LEMMA NamesAreComponents == \A t \in DOMAIN Names : Names[t] \in Everything
BY DEF Names, Everything, SQ!ToSet, Components

LEMMA CellStates ==
    ASSUME NEW c \in Everything
    PROVE  Cells[c].state \in {"failed", "passed", "missing"}
<1>1. \A bad, warned : Judged(bad, warned).state \in {"failed", "passed"}
  BY DEF Judged
<1>2. Missing.state = "missing"
  BY DEF Missing
<1>. DEFINE Fine(cell) == cell.state \in {"failed", "passed", "missing"}
<1>3. Fine(ConfCell) /\ Fine(SourcesCell) /\ Fine(ScenariosCell)
  BY <1>1, <1>2 DEF ConfCell, SourcesCell, ScenariosCell
<1>4. Fine(ConnectorsCell) /\ Fine(SinksCell)
  BY <1>1, <1>2 DEF ConnectorsCell, SinksCell
<1>5. Fine(RulesCell) /\ Fine(SchemasCell)
  BY <1>1, <1>2 DEF RulesCell, SchemasCell
<1>6. c \in {"conf", "sources", "connectors", "sinks", "rules", "schemas",
             "scenarios"}
  BY DEF Everything, SQ!ToSet, Components
<1>. QED BY <1>3, <1>4, <1>5, <1>6 DEF Cells

LEMMA CellsKept == ASSUME project' = project PROVE Cells' = Cells
<1>1. \A d : /\ Exists(d)' = Exists(d) /\ Files(d)' = Files(d)
            /\ Bad(d)' = Bad(d)
  BY DEF Exists, Files, Bad
<1>2. \A d, above : Located(d, above)' = Located(d, above)
  BY <1>1 DEF Located
<1>3. \A path : ConfigDir(path)' = ConfigDir(path)
  BY <1>1 DEF ConfigDir
<1>4. \A d, path : ModelFiles(d, path)' = ModelFiles(d, path)
  BY <1>1, <1>3 DEF ModelFiles
<1>5. ConfCell' = ConfCell /\ SourcesCell' = SourcesCell
      /\ ScenariosCell' = ScenariosCell
  BY <1>1 DEF ConfCell, SourcesCell, ScenariosCell
<1>6. ConnectorsCell' = ConnectorsCell /\ SinksCell' = SinksCell
  BY <1>1, <1>2 DEF ConnectorsCell, SinksCell
<1>7. RulesCell' = RulesCell /\ SchemasCell' = SchemasCell
  BY <1>1, <1>4 DEF RulesCell, SchemasCell
<1>. QED BY <1>5, <1>6, <1>7 DEF Cells

LEMMA SelectKeeps ==
    ASSUME CheckInv, Select
    PROVE  CheckInv'
<1>1. /\ at = 0 /\ at' = 1 /\ selected = {} /\ row' = row
      /\ project' = project /\ command' = command /\ Cells' = Cells
  BY CellsKept DEF CheckInv, Select
<1>2. selected' \subseteq Everything /\ exit' \notin {"ok", "failed"}
  BY NamesAreComponents DEF Select, Everything
<1>3. RowUpTo(0)
  <2>1. PICK last \in 0 .. 7 : RowUpTo(last)
    BY DEF CheckInv
  <2>. QED BY <1>1, <2>1 DEF RowUpTo
<1>4. RowUpTo(0)' /\ GoneTo(0)'
  BY <1>1, <1>3 DEF RowUpTo, GoneTo
<1>. QED BY <1>1, <1>2, <1>4 DEF CheckInv

LEMMA EvaluateComponentKeeps ==
    ASSUME CheckInv, EvaluateComponent
    PROVE  CheckInv'
<1>1. /\ at \in 1 .. 7 /\ exit = "none" /\ exit' = exit /\ selected' = selected
      /\ project' = project /\ command' = command /\ Cells' = Cells
  BY SevenComponents, CellsKept DEF EvaluateComponent
<1>2. PICK last \in 0 .. 7 : (StoppedAt(last) \/ GoneTo(last)) /\ RowUpTo(last)
  BY DEF CheckInv
<1>3. at = last + 1 /\ last + 1 \in 1 .. 7 /\ GoneTo(last)
  BY <1>1, <1>2, SevenComponents DEF StoppedAt, GoneTo
<1>4. CASE Components[at] \notin selected
  <2>1. at' = at + 1 /\ row' = row
    BY <1>4 DEF EvaluateComponent
  <2>2. RowUpTo(last + 1)'
    BY <1>1, <1>2, <1>3, <1>4, <2>1 DEF RowUpTo
  <2>3. GoneTo(last + 1)'
    BY <1>1, <1>3, <1>4, <2>1 DEF GoneTo, Clean
  <2>. QED BY <1>1, <1>3, <2>1, <2>2, <2>3 DEF CheckInv
<1>5. CASE Components[at] \in selected
  <2>. DEFINE c == Components[at]
  <2>1. row' = [row EXCEPT ![c] = Cells[c]] /\ at' = After(Cells[c])
    BY <1>5 DEF EvaluateComponent
  <2>2. DOMAIN row' = Everything /\ c \in DOMAIN row
    BY <1>1, <2>1, SevenComponents DEF CheckInv
  <2>3. RowUpTo(last + 1)'
    <3>1. ASSUME NEW j \in 1 .. 7
          PROVE  row'[Components[j]]
                   = IF j <= last + 1 /\ Components[j] \in selected
                     THEN Cells[Components[j]] ELSE Skipped
      <4>1. Components[j] \in Everything /\ (Components[j] = c => j = at)
        BY <1>1, SevenComponents
      <4>2. CASE j = at
        BY <1>3, <1>5, <2>1, <2>2, <4>2
      <4>3. CASE j # at
        <5>1. row'[Components[j]] = row[Components[j]]
          BY <2>1, <2>2, <4>1, <4>3 DEF CheckInv
        <5>. QED BY <1>2, <1>3, <4>3, <5>1 DEF RowUpTo
      <4>. QED BY <4>2, <4>3
    <3>. QED BY <1>1, <3>1 DEF RowUpTo
  <2>4. StoppedAt(last + 1)' \/ GoneTo(last + 1)'
    <3>1. CASE Cells[c].state = "failed" /\ command.failFast
      <4>1. at' = Len(Components) + 1
        BY <2>1, <3>1 DEF After
      <4>. QED BY <1>1, <1>3, <1>5, <3>1, <4>1 DEF StoppedAt, GoneTo, Clean
    <3>2. CASE ~(Cells[c].state = "failed" /\ command.failFast)
      <4>1. at' = at + 1
        BY <2>1, <3>2 DEF After
      <4>. QED BY <1>1, <1>3, <1>5, <3>2, <4>1 DEF GoneTo, Clean
    <3>. QED BY <3>1, <3>2
  <2>5. at' # 0
    BY <1>1, <2>1, SevenComponents DEF After
  <2>. QED BY <1>1, <1>3, <2>2, <2>3, <2>4, <2>5 DEF CheckInv
<1>. QED BY <1>4, <1>5

LEMMA FinishKeeps ==
    ASSUME CheckInv, Finish \/ UNCHANGED checkVars
    PROVE  CheckInv'
<1>1. /\ UNCHANGED << project, command, selected, at, row >>
      /\ Cells' = Cells
  BY CellsKept DEF Finish, checkVars
<1>2. exit' \in {"ok", "failed"} =>
        at > Len(Components) /\ exit' = (IF HasFailures THEN "failed" ELSE "ok")
  BY DEF Finish, checkVars, CheckInv
<1>3. HasFailures' = HasFailures
  BY <1>1 DEF HasFailures
<1>4. \A last : /\ StoppedAt(last)' = StoppedAt(last) /\ RowUpTo(last)' = RowUpTo(last)
               /\ GoneTo(last)' = GoneTo(last)
  BY <1>1 DEF StoppedAt, RowUpTo, GoneTo, Clean
<1>. QED BY <1>1, <1>2, <1>3, <1>4 DEF CheckInv

(* What a finished command knows of each component it was asked for.       *)
LEMMA FinishedRow ==
    ASSUME CheckInv, at > Len(Components)
    PROVE  \E last \in 0 .. 7 :
             /\ RowUpTo(last)
             /\ command.failFast => \A i \in 1 .. last - 1 : Clean(i)
             /\ \/ last = 7
                \/ /\ command.failFast /\ last >= 1 /\ Components[last] \in selected
                   /\ Cells[Components[last]].state = "failed"
BY SevenComponents DEF CheckInv, StoppedAt, GoneTo

LEMMA PassedWasChecked ==
    ASSUME CheckInv, at > Len(Components)
    PROVE  PassedIsChecked
<1>1. PICK last \in 0 .. 7 :
        /\ RowUpTo(last)
        /\ command.failFast => \A i \in 1 .. last - 1 : Clean(i)
  BY FinishedRow
<1>. SUFFICES ASSUME NEW c \in Everything, Stat(c) = "passed"
              PROVE  /\ c \in selected
                     /\ Cells[c].state \in {"passed", "missing"}
                     /\ command.failFast => \A i, j \in DOMAIN Components :
                          Components[j] = c /\ i < j /\ Components[i] \in selected
                              => Cells[Components[i]].state # "failed"
  BY DEF PassedIsChecked, Everything
<1>2. c \in selected /\ row[c].state \notin {"skipped", "failed"}
  BY DEF Stat
<1>3. PICK p \in 1 .. 7 : Components[p] = c
  BY SevenComponents
<1>4. p <= last /\ row[c] = Cells[c]
  BY <1>1, <1>2, <1>3 DEF RowUpTo, Skipped
<1>5. Cells[c].state \in {"passed", "missing"}
  BY <1>2, <1>4, CellStates
<1>6. ASSUME command.failFast, NEW i \in DOMAIN Components,
             NEW j \in DOMAIN Components,
             Components[j] = c, i < j, Components[i] \in selected
      PROVE  Cells[Components[i]].state # "failed"
  BY <1>1, <1>3, <1>4, <1>6, SevenComponents DEF Clean
<1>. QED BY <1>2, <1>5, <1>6

LEMMA FinishedVerdict ==
    ASSUME CheckInv
    PROVE  VerdictIsWhole
<1>. SUFFICES ASSUME exit \in {"ok", "failed"} PROVE VerdictIsWhole
  BY DEF VerdictIsWhole
<1>. DEFINE wrong == {c \in selected : Cells[c].state = "failed"}
<1>1. at > Len(Components) /\ exit = (IF HasFailures THEN "failed" ELSE "ok")
  BY DEF CheckInv
<1>2. PICK last \in 0 .. 7 :
        /\ RowUpTo(last)
        /\ \/ last = 7
           \/ /\ command.failFast /\ last >= 1 /\ Components[last] \in selected
              /\ Cells[Components[last]].state = "failed"
  BY <1>1, FinishedRow
<1>3. ASSUME NEW c \in selected
      PROVE  /\ row[c].state = "failed" => c \in wrong
             /\ last = 7 => row[c] = Cells[c]
  <2>1. PICK p \in 1 .. 7 : Components[p] = c
    BY SevenComponents DEF CheckInv
  <2>2. row[c] = IF p <= last THEN Cells[c] ELSE Skipped
    BY <1>2, <2>1 DEF RowUpTo
  <2>. QED BY <2>1, <2>2 DEF Skipped
<1>4. wrong # {} => \E c \in wrong : row[c].state = "failed"
  <2>1. CASE last = 7
    BY <1>3, <2>1
  <2>2. CASE last # 7
    <3>1. row[Components[last]] = Cells[Components[last]]
      BY <1>2, <2>2 DEF RowUpTo
    <3>. QED BY <1>2, <2>2, <3>1
  <2>. QED BY <2>1, <2>2
<1>5. (exit = "failed") = (wrong # {})
  BY <1>1, <1>3, <1>4 DEF HasFailures
<1>6. ASSUME NEW c \in wrong, row[c].state = "failed"
      PROVE  /\ Stat(c) = "failed" /\ c \in Summary
             /\ << c, "failed", "cross" >> \in Entries
  <2>1. c \in selected /\ c \in Everything
    BY DEF CheckInv
  <2>2. Stat(c) = "failed" /\ c \in Summary
    BY <1>6, <2>1 DEF Stat, Summary, Everything
  <2>3. << c, "failed", "cross" >> \in Entries
    BY <1>6, <2>1 DEF Entries, Mark
  <2>. QED BY <2>2, <2>3
<1>7. ~ command.failFast => {c \in selected : Stat(c) = "failed"} = wrong
  <2>1. ~ command.failFast => last = 7
    BY <1>2
  <2>2. \A c \in selected : Stat(c) = "failed" <=> row[c].state = "failed"
    BY DEF Stat
  <2>. QED BY <1>3, <2>1, <2>2
<1>8. PassedIsChecked
  BY <1>1, PassedWasChecked
<1>. QED BY <1>4, <1>5, <1>6, <1>7, <1>8 DEF VerdictIsWhole

(* `wfadm check` fails exactly when something it was asked for is invalid, *)
(* wherever --fail-fast stops it, shows such a failure in every mode of    *)
(* output, and counts nothing as passed that it has not looked at: for any *)
(* project and any selection (evaluate_target, has_failures).              *)
THEOREM CheckVerdict == CheckSpec => []VerdictIsWhole
<1>1. InitCheck => CheckInv
  <2>. SUFFICES ASSUME InitCheck PROVE CheckInv
    OBVIOUS
  <2>1. /\ selected = {} /\ at = 0 /\ exit = "none"
        /\ row = [c \in Everything |-> Skipped]
    BY DEF InitCheck, BlankRow, Everything
  <2>2. RowUpTo(0) /\ GoneTo(0)
    BY <2>1, SevenComponents DEF RowUpTo, GoneTo
  <2>. QED BY <2>1, <2>2 DEF CheckInv
<1>2. CheckInv /\ [CheckNext]_checkVars => CheckInv'
  BY SelectKeeps, EvaluateComponentKeeps, FinishKeeps DEF CheckNext
<1>3. CheckInv => VerdictIsWhole
  BY FinishedVerdict
<1>. QED BY <1>1, <1>2, <1>3, PTL DEF CheckSpec

-----------------------------------------------------------------------------
(* `wfgen stream`. *)

(* No more than the budget is ever sent, and a sentinel reports just that. *)
WithinBudget ==
    /\ Limited => total <= option.budget
    /\ phase = "sent" => total = option.budget /\ told = option.budget

StreamInv ==
    /\ dir \in ScenarioDirs
    /\ option \in [rate : Rates, slice : Slices, budget : Budgets]
    /\ idx \in Nat \ {0} /\ total \in Nat
    /\ dir # << >> => idx \in DOMAIN dir
    /\ phase = "slice" => dir # << >>
    /\ Limited => total <= option.budget
    /\ phase \in {"sentinel", "sent"} => Limited /\ total = option.budget
    /\ phase = "sent" => told = total

LEMMA LargerOfTwo ==
    ASSUME NEW a \in Int, NEW b \in Int
    PROVE  FS!Max({a, b}) = IF a >= b THEN a ELSE b
BY DEF FS!Max

LEMMA SmallerOfTwo ==
    ASSUME NEW a \in Int, NEW b \in Int
    PROVE  FS!Min({a, b}) = IF a <= b THEN a ELSE b
BY DEF FS!Min

LEMMA Typed ==
    ASSUME StreamInv
    PROVE  /\ option.rate \in Nat /\ option.slice \in Nat /\ total \in Nat
           /\ Limited => option.budget \in Nat \ {0}
           /\ MaxBatch \in Nat \ {0}
           /\ dir \in Seq([rate : Nat, parses : BOOLEAN])
           /\ dir # << >> => dir[idx].rate \in Nat /\ Len(dir) \in Nat \ {0}
<1>1. /\ option.rate \in Nat /\ option.slice \in Nat /\ total \in Nat
      /\ Limited => option.budget \in Nat \ {0}
      /\ MaxBatch \in Nat \ {0}
  BY StreamAssumption DEF StreamInv, Limited
<1>2. dir \in Seq([rate : Nat, parses : BOOLEAN])
  BY StreamAssumption, Zenon DEF StreamInv
<1>3. dir # << >> => dir[idx] \in [rate : Nat, parses : BOOLEAN]
  <2>1. DOMAIN dir = 1 .. Len(dir)
    BY <1>2, LenProperties
  <2>2. dir # << >> => idx \in 1 .. Len(dir)
    BY <2>1 DEF StreamInv
  <2>. QED BY <1>2, <2>2, ElementOfSeq
<1>4. dir # << >> => Len(dir) \in Nat \ {0}
  BY <1>2
<1>. QED BY <1>1, <1>2, <1>3, <1>4

(* A batch fits what is left of the budget. *)
LEMMA BatchFits ==
    ASSUME StreamInv, phase = "slice", ~ Spent
    PROVE  /\ BatchTotal \in Nat
           /\ Limited => total + BatchTotal <= option.budget
<1>1. Rate * option.slice \in Int /\ MaxBatch \in Int
  <2>1. Rate \in Nat
    BY Typed DEF StreamInv, Rate
  <2>. QED BY <2>1, Typed
<1>. DEFINE lesser == FS!Min({Rate * option.slice, MaxBatch})
            whole == FS!Max({1, lesser})
            left == FS!Max({1, option.budget - total})
<1>2. lesser \in Int
  BY <1>1, SmallerOfTwo
<1>. HIDE DEF lesser
<1>3. whole \in Nat
  BY <1>2, LargerOfTwo
<1>. HIDE DEF whole
<1>4. CASE Limited
  <2>1. /\ option.budget \in Nat /\ total \in Nat /\ total < option.budget
        /\ option.budget - total \in Int
    BY <1>4, Typed DEF Spent
  <2>2. left = option.budget - total /\ left \in Nat
    BY <2>1, LargerOfTwo
  <2>. HIDE DEF left
  <2>3. BatchTotal = FS!Min({whole, left})
    BY <1>4 DEF BatchTotal, whole, lesser, left
  <2>4. BatchTotal \in Nat /\ BatchTotal <= left
    BY <1>3, <2>2, <2>3, SmallerOfTwo
  <2>. QED BY <2>1, <2>2, <2>4
<1>5. CASE ~ Limited
  <2>1. BatchTotal = whole
    BY <1>5 DEF BatchTotal, whole, lesser
  <2>. QED BY <1>3, <1>5, <2>1
<1>. QED BY <1>4, <1>5

LEMMA StreamStep ==
    ASSUME StreamInv, [StreamNext]_streamVars
    PROVE  StreamInv'
<1>1. CASE SendSlice
  <2>1. /\ phase = "slice" /\ phase' = "slice" /\ ~ Spent
        /\ UNCHANGED << dir, option, idx, told >>
        /\ total' = total \/ total' = total + BatchTotal
    BY <1>1 DEF SendSlice
  <2>2. total' \in Nat /\ (Limited => total' <= option.budget)
    BY <2>1, BatchFits DEF StreamInv
  <2>. QED BY <2>1, <2>2 DEF StreamInv, Limited
<1>2. CASE EndScenario
  <2>1. /\ phase = "slice" /\ idx' = (idx % Len(dir)) + 1
        /\ phase' = IF Spent THEN "sentinel" ELSE "scenario"
        /\ UNCHANGED << dir, option, total >>
    BY <1>2 DEF EndScenario
  <2>2. dir # << >> /\ Len(dir) \in Nat \ {0} /\ DOMAIN dir = 1 .. Len(dir)
    BY <2>1, Typed DEF StreamInv
  <2>3. idx' \in Nat \ {0} /\ idx' \in DOMAIN dir
    BY <2>1, <2>2 DEF StreamInv
  <2>4. Spent => Limited /\ total = option.budget
    BY Typed DEF Spent, StreamInv
  <2>. QED BY <2>1, <2>3, <2>4 DEF StreamInv, Limited
<1>3. CASE BeginScenario
  BY <1>3 DEF StreamInv, BeginScenario, Playable, Limited
<1>4. CASE Fail \/ SendFails \/ SendSentinel \/ UNCHANGED streamVars
  BY <1>4 DEF StreamInv, Fail, SendFails, SendSentinel, streamVars, Limited
<1>. QED BY <1>1, <1>2, <1>3, <1>4 DEF StreamNext

(* With a budget, no event is sent beyond it, however the intervals of the *)
(* scenarios fall, and the sentinel says exactly the budget: for any       *)
(* scenarios, rates, slices and budgets (stream, the batch of a slice).    *)
THEOREM BudgetIsKept == StreamSpec => []WithinBudget
<1>1. InitStream => StreamInv
  <2>. SUFFICES ASSUME InitStream PROVE StreamInv
    OBVIOUS
  <2>1. dir \in Seq([rate : Nat, parses : BOOLEAN])
    BY StreamAssumption, Zenon DEF InitStream
  <2>2. dir # << >> => 1 \in DOMAIN dir
    BY <2>1
  <2>3. Limited => 0 <= option.budget
    BY StreamAssumption DEF InitStream, Limited
  <2>. QED BY <2>2, <2>3 DEF InitStream, StreamInv
<1>2. StreamInv /\ [StreamNext]_streamVars => StreamInv'
  BY StreamStep
<1>3. StreamInv => WithinBudget
  BY DEF StreamInv, WithinBudget
<1>. QED BY <1>1, <1>2, <1>3, PTL DEF StreamSpec

-----------------------------------------------------------------------------
(* The generator of the NEXMark stream and the check beside it agree for any *)
(* proportions, windows of recent ids, hot batches, leads and time buckets,  *)
(* whatever is drawn.                                                        *)
(*                                                                           *)
(* An event is number = e * Epoch + p: in epoch e, at place p.  The          *)
(* generator's formulas in e and p and the check's running counts are the    *)
(* same numbers.                                                             *)

(* How many of a kind there are before the event at this place. *)
PeopleAt(e, p) == e * People + (IF p <= People THEN p ELSE People)
AuctionsAt(e, p) ==
    e * Auctions + (IF p <= People THEN 0
                    ELSE IF p <= People + Auctions THEN p - People ELSE Auctions)

At(e, p) ==
    /\ e \in Nat /\ p \in 0 .. Epoch - 1
    /\ number = e * Epoch + p /\ EpochOf(number) = e /\ Place(number) = p
    /\ people = PeopleAt(e, p) /\ auctions = AuctionsAt(e, p)

CountInv ==
    /\ count \in Nat \ {0} /\ number \in 0 .. count
    /\ people \in Nat /\ auctions \in Nat
    /\ \E e, p : At(e, p)
    /\ ids = [people |-> 0 .. people - 1, auctions |-> 0 .. auctions - 1]

(* A bucket holds events of its time, in their order. *)
Filled(b) ==
    /\ buckets[b] \in Seq(Nat)
    /\ \A i \in 1 .. Len(buckets[b]) :
         \E n \in 0 .. number - 1 : buckets[b][i] = n /\ BucketOf(n) = b
    /\ \A i, j \in 1 .. Len(buckets[b]) : i < j => buckets[b][i] < buckets[b][j]
    /\ watermarks[b] \in Int /\ watermarks[b] < number

BucketInv ==
    /\ DOMAIN buckets = 1 .. BucketCount /\ DOMAIN watermarks = 1 .. BucketCount
    /\ \A b \in 1 .. BucketCount : Filled(b)
    /\ \A n \in 0 .. number - 1 :
         \E b \in 1 .. BucketCount :
           \E i \in 1 .. Len(buckets[b]) : buckets[b][i] = n

CleanReport == [rows |-> TRUE, disorder |-> 0, violations |-> 0, references |-> 0]

AgreeInv ==
    /\ disorder = 0 /\ badReferences = 0
    /\ count % Epoch = 0 => violations = 0
    /\ report # NoReport /\ count % Epoch = 0 => report = CleanReport

IInv == CountInv /\ BucketInv /\ AgreeInv

-----------------------------------------------------------------------------
(* Arithmetic. *)

LEMMA MaxOfTwo ==
    ASSUME NEW a \in Int, NEW b \in Int
    PROVE  Ext!Max({a, b}) = IF a >= b THEN a ELSE b
BY DEF Ext!Max

LEMMA MinOfTwo ==
    ASSUME NEW a \in Int, NEW b \in Int
    PROVE  Ext!Min({a, b}) = IF a <= b THEN a ELSE b
BY DEF Ext!Min

LEMMA TimesGrows ==
    ASSUME NEW a \in Int, NEW b \in Int, NEW w \in Nat, a <= b
    PROVE  a * w <= b * w
OBVIOUS

LEMMA Division ==
    ASSUME NEW a \in Nat, NEW w \in Nat \ {0}
    PROVE  /\ a \div w \in Nat /\ a % w \in 0 .. w - 1
           /\ a = (a \div w) * w + (a % w)
OBVIOUS

LEMMA DivisionIsUnique ==
    ASSUME NEW q \in Nat, NEW w \in Nat \ {0}, NEW s \in 0 .. w - 1
    PROVE  (q * w + s) \div w = q /\ (q * w + s) % w = s
OBVIOUS

LEMMA DivisionGrows ==
    ASSUME NEW a \in Nat, NEW b \in Nat, NEW w \in Nat \ {0}, a <= b
    PROVE  a \div w <= b \div w
OBVIOUS

LEMMA Parameters ==
    /\ People \in Nat \ {0} /\ Auctions \in Nat \ {0} /\ Bids \in Nat \ {0}
    /\ Epoch \in Nat \ {0} /\ Epoch = People + Auctions + Bids
    /\ PersonLead \in Nat \ {0} /\ AuctionLead \in Nat \ {0}
    /\ BucketWidth \in Nat \ {0}
    /\ ActivePeople \in Nat /\ HotPeople \in Nat \ {0} /\ HotPeople <= ActivePeople
    /\ InFlightAuctions \in Nat /\ HotAuctions \in Nat \ {0}
    /\ HotAuctions <= InFlightAuctions
    /\ Counts \subseteq Nat \ {0}
BY NexmarkAssumption DEF Epoch

(* The start of the batch is at most a batch away. *)
LEMMA HotIsNear ==
    ASSUME NEW last \in Nat, NEW batch \in Nat \ {0}
    PROVE  Hot(last, batch) \in 0 .. last /\ Hot(last, batch) > last - batch
<1>1. /\ last \div batch \in Nat /\ last % batch \in 0 .. batch - 1
      /\ last = (last \div batch) * batch + (last % batch)
  BY Division
<1>2. (last \div batch) * batch \in Nat
  BY <1>1, TimesGrows
<1>. QED BY <1>1, <1>2 DEF Hot

(* The number of a stream of whole epochs. *)
LEMMA WholeEpochs ==
    ASSUME NEW n \in Nat, n % Epoch = 0, NEW each \in Nat \ {0}
    PROVE  (n * each) \div Epoch = EpochOf(n) * each
<1>1. PICK q \in Nat : q = EpochOf(n) /\ n = q * Epoch
  <2>. DEFINE d == n \div Epoch
  <2>0. d \in Nat /\ n = d * Epoch + (n % Epoch)
    BY Division, Parameters, ZenonT(30)
  <2>. HIDE DEF d
  <2>1. PICK q \in Nat : q = d /\ n = q * Epoch + (n % Epoch)
    BY <2>0
  <2>2. q * Epoch \in Nat /\ n = q * Epoch + 0
    BY <2>1, TimesGrows, Parameters
  <2>. QED BY <2>1, <2>2 DEF EpochOf, d
<1>2. q * each \in Nat
  BY TimesGrows
<1>3. PICK m \in Nat : m = q * each
  BY <1>2
<1>4. n * each = m * Epoch + 0
  <2>1. (q * Epoch) * each = (q * each) * Epoch
    BY Parameters
  <2>2. m * Epoch \in Nat
    BY Parameters, TimesGrows
  <2>3. n * each = m * Epoch
    BY <1>1, <1>3, <2>1, Zenon
  <2>. QED BY <2>2, <2>3
<1>5. (m * Epoch + 0) \div Epoch = m
  <2>1. 0 \in 0 .. Epoch - 1
    BY Parameters
  <2>. QED BY <2>1, Parameters, DivisionIsUnique
<1>. QED BY <1>1, <1>3, <1>4, <1>5

-----------------------------------------------------------------------------
(* The formulas of the generator give the counts of the check. *)

LEMMA CountsTyped ==
    ASSUME NEW e \in Nat, NEW p \in 0 .. Epoch - 1
    PROVE  /\ PeopleAt(e, p) \in Nat /\ AuctionsAt(e, p) \in Nat
           /\ e * People \in Nat /\ e * Auctions \in Nat /\ e * Epoch \in Nat
<1>1. e * People \in Nat /\ e * Auctions \in Nat /\ e * Epoch \in Nat
  BY Parameters, TimesGrows
<1>. QED BY <1>1, Parameters DEF PeopleAt, AuctionsAt

LEMMA LastPersonIs ==
    ASSUME NEW e, NEW p, At(e, p)
    PROVE  LastPerson(number) = IF p < People THEN people ELSE people - 1
<1>1. e * People \in Nat /\ p \in Int /\ People - 1 \in Int
  BY Parameters, CountsTyped DEF At
<1>2. LastPerson(number) = e * People + (IF p <= People - 1 THEN p ELSE People - 1)
  BY <1>1, MinOfTwo DEF LastPerson, At
<1>. QED BY <1>1, <1>2, Parameters DEF At, PeopleAt

LEMMA LastAuctionIs ==
    ASSUME NEW e, NEW p, At(e, p), p >= People
    PROVE  LastAuction(number) = IF p < People + Auctions THEN auctions
                                 ELSE auctions - 1
<1>1. e * Auctions \in Nat /\ p \in Int /\ p - People \in Int /\ Auctions - 1 \in Int
  BY Parameters, CountsTyped DEF At
<1>2. LastAuction(number)
        = e * Auctions + (IF p - People <= Auctions - 1 THEN p - People
                          ELSE Auctions - 1)
  BY <1>1, MinOfTwo, Parameters DEF LastAuction, At
<1>. QED BY <1>1, <1>2, Parameters DEF At, AuctionsAt

(* Where the next event is. *)
LEMMA NextAt ==
    ASSUME NEW e, NEW p, At(e, p), number' = number + 1,
           people' = people + (IF p < People THEN 1 ELSE 0),
           auctions' = auctions + (IF p >= People /\ p < People + Auctions
                                   THEN 1 ELSE 0)
    PROVE  \E f, q : At(f, q)'
<1>1. /\ e \in Nat /\ p \in 0 .. Epoch - 1 /\ number = e * Epoch + p
      /\ e * People \in Nat /\ e * Auctions \in Nat /\ e * Epoch \in Nat
      /\ people = PeopleAt(e, p) /\ auctions = AuctionsAt(e, p)
  BY CountsTyped DEF At
<1>2. CASE p + 1 < Epoch
  <2>1. p + 1 \in 0 .. Epoch - 1 /\ number' = e * Epoch + (p + 1)
    BY <1>1, <1>2, Parameters
  <2>2. (number') \div Epoch = e /\ (number') % Epoch = p + 1
    <3>1. PICK q \in 0 .. Epoch - 1 : q = p + 1
      BY <2>1
    <3>2. (e * Epoch + q) \div Epoch = e /\ (e * Epoch + q) % Epoch = q
      BY <1>1, Parameters, DivisionIsUnique
    <3>. QED BY <2>1, <3>1, <3>2
  <2>3. people' = PeopleAt(e, p + 1) /\ auctions' = AuctionsAt(e, p + 1)
    BY <1>1, Parameters DEF PeopleAt, AuctionsAt
  <2>4. At(e, p + 1)'
    BY <1>1, <2>1, <2>2, <2>3 DEF At, EpochOf, Place
  <2>. QED BY <2>4
<1>3. CASE p + 1 = Epoch
  <2>1. /\ (e + 1) * Epoch = e * Epoch + Epoch
        /\ (e + 1) * People = e * People + People
        /\ (e + 1) * Auctions = e * Auctions + Auctions
    BY <1>1, Parameters
  <2>2. number' = (e + 1) * Epoch + 0 /\ 0 \in 0 .. Epoch - 1 /\ e + 1 \in Nat
    BY <1>1, <1>3, <2>1, Parameters
  <2>3. (number') \div Epoch = e + 1 /\ (number') % Epoch = 0
    <3>1. /\ ((e + 1) * Epoch + 0) \div Epoch = e + 1
          /\ ((e + 1) * Epoch + 0) % Epoch = 0
      BY <2>2, Parameters, DivisionIsUnique
    <3>. QED BY <2>2, <3>1
  <2>4. people' = PeopleAt(e + 1, 0) /\ auctions' = AuctionsAt(e + 1, 0)
    BY <1>1, <1>3, <2>1, Parameters DEF PeopleAt, AuctionsAt
  <2>5. At(e + 1, 0)'
    BY <2>2, <2>3, <2>4 DEF At, EpochOf, Place
  <2>. QED BY <2>5
<1>. QED BY <1>1, <1>2, <1>3, Parameters

(* A stream of whole epochs has room for what its epochs have. *)
LEMMA RoomLeft ==
    ASSUME CountInv, NEW e, NEW p, At(e, p), number < count, count % Epoch = 0
    PROVE  /\ people <= (count * People) \div Epoch
           /\ p < People => people < (count * People) \div Epoch
           /\ auctions <= (count * Auctions) \div Epoch
           /\ p >= People /\ p < People + Auctions
                => auctions < (count * Auctions) \div Epoch
           /\ (count * People) \div Epoch \in Nat
           /\ (count * Auctions) \div Epoch \in Nat
<1>. DEFINE whole == EpochOf(count)
<1>1. count \in Nat /\ number \in Nat
  BY DEF CountInv
<1>2. /\ (count * People) \div Epoch = whole * People
      /\ (count * Auctions) \div Epoch = whole * Auctions
  BY <1>1, WholeEpochs, Parameters
<1>3. whole \in Nat /\ count = whole * Epoch
  <2>. DEFINE d == count \div Epoch
  <2>1. d \in Nat /\ count = d * Epoch + (count % Epoch)
    BY <1>1, Division, Parameters, ZenonT(30)
  <2>. HIDE DEF d
  <2>2. d * Epoch \in Nat
    BY <2>1, Parameters, TimesGrows
  <2>3. count = d * Epoch
    BY <2>1, <2>2
  <2>. QED BY <2>1, <2>3 DEF EpochOf, d
<1>. HIDE DEF whole
<1>4. /\ e \in Nat /\ p \in 0 .. Epoch - 1 /\ number = e * Epoch + p
      /\ people = PeopleAt(e, p) /\ auctions = AuctionsAt(e, p)
      /\ e * People \in Nat /\ e * Auctions \in Nat /\ e * Epoch \in Nat
  BY CountsTyped DEF At
<1>5. e + 1 <= whole
  <2>1. CASE whole <= e
    <3>1. whole * Epoch <= e * Epoch
      BY <1>3, <1>4, <2>1, Parameters, TimesGrows
    <3>. QED BY <1>1, <1>3, <1>4, <3>1
  <2>. QED BY <1>3, <1>4, <2>1
<1>6. /\ (e + 1) * People <= whole * People
      /\ (e + 1) * Auctions <= whole * Auctions
      /\ (e + 1) * People = e * People + People
      /\ (e + 1) * Auctions = e * Auctions + Auctions
      /\ whole * People \in Nat /\ whole * Auctions \in Nat
  BY <1>3, <1>4, <1>5, Parameters, TimesGrows
<1>7. /\ people <= e * People + People
      /\ p < People => people < e * People + People
      /\ people \in Nat
  BY <1>4, Parameters DEF PeopleAt
<1>8. /\ auctions <= e * Auctions + Auctions
      /\ p >= People /\ p < People + Auctions
           => auctions < e * Auctions + Auctions
      /\ auctions \in Nat
  BY <1>4, Parameters DEF AuctionsAt
<1>. DEFINE hp == whole * People
            ha == whole * Auctions
            lp == e * People + People
            la == e * Auctions + Auctions
<1>9. /\ hp \in Nat /\ ha \in Nat /\ lp \in Nat /\ la \in Nat
      /\ lp <= hp /\ la <= ha
  BY <1>4, <1>6, Parameters
<1>10. /\ people <= lp /\ (p < People => people < lp)
       /\ auctions <= la
       /\ p >= People /\ p < People + Auctions => auctions < la
  BY <1>7, <1>8
<1>11. (count * People) \div Epoch = hp /\ (count * Auctions) \div Epoch = ha
  BY <1>2
<1>. HIDE DEF hp, ha, lp, la
<1>. QED BY <1>7, <1>8, <1>9, <1>10, <1>11

-----------------------------------------------------------------------------
(* An event goes to its bucket, behind those that precede it. *)

LEMMA BucketsTyped ==
    ASSUME count \in Nat, NEW n \in Nat
    PROVE  /\ BucketCount \in Nat \ {0} /\ BucketOf(n) \in 1 .. BucketCount
           /\ n \div BucketWidth \in Nat
           /\ BucketOf(n) = (IF n \div BucketWidth <= BucketCount - 1
                             THEN n \div BucketWidth ELSE BucketCount - 1) + 1
<1>1. count \div BucketWidth \in Nat /\ n \div BucketWidth \in Nat
  BY Division, Parameters
<1>2. BucketCount \in Nat \ {0}
  BY <1>1, MaxOfTwo DEF BucketCount
<1>3. Ext!Min({n \div BucketWidth, BucketCount - 1})
        = IF n \div BucketWidth <= BucketCount - 1
          THEN n \div BucketWidth ELSE BucketCount - 1
  <2>. DEFINE q == n \div BucketWidth
              c == BucketCount - 1
  <2>1. q \in Int /\ c \in Int
    BY <1>1, <1>2
  <2>. HIDE DEF q, c
  <2>2. Ext!Min({q, c}) = IF q <= c THEN q ELSE c
    BY <2>1, MinOfTwo
  <2>. QED BY <2>2 DEF q, c
<1>4. PICK q \in Nat : q = n \div BucketWidth
  BY <1>1
<1>. QED BY <1>2, <1>3, <1>4 DEF BucketOf

LEMMA BucketsFollow ==
    ASSUME count \in Nat, NEW m \in Nat, NEW n \in Nat, m <= n
    PROVE  BucketOf(m) <= BucketOf(n)
<1>1. m \div BucketWidth <= n \div BucketWidth
  BY DivisionGrows, Parameters
<1>. QED BY <1>1, BucketsTyped

LEMMA EmitFills ==
    ASSUME IInv, NEW valid, NEW references, number < count,
           Emit(valid, references)
    PROVE  BucketInv' /\ disorder' = 0
<1>. PICK b : b = BucketOf(number)
  OBVIOUS
<1>1. /\ count \in Nat /\ number \in Nat /\ disorder = 0
      /\ BucketCount \in Nat /\ b \in 1 .. BucketCount
  BY BucketsTyped DEF IInv, CountInv, AgreeInv
<1>2. /\ number' = number + 1 /\ count' = count
      /\ buckets' = [buckets EXCEPT ![b] = Append(@, number)]
      /\ IF number < watermarks[b]
         THEN disorder' = disorder + 1 /\ UNCHANGED watermarks
         ELSE watermarks' = [watermarks EXCEPT ![b] = number] /\ UNCHANGED disorder
  BY DEF Emit
<1>3. /\ BucketCount' = BucketCount
      /\ \A n : BucketOf(n)' = BucketOf(n)
  BY <1>2 DEF BucketCount, BucketOf
<1>4. /\ DOMAIN buckets = 1 .. BucketCount /\ DOMAIN watermarks = 1 .. BucketCount
      /\ \A c \in 1 .. BucketCount : Filled(c)
  BY DEF IInv, BucketInv
<1>5. Filled(b) /\ watermarks[b] < number /\ watermarks[b] \in Int
  BY <1>1, <1>4 DEF Filled
<1>6. watermarks' = [watermarks EXCEPT ![b] = number] /\ disorder' = 0
  BY <1>1, <1>2, <1>5
<1>7. /\ DOMAIN buckets' = 1 .. BucketCount' /\ DOMAIN watermarks' = 1 .. BucketCount'
  BY <1>2, <1>3, <1>4, <1>6
<1>8. /\ buckets'[b] = Append(buckets[b], number)
      /\ buckets[b] \in Seq(Nat) /\ buckets'[b] \in Seq(Nat)
      /\ Len(buckets[b]) \in Nat /\ Len(buckets'[b]) = Len(buckets[b]) + 1
      /\ \A i \in 1 .. Len(buckets[b]) : buckets'[b][i] = buckets[b][i]
      /\ buckets'[b][Len(buckets[b]) + 1] = number
  <2>1. buckets'[b] = Append(buckets[b], number)
    BY <1>1, <1>2, <1>4
  <2>2. buckets[b] \in Seq(Nat)
    BY <1>5 DEF Filled
  <2>. QED BY <1>1, <2>1, <2>2, AppendProperties, LenProperties
<1>9. Filled(b)'
  <2>1. \A i \in 1 .. Len(buckets'[b]) :
          \E n \in 0 .. number' - 1 : buckets'[b][i] = n /\ BucketOf(n) = b
    <3>1. \A i \in 1 .. Len(buckets'[b]) :
            i \in 1 .. Len(buckets[b]) \/ i = Len(buckets[b]) + 1
      BY <1>8
    <3>2. \A n \in 0 .. number - 1 : n \in 0 .. number' - 1
      BY <1>1, <1>2
    <3>3. number \in 0 .. number' - 1 /\ BucketOf(number) = b
      BY <1>1, <1>2
    <3>. QED BY <1>5, <1>8, <3>1, <3>2, <3>3 DEF Filled
  <2>2. \A i, j \in 1 .. Len(buckets'[b]) :
          i < j => buckets'[b][i] < buckets'[b][j]
    <3>1. \A i \in 1 .. Len(buckets[b]) : buckets[b][i] < number
      BY <1>1, <1>5 DEF Filled
    <3>. QED BY <1>5, <1>8, <3>1, SMTT(20) DEF Filled
  <2>3. watermarks'[b] \in Int /\ watermarks'[b] < number'
    BY <1>1, <1>2, <1>4, <1>6
  <2>. QED BY <1>3, <1>8, <2>1, <2>2, <2>3 DEF Filled
<1>10. ASSUME NEW c \in 1 .. BucketCount
       PROVE  Filled(c)'
  <2>1. CASE c = b
    BY <1>9, <2>1
  <2>2. CASE c # b
    <3>1. buckets'[c] = buckets[c] /\ watermarks'[c] = watermarks[c]
      BY <1>2, <1>4, <1>6, <2>2
    <3>2. Filled(c)
      BY <1>4
    <3>3. \A n \in 0 .. number - 1 : n \in 0 .. number' - 1
      BY <1>1, <1>2
    <3>4. watermarks[c] < number'
      BY <1>1, <1>2, <3>2 DEF Filled
    <3>. QED BY <1>3, <3>1, <3>2, <3>3, <3>4 DEF Filled
  <2>. QED BY <2>1, <2>2
<1>11. ASSUME NEW n \in 0 .. number' - 1
       PROVE  \E c \in 1 .. BucketCount :
                \E i \in 1 .. Len(buckets'[c]) : buckets'[c][i] = n
  <2>1. CASE n = number
    BY <1>1, <1>8, <2>1
  <2>2. CASE n # number
    <3>1. n \in 0 .. number - 1
      BY <1>1, <1>2, <2>2
    <3>2. PICK c \in 1 .. BucketCount :
            \E i \in 1 .. Len(buckets[c]) : buckets[c][i] = n
      BY <3>1 DEF IInv, BucketInv
    <3>3. CASE c = b
      <4>1. PICK i \in 1 .. Len(buckets[b]) : buckets[b][i] = n
        BY <3>2, <3>3
      <4>2. i \in 1 .. Len(buckets'[b]) /\ buckets'[b][i] = n
        BY <1>8, <4>1
      <4>. QED BY <1>1, <4>2
    <3>4. CASE c # b
      <4>1. buckets'[c] = buckets[c]
        BY <1>2, <1>4, <3>4
      <4>. QED BY <3>2, <4>1
    <3>. QED BY <3>3, <3>4
  <2>. QED BY <2>1, <2>2
<1>. QED BY <1>3, <1>6, <1>7, <1>10, <1>11 DEF BucketInv

LEMMA OneTrue == \A k \in DOMAIN << TRUE >> : << TRUE >>[k] = TRUE
<1>. DEFINE one == << TRUE >>
<1>1. DOMAIN one = {1} /\ one[1] = TRUE
  OBVIOUS
<1>. QED BY <1>1

LEMMA TwoTrue == \A k \in DOMAIN << TRUE, TRUE >> : << TRUE, TRUE >>[k] = TRUE
<1>. DEFINE two == << TRUE, TRUE >>
<1>1. DOMAIN two = {1, 2} /\ two[1] = TRUE /\ two[2] = TRUE
  OBVIOUS
<1>. QED BY <1>1

LEMMA EmitChecks ==
    ASSUME IInv, number < count, NEW valid, NEW references,
           Emit(valid, references),
           \A k \in DOMAIN references : references[k],
           count % Epoch = 0 => valid
    PROVE  BucketInv' /\ AgreeInv'
<1>1. Failed(references) = 0
  <2>1. {k \in DOMAIN references : ~ references[k]} = {}
    OBVIOUS
  <2>. QED BY <2>1, FS_EmptySet DEF Failed
<1>2. badReferences' = badReferences + Failed(references) /\ badReferences = 0
  BY DEF Emit, IInv, AgreeInv
<1>3. /\ count' = count /\ report' = report
      /\ violations' = violations + (IF valid THEN 0 ELSE 1)
  BY DEF Emit
<1>4. BucketInv' /\ disorder' = 0
  BY EmitFills
<1>5. badReferences' = 0
  BY <1>1, <1>2
<1>6. count' % Epoch = 0 => violations' = 0
  BY <1>3 DEF IInv, AgreeInv
<1>7. report' # NoReport' /\ count' % Epoch = 0 => report' = CleanReport'
  BY <1>3 DEF IInv, AgreeInv, NoReport, CleanReport
<1>. QED BY <1>4, <1>5, <1>6, <1>7 DEF AgreeInv

-----------------------------------------------------------------------------
(* The windows of recent ids. *)

(* A person that an event may refer to: hot, or out of the active ones.    *)
LEMMA PersonFits ==
    ASSUME CountInv, people >= 1,
           NEW id, id \in people - HotPeople .. people
                     \/ id \in RecentPeople(number),
           id >= 0, LastPerson(number) = people - 1
    PROVE  /\ PersonIsRecent(id)
           /\ people <= (count * People) \div Epoch
                /\ (count * People) \div Epoch \in Nat => PersonInRange(id)
<1>1. people \in Nat /\ ids.people = 0 .. people - 1
  BY DEF CountInv
<1>2. RecentPeople(number)
        = people - (IF people <= ActivePeople THEN people ELSE ActivePeople)
            .. people + PersonLead - 1
  BY <1>1, Parameters, MinOfTwo DEF RecentPeople
<1>3. /\ id \in Int /\ id >= people - ActivePeople
      /\ id <= people + PersonLead - 1
  BY <1>1, <1>2, Parameters
<1>4. Ext!Max({people - ActivePeople, 0})
        = IF people - ActivePeople >= 0 THEN people - ActivePeople ELSE 0
  BY <1>1, Parameters, MaxOfTwo
<1>5. PersonIsRecent(id)
  BY <1>1, <1>3, <1>4, Parameters DEF PersonIsRecent
<1>. DEFINE all == (count * People) \div Epoch
<1>6. PersonInRange(id) = (id \in 0 .. all - 1 + PersonLead)
  BY DEF PersonInRange, InRange
<1>. HIDE DEF all
<1>7. people <= all /\ all \in Nat => PersonInRange(id)
  <2>1. people <= all /\ all \in Nat => id \in 0 .. all - 1 + PersonLead
    BY <1>1, <1>3, Parameters
  <2>. QED BY <1>6, <2>1, Zenon
<1>. QED BY <1>5, <1>7 DEF all

LEMMA PersonKeeps ==
    ASSUME IInv, Person
    PROVE  IInv'
<1>1. PICK e, p : At(e, p)
  BY DEF IInv, CountInv
<1>2. number < count /\ p < People /\ p \in 0 .. Epoch - 1
  BY <1>1 DEF Person, At
<1>3. LastPerson(number) = people /\ people \in Nat
  BY <1>1, <1>2, LastPersonIs DEF IInv, CountInv
<1>4. /\ Emit(PersonInRange(people), << people \notin ids.people >>)
      /\ ids' = [ids EXCEPT !.people = @ \cup {people}]
      /\ people' = people + 1 /\ auctions' = auctions
  BY <1>3 DEF Person
<1>5. ids = [people |-> 0 .. people - 1, auctions |-> 0 .. auctions - 1]
  BY DEF IInv, CountInv
<1>6. people \notin ids.people
  BY <1>3, <1>5
<1>7. count % Epoch = 0 => PersonInRange(people)
  BY <1>1, <1>2, <1>3, RoomLeft, Parameters
  DEF PersonInRange, InRange, IInv
<1>8. BucketInv' /\ AgreeInv'
  <2>. DEFINE refs == << people \notin ids.people >>
  <2>1. \A k \in DOMAIN refs : refs[k]
    <3>1. refs = << TRUE >>
      <4>1. (people \notin ids.people) = TRUE
        BY <1>6, Zenon
      <4>. QED BY <4>1, Zenon
    <3>2. \A k \in DOMAIN << TRUE >> : << TRUE >>[k] = TRUE
      BY OneTrue
    <3>. QED BY <3>1, <3>2, Zenon
  <2>. HIDE DEF refs
  <2>2. Emit(PersonInRange(people), refs)
    BY <1>4 DEF refs
  <2>. QED BY <1>2, <1>7, <2>1, <2>2, EmitChecks
<1>9. CountInv'
  <2>1. number' = number + 1 /\ count' = count
    BY <1>4 DEF Emit
  <2>2. \E f, q : At(f, q)'
    <3>1. auctions \in Nat
      BY DEF IInv, CountInv
    <3>2. ~(p >= People)
      BY <1>2, Parameters
    <3>3. /\ people' = people + (IF p < People THEN 1 ELSE 0)
          /\ auctions' = auctions + (IF p >= People /\ p < People + Auctions
                                     THEN 1 ELSE 0)
      BY <1>2, <1>4, <3>1, <3>2
    <3>. QED BY <1>1, <2>1, <3>3, NextAt
  <2>3. ids' = [people |-> 0 .. people' - 1, auctions |-> 0 .. auctions' - 1]
    <3>1. /\ (0 .. people - 1) \cup {people} = 0 .. people' - 1
          /\ 0 .. auctions - 1 = 0 .. auctions' - 1
      BY <1>3, <1>4
    <3>2. ids' = [people |-> (0 .. people - 1) \cup {people},
                  auctions |-> 0 .. auctions - 1]
      BY <1>4, <1>5
    <3>. QED BY <3>1, <3>2, Zenon
  <2>4. /\ count' \in Nat \ {0} /\ number' \in 0 .. count'
        /\ people' \in Nat /\ auctions' \in Nat
    BY <1>2, <1>3, <1>4, <2>1 DEF IInv, CountInv
  <2>. QED BY <2>2, <2>3, <2>4, Zenon DEF CountInv
<1>. QED BY <1>8, <1>9 DEF IInv

(* At and after the first auction of an epoch its persons are there.       *)
LEMMA HotPersonIsNear ==
    ASSUME CountInv, NEW e, NEW p, At(e, p), p >= People
    PROVE  /\ LastPerson(number) = people - 1 /\ people >= 1 /\ people \in Nat
           /\ Hot(people - 1, HotPeople) \in 0 .. people - 1
           /\ Hot(people - 1, HotPeople) >= people - HotPeople
<1>1. LastPerson(number) = people - 1
  BY LastPersonIs, Parameters DEF At
<1>2. people \in Nat /\ people >= 1
  BY CountsTyped, Parameters DEF At, PeopleAt
<1>3. PICK l \in Nat : l = people - 1
  BY <1>2
<1>4. Hot(l, HotPeople) \in 0 .. l /\ Hot(l, HotPeople) > l - HotPeople
  BY HotIsNear, Parameters
<1>. QED BY <1>1, <1>2, <1>3, <1>4, Parameters

LEMMA RecentPeopleAreNatural ==
    ASSUME people \in Nat, LastPerson(number) = people - 1
    PROVE  \A id \in RecentPeople(number) : id \in Nat
<1>1. RecentPeople(number)
        = people - (IF people <= ActivePeople THEN people ELSE ActivePeople)
            .. people + PersonLead - 1
  BY Parameters, MinOfTwo DEF RecentPeople
<1>. QED BY <1>1, Parameters

LEMMA AuctionKeeps ==
    ASSUME IInv, Auction
    PROVE  IInv'
<1>1. PICK e, p : At(e, p)
  BY DEF IInv, CountInv
<1>2. /\ number < count /\ p \in 0 .. Epoch - 1
      /\ p >= People /\ p < People + Auctions /\ CountInv
  BY <1>1, Parameters DEF Auction, At, IInv
<1>3. /\ LastAuction(number) = auctions /\ auctions \in Nat
      /\ LastPerson(number) = people - 1 /\ people >= 1 /\ people \in Nat
  BY <1>1, <1>2, LastAuctionIs, HotPersonIsNear DEF CountInv
<1>4. PICK seller \in Sellers(number) :
        Emit(AuctionInRange(auctions) /\ PersonInRange(seller),
             << auctions \notin ids.auctions, PersonIsRecent(seller) >>)
  BY <1>3 DEF Auction
<1>5. /\ ids' = [ids EXCEPT !.auctions = @ \cup {auctions}]
      /\ auctions' = auctions + 1 /\ people' = people
  BY <1>3 DEF Auction
<1>6. ids = [people |-> 0 .. people - 1, auctions |-> 0 .. auctions - 1]
  BY <1>2 DEF CountInv
<1>7. auctions \notin ids.auctions
  BY <1>3, <1>6
<1>8. /\ seller \in people - HotPeople .. people \/ seller \in RecentPeople(number)
      /\ seller >= 0
  BY <1>1, <1>2, <1>3, HotPersonIsNear, RecentPeopleAreNatural, Parameters
  DEF Sellers
<1>9. PersonIsRecent(seller) /\ (count % Epoch = 0 => PersonInRange(seller))
  BY <1>1, <1>2, <1>3, <1>8, PersonFits, RoomLeft
<1>10. count % Epoch = 0 => AuctionInRange(auctions)
  BY <1>1, <1>2, <1>3, RoomLeft, Parameters DEF AuctionInRange, InRange
<1>11. BucketInv' /\ AgreeInv'
  <2>. DEFINE refs == << auctions \notin ids.auctions, PersonIsRecent(seller) >>
  <2>1. \A k \in DOMAIN refs : refs[k]
    <3>1. refs = << TRUE, TRUE >>
      <4>1. (auctions \notin ids.auctions) = TRUE /\ PersonIsRecent(seller) = TRUE
        BY <1>7, <1>9, Zenon DEF PersonIsRecent
      <4>. QED BY <4>1, Zenon
    <3>2. \A k \in DOMAIN << TRUE, TRUE >> : << TRUE, TRUE >>[k] = TRUE
      BY TwoTrue
    <3>. QED BY <3>1, <3>2, Zenon
  <2>2. count % Epoch = 0 => AuctionInRange(auctions) /\ PersonInRange(seller)
    BY <1>9, <1>10
  <2>. HIDE DEF refs
  <2>3. Emit(AuctionInRange(auctions) /\ PersonInRange(seller), refs)
    BY <1>4 DEF refs
  <2>. QED BY <1>2, <2>1, <2>2, <2>3, EmitChecks
<1>12. CountInv'
  <2>1. number' = number + 1 /\ count' = count
    BY <1>4 DEF Emit
  <2>2. \E f, q : At(f, q)'
    BY <1>1, <1>2, <1>3, <1>5, <2>1, NextAt, Parameters
  <2>3. ids' = [people |-> 0 .. people' - 1, auctions |-> 0 .. auctions' - 1]
    <3>1. /\ (0 .. auctions - 1) \cup {auctions} = 0 .. auctions' - 1
          /\ 0 .. people - 1 = 0 .. people' - 1
      BY <1>3, <1>5
    <3>2. ids' = [people |-> 0 .. people - 1,
                  auctions |-> (0 .. auctions - 1) \cup {auctions}]
      BY <1>5, <1>6
    <3>. QED BY <3>1, <3>2, Zenon
  <2>4. /\ count' \in Nat \ {0} /\ number' \in 0 .. count'
        /\ people' \in Nat /\ auctions' \in Nat
    BY <1>2, <1>3, <1>5, <2>1 DEF IInv, CountInv
  <2>. QED BY <2>2, <2>3, <2>4, Zenon DEF CountInv
<1>. QED BY <1>11, <1>12 DEF IInv

(* A bid names an auction that is hot, recent or about to come.            *)
LEMMA OfferFits ==
    ASSUME CountInv, NEW e, NEW p, At(e, p), p >= People + Auctions,
           NEW id \in Offers(number)
    PROVE  /\ AuctionIsRecent(id)
           /\ auctions <= (count * Auctions) \div Epoch
                /\ (count * Auctions) \div Epoch \in Nat => AuctionInRange(id)
<1>1. /\ auctions \in Nat /\ auctions >= 1 /\ ids.auctions = 0 .. auctions - 1
      /\ LastAuction(number) = auctions - 1
  <2>1. auctions >= 1
    BY CountsTyped, Parameters DEF At, AuctionsAt
  <2>. QED BY <2>1, LastAuctionIs, Parameters DEF CountInv, At
<1>2. PICK last \in Nat : last = auctions - 1
  BY <1>1
<1>3. Hot(last, HotAuctions) \in 0 .. last
      /\ Hot(last, HotAuctions) > last - HotAuctions
  BY HotIsNear, Parameters
<1>4. Ext!Max({last - InFlightAuctions, 0})
        = IF last - InFlightAuctions >= 0 THEN last - InFlightAuctions ELSE 0
  BY Parameters, MaxOfTwo
<1>5. id = Hot(last, HotAuctions)
      \/ id \in Ext!Max({last - InFlightAuctions, 0}) .. last + AuctionLead
  BY <1>1, <1>2 DEF Offers, RecentAuctions
<1>6. /\ id \in Nat /\ id >= last - InFlightAuctions
      /\ id <= last + AuctionLead
  BY <1>3, <1>4, <1>5, Parameters
<1>7. AuctionIsRecent(id)
  BY <1>1, <1>2, <1>4, <1>6, Parameters DEF AuctionIsRecent
<1>. DEFINE all == (count * Auctions) \div Epoch
<1>8. AuctionInRange(id) = (id \in 0 .. all - 1 + AuctionLead)
  BY DEF AuctionInRange, InRange
<1>. HIDE DEF all
<1>9. auctions <= all /\ all \in Nat => AuctionInRange(id)
  <2>1. auctions <= all /\ all \in Nat => id \in 0 .. all - 1 + AuctionLead
    BY <1>1, <1>2, <1>6, Parameters
  <2>. QED BY <1>8, <2>1, Zenon
<1>. QED BY <1>7, <1>9 DEF all

LEMMA BidKeeps ==
    ASSUME IInv, Bid
    PROVE  IInv'
<1>1. PICK e, p : At(e, p)
  BY DEF IInv, CountInv
<1>2. /\ number < count /\ p \in 0 .. Epoch - 1
      /\ p >= People + Auctions /\ p >= People /\ CountInv
  BY <1>1, Parameters DEF Bid, At, IInv
<1>3. PICK auction \in Offers(number), bidder \in Bidders(number) :
        Emit(AuctionInRange(auction) /\ PersonInRange(bidder),
             << AuctionIsRecent(auction), PersonIsRecent(bidder) >>)
  BY DEF Bid
<1>4. people' = people /\ auctions' = auctions /\ ids' = ids
  BY DEF Bid
<1>5. LastPerson(number) = people - 1 /\ people >= 1 /\ people \in Nat
  BY <1>1, <1>2, HotPersonIsNear
<1>6. /\ bidder \in people - HotPeople .. people \/ bidder \in RecentPeople(number)
      /\ bidder >= 0
  BY <1>1, <1>2, <1>5, HotPersonIsNear, RecentPeopleAreNatural, Parameters
  DEF Bidders
<1>7. PersonIsRecent(bidder) /\ (count % Epoch = 0 => PersonInRange(bidder))
  BY <1>1, <1>2, <1>5, <1>6, PersonFits, RoomLeft
<1>8. AuctionIsRecent(auction) /\ (count % Epoch = 0 => AuctionInRange(auction))
  BY <1>1, <1>2, OfferFits, RoomLeft
<1>9. BucketInv' /\ AgreeInv'
  <2>. DEFINE refs == << AuctionIsRecent(auction), PersonIsRecent(bidder) >>
  <2>1. \A k \in DOMAIN refs : refs[k]
    <3>1. refs = << TRUE, TRUE >>
      <4>1. AuctionIsRecent(auction) = TRUE /\ PersonIsRecent(bidder) = TRUE
        BY <1>7, <1>8, Zenon DEF PersonIsRecent, AuctionIsRecent
      <4>. QED BY <4>1, Zenon
    <3>2. \A k \in DOMAIN << TRUE, TRUE >> : << TRUE, TRUE >>[k] = TRUE
      BY TwoTrue
    <3>. QED BY <3>1, <3>2, Zenon
  <2>2. count % Epoch = 0 => AuctionInRange(auction) /\ PersonInRange(bidder)
    BY <1>7, <1>8
  <2>. HIDE DEF refs
  <2>3. Emit(AuctionInRange(auction) /\ PersonInRange(bidder), refs)
    BY <1>3 DEF refs
  <2>. QED BY <1>2, <2>1, <2>2, <2>3, EmitChecks
<1>10. CountInv'
  <2>1. number' = number + 1 /\ count' = count
    BY <1>3 DEF Emit
  <2>2. auctions \in Nat
    BY <1>2 DEF CountInv
  <2>3. \E f, q : At(f, q)'
    BY <1>1, <1>2, <1>4, <1>5, <2>1, <2>2, NextAt, Parameters
  <2>. QED BY <1>2, <1>4, <1>5, <2>1, <2>3 DEF CountInv
<1>. QED BY <1>9, <1>10 DEF IInv

-----------------------------------------------------------------------------
(* The report, and the whole. *)

LEMMA ReportKeeps ==
    ASSUME IInv, Report \/ UNCHANGED nexmarkVars
    PROVE  IInv'
<1>1. UNCHANGED << count, number, people, auctions, ids, buckets, watermarks,
                   disorder, violations, badReferences >>
  BY DEF Report, nexmarkVars
<1>2. CountInv'
  <2>1. PICK e, p : At(e, p)
    BY DEF IInv, CountInv
  <2>2. At(e, p)'
    BY <1>1, <2>1 DEF At, EpochOf, Place
  <2>. QED BY <1>1, <2>2 DEF IInv, CountInv
<1>3. BucketInv'
  <2>1. BucketCount' = BucketCount /\ \A n : BucketOf(n)' = BucketOf(n)
    BY <1>1 DEF BucketCount, BucketOf
  <2>2. \A b : Filled(b)' = Filled(b)
    BY <1>1, <2>1 DEF Filled
  <2>. QED BY <1>1, <2>1, <2>2 DEF IInv, BucketInv
<1>4. ASSUME Report, count % Epoch = 0
      PROVE  report' = CleanReport
  <2>1. PICK e, p : At(e, p)
    BY DEF IInv, CountInv
  <2>2. number = count /\ count \in Nat
    BY <1>4 DEF Report, IInv, CountInv
  <2>3. e = EpochOf(count) /\ p = 0
    BY <1>4, <2>1, <2>2 DEF At, Place
  <2>4. people = e * People /\ auctions = e * Auctions
    BY <2>1, <2>3, CountsTyped, Parameters DEF At, PeopleAt, AuctionsAt
  <2>5. /\ people = (count * People) \div Epoch
        /\ auctions = (count * Auctions) \div Epoch
    BY <1>4, <2>2, <2>3, <2>4, WholeEpochs, Parameters
  <2>6. (/\ people = (count * People) \div Epoch
         /\ auctions = (count * Auctions) \div Epoch) = TRUE
    BY <2>5, Zenon
  <2>7. disorder = 0 /\ violations = 0 /\ badReferences = 0
    BY <1>4 DEF IInv, AgreeInv
  <2>. QED BY <1>4, <2>6, <2>7 DEF Report, CleanReport
<1>5. AgreeInv'
  <2>1. CASE Report
    BY <1>1, <1>4, <2>1 DEF IInv, AgreeInv, CleanReport
  <2>2. CASE UNCHANGED nexmarkVars
    BY <1>1, <2>2 DEF IInv, AgreeInv, CleanReport, NoReport, nexmarkVars
  <2>. QED BY <2>1, <2>2
<1>. QED BY <1>2, <1>3, <1>5 DEF IInv

LEMMA InitIInv == InitNexmark => IInv
<1>. SUFFICES ASSUME InitNexmark PROVE IInv
  OBVIOUS
<1>1. /\ count \in Nat \ {0} /\ number = 0 /\ people = 0 /\ auctions = 0
      /\ ids = [people |-> {}, auctions |-> {}]
      /\ disorder = 0 /\ violations = 0 /\ badReferences = 0
      /\ report = NoReport
  BY Parameters DEF InitNexmark
<1>2. CountInv
  <2>1. At(0, 0)
    <3>1. (0 * Epoch + 0) \div Epoch = 0 /\ (0 * Epoch + 0) % Epoch = 0
      BY DivisionIsUnique, Parameters
    <3>2. 0 * Epoch + 0 = 0 /\ 0 * People = 0 /\ 0 * Auctions = 0
      BY Parameters
    <3>. QED BY <1>1, <3>1, <3>2, Parameters
             DEF At, EpochOf, Place, PeopleAt, AuctionsAt
  <2>2. 0 .. people - 1 = {} /\ 0 .. auctions - 1 = {}
    BY <1>1
  <2>3. ids = [people |-> 0 .. people - 1, auctions |-> 0 .. auctions - 1]
    BY <1>1, <2>2, Zenon
  <2>. QED BY <1>1, <2>1, <2>3 DEF CountInv
<1>3. BucketInv
  <2>1. /\ buckets = [b \in 1 .. BucketCount |-> << >>]
        /\ watermarks = [b \in 1 .. BucketCount |-> -1]
    BY DEF InitNexmark
  <2>2. ASSUME NEW b \in 1 .. BucketCount
        PROVE  Filled(b)
    <3>1. buckets[b] = << >> /\ watermarks[b] = -1
      BY <2>1
    <3>2. buckets[b] \in Seq(Nat) /\ Len(buckets[b]) = 0
      BY <3>1, EmptySeq
    <3>. QED BY <1>1, <3>1, <3>2 DEF Filled
  <2>. QED BY <1>1, <2>1, <2>2 DEF BucketInv
<1>4. AgreeInv
  BY <1>1 DEF AgreeInv
<1>. QED BY <1>2, <1>3, <1>4 DEF IInv

LEMMA NextIInv ==
    ASSUME IInv, [NexmarkNext]_nexmarkVars
    PROVE  IInv'
BY PersonKeeps, AuctionKeeps, BidKeeps, ReportKeeps DEF NexmarkNext

(* Buckets that hold the events of their time, in order, one after the     *)
(* other.                                                                  *)
LEMMA FilledInOrder ==
    ASSUME IInv
    PROVE  BucketsInOrder
<1>1. /\ count \in Nat /\ number \in Nat
      /\ DOMAIN buckets = 1 .. BucketCount
      /\ \A b \in 1 .. BucketCount : Filled(b)
  BY DEF IInv, CountInv, BucketInv
<1>2. \A b \in 1 .. BucketCount : DOMAIN buckets[b] = 1 .. Len(buckets[b])
  BY <1>1, LenProperties DEF Filled
<1>3. ASSUME NEW spot \in Written
      PROVE  /\ spot[1] \in 1 .. BucketCount /\ spot[2] \in 1 .. Len(buckets[spot[1]])
             /\ \E n \in 0 .. number - 1 : EventAt(spot) = n /\ BucketOf(n) = spot[1]
  <2>1. spot[1] \in 1 .. BucketCount /\ spot[2] \in 1 .. Len(buckets[spot[1]])
    BY <1>1, <1>2 DEF Written
  <2>. QED BY <1>1, <2>1 DEF EventAt, Filled
<1>4. {EventAt(spot) : spot \in Written} = 0 .. number - 1
  <2>1. ASSUME NEW n \in 0 .. number - 1
        PROVE  \E spot \in Written : EventAt(spot) = n
    <3>1. PICK b \in 1 .. BucketCount :
            \E i \in 1 .. Len(buckets[b]) : buckets[b][i] = n
      BY DEF IInv, BucketInv
    <3>2. PICK i \in 1 .. Len(buckets[b]) : buckets[b][i] = n
      BY <3>1
    <3>3. << b, i >> \in Written
      BY <1>1, <1>2, <3>1, <3>2 DEF Written
    <3>. QED BY <3>2, <3>3 DEF EventAt
  <2>. QED BY <1>3, <2>1
<1>5. ASSUME NEW spot \in Written, NEW before \in Written, Follows(spot, before)
      PROVE  EventAt(before) < EventAt(spot)
  <2>1. PICK n \in 0 .. number - 1 : EventAt(spot) = n /\ BucketOf(n) = spot[1]
    BY <1>3
  <2>2. PICK m \in 0 .. number - 1 : EventAt(before) = m /\ BucketOf(m) = before[1]
    BY <1>3
  <2>3. CASE before[1] < spot[1]
    <3>1. CASE n <= m
      <4>1. BucketOf(n) <= BucketOf(m)
        BY <1>1, <3>1, BucketsFollow
      <4>. QED BY <1>1, <1>3, <2>1, <2>2, <2>3, <4>1
    <3>. QED BY <2>1, <2>2, <3>1
  <2>4. CASE before[1] = spot[1] /\ before[2] < spot[2]
    <3>1. Filled(spot[1])
      BY <1>1, <1>3
    <3>. QED BY <1>3, <2>4, <3>1 DEF EventAt, Filled
  <2>. QED BY <1>5, <2>3, <2>4 DEF Follows
<1>. QED BY <1>4, <1>5 DEF BucketsInOrder

(* Whatever is drawn, no reference is out of its window, a stream of whole *)
(* epochs is reported without a complaint, and the files hold the stream   *)
(* that was checked: for any proportions, windows, batches and leads above *)
(* zero, and hot batches within the windows (run_checked, check_event).    *)
THEOREM GeneratorPassesCheck == NexmarkSpec => []CheckAgrees
<1>1. InitNexmark => IInv
  BY InitIInv
<1>2. IInv /\ [NexmarkNext]_nexmarkVars => IInv'
  BY NextIInv
<1>3. IInv => CheckAgrees
  BY FilledInOrder DEF IInv, AgreeInv, CheckAgrees, CleanReport
<1>. QED BY <1>1, <1>2, <1>3, PTL DEF NexmarkSpec
=============================================================================
