---------------------------- MODULE ProjectCheck ----------------------------
(***************************************************************************)
(* `wfadm check` (wfadm/src/check.rs): the components of a project are     *)
(* checked one after the other, with --fail-fast until the first failure,  *)
(* and the outcome is rendered and turned into an exit status.             *)
(*                                                                         *)
(* A project is [conf, rules, schemas, dirs]: the state of wfusion.toml,   *)
(* the paths of its [runtime] section and, for each directory that exists, *)
(* whether each file in it (with the extension looked for, in any depth)   *)
(* is valid.  A path is [dir, pattern]: what stands before its last slash   *)
(* and whether that holds a pattern.  Files do not change meanwhile.       *)
(***************************************************************************)
EXTENDS Integers, Sequences

SQ == INSTANCE SequencesExt

CONSTANTS
    Projects,
    Commands,   \* [what, failFast, onlyFail]: `what` a sequence of tokens
    Absent

Components == << "conf", "sources", "connectors", "sinks", "rules", "schemas", "scenarios" >>

\* parse_component: also the other names of a component; anything else, and
\* "all" among others, is none.
Names == [conf |-> "conf", config |-> "conf", engine |-> "conf",
          sources |-> "sources", source |-> "sources",
          connectors |-> "connectors", connector |-> "connectors", conn |-> "connectors",
          sinks |-> "sinks", sink |-> "sinks", rules |-> "rules", rule |-> "rules", wpl |-> "rules",
          schemas |-> "schemas", schema |-> "schemas",
          scenarios |-> "scenarios", scenario |-> "scenarios"]

VARIABLES
    project, command,
    selected,   \* the components to check
    at,         \* the next one
    row,        \* component -> Cell
    exit        \* "none", "refused", "ok" or "failed"

checkVars == << project, command, selected, at, row, exit >>

-----------------------------------------------------------------------------
(* Cells. *)

Skipped == [state |-> "skipped", warned |-> FALSE]
Missing == [state |-> "missing", warned |-> FALSE]
Judged(bad, warned) == IF bad THEN [state |-> "failed", warned |-> FALSE]
                        ELSE [state |-> "passed", warned |-> warned]

Exists(dir) == dir \in DOMAIN project.dirs
Files(dir) == IF Exists(dir) THEN project.dirs[dir] ELSE << >>
\* validate_toml_dir.
Bad(dir) == FALSE \in SQ!ToSet(Files(dir))

\* check_conf: only its syntax.
ConfCell == Judged(project.conf # "valid", FALSE)

SourcesCell == IF Exists("sources") THEN Judged(Bad("sources"), FALSE) ELSE Missing

\* find_upward: a directory of the project, or of one above it.
Located(dir, above) == IF Exists(dir) THEN dir ELSE above
ConnectorsCell ==
    LET used == {Located("sink.d", "../sink.d"), Located("source.d", "../source.d")}
    IN  IF \A d \in used : ~ Exists(d) THEN Missing ELSE Judged(\E d \in used : Bad(d), FALSE)

SinksCell ==
    IF ~ Exists("sinks") THEN Missing
    ELSE Judged(\E d \in {"business.d", "infra.d", "defaults.toml", "sinks/sink.d"} : Bad(d),
                 ~ Exists("business.d") \/ ~ Exists("infra.d"))

\* resolve_config_dir: only the last segment is taken off (strip_glob), and a
\* directory with a pattern in its name does not exist.
ConfigDir(path) == IF path = Absent \/ path.pattern \/ ~ Exists(path.dir) THEN Absent ELSE path.dir

\* resolve_model_dir: the files of the project, or else those of the path.
ModelFiles(dir, path) ==
    IF Files(dir) # << >> THEN Files(dir)
    ELSE IF project.conf = "valid" /\ ConfigDir(path) # Absent THEN Files(ConfigDir(path)) ELSE << >>

RulesCell ==
    LET files == ModelFiles("rules", project.rules)
    IN  IF files = << >> THEN Missing ELSE Judged(FALSE \in SQ!ToSet(files), FALSE)

\* windows.toml is looked at only when there are schemas.
SchemasCell ==
    LET files == ModelFiles("schemas", project.schemas)
    IN  IF files = << >> THEN Missing
        ELSE Judged(FALSE \in SQ!ToSet(files) \/ Bad("windows.toml"), FALSE)

ScenariosCell == IF Files("scenarios") = << >> THEN Missing ELSE Judged(Bad("scenarios"), FALSE)

Cells == [conf |-> ConfCell, sources |-> SourcesCell, connectors |-> ConnectorsCell,
          sinks |-> SinksCell, rules |-> RulesCell, schemas |-> SchemasCell,
          scenarios |-> ScenariosCell]

-----------------------------------------------------------------------------
(* The command. *)

\* Row::all_skipped.
BlankRow == [c \in SQ!ToSet(Components) |-> Skipped]

InitCheck ==
    /\ project \in Projects /\ command \in Commands
    /\ selected = {} /\ at = 0 /\ row = BlankRow /\ exit = "none"

\* build_components: everything for "all" alone, or nothing; otherwise the
\* tokens that name a component, the others are dropped.
Select ==
    /\ at = 0 /\ exit = "none"
    /\ LET named == {Names[t] : t \in SQ!ToSet(command.what) \cap DOMAIN Names}
       IN  /\ selected' = IF command.what \in {<< >>, << "all" >>} THEN SQ!ToSet(Components) ELSE named
           /\ exit' = IF selected' = {} THEN "refused" ELSE "none"
    /\ at' = 1
    /\ UNCHANGED << project, command, row >>

\* The rest of a component's turn: --fail-fast stops at a failure.
After(cell) == IF cell.state = "failed" /\ command.failFast THEN Len(Components) + 1 ELSE at + 1

\* evaluate_target, one component.
EvaluateComponent ==
    /\ at \in DOMAIN Components /\ exit = "none"
    /\ LET c == Components[at]
       IN  IF c \in selected
           THEN row' = [row EXCEPT ![c] = Cells[c]] /\ at' = After(Cells[c])
           ELSE at' = at + 1 /\ UNCHANGED row
    /\ UNCHANGED << project, command, selected, exit >>

\* Mutant of HasFailures: the component that was added last is forgotten.
HasFailuresForgets == \E c \in selected \ {"scenarios"} : row[c].state = "failed"

HasFailures == \E c \in selected : row[c].state = "failed"

Finish ==
    /\ at > Len(Components) /\ exit = "none"
    /\ exit' = IF HasFailures THEN "failed" ELSE "ok"
    /\ UNCHANGED << project, command, selected, at, row >>

CheckNext == Select \/ EvaluateComponent \/ Finish

CheckSpec == InitCheck /\ [][CheckNext]_checkVars

-----------------------------------------------------------------------------
(* What is rendered. *)

\* record_component, component_stat_value: "passed", "failed", or null for what
\* did not run.
Stat(c) == IF c \notin selected \/ row[c].state = "skipped" THEN "null"
           ELSE IF row[c].state = "failed" THEN "failed" ELSE "passed"

\* status_mark: what is missing or was skipped has the mark of what passed.
Mark(c) == IF row[c].state = "failed" THEN "cross" ELSE "tick"

\* detail_entries_for: a line for each component, with --only-fail for those
\* that failed, and one for each warning in any case.
Entries ==
    {<< c, row[c].state, Mark(c) >> :
            c \in {d \in selected : command.onlyFail => row[d].state = "failed"}}
        \cup {<< c, "warning", "!" >> : c \in {d \in selected : row[d].warned}}

\* print_summary_line.
Summary ==
    {c \in SQ!ToSet(Components) : command.onlyFail => c \in selected /\ row[c].state = "failed"}

-----------------------------------------------------------------------------
(* Properties. *)

\* What was not looked at is not counted as passed, also behind the failure
\* that stopped the command (check.rs:249-262, 922-953; its line in the table
\* has the mark of one that passed).
PassedIsChecked ==
    \A c \in SQ!ToSet(Components) : Stat(c) = "passed" =>
        /\ c \in selected
        /\ Cells[c].state \in {"passed", "missing"}
        /\ command.failFast => \A i, j \in DOMAIN Components :
                Components[j] = c /\ i < j /\ Components[i] \in selected
                    => Cells[Components[i]].state # "failed"

\* The verdict does not depend on --fail-fast nor on where it stopped: the
\* command fails exactly when some component that was asked for has something
\* invalid, and then shows one of those as failed in every mode of output
\* (check.rs:321-328, 374-418).
VerdictIsWhole ==
    exit \in {"ok", "failed"} =>
        LET wrong == {c \in selected : Cells[c].state = "failed"}
        IN  /\ (exit = "failed") = (wrong # {})
            /\ wrong # {} => \E c \in wrong : /\ Stat(c) = "failed" /\ c \in Summary
                                            /\ << c, "failed", "cross" >> \in Entries
            /\ ~ command.failFast => {c \in selected : Stat(c) = "failed"} = wrong
            /\ PassedIsChecked
=============================================================================
