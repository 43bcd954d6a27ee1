--------------------------- MODULE AtomicProject ---------------------------
(***************************************************************************)
(* What updating a project from its remote promises to whoever reads the   *)
(* work root while nobody holds the project lock: content and version      *)
(* state change together, to one commit of the updated group, validated,   *)
(* or not at all.  Only the death of a process or a rollback that itself   *)
(* failed (Faulty) may leave a group's directories in another shape; they  *)
(* are then `damaged` until the next successful update of that group.      *)
(***************************************************************************)
EXTENDS ProjectState

CONSTANT Faulty

VARIABLES project, state, damaged

abstractVars == <<project, state, damaged>>

Init == state = NoState /\ damaged = {}

(* A successful update of one group. *)
Update(g) ==
    /\ ~PersistRefused(state, g)
    /\ \E t \in Entry :
         /\ project' = Replaced(project, Tree[t.revision], Dirs(g))
         /\ state' = Recorded(state, g, t)
    /\ project' \in Loadable
    /\ damaged' = damaged \ Dirs(g)

(* A death, or a rollback that failed, in the middle of an update of `g`. *)
Damage(g) ==
    /\ Faulty
    /\ project' \in Image
    /\ \A d \in ManagedDir \ Dirs(g) : project'[d] = project[d]
    /\ state' = state \/ \E t \in Entry : state' = Recorded(state, g, t)
    /\ damaged' = damaged \cup Dirs(g)

Next == \E g \in Group : Update(g) \/ Damage(g)

Spec == Init /\ [][Next]_abstractVars

-----------------------------------------------------------------------------
(* Every recorded entry tells the truth about the directories of its group *)
(* unless they are damaged: what `status` reports is what is on disk.      *)
StateNamesContent ==
    \A g \in Group :
        state.of[g] # NoEntry /\ Dirs(g) \cap damaged = {} =>
            \A d \in Dirs(g) :
                project[d] = Tree[state.of[g].revision][d]

(* Once any update succeeded, an undamaged project loads. *)
RecordedLoads ==
    damaged = {} /\ state.kind # "missing" => project \in Loadable
=============================================================================
