---------------------------- MODULE ProjectState ----------------------------
(***************************************************************************)
(* What wf-project-remote keeps on disk, as pure definitions: the managed  *)
(* directories and their groups, the image of a work root, the version     *)
(* state file, and how a requested version is resolved against the release *)
(* tags of a remote repository.                                            *)
(*                                                                         *)
(* Content of a directory is abstract: a member of Content when it is a    *)
(* complete tree, Absent when the directory does not exist, Torn when a    *)
(* remove or a copy of it was interrupted.                                 *)
(***************************************************************************)
EXTENDS Naturals, FiniteSets

CONSTANTS
    Commit,       \* commits of the remote repositories
    Content,      \* complete contents a managed directory can have
    Absent,       \* the directory does not exist
    Torn,         \* part of the directory was removed or copied
    Tree,         \* the directories of each commit
    Loadable,     \* the images whose conf/wfusion.toml loads
    Version,      \* release versions, ordered as semver orders them
    HeadVersion,  \* the label of an update that follows the remote HEAD
    NoCommit,     \* no commit: the tag does not exist
    NoEntry       \* a group that was never updated

(***************************************************************************)
(* Option<RemoteGroup>: "all" is None, an update of a single-repo project. *)
(***************************************************************************)
Group == {"all", "models", "infra"}

ManagedDir == {"conf", "models", "topology", "connectors"}

(* managed_dirs_for *)
Dirs(g) ==
    CASE g = "models" -> {"models"}
      [] g = "infra"  -> {"conf", "topology", "connectors"}
      [] g = "all"    -> ManagedDir

(* `for dir in dirs`: the three slices list their directories in this order. *)
DirOrder == [i \in 1..4 |-> CASE i = 1 -> "conf" [] i = 2 -> "models"
                              [] i = 3 -> "topology" [] i = 4 -> "connectors"]

NextDir(todo) ==
    CHOOSE d \in todo : \E i \in 1..4 :
        DirOrder[i] = d /\ \A j \in 1..4 : j < i => DirOrder[j] \notin todo

FileTree == Content \cup {Absent, Torn}

Image == [ManagedDir -> FileTree]

(* managed_dirs_differ *)
Differs(tree, image, dirs) == \E d \in dirs : tree[d] # image[d]

(* The image after every directory of `dirs` was replaced from `tree`. *)
Replaced(image, tree, dirs) ==
    [d \in ManagedDir |-> IF d \in dirs THEN tree[d] ELSE image[d]]

(***************************************************************************)
(* project_remote_state.json.  A Single state is the entry of "all"; a     *)
(* Dual state has the entries of "models" and "infra", either may miss.    *)
(***************************************************************************)
Entry == [version : Version \cup {HeadVersion}, revision : Commit]

StateFile == [kind : {"missing", "single", "dual"},
              of   : [Group -> Entry \cup {NoEntry}]]

NoState == [kind |-> "missing", of |-> [g \in Group |-> NoEntry]]

(* persist_state refuses to write a single-repo state over a dual-repo one. *)
PersistRefused(state, g) == g = "all" /\ state.kind = "dual"

(* Mutant of Recorded: the other group's entry is not carried over. *)
RecordedAlone(state, g, entry) ==
    [kind |-> IF g = "all" THEN "single" ELSE "dual",
     of   |-> [h \in Group |-> IF h = g THEN entry ELSE NoEntry]]

(* persist_state and persist_group_state: a group keeps the other group's  *)
(* entry only if the file already had the dual format.                     *)
Recorded(state, g, entry) ==
    [kind |-> IF g = "all" THEN "single" ELSE "dual",
     of   |-> IF g # "all" /\ state.kind = "dual"
                THEN [state.of EXCEPT ![g] = entry]
                ELSE [h \in Group |-> IF h = g THEN entry ELSE NoEntry]]

(* is_first_initialization *)
FirstInit(state, g) ==
    IF g = "all" THEN state.kind = "missing"
                 ELSE state.kind # "dual" \/ state.of[g] = NoEntry

(***************************************************************************)
(* Version resolution in one repository: tags maps a version to the commit *)
(* its release tag names, head is the commit of the remote HEAD.  The      *)
(* result is the set of possible targets, empty when the version asked for *)
(* is not found.                                                           *)
(***************************************************************************)
TagFor(tags, v) ==
    {[version |-> v, revision |-> c] : c \in {tags[v]} \ {NoCommit}}

Released(tags) == {v \in Version : tags[v] # NoCommit}

Latest(tags) == {v \in Released(tags) : \A w \in Released(tags) : w <= v}

DefaultTarget(tags, head, initVersion, first) ==
    IF first /\ initVersion \in Version
      THEN TagFor(tags, initVersion)
    ELSE IF Released(tags) # {}
      THEN UNION {TagFor(tags, v) : v \in Latest(tags)}
    ELSE {[version |-> HeadVersion, revision |-> head]}

-----------------------------------------------------------------------------
(* The constants are what they stand for: every commit's tree is complete, *)
(* and the sentinels are not confused with data.                           *)
ASSUME ProjectStateAssumption ==
    /\ Tree \in [Commit -> [ManagedDir -> Content \cup {Absent}]]
    /\ Loadable \subseteq Image
    /\ Version \subseteq Nat
    /\ HeadVersion \notin Version
    /\ Absent \notin Content /\ Torn \notin Content /\ Absent # Torn
    /\ NoCommit \notin Commit
    /\ NoEntry \notin Entry
=============================================================================
