--------------------------- MODULE MCProjectRemote ---------------------------
(***************************************************************************)
(* Small instances of ProjectRemote.  Three commits: c1 and c2 differ in   *)
(* every directory but one and in which directories exist; the conf/ of c3 *)
(* does not load.                                                          *)
(***************************************************************************)
EXTENDS ProjectRemote, TLC

CONSTANTS c1, c2, c3

(* conf/ contents: "s" configures one repository, "d" two, "x" is broken. *)
MCContent == {"s", "d", "x", "a", "b"}

MCModeOf == [c \in MCContent \cup {Absent, Torn} |->
                CASE c = "s" -> "single" [] c = "d" -> "dual" [] OTHER -> "off"]

(* A torn topology is noticed, a torn models/ is not: its files are globbed. *)
MCLoadable == {i \in [ManagedDir -> MCContent \cup {Absent, Torn}] :
                    i["conf"] \in {"s", "d"} /\ i["topology"] # Torn}

Files(conf, models, topology, connectors) ==
    [d \in ManagedDir |-> CASE d = "conf" -> conf [] d = "models" -> models
                            [] d = "topology" -> topology
                            [] d = "connectors" -> connectors]

(* A dual-repo project. *)
DualTree == (c1 :> Files("d", "a", "a", Absent)
             @@ c2 :> Files("d", "b", Absent, "a")
             @@ c3 :> Files("x", "b", "a", "a"))

(* A project that its c2 turns from single-repo into dual-repo. *)
MixedTree == (c1 :> Files("s", "a", "a", Absent)
              @@ c2 :> Files("d", "b", Absent, "a")
              @@ c3 :> Files("x", "b", "a", "a"))

Tags(t1, t2) == [g \in Group |-> 1 :> t1 @@ 2 :> t2]

BadTags == Tags(c2, c3)    \* the latest release does not load

\* The repository of the single-repo project has no release: HEAD is installed.
MixedTags == [BadTags EXCEPT !["all"] = 1 :> NoCommit @@ 2 :> NoCommit]

InitFirst == [g \in Group |-> 1]
InitMixed == [InitFirst EXCEPT !["all"] = NoVersion]

HeadGood == [g \in Group |-> c2]

DualStart   == {Files("d", "a", "b", "b")}
MixedStart  == {Files("s", "b", "b", "b"), Files("d", "a", "b", "b")}
=============================================================================
