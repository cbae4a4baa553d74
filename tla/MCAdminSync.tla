---------------------------- MODULE MCAdminSync -----------------------------
(***************************************************************************)
(* Instances of AdminSync for TLC.                                         *)
(***************************************************************************)
EXTENDS AdminSync

\* Two names that differ only in case.
MCFolded == [n \in Names |-> "lint"]

\* The administrator has a newer version of one skill.
MCLocal == [n \in Names |-> IF n = "lint" THEN "new" ELSE None]

MCArchives == {[name |-> "lint", content |-> "old"], [name |-> "lint", content |-> "new"],
               [name |-> "Lint", content |-> "old"]}

MCShape == [c \in Contents |->
               IF c = "old" THEN [files |-> {"SKILL.md"}, size |-> 1, md |-> 1]
               ELSE [files |-> {"SKILL.md", "run.py"}, size |-> 3, md |-> 1]]
=============================================================================
