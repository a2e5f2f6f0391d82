---------------------------- MODULE MCWatchLoop ----------------------------
(* A context file, a skill that is a link to a directory outside the       *)
(* watched ones, and a command file the user may add later.                *)
EXTENDS WatchLoop

MCFiles == {"CLAUDE.md", "linked/SKILL.md", "new.md"}
MCInitially == {"CLAUDE.md", "linked/SKILL.md"}
MCDir == [f \in MCFiles |-> IF f = "linked/SKILL.md" THEN "skills" ELSE "root"]
MCHome == [f \in MCFiles |-> IF f = "linked/SKILL.md" THEN "elsewhere" ELSE "root"]
MCBelow == [d \in {"root", "skills", "elsewhere"} |->
              IF d = "root" THEN {"root", "skills"} ELSE {d}]
=============================================================================
