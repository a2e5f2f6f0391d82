--------------------------- MODULE MCScanEvidence ---------------------------
(***************************************************************************)
(* Small trees for ScanEvidence, of two layouts.  In the first, .claude    *)
(* holds a skill with an asset and a script that lies below vendor/,       *)
(* notes no tool claims and a private key that --exclude names; a          *)
(* directory below holds a workflow of another tool, which a recursive     *)
(* scan claims and no listing names.  In the second, a harness file names  *)
(* a schema, and the root is itself a skill with a script.  A scan starts  *)
(* from a tree of either layout; edits may then create files of both.      *)
(***************************************************************************)
EXTENDS ScanEvidence

MCContents == {"a", "b", "big"}
MCSize == [c \in MCContents |-> CASE c = "a" -> 1 [] c = "b" -> 2 [] OTHER -> 3]

SkillLayout == {"skill", "asset", "vendored", "note", "key", "workflow"}
HarnessLayout == {"harness", "schema", "root", "helper"}

MCTrees ==
    {t \in [Files -> {"a", Absent}] :
        LET present == {f \in Files : t[f] # Absent}
        IN  \/ "skill" \in present /\ present \subseteq SkillLayout
            \/ present \subseteq HarnessLayout}

MCInside == [s \in SkillMds |->
                IF s = "skill" THEN {"skill", "asset", "vendored"} ELSE Files]
MCRefers == [f \in Claimed |-> IF f = "harness" THEN {"schema"} ELSE {}]
=============================================================================
