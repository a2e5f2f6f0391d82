-------------------------- MODULE MCSecurityReview --------------------------
EXTENDS SecurityReview

R(type, name) == [type |-> type, name |-> name]

(* The results of a skill and an agent of the same name, and of CLAUDE.md,  *)
(* whose component is called CLAUDE.                                        *)
MCResults == <<R("skill", "deploy"), R("agent", "deploy"),
               R("claude_md", "CLAUDE.md")>>

MCKey == [c \in {"skill", "agent", "claude"} |->
            IF c = "skill" THEN R("skill", "deploy")
            ELSE IF c = "agent" THEN R("agent", "deploy")
            ELSE R("claude_md", "CLAUDE")]

D(kind, severity) == [kind |-> kind, severity |-> severity]

(* One or two findings of the skill are left after cleaning, an agent's     *)
(* error or a parser error, and an error in CLAUDE.md.                      *)
MCScans ==
    {<<s, a, <<D("rule", "error")>>>> :
        s \in {<<D("optional", "info"), D("rule", "error")>>,
               <<D("rule", "warning"), D("rule", "error")>>},
        a \in {<<D("rule", "error")>>, <<D("parser", "error")>>}}

MCOptions == {o \in Option :
    /\ o.enforce = "none" \/ o.failOn = "none"
    /\ o.review => o.enforce = "strict"}
=============================================================================
