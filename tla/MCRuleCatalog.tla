--------------------------- MODULE MCRuleCatalog ---------------------------
(***************************************************************************)
(* Small catalogs: built-in rules for two types of component; plugins that *)
(* work, raise half-way, take an id that is in use or put a rule of their  *)
(* own in the place of one they unregister; a working directory and one    *)
(* other tree with YAML rules; two scans, at the same time or one after    *)
(* the other.                                                              *)
(***************************************************************************)
EXTENDS RuleCatalog

R(id, type, from) == [id |-> id, targets |-> {type}, from |-> from]

MCIds == {"blocking", "advice", "signal", "plug1", "plug2", "late", "custom/a", "custom/b"}

MCBuiltins == {R("blocking", "skill", "builtin"), R("advice", "skill", "builtin"),
                R("signal", "hooks", "builtin")}

Doc(kind, id, target) == [kind |-> kind, id |-> id, target |-> target]

(* Project rules of their own, and one under the id of a built-in or of a  *)
(* plugin's rule.                                                          *)
MCYamlTrees ==
    {[d \in Dirs |-> IF d = Cwd THEN c ELSE t] :
        c \in {<<>>, <<Doc("rule", "custom/a", "?"), Doc("rule", "plug1", "skill")>>,
               <<Doc("malformed", "custom/a", "skill")>>},
        t \in {<<Doc("rejected", "custom/b", "skill"), Doc("rule", "advice", "skill"),
                 Doc("rule", "custom/b", "hooks")>>,
               <<Doc("rule", "custom/b", "?"), Doc("malformed", "custom/a", "skill")>>}}

Plug(id) == R(id, "skill", "plugin")
P(removed, rs, raises) == [removes |-> removed, rules |-> rs, raises |-> raises]

MCPluginSets ==
    {<<P({}, <<>>, TRUE), P({}, <<Plug("plug1")>>, FALSE)>>,
     <<P({}, <<Plug("plug1"), Plug("blocking"), Plug("late")>>, FALSE),
       P({}, <<Plug("plug2")>>, FALSE)>>,
     <<P({}, <<Plug("plug1"), Plug("plug2")>>, FALSE),
       P({"plug2", "signal"}, <<Plug("signal"), Plug("advice")>>, TRUE)>>}

MCLate == {R("late", "skill", "application"), R("signal", "hooks", "application")}

Q(dir, consent, single) == [dir |-> dir, consent |-> consent, single |-> single]

MCRequests ==
    {Q("other", FALSE, FALSE), Q("other", TRUE, FALSE), Q("other", FALSE, TRUE),
     Q("cwd", TRUE, FALSE), Q("cwd", FALSE, TRUE)}

ScanSymmetry == Permutations(Scans)
=============================================================================
