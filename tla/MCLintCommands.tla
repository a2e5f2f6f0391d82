--------------------------- MODULE MCLintCommands ---------------------------
(***************************************************************************)
(* A skill, a file that is only recognised inside a setup, eight rules: a  *)
(* gating one, a provisional one that also fires on a lone file, a quality *)
(* rule and a rule of a plugin that propose a fix, a signature rule the    *)
(* presets turn off, a YAML rule of the tree, and the circular references, *)
(* told from one or the other member, or not at all.                       *)
(***************************************************************************)
EXTENDS LintCommands

L(text) == [text |-> text, crlf |-> FALSE, bytes |-> "utf8"]
D(text) == [L(text) EXCEPT !.crlf = TRUE]
Raw(text) == [L(text) EXCEPT !.bytes = "other"]

MCFiles == {"SKILL.md", "user.json"}
MCTexts == {"", "key", "key2", "vague", "fine", "tab", "eval", "ring", "loop"}
MCTrees ==
    {[f \in MCFiles |-> IF f = "SKILL.md" THEN content ELSE <<L("fine")>>] :
       content \in {<<L("key"), L("vague")>>, <<D("vague"), L("key"), L("vague")>>,
                    <<D("eval"), D("vague"), L("key")>>, <<Raw("ring"), L("vague"), L("loop")>>}}
MCEdited == {<<L("vague"), L("key"), L("key2")>>, <<L("tab"), L("vague")>>,
             <<D("key"), D("vague")>>}

MCCatalog == <<"secrets", "links", "imprecise", "plugin", "circular", "taint", "yara", "custom">>
M(effect, tier, group, sev) ==
    [effect |-> effect, tier |-> tier, category |-> group, group |-> group, sev |-> sev]
MCMeta == [secrets   |-> M("block", "gating", "security", "error"),
           links     |-> M("block", "provisional", "content", "warning"),
           imprecise |-> M("advice", "provisional", "quality", "warning"),
           plugin    |-> M("advice", "experimental", "content", "info"),
           circular  |-> M("advice", "experimental", "content", "warning"),
           taint     |-> M("signal", "experimental", "security", "error"),
           yara      |-> M("signal", "experimental", "security", "warning"),
           custom    |-> M("advice", "experimental", "custom", "error")]
MCRecommended == [yara |-> "off", taint |-> "warning"]
MCStrict == [imprecise |-> "error", links |-> "error"]
MCSecurity == [yara |-> "error", taint |-> "error"]
MCFires == [secrets |-> {"key", "key2"}, links |-> {}, imprecise |-> {"vague"},
            plugin |-> {"tab", "vague"}, yara |-> {"key2"}, taint |-> {"eval"},
            circular |-> {"ring", "loop"}, custom |-> {"fine"}]
MCFiresAlone == [MCFires EXCEPT !.links = {"vague"}]
MCFix == [secrets |-> "nofix", links |-> "nofix", imprecise |-> "fine",
          plugin |-> "", taint |-> "nofix", circular |-> "nofix", yara |-> "nofix", custom |-> "nofix"]

MCOrders == {"fore", "back"}
MCTold == [fore |-> [circular |-> [ring |-> "SKILL.md", loop |-> "SKILL.md"]],
           back |-> [circular |-> [ring |-> "user.json"]]]

O(cmd, root, withBaseline, enforce) ==
    [cmd |-> cmd, root |-> root, baseline |-> withBaseline, enforce |-> enforce,
     preset |-> "recommended", everything |-> FALSE, yaml |-> FALSE,
     target |-> Whole, fix |-> FALSE]
MCOptions ==
    {O("baseline", ".", FALSE, "none"), [O("baseline", ".", FALSE, "none") EXCEPT !.preset = "strict"],
     O("gate", ".", FALSE, "none"), O("gate", ".", TRUE, "none"),
     O("gate", "abs", TRUE, "none"),
     [O("gate", ".", TRUE, "none") EXCEPT !.everything = TRUE, !.target = "SKILL.md"],
     [O("gate", ".", FALSE, "none") EXCEPT !.target = "user.json"],
     O("lint", ".", FALSE, "fail-on-error"),
     [O("lint", ".", TRUE, "strict") EXCEPT !.fix = TRUE],
     [O("lint", ".", FALSE, "strict") EXCEPT !.fix = TRUE, !.preset = "strict"],
     [O("lint", ".", TRUE, "strict") EXCEPT !.everything = TRUE, !.yaml = TRUE],
     [O("lint", ".", TRUE, "off") EXCEPT !.everything = TRUE, !.target = "SKILL.md"],
     O("security", ".", TRUE, "strict")}
=============================================================================
