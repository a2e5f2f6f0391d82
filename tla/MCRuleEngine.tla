---------------------------- MODULE MCRuleEngine ----------------------------
(* A component of every type (two skills, one with a sub-file; a TOML      *)
(* command beside a Markdown one); a per-component security rule, a        *)
(* setup-wide rule, a rule of one client that chooses its own severity and *)
(* a custom YAML rule.                                                     *)
EXTENDS RuleEngine

C(type, file, subs, tool) ==
    [type |-> type, file |-> file, subs |-> subs, tool |-> tool, toml |-> file = "go.toml"]
MCQueue == <<
    C("skill", "a/SKILL.md", {"a/ref.md"}, "cursor"), C("skill", "b/SKILL.md", {}, NoTool),
    C("command", "run.md", {}, NoTool), C("command", "go.toml", {}, "gemini"),
    C("claude_md", "CLAUDE.md", {}, "claude"), C("hooks", "hooks.json", {}, "copilot"),
    C("agent", "agent.md", {}, "opencode"), C("mcp", "mcp.json", {}, "claude"),
    C("config", "config.toml", {}, "codex"), C("harness", "h.yaml", {}, "fullsend"),
    C("rule", "rules.md", {}, "claude") >>
MCFiles == {MCQueue[j].file : j \in DOMAIN MCQueue} \cup {"a/ref.md"}

R(id, targets, tools, once, custom, textSafe, annotated) ==
    [id |-> id, targets |-> targets, tools |-> tools, once |-> once, custom |-> custom,
     textSafe |-> textSafe, annotated |-> annotated, default |-> "warning"]
MCRuleSeq == <<
    R("security/reverse-shell", {"skill"}, {}, FALSE, FALSE, TRUE, TRUE),
    R("cross/duplicate-skill-id", {"skill"}, {}, TRUE, FALSE, FALSE, TRUE),
    R("hooks/silent-failure-masking", {"hooks"}, {"claude", "copilot"}, FALSE, FALSE, FALSE, TRUE),
    R("custom/house-style", {"skill"}, {"claude"}, FALSE, TRUE, FALSE, FALSE) >>
MCRuleIds ==
    {MCRuleSeq[k].id : k \in DOMAIN MCRuleSeq} \cup {"agent/reverse-shell", "parser"}

D(r, f, l, o, g) ==
    [rule |-> r, file |-> f, line |-> l, override |-> o, downgrade |-> g]
MCDescriptors ==
    { D("security/reverse-shell", "a/SKILL.md", 1, "none", FALSE),
      D("security/reverse-shell", "a/ref.md", 2, "warning", TRUE),
      D("security/reverse-shell", "b/SKILL.md", 2, "info", FALSE),
      D("security/reverse-shell", "rules.md", 1, "warning", TRUE),
      D("cross/duplicate-skill-id", "b/SKILL.md", 1, "none", FALSE),
      D("hooks/silent-failure-masking", "hooks.json", NoLine, "error", FALSE),
      D("custom/house-style", "rules.md", NoLine, "none", FALSE),
      D("custom/house-style", "b/SKILL.md", NoLine, "warning", FALSE) }

Unset == [r \in MCRuleIds |-> "unset"]
MCConfigs ==
    { Unset,
      [Unset EXCEPT !["security/reverse-shell"] = "error",
                    !["hooks/silent-failure-masking"] = "warning",
                    !["cross/duplicate-skill-id"] = "warning"],
      [Unset EXCEPT !["cross/duplicate-skill-id"] = "error",
                    !["custom/house-style"] = "off"] }

Silent == [f \in MCFiles |-> {}]
MCDirectives ==
    { Silent,
      [Silent EXCEPT
         !["a/SKILL.md"] = {<<"cross/duplicate-skill-id", AllLines>>,
                            <<"security/reverse-shell", 2>>},
         !["b/SKILL.md"] = {<<"security/reverse-shell", AllLines>>,
                            <<"custom/house-style", AllLines>>}],
      [Silent EXCEPT
         !["a/ref.md"] = {<<"security/reverse-shell", 2>>},
         !["a/SKILL.md"] = {<<"agent/reverse-shell", AllLines>>},
         !["b/SKILL.md"] = {<<"cross/duplicate-skill-id", AllLines>>, <<"parser", AllLines>>}] }
MCReachable == {"a/SKILL.md"}

Text(key, t) == [k \in {key} |-> t]
Nothing == [k \in {} |-> NoText]
Entry(h, nested) == [string |-> FALSE, handler |-> h, nested |-> nested]
Event(e) == [list |-> TRUE, entry |-> e]
Sub(h) == [string |-> FALSE, handler |-> h]
(* Claude's nested form, Copilot's shells, the first one blank, a bare     *)
(* string, an executable, a nested string beside the entry's own command,  *)
(* a blank command before a shell, and no list at all.                     *)
MCEvents ==
    << Event(Entry(Nothing, <<Sub(Text("command", "lint")), Sub(Text("exec", "fmt"))>>)),
       Event(Entry([k \in {"bash", "powershell"} |-> IF k = "bash" THEN "sh" ELSE "ps"], <<>>)),
       Event(Entry([k \in {"bash", "powershell"} |-> IF k = "bash" THEN Blank ELSE "ps"], <<>>)),
       Event(Entry([k \in {"command", "bash"} |-> IF k = "bash" THEN "sh" ELSE Blank], <<>>)),
       Event([string |-> TRUE, handler |-> Text("command", "echo"), nested |-> <<>>]),
       Event(Entry(Text("command", "own"),
                   <<[string |-> TRUE, handler |-> Text("command", "sub")], Sub(Nothing)>>)),
       [list |-> FALSE, entry |-> Entry(Text("command", "lost"), <<>>)] >>

File(form) == [form |-> form]
Good ==
    [j \in DOMAIN MCQueue |->
        CASE MCQueue[j].type = "hooks" -> [form |-> "mapping", events |-> MCEvents]
          [] MCQueue[j].type = "agent" ->
                [form |-> "mapping", tools |-> [t \in {"bash", "edit"} |-> t = "edit"],
                 disallowed |-> {"web"}]
          [] MCQueue[j].toml -> [form |-> "mapping", top |-> Text("prompt", "p"),
                                 table |-> Text("template", "t")]
          [] OTHER -> File("mapping")]

(* Everything parses; or every file is broken in the same or another way. *)
Broken1 == << "unclosed", "plain", "notMapping", "invalid", "gone", "invalid",
              "invalid", "gone", "empty", "notMapping", "gone" >>
Broken2 == << "gone", "invalid", "gone", "empty", "plain", "empty",
              "unclosed", "plain", "gone", "invalid", "plain" >>
Forming(b) == [j \in DOMAIN MCQueue |-> File(b[j])]
With(base, j, f) == [base EXCEPT ![j] = f]
MCContents ==
    { Good, Forming(Broken1), Forming(Broken2),
      With(Good, 4, [form |-> "mapping", top |-> Nothing, table |-> Text("template", "t")]),
      With(Good, 4, [form |-> "mapping", top |-> Text("prompt", "p"), table |-> Text("prompt", Blank)]),
      With(Good, 11, File("locked")),
      With(Good, 6, File("notMapping")), With(Good, 10, File("badValue")),
      With(Good, 5, File("locked")) }
=============================================================================
