---------------------------- MODULE MCDiscovery -----------------------------
(***************************************************************************)
(* Trees for Discovery, from a catalogue that has one file for each place  *)
(* the discoverers look at and for the places where two of them meet: each *)
(* file alone, all files of a kind together, a skill with what its         *)
(* directory holds next to another file, a SKILL.md at the root likewise.  *)
(***************************************************************************)
EXTENDS Discovery

F(dir, stem, ext, content) ==
    [base |-> "root", dir |-> dir, stem |-> stem, ext |-> ext,
     content |-> content, outside |-> FALSE]
U(dir, stem, ext, content) == [F(dir, stem, ext, content) EXCEPT !.base = "user"]
Skill(dir) == F(dir \o <<"s">>, "SKILL", ".md", "frontmatter")

Instructions == {
    F(<<>>, "CLAUDE", ".md", "plain"), F(<<"app">>, "CLAUDE", ".md", "plain"),
    F(<<"node_modules">>, "CLAUDE", ".md", "plain"),
    U(<<>>, "CLAUDE", ".md", "plain"), U(<<"projects", "p">>, "CLAUDE", ".md", "plain"),
    F(<<>>, "AGENTS", ".md", "plain"), F(<<"app">>, "AGENTS", ".md", "plain"),
    F(<<>>, "GEMINI", ".md", "plain"),
    F(<<"app">>, ".cursorrules", "", "plain"), F(<<>>, ".windsurfrules", "", "plain"),
    F(<<>>, ".clinerules", "", "plain"),
    F(<<".github">>, "copilot-instructions", ".md", "plain"),
    F(<<".github", "instructions">>, "py", ".instructions.md", "applyTo"),
    F(<<".cursor", "rules">>, "style", ".mdc", "frontmatter"),
    F(<<".devin", "rules">>, "style", ".md", "plain"),
    F(<<".clinerules">>, "style", ".md", "plain"),
    F(<<".clinerules", "skills">>, "notes", ".md", "plain"),
    F(<<".cline", "rules">>, "style", ".md", "plain"),
    F(<<".codex">>, "instructions", ".md", "plain"),
    F(<<".claude", "rules">>, "style", ".md", "plain"),
    F(<<".claude", "output-styles">>, "terse", ".md", "plain") }

Skills == {
    Skill(<<"skills">>), Skill(<<".claude", "skills">>), Skill(<<".cursor", "skills">>),
    Skill(<<".github", "skills">>), Skill(<<".agents", "skills">>),
    Skill(<<".gemini", "skills">>), Skill(<<".codex", "skills">>),
    Skill(<<".clinerules", "skills">>), Skill(<<"app", ".claude", "skills">>),
    Skill(<<".lola", "modules", "m", "skills">>),
    Skill(<<"vendor", "skills">>),
    F(<<"skills", "s", "scripts">>, "run", ".py", "plain"),
    F(<<"skills", "s">>, "logo", ".png", "plain"),
    F(<<>>, "SKILL", ".md", "frontmatter") }

Commands == {
    F(<<"commands">>, "build", ".md", "plain"),
    F(<<".claude", "commands", "ship">>, "command", ".md", "plain"),
    F(<<"app", ".claude", "commands">>, "test", ".md", "plain"),
    F(<<".cursor", "commands">>, "build", ".md", "plain"),
    F(<<".github", "prompts">>, "fix", ".md", "plain"),
    F(<<".gemini", "commands">>, "build", ".toml", "plain"),
    F(<<".opencode", "commands">>, "build", ".md", "plain"),
    F(<<".windsurf", "workflows">>, "ship", ".md", "plain"),
    F(<<"app", ".windsurf", "workflows">>, "ship", ".md", "plain"),
    F(<<".lola", "modules", "m", "commands">>, "build", ".md", "plain") }

AgentFiles == {
    F(<<"agents">>, "triage", ".md", "frontmatter"), F(<<"agents">>, "notes", ".md", "plain"),
    F(<<".claude", "agents">>, "triage", ".md", "plain"),
    F(<<".claude", "agents">>, "README", ".md", "plain"),
    F(<<".github", "agents">>, "triage", ".md", "frontmatter"),
    F(<<".github", "agents">>, "scoped", ".md", "applyTo"),
    F(<<".opencode", "agents">>, "triage", ".md", "plain"),
    F(<<".lola", "modules", "m", "agents">>, "triage", ".md", "frontmatter") }

Configs == {
    F(<<".claude">>, "settings", ".json", "hooks"),
    F(<<".claude">>, "settings.local", ".json", "hooks"),
    F(<<>>, ".mcp", ".json", "mcpServers"), F(<<"app">>, ".mcp", ".json", "mcpServers"),
    F(<<"tests", "fixtures">>, ".mcp", ".json", "mcpServers"),
    F(<<".claude", "app", ".cursor">>, "hooks", ".json", "hooks"),
    F(<<".cursor">>, "mcp", ".json", "mcpServers"), F(<<".cursor">>, "hooks", ".json", "hooks"),
    F(<<".windsurf">>, "mcp_config", ".json", "mcpServers"),
    F(<<".windsurf">>, "hooks", ".json", "hooks"),
    F(<<".vscode">>, "mcp", ".json", "servers"),
    F(<<".github", "hooks">>, "pre", ".json", "hooks"),
    F(<<"app", ".github", "hooks">>, "pre", ".json", "hooks"),
    F(<<".github", "copilot">>, "settings", ".json", "plain"),
    F(<<".github", "workflows">>, "ci", ".yml", "plain"),
    F(<<".gemini">>, "settings", ".json", "hooks+mcpServers"),
    U(<<>>, "settings", ".json", "hooks"),
    F(<<>>, "opencode", ".json", "plain"), F(<<>>, "opencode", ".jsonc", "mcp, with comments"),
    F(<<".codex">>, "config", ".toml", "mcp_servers"), F(<<".codex">>, "setup", ".sh", "plain"),
    F(<<>>, "codex", ".json", "plain"),
    F(<<"harness">>, "triage", ".yaml", "agent"), F(<<"harness">>, "review", ".yaml", "broken"),
    F(<<"app", "harness">>, "fix", ".yml", "base"), F(<<"harness">>, "values", ".yaml", "plain") }

(* opencode.json as it is when it names servers *)
Servers == F(<<>>, "opencode", ".json", "mcp")

MCFiles ==
    Instructions \cup Skills \cup Commands \cup AgentFiles \cup Configs \cup {Servers}

(* A skill with what its directory holds; harnesses and what detection     *)
(* sees; the two configurations of OpenCode, without and with servers in   *)
(* both.                                                                   *)
SkillTree == {f \in Skills : f.dir # <<>> /\ f.dir[1] = "skills"}
HarnessTree == {f \in Configs : "harness" \in Range(f.dir)}
OpenCodeTree == {f \in Configs : f.stem = "opencode"}
ServersTree == {Servers} \cup {f \in OpenCodeTree : f.ext = ".jsonc"}
BareTree == {f \in Skills : f.dir = <<>>}

MCTrees ==
    {{f} : f \in MCFiles} \cup {SkillTree, HarnessTree, OpenCodeTree, ServersTree}
    \cup {SkillTree \cup {f} : f \in Skills \cup Commands}
    \cup {BareTree \cup {f} : f \in Skills \cup AgentFiles \cup Configs}
    \cup {Instructions, Skills, Commands, AgentFiles, Configs}

(* Nothing, any file, any two files of the smaller trees. *)
MCPatterns ==
    {{}} \cup {{f} : f \in MCFiles}
    \cup UNION {{{f, g} : f, g \in t} : t \in {u \in MCTrees : Cardinality(u) <= 5}}

MCSpellings == {{}, {".claude", "worktrees"}, {"skills"}, {".git"}}
=============================================================================
