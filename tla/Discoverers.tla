---------------------------- MODULE Discoverers -----------------------------
(***************************************************************************)
(* core/discoverers/: for each tool, what discover() makes a component and *)
(* what collect_paths() lists, over the tree of SetupTree.                 *)
(*                                                                         *)
(* A claim is a set of files, the component type and the source_tool they  *)
(* get; a discoverer makes its claims in order and a file it has already   *)
(* seen under a type keeps its first claim.  Names and scopes of           *)
(* components are left out.                                                *)
(***************************************************************************)
EXTENDS SetupTree

Claim(type, tool, files) == [type |-> type, tool |-> tool, files |-> files]

-----------------------------------------------------------------------------
(* Claude Code.  Directories of the root that carry no tool's name are     *)
(* claimed for nobody, unless .claude is in the path of the root.          *)
RootTool == IF ".claude" \in above THEN "claude" ELSE None
CommandsAt(dir) ==
    At(dir, "*", Md) \cup At(dir \o <<"*">>, "command", {".md"})
RootSkills == SkillsAt(<<"skills">>)
ClaudeSkills == SkillsAt(<<".claude", "skills">>)
NestedSkills == DeepSkills(<<"skills">>)
RootCommands == CommandsAt(<<"commands">>)
ClaudeCommands == CommandsAt(<<".claude", "commands">>)
NestedCommands ==
    Deep(<<"commands">>, "*", Md) \cup Deep(<<"commands", "*">>, "command", {".md"})
ClaudeAgents == Agents(At(<<".claude", "agents">>, "*", Md), FALSE)
RootAgents == Agents(At(<<"agents">>, "*", Md), TRUE)
NestedClaudeAgents == Agents(Deep(<<".claude", "agents">>, "*", Md), FALSE)
NestedAgents == Agents(Deep(<<"agents">>, "*", Md), TRUE)
ClaudeMds ==
    Below(<<>>, "CLAUDE", {".md"}) \cup InUser(<<>>, "CLAUDE", {".md"})
    \cup InUser(<<"projects", "*">>, "CLAUDE", {".md"})
McpConfigs == {f \in Below(<<>>, ".mcp", Json) : ~ExcludedPath(f)}
ClaudeSettings == Both(<<".claude">>, "settings", Json)
ClaudeRules == Below(<<".claude", "rules">>, "*", Md \cup Yaml)
ClaudeStyles == Below(<<".claude", "output-styles">>, "*", Md \cup Yaml)

ClaudeClaims == <<
    Claim("claude_md", "claude", ClaudeMds),
    Claim("skill", RootTool, RootSkills),
    Claim("skill", "claude", ClaudeSkills),
    Claim("skill", None, NestedSkills),
    Claim("command", RootTool, RootCommands),
    Claim("command", "claude", ClaudeCommands),
    Claim("command", None, NestedCommands),
    Claim("hooks", "claude", ClaudeSettings),
    Claim("agent", "claude", ClaudeAgents),
    Claim("agent", None, RootAgents),
    Claim("agent", "claude", NestedClaudeAgents),
    Claim("agent", None, NestedAgents),
    Claim("mcp_config", None, McpConfigs),
    Claim("rule", "claude", ClaudeRules),
    Claim("output_style", "claude", ClaudeStyles) >>

ClaudePaths ==
    ClaudeMds \cup McpConfigs \cup ClaudeSettings \cup ClaudeRules \cup ClaudeStyles
    \cup RootSkills \cup ClaudeSkills \cup NestedSkills
    \cup RootCommands \cup ClaudeCommands \cup NestedCommands
    \cup Both(<<".claude", "agents">>, "*", Md) \cup Both(<<"agents">>, "*", Md)

(* Cursor *)
CursorRules ==
    Below(<<".cursor", "rules">>, "*", {".mdc"})
    \cup Deep(<<".cursor", "rules">>, "*", {".mdc"})
    \cup {f \in Below(<<>>, ".cursorrules", {""}) : ".git" \notin Parts(f)}
CursorCommands == Both(<<".cursor", "commands">>, "*", Md)
CursorSkills == SkillsAt(<<".cursor", "skills">>) \cup DeepSkills(<<".cursor", "skills">>)
CursorHooks == Both(<<".cursor">>, "hooks", Json)
CursorMcp == Both(<<".cursor">>, "mcp", Json)

CursorClaims == <<
    Claim("claude_md", "cursor", CursorRules),
    Claim("command", "cursor", CursorCommands),
    Claim("skill", "cursor", CursorSkills),
    Claim("hooks", "cursor", CursorHooks),
    Claim("mcp_config", "cursor", CursorMcp),
    Claim("claude_md", "agents-md", AllAgentsMd) >>

CursorPaths ==
    CursorRules \cup CursorCommands \cup CursorSkills \cup CursorHooks
    \cup CursorMcp \cup AgentsMd

(* Windsurf.  collect_paths searches the tree for rules only. *)
WindsurfRules ==
    Below(<<".devin", "rules">>, "*", Md) \cup Below(<<".windsurf", "rules">>, "*", Md)
    \cup Deep(<<".windsurf", "rules">>, "*", Md) \cup Both(<<>>, ".windsurfrules", {""})
WindsurfDirs == {".devin", ".windsurf"}
WindsurfSkillDirs == {<<d, "skills">> : d \in WindsurfDirs \cup {".agents"}}
WindsurfSkills == UNION {SkillsAt(d) : d \in WindsurfSkillDirs}
WindsurfAllSkills == WindsurfSkills \cup UNION {DeepSkills(d) : d \in WindsurfSkillDirs}
WindsurfWorkflows == UNION {At(<<d, "workflows">>, "*", Md) : d \in WindsurfDirs}
WindsurfAllWorkflows == UNION {Both(<<d, "workflows">>, "*", Md) : d \in WindsurfDirs}
WindsurfHooks == At(<<".windsurf">>, "hooks", Json)
WindsurfMcp == At(<<".windsurf">>, "mcp_config", Json)

WindsurfClaims == <<
    Claim("claude_md", "windsurf", WindsurfRules),
    Claim("skill", "windsurf", WindsurfAllSkills),
    Claim("command", "windsurf", WindsurfAllWorkflows),
    Claim("hooks", "windsurf", WindsurfHooks),
    Claim("mcp_config", "windsurf", WindsurfMcp),
    Claim("claude_md", "agents-md", AllAgentsMd) >>

WindsurfPaths ==
    WindsurfRules \cup WindsurfSkills \cup WindsurfWorkflows \cup WindsurfHooks
    \cup WindsurfMcp \cup AgentsMd

(* Cline.  .clinerules is a file or a directory; a directory named skills  *)
(* anywhere in the path takes its rules out.                               *)
ClineFile == At(<<>>, ".clinerules", {""})
ClineDir == Below(<<".clinerules">>, "*", Md)
ClineNested == Deep(<<>>, ".clinerules", {""}) \cup Deep(<<".clinerules">>, "*", Md)
ClineRules == Below(<<".cline", "rules">>, "*", Md)
ClineSkillDirs == {<<d, "skills">> : d \in {".cline", ".clinerules", ".claude"}}
ClineAllRules ==
    ClineFile \cup {f \in ClineDir : "skills" \notin Parts(f)} \cup ClineRules \cup ClineNested
ClineSkills == UNION {SkillsAt(d) : d \in ClineSkillDirs}
ClineAllSkills == ClineSkills \cup UNION {DeepSkills(d) : d \in ClineSkillDirs}

ClineClaims == <<
    Claim("claude_md", "cline", ClineAllRules),
    Claim("skill", "cline", ClineAllSkills),
    Claim("claude_md", "agents-md", AllAgentsMd) >>

ClinePaths ==
    ClineFile \cup ClineDir \cup ClineNested \cup ClineRules \cup ClineSkills
    \cup AgentsMd

-----------------------------------------------------------------------------
(* Copilot *)
CopilotInstructions ==
    At(<<".github">>, "copilot-instructions", {".md"})
    \cup Below(<<".github", "instructions">>, "*", {".instructions.md"})
CopilotSkills ==
    (UNION {SkillsAt(<<d, "skills">>) : d \in {".github", ".agents", ".claude"}})
    \cup DeepSkills(<<".github", "skills">>)
CopilotPrompts == Both(<<".github", "prompts">>, "*", Md)
CopilotAgents == Both(<<".github", "agents">>, "*", Md)
CopilotAgentFiles == Agents(CopilotAgents, FALSE)
CopilotHooks == At(<<".github", "hooks">>, "*", Json)
CopilotAllHooks == Both(<<".github", "hooks">>, "*", Json)
CopilotSettings ==
    UNION {At(<<".github", "copilot">>, s, Json) : s \in {"settings", "settings.local"}}
CopilotMcp == At(<<".vscode">>, "mcp", Json)
CopilotServers == With(CopilotMcp, "mcpServers") \cup With(CopilotMcp, "servers")

CopilotClaims == <<
    Claim("claude_md", "copilot", CopilotInstructions),
    Claim("skill", "copilot", CopilotSkills),
    Claim("command", "copilot", CopilotPrompts),
    Claim("agent", "copilot", CopilotAgentFiles),
    Claim("hooks", "copilot", CopilotAllHooks),
    Claim("config", "copilot", CopilotSettings),
    Claim("mcp_config", "copilot", CopilotServers) >>

CopilotPaths ==
    CopilotInstructions \cup CopilotSkills \cup CopilotPrompts \cup CopilotAgents
    \cup CopilotHooks \cup CopilotSettings \cup CopilotMcp

(* Gemini.  The settings of --user-config are Gemini's. *)
GeminiMds == Both(<<>>, "GEMINI", {".md"})
GeminiCommands == Both(<<".gemini", "commands">>, "*", Md \cup {".toml"})
GeminiSkills == SkillsAt(<<".gemini", "skills">>) \cup SkillsAt(<<".agents", "skills">>)
GeminiAllSkills ==
    GeminiSkills \cup DeepSkills(<<".gemini", "skills">>) \cup DeepSkills(<<".agents", "skills">>)
GeminiSettings ==
    At(<<".gemini">>, "settings", Json) \cup InUser(<<>>, "settings", Json)

GeminiClaims == <<
    Claim("claude_md", "gemini", GeminiMds),
    Claim("command", "gemini", GeminiCommands),
    Claim("skill", "gemini", GeminiAllSkills),
    Claim("hooks", "gemini", With(GeminiSettings, "hooks")),
    Claim("mcp_config", "gemini", With(GeminiSettings, "mcpServers")),
    Claim("config", "gemini", GeminiSettings) >>

GeminiPaths == GeminiMds \cup GeminiCommands \cup GeminiSettings \cup GeminiSkills

(* OpenCode.  Only the first of its two configurations that names servers  *)
(* is an MCP configuration.                                                *)
OpenCodeCommands == Both(<<".opencode", "commands">>, "*", Md)
OpenCodeAgents == Both(<<".opencode", "agents">>, "*", Md)
OpenCodeSkillDirs == {<<d, "skills">> : d \in {".opencode", ".agents", ".claude"}}
OpenCodeSkills == UNION {SkillsAt(d) : d \in OpenCodeSkillDirs}
OpenCodeAllSkills == OpenCodeSkills \cup UNION {DeepSkills(d) : d \in OpenCodeSkillDirs}
OpenCodeConfigs == At(<<>>, "opencode", {".json", ".jsonc"})
OpenCodeMcp ==
    LET servers == {f \in OpenCodeConfigs : "mcp" \in TopLevelKeys(f, TRUE)}
        strict == {f \in servers : f.ext = ".json"}
    IN  IF strict # {} THEN strict ELSE servers

OpenCodeClaims == <<
    Claim("claude_md", "agents-md", AllAgentsMd),
    Claim("command", "opencode", OpenCodeCommands),
    Claim("agent", "opencode", OpenCodeAgents),
    Claim("skill", "opencode", OpenCodeAllSkills),
    Claim("mcp_config", "opencode", OpenCodeMcp),
    Claim("config", "opencode", OpenCodeConfigs) >>

OpenCodePaths ==
    AllAgentsMd \cup OpenCodeCommands \cup OpenCodeAgents \cup OpenCodeConfigs
    \cup OpenCodeSkills

(* Codex CLI *)
CodexInstructions == At(<<".codex">>, "instructions", {".md"})
CodexSetup == At(<<".codex">>, "setup", {".sh"})
CodexSkills ==
    UNION {SkillsAt(<<d, "skills">>) \cup DeepSkills(<<d, "skills">>) :
              d \in {".agents", ".codex"}}
CodexConfigs == At(<<".codex">>, "config", {".toml"}) \cup InUser(<<>>, "config", {".toml"})
CodexJson == At(<<>>, "codex", Json)

CodexClaims == <<
    Claim("claude_md", "agents-md", AllAgentsMd),
    Claim("claude_md", "codex", CodexInstructions),
    Claim("skill", "codex", CodexSkills),
    Claim("mcp_config", "codex", With(CodexConfigs, "mcp_servers")),
    Claim("config", "codex", CodexConfigs),
    Claim("uncategorized", "codex", CodexJson \cup CodexSetup) >>

CodexPaths ==
    AllAgentsMd \cup Below(<<".codex">>, "*", Md \cup {".toml", ".json"})
    \cup CodexJson \cup CodexSkills \cup CodexConfigs

(* fullsend: the YAML files of harness/, read to see which are harnesses. *)
HarnessCandidates == Both(<<"harness">>, "*", Yaml)
Harnesses == {f \in HarnessCandidates : IsHarnessFile(f)}
FullsendClaims == << Claim("harness", "fullsend", Harnesses) >>

(* Third-party modules *)
ModuleDir(part) == <<".lola", "modules", "*", part>>
ModuleSkills ==
    SkillsAt(ModuleDir("skills")) \cup DeepSkills(ModuleDir("skills"))
ModuleCommands == At(ModuleDir("commands"), "*", Md)
ModuleAgents == At(ModuleDir("agents"), "*", Md)
ThirdPartyClaims == <<
    Claim("skill", "third-party", ModuleSkills),
    Claim("command", "third-party", ModuleCommands),
    Claim("agent", "third-party", ModuleAgents) >>
ThirdPartyPaths == ModuleSkills \cup ModuleCommands \cup ModuleAgents

-----------------------------------------------------------------------------
(* Mutant of Registry: GitHub's discoverer is asked before Claude Code's. *)
RegistryAlphabetic ==
    <<"copilot", "claude", "cursor", "windsurf", "cline", "gemini", "opencode",
      "codex", "fullsend", "third-party">>

(* registry.py: DISCOVERERS *)
Registry ==
    <<"claude", "cursor", "windsurf", "cline", "copilot", "gemini", "opencode",
      "codex", "fullsend", "third-party">>

Claims(d) ==
    CASE d = "claude" -> ClaudeClaims       [] d = "cursor" -> CursorClaims
      [] d = "windsurf" -> WindsurfClaims   [] d = "cline" -> ClineClaims
      [] d = "copilot" -> CopilotClaims     [] d = "gemini" -> GeminiClaims
      [] d = "opencode" -> OpenCodeClaims   [] d = "codex" -> CodexClaims
      [] d = "fullsend" -> FullsendClaims   [] d = "third-party" -> ThirdPartyClaims

CollectPaths(d) ==
    CASE d = "claude" -> ClaudePaths        [] d = "cursor" -> CursorPaths
      [] d = "windsurf" -> WindsurfPaths    [] d = "cline" -> ClinePaths
      [] d = "copilot" -> CopilotPaths      [] d = "gemini" -> GeminiPaths
      [] d = "opencode" -> OpenCodePaths    [] d = "codex" -> CodexPaths
      [] d = "fullsend" -> HarnessCandidates
      [] d = "third-party" -> ThirdPartyPaths

(* detect() *)
Detects(d) ==
    CASE d = "claude" -> At(<<>>, "CLAUDE", {".md"}) # {} \/ HasDir(<<".claude">>)
      [] d = "cursor" -> HasDir(<<".cursor">>) \/ At(<<>>, ".cursorrules", {""}) # {}
      [] d = "windsurf" -> \/ HasDir(<<".devin">>) \/ HasDir(<<".windsurf">>)
                           \/ At(<<>>, ".windsurfrules", {""}) # {}
      [] d = "cline" -> HasDir(<<".clinerules">>) \/ HasDir(<<".cline">>) \/ ClineFile # {}
      [] d = "copilot" ->
            \/ \E x \in {"prompts", "agents", "skills", "instructions", "hooks"} :
                  HasDir(<<".github", x>>)
            \/ At(<<".github">>, "copilot-instructions", {".md"}) # {}
            \/ CopilotMcp # {}
      [] d = "gemini" -> At(<<>>, "GEMINI", {".md"}) # {} \/ HasDir(<<".gemini">>)
      [] d = "opencode" -> HasDir(<<".opencode">>) \/ OpenCodeConfigs # {}
      [] d = "codex" -> HasDir(<<".codex">>) \/ CodexJson # {}
      [] d = "third-party" -> HasDir(<<".lola", "modules">>)
=============================================================================
