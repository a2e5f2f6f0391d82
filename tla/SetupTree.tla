----------------------------- MODULE SetupTree ------------------------------
(***************************************************************************)
(* The tree that discovery looks at, and the ways the discoverers look at  *)
(* it: pathlib's glob and rglob as core/discoverers/base.py uses them, the *)
(* exclusions, and the files that are opened to see what they are.         *)
(***************************************************************************)
EXTENDS Naturals, Sequences, FiniteSets, Functions

CONSTANT Files      \* files a tree may hold, each a File

(* base: below the root of the scan or in --user-config.  content: what    *)
(* discovery tells apart in a file.  outside: a symbolic link that         *)
(* resolves to a place outside the root.                                   *)
File == [base : {"root", "user"}, dir : Seq(STRING), stem : STRING,
         ext : STRING, content : STRING, outside : BOOLEAN]

VARIABLES
    tree,       \* the files there are
    above,      \* names of directories in the path of the root, as spelled
    recursive,  \* --recursive
    excluded    \* files of the tree matching an exclude pattern

tree_vars == <<tree, above, recursive, excluded>>

None == "none"
Md == {".md", ".instructions.md"}
Json == {".json"}
Yaml == {".yaml", ".yml"}

(* f.parts: pathlib's path is the root as spelled and what follows it. *)
Parts(f) == above \cup Range(f.dir) \cup (IF f.ext = "" THEN {f.stem} ELSE {})

Matches(dir, pattern) ==
    /\ Len(dir) = Len(pattern)
    /\ \A i \in DOMAIN pattern : pattern[i] \in {"*", dir[i]}
Begins(dir, pattern) ==
    /\ Len(dir) >= Len(pattern)
    /\ \A i \in DOMAIN pattern : pattern[i] \in {"*", dir[i]}
Ends(dir, pattern) ==
    /\ Len(dir) >= Len(pattern)
    /\ \A i \in DOMAIN pattern :
          pattern[i] \in {"*", dir[Len(dir) - Len(pattern) + i]}

Named(stem, exts) == {f \in tree : stem \in {"*", f.stem} /\ f.ext \in exts}
InRoot(stem, exts) == {f \in Named(stem, exts) : f.base = "root"}

(* Files of one directory (glob, iterdir), of everything below a directory *)
(* (rglob from it), and of --user-config.                                  *)
At(dir, stem, exts) == {f \in InRoot(stem, exts) : Matches(f.dir, dir)}
Below(dir, stem, exts) == {f \in InRoot(stem, exts) : Begins(f.dir, dir)}
InUser(dir, stem, exts) ==
    {f \in Named(stem, exts) : f.base = "user" /\ Matches(f.dir, dir)}
HasDir(dir) == \E f \in tree : f.base = "root" /\ Begins(f.dir, dir)

(* _is_excluded_path: the names are looked for in the whole path, the root *)
(* included; tests/fixtures only below the root.                           *)
ExcludedPath(f) ==
    \/ Parts(f) \cap {".git", "__pycache__", "node_modules", ".venv",
                      "vendor", ".tox", "worktrees"} # {}
    \/ \E i \in 1..(Len(f.dir) - 1) :
          f.dir[i] = "tests" /\ f.dir[i + 1] = "fixtures"

(* _recursive_glob: a pattern anywhere in the tree, with --recursive. *)
Deep(dir, stem, exts) ==
    {f \in InRoot(stem, exts) :
        recursive /\ Ends(f.dir, dir) /\ ~ExcludedPath(f) /\ ~f.outside}

(* Mutant of Both: the recursive search replaces the one at the root. *)
BothEither(dir, stem, exts) ==
    IF recursive THEN Deep(dir, stem, exts) ELSE At(dir, stem, exts)

Both(dir, stem, exts) == At(dir, stem, exts) \cup Deep(dir, stem, exts)
SkillsAt(dir) == At(dir \o <<"*">>, "SKILL", {".md"})
DeepSkills(dir) == Deep(dir \o <<"*">>, "SKILL", {".md"})
AgentsMd == At(<<>>, "AGENTS", {".md"})
AllAgentsMd == Both(<<>>, "AGENTS", {".md"})

-----------------------------------------------------------------------------
(* _json_top_level_keys, and with comments allowed _jsonc_top_level_keys;  *)
(* _toml_top_level_keys.  An excluded file has none: it is not opened.     *)
TopLevelKeys(f, commented) ==
    IF f \in excluded THEN {}
    ELSE CASE f.content = "hooks+mcpServers" -> {"hooks", "mcpServers"}
           [] f.content = "mcp, with comments" ->
                 IF commented THEN {"mcp"} ELSE {}
           [] OTHER -> {f.content}

With(files, key) == {f \in files : key \in TopLevelKeys(f, FALSE)}

(* is_agent_file.  Names of documentation, or all in capitals, are told    *)
(* without opening the file.                                               *)
NotAgentStems == {"readme", "README", "index", "changelog", "NOTES",
                  "CLAUDE", "AGENTS", "template", "_template", "example"}
IsAgentFile(f, strict) ==
    /\ f.stem \notin NotAgentStems
    /\ f \notin excluded
    /\ f.content # "applyTo"
    /\ strict => f.content = "frontmatter"
Agents(files, strict) == {f \in files : IsAgentFile(f, strict)}

(* is_harness_file: a YAML mapping with an agent prompt or a base; or one  *)
(* in harness/ that does not parse.                                        *)
IsHarnessFile(f) ==
    /\ f \notin excluded
    /\ \/ f.content \in {"agent", "base"}
       \/ f.content = "broken" /\ f.dir # <<>> /\ f.dir[Len(f.dir)] = "harness"
=============================================================================
