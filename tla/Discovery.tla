----------------------------- MODULE Discovery ------------------------------
(***************************************************************************)
(* core/setup.py: discover_setup, from the inventory to the detected       *)
(* tools; and further calls on the same tree, with --recursive and without *)
(* the exclude patterns.  The limits and a tree that changes meanwhile are *)
(* the subject of ScanEvidence.                                            *)
(***************************************************************************)
EXTENDS Discoverers

CONSTANTS
    Trees,      \* trees a scan may be pointed at
    Spellings,  \* what the path of the root may hold: values of above
    Patterns    \* what exclude patterns may match: sets of files

ASSUME DiscoveryConstants ==
    /\ Files \subseteq File /\ Trees \subseteq SUBSET Files
    /\ Spellings \subseteq SUBSET STRING
    /\ Patterns \subseteq SUBSET Files

VARIABLES
    pc,         \* "inventory", "discover", "sweep", "bare", "filter", "detect", "done"
    next,       \* place in the registry
    inventory,  \* files measured, hashed and readable by the rules
    components, \* [file, type, tool]
    detected,   \* detected_tools
    plain,      \* components of the scan without --recursive, when it is over
    withheld,   \* what the patterns of the scan before matched, if withdrawn
    restricted  \* the components that scan found

discoveryVars == <<tree_vars, pc, next, inventory, components, detected,
                   plain, withheld, restricted>>

Component == [file : Files, type : STRING, tool : STRING]
Keys(cs) == {<<c.file, c.type>> : c \in cs}
FilesOf(cs) == {c.file : c \in cs}

DiscoveryInit ==
    /\ tree \in Trees /\ above \in Spellings /\ recursive = FALSE
    /\ excluded \in {p \cap tree : p \in Patterns}
    /\ pc = "inventory" /\ next = 1
    /\ inventory = {} /\ components = {} /\ detected = {}
    /\ plain = {} /\ withheld = {} /\ restricted = {}

-----------------------------------------------------------------------------
(* uncategorized_candidate_paths *)
SweptDirs == {".claude", ".cursor", ".github", ".gemini", ".opencode", ".codex",
              ".agents", ".cline", ".clinerules", ".devin", ".windsurf", ".lola",
              "skills", "commands"}
BinarySuffixes == {".png", ".zip"}
HiddenStems == {".mcp", ".cursorrules", ".clinerules", ".windsurfrules"}
Candidates ==
    {f \in tree : /\ f.base = "root" /\ f.dir # <<>> /\ f.dir[1] \in SweptDirs
                  /\ Parts(f) \cap {".git", "__pycache__"} = {}
                  /\ f.ext \notin BinarySuffixes /\ f.stem \notin HiddenStems}

RootSkill == At(<<>>, "SKILL", {".md"})

(* skill_bundle_files *)
Bundle(s) ==
    {f \in tree : /\ f.base = s.base /\ Begins(f.dir, s.dir)
                  /\ Parts(f) \cap {".git", "__pycache__", "node_modules",
                                    ".venv", "vendor", ".tox"} = {}}

(* Mutant of Inventory: the sweep is not part of the inventory. *)
InventoryUnswept ==
    LET listed == (UNION {CollectPaths(Registry[i]) : i \in DOMAIN Registry})
                  \cup RootSkill
        skills == {f \in listed : f.stem = "SKILL"}
    IN  (listed \cup UNION {Bundle(s) : s \in skills}) \ excluded

(* collect_setup_file_paths, without what the patterns exclude *)
Inventory ==
    LET listed == (UNION {CollectPaths(Registry[i]) : i \in DOMAIN Registry})
                  \cup Candidates \cup RootSkill
        skills == {f \in listed : f.stem = "SKILL" /\ f.ext = ".md"}
    IN  (listed \cup UNION {Bundle(s) : s \in skills}) \ excluded

CollectInventory ==
    /\ pc = "inventory" /\ pc' = "discover"
    /\ inventory' = Inventory
    /\ next' = 1 /\ components' = {} /\ detected' = {}
    /\ UNCHANGED <<tree_vars, plain, withheld, restricted>>

-----------------------------------------------------------------------------
(* Mutant of FirstClaimed: parse_file gives no component for an excluded   *)
(* file.                                                                   *)
FirstReadable(cs, i) ==
    {f \in cs[i].files :
        /\ \A j \in 1..(i - 1) : cs[j].type = cs[i].type => f \notin cs[j].files
        /\ <<f, cs[i].type>> \notin Keys(components) /\ f \notin excluded}

(* seen_paths of a discoverer and _deduplicate_components: the first claim *)
(* on a file under a type is kept.                                         *)
FirstClaimed(cs, i) ==
    {f \in cs[i].files :
        /\ \A j \in 1..(i - 1) : cs[j].type = cs[i].type => f \notin cs[j].files
        /\ <<f, cs[i].type>> \notin Keys(components)}

New(cs) ==
    UNION {{[file |-> f, type |-> cs[i].type, tool |-> cs[i].tool] :
               f \in FirstClaimed(cs, i)} : i \in DOMAIN cs}

(* One discoverer.  An excluded file is not read: it shows none of the     *)
(* marks a discoverer looks for, and its component is an empty one.        *)
Discover ==
    /\ pc = "discover"
    /\ LET found == New(Claims(Registry[next]))
       IN  components' = components \cup found
    /\ IF next < Len(Registry)
       THEN next' = next + 1 /\ UNCHANGED pc
       ELSE pc' = "sweep" /\ UNCHANGED next
    /\ UNCHANGED <<tree_vars, inventory, detected, plain, withheld, restricted>>

(* _discover_uncategorized: below the directory of a known skill *)
InSkill(f, cs) ==
    \E c \in cs : c.type = "skill" /\ c.file.base = f.base /\ Begins(f.dir, c.file.dir)

Unclaimed(cs) == {f \in Candidates : f \notin FilesOf(cs) /\ ~InSkill(f, cs)}

AddUncategorized ==
    /\ pc = "sweep" /\ pc' = "bare"
    /\ LET rest == Unclaimed(components)
       IN  components' = components \cup
               {[file |-> f, type |-> "uncategorized", tool |-> None] : f \in rest}
    /\ UNCHANGED <<tree_vars, next, inventory, detected, plain, withheld, restricted>>

(* The SKILL.md of the root, when nothing else was found *)
AddBareSkill ==
    /\ pc = "bare" /\ pc' = "filter"
    /\ LET bare == IF components = {} THEN RootSkill \ excluded ELSE {}
       IN  components' = components \cup
               {[file |-> f, type |-> "skill", tool |-> "unknown"] : f \in bare}
    /\ UNCHANGED <<tree_vars, next, inventory, detected, plain, withheld, restricted>>

Filter ==
    /\ pc = "filter" /\ pc' = "detect"
    /\ components' = {c \in components : c.file \notin excluded}
    /\ UNCHANGED <<tree_vars, next, inventory, detected, plain, withheld, restricted>>

(***************************************************************************)
(* _detect_tools.  Detection does not know the exclude patterns any more:  *)
(* what fullsend's opens are the YAML files of harness/, excluded or not.  *)
(***************************************************************************)
HarnessContent(f) == f.content \in {"agent", "base", "broken"}

Detect ==
    /\ pc = "detect" /\ pc' = "done"
    /\ LET yaml == At(<<"harness">>, "*", Yaml)
           harnesses == {f \in yaml : HarnessContent(f)}
           tools == {d \in Range(Registry) \ {"fullsend"} : Detects(d)}
       IN  detected' = tools \cup (IF harnesses # {} THEN {"fullsend"} ELSE {})
    /\ plain' = IF recursive THEN plain ELSE components
    /\ UNCHANGED <<tree_vars, next, inventory, components, withheld, restricted>>

(* The same tree, now with --recursive *)
ScanRecursively ==
    /\ pc = "done" /\ ~recursive /\ withheld = {}
    /\ recursive' = TRUE /\ pc' = "inventory" /\ next' = 1
    /\ inventory' = {} /\ components' = {} /\ detected' = {}
    /\ UNCHANGED <<tree, above, excluded, plain, withheld, restricted>>

(* The same tree and --recursive as before, now without the patterns *)
WithdrawExcludes ==
    /\ pc = "done" /\ excluded # {}
    /\ excluded' = {} /\ withheld' = excluded /\ restricted' = components
    /\ pc' = "inventory" /\ next' = 1 /\ plain' = {}
    /\ inventory' = {} /\ components' = {} /\ detected' = {}
    /\ UNCHANGED <<tree, above, recursive>>

DiscoveryNext ==
    \/ CollectInventory \/ Discover \/ AddUncategorized \/ AddBareSkill
    \/ Filter \/ Detect \/ ScanRecursively \/ WithdrawExcludes

DiscoverySpec == DiscoveryInit /\ [][DiscoveryNext]_discoveryVars

-----------------------------------------------------------------------------
TypeOK ==
    /\ tree \in Trees /\ above \in Spellings /\ recursive \in BOOLEAN
    /\ excluded \subseteq tree
    /\ pc \in {"inventory", "discover", "sweep", "bare", "filter", "detect", "done"}
    /\ next \in DOMAIN Registry
    /\ inventory \subseteq tree
    /\ components \subseteq Component /\ plain \subseteq Component
    /\ withheld \subseteq tree /\ restricted \subseteq Component
    /\ detected \subseteq Range(Registry)

(* Components no collect_paths lists: nested ones that only the recursive  *)
(* search of copilot.py and windsurf.py knows; and the setup.sh of         *)
(* codex.py, which the sweep lists unless the root lies below a directory  *)
(* the sweep passes over.                                                  *)
Unlisted(f) ==
    \/ recursive /\ \/ Ends(f.dir, <<".github", "hooks">>)
                    \/ \E d \in WindsurfDirs : Ends(f.dir, <<d, "workflows">>)
    \/ above \cap {".git", "__pycache__"} # {} /\ f \in CodexSetup

(* Every component is in the inventory, so it is measured against the      *)
(* limits and part of the fingerprint (base.py collect_paths: "It must be  *)
(* a superset of the paths discover returns components for"), except those *)
(* of Unlisted.                                                            *)
InventoryCovers ==
    pc \in {"detect", "done"} =>
        \A c \in components : c.file \in inventory \/ Unlisted(c.file)

(* Two components may come up when others are excluded: a bare SKILL.md,   *)
(* when what is excluded could not be seen to be an agent, a harness or a  *)
(* configuration and so claimed nothing; and the servers of                *)
(* opencode.jsonc, which the discoverer leaves alone while it sees some in *)
(* opencode.json.                                                          *)
ComesUp(c) ==
    c.tool = "unknown" \/ (c.type = "mcp_config" /\ c.file \in OpenCodeConfigs)

(* An exclude pattern takes the files it matches out of the setup and      *)
(* changes nothing else: of the same tree without the patterns the scan    *)
(* finds the same components and those of the excluded files, under the    *)
(* same types and tools, except those of ComesUp.  The claim of a file     *)
(* that is not opened still has to keep others from claiming it and its    *)
(* directory from being swept (setup.py: "The post-filter drops dummy      *)
(* components").                                                           *)
ExcludesTakeOnlyTheirFiles ==
    pc = "done" /\ withheld # {} =>
        /\ \A c \in components : c.file \in withheld \/ c \in restricted
        /\ \A c \in restricted :
              c.file \notin withheld /\ (c \in components \/ ComesUp(c))

(* The directories that belong to one tool. *)
Owner == [claude |-> ".claude", cursor |-> ".cursor", gemini |-> ".gemini",
          opencode |-> ".opencode", codex |-> ".codex", cline |-> ".cline",
          windsurf |-> ".windsurf", copilot |-> ".github"]

(* A directory of some tool inside of another one's. *)
NestedTool(f) ==
    \E i \in 2 .. Len(f.dir) : f.dir[i] \in SweptDirs \ {"skills", "commands"}

(* Rules are run per tool: a component in the directory of a tool, and not *)
(* in another one's inside of it, is never attributed to another tool,     *)
(* although several discoverers read the same directory, and a scan of the *)
(* root alone names its owner.                                             *)
OwnerIsAttributed ==
    \A c \in components : \A t \in DOMAIN Owner :
        /\ c.file.base = "root" /\ c.file.dir # <<>> /\ c.file.dir[1] = Owner[t]
        /\ ~NestedTool(c.file)
        /\ c.type \in {"skill", "command", "agent", "hooks", "config"}
        => c.tool = t \/ (recursive /\ c.tool = None)

(* --recursive only adds: what a tool's discoverer found at the root is    *)
(* found again under the same type (docs/INSTALL.md, Recursive); except a  *)
(* bare SKILL.md, which stops being a component once anything else is one. *)
RecursiveKeeps ==
    pc = "done" /\ recursive =>
        \A c \in plain : c.type # "uncategorized" /\ c.tool # "unknown" =>
            <<c.file, c.type>> \in Keys(components)
=============================================================================
