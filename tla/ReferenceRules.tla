--------------------------- MODULE ReferenceRules ---------------------------
(***************************************************************************)
(* The rules about references between components: circular-references      *)
(* with its search over names, duplicate-skill-id, the rules on skills     *)
(* that agents and commands name (inspection/rules/content, cross, agents, *)
(* commands and _component_index.py), and the dependency map of            *)
(* analysis/dependencies.py, which answers one of their questions again.   *)
(***************************************************************************)
EXTENDS Naturals, Sequences, SequencesExt, FiniteSets, FiniteSetsExt

CONSTANTS
    Linted,    \* the components in the order they are linted: by kind
    Kind,      \* Kind[c]: "skill", "command" or "agent"
    DirName,   \* DirName[c]: directory of a skill, file name of the others
    OwnPlugin, \* plugin the repository is
    Texts      \* what the tree may say

LintedComps == Range(Linted)

ASSUME RefConstants ==
    /\ Linted \in Seq(LintedComps) /\ IsFiniteSet(LintedComps)
    /\ \A i, j \in DOMAIN Linted : Linted[i] = Linted[j] => i = j
    /\ Kind \in [LintedComps -> {"skill", "command", "agent"}]
    /\ DOMAIN DirName = LintedComps
    /\ \A i, j \in DOMAIN Linted :
          Kind[Linted[i]] = "agent" /\ Kind[Linted[j]] # "agent" => j < i
    /\ \A i, j \in DOMAIN Linted :
          Kind[Linted[i]] = "command" /\ Kind[Linted[j]] = "skill" => j < i
    /\ \A t \in Texts, c \in LintedComps :
          Kind[c] = "agent" => \A r \in t.listed[c] : r.plain => Cardinality(r.fits) = 1

(***************************************************************************)
(* A text: bodies (components that have one), refs (extract_references of  *)
(* a body, own name left out), raw (class of equal contents), declared     *)
(* (frontmatter names), listed (references in an agent's frontmatter),     *)
(* invoked (names a command's own patterns find and Claude Code does not   *)
(* have itself), and of the tree: spare (names of SKILL.md files discovery *)
(* does not lint, by directory and by frontmatter), agents and commands    *)
(* (names of such files anywhere), buried (the checkout lies below a       *)
(* directory called build, dist, venv ...), submodule (skills come with a  *)
(* git submodule that is not there).                                       *)
(* A reference is [plugin, fits, plain]: a glob fits several names, a      *)
(* plain one is a single name; "" is what a trailing comma leaves.         *)
(***************************************************************************)
VARIABLES
    text,     \* one of Texts
    next,     \* position in Linted of the component being linted
    search,   \* circular_refs_checked: "idle", "run", "done"
    seen,     \* visited
    path,     \* path; on_stack is the set of its names
    left,     \* left[k]: neighbours of path[k] the loop has still to try
    cycles,   \* cycles found, each a sequence of names without the repetition
    marked,   \* duplicate_skill_id_checked
    index,    \* artifacts.component_index: <<>> or the index
    raised

refVars == <<text, next, search, seen, path, left, cycles, marked, index, raised>>
dfsVars == <<search, seen, path, left, cycles>>

-----------------------------------------------------------------------------
OfKind(kind) == {c \in LintedComps : Kind[c] = kind}
LintedSkills == OfKind("skill")

(* The components that write to the dictionary of references. *)
Writers == (OfKind("skill") \cup OfKind("command")) \cap text.bodies
GraphNames == {DirName[c] : c \in Writers}

(* The last component of a name is the one whose references count. *)
Places(n) == {i \in DOMAIN Linted : Linted[i] \in Writers /\ DirName[Linted[i]] = n}
Writer(n) == Linted[Max(Places(n))]
Neighbours(n) == text.refs[Writer(n)] \cap GraphNames

(* Names keep the place of their first writer. *)
Place(n) == Min(Places(n))
FirstOf(names) == CHOOSE n \in names : \A m \in names : Place(n) <= Place(m)

-----------------------------------------------------------------------------
LintedCommands == {DirName[c] : c \in OfKind("command")}

(* Mutant of IndexFor: frontmatter names of linted skills are not collected. *)
IndexOfDirectories(commands) ==
    [skills |-> {DirName[c] : c \in LintedSkills} \cup (IF text.buried THEN {} ELSE text.spare),
     commands |-> commands \cup (IF text.buried THEN {} ELSE text.commands),
     agents |-> IF text.buried THEN {} ELSE text.agents,
     plugins |-> IF text.buried THEN {} ELSE {OwnPlugin}]

(* component_index: the names the rule that asks first was given, and those *)
(* a walk over the tree finds; a buried checkout is skipped whole.          *)
IndexFor(commands) ==
    [skills |-> {DirName[c] : c \in LintedSkills}
                \cup (UNION {text.declared[c] : c \in LintedSkills})
                \cup (IF text.buried THEN {} ELSE text.spare),
     commands |-> commands \cup (IF text.buried THEN {} ELSE text.commands),
     agents |-> IF text.buried THEN {} ELSE text.agents,
     plugins |-> IF text.buried THEN {} ELSE {OwnPlugin}]

(* It is built once per scan. *)
Asked(commands) == IF index = <<>> THEN <<IndexFor(commands)>> ELSE index

(* resolve_skill_reference *)
Missing(r, idx) ==
    /\ r.plugin = "" \/ r.plugin \in idx.plugins
    /\ r.fits \cap idx.skills = {}

(* A name a command invokes, as a reference. *)
Plain(n) == [plugin |-> "", fits |-> {n}, plain |-> TRUE]

(* analyze_dependencies: the skills that agents list, by directory only. *)
KnownSkills == {DirName[c] : c \in LintedSkills}
DependencyExists(r) == r.plugin = "" /\ r.plain /\ r.fits \subseteq KnownSkills
BrokenRefs ==
    UNION {{[agent |-> a, ref |-> r] :
              r \in {x \in text.listed[a] : x.fits # {""} /\ ~DependencyExists(x)}} :
           a \in OfKind("agent")}

-----------------------------------------------------------------------------
RefInit ==
    /\ text \in Texts /\ next = 1
    /\ search = "idle" /\ seen = {} /\ path = <<>> /\ left = <<>> /\ cycles = <<>>
    /\ marked = FALSE /\ index = <<>> /\ raised = {}

UpNext(kind) == next <= Len(Linted) /\ Kind[Linted[next]] = kind

(* The first skill makes the search for the whole scan. *)
StartSearch ==
    /\ UpNext("skill") /\ search = "idle" /\ search' = "run"
    /\ UNCHANGED <<text, next, seen, path, left, cycles, marked, index, raised>>

TakeRoot ==
    /\ search = "run" /\ path = <<>> /\ GraphNames \ seen # {}
    /\ LET n == FirstOf(GraphNames \ seen)
       IN  seen' = seen \cup {n} /\ path' = <<n>> /\ left' = <<Neighbours(n)>>
    /\ UNCHANGED <<text, next, search, cycles, marked, index, raised>>

(* The neighbours are a Python set: the loop takes them in any order. *)
Pending(n) == search = "run" /\ path # <<>> /\ n \in left[Len(path)]
Tried(n) == [left EXCEPT ![Len(path)] = @ \ {n}]

Descend(n) ==
    /\ Pending(n) /\ n \notin seen
    /\ seen' = seen \cup {n}
    /\ path' = Append(path, n) /\ left' = Append(Tried(n), Neighbours(n))
    /\ UNCHANGED <<text, next, search, cycles, marked, index, raised>>

Index(n) == CHOOSE i \in DOMAIN path : path[i] = n

(* Mutant of Cycle: the name at which the cycle closes is cut off. *)
CycleShort(n) == SubSeq(path, Index(n) + 1, Len(path))

(* path[cycle_start:], without the repetition of its first name. *)
Cycle(n) == SubSeq(path, Index(n), Len(path))

Revisit(n) ==
    /\ Pending(n) /\ n \in seen
    /\ left' = Tried(n)
    /\ cycles' = IF n \in Range(path) THEN Append(cycles, Cycle(n)) ELSE cycles
    /\ UNCHANGED <<text, next, search, seen, path, marked, index, raised>>

Leave ==
    /\ search = "run" /\ path # <<>> /\ left[Len(path)] = {}
    /\ path' = Front(path) /\ left' = Front(left)
    /\ UNCHANGED <<text, next, search, seen, cycles, marked, index, raised>>

(* Cycles over the same names are reported once. *)
ReportCycles ==
    /\ search = "run" /\ path = <<>> /\ GraphNames \subseteq seen
    /\ search' = "done"
    /\ raised' = raised \cup
         {[cycle |-> cycles[i]] :
            i \in {j \in DOMAIN cycles : \A h \in 1 .. j - 1 : Range(cycles[h]) # Range(cycles[j])}}
    /\ UNCHANGED <<text, next, seen, path, left, cycles, marked, index>>

(* duplicate-skill-id: groups of skills of one directory name. *)
DuplicatesOf(n) ==
    LET group == {c \in LintedSkills : DirName[c] = n}
    IN  IF Cardinality(group) < 2 THEN {}
        ELSE {[duplicate |-> n, divergent |-> Cardinality({text.raw[c] : c \in group}) > 1]}
Duplicates == UNION {DuplicatesOf(n) : n \in KnownSkills}

FindDuplicates ==
    /\ UpNext("skill") /\ ~marked /\ marked' = TRUE
    /\ raised' = raised \cup Duplicates
    /\ UNCHANGED <<text, next, dfsVars, index>>

LintedSkill ==
    /\ UpNext("skill") /\ search = "done" /\ marked
    /\ next' = next + 1 /\ UNCHANGED <<text, dfsVars, marked, index, raised>>

(* A slash name may be an agent or a command as well. *)
CheckCommand ==
    /\ UpNext("command") /\ next' = next + 1
    /\ LET c == Linted[next]  idx == Asked(LintedCommands)[1] IN
       IF c \notin text.bodies \/ LintedSkills = {} THEN UNCHANGED <<index, raised>>
       ELSE /\ index' = <<idx>>
            /\ raised' = raised \cup
                 {[command |-> c, name |-> n] :
                    n \in {m \in text.invoked[c] :
                             /\ m # DirName[c]
                             /\ m \notin idx.agents \cup idx.commands
                             /\ Missing(Plain(m), idx)}}
    /\ UNCHANGED <<text, dfsVars, marked>>

(* lint_agent is given the skills, not the commands. *)
CheckAgent ==
    /\ UpNext("agent") /\ next' = next + 1
    /\ LET a == Linted[next]  idx == Asked({})[1] IN
       IF text.listed[a] = {} THEN UNCHANGED <<index, raised>>
       ELSE /\ index' = <<idx>>
            /\ raised' = raised \cup
                 {[agent |-> a, ref |-> r] :
                    r \in {x \in text.listed[a] : ~text.submodule /\ Missing(x, idx)}}
    /\ UNCHANGED <<text, dfsVars, marked>>

RefNext ==
    \/ StartSearch \/ TakeRoot \/ (\E n \in GraphNames : Descend(n) \/ Revisit(n)) \/ Leave
    \/ ReportCycles \/ FindDuplicates \/ LintedSkill \/ CheckCommand \/ CheckAgent

RefSpec == RefInit /\ [][RefNext]_refVars

-----------------------------------------------------------------------------
(* References as the texts have them: from any component of a name.        *)
RefersTo(n) == {m \in GraphNames : \E c \in Writers : DirName[c] = n /\ m \in text.refs[c]}

(* Names a chain of one or more references leads to. *)
Leads(n) ==
    {m \in GraphNames : \A S \in SUBSET GraphNames :
        RefersTo(n) \subseteq S /\ (\A x \in S : RefersTo(x) \subseteq S) => m \in S}

Circle(n) == {m \in Leads(n) : n \in Leads(m)}
Shared(n) == \E c, d \in Writers : c # d /\ DirName[c] = n /\ DirName[d] = n

CycleReports == {r.cycle : r \in {x \in raised : "cycle" \in DOMAIN x}}
DuplicateReports == {r.duplicate : r \in {x \in raised : "duplicate" \in DOMAIN x}}

(***************************************************************************)
(* In whatever order the sets of references are walked: a reported cycle   *)
(* is one, told once, and every name that refers to itself over others is  *)
(* told of with some cycle of its circle, unless components share a name   *)
(* of that circle; if these are skills only, duplicate-skill-id tells.     *)
(***************************************************************************)
CyclesReported ==
    next > Len(Linted) /\ LintedSkills # {} =>
      /\ \A s \in CycleReports :
           /\ \A i, j \in DOMAIN s : s[i] = s[j] => i = j
           /\ \A i \in DOMAIN s : s[(i % Len(s)) + 1] \in Neighbours(s[i])
           /\ \A t \in CycleReports : Range(s) = Range(t) => s = t
      /\ \A n \in GraphNames : n \in Leads(n) =>
           \/ \E s \in CycleReports : Range(s) \subseteq Circle(n)
           \/ \E m \in Circle(n) :
                /\ Shared(m)
                /\ m \in DuplicateReports \cup LintedCommands

(***************************************************************************)
(* Three parts of the program decide whether a named skill exists.  What a *)
(* rule calls missing is no linted skill by any of its names and is broken *)
(* in the dependency map too (so no edge of the component graph leads to   *)
(* it); a name a command invokes is nothing of the tree either.  Except:   *)
(* in a buried checkout what is not linted is called missing, a trailing   *)
(* comma names a missing skill "".  The index keeps what its first asker   *)
(* knew, and agents know no commands: commands must be linted first.       *)
(***************************************************************************)
MissingIsAbsent ==
    \A r \in raised :
      /\ "agent" \in DOMAIN r =>
           /\ r.ref.fits # {""} => [agent |-> r.agent, ref |-> r.ref] \in BrokenRefs
           /\ r.ref.fits \cap UNION {text.declared[c] : c \in LintedSkills} = {}
      /\ "command" \in DOMAIN r =>
           /\ r.name \notin KnownSkills \cup UNION {text.declared[c] : c \in LintedSkills}
           /\ r.name \notin LintedCommands
           /\ ~text.buried => r.name \notin text.agents \cup text.commands \cup text.spare

=============================================================================
