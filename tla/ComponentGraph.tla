--------------------------- MODULE ComponentGraph ---------------------------
(***************************************************************************)
(* analysis/component_graph.py build_component_graph and analysis/         *)
(* reachability.py compute_reachability: the graph of the components of a  *)
(* setup, and the reachability verdict that inspect_setup attaches to each *)
(* security finding, looked up by the path of the finding's file.          *)
(***************************************************************************)
EXTENDS Naturals, Sequences, FiniteSets, FiniteSetsExt

CONSTANTS
    Comps,    \* components of the setup, by the path of their file
    Names,    \* component names, directory names and file stems
    Type,     \* Type[c] \in Types
    Name,     \* Name[c]: dir_name, agent file name, "hooks", or MCP server
    Parent,   \* Parent[c]: name of the directory that holds the file
    Stem,     \* Stem[c]: file name without suffix
    Contents  \* what the files may say (see Content)

Types == {"skill", "command", "agent", "hooks", "mcp"}

(***************************************************************************)
(* refs[c]: names the body of c refers to (for hooks: mentions); listed[c]: *)
(* skills named in an agent's frontmatter; calls[c]: MCP servers whose      *)
(* tools a skill calls; described: skills that have a description.          *)
(***************************************************************************)
Content == [refs : [Comps -> SUBSET Names], listed : [Comps -> SUBSET Names],
            calls : [Comps -> SUBSET Names], described : SUBSET Comps]

ASSUME GraphConstants ==
    /\ IsFiniteSet(Comps)
    /\ Type \in [Comps -> Types]
    /\ Name \in [Comps -> Names] /\ Parent \in [Comps -> Names]
    /\ Stem \in [Comps -> Names]
    /\ Contents \subseteq Content
    /\ "hooks" \in Names
    /\ \A c \in Comps : Type[c] = "hooks" => Name[c] = "hooks"

VARIABLES
    pc,       \* "build", "built", "done"
    content,  \* what the files say
    todo,     \* components without a node yet
    table,    \* graph.nodes, in insertion order
    edges,    \* graph.edges
    verdict   \* verdict[c]: reachability of a finding located in c

vars == <<pc, content, todo, table, edges, verdict>>

-----------------------------------------------------------------------------
Explicit == 100
Inferred == 35

(***************************************************************************)
(* Keys of graph.nodes: a skill's name carries no prefix, a hooks node is  *)
(* keyed by its file.                                                      *)
(***************************************************************************)
Keys == ({"", "cmd", "agent", "mcp"} \X Names) \cup ({"hooks"} \X Comps)

(* Mutant of SkillKey: references are keyed with a prefix. *)
SkillKeyPrefixed(n) == <<"skill", n>>

SkillKey(n) == <<"", n>>
Prefix == [t \in Types \ {"hooks"} |->
               IF t = "skill" THEN "" ELSE IF t = "command" THEN "cmd" ELSE t]

KeyOf(c) == IF Type[c] = "hooks" THEN <<"hooks", c>>
            ELSE <<Prefix[Type[c]], Name[c]>>

Node(c) == [key |-> KeyOf(c), file |-> c]

(* A Python dict: writing to an existing key keeps its place. *)
Insert(t, node) ==
    IF \E i \in DOMAIN t : t[i].key = node.key
    THEN [i \in DOMAIN t |-> IF t[i].key = node.key THEN node ELSE t[i]]
    ELSE Append(t, node)

InsertIfNew(t, node) ==
    IF \E i \in DOMAIN t : t[i].key = node.key THEN t ELSE Append(t, node)

NodeKeys == {table[i].key : i \in DOMAIN table}

Skills == {c \in Comps : Type[c] = "skill"}
SkillNames == {Name[c] : c \in Skills}

Edge(from, to, confidence) ==
    [source |-> from, target |-> to, confidence |-> confidence]

(* References lead to skills and MCP servers only. *)
Edges == [source : Keys, target : {"", "mcp"} \X Names,
          confidence : {Explicit, Inferred}]

EdgesTo(c, names, confidence) ==
    {Edge(KeyOf(c), SkillKey(n), confidence) : n \in names \cap SkillNames}

(* Mutant of SkillRefs: a reference to any name becomes an edge. *)
AnyRefs(c) == {Edge(KeyOf(c), SkillKey(n), Explicit) : n \in content.refs[c] \ {Name[c]}}

(* extract_references leaves out the component's own name. *)
SkillRefs(c) == EdgesTo(c, content.refs[c] \ {Name[c]}, Explicit)

(* Tools of configured MCP servers that a skill calls. *)
McpUses(c) ==
    {Edge(KeyOf(c), <<"mcp", n>>, Explicit) :
        n \in {m \in content.calls[c] : <<"mcp", m>> \in NodeKeys}}

SkillLinks(c) == SkillRefs(c) \cup McpUses(c)

-----------------------------------------------------------------------------
Init ==
    /\ pc = "build" /\ content \in Contents /\ todo = Comps
    /\ table = <<>> /\ edges = {} /\ verdict = [c \in {} |-> {}]

Order == <<"skill", "command", "agent", "hooks", "mcp">>

(* c is of the type whose loop is running. *)
Turn(c, type) ==
    /\ pc = "build" /\ c \in todo /\ Type[c] = type
    /\ \A d \in todo : \E i, j \in DOMAIN Order :
          Order[i] = type /\ Order[j] = Type[d] /\ i <= j
    /\ todo' = todo \ {c}
    /\ UNCHANGED <<pc, content, verdict>>

AddSkill(c) ==
    /\ Turn(c, "skill")
    /\ table' = Insert(table, Node(c))
    /\ UNCHANGED edges

AddCommand(c) ==
    /\ Turn(c, "command")
    /\ table' = Insert(table, Node(c))
    /\ edges' = edges \cup SkillRefs(c)

AddAgent(c) ==
    /\ Turn(c, "agent")
    /\ table' = Insert(table, Node(c))
    /\ edges' = edges \cup SkillRefs(c)
                      \cup EdgesTo(c, content.listed[c], Explicit)

AddHooks(c) ==
    /\ Turn(c, "hooks")
    /\ table' = Insert(table, Node(c))
    /\ edges' = edges \cup EdgesTo(c, content.refs[c], Inferred)

(* One server of one MCP configuration. *)
AddMcpConfig(c) ==
    /\ Turn(c, "mcp")
    /\ table' = InsertIfNew(table, Node(c))
    /\ UNCHANGED edges

(***************************************************************************)
(* The skill bodies: references to other skills and calls of configured    *)
(* MCP servers.  (The code reads the references before the hooks; the      *)
(* order of the edge list is of no consequence, see GraphWalk.)            *)
(***************************************************************************)
LinkSkills ==
    /\ pc = "build" /\ todo = {} /\ pc' = "built"
    /\ edges' = edges \cup UNION {SkillLinks(c) : c \in Skills}
    /\ UNCHANGED <<content, todo, table, verdict>>

-----------------------------------------------------------------------------
(* reachable_from(k, min_confidence), and k itself: what GraphWalk computes. *)
ClosedKeys(S, confidence) ==
    \A e \in edges : e.confidence >= confidence /\ e.source \in S => e.target \in S
ReachableFrom(k, confidence) ==
    {n \in NodeKeys : \A S \in SUBSET NodeKeys : k \in S /\ ClosedKeys(S, confidence) => n \in S}

Named(node) == Name[node.file]

(* The first node of the table whose name or file fits the path of c. *)
Fits(node, c) ==
    \/ Named(node) \in {Parent[c], Stem[c]}
    \/ node.file = c

Hits(c) == {i \in DOMAIN table : Fits(table[i], c)}
FoundNode(c) == table[Min(Hits(c))]

(* Mutant of LookupKey: MCP servers are looked up without their prefix. *)
LookupKeyBare(node) ==
    IF Type[node.file] \in {"hooks", "mcp"} THEN SkillKey(Named(node))
    ELSE <<Prefix[Type[node.file]], Named(node)>>

(* The key compute_reachability asks for: hooks have no case of their own. *)
LookupKey(node) ==
    IF Type[node.file] = "hooks" THEN SkillKey(Named(node))
    ELSE <<Prefix[Type[node.file]], Named(node)>>

(* edges_to with min_confidence 0. *)
Incoming(k) == {e \in edges : e.target = k}

Described(node) ==
    /\ Type[node.file] = "skill"
    /\ \E s \in content.described : Type[s] = "skill" /\ Name[s] = Named(node)

Result(reachable, breadth, evidence) ==
    [reachable |-> reachable, breadth |-> breadth, evidence |-> evidence]

Reachability(c) ==
    LET node == FoundNode(c)
        key == LookupKey(node)
        incoming == Incoming(key)
    IN  IF Hits(c) = {} THEN Result(TRUE, "unknown", "none")
        ELSE IF incoming # {} THEN
            IF \A e \in incoming : e.confidence = Inferred
            THEN Result(TRUE, "unknown", "inferred")
            ELSE Result(TRUE, "broad", "explicit")
        ELSE IF Described(node) THEN Result(TRUE, "described", "description")
        ELSE IF \E k \in NodeKeys : key \in ReachableFrom(k, 0) \ {k}
             THEN Result(TRUE, "unknown", "transitive")
             ELSE Result(FALSE, "unknown", "none")

(* inspect_setup annotates the security and cross-component findings. *)
Annotate ==
    /\ pc = "built" /\ pc' = "done"
    /\ verdict' = [c \in Comps |-> Reachability(c)]
    /\ UNCHANGED <<content, todo, table, edges>>

Next ==
    \/ \E c \in Comps : \/ AddSkill(c) \/ AddCommand(c) \/ AddAgent(c)
                        \/ AddHooks(c) \/ AddMcpConfig(c)
    \/ LinkSkills \/ Annotate

Spec == Init /\ [][Next]_vars

-----------------------------------------------------------------------------
Verdicts == [reachable : BOOLEAN, breadth : {"unknown", "broad", "described"},
             evidence : {"none", "inferred", "explicit", "description",
                         "transitive"}]

(* Every variable keeps its type: keys of nodes are those a component may  *)
(* have, and a verdict is one of the forms of ReachabilityResult.          *)
TypeOK ==
    /\ pc \in {"build", "built", "done"}
    /\ content \in Contents
    /\ todo \subseteq Comps
    /\ table \in Seq([key : Keys, file : Comps])
    /\ edges \subseteq Edges
    /\ \A c \in DOMAIN verdict : c \in Comps /\ verdict[c] \in Verdicts

(***************************************************************************)
(* No edge dangles: both ends of every edge are nodes once the graph is    *)
(* built, although the ends come from free text and the nodes from files   *)
(* (the loops of build_component_graph test names against skill_names and  *)
(* graph.nodes).  A dangling end would make a component reachable through  *)
(* something that does not exist.                                          *)
(***************************************************************************)
EdgesJoinNodes ==
    pc # "build" => \A e \in edges : {e.source, e.target} \subseteq NodeKeys

(***************************************************************************)
(* The walk over the whole graph never decides a verdict: whoever can be   *)
(* reached from another node has an incoming edge, and was answered by it  *)
(* (compute_reachability, the loop after the description case).            *)
(***************************************************************************)
IncomingDecides ==
    \A c \in DOMAIN verdict : verdict[c].evidence # "transitive"

Triggers == {KeyOf(c) : c \in {d \in Comps : Type[d] \in {"command", "agent", "hooks"}}}

(* The lookup finds the node of the file itself. *)
Own(c) == Hits(c) # {} /\ FoundNode(c).file = c

(***************************************************************************)
(* A component reported unreachable, when it was looked up as itself, is   *)
(* one that no command, agent or hook leads to and that has no description *)
(* to trigger it: the annotation never plays down a live component.        *)
(***************************************************************************)
UnreachableIsUntriggered ==
    \A c \in DOMAIN verdict :
        Own(c) /\ ~verdict[c].reachable =>
            /\ ~(Type[c] = "skill" /\ c \in content.described)
            /\ \A t \in Triggers \ {KeyOf(c)} : KeyOf(c) \notin ReachableFrom(t, 0)

-----------------------------------------------------------------------------
(* What GraphProofs shows by induction: beside the types, every   *)
(* component that was handled has its key, and no edge ever dangles.       *)
HandledHaveKeys == \A c \in Comps \ todo : KeyOf(c) \in NodeKeys

NoDanglingEdge == \A e \in edges : {e.source, e.target} \subseteq NodeKeys

VerdictsHold ==
    /\ pc \in {"built", "done"} => todo = {}
    /\ pc = "done" => verdict = [c \in Comps |-> Reachability(c)]
    /\ pc # "done" => DOMAIN verdict = {}

GraphInv == TypeOK /\ HandledHaveKeys /\ NoDanglingEdge /\ VerdictsHold

=============================================================================
