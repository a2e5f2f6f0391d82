----------------------------- MODULE GraphProofs -----------------------------
(***************************************************************************)
(* The graphs between the components of a setup, for every setup.          *)
(*                                                                         *)
(* GraphWalk: reachable_from returns the reachable nodes, for every edge   *)
(* list, start and threshold.  Nothing unreachable is ever pushed (Sound), *)
(* and the visited nodes are closed up to what the stack and the rest of   *)
(* the edge list still hold (Complete); with the stack empty they are      *)
(* closed, so they contain the least closed set.                           *)
(*                                                                         *)
(* ComponentGraph: no edge dangles, the walk over the whole graph never    *)
(* decides a reachability verdict, and nothing that a command, an agent or *)
(* a hook leads to is reported unreachable.  CrossComponentFlow: the rule  *)
(* that walks the graph leaves it alone, so all this holds of the two      *)
(* together; it misses no chain to the network, and what it says of        *)
(* unknown MCP servers is exact.                                           *)
(*                                                                         *)
(* ReferenceRules: what the rules call missing is missing, and the search  *)
(* for circular references tells of every circle of names.  Names left by  *)
(* the search can be peeled off one by one once the references that close  *)
(* a recorded cycle are taken away (Peeled), so no circle remains unseen.  *)
(***************************************************************************)
EXTENDS CrossComponentFlow, GraphWalk, ReferenceRules, FiniteSetTheorems, SequenceTheorems,
        WellFoundedInduction, TLAPS

-----------------------------------------------------------------------------
(* GraphWalk.                                                              *)

(* The start is reachable, and a step from a reachable node stays within.  *)
LEMMA ReachableClosed ==
    ASSUME start \in Nodes
    PROVE  start \in Reachable /\ Closed(Reachable)
BY DEF Reachable, Closed

(* Whatever is closed and holds the start holds every reachable node.      *)
LEMMA ReachableLeast ==
    ASSUME NEW S \in SUBSET Nodes, start \in S, Closed(S)
    PROVE  Reachable \subseteq S
BY DEF Reachable

(* The graph of the call does not change, and what it reaches neither.     *)
LEMMA ReachableStable ==
    ASSUME UNCHANGED input
    PROVE  Reachable' = Reachable
BY DEF Reachable, Closed, Step, input

(* What is on the stack once its top is taken off, or a node is added.     *)
LEMMA StackFacts ==
    ASSUME stack \in Seq(Nodes)
    PROVE  /\ stack # <<>> => /\ Top \in Nodes
                              /\ Rest \in Seq(Nodes)
                              /\ {Rest[j] : j \in DOMAIN Rest} \subseteq OnStack
                              /\ OnStack \subseteq
                                     {Rest[j] : j \in DOMAIN Rest} \cup {Top}
                              /\ Top \in OnStack
           /\ stack = <<>> => OnStack = {}
           /\ \A n \in Nodes :
                 LET longer == Append(stack, n)
                 IN  /\ longer \in Seq(Nodes)
                     /\ {longer[j] : j \in DOMAIN longer} = OnStack \cup {n}
<1>1. ASSUME stack # <<>>
      PROVE  /\ Top \in Nodes /\ Rest \in Seq(Nodes)
             /\ {Rest[j] : j \in DOMAIN Rest} \subseteq OnStack
             /\ OnStack \subseteq {Rest[j] : j \in DOMAIN Rest} \cup {Top}
             /\ Top \in OnStack
  <2>1. Len(stack) \in Nat \ {0} /\ DOMAIN stack = 1..Len(stack)
    BY <1>1
  <2>2. /\ Rest \in Seq(Nodes) /\ Len(Rest) = Len(stack) - 1
        /\ DOMAIN Rest = 1..(Len(stack) - 1)
        /\ \A j \in 1..(Len(stack) - 1) : Rest[j] = stack[j]
    BY <2>1 DEF Rest
  <2>3. \A j \in DOMAIN stack : j = Len(stack) \/ j \in DOMAIN Rest
    BY <2>1, <2>2
  <2>4. DOMAIN Rest \subseteq DOMAIN stack
    BY <2>1, <2>2
  <2> QED
    BY <2>1, <2>2, <2>3, <2>4 DEF Top, OnStack
<1>2. ASSUME stack = <<>> PROVE OnStack = {}
  BY <1>2 DEF OnStack
<1>3. ASSUME NEW n \in Nodes
      PROVE  LET longer == Append(stack, n)
             IN  /\ longer \in Seq(Nodes)
                 /\ {longer[j] : j \in DOMAIN longer} = OnStack \cup {n}
  <2> DEFINE longer == Append(stack, n)
  <2>1. /\ longer \in Seq(Nodes)
        /\ DOMAIN longer = DOMAIN stack \cup {Len(stack) + 1}
        /\ longer[Len(stack) + 1] = n
        /\ \A j \in DOMAIN stack : longer[j] = stack[j]
    OBVIOUS
  <2> HIDE DEF longer
  <2>2. {longer[j] : j \in DOMAIN longer} = OnStack \cup {n}
    BY <2>1 DEF OnStack
  <2> QED
    BY <2>1, <2>2 DEF longer
<1> QED
  BY <1>1, <1>2, <1>3

-----------------------------------------------------------------------------
(* The invariant holds when the call begins.                               *)
LEMMA InitWalkInv == WalkInit => WalkInv
<1> SUFFICES ASSUME WalkInit PROVE WalkInv
  OBVIOUS
<1>1. WalkTypes
  BY WalkConstants DEF WalkInit, WalkTypes
<1>2. OnStack = {start}
  BY DEF WalkInit, OnStack
<1>3. Sound
  BY <1>1, <1>2, ReachableClosed DEF WalkInit, Sound, WalkTypes
<1>4. Complete
  BY <1>2 DEF WalkInit, Complete
<1> QED
  BY <1>1, <1>3, <1>4 DEF WalkInit, WalkInv, ReturnsReachable

(* Every step of the call keeps it.                                        *)
LEMMA StepWalkInv == WalkInv /\ [WalkNext]_walkVars => WalkInv'
<1> SUFFICES ASSUME WalkInv, [WalkNext]_walkVars PROVE WalkInv'
  OBVIOUS
<1> USE DEF WalkInv
<1>0. UNCHANGED input
  BY DEF WalkNext, Pop, Examine, EndOfEdges, Return, walkVars, input
<1>1. Reachable' = Reachable
  BY <1>0, ReachableStable
<1>2. CASE Pop
  <2>1. WalkTypes'
    BY <1>2, StackFacts DEF Pop, WalkTypes, input
  <2>2. /\ OnStack' \subseteq OnStack
        /\ OnStack \subseteq OnStack' \cup {Top}
        /\ Top \in OnStack
    BY <1>2, StackFacts, ZenonT(30) DEF Pop, WalkTypes, OnStack
  <2>3. Sound'
    BY <1>1, <1>2, <2>2 DEF Pop, Sound
  <2>4. Top \in visited' /\ visited \subseteq visited'
    BY <1>2 DEF Pop
  <2>5. visited \cup OnStack \subseteq visited' \cup OnStack'
    BY <2>2, <2>4
  <2>6. Complete'
    <3>1. start' \in visited' \cup OnStack'
      BY <1>2, <2>5 DEF Pop, Complete, input
    <3>2. ASSUME NEW k \in DOMAIN arcs,
                 arcs[k].source \in visited', arcs[k].confidence >= minimum
          PROVE  \/ arcs[k].target \in visited' \cup OnStack'
                 \/ walk' = "edges" /\ arcs[k].source = current' /\ k >= at'
      <4>1. CASE arcs[k].source \in visited
        BY <1>2, <2>5, <3>2, <4>1 DEF Pop, Complete
      <4>2. CASE arcs[k].source \notin visited
        <5>1. walk' = "edges" /\ current' = Top /\ at' = 1
              /\ arcs[k].source = Top
          BY <1>2, <3>2, <4>2 DEF Pop
        <5>2. k >= 1
          BY DEF WalkTypes
        <5> QED
          BY <5>1, <5>2
      <4> QED
        BY <4>1, <4>2
    <3> QED
      BY <1>0, <3>1, <3>2 DEF Complete, input
  <2>7. ReturnsReachable'
    BY <1>2 DEF Pop, ReturnsReachable
  <2> QED
    BY <2>1, <2>3, <2>6, <2>7
<1>3. CASE Examine
  <2> DEFINE e == arcs[at]
  <2>1. at \in DOMAIN arcs /\ e \in WalkEdge
    BY <1>3 DEF Examine, WalkTypes
  <2> DEFINE longer == Append(stack, e.target)
  <2>a. e.target \in Nodes
    BY <2>1 DEF WalkEdge
  <2>b. /\ longer \in Seq(Nodes)
        /\ {longer[j] : j \in DOMAIN longer} = OnStack \cup {e.target}
    BY <2>a, StackFacts DEF WalkTypes
  <2>c. stack' = IF Follows(e) THEN longer ELSE stack
    BY <1>3 DEF Examine
  <2> HIDE DEF longer
  <2>2. WalkTypes'
    <3>1. stack' \in Seq(Nodes)
      BY <2>b, <2>c DEF WalkTypes
    <3>2. at' \in 1..(Len(arcs') + 1)
      BY <1>3, <2>1 DEF Examine, WalkTypes, input
    <3> QED
      BY <1>3, <3>1, <3>2 DEF Examine, WalkTypes, input
  <2>3. OnStack' = IF Follows(e) THEN OnStack \cup {e.target} ELSE OnStack
    BY <2>b, <2>c DEF OnStack
  <2>4. Sound'
    <3>1. ASSUME Follows(e) PROVE e.target \in Reachable
      <4>1. Step(current, e.target) /\ current \in Reachable
        BY <1>3, <2>1, <3>1 DEF Examine, Follows, Step, Sound
      <4> QED
        BY <2>1, <4>1, ReachableClosed DEF Closed, WalkEdge, WalkTypes
    <3> QED
      BY <1>1, <1>3, <2>3, <3>1 DEF Examine, Sound
  <2>5. Complete'
    <3>1. start' \in visited' \cup OnStack'
      BY <1>3, <2>3 DEF Examine, Complete, input
    <3>2. ASSUME NEW k \in DOMAIN arcs,
                 arcs[k].source \in visited', arcs[k].confidence >= minimum
          PROVE  \/ arcs[k].target \in visited' \cup OnStack'
                 \/ walk' = "edges" /\ arcs[k].source = current' /\ k >= at'
      <4>1. \/ arcs[k].target \in visited \cup OnStack
            \/ arcs[k].source = current /\ k >= at
        BY <1>3, <3>2 DEF Examine, Complete
      <4>2. CASE arcs[k].target \in visited \cup OnStack
        BY <1>3, <2>3, <4>2 DEF Examine
      <4>3. CASE arcs[k].source = current /\ k = at
        BY <1>3, <2>3, <3>2, <4>3 DEF Examine, Follows
      <4>4. CASE arcs[k].source = current /\ k >= at /\ k # at
        BY <1>3, <2>1, <4>4 DEF Examine, WalkTypes
      <4> QED
        BY <4>1, <4>2, <4>3, <4>4
    <3> QED
      BY <1>0, <3>1, <3>2 DEF Complete, input
  <2>6. ReturnsReachable'
    BY <1>3 DEF Examine, ReturnsReachable
  <2> QED
    BY <2>2, <2>4, <2>5, <2>6
<1>4. CASE EndOfEdges
  <2>1. WalkTypes'
    BY <1>4 DEF EndOfEdges, WalkTypes, input
  <2>2. OnStack' = OnStack
    BY <1>4 DEF EndOfEdges, OnStack
  <2>3. Sound'
    BY <1>1, <1>4, <2>2 DEF EndOfEdges, Sound
  <2>4. \A k \in DOMAIN arcs : ~(k >= at)
    BY <1>4 DEF EndOfEdges, WalkTypes
  <2>5. Complete'
    BY <1>4, <2>2, <2>4 DEF EndOfEdges, Complete, input
  <2>6. ReturnsReachable'
    BY <1>4 DEF EndOfEdges, ReturnsReachable
  <2> QED
    BY <2>1, <2>3, <2>5, <2>6
<1>5. CASE Return
  <2>1. WalkTypes'
    BY <1>5 DEF Return, WalkTypes, input
  <2>2. OnStack = {} /\ OnStack' = {}
    BY <1>5, StackFacts DEF Return, WalkTypes, OnStack
  <2>3. Sound'
    BY <1>1, <1>5, <2>2 DEF Return, Sound
  <2>4. start \in visited
    BY <1>5, <2>2 DEF Return, Complete
  <2>5. Closed(visited)
    <3> SUFFICES ASSUME NEW m \in visited, NEW n \in Nodes, Step(m, n)
                 PROVE  n \in visited
      BY DEF Closed
    <3>1. PICK k \in DOMAIN arcs :
             /\ arcs[k].source = m /\ arcs[k].target = n
             /\ arcs[k].confidence >= minimum
      BY DEF Step
    <3> QED
      BY <1>5, <2>2, <3>1 DEF Return, Complete
  <2>6. visited = Reachable
    BY <2>4, <2>5, ReachableLeast DEF Sound, WalkTypes
  <2>7. ReturnsReachable'
    BY <1>0, <1>1, <1>5, <2>6 DEF Return, ReturnsReachable, input
  <2>8. Complete'
    BY <1>5 DEF Return, Complete
  <2> QED
    BY <2>1, <2>3, <2>7, <2>8
<1>6. CASE UNCHANGED walkVars
  <2>1. OnStack' = OnStack
    BY <1>6 DEF walkVars, OnStack
  <2>2. WalkTypes' /\ ReturnsReachable'
    BY <1>1, <1>6 DEF walkVars, WalkTypes, ReturnsReachable
  <2>3. Sound'
    BY <1>1, <1>6, <2>1 DEF walkVars, Sound
  <2>4. Complete'
    BY <1>6, <2>1 DEF walkVars, Complete
  <2> QED
    BY <2>2, <2>3, <2>4
<1> QED
  BY <1>2, <1>3, <1>4, <1>5, <1>6 DEF WalkNext

(* The invariant of the walk: types, soundness, completeness so far.       *)
THEOREM WalkInductive == WalkSpec => []WalkInv
BY InitWalkInv, StepWalkInv, PTL DEF WalkSpec

(* reachable_from is correct on every graph: what it returns is what a     *)
(* path of sufficiently confident edges leads to, without the start.       *)
THEOREM WalkCorrect == WalkSpec => []ReturnsReachable
<1>1. WalkInv => ReturnsReachable
  BY DEF WalkInv
<1> QED
  BY <1>1, WalkInductive, PTL

-----------------------------------------------------------------------------
(* ComponentGraph.                                                         *)

KeysOf(t) == {t[i].key : i \in DOMAIN t}

NodeRecords == [key : Keys, file : Comps]

(* Keys of components are keys; a skill's is the one references use.       *)
LEMMA KeyFacts ==
    /\ \A c \in Comps : KeyOf(c) \in Keys /\ Node(c) \in NodeRecords
    /\ \A c \in Comps : Type[c] = "skill" => KeyOf(c) = SkillKey(Name[c])
<1>1. ASSUME NEW c \in Comps PROVE KeyOf(c) \in Keys
  <2>1. Type[c] \in Types /\ Name[c] \in Names
    BY GraphConstants
  <2>2. CASE Type[c] = "hooks"
    BY <2>2 DEF KeyOf, Keys
  <2>3. CASE Type[c] # "hooks"
    <3>1. Prefix[Type[c]] \in {"", "cmd", "agent", "mcp"}
      BY <2>1, <2>3 DEF Types, Prefix
    <3> QED
      BY <2>1, <2>3, <3>1 DEF KeyOf, Keys
  <2> QED
    BY <2>2, <2>3
<1>2. ASSUME NEW c \in Comps, Type[c] = "skill"
      PROVE  KeyOf(c) = SkillKey(Name[c])
  <2>1. "skill" \in Types \ {"hooks"}
    BY DEF Types
  <2>2. Prefix["skill"] = ""
    BY <2>1 DEF Prefix
  <2> QED
    BY <1>2, <2>2 DEF KeyOf, SkillKey
<1> QED
  BY <1>1, <1>2 DEF Node, NodeRecords

(* Both ways of writing to the table add the node's key and lose none.     *)
LEMMA InsertFacts ==
    ASSUME NEW t \in Seq(NodeRecords), NEW node \in NodeRecords
    PROVE  /\ Insert(t, node) \in Seq(NodeRecords)
           /\ InsertIfNew(t, node) \in Seq(NodeRecords)
           /\ KeysOf(Insert(t, node)) = KeysOf(t) \cup {node.key}
           /\ KeysOf(InsertIfNew(t, node)) = KeysOf(t) \cup {node.key}
<1> DEFINE longer == Append(t, node)
           changed == [i \in DOMAIN t |->
                          IF t[i].key = node.key THEN node ELSE t[i]]
<1>1. /\ longer \in Seq(NodeRecords)
      /\ DOMAIN longer = DOMAIN t \cup {Len(t) + 1}
      /\ longer[Len(t) + 1] = node
      /\ \A i \in DOMAIN t : longer[i] = t[i]
  OBVIOUS
<1>2. KeysOf(longer) = KeysOf(t) \cup {node.key}
  <2> HIDE DEF longer
  <2> QED
    BY <1>1 DEF KeysOf
<1>3. changed \in Seq(NodeRecords)
  <2>1. \A i \in DOMAIN t : t[i] \in NodeRecords
    OBVIOUS
  <2>2. DOMAIN t = 1..Len(t) /\ Len(t) \in Nat
    OBVIOUS
  <2>3. changed \in [1..Len(t) -> NodeRecords]
    BY <2>1, <2>2
  <2> QED
    BY <2>2, <2>3
<1>4. ASSUME \E i \in DOMAIN t : t[i].key = node.key
      PROVE  KeysOf(changed) = KeysOf(t) \cup {node.key}
  BY <1>4 DEF KeysOf
<1> QED
  BY <1>1, <1>2, <1>3, <1>4 DEF Insert, InsertIfNew, KeysOf

(* The edges made from references: typed, from c, to skills.               *)
LEMMA EdgeFacts ==
    ASSUME NEW c \in Comps, NEW names, NEW confidence \in {Explicit, Inferred}
    PROVE  /\ EdgesTo(c, names, confidence)
                 \subseteq Edges
           /\ \A e \in EdgesTo(c, names, confidence) :
                 e.source = KeyOf(c) /\ \E n \in SkillNames : e.target = SkillKey(n)
<1>1. SkillNames \subseteq Names
  BY GraphConstants DEF SkillNames, Skills
<1>2. ASSUME NEW n \in names \cap SkillNames
      PROVE  /\ Edge(KeyOf(c), SkillKey(n), confidence) \in Edges
             /\ Edge(KeyOf(c), SkillKey(n), confidence).source = KeyOf(c)
             /\ Edge(KeyOf(c), SkillKey(n), confidence).target = SkillKey(n)
  <2>1. SkillKey(n) \in {"", "mcp"} \X Names
    BY <1>1, <1>2 DEF SkillKey
  <2>2. KeyOf(c) \in Keys
    BY KeyFacts
  <2> QED
    BY <2>1, <2>2 DEF Edge, Edges
<1> QED
  BY <1>2 DEF EdgesTo

(* The loop of a later type runs only when every skill has its key.        *)
LEMMA SkillsFirst ==
    ASSUME GraphInv, NEW c \in Comps, NEW type \in Types, Turn(c, type),
           type # "skill"
    PROVE  \A n \in SkillNames : SkillKey(n) \in NodeKeys
<1>1. \A d \in todo : Type[d] # "skill"
  BY DEF Turn, Order, Types
<1> QED
  BY <1>1, KeyFacts DEF SkillNames, Skills, GraphInv, HandledHaveKeys

-----------------------------------------------------------------------------
LEMMA InitInv == Init => GraphInv
BY DEF Init, GraphInv, TypeOK, HandledHaveKeys, NoDanglingEdge, VerdictsHold,
       NodeKeys

(***************************************************************************)
(* What the five loops have in common: one more component has its key, and *)
(* the new edges start there and end in keys of the table.                 *)
(***************************************************************************)
LEMMA AddStep ==
    ASSUME GraphInv, NEW c \in Comps, NEW type \in Types, Turn(c, type),
           table' \in {Insert(table, Node(c)), InsertIfNew(table, Node(c))},
           NEW new, edges' = edges \cup new,
           new \subseteq Edges,
           \A e \in new : e.source = KeyOf(c) /\ e.target \in NodeKeys
    PROVE  GraphInv'
<1>1. /\ table' \in Seq(NodeRecords)
      /\ NodeKeys' = NodeKeys \cup {KeyOf(c)}
  <2>1. table \in Seq(NodeRecords) /\ Node(c) \in NodeRecords
    BY KeyFacts DEF GraphInv, TypeOK, NodeRecords
  <2>2. /\ table' \in Seq(NodeRecords)
        /\ KeysOf(table') = KeysOf(table) \cup {Node(c).key}
    BY <2>1, InsertFacts
  <2>3. NodeKeys = KeysOf(table) /\ NodeKeys' = KeysOf(table')
    BY DEF NodeKeys, KeysOf
  <2> QED
    BY <2>2, <2>3 DEF Node
<1>2. pc' = "build" /\ pc = "build" /\ todo' = todo \ {c}
      /\ content' = content /\ verdict' = verdict
  BY DEF Turn
<1>3. TypeOK'
  BY <1>1, <1>2 DEF GraphInv, TypeOK, NodeRecords
<1>4. HandledHaveKeys'
  BY <1>1, <1>2 DEF GraphInv, HandledHaveKeys
<1>5. NoDanglingEdge'
  BY <1>1 DEF GraphInv, NoDanglingEdge
<1>6. VerdictsHold'
  BY <1>2 DEF GraphInv, VerdictsHold
<1> QED
  BY <1>3, <1>4, <1>5, <1>6 DEF GraphInv

(* The invariant survives every step.                                      *)
LEMMA StepInv == GraphInv /\ [Next]_vars => GraphInv'
<1> SUFFICES ASSUME GraphInv, [Next]_vars PROVE GraphInv'
  OBVIOUS
<1>1. ASSUME NEW c \in Comps, AddSkill(c) \/ AddMcpConfig(c) PROVE GraphInv'
  <2>1. edges' = edges \cup {}
    BY <1>1 DEF AddSkill, AddMcpConfig
  <2>2. PICK type \in Types : Turn(c, type)
    BY <1>1 DEF AddSkill, AddMcpConfig, Types
  <2>3. table' \in {Insert(table, Node(c)), InsertIfNew(table, Node(c))}
    BY <1>1 DEF AddSkill, AddMcpConfig
  <2>4. {} \subseteq Edges /\ \A e \in {} : e.source = KeyOf(c) /\ e.target \in NodeKeys
    OBVIOUS
  <2> DEFINE new == {}
  <2> HIDE DEF new
  <2>5. /\ edges' = edges \cup new /\ new \subseteq Edges
        /\ \A e \in new : e.source = KeyOf(c) /\ e.target \in NodeKeys
    BY <2>1, <2>4 DEF new
  <2> QED
    BY <2>2, <2>3, <2>5, AddStep
<1>2. ASSUME NEW c \in Comps, AddCommand(c) PROVE GraphInv'
  <2>1. \A n \in SkillNames : SkillKey(n) \in NodeKeys
    BY <1>2, SkillsFirst DEF AddCommand, Types
  <2>2. /\ SkillRefs(c) \subseteq Edges
        /\ \A e \in SkillRefs(c) : e.source = KeyOf(c) /\ e.target \in NodeKeys
    BY <2>1, EdgeFacts DEF SkillRefs
  <2> QED
    BY <1>2, <2>2, AddStep DEF AddCommand, Types
<1>3. ASSUME NEW c \in Comps, AddAgent(c) PROVE GraphInv'
  <2> DEFINE new == SkillRefs(c) \cup EdgesTo(c, content.listed[c], Explicit)
  <2>1. \A n \in SkillNames : SkillKey(n) \in NodeKeys
    BY <1>3, SkillsFirst DEF AddAgent, Types
  <2>2. /\ new \subseteq Edges
        /\ \A e \in new : e.source = KeyOf(c) /\ e.target \in NodeKeys
    BY <2>1, EdgeFacts DEF SkillRefs
  <2>3. edges' = edges \cup new
    BY <1>3 DEF AddAgent
  <2> HIDE DEF new
  <2> QED
    BY <1>3, <2>2, <2>3, AddStep DEF AddAgent, Types
<1>4. ASSUME NEW c \in Comps, AddHooks(c) PROVE GraphInv'
  <2> DEFINE new == EdgesTo(c, content.refs[c], Inferred)
  <2>1. \A n \in SkillNames : SkillKey(n) \in NodeKeys
    BY <1>4, SkillsFirst DEF AddHooks, Types
  <2>2. /\ new \subseteq Edges
        /\ \A e \in new : e.source = KeyOf(c) /\ e.target \in NodeKeys
    BY <2>1, EdgeFacts
  <2>3. edges' = edges \cup new
    BY <1>4 DEF AddHooks
  <2> HIDE DEF new
  <2> QED
    BY <1>4, <2>2, <2>3, AddStep DEF AddHooks, Types
<1>5. CASE LinkSkills
  <2>1. edges' = edges \cup UNION {SkillLinks(c) : c \in Skills}
    BY <1>5 DEF LinkSkills
  <2>2. /\ todo = {} /\ pc = "build" /\ pc' = "built"
        /\ UNCHANGED <<content, todo, table, verdict>>
    BY <1>5 DEF LinkSkills
  <2>3. \A c \in Comps : KeyOf(c) \in NodeKeys
    BY <2>2 DEF GraphInv, HandledHaveKeys
  <2>4. \A n \in SkillNames : SkillKey(n) \in NodeKeys
    BY <2>3, KeyFacts DEF SkillNames, Skills
  <2>5. ASSUME NEW c \in Skills
        PROVE  /\ SkillRefs(c) \subseteq Edges
               /\ \A e \in SkillRefs(c) : {e.source, e.target} \subseteq NodeKeys
    BY <2>3, <2>4, EdgeFacts DEF SkillRefs, Skills
  <2>6. ASSUME NEW c \in Skills
        PROVE  /\ McpUses(c) \subseteq Edges
               /\ \A e \in McpUses(c) : {e.source, e.target} \subseteq NodeKeys
    <3>1. content.calls[c] \subseteq Names
      BY GraphConstants DEF GraphInv, TypeOK, Content, Skills
    <3>2. KeyOf(c) \in Keys /\ KeyOf(c) \in NodeKeys
      BY <2>3, KeyFacts DEF Skills
    <3>3. ASSUME NEW n \in Names
          PROVE  /\ Edge(KeyOf(c), <<"mcp", n>>, Explicit) \in Edges
                 /\ Edge(KeyOf(c), <<"mcp", n>>, Explicit).source = KeyOf(c)
                 /\ Edge(KeyOf(c), <<"mcp", n>>, Explicit).target = <<"mcp", n>>
      BY <3>2 DEF Edge, Edges
    <3> QED
      BY <3>1, <3>2, <3>3 DEF McpUses
  <2>7. \A e \in edges' : e \in edges \/ \E c \in Skills : e \in SkillLinks(c)
    BY <2>1, Zenon
  <2>8. /\ edges' \subseteq Edges
        /\ \A e \in edges' : {e.source, e.target} \subseteq NodeKeys
    BY <2>5, <2>6, <2>7 DEF SkillLinks, GraphInv, TypeOK, NoDanglingEdge
  <2>9. TypeOK'
    BY <2>2, <2>8 DEF GraphInv, TypeOK
  <2>10. NodeKeys' = NodeKeys
    BY <2>2 DEF NodeKeys
  <2>11. NoDanglingEdge' /\ HandledHaveKeys'
    BY <2>2, <2>8, <2>10 DEF GraphInv, NoDanglingEdge, HandledHaveKeys
  <2>12. VerdictsHold'
    BY <2>2 DEF GraphInv, VerdictsHold
  <2> QED
    BY <2>9, <2>11, <2>12 DEF GraphInv
<1>6. CASE Annotate
  <2>1. /\ pc = "built" /\ pc' = "done"
        /\ verdict' = [c \in Comps |-> Reachability(c)]
        /\ content' = content /\ todo' = todo /\ table' = table /\ edges' = edges
    BY <1>6 DEF Annotate
  <2>2. \A c \in Comps : Reachability(c) \in Verdicts
    BY DEF Reachability, Result, Verdicts
  <2>3. TypeOK'
    BY <2>1, <2>2 DEF GraphInv, TypeOK
  <2>4. HandledHaveKeys' /\ NoDanglingEdge'
    BY <2>1 DEF GraphInv, HandledHaveKeys, NoDanglingEdge, NodeKeys
  <2>5. \A c : Reachability(c)' = Reachability(c)
    BY <2>1 DEF Reachability, Hits, FoundNode, Incoming, Described,
                ReachableFrom, ClosedKeys, NodeKeys
  <2>6. VerdictsHold'
    BY <2>1, <2>5 DEF GraphInv, VerdictsHold
  <2> QED
    BY <2>3, <2>4, <2>6 DEF GraphInv
<1>7. CASE UNCHANGED vars
  <2>1. \A c : Reachability(c)' = Reachability(c)
    BY <1>7 DEF vars, Reachability, Hits, FoundNode, Incoming, Described,
                ReachableFrom, ClosedKeys, NodeKeys
  <2> QED
    BY <1>7, <2>1 DEF vars, GraphInv, TypeOK, HandledHaveKeys, NoDanglingEdge,
                VerdictsHold, NodeKeys
<1> QED
  BY <1>1, <1>2, <1>3, <1>4, <1>5, <1>6, <1>7 DEF Next

(* Types, keys of handled components, no dangling edge, current verdicts.  *)
THEOREM GraphInductive == Spec => []GraphInv
BY InitInv, StepInv, PTL DEF Spec

(* Every variable of the graph construction keeps its type.                *)
THEOREM GraphTypes == Spec => []TypeOK
<1>1. GraphInv => TypeOK
  BY DEF GraphInv
<1> QED
  BY <1>1, GraphInductive, PTL

(* The graph of every setup joins existing nodes only.                     *)
THEOREM NoDangling == Spec => []EdgesJoinNodes
<1>1. GraphInv => EdgesJoinNodes
  BY DEF GraphInv, NoDanglingEdge, EdgesJoinNodes
<1> QED
  BY <1>1, GraphInductive, PTL

-----------------------------------------------------------------------------
(* A key without incoming edges is reached from no other node: the other   *)
(* keys are closed under the edges.                                        *)
LEMMA NoIncomingNoPath ==
    ASSUME GraphInv, NEW key, Incoming(key) = {},
           NEW k \in NodeKeys, k # key
    PROVE  key \notin ReachableFrom(k, 0)
<1> DEFINE S == NodeKeys \ {key}
<1>1. S \in SUBSET NodeKeys /\ k \in S /\ key \notin S
  OBVIOUS
<1>2. ClosedKeys(S, 0)
  BY DEF ClosedKeys, GraphInv, NoDanglingEdge, Incoming
<1> QED
  BY <1>1, <1>2 DEF ReachableFrom

(* The last case of compute_reachability that answers "reachable" never    *)
(* applies: whoever a path leads to was answered by an incoming edge.      *)
THEOREM WalkNeverDecides == Spec => []IncomingDecides
<1>1. GraphInv => IncomingDecides
  <2> SUFFICES ASSUME GraphInv, NEW c \in DOMAIN verdict
               PROVE  verdict[c].evidence # "transitive"
    BY DEF IncomingDecides
  <2>1. c \in Comps /\ verdict[c] = Reachability(c)
    BY DEF GraphInv, VerdictsHold, TypeOK
  <2> DEFINE key == LookupKey(FoundNode(c))
  <2>2. Incoming(key) = {} =>
            ~\E k \in NodeKeys : key \in ReachableFrom(k, 0) \ {k}
    BY NoIncomingNoPath
  <2> QED
    BY <2>1, <2>2 DEF Reachability, Result
<1> QED
  BY <1>1, GraphInductive, PTL

(* No component that was looked up as itself is reported unreachable when  *)
(* a command, an agent or a hook leads to it or its description does.      *)
THEOREM UnreachableSound == Spec => []UnreachableIsUntriggered
<1>1. GraphInv => UnreachableIsUntriggered
  <2> SUFFICES ASSUME GraphInv, NEW c \in DOMAIN verdict,
                      Own(c), ~verdict[c].reachable
               PROVE  /\ ~(Type[c] = "skill" /\ c \in content.described)
                      /\ \A t \in Triggers \ {KeyOf(c)} :
                            KeyOf(c) \notin ReachableFrom(t, 0)
    BY DEF UnreachableIsUntriggered
  <2> DEFINE node == FoundNode(c)
             key == LookupKey(node)
  <2>1. c \in Comps /\ verdict[c] = Reachability(c) /\ todo = {}
    BY DEF GraphInv, VerdictsHold, TypeOK
  <2>2. node.file = c /\ Hits(c) # {}
    BY DEF Own
  <2>3. Incoming(key) = {} /\ ~Described(node)
    BY <2>1, <2>2 DEF Reachability, Result
  <2>4. ~(Type[c] = "skill" /\ c \in content.described)
    BY <2>2, <2>3 DEF Described, Named
  <2>5. Incoming(KeyOf(c)) = {}
    <3>1. CASE Type[c] = "hooks"
      <4>1. KeyOf(c) = <<"hooks", c>>
        BY <3>1 DEF KeyOf
      <4>2. \A e \in edges : e.target \in {"", "mcp"} \X Names
        BY DEF GraphInv, TypeOK, Edges
      <4>3. <<"hooks", c>> \notin {"", "mcp"} \X Names
        OBVIOUS
      <4> QED
        BY <4>1, <4>2, <4>3 DEF Incoming
    <3>2. CASE Type[c] # "hooks"
      BY <2>2, <2>3, <3>2 DEF KeyOf, LookupKey, Named
    <3> QED
      BY <3>1, <3>2
  <2>6. \A t \in Triggers : t \in NodeKeys
    BY <2>1 DEF Triggers, GraphInv, HandledHaveKeys
  <2> QED
    BY <2>4, <2>5, <2>6, NoIncomingNoPath
<1> QED
  BY <1>1, GraphInductive, PTL

-----------------------------------------------------------------------------
(* With the rule that reads the graph.                                     *)

(* Every node is written under the key of the file it stands for.          *)
OwnKeys == \A i \in DOMAIN table : table[i].file \in Comps /\ table[i].key = KeyOf(table[i].file)

(* In a built graph, what the bodies of the skills use are edges.          *)
LinksInGraph == pc # "build" => \A c \in Skills : SkillLinks(c) \subseteq edges

FlowInv ==
    /\ GraphInv /\ OwnKeys /\ LinksInGraph
    /\ flow \in {"idle", "checked"}
    /\ flow = "checked" => pc # "build"
    /\ FlowsAreReported

-----------------------------------------------------------------------------
(* The construction and the annotation go on as if the rule did not exist. *)
LEMMA FlowStepMaps == [FlowNext]_<<vars, flowVars>> => [Next]_vars
BY DEF FlowNext, CheckFlows, vars

THEOREM FlowImplementsGraph == FlowSpec => Spec
<1>1. FlowInit => Init
  BY DEF FlowInit
<1> QED BY <1>1, FlowStepMaps, PTL DEF FlowSpec, Spec

(* With the rule running too, a component reported unreachable is one that *)
(* nothing triggers.                                                       *)
THEOREM FlowUnreachableSound == FlowSpec => []UnreachableIsUntriggered
BY FlowImplementsGraph, UnreachableSound, PTL

(* The same for the walk of compute_reachability.                          *)
THEOREM FlowWalkNeverDecides == FlowSpec => []IncomingDecides
BY FlowImplementsGraph, WalkNeverDecides, PTL

-----------------------------------------------------------------------------
(* Both ways to write a node keep it under the key of its file. *)
LEMMA InsertOwnKeys ==
    ASSUME GraphInv, OwnKeys, NEW c \in Comps,
           table' \in {Insert(table, Node(c)), InsertIfNew(table, Node(c))}
    PROVE  OwnKeys'
<1>1. table \in Seq(NodeRecords) /\ Node(c) \in NodeRecords
  BY KeyFacts DEF GraphInv, TypeOK, NodeRecords
<1>2. Node(c).key = KeyOf(c) /\ Node(c).file = c
  BY DEF Node
<1>3. CASE table' = table
  BY <1>3 DEF OwnKeys, KeyOf
<1>4. CASE table' = Append(table, Node(c))
  <2> DEFINE n == Node(c)
  <2>1. Len(table) \in Nat /\ DOMAIN table = 1 .. Len(table)
    BY <1>1
  <2>2. \A i \in DOMAIN table' : table'[i] = IF i = Len(table) + 1 THEN n ELSE table[i]
    BY <1>1, <1>4, <2>1
  <2>3. \A i \in DOMAIN table' : i = Len(table) + 1 \/ i \in DOMAIN table
    BY <1>1, <1>4, <2>1
  <2> HIDE DEF n
  <2>4. n.file \in Comps /\ n.key = KeyOf(n.file)
    BY <1>2 DEF n
  <2> QED BY <2>2, <2>3, <2>4 DEF OwnKeys, KeyOf
<1>5. CASE table' = [i \in DOMAIN table |-> IF table[i].key = Node(c).key THEN Node(c) ELSE table[i]]
  BY <1>1, <1>2, <1>5 DEF OwnKeys, KeyOf
<1> QED BY <1>3, <1>4, <1>5 DEF Insert, InsertIfNew

LEMMA StepOwnKeys ==
    ASSUME GraphInv, OwnKeys, [Next]_vars
    PROVE  OwnKeys'
<1>1. ASSUME NEW c \in Comps, AddSkill(c) \/ AddCommand(c) \/ AddAgent(c) \/ AddHooks(c)
                              \/ AddMcpConfig(c)
      PROVE  OwnKeys'
  BY <1>1, InsertOwnKeys DEF AddSkill, AddCommand, AddAgent, AddHooks, AddMcpConfig
<1>2. CASE LinkSkills \/ Annotate \/ UNCHANGED vars
  BY <1>2 DEF LinkSkills, Annotate, vars, OwnKeys, KeyOf
<1> QED BY <1>1, <1>2 DEF Next

(* In a finished graph the servers of the table are those of the files. *)
LEMMA ServersOfFiles ==
    ASSUME GraphInv, OwnKeys, pc # "build"
    PROVE  ConfiguredServers = {Name[d] : d \in {x \in Comps : Type[x] = "mcp"}}
<1>1. ASSUME NEW n \in ConfiguredServers
      PROVE  \E d \in Comps : Type[d] = "mcp" /\ Name[d] = n
  BY <1>1 DEF ConfiguredServers, GraphNodes, Named, OwnKeys
<1>2. ASSUME NEW d \in Comps, Type[d] = "mcp"
      PROVE  Name[d] \in ConfiguredServers
  <2>1. pc \in {"built", "done"}
    BY DEF GraphInv, TypeOK
  <2>2. KeyOf(d) \in NodeKeys
    BY <2>1 DEF GraphInv, VerdictsHold, HandledHaveKeys
  <2>3. PICK i \in DOMAIN table : table[i].key = KeyOf(d)
    BY <2>2 DEF NodeKeys
  <2>4. KeyOf(table[i].file) = <<"mcp", Name[d]>> /\ table[i].file \in Comps
    BY <1>2, <2>3 DEF OwnKeys, KeyOf, Prefix, Types
  <2>5. Type[table[i].file] \in Types
    BY <2>4, GraphConstants
  <2>6. Type[table[i].file] = "mcp" /\ Name[table[i].file] = Name[d]
    BY <2>4, <2>5 DEF KeyOf, Prefix, Types
  <2> QED BY <2>6 DEF ConfiguredServers, GraphNodes, Named
<1> QED BY <1>1, <1>2

LEMMA KeysFinite ==
    ASSUME GraphInv
    PROVE  Cardinality(NodeKeys) \in Nat
<1> DEFINE D == 1 .. Len(table)
           f == [i \in D |-> table[i].key]
<1>1. table \in Seq(NodeRecords)
  BY DEF GraphInv, TypeOK, NodeRecords
<1>2. Len(table) \in Nat /\ DOMAIN table = D
  BY <1>1
<1>3. NodeKeys = {f[i] : i \in D}
  BY <1>2 DEF NodeKeys
<1>4. f \in Surjection(D, NodeKeys)
  BY <1>3 DEF Surjection
<1>5. IsFiniteSet(D)
  BY <1>2, FS_Interval
<1>6. IsFiniteSet(NodeKeys)
  BY <1>4, <1>5, FS_Surjection
<1> QED BY <1>6, FS_CardinalityType

(* What the rule reports of servers when it runs. *)
LEMMA CheckExact ==
    ASSUME GraphInv, OwnKeys, CheckFlows, Cardinality(NodeKeys) > 1
    PROVE  PhantomsExact'
<1> SUFFICES ASSUME NEW c \in Skills, NEW n \in content.calls[c]
             PROVE  [skill |-> c, server |-> n] \in reports'
                      <=> ~ \E d \in Comps : Type[d] = "mcp" /\ Name[d] = n
  BY DEF PhantomsExact, Skills, CheckFlows, vars
<1>1. reports' = Exfiltrations \cup PhantomCalls
  BY KeysFinite DEF CheckFlows
<1>2. [skill |-> c, server |-> n] \notin Exfiltrations
  <2>1. \A r \in Exfiltrations : DOMAIN r = {"source", "target"}
    BY DEF Exfiltrations
  <2>2. DOMAIN [skill |-> c, server |-> n] = {"skill", "server"}
    OBVIOUS
  <2> QED BY <2>1, <2>2
<1>3. [skill |-> c, server |-> n] \in PhantomCalls <=> n \notin ConfiguredServers
  <2>1. n \notin ConfiguredServers => [skill |-> c, server |-> n] \in PhantomCalls
    BY DEF PhantomCalls
  <2>2. ASSUME [skill |-> c, server |-> n] \in PhantomCalls
        PROVE  n \notin ConfiguredServers
    <3>1. PICK d \in Skills : \E m \in content.calls[d] \ ConfiguredServers :
             [skill |-> c, server |-> n] = [skill |-> d, server |-> m]
      BY <2>2, Zenon DEF PhantomCalls
    <3> QED BY <3>1
  <2> QED BY <2>1, <2>2
<1>4. n \in ConfiguredServers <=> \E d \in Comps : Type[d] = "mcp" /\ Name[d] = n
  BY ServersOfFiles DEF CheckFlows
<1> QED BY <1>1, <1>2, <1>3, <1>4

LEMMA LinksStay ==
    ASSUME LinksInGraph, [Next]_vars
    PROVE  LinksInGraph'
<1>1. ASSUME content' = content, table' = table
      PROVE  \A c : SkillLinks(c)' = SkillLinks(c)
  <2>1. NodeKeys' = NodeKeys
    BY <1>1 DEF NodeKeys
  <2> QED BY <1>1, <2>1 DEF SkillLinks, SkillRefs, McpUses, EdgesTo
<1>2. ASSUME NEW c \in Comps, AddSkill(c) \/ AddCommand(c) \/ AddAgent(c) \/ AddHooks(c)
                              \/ AddMcpConfig(c)
      PROVE  LinksInGraph'
  BY <1>2 DEF AddSkill, AddCommand, AddAgent, AddHooks, AddMcpConfig, Turn, LinksInGraph
<1>3. CASE LinkSkills
  <2>1. /\ content' = content /\ table' = table
        /\ edges' = edges \cup (UNION {SkillLinks(c) : c \in Skills})
    BY <1>3 DEF LinkSkills
  <2>2. \A c \in Skills : SkillLinks(c) \subseteq edges'
    BY <2>1
  <2> QED BY <1>1, <2>1, <2>2 DEF LinksInGraph, Skills
<1>4. CASE Annotate \/ UNCHANGED vars
  <2>1. content' = content /\ table' = table /\ edges' = edges /\ (pc' # "build" => pc # "build")
    BY <1>4 DEF Annotate, vars
  <2> QED BY <1>1, <2>1 DEF LinksInGraph, Skills
<1> QED BY <1>2, <1>3, <1>4 DEF Next

(* What a skill uses, from the files, is an edge of the graph.             *)
LEMMA UseIsEdge ==
    ASSUME GraphInv, LinksInGraph, pc # "build", NEW x \in Comps, NEW y \in Comps, Uses(x, y)
    PROVE  Edge(KeyOf(x), KeyOf(y), Explicit) \in edges
<1>1. x \in Skills /\ SkillLinks(x) \subseteq edges
  BY DEF Uses, Skills, LinksInGraph
<1>2. CASE Type[y] = "skill" /\ Name[y] \in content.refs[x] \ {Name[x]}
  <2>1. Name[y] \in SkillNames /\ KeyOf(y) = SkillKey(Name[y])
    BY <1>2, KeyFacts DEF SkillNames, Skills
  <2>2. Edge(KeyOf(x), KeyOf(y), Explicit) \in SkillRefs(x)
    BY <1>2, <2>1 DEF SkillRefs, EdgesTo
  <2> QED BY <1>1, <2>2 DEF SkillLinks
<1>3. CASE Type[y] = "mcp" /\ Name[y] \in content.calls[x]
  <2>1. KeyOf(y) = <<"mcp", Name[y]>>
    BY <1>3 DEF KeyOf, Prefix, Types
  <2>2. KeyOf(y) \in NodeKeys
    BY DEF GraphInv, TypeOK, VerdictsHold, HandledHaveKeys
  <2>3. Edge(KeyOf(x), KeyOf(y), Explicit) \in McpUses(x)
    BY <1>3, <2>1, <2>2 DEF McpUses
  <2> QED BY <1>1, <2>3 DEF SkillLinks
<1> QED BY <1>2, <1>3 DEF Uses

(* A chain of uses is a path: the components whose keys lie in a closed    *)
(* set of keys are closed under use.                                       *)
LEMMA ChainIsReached ==
    ASSUME GraphInv, LinksInGraph, pc # "build", NEW c \in Skills, NEW d \in Chain(c),
           KeyOf(c) # KeyOf(d)
    PROVE  KeyOf(d) \in Reaches(KeyOf(c))
<1>1. \A x \in Comps : KeyOf(x) \in NodeKeys
  BY DEF GraphInv, TypeOK, VerdictsHold, HandledHaveKeys
<1>2. c \in Usable /\ Usable \subseteq Comps /\ d \in Usable
  BY DEF Usable, Skills, Chain
<1>3. ASSUME NEW S \in SUBSET NodeKeys, KeyOf(c) \in S, ClosedKeys(S, Explicit)
      PROVE  KeyOf(d) \in S
  <2> DEFINE T == {x \in Usable : KeyOf(x) \in S}
  <2>1. ASSUME NEW x \in T, NEW y \in Usable \ T, Uses(x, y) PROVE FALSE
    <3> DEFINE e == Edge(KeyOf(x), KeyOf(y), Explicit)
    <3>1. e \in edges
      BY <1>2, <2>1, UseIsEdge
    <3>2. e.source = KeyOf(x) /\ e.target = KeyOf(y) /\ e.confidence >= Explicit
      BY DEF Edge, Explicit
    <3> HIDE DEF e
    <3>3. KeyOf(y) \in S
      BY <1>3, <3>1, <3>2 DEF ClosedKeys
    <3> QED BY <3>3
  <2>2. T \in SUBSET Usable /\ c \in T
    BY <1>2, <1>3
  <2>3. d \in T
    <3>1. \A x \in T, y \in Usable \ T : ~Uses(x, y)
      BY <2>1
    <3> HIDE DEF T
    <3> QED BY <2>2, <3>1 DEF Chain
  <2> QED BY <2>3
<1>4. KeyOf(d) \in ReachableFrom(KeyOf(c), Explicit)
  BY <1>1, <1>2, <1>3 DEF ReachableFrom
<1> QED BY <1>4 DEF Reaches

(* What the rule reports of chains when it runs. *)
LEMMA CheckMissesNone ==
    ASSUME GraphInv, LinksInGraph, CheckFlows, Cardinality(NodeKeys) > 1
    PROVE  ExfiltrationReported'
<1>1. /\ reports' = Exfiltrations \cup PhantomCalls /\ pc # "build"
      /\ table' = table /\ content' = content /\ caps' = caps
  BY KeysFinite DEF CheckFlows, vars
<1>2. ASSUME NEW c \in Skills, HasNode(c), caps[c] \cap {"credential", "env"} # {},
             NEW d \in Chain(c), HasNode(d), KeyOf(c) # KeyOf(d),
             Type[d] = "mcp" \/ (Type[d] = "skill" /\ "network" \in caps[d])
      PROVE  [source |-> KeyOf(c), target |-> KeyOf(d)] \in Exfiltrations
  <2> DEFINE of(s) == {[source |-> s.key, target |-> t.key] :
                         t \in {n \in GraphNodes : n.key \in Reaches(s.key) /\ CanTransmit(n)}}
             s == Node(c)
             t == Node(d)
  <2>1. /\ s \in GraphNodes /\ s.key = KeyOf(c) /\ s.file = c
        /\ t \in GraphNodes /\ t.key = KeyOf(d) /\ t.file = d
    BY <1>2 DEF HasNode, Node
  <2>2. Exfiltrations = UNION {of(n) : n \in Readers}
    BY DEF Exfiltrations
  <2>3. KeyOf(d) \in Reaches(KeyOf(c))
    BY <1>1, <1>2, ChainIsReached
  <2> HIDE DEF s, t
  <2>4. s \in Readers
    BY <1>2, <2>1 DEF Readers, Detected, Skills
  <2>5. CanTransmit(t)
    BY <1>2, <2>1 DEF CanTransmit, Detected
  <2>6. [source |-> KeyOf(c), target |-> KeyOf(d)] \in of(s)
    BY <2>1, <2>3, <2>5
  <2> HIDE DEF of
  <2> QED BY <2>2, <2>4, <2>6
<1>3. \A c : (HasNode(c)' <=> HasNode(c)) /\ Chain(c)' = Chain(c)
  BY <1>1 DEF HasNode, GraphNodes, Node, KeyOf, Chain, Usable, Uses
<1>4. \A c : KeyOf(c)' = KeyOf(c)
  BY DEF KeyOf
<1> QED BY <1>1, <1>2, <1>3, <1>4 DEF ExfiltrationReported, Skills

(* Until the graph is built the rule has not run; afterwards neither the   *)
(* files nor the nodes change.                                             *)
LEMMA FlowStep ==
    ASSUME FlowInv, [FlowNext]_<<vars, flowVars>>
    PROVE  FlowInv'
<1>1. [Next]_vars
  BY FlowStepMaps
<1>2. GraphInv' /\ OwnKeys' /\ LinksInGraph'
  BY <1>1, StepInv, StepOwnKeys, LinksStay DEF FlowInv
<1>3. CASE CheckFlows
  <2>1. flow' = "checked" /\ pc' = "built"
    BY <1>3 DEF CheckFlows, vars
  <2>2. NodeKeys' = NodeKeys
    BY <1>3 DEF CheckFlows, vars, NodeKeys
  <2>3. Cardinality(NodeKeys') > 1 => PhantomsExact' /\ ExfiltrationReported'
    BY <1>3, <2>2, CheckExact, CheckMissesNone DEF FlowInv
  <2> QED BY <1>2, <2>1, <2>3 DEF FlowInv, FlowsAreReported
<1>4. CASE UNCHANGED <<vars, flowVars>> \/ (Next /\ UNCHANGED flowVars)
  <2>1. flow' = flow /\ reports' = reports /\ caps' = caps
    BY <1>4 DEF flowVars
  <2>2. CASE flow = "idle"
    BY <1>2, <2>1, <2>2 DEF FlowInv, FlowsAreReported
  <2>3. CASE flow = "checked"
    <3>1. pc # "build"
      BY <2>3 DEF FlowInv
    <3>2. pc' # "build" /\ table' = table /\ content' = content
      BY <1>1, <3>1 DEF Next, AddSkill, AddCommand, AddAgent, AddHooks, AddMcpConfig,
                        Turn, LinkSkills, Annotate, vars
    <3>3. NodeKeys' = NodeKeys
      BY <3>2 DEF NodeKeys
    <3>4. PhantomsExact' <=> PhantomsExact
      BY <2>1, <3>2 DEF PhantomsExact, Skills
    <3>5. ExfiltrationReported' <=> ExfiltrationReported
      <4>1. \A c : (HasNode(c)' <=> HasNode(c)) /\ Chain(c)' = Chain(c) /\ KeyOf(c)' = KeyOf(c)
        BY <3>2 DEF HasNode, GraphNodes, Node, KeyOf, Chain, Usable, Uses
      <4> QED BY <2>1, <4>1 DEF ExfiltrationReported, Skills
    <3>6. FlowsAreReported'
      BY <2>1, <3>3, <3>4, <3>5 DEF FlowInv, FlowsAreReported
    <3> QED BY <1>2, <2>1, <2>3, <3>2, <3>6 DEF FlowInv
  <2> QED BY <2>2, <2>3 DEF FlowInv
<1> QED BY <1>3, <1>4 DEF FlowNext

(* Every chain of explicit references from a skill that reads credentials  *)
(* to a component that transmits is reported, and a skill is reported for  *)
(* calling a server exactly when no file configures it, for every setup in *)
(* which the rule looks at the graph at all (_check_exfiltration,          *)
(* _check_mcp_phantom).                                                    *)
THEOREM FlowsReach == FlowSpec => []FlowsAreReported
<1>1. FlowInit => FlowInv
  BY InitInv DEF FlowInit, Init, FlowInv, OwnKeys, LinksInGraph, FlowsAreReported
<1>2. FlowInv => FlowsAreReported
  BY DEF FlowInv
<1>3. FlowInv /\ [FlowNext]_<<vars, flowVars>> => FlowInv'
  BY FlowStep
<1> QED BY <1>1, <1>2, <1>3, PTL DEF FlowSpec

-----------------------------------------------------------------------------
(* The walk run on the graph of the components.                            *)
SameGraph == Nodes = NodeKeys /\ {arcs[k] : k \in DOMAIN arcs} = edges

(* What the two uses of reachable_from take from the graph (ReachableFrom, *)
(* compute_reachability with min_confidence 0 and _check_exfiltration with *)
(* 1.0) is what its loop returns when it is given this graph, whatever the *)
(* order of the edge list.                                                 *)
THEOREM WalkServesGraph ==
    WalkSpec => [](walk = "done" /\ SameGraph => visited = ReachableFrom(start, minimum) \ {start})
<1>1. ASSUME WalkInv, walk = "done", SameGraph
      PROVE  visited = ReachableFrom(start, minimum) \ {start}
  <2>1. ASSUME NEW S \in SUBSET Nodes PROVE Closed(S) <=> ClosedKeys(S, minimum)
    <3>1. \A k \in DOMAIN arcs : arcs[k].target \in Nodes
      <4>1. arcs \in Seq(WalkEdge)
        BY <1>1 DEF WalkInv, WalkTypes
      <4>2. \A k \in DOMAIN arcs : arcs[k] \in WalkEdge
        BY <4>1
      <4> QED BY <4>2 DEF WalkEdge
    <3>2. ASSUME Closed(S), NEW e \in edges, e.confidence >= minimum, e.source \in S
          PROVE  e.target \in S
      <4>1. PICK k \in DOMAIN arcs : arcs[k] = e
        BY <1>1, <3>2 DEF SameGraph
      <4>2. Step(e.source, e.target) /\ e.target \in Nodes
        BY <3>1, <3>2, <4>1 DEF Step
      <4> QED BY <3>2, <4>2 DEF Closed
    <3>3. ASSUME ClosedKeys(S, minimum), NEW m \in S, NEW n \in Nodes, Step(m, n)
          PROVE  n \in S
      <4>1. PICK k \in DOMAIN arcs :
               arcs[k].source = m /\ arcs[k].target = n /\ arcs[k].confidence >= minimum
        BY <3>3 DEF Step
      <4>2. arcs[k] \in edges
        BY <1>1 DEF SameGraph
      <4> QED BY <3>3, <4>1, <4>2 DEF ClosedKeys
    <3> QED BY <3>2, <3>3 DEF Closed, ClosedKeys
  <2>2. Reachable = ReachableFrom(start, minimum)
    BY <1>1, <2>1 DEF Reachable, ReachableFrom, SameGraph
  <2> QED BY <1>1, <2>2 DEF WalkInv, ReturnsReachable
<1>2. WalkInv => (walk = "done" /\ SameGraph => visited = ReachableFrom(start, minimum) \ {start})
  BY <1>1
<1> QED BY <1>2, WalkInductive, PTL

-----------------------------------------------------------------------------
(* Any set of natural numbers that is not empty has a least one: inductions *)
(* below take a least counterexample.                                      *)
LEMMA LeastNat ==
    ASSUME NEW T \in SUBSET Nat, T # {}
    PROVE  \E m \in T : \A n \in T : m <= n
<1> DEFINE R == OpToRel(<, Nat)
<1>1. IsWellFoundedOn(R, Nat)
  BY NatLessThanWellFounded
<1> HIDE DEF R
<1>2. PICK m \in T : \A n \in T : ~(<<n, m>> \in R)
  BY <1>1, WFMin
<1>3. ASSUME NEW n \in T PROVE m <= n
  <2>1. ~(n < m)
    BY <1>2 DEF R, OpToRel
  <2> QED BY <2>1
<1> QED BY <1>3

-----------------------------------------------------------------------------
(* ReferenceRules: what is missing.                                        *)

(* The index is the one its first asker had built; only an agent asks      *)
(* without the commands, and no command comes after an agent.              *)
IndexInv ==
    /\ next \in Nat \ {0}
    /\ index # <<>> => \/ index = <<IndexFor(LintedCommands)>>
                       \/ index = <<IndexFor({})>>
    /\ index # <<>> /\ index # <<IndexFor(LintedCommands)>> =>
         \E j \in DOMAIN Linted : j < next /\ Kind[Linted[j]] = "agent"

AgentSound(r) ==
    "agent" \in DOMAIN r =>
        /\ r.ref.fits # {""} => [agent |-> r.agent, ref |-> r.ref] \in BrokenRefs
        /\ r.ref.fits \cap (UNION {text.declared[c] : c \in LintedSkills}) = {}
CommandSound(r) ==
    "command" \in DOMAIN r =>
        /\ r.name \notin KnownSkills \cup (UNION {text.declared[c] : c \in LintedSkills})
        /\ r.name \notin LintedCommands
        /\ ~text.buried => r.name \notin text.agents \cup text.commands \cup text.spare
MissingInv ==
    /\ text \in Texts /\ IndexInv
    /\ \A r \in raised : AgentSound(r) /\ CommandSound(r)

(* Nothing of this changes with the text in place.                         *)
LEMMA SameText ==
    ASSUME text' = text
    PROVE  /\ GraphNames' = GraphNames /\ Duplicates' = Duplicates /\ BrokenRefs' = BrokenRefs
           /\ \A n : Neighbours(n)' = Neighbours(n)
           /\ \A c : IndexFor(c)' = IndexFor(c)
           /\ \A r : AgentSound(r)' <=> AgentSound(r)
           /\ \A r : CommandSound(r)' <=> CommandSound(r)
<1>1. Writers' = Writers
  BY DEF Writers
<1>2. GraphNames' = GraphNames
  BY <1>1 DEF GraphNames
<1>3. \A n : Places(n)' = Places(n)
  BY <1>1 DEF Places
<1>4. \A n : Neighbours(n)' = Neighbours(n)
  BY <1>2, <1>3 DEF Neighbours, Writer
<1>5. Duplicates' = Duplicates
  BY DEF Duplicates, DuplicatesOf
<1>6. BrokenRefs' = BrokenRefs
  BY DEF BrokenRefs
<1>7. \A c : IndexFor(c)' = IndexFor(c)
  BY DEF IndexFor
<1>8. \A r : AgentSound(r)' <=> AgentSound(r)
  BY <1>6 DEF AgentSound
<1>9. \A r : CommandSound(r)' <=> CommandSound(r)
  BY DEF CommandSound
<1> QED BY <1>2, <1>4, <1>5, <1>6, <1>7, <1>8, <1>9

(* A report with neither field is sound.                                   *)
LEMMA OthersSound ==
    ASSUME NEW r, (\E s : r = [cycle |-> s]) \/ r \in Duplicates
    PROVE  AgentSound(r) /\ CommandSound(r)
<1>1. \A s : LET q == [cycle |-> s] IN "agent" \notin DOMAIN q /\ "command" \notin DOMAIN q
  OBVIOUS
<1>2. \A n, d : LET q == [duplicate |-> n, divergent |-> d]
                IN  "agent" \notin DOMAIN q /\ "command" \notin DOMAIN q
  OBVIOUS
<1>3. r \in Duplicates => \E n, d : r = [duplicate |-> n, divergent |-> d]
  <2> SUFFICES ASSUME NEW n \in KnownSkills, r \in DuplicatesOf(n)
               PROVE  \E d : r = [duplicate |-> n, divergent |-> d]
    BY DEF Duplicates
  <2> QED BY DEF DuplicatesOf
<1> QED BY <1>1, <1>2, <1>3 DEF AgentSound, CommandSound

(* resolve_skill_reference and the dependency map agree on what is missing. *)
LEMMA MissingAgentSound ==
    ASSUME NEW a \in OfKind("agent"), text \in Texts, NEW x \in text.listed[a],
           NEW idx, KnownSkills \cup (UNION {text.declared[c] : c \in LintedSkills}) \subseteq idx.skills,
           Missing(x, idx)
    PROVE  AgentSound([agent |-> a, ref |-> x]) /\ CommandSound([agent |-> a, ref |-> x])
<1> DEFINE r == [agent |-> a, ref |-> x]
<1>1. r.agent = a /\ r.ref = x /\ "command" \notin DOMAIN r
  OBVIOUS
<1>2. x.fits \cap idx.skills = {}
  BY DEF Missing
<1>3. a \in LintedComps /\ Kind[a] = "agent"
  BY DEF OfKind
<1>4. x.plain => x.fits # {}
  <2>1. x.plain => Cardinality(x.fits) = 1
    BY <1>3, RefConstants
  <2>2. Cardinality({}) = 0
    BY FS_EmptySet
  <2> QED BY <2>1, <2>2
<1>5. ~DependencyExists(x)
  <2> SUFFICES ASSUME DependencyExists(x) PROVE FALSE
    OBVIOUS
  <2>1. x.plain /\ x.fits \subseteq KnownSkills
    BY DEF DependencyExists
  <2> QED BY <1>2, <1>4, <2>1
<1>6. x.fits # {""} => r \in BrokenRefs
  <2> SUFFICES ASSUME x.fits # {""} PROVE r \in BrokenRefs
    OBVIOUS
  <2> DEFINE of(b) == {[agent |-> b, ref |-> y] :
                         y \in {z \in text.listed[b] : z.fits # {""} /\ ~DependencyExists(z)}}
  <2>1. r \in of(a)
    BY <1>5
  <2>2. BrokenRefs = UNION {of(b) : b \in OfKind("agent")}
    BY DEF BrokenRefs
  <2> HIDE DEF of, r
  <2> QED BY <2>1, <2>2
<1>7. x.fits \cap (UNION {text.declared[c] : c \in LintedSkills}) = {}
  BY <1>2
<1> QED BY <1>1, <1>6, <1>7 DEF AgentSound, CommandSound

LEMMA IndexKnows ==
    ASSUME NEW commands
    PROVE  /\ KnownSkills \cup (UNION {text.declared[c] : c \in LintedSkills}) \subseteq IndexFor(commands).skills
           /\ commands \subseteq IndexFor(commands).commands
           /\ ~text.buried =>
                /\ text.agents \subseteq IndexFor(commands).agents
                /\ text.commands \subseteq IndexFor(commands).commands
                /\ text.spare \subseteq IndexFor(commands).skills
BY DEF IndexFor, KnownSkills

LEMMA MissingCommandSound ==
    ASSUME NEW c, NEW n, NEW idx, idx = IndexFor(LintedCommands), n \notin idx.agents \cup idx.commands,
           Missing(Plain(n), idx)
    PROVE  AgentSound([command |-> c, name |-> n]) /\ CommandSound([command |-> c, name |-> n])
<1> DEFINE r == [command |-> c, name |-> n]
<1>1. r.name = n /\ "agent" \notin DOMAIN r
  OBVIOUS
<1>2. n \notin idx.skills
  BY DEF Missing, Plain
<1> HIDE DEF r
<1> QED BY <1>1, <1>2, IndexKnows DEF AgentSound, CommandSound, r

LEMMA MissingStart ==
    ASSUME RefInit
    PROVE  MissingInv
BY DEF RefInit, MissingInv, IndexInv

LEMMA MissingStep ==
    ASSUME MissingInv, [RefNext]_refVars
    PROVE  MissingInv'
<1>1. text' = text
  BY DEF RefNext, refVars, StartSearch, TakeRoot, Descend, Revisit, Leave, ReportCycles, FindDuplicates,
         LintedSkill, CheckCommand, CheckAgent
<1>2. LintedCommands' = LintedCommands
  BY DEF LintedCommands
<1>3. ASSUME \A r \in raised' : r \in raised \/ (AgentSound(r) /\ CommandSound(r)), IndexInv'
      PROVE  MissingInv'
  BY <1>1, <1>3, SameText DEF MissingInv
<1>4. ASSUME index' = index, next' \in {next, next + 1}
      PROVE  IndexInv'
  <2>1. next' \in Nat \ {0} /\ \A j \in DOMAIN Linted : j < next => j < next'
    BY <1>4, RefConstants DEF MissingInv, IndexInv
  <2>2. \A c : IndexFor(c)' = IndexFor(c)
    BY <1>1, SameText
  <2> QED BY <1>2, <1>4, <2>1, <2>2 DEF MissingInv, IndexInv
<1>5. CASE StartSearch \/ TakeRoot \/ (\E n \in GraphNames : Descend(n) \/ Revisit(n)) \/ Leave \/ LintedSkill
  <2>1. index' = index /\ raised' = raised /\ next' \in {next, next + 1}
    BY <1>5 DEF StartSearch, TakeRoot, Descend, Revisit, Leave, LintedSkill
  <2> QED BY <1>3, <1>4, <2>1
<1>6. CASE ReportCycles
  <2>1. index' = index /\ next' = next
    BY <1>6 DEF ReportCycles
  <2>2. \A r \in raised' : r \in raised \/ \E s : r = [cycle |-> s]
    BY <1>6 DEF ReportCycles
  <2> QED BY <1>3, <1>4, <2>1, <2>2, OthersSound
<1>7. CASE FindDuplicates
  <2>1. index' = index /\ next' = next
    BY <1>7 DEF FindDuplicates
  <2>2. \A r \in raised' : r \in raised \/ r \in Duplicates
    BY <1>7 DEF FindDuplicates
  <2> QED BY <1>3, <1>4, <2>1, <2>2, OthersSound
<1>8. CASE CheckCommand
  <2> DEFINE c == Linted[next]
             idx == Asked(LintedCommands)[1]
             new == {[command |-> c, name |-> n] :
                       n \in {m \in text.invoked[c] :
                                /\ m # DirName[c]
                                /\ m \notin idx.agents \cup idx.commands
                                /\ Missing(Plain(m), idx)}}
  <2>1. next \in DOMAIN Linted /\ Kind[c] = "command"
    BY <1>8, RefConstants DEF CheckCommand, UpNext, MissingInv, IndexInv
  <2>2. index = <<>> \/ index = <<IndexFor(LintedCommands)>>
    <3> SUFFICES ASSUME index # <<>>, index # <<IndexFor(LintedCommands)>> PROVE FALSE
      OBVIOUS
    <3>1. PICK j \in DOMAIN Linted : j < next /\ Kind[Linted[j]] = "agent"
      BY DEF MissingInv, IndexInv
    <3>2. next < j
      BY <2>1, <3>1, RefConstants
    <3> QED BY <2>1, <3>1, <3>2 DEF MissingInv, IndexInv
  <2>3. idx = IndexFor(LintedCommands)
    BY <2>2 DEF Asked
  <2>4. /\ index' = index \/ index' = <<idx>>
        /\ raised' = raised \/ raised' = raised \cup new
        /\ next' = next + 1
    BY <1>8 DEF CheckCommand
  <2>5. \A r \in new : AgentSound(r) /\ CommandSound(r)
    BY <2>3, MissingCommandSound
  <2> HIDE DEF new, idx
  <2>6. IndexInv'
    <3>1. CASE index' = index
      BY <1>4, <2>4, <3>1
    <3>2. CASE index' = <<IndexFor(LintedCommands)>>
      BY <1>1, <1>2, <2>4, <3>2, SameText DEF MissingInv, IndexInv
    <3> QED BY <2>3, <2>4, <3>1, <3>2
  <2> QED BY <1>3, <2>4, <2>5, <2>6
<1>9. CASE CheckAgent
  <2> DEFINE a == Linted[next]
             idx == Asked({})[1]
             new == {[agent |-> a, ref |-> r] :
                       r \in {x \in text.listed[a] : ~text.submodule /\ Missing(x, idx)}}
  <2>1. next \in DOMAIN Linted /\ a \in OfKind("agent")
    BY <1>9, RefConstants DEF CheckAgent, UpNext, MissingInv, IndexInv, OfKind, LintedComps, Range
  <2>2. idx = IndexFor(LintedCommands) \/ idx = IndexFor({})
    BY DEF Asked, MissingInv, IndexInv
  <2>3. /\ index' = index \/ index' = <<idx>>
        /\ raised' = raised \/ raised' = raised \cup new
        /\ next' = next + 1
    BY <1>9 DEF CheckAgent
  <2>4. \A r \in new : AgentSound(r) /\ CommandSound(r)
    <3>1. KnownSkills \cup (UNION {text.declared[c] : c \in LintedSkills}) \subseteq idx.skills
      BY <2>2, IndexKnows
    <3> HIDE DEF idx
    <3> QED BY <2>1, <3>1, MissingAgentSound DEF MissingInv
  <2> HIDE DEF new, idx
  <2>5. IndexInv'
    <3>1. CASE index' = index
      BY <1>4, <2>3, <3>1
    <3>2. CASE index' = <<idx>>
      <4>1. next < next' /\ next' \in Nat \ {0} /\ Kind[Linted[next]] = "agent"
        BY <2>1, <2>3 DEF MissingInv, IndexInv, OfKind
      <4> QED BY <1>1, <1>2, <2>1, <2>2, <3>2, <4>1, SameText DEF IndexInv
    <3> QED BY <2>3, <3>1, <3>2
  <2> QED BY <1>3, <2>3, <2>4, <2>5
<1>10. CASE UNCHANGED refVars
  BY <1>3, <1>4, <1>10 DEF refVars
<1> QED BY <1>5, <1>6, <1>7, <1>8, <1>9, <1>10 DEF RefNext

(* What a rule calls missing is no linted skill by any of its names, and   *)
(* broken in the dependency map too; what a command invokes and is called  *)
(* missing is nothing of the tree (the three answers of                    *)
(* resolve_skill_reference, component_index and analyze_dependencies).     *)
THEOREM MissingSound == RefSpec => []MissingIsAbsent
<1>1. MissingInv => MissingIsAbsent
  BY DEF MissingInv, MissingIsAbsent, AgentSound, CommandSound
<1> QED BY <1>1, MissingStart, MissingStep, PTL DEF RefSpec

-----------------------------------------------------------------------------
(* ReferenceRules: the search for circles.                                 *)

(* A name that the search has left.                                        *)
OnPath == {path[i] : i \in DOMAIN path}
Left == seen \ OnPath

(* A recorded cycle is closed by the reference from u to v.                *)
Closes(u, v) == \E k \in DOMAIN cycles : cycles[k][1] = v /\ cycles[k][Len(cycles[k])] = u
Settled(u, v) == v \in Left \/ Closes(u, v)

SearchTypes ==
    /\ seen \subseteq GraphNames /\ path \in Seq(GraphNames) /\ left \in Seq(SUBSET GraphNames)
    /\ cycles \in Seq(Seq(GraphNames))

(* The path follows references, and what is left to try are references.    *)
PathInv ==
    /\ Len(left) = Len(path) /\ OnPath \subseteq seen
    /\ \A i, j \in DOMAIN path : path[i] = path[j] => i = j
    /\ \A i \in DOMAIN path : i + 1 \in DOMAIN path => path[i + 1] \in Neighbours(path[i])
    /\ \A i \in DOMAIN path : left[i] \subseteq Neighbours(path[i])

(* References tried lead to names that the search has left, close a cycle, *)
(* or are the ones the path takes.                                         *)
Tries ==
    /\ \A u \in Left : \A v \in Neighbours(u) : Settled(u, v)
    /\ \A i \in DOMAIN path : \A v \in Neighbours(path[i]) \ left[i] :
         Settled(path[i], v) \/ (i + 1 \in DOMAIN path /\ v = path[i + 1])

(* Among names left behind, any set has one whose references into the set  *)
(* all close a cycle: without those references there is no circle there.   *)
Peeled ==
    \A S \in SUBSET Left : S # {} => \E u \in S : \A v \in Neighbours(u) \cap S : Closes(u, v)

IsCycle(s) ==
    /\ s # <<>>
    /\ \A i, j \in DOMAIN s : s[i] = s[j] => i = j
    /\ \A i \in DOMAIN s : s[(i % Len(s)) + 1] \in Neighbours(s[i])
CyclesTrue == \A k \in DOMAIN cycles : IsCycle(cycles[k])

SearchInv == SearchTypes /\ PathInv /\ Tries /\ Peeled /\ CyclesTrue

(* A sequence with one element more.                                       *)
LEMMA Appended ==
    ASSUME NEW S, NEW s \in Seq(S), NEW x \in S
    PROVE  /\ Append(s, x) \in Seq(S) /\ Len(Append(s, x)) = Len(s) + 1
           /\ DOMAIN Append(s, x) = DOMAIN s \cup {Len(s) + 1} /\ Len(s) + 1 \notin DOMAIN s
           /\ \A i \in DOMAIN s : Append(s, x)[i] = s[i]
           /\ Append(s, x)[Len(s) + 1] = x
OBVIOUS

(* Cycles found stay found.                                                *)
LEMMA ClosesStays ==
    ASSUME SearchInv, NEW u, NEW v, Closes(u, v),
           cycles' = cycles \/ \E s \in Seq(GraphNames) : cycles' = Append(cycles, s)
    PROVE  Closes(u, v)'
<1>1. PICK k \in DOMAIN cycles : cycles[k][1] = v /\ cycles[k][Len(cycles[k])] = u
  BY DEF Closes
<1>2. CASE cycles' = cycles
  BY <1>1, <1>2 DEF Closes
<1>3. ASSUME NEW s \in Seq(GraphNames), cycles' = Append(cycles, s) PROVE Closes(u, v)'
  <2>1. k \in DOMAIN cycles' /\ cycles'[k] = cycles[k]
    BY <1>3, Appended DEF SearchInv, SearchTypes
  <2> QED BY <1>1, <2>1 DEF Closes
<1> QED BY <1>2, <1>3

(* The names that have a writer have a first and a last one.               *)
LEMMA FirstIsOne ==
    ASSUME NEW S \in SUBSET GraphNames, S # {}
    PROVE  FirstOf(S) \in S
<1>1. ASSUME NEW n \in S PROVE Place(n) \in Nat
  <2>1. PICK c \in Writers : DirName[c] = n
    BY DEF GraphNames
  <2>2. PICK i \in DOMAIN Linted : Linted[i] = c
    BY <2>1 DEF Writers, OfKind, LintedComps, Range
  <2>3. Places(n) # {} /\ Places(n) \in SUBSET Nat
    BY <2>1, <2>2, RefConstants DEF Places
  <2>4. PICK m \in Places(n) : \A k \in Places(n) : m <= k
    BY <2>3, LeastNat
  <2> HIDE DEF Place
  <2>5. Min(Places(n)) \in Places(n)
    BY <2>4 DEF Min
  <2> QED BY <2>3, <2>5 DEF Place
<1> DEFINE T == {Place(n) : n \in S}
<1>2. T \in SUBSET Nat /\ T # {}
  BY <1>1
<1>3. PICK p \in T : \A q \in T : p <= q
  <2> HIDE DEF T
  <2> QED BY <1>2, LeastNat
<1>4. PICK n \in S : Place(n) = p
  BY <1>3
<1>5. \A m \in S : Place(n) <= Place(m)
  BY <1>3, <1>4
<1> QED BY <1>4, <1>5 DEF FirstOf

(* A sequence without its last element.                                    *)
LEMMA FrontIs ==
    ASSUME NEW S, NEW s \in Seq(S), s # <<>>
    PROVE  /\ Front(s) \in Seq(S) /\ Len(Front(s)) = Len(s) - 1 /\ Len(s) \in DOMAIN s
           /\ DOMAIN Front(s) = DOMAIN s \ {Len(s)}
           /\ \A i \in DOMAIN Front(s) : Front(s)[i] = s[i]
<1>1. Len(s) \in Nat \ {0} /\ DOMAIN s = 1 .. Len(s)
  OBVIOUS
<1>2. /\ Front(s) \in Seq(S) /\ Len(Front(s)) = Len(s) - 1
      /\ \A i \in 1 .. Len(s) - 1 : Front(s)[i] = s[i]
  <2>1. \A i \in 1 .. Len(s) - 1 : s[i] \in S
    BY <1>1
  <2> QED BY <1>1, <2>1 DEF Front
<1>3. DOMAIN Front(s) = 1 .. Len(s) - 1
  BY <1>1, <1>2
<1> QED BY <1>1, <1>2, <1>3

(* The search begins, and takes a root when the path is empty.             *)
LEMMA SearchStarts ==
    ASSUME RefInit
    PROVE  SearchInv
<1>1. seen = {} /\ path = <<>> /\ left = <<>> /\ cycles = <<>>
  BY DEF RefInit
<1>2. OnPath = {} /\ Left = {}
  BY <1>1 DEF OnPath, Left
<1> QED BY <1>1, <1>2 DEF SearchInv, SearchTypes, PathInv, Tries, Peeled, CyclesTrue

LEMMA StayingSearch ==
    ASSUME SearchInv, UNCHANGED <<text, seen, path, left, cycles>>
    PROVE  SearchInv'
<1>1. GraphNames' = GraphNames /\ \A n : Neighbours(n)' = Neighbours(n)
  BY SameText
<1>2. OnPath' = OnPath /\ Left' = Left
  BY DEF OnPath, Left
<1>3. \A u, v : (Closes(u, v)' <=> Closes(u, v)) /\ (Settled(u, v)' <=> Settled(u, v))
  BY <1>2 DEF Closes, Settled
<1>4. SearchTypes' /\ PathInv'
  BY <1>1, <1>2 DEF SearchInv, SearchTypes, PathInv
<1>5. Tries' /\ Peeled'
  BY <1>1, <1>2, <1>3 DEF SearchInv, Tries, Peeled
<1>6. CyclesTrue'
  BY <1>1 DEF SearchInv, CyclesTrue, IsCycle
<1> QED BY <1>4, <1>5, <1>6 DEF SearchInv

LEMMA RootTaken ==
    ASSUME SearchInv, TakeRoot
    PROVE  SearchInv'
<1> DEFINE n == FirstOf(GraphNames \ seen)
<1>1. n \in GraphNames /\ n \notin seen
  <2>1. n \in GraphNames \ seen
    BY FirstIsOne DEF TakeRoot
  <2> QED BY <2>1
<1>2. /\ seen' = seen \cup {n} /\ path' = <<n>> /\ left' = <<Neighbours(n)>> /\ path = <<>>
      /\ text' = text /\ cycles' = cycles
  BY DEF TakeRoot
<1> HIDE DEF n
<1>3. GraphNames' = GraphNames /\ \A u : Neighbours(u)' = Neighbours(u)
  BY <1>2, SameText
<1>4. OnPath = {} /\ OnPath' = {n} /\ Left' = Left
  BY <1>1, <1>2 DEF OnPath, Left
<1>5. \A u, v : (Closes(u, v)' <=> Closes(u, v)) /\ (Settled(u, v)' <=> Settled(u, v))
  BY <1>2, <1>4 DEF Closes, Settled
<1>6. SearchTypes'
  <2>1. Neighbours(n) \in SUBSET GraphNames
    BY DEF Neighbours
  <2> QED BY <1>1, <1>2, <1>3, <2>1 DEF SearchInv, SearchTypes
<1>7. PathInv'
  BY <1>2, <1>3, <1>4 DEF PathInv
<1>8. Tries'
  BY <1>2, <1>3, <1>4, <1>5 DEF SearchInv, Tries
<1>9. Peeled'
  BY <1>3, <1>4, <1>5 DEF SearchInv, Peeled
<1>10. CyclesTrue'
  BY <1>2, <1>3 DEF SearchInv, CyclesTrue, IsCycle
<1> QED BY <1>6, <1>7, <1>8, <1>9, <1>10 DEF SearchInv

(* The top of the path tries one of its references.                        *)
LEMMA TriedOne ==
    ASSUME SearchInv, NEW n, Pending(n)
    PROVE  /\ Len(path) \in DOMAIN path /\ Len(path) \in DOMAIN left /\ Len(path) + 1 \notin DOMAIN path
           /\ n \in Neighbours(path[Len(path)]) /\ n \in GraphNames
           /\ Tried(n) \in Seq(SUBSET GraphNames) /\ Len(Tried(n)) = Len(path)
           /\ DOMAIN Tried(n) = DOMAIN path
           /\ \A i \in DOMAIN path : i # Len(path) => Tried(n)[i] = left[i]
           /\ Tried(n)[Len(path)] = left[Len(path)] \ {n}
<1>1. /\ path \in Seq(GraphNames) /\ path # <<>> /\ left \in Seq(SUBSET GraphNames)
      /\ Len(left) = Len(path)
  BY DEF SearchInv, SearchTypes, PathInv, Pending
<1>2. Len(path) \in DOMAIN path /\ Len(path) \in DOMAIN left /\ DOMAIN left = DOMAIN path
      /\ Len(path) + 1 \notin DOMAIN path
  BY <1>1
<1>3. n \in Neighbours(path[Len(path)])
  BY <1>2 DEF Pending, SearchInv, PathInv
<1>4. n \in GraphNames
  BY <1>3 DEF Neighbours
<1>5. /\ Tried(n) \in Seq(SUBSET GraphNames) /\ Len(Tried(n)) = Len(left)
      /\ DOMAIN Tried(n) = DOMAIN left
      /\ \A i \in DOMAIN left : i # Len(path) => Tried(n)[i] = left[i]
      /\ Tried(n)[Len(path)] = left[Len(path)] \ {n}
  BY <1>1, <1>2 DEF Tried
<1> QED BY <1>1, <1>2, <1>3, <1>4, <1>5

LEMMA Descended ==
    ASSUME SearchInv, NEW n, Descend(n)
    PROVE  SearchInv'
<1> DEFINE L == Len(path)
<1>1. /\ Pending(n) /\ n \notin seen /\ seen' = seen \cup {n} /\ path' = Append(path, n)
      /\ left' = Append(Tried(n), Neighbours(n)) /\ text' = text /\ cycles' = cycles
  BY DEF Descend
<1>2. /\ L \in DOMAIN path /\ L \in DOMAIN left /\ L + 1 \notin DOMAIN path
      /\ n \in Neighbours(path[L]) /\ n \in GraphNames
      /\ Tried(n) \in Seq(SUBSET GraphNames) /\ Len(Tried(n)) = L
      /\ DOMAIN Tried(n) = DOMAIN path
      /\ \A i \in DOMAIN path : i # L => Tried(n)[i] = left[i]
      /\ Tried(n)[L] = left[L] \ {n}
  BY <1>1, TriedOne
<1>3. /\ path' \in Seq(GraphNames) /\ DOMAIN path' = DOMAIN path \cup {L + 1}
      /\ Len(path') = L + 1
      /\ \A i \in DOMAIN path : path'[i] = path[i] 
      /\ path'[L + 1] = n
  BY <1>1, <1>2, Appended DEF SearchInv, SearchTypes
<1>4. /\ left' \in Seq(SUBSET GraphNames) /\ Len(left') = L + 1
      /\ \A i \in DOMAIN path : left'[i] = Tried(n)[i]
      /\ left'[L + 1] = Neighbours(n)
  <2>1. Neighbours(n) \in SUBSET GraphNames
    BY DEF Neighbours
  <2> QED BY <1>1, <1>2, <2>1, Appended
<1>5. GraphNames' = GraphNames /\ \A u : Neighbours(u)' = Neighbours(u)
  BY <1>1, SameText
<1>6. OnPath' = OnPath \cup {n}
  BY <1>3 DEF OnPath
<1>7. Left' = Left /\ n \notin OnPath
  BY <1>1, <1>6 DEF Left, SearchInv, PathInv
<1>8. \A u, v : (Closes(u, v)' <=> Closes(u, v)) /\ (Settled(u, v)' <=> Settled(u, v))
  BY <1>1, <1>7 DEF Closes, Settled
<1>9. SearchTypes'
  BY <1>1, <1>2, <1>3, <1>4, <1>5 DEF SearchInv, SearchTypes
<1>10. \A i \in DOMAIN path : i \in Nat /\ i <= L /\ (i # L => i + 1 \in DOMAIN path) /\ L \in Nat
  BY DEF SearchInv, SearchTypes
<1> HIDE DEF L
<1>11. PathInv'
  <2>1. Len(left') = Len(path') /\ OnPath' \subseteq seen'
    BY <1>1, <1>3, <1>4, <1>6 DEF SearchInv, PathInv
  <2>2. ASSUME NEW i \in DOMAIN path', NEW j \in DOMAIN path', path'[i] = path'[j] PROVE i = j
    <3>1. \A k \in DOMAIN path : path'[k] # n
      BY <1>3, <1>7 DEF OnPath
    <3> QED BY <1>3, <2>2, <3>1 DEF SearchInv, PathInv
  <2>3. ASSUME NEW i \in DOMAIN path', i + 1 \in DOMAIN path' PROVE path'[i + 1] \in Neighbours(path'[i])
    <3>1. CASE i \in DOMAIN path /\ i # L
      BY <1>3, <1>10, <3>1 DEF SearchInv, PathInv
    <3>2. CASE i = L
      BY <1>2, <1>3, <3>2
    <3>3. i # L + 1
      BY <1>2, <1>3, <1>10, <2>3
    <3> QED BY <1>3, <3>1, <3>2, <3>3
  <2>4. ASSUME NEW i \in DOMAIN path' PROVE left'[i] \subseteq Neighbours(path'[i])
    BY <1>2, <1>3, <1>4 DEF SearchInv, PathInv
  <2> QED BY <1>5, <2>1, <2>2, <2>3, <2>4 DEF PathInv
<1>12. Tries'
  <2>1. ASSUME NEW u \in Left, NEW v \in Neighbours(u) PROVE Settled(u, v)
    BY DEF SearchInv, Tries
  <2>2. ASSUME NEW i \in DOMAIN path', NEW v \in Neighbours(path'[i]) \ left'[i]
        PROVE  Settled(path'[i], v) \/ (i + 1 \in DOMAIN path' /\ v = path'[i + 1])
    <3>1. CASE i \in DOMAIN path /\ i # L
      <4>1. v \in Neighbours(path[i]) \ left[i]
        BY <1>2, <1>3, <1>4, <2>2, <3>1
      <4>2. Settled(path[i], v) \/ (i + 1 \in DOMAIN path /\ v = path[i + 1])
        BY <3>1, <4>1 DEF SearchInv, Tries
      <4> QED BY <1>3, <3>1, <4>2
    <3>2. CASE i = L
      <4>1. v = n \/ v \in Neighbours(path[L]) \ left[L]
        BY <1>2, <1>3, <1>4, <2>2, <3>2
      <4>2. v \in Neighbours(path[L]) \ left[L] => Settled(path[L], v)
        BY <1>2 DEF SearchInv, Tries
      <4> QED BY <1>2, <1>3, <3>2, <4>1, <4>2
    <3>3. CASE i = L + 1
      BY <1>3, <1>4, <2>2, <3>3
    <3> QED BY <1>3, <3>1, <3>2, <3>3
  <2> QED BY <1>5, <1>7, <1>8, <2>1, <2>2 DEF Tries
<1>13. Peeled'
  BY <1>5, <1>7, <1>8 DEF SearchInv, Peeled
<1>14. CyclesTrue'
  BY <1>1, <1>5 DEF SearchInv, CyclesTrue, IsCycle
<1> QED BY <1>9, <1>11, <1>12, <1>13, <1>14 DEF SearchInv

(* A reference to a name of the path closes a cycle there.                 *)
LEMMA AroundOnce ==
    ASSUME NEW l \in Nat \ {0}, NEW i \in 1 .. l
    PROVE  i % l = IF i = l THEN 0 ELSE i
OBVIOUS

LEMMA CycleHere ==
    ASSUME SearchInv, NEW n, Pending(n), n \in OnPath
    PROVE  /\ Cycle(n) \in Seq(GraphNames) /\ IsCycle(Cycle(n))
           /\ Cycle(n)[1] = n /\ Cycle(n)[Len(Cycle(n))] = path[Len(path)]
<1> DEFINE L == Len(path)
<1> DEFINE k == Index(n)
<1> DEFINE s == Cycle(n)
<1>1. k \in DOMAIN path /\ path[k] = n
  BY DEF OnPath, Index
<1>2. L \in Nat /\ DOMAIN path = 1 .. L /\ \A i \in DOMAIN path : path[i] \in GraphNames
  BY DEF SearchInv, SearchTypes
<1> HIDE DEF L, k
<1>3. k \in Nat /\ 1 <= k /\ k <= L
  BY <1>1, <1>2
<1>4. s \in Seq(GraphNames) /\ Len(s) = L - k + 1 /\ \A i \in 1 .. L - k + 1 : s[i] = path[k + i - 1]
  <2>1. s = SubSeq(path, k, L)
    BY DEF Cycle, k, L
  <2>2. \A i \in k .. L : path[i] \in GraphNames
    BY <1>2, <1>3
  <2> HIDE DEF s
  <2> QED BY <1>2, <1>3, <2>1, <2>2, SubSeqProperties
<1>5. DOMAIN s = 1 .. L - k + 1
  BY <1>4
<1> HIDE DEF s
<1>6. s[1] = n /\ s[Len(s)] = path[L]
  BY <1>1, <1>2, <1>3, <1>4
<1>7. n \in Neighbours(path[L])
  BY TriedOne DEF L
<1>8. \A i, j \in DOMAIN path : path[i] = path[j] => i = j
  BY DEF SearchInv, PathInv
<1>9. \A i \in DOMAIN path : i + 1 \in DOMAIN path => path[i + 1] \in Neighbours(path[i])
  BY DEF SearchInv, PathInv
<1>10. IsCycle(s)
  <2>1. s # <<>>
    BY <1>2, <1>3, <1>4
  <2>2. ASSUME NEW i \in DOMAIN s, NEW j \in DOMAIN s, s[i] = s[j] PROVE i = j
    <3>1. path[k + i - 1] = path[k + j - 1] /\ k + i - 1 \in DOMAIN path /\ k + j - 1 \in DOMAIN path
      BY <1>2, <1>3, <1>4, <1>5, <2>2
    <3>2. k + i - 1 = k + j - 1
      BY <1>8, <3>1
    <3> QED BY <1>2, <1>3, <1>5, <3>2
  <2>3. ASSUME NEW i \in DOMAIN s PROVE s[(i % Len(s)) + 1] \in Neighbours(s[i])
    <3>1. Len(s) \in Nat \ {0} /\ i \in 1 .. Len(s)
      BY <1>2, <1>3, <1>4, <1>5
    <3>2. CASE i = Len(s)
      <4>1. i % Len(s) = 0
        BY <3>1, <3>2, AroundOnce
      <4> QED BY <1>6, <1>7, <3>2, <4>1
    <3>3. CASE i # Len(s)
      <4>1. i % Len(s) = i
        BY <3>1, <3>3, AroundOnce
      <4>2. s[i] = path[k + i - 1] /\ s[i + 1] = path[(k + i - 1) + 1]
        BY <1>2, <1>3, <1>4, <3>1, <3>3
      <4>3. k + i - 1 \in DOMAIN path /\ (k + i - 1) + 1 \in DOMAIN path
        BY <1>2, <1>3, <1>4, <3>1, <3>3
      <4> QED BY <1>9, <4>1, <4>2, <4>3
    <3> QED BY <3>2, <3>3
  <2> QED BY <2>1, <2>2, <2>3 DEF IsCycle
<1> QED BY <1>4, <1>6, <1>10 DEF s, L

LEMMA Revisited ==
    ASSUME SearchInv, NEW n, Revisit(n)
    PROVE  SearchInv'
<1> DEFINE L == Len(path)
<1>1. /\ Pending(n) /\ n \in seen /\ seen' = seen /\ path' = path /\ left' = Tried(n) /\ text' = text
      /\ cycles' = IF n \in OnPath THEN Append(cycles, Cycle(n)) ELSE cycles
  BY DEF Revisit, OnPath, Range
<1>2. /\ L \in DOMAIN path /\ L + 1 \notin DOMAIN path
      /\ n \in Neighbours(path[L]) /\ n \in GraphNames
      /\ Tried(n) \in Seq(SUBSET GraphNames) /\ Len(Tried(n)) = L
      /\ DOMAIN Tried(n) = DOMAIN path
      /\ \A i \in DOMAIN path : i # L => Tried(n)[i] = left[i]
      /\ Tried(n)[L] = left[L] \ {n}
  BY <1>1, TriedOne
<1> HIDE DEF L
<1>3. n \in OnPath => /\ Cycle(n) \in Seq(GraphNames) /\ IsCycle(Cycle(n))
                      /\ Cycle(n)[1] = n /\ Cycle(n)[Len(Cycle(n))] = path[L]
  BY <1>1, CycleHere DEF L
<1>4. GraphNames' = GraphNames /\ \A u : Neighbours(u)' = Neighbours(u)
  BY <1>1, SameText
<1>5. OnPath' = OnPath /\ Left' = Left
  BY <1>1 DEF OnPath, Left
<1>6. ASSUME NEW u, NEW v, Closes(u, v) PROVE Closes(u, v)'
  BY <1>1, <1>3, <1>6, ClosesStays
<1>7. ASSUME NEW u, NEW v, Settled(u, v) PROVE Settled(u, v)'
  BY <1>5, <1>6, <1>7 DEF Settled
<1>8. ASSUME n \in OnPath
      PROVE  /\ cycles' \in Seq(Seq(GraphNames)) /\ DOMAIN cycles' = DOMAIN cycles \cup {Len(cycles) + 1}
             /\ \A i \in DOMAIN cycles : cycles'[i] = cycles[i]
             /\ cycles'[Len(cycles) + 1] = Cycle(n)
  BY <1>1, <1>3, <1>8, Appended DEF SearchInv, SearchTypes
<1>9. ASSUME NEW u, u = path[L] PROVE Settled(u, n)'
  <2>1. CASE n \in OnPath
    <3>1. Len(cycles) + 1 \in DOMAIN cycles' /\ cycles'[Len(cycles) + 1] = Cycle(n)
      BY <1>8, <2>1
    <3>2. Closes(u, n)'
      BY <1>3, <1>9, <2>1, <3>1 DEF Closes
    <3> QED BY <3>2 DEF Settled
  <2>2. CASE n \notin OnPath
    BY <1>1, <1>5, <2>2 DEF Settled, Left
  <2> QED BY <2>1, <2>2
<1>10. SearchTypes'
  BY <1>1, <1>2, <1>4, <1>8 DEF SearchInv, SearchTypes
<1>11. PathInv'
  <2>1. \A i \in DOMAIN path : left'[i] \subseteq Neighbours(path[i])
    BY <1>1, <1>2 DEF SearchInv, PathInv
  <2> QED BY <1>1, <1>2, <1>4, <1>5, <2>1 DEF SearchInv, PathInv, L
<1>12. Tries'
  <2>1. ASSUME NEW u \in Left, NEW v \in Neighbours(u) PROVE Settled(u, v)'
    BY <1>7 DEF SearchInv, Tries
  <2>2. ASSUME NEW i \in DOMAIN path, NEW v \in Neighbours(path[i]) \ left'[i], NEW u, u = path[i]
        PROVE  Settled(u, v)' \/ (i + 1 \in DOMAIN path /\ v = path[i + 1])
    <3>1. CASE v \in Neighbours(path[i]) \ left[i]
      <4>1. Settled(u, v) \/ (i + 1 \in DOMAIN path /\ v = path[i + 1])
        BY <2>2, <3>1 DEF SearchInv, Tries
      <4> QED BY <1>7, <4>1
    <3>2. CASE v \in left[i]
      <4>1. i = L /\ v = n
        BY <1>1, <1>2, <2>2, <3>2
      <4> QED BY <1>9, <2>2, <4>1
    <3> QED BY <2>2, <3>1, <3>2
  <2> QED BY <1>1, <1>4, <1>5, <2>1, <2>2 DEF Tries, Settled, Closes
<1>13. Peeled'
  BY <1>4, <1>5, <1>6 DEF SearchInv, Peeled
<1>14. CyclesTrue'
  <2>1. ASSUME NEW k \in DOMAIN cycles' PROVE IsCycle(cycles'[k])
    BY <1>1, <1>3, <1>8 DEF SearchInv, CyclesTrue
  <2>2. \A s : IsCycle(s)' <=> IsCycle(s)
    BY <1>4 DEF IsCycle
  <2> QED BY <1>4, <2>1 DEF CyclesTrue, IsCycle
<1> QED BY <1>10, <1>11, <1>12, <1>13, <1>14 DEF SearchInv

(* The top of the path is left when its references are all tried.          *)
LEMMA LeftBehind ==
    ASSUME SearchInv, Leave
    PROVE  SearchInv'
<1> DEFINE L == Len(path)
<1> DEFINE x == path[L]
<1>1. /\ path # <<>> /\ left[L] = {} /\ path' = Front(path) /\ left' = Front(left)
      /\ text' = text /\ seen' = seen /\ cycles' = cycles
  BY DEF Leave
<1>2. path \in Seq(GraphNames) /\ left \in Seq(SUBSET GraphNames) /\ Len(left) = L
  BY DEF SearchInv, SearchTypes, PathInv
<1>3. /\ path' \in Seq(GraphNames) /\ Len(path') = L - 1 /\ L \in DOMAIN path
      /\ DOMAIN path' = DOMAIN path \ {L}
      /\ \A i \in DOMAIN path' : path'[i] = path[i]
  BY <1>1, <1>2, FrontIs
<1>4. /\ left' \in Seq(SUBSET GraphNames) /\ Len(left') = L - 1 /\ DOMAIN left' = DOMAIN path'
      /\ \A i \in DOMAIN left' : left'[i] = left[i]
  <2>1. left # <<>>
    BY <1>1, <1>2
  <2>2. DOMAIN left = DOMAIN path
    BY <1>2
  <2> QED BY <1>1, <1>2, <1>3, <2>1, <2>2, FrontIs, ZenonT(30)
<1>5. L + 1 \notin DOMAIN path
  BY <1>2
<1> HIDE DEF L
<1>6. GraphNames' = GraphNames /\ \A u : Neighbours(u)' = Neighbours(u)
  BY <1>1, SameText
<1>7. \A i \in DOMAIN path' : path[i] # x
  BY <1>3 DEF SearchInv, PathInv
<1>8. OnPath' = OnPath \ {x} /\ x \in OnPath
  BY <1>3, <1>7 DEF OnPath
<1>9. Left' = Left \cup {x} /\ x \notin Left
  BY <1>1, <1>8 DEF Left, SearchInv, PathInv
<1>10. \A v \in Neighbours(x) : Settled(x, v)
  BY <1>1, <1>3, <1>5 DEF SearchInv, Tries
<1>11. \A u, v : Closes(u, v)' <=> Closes(u, v)
  BY <1>1 DEF Closes
<1>12. \A u, v : Settled(u, v) => Settled(u, v)'
  BY <1>9, <1>11 DEF Settled
<1> HIDE DEF x
<1>13. SearchTypes'
  BY <1>1, <1>3, <1>4, <1>6 DEF SearchInv, SearchTypes
<1>14. PathInv'
  <2>1. OnPath' \subseteq seen'
    BY <1>1, <1>8 DEF SearchInv, PathInv
  <2> QED BY <1>3, <1>4, <1>6, <2>1 DEF SearchInv, PathInv
<1>15. Tries'
  <2>1. ASSUME NEW u \in Left', NEW v \in Neighbours(u) PROVE Settled(u, v)'
    BY <1>9, <1>10, <1>12 DEF SearchInv, Tries
  <2>2. ASSUME NEW i \in DOMAIN path', NEW v \in Neighbours(path'[i]) \ left'[i], NEW u, u = path'[i]
        PROVE  Settled(u, v)' \/ (i + 1 \in DOMAIN path' /\ v = path'[i + 1])
    <3>1. Settled(u, v) \/ (i + 1 \in DOMAIN path /\ v = path[i + 1])
      BY <1>3, <1>4, <2>2 DEF SearchInv, Tries
    <3>2. CASE i + 1 = L
      <4>1. Settled(u, v) \/ v \in Left'
        BY <1>9, <3>1, <3>2 DEF x
      <4> QED BY <1>12, <4>1 DEF Settled
    <3>3. CASE i + 1 # L
      <4>1. i + 1 \in DOMAIN path => i + 1 \in DOMAIN path' /\ path'[i + 1] = path[i + 1]
        BY <1>3, <3>3
      <4> QED BY <1>12, <3>1, <4>1
    <3> QED BY <3>2, <3>3
  <2> QED BY <1>6, <2>1, <2>2 DEF Tries, Settled, Closes
<1>16. Peeled'
  <2>1. ASSUME NEW S \in SUBSET (Left'), S # {}
        PROVE  \E u \in S : \A v \in Neighbours(u) \cap S : Closes(u, v)
    <3>1. CASE x \notin S
      <4>1. S \in SUBSET Left
        BY <1>9, <3>1
      <4> QED BY <2>1, <4>1 DEF SearchInv, Peeled
    <3>2. CASE S = {x}
      <4>1. \A v \in Neighbours(x) \cap S : Closes(x, v)
        BY <1>9, <1>10, <3>2 DEF Settled
      <4> QED BY <3>2, <4>1
    <3>3. CASE x \in S /\ S # {x}
      <4>1. S \ {x} \in SUBSET Left /\ S \ {x} # {}
        BY <1>9, <3>3
      <4>2. PICK u \in S \ {x} : \A v \in Neighbours(u) \cap (S \ {x}) : Closes(u, v)
        BY <4>1 DEF SearchInv, Peeled
      <4>3. x \in Neighbours(u) => Closes(u, x)
        <5>1. u \in Left
          BY <4>1
        <5>2. x \in Neighbours(u) => Settled(u, x)
          BY <5>1 DEF SearchInv, Tries
        <5> QED BY <1>9, <5>2 DEF Settled
      <4>4. \A v \in Neighbours(u) \cap S : Closes(u, v)
        BY <4>2, <4>3
      <4> QED BY <4>2, <4>4
    <3> QED BY <2>1, <3>1, <3>2, <3>3
  <2> QED BY <1>6, <1>11, <2>1 DEF Peeled
<1>17. CyclesTrue'
  BY <1>1, <1>6 DEF SearchInv, CyclesTrue, IsCycle
<1> QED BY <1>13, <1>14, <1>15, <1>16, <1>17 DEF SearchInv

LEMMA SearchStep ==
    ASSUME SearchInv, [RefNext]_refVars
    PROVE  SearchInv'
<1>1. CASE StartSearch \/ ReportCycles \/ FindDuplicates \/ LintedSkill \/ CheckCommand \/ CheckAgent
           \/ UNCHANGED refVars
  <2>1. UNCHANGED <<text, seen, path, left, cycles>>
    BY <1>1 DEF StartSearch, ReportCycles, FindDuplicates, LintedSkill, CheckCommand, CheckAgent,
                refVars, dfsVars
  <2> QED BY <2>1, StayingSearch
<1> QED BY <1>1, RootTaken, Descended, Revisited, LeftBehind DEF RefNext

(* Of the cycles over the same names, the one found first.                 *)
First == {k \in DOMAIN cycles : \A h \in 1 .. k - 1 : Range(cycles[h]) # Range(cycles[k])}

(* The first skill has the finished search and the duplicates told of.     *)
ToldInv ==
    /\ next \in Nat \ {0}
    /\ search = "done" => /\ path = <<>> /\ GraphNames \subseteq seen
                          /\ \A k \in First : [cycle |-> cycles[k]] \in raised
    /\ \A r \in raised : "cycle" \in DOMAIN r =>
          search = "done" /\ \E k \in First : r = [cycle |-> cycles[k]]
    /\ marked => Duplicates \subseteq raised
    /\ \A j \in DOMAIN Linted : j < next /\ Kind[Linted[j]] = "skill" => search = "done" /\ marked

LEMMA ToldStart ==
    ASSUME RefInit
    PROVE  ToldInv
BY RefConstants DEF RefInit, ToldInv

(* The other reports are no cycles.                                        *)
LEMMA NoCycle ==
    /\ \A r \in Duplicates : "cycle" \notin DOMAIN r
    /\ \A c, n : "cycle" \notin DOMAIN [command |-> c, name |-> n]
    /\ \A a, x : "cycle" \notin DOMAIN [agent |-> a, ref |-> x]
<1>1. ASSUME NEW n \in KnownSkills, NEW r \in DuplicatesOf(n) PROVE "cycle" \notin DOMAIN r
  <2>1. \E d : r = [duplicate |-> n, divergent |-> d]
    BY DEF DuplicatesOf
  <2> QED BY <2>1
<1>2. \A r \in Duplicates : \E n \in KnownSkills : r \in DuplicatesOf(n)
  BY DEF Duplicates
<1> QED BY <1>1, <1>2

LEMMA ToldStep ==
    ASSUME ToldInv, [RefNext]_refVars
    PROVE  ToldInv'
<1>1. text' = text
  BY DEF RefNext, refVars, StartSearch, TakeRoot, Descend, Revisit, Leave, ReportCycles, FindDuplicates,
         LintedSkill, CheckCommand, CheckAgent
<1>2. GraphNames' = GraphNames /\ Duplicates' = Duplicates
  BY <1>1, SameText
<1>3. CASE StartSearch \/ TakeRoot \/ (\E n \in GraphNames : Descend(n) \/ Revisit(n)) \/ Leave
  <2>1. search # "done" /\ search' # "done" /\ next' = next /\ marked' = marked /\ raised' = raised
    BY <1>3 DEF StartSearch, TakeRoot, Descend, Revisit, Leave, Pending
  <2> QED BY <1>2, <2>1 DEF ToldInv
<1>4. ASSUME UNCHANGED dfsVars
      PROVE  First' = First
  BY <1>4 DEF First, dfsVars
<1>5. CASE ReportCycles
  <2>1. /\ path' = path /\ path = <<>> /\ GraphNames \subseteq seen /\ seen' = seen /\ cycles' = cycles
        /\ search # "done" /\ search' = "done" /\ next' = next /\ marked' = marked
        /\ raised' = raised \cup {[cycle |-> cycles[k]] : k \in First}
    BY <1>5 DEF ReportCycles, First
  <2>2. First' = First
    BY <2>1 DEF First
  <2>3. \A k \in First : [cycle |-> cycles'[k]] \in raised'
    BY <2>1
  <2>4. \A r \in raised' : "cycle" \in DOMAIN r => \E k \in First : r = [cycle |-> cycles'[k]]
    BY <2>1 DEF ToldInv
  <2> QED BY <1>2, <2>1, <2>2, <2>3, <2>4 DEF ToldInv
<1>6. CASE FindDuplicates
  <2>1. next' = next /\ UNCHANGED dfsVars /\ raised' = raised \cup Duplicates
    BY <1>6 DEF FindDuplicates
  <2>2. \A j \in DOMAIN Linted : j < next /\ Kind[Linted[j]] = "skill" => marked'
    BY <1>6 DEF FindDuplicates
  <2> QED BY <1>2, <1>4, <2>1, <2>2, NoCycle DEF ToldInv, dfsVars
<1>7. CASE LintedSkill
  <2>1. /\ next' = next + 1 /\ UNCHANGED dfsVars /\ raised' = raised /\ marked' = marked
        /\ search = "done" /\ marked
    BY <1>7 DEF LintedSkill
  <2> QED BY <1>2, <1>4, <2>1 DEF ToldInv, dfsVars
<1>8. ASSUME next \in DOMAIN Linted, Kind[Linted[next]] # "skill", next' = next + 1, UNCHANGED dfsVars,
             marked' = marked, raised \subseteq raised',
             \A r \in raised' : r \in raised \/ "cycle" \notin DOMAIN r
      PROVE  ToldInv'
  <2>1. next' \in Nat \ {0} /\ \A j \in DOMAIN Linted : j < next' => j < next \/ j = next
    BY <1>8, RefConstants
  <2>2. \A j \in DOMAIN Linted : j < next' /\ Kind[Linted[j]] = "skill" => search' = "done" /\ marked'
    BY <1>8, <2>1 DEF ToldInv, dfsVars
  <2> QED BY <1>2, <1>4, <1>8, <2>1, <2>2 DEF ToldInv, dfsVars
<1>9. CASE CheckCommand
  <2> DEFINE idx == Asked(LintedCommands)[1]
             new == {[command |-> Linted[next], name |-> n] :
                       n \in {m \in text.invoked[Linted[next]] :
                                /\ m # DirName[Linted[next]]
                                /\ m \notin idx.agents \cup idx.commands
                                /\ Missing(Plain(m), idx)}}
  <2>1. /\ next \in DOMAIN Linted /\ Kind[Linted[next]] # "skill" /\ next' = next + 1 /\ UNCHANGED dfsVars
        /\ marked' = marked
    BY <1>9, RefConstants DEF CheckCommand, UpNext, ToldInv
  <2>2. raised' = raised \/ raised' = raised \cup new
    BY <1>9 DEF CheckCommand
  <2>3. \A r \in new : "cycle" \notin DOMAIN r
    BY NoCycle
  <2> HIDE DEF new
  <2> QED BY <1>8, <2>1, <2>2, <2>3
<1>10. CASE CheckAgent
  <2> DEFINE idx == Asked({})[1]
             new == {[agent |-> Linted[next], ref |-> r] :
                       r \in {x \in text.listed[Linted[next]] : ~text.submodule /\ Missing(x, idx)}}
  <2>1. /\ next \in DOMAIN Linted /\ Kind[Linted[next]] # "skill" /\ next' = next + 1 /\ UNCHANGED dfsVars
        /\ marked' = marked
    BY <1>10, RefConstants DEF CheckAgent, UpNext, ToldInv
  <2>2. raised' = raised \/ raised' = raised \cup new
    BY <1>10 DEF CheckAgent
  <2>3. \A r \in new : "cycle" \notin DOMAIN r
    BY NoCycle
  <2> HIDE DEF new
  <2> QED BY <1>8, <2>1, <2>2, <2>3
<1>11. CASE UNCHANGED refVars
  BY <1>2, <1>4, <1>11 DEF ToldInv, refVars, dfsVars
<1> QED BY <1>3, <1>5, <1>6, <1>7, <1>9, <1>10, <1>11 DEF RefNext

(* A name has a writer, and its references count.                          *)
LEMMA WriterIs ==
    ASSUME NEW n \in GraphNames
    PROVE  Writer(n) \in Writers /\ DirName[Writer(n)] = n
<1>1. PICK c \in Writers : DirName[c] = n
  BY DEF GraphNames
<1>2. PICK i \in DOMAIN Linted : Linted[i] = c
  BY <1>1 DEF Writers, OfKind, LintedComps, Range
<1>3. Places(n) # {} /\ \A p \in Places(n) : p \in Nat /\ p <= Len(Linted) /\ Len(Linted) \in Nat
  BY <1>1, <1>2, RefConstants DEF Places
<1> DEFINE T == {Len(Linted) - p : p \in Places(n)}
<1>4. T \in SUBSET Nat /\ T # {}
  BY <1>3
<1>5. PICK t \in T : \A q \in T : t <= q
  <2> HIDE DEF T
  <2> QED BY <1>4, LeastNat
<1>6. PICK m \in Places(n) : t = Len(Linted) - m
  BY <1>5
<1>7. \A p \in Places(n) : m >= p
  <2>1. ASSUME NEW p \in Places(n) PROVE m >= p
    <3>1. Len(Linted) - m <= Len(Linted) - p
      BY <1>5, <1>6
    <3> QED BY <1>3, <3>1
  <2> QED BY <2>1
<1>8. Max(Places(n)) \in Places(n)
  BY <1>7 DEF Max
<1> QED BY <1>8 DEF Writer, Places

LEMMA References ==
    ASSUME NEW n \in GraphNames
    PROVE  /\ Neighbours(n) \subseteq RefersTo(n)
           /\ ~Shared(n) => RefersTo(n) \subseteq Neighbours(n)
<1>1. Neighbours(n) \subseteq RefersTo(n)
  BY WriterIs DEF Neighbours, RefersTo
<1>2. ASSUME ~Shared(n), NEW m \in RefersTo(n) PROVE m \in Neighbours(n)
  <2>1. PICK c \in Writers : DirName[c] = n /\ m \in text.refs[c]
    BY DEF RefersTo
  <2>2. c = Writer(n)
    BY <1>2, <2>1, WriterIs DEF Shared
  <2> QED BY <2>1, <2>2 DEF Neighbours, RefersTo
<1> QED BY <1>1, <1>2

(* What a name leads to: its references, and what they lead to.            *)
LEMMA LeadsClosed ==
    ASSUME NEW n, NEW x \in Leads(n)
    PROVE  RefersTo(x) \subseteq Leads(n)
<1> SUFFICES ASSUME NEW y \in RefersTo(x), NEW S \in SUBSET GraphNames, RefersTo(n) \subseteq S,
                    \A z \in S : RefersTo(z) \subseteq S
             PROVE  y \in S
  BY DEF Leads, RefersTo
<1>1. x \in S
  BY DEF Leads
<1> QED BY <1>1

LEMMA LeadsAtOnce ==
    ASSUME NEW n, NEW y \in RefersTo(n)
    PROVE  y \in Leads(n)
BY DEF Leads, RefersTo

LEMMA LeadsOn ==
    ASSUME NEW n, NEW y \in RefersTo(n), NEW z \in Leads(y)
    PROVE  z \in Leads(n)
<1> SUFFICES ASSUME NEW S \in SUBSET GraphNames, RefersTo(n) \subseteq S, \A x \in S : RefersTo(x) \subseteq S
             PROVE  z \in S
  BY DEF Leads
<1>1. RefersTo(y) \subseteq S
  OBVIOUS
<1> QED BY <1>1 DEF Leads

LEMMA LeadsOverOne ==
    ASSUME NEW u, NEW n \in Leads(u)
    PROVE  \E v \in RefersTo(u) : v = n \/ n \in Leads(v)
<1> DEFINE T == {z \in GraphNames : \E v \in RefersTo(u) : v = z \/ z \in Leads(v)}
<1>1. RefersTo(u) \subseteq T
  BY DEF RefersTo
<1>2. ASSUME NEW z \in T PROVE RefersTo(z) \subseteq T
  <2>1. PICK v \in RefersTo(u) : v = z \/ z \in Leads(v)
    OBVIOUS
  <2>2. \A y \in RefersTo(z) : y \in Leads(v) /\ y \in GraphNames
    BY <2>1, LeadsClosed, LeadsAtOnce DEF Leads
  <2> QED BY <2>1, <2>2
<1>3. n \in T
  <2>1. T \in SUBSET GraphNames
    OBVIOUS
  <2> HIDE DEF T
  <2> QED BY <1>1, <1>2, <2>1 DEF Leads
<1> QED BY <1>3

(* A cycle that a name of a circle closes lies in the circle.              *)
LEMMA CycleInCircle ==
    ASSUME NEW n \in GraphNames, NEW s \in Seq(GraphNames), IsCycle(s),
           s[1] \in Leads(n), n \in Leads(s[Len(s)])
    PROVE  Range(s) \subseteq Circle(n)
<1>1. Len(s) \in Nat \ {0} /\ DOMAIN s = 1 .. Len(s) /\ \A i \in DOMAIN s : s[i] \in GraphNames
  BY DEF IsCycle
<1>2. ASSUME NEW i \in DOMAIN s, i # Len(s)
      PROVE  i + 1 \in DOMAIN s /\ s[i + 1] \in RefersTo(s[i])
  <2>1. i % Len(s) = i
    BY <1>1, <1>2, AroundOnce
  <2>2. s[i + 1] \in Neighbours(s[i])
    BY <2>1 DEF IsCycle
  <2> QED BY <1>1, <1>2, <2>2, References
<1>3. \A i \in DOMAIN s : s[i] \in Leads(n)
  <2> DEFINE T == {i \in DOMAIN s : s[i] \notin Leads(n)}
  <2> SUFFICES ASSUME T # {} PROVE FALSE
    OBVIOUS
  <2>1. T \in SUBSET Nat
    BY <1>1
  <2>2. PICK m \in T : \A i \in T : m <= i
    <3> HIDE DEF T
    <3> QED BY <2>1, LeastNat
  <2>3. m # 1 /\ m \in Nat
    BY <1>1
  <2>4. m - 1 \in DOMAIN s /\ m - 1 # Len(s) /\ m - 1 \notin T
    BY <1>1, <2>2, <2>3
  <2>5. s[m - 1] \in Leads(n) /\ s[(m - 1) + 1] \in RefersTo(s[m - 1]) /\ (m - 1) + 1 = m
    BY <1>2, <2>3, <2>4
  <2>6. s[m] \in Leads(n)
    BY <2>5, LeadsClosed
  <2> QED BY <2>6
<1>4. \A i \in DOMAIN s : n \in Leads(s[i])
  <2> DEFINE T == {j \in 0 .. Len(s) - 1 : n \notin Leads(s[Len(s) - j])}
  <2> SUFFICES ASSUME T # {} PROVE FALSE
    <3>1. ASSUME NEW i \in DOMAIN s, n \notin Leads(s[i]) PROVE FALSE
      <4>1. Len(s) - i \in 0 .. Len(s) - 1 /\ Len(s) - (Len(s) - i) = i
        BY <1>1
      <4> QED BY <3>1, <4>1
    <3> QED BY <3>1
  <2>1. T \in SUBSET Nat
    BY <1>1
  <2>2. PICK m \in T : \A i \in T : m <= i
    <3> HIDE DEF T
    <3> QED BY <2>1, LeastNat
  <2>3. m # 0 /\ m \in Nat /\ m <= Len(s) - 1
    <3>1. Len(s) - 0 = Len(s)
      BY <1>1
    <3> QED BY <1>1, <3>1
  <2>4. m - 1 \in 0 .. Len(s) - 1 /\ m - 1 \notin T
    BY <1>1, <2>2, <2>3, SMTT(30)
  <2> DEFINE i == Len(s) - m
  <2> HIDE DEF T
  <2>5. i \in DOMAIN s /\ i # Len(s) /\ Len(s) - (m - 1) = i + 1
    <3> DEFINE l == Len(s)
    <3>1. l \in Nat /\ m \in Nat /\ m # 0 /\ m <= l - 1
      BY <1>1, <2>3
    <3> HIDE DEF l
    <3>2. l - m \in 1 .. l /\ l - m # l /\ l - (m - 1) = (l - m) + 1
      BY <3>1
    <3> QED BY <1>1, <3>2 DEF l
  <2>6. n \in Leads(s[i + 1])
    BY <2>4, <2>5 DEF T
  <2>7. n \in Leads(s[i])
    BY <1>2, <2>5, <2>6, LeadsOn
  <2>8. n \notin Leads(s[i])
    BY <2>2 DEF T
  <2> QED BY <2>7, <2>8
<1> QED BY <1>3, <1>4 DEF Range, Circle

(* Two writers of a name are two skills of it, or one is a command.        *)
LEMMA SharedTold ==
    ASSUME NEW m, Shared(m), Duplicates \subseteq raised
    PROVE  m \in DuplicateReports \cup LintedCommands
<1>1. PICK c \in Writers, d \in Writers : c # d /\ DirName[c] = m /\ DirName[d] = m
  BY DEF Shared
<1>2. CASE c \in OfKind("command") \/ d \in OfKind("command")
  BY <1>1, <1>2 DEF LintedCommands
<1>3. CASE c \in LintedSkills /\ d \in LintedSkills
  <2> DEFINE group == {e \in LintedSkills : DirName[e] = m}
  <2>1. IsFiniteSet(group)
    <3>1. group \subseteq LintedComps
      BY DEF LintedSkills, OfKind
    <3> QED BY <3>1, RefConstants, FS_Subset
  <2>2. {c, d} \subseteq group
    BY <1>1, <1>3
  <2>3. Cardinality({c, d}) = 2
    <3>1. IsFiniteSet({c}) /\ Cardinality({c}) = 1
      BY FS_Singleton
    <3>2. d \notin {c} /\ {c} \cup {d} = {c, d}
      BY <1>1
    <3> QED BY <3>1, <3>2, FS_AddElement
  <2>4. ~(Cardinality(group) < 2)
    <3>1. Cardinality({c, d}) <= Cardinality(group) /\ Cardinality(group) \in Nat
      BY <2>1, <2>2, FS_Subset, FS_CardinalityType
    <3> QED BY <2>3, <3>1
  <2>5. m \in KnownSkills
    BY <1>1, <1>3 DEF KnownSkills
  <2> DEFINE r == [duplicate |-> m, divergent |-> Cardinality({text.raw[e] : e \in group}) > 1]
  <2>6. r \in DuplicatesOf(m)
    BY <2>4 DEF DuplicatesOf
  <2>7. r.duplicate = m /\ "duplicate" \in DOMAIN r
    OBVIOUS
  <2> HIDE DEF r
  <2>8. r \in raised
    BY <2>5, <2>6 DEF Duplicates
  <2> QED BY <2>7, <2>8 DEF DuplicateReports
<1> QED BY <1>1, <1>2, <1>3 DEF Writers, LintedSkills

(* In whatever order the search takes the references: it tells of cycles   *)
(* that are, once each, and of one in every circle of names; where two     *)
(* components share a name of the circle, that is told or a command.       *)
THEOREM CirclesTold == RefSpec => []CyclesReported
<1>1. ASSUME SearchInv, ToldInv
      PROVE  CyclesReported
  <2> SUFFICES ASSUME next > Len(Linted), LintedSkills # {}
               PROVE  /\ \A s \in CycleReports :
                           /\ \A i, j \in DOMAIN s : s[i] = s[j] => i = j
                           /\ \A i \in DOMAIN s : s[(i % Len(s)) + 1] \in Neighbours(s[i])
                           /\ \A t \in CycleReports : Range(s) = Range(t) => s = t
                      /\ \A n \in GraphNames : n \in Leads(n) =>
                           \/ \E s \in CycleReports : Range(s) \subseteq Circle(n)
                           \/ \E m \in Circle(n) : Shared(m) /\ m \in DuplicateReports \cup LintedCommands
    BY DEF CyclesReported
  <2>1. search = "done" /\ marked
    <3>1. PICK c \in LintedSkills : TRUE
      OBVIOUS
    <3>2. PICK j \in DOMAIN Linted : Linted[j] = c
      BY <3>1 DEF LintedSkills, OfKind, LintedComps, Range
    <3>3. j < next /\ Kind[Linted[j]] = "skill"
      BY <1>1, <3>2, RefConstants DEF ToldInv, LintedSkills, OfKind
    <3> QED BY <1>1, <3>2, <3>3 DEF ToldInv
  <2>2. \A s \in CycleReports : \E k \in First : s = cycles[k]
    BY <1>1 DEF ToldInv, CycleReports
  <2>3. \A k \in First : cycles[k] \in CycleReports
    <3>1. ASSUME NEW k \in First PROVE cycles[k] \in CycleReports
      <4> DEFINE r == [cycle |-> cycles[k]]
      <4>1. r \in raised /\ r.cycle = cycles[k] /\ "cycle" \in DOMAIN r
        BY <1>1, <2>1 DEF ToldInv
      <4> HIDE DEF r
      <4> QED BY <4>1 DEF CycleReports
    <3> QED BY <3>1
  <2>4. DOMAIN cycles = 1 .. Len(cycles) /\ Len(cycles) \in Nat /\ \A k \in DOMAIN cycles : cycles[k] \in Seq(GraphNames)
    BY <1>1 DEF SearchInv, SearchTypes
  <2>5. ASSUME NEW s \in CycleReports
        PROVE  /\ \A i, j \in DOMAIN s : s[i] = s[j] => i = j
               /\ \A i \in DOMAIN s : s[(i % Len(s)) + 1] \in Neighbours(s[i])
               /\ \A t \in CycleReports : Range(s) = Range(t) => s = t
    <3>1. PICK k \in First : s = cycles[k]
      BY <2>2
    <3>2. IsCycle(s)
      BY <1>1, <3>1 DEF SearchInv, CyclesTrue, First
    <3>3. ASSUME NEW t \in CycleReports, Range(s) = Range(t) PROVE s = t
      <4>1. PICK h \in First : t = cycles[h]
        BY <2>2
      <4>2. k \in 1 .. Len(cycles) /\ h \in 1 .. Len(cycles)
        BY <2>4 DEF First
      <4>3. k \notin 1 .. h - 1 /\ h \notin 1 .. k - 1
        BY <3>1, <3>3, <4>1 DEF First
      <4>4. k = h
        BY <2>4, <4>2, <4>3
      <4> QED BY <3>1, <4>1, <4>4
    <3> QED BY <3>2, <3>3 DEF IsCycle
  <2>6. ASSUME NEW n \in GraphNames, n \in Leads(n), \A m \in Circle(n) : ~Shared(m)
        PROVE  \E s \in CycleReports : Range(s) \subseteq Circle(n)
    <3>1. Circle(n) \in SUBSET Left /\ Circle(n) # {} /\ Circle(n) \subseteq GraphNames
      <4>1. OnPath = {} /\ GraphNames \subseteq seen
        BY <1>1, <2>1 DEF ToldInv, OnPath
      <4> QED BY <2>6, <4>1 DEF Circle, Leads, Left
    <3>2. PICK u \in Circle(n) : \A v \in Neighbours(u) \cap Circle(n) : Closes(u, v)
      BY <1>1, <3>1 DEF SearchInv, Peeled
    <3>3. u \in Leads(n) /\ n \in Leads(u) /\ u \in GraphNames
      BY <3>1, <3>2 DEF Circle
    <3>4. PICK v \in RefersTo(u) : v = n \/ n \in Leads(v)
      BY <3>3, LeadsOverOne
    <3>5. v \in Leads(n)
      BY <3>3, <3>4, LeadsClosed
    <3>6. v \in Circle(n) /\ v \in Neighbours(u)
      BY <2>6, <3>2, <3>3, <3>4, <3>5, References DEF Circle
    <3>7. PICK k \in DOMAIN cycles : cycles[k][1] = v /\ cycles[k][Len(cycles[k])] = u
      BY <3>2, <3>6 DEF Closes
    <3>8. Range(cycles[k]) \subseteq Circle(n)
      BY <1>1, <2>4, <3>3, <3>5, <3>7, CycleInCircle DEF SearchInv, CyclesTrue
    <3> DEFINE T == {h \in DOMAIN cycles : Range(cycles[h]) = Range(cycles[k])}
    <3>9. PICK f \in T : \A h \in T : f <= h
      <4>1. T \in SUBSET Nat /\ T # {}
        BY <2>4, <3>7
      <4> HIDE DEF T
      <4> QED BY <4>1, LeastNat
    <3>10. f \in First
      <4>1. ASSUME NEW h \in 1 .. f - 1 PROVE Range(cycles[h]) # Range(cycles[f])
        <5>1. h \in DOMAIN cycles /\ ~(f <= h)
          BY <2>4, <3>9
        <5> QED BY <3>9, <5>1
      <4> QED BY <3>9, <4>1 DEF First
    <3> QED BY <2>3, <3>8, <3>9, <3>10
  <2>7. ASSUME NEW n \in GraphNames, n \in Leads(n), NEW m \in Circle(n), Shared(m)
        PROVE  \E w \in Circle(n) : Shared(w) /\ w \in DuplicateReports \cup LintedCommands
    BY <1>1, <2>1, <2>7, SharedTold DEF ToldInv
  <2> QED BY <2>5, <2>6, <2>7
<1>2. RefInit => SearchInv /\ ToldInv
  BY SearchStarts, ToldStart
<1>3. SearchInv /\ ToldInv /\ [RefNext]_refVars => (SearchInv /\ ToldInv)'
  BY SearchStep, ToldStep
<1> QED BY <1>1, <1>2, <1>3, PTL DEF RefSpec

=============================================================================
