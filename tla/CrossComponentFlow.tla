------------------------- MODULE CrossComponentFlow -------------------------
(***************************************************************************)
(* inspection/rules/security/cross_component_flow.py: once per scan, the   *)
(* rule walks the component graph from every skill whose scripts can read  *)
(* credentials to whatever can transmit data, and looks for MCP servers    *)
(* that no configuration defines.  The graph's nodes carry the detected    *)
(* capabilities of the file they were last written for.                    *)
(***************************************************************************)
EXTENDS ComponentGraph

CONSTANT Detections   \* what the scripts of the skill directories may show

Capabilities == {"credential", "env", "network", "shell"}

ASSUME FlowConstants == Detections \subseteq [Comps -> SUBSET Capabilities]

VARIABLES
    caps,     \* caps[c]: capabilities detected in the scripts beside c
    flow,     \* "idle" or "checked": the flag of mark_once
    reports   \* xc_exfiltration: [source, target]; xc_mcp_phantom: [skill, server]

flowVars == <<caps, flow, reports>>

(* detected_capabilities: only the nodes of skills have any. *)
Detected(node) == IF Type[node.file] = "skill" THEN caps[node.file] ELSE {}

CanTransmit(node) ==
    "network" \in Detected(node) \/ Type[node.file] = "mcp"

(* Mutant of Reaches: only what the skill itself refers to. *)
ReachesDirectly(k) == {e.target : e \in {x \in edges : x.source = k}} \ {k}

(* reachable_from with min_confidence 1.0. *)
Reaches(k) == ReachableFrom(k, Explicit) \ {k}

GraphNodes == {table[i] : i \in DOMAIN table}

Readers == {n \in GraphNodes : Detected(n) \cap {"credential", "env"} # {}}

Exfiltrations ==
    UNION {LET reached == Reaches(s.key)
           IN  {[source |-> s.key, target |-> t.key] :
                  t \in {n \in GraphNodes : n.key \in reached /\ CanTransmit(n)}} :
           s \in Readers}

ConfiguredServers == {Named(n) : n \in {m \in GraphNodes : Type[m.file] = "mcp"}}

PhantomCalls ==
    UNION {{[skill |-> c, server |-> n] : n \in content.calls[c] \ ConfiguredServers} :
           c \in Skills}

FlowInit ==
    /\ Init
    /\ caps \in Detections /\ flow = "idle" /\ reports = {}

(* The rule runs while the first skill is linted, if at all. *)
CheckFlows ==
    /\ pc = "built" /\ flow = "idle" /\ Skills # {}
    /\ flow' = "checked"
    /\ reports' = IF Cardinality(NodeKeys) < 2 THEN {} ELSE Exfiltrations \cup PhantomCalls
    /\ UNCHANGED <<vars, caps>>

FlowNext == (Next /\ UNCHANGED flowVars) \/ CheckFlows

FlowSpec == FlowInit /\ [][FlowNext]_<<vars, flowVars>>

-----------------------------------------------------------------------------
(* What one component uses, from the files and not from the graph. *)
Uses(c, d) ==
    /\ Type[c] = "skill"
    /\ \/ Type[d] = "skill" /\ Name[d] \in content.refs[c] \ {Name[c]}
       \/ Type[d] = "mcp" /\ Name[d] \in content.calls[c]

Usable == {c \in Comps : Type[c] \in {"skill", "mcp"}}

(* By way of every component of a name: the text does not say which. *)
Chain(c) ==
    LET closed == {S \in SUBSET Usable : \A x \in S, y \in Usable \ S : ~Uses(x, y)}
    IN  {d \in Usable : \A S \in closed : c \in S => d \in S}

HasNode(c) == Node(c) \in GraphNodes

(* A skill that reads credentials and can hand them, over any number of    *)
(* explicit references, to a component that transmits is reported with it, *)
(* provided neither lost its node to a component of the same name.         *)
ExfiltrationReported ==
    \A c \in {s \in Skills : HasNode(s) /\ caps[s] \cap {"credential", "env"} # {}} :
       \A d \in Chain(c) :
          /\ HasNode(d) /\ KeyOf(c) # KeyOf(d)
          /\ Type[d] = "mcp" \/ (Type[d] = "skill" /\ "network" \in caps[d])
          => [source |-> KeyOf(c), target |-> KeyOf(d)] \in reports

(* A skill is reported for calling a server if and only if no MCP file     *)
(* configures that server.                                                 *)
PhantomsExact ==
    \A c \in Skills : \A n \in content.calls[c] :
       [skill |-> c, server |-> n] \in reports
         <=> ~ \E d \in Comps : Type[d] = "mcp" /\ Name[d] = n

(***************************************************************************)
(* The rule misses no chain from credentials to the network and no call of *)
(* an unknown server, and makes up none of the latter, whatever shares a   *)
(* name (_check_exfiltration, _check_mcp_phantom).                         *)
(***************************************************************************)
FlowsAreReported ==
    flow = "checked" /\ Cardinality(NodeKeys) > 1 =>
        ExfiltrationReported /\ PhantomsExact

=============================================================================
