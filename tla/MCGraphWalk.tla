---------------------------- MODULE MCGraphWalk ----------------------------
(***************************************************************************)
(* The two walks over graphs of names, each on its own: reachable_from on  *)
(* every graph of three nodes and at most MaxEdges edges, in every order;  *)
(* and the reference rules on four names borne by five or six components  *)
(* with a body, in every order in which the sets of references may come.   *)
(***************************************************************************)
EXTENDS GraphWalk, ReferenceRules

CONSTANT MaxEdges

MCEdges == [source : Nodes, target : Nodes, confidence : {35, 100}]
MCEdgeLists == UNION {[1..n -> MCEdges] : n \in 0..MaxEdges}
MCThresholds == {0, 100}

-----------------------------------------------------------------------------
(* Two skills of one name, and a command called like a skill. *)
MCLinted == <<"skillA", "copyA", "skillB", "skillC", "commandD", "commandB", "agent">>
MCKind == [skillA |-> "skill", copyA |-> "skill", skillB |-> "skill", skillC |-> "skill",
           commandD |-> "command", commandB |-> "command", agent |-> "agent"]
MCDirName == [skillA |-> "a", copyA |-> "a", skillB |-> "b", skillC |-> "c",
              commandD |-> "d", commandB |-> "b", agent |-> "r"]

Plainly(n) == [plugin |-> "", fits |-> {n}, plain |-> TRUE]
Base == [bodies |-> LintedComps, refs |-> [c \in LintedComps |-> {}],
         raw |-> [c \in LintedComps |-> c], declared |-> [c \in LintedComps |-> {}],
         listed |-> [c \in LintedComps |-> {}], invoked |-> [c \in LintedComps |-> {}],
         spare |-> {"s"}, agents |-> {"r"}, commands |-> {"k"},
         buried |-> FALSE, submodule |-> FALSE]

(* References between the bodies. *)
MCRefs == [skillA : {{}, {"b"}, {"b", "c"}}, copyA : {{}, {"c"}},
           skillB : {{"c"}, {"a", "c"}, {"d"}}, skillC : {{}, {"a"}, {"a", "d"}, {"b"}},
           commandD : {{"a"}, {"b", "c"}}, commandB : {{"a"}}, agent : {{}}]
CycleTexts ==
    {[Base EXCEPT !.refs = refs, !.bodies = bodies, !.raw["copyA"] = raw] :
        refs \in MCRefs, bodies \in {LintedComps \ D : D \in {{"copyA"}, {"commandB"}, {"copyA", "commandB"}}},
        raw \in {"copyA", "skillA"}}

(* What an agent lists and a command invokes, against what the tree has.   *)
References == {Plainly("b"), Plainly("title"), Plainly("s"), Plainly("x"), Plainly(""),
               [plugin |-> "own", fits |-> {"x"}, plain |-> FALSE],
               [plugin |-> "other", fits |-> {"x"}, plain |-> FALSE],
               [plugin |-> "", fits |-> {"a", "b"}, plain |-> FALSE]}
NameTexts ==
    {[Base EXCEPT !.listed["agent"] = listed, !.invoked["commandB"] = invoked, !.bodies = bodies,
                  !.declared["skillC"] = {"title"}, !.buried = buried, !.submodule = submodule] :
        listed \in {R \in SUBSET References : Cardinality(R) <= 2},
        invoked \in {{n} : n \in {"c", "title", "s", "r", "k", "x", "d"}},
        bodies \in {LintedComps, LintedComps \ {"commandD"}},
        buried \in BOOLEAN, submodule \in BOOLEAN}
MCTexts == CycleTexts \cup NameTexts

-----------------------------------------------------------------------------
WalkOver ==
    /\ arcs = <<>> /\ start = (CHOOSE n \in Nodes : TRUE) /\ minimum = 0
    /\ walk = "done" /\ stack = <<>> /\ visited = {} /\ current = start /\ at = 1
LintOver ==
    /\ text = [Base EXCEPT !.bodies = {}] /\ next = Len(Linted) + 1
    /\ search = "done" /\ seen = {} /\ path = <<>> /\ left = <<>> /\ cycles = <<>>
    /\ marked = TRUE /\ index = <<>> /\ raised = {}

MCInit == (WalkInit /\ LintOver) \/ (WalkOver /\ RefInit)
MCNext == (WalkNext /\ UNCHANGED refVars) \/ (RefNext /\ UNCHANGED walkVars)
MCSpec == MCInit /\ [][MCNext]_<<walkVars, refVars>> /\ WF_walkVars(WalkNext)
=============================================================================
