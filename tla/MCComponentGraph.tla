-------------------------- MODULE MCComponentGraph --------------------------
(***************************************************************************)
(* Small setups for the graph and the flows over it.  Files: skills/a and  *)
(* skills/b, a copy of skill a for another tool, a command called a, an    *)
(* agent, a hooks file and an MCP configuration.                           *)
(***************************************************************************)
EXTENDS CrossComponentFlow

MCNames == {"a", "b", "r", "m", "hooks", "commands", "agents", ".claude",
            "settings", "root", ".mcp", "SKILL"}

About == [
    skillA  |-> <<"skill", "a", "a", "SKILL">>,
    skillB  |-> <<"skill", "b", "b", "SKILL">>,
    copyA   |-> <<"skill", "a", "a", "SKILL">>,
    command |-> <<"command", "a", "commands", "a">>,
    agent   |-> <<"agent", "r", "agents", "r">>,
    hooks   |-> <<"hooks", "hooks", ".claude", "settings">>,
    mcp     |-> <<"mcp", "m", "root", ".mcp">>]

MCType == [c \in Comps |-> About[c][1]]
MCName == [c \in Comps |-> About[c][2]]
MCParent == [c \in Comps |-> About[c][3]]
MCStem == [c \in Comps |-> About[c][4]]

(* Functions from Comps that are {} outside D. *)
Sparse(D, S) == {[c \in Comps |-> IF c \in D THEN f[c] ELSE {}] : f \in [D -> S]}

(* What a body may refer to; "r" is no skill. *)
Mentions == [skillA |-> {"b"}, skillB |-> {"a"}, copyA |-> {"b"},
             command |-> {"b", "r"}, agent |-> {"b"}, hooks |-> {"b"}, mcp |-> {}]

MCRefs == {[c \in Comps |-> IF c \in D THEN Mentions[c] ELSE {}] : D \in SUBSET Comps}

MCContents ==
    [refs : MCRefs, listed : Sparse({"agent"} \cap Comps, {{}, {"a"}}),
     calls : Sparse({"skillB"} \cap Comps, {{}, {"m", "r"}}),
     described : SUBSET {"skillA", "skillB"}]

(* One copy of a reads credentials, the other transmits, and variations. *)
Scripts(a, b, copy) ==
    [c \in Comps |-> CASE c = "skillA" -> a [] c = "skillB" -> b [] c = "copyA" -> copy
                       [] OTHER -> {}]
MCDetections ==
    { Scripts({"credential"}, {"network", "env"}, {"env"}),
      Scripts({"network"}, {"credential", "shell"}, {}) }
=============================================================================
