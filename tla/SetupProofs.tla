---------------------------- MODULE SetupProofs -----------------------------
(***************************************************************************)
(* What is found in a setup, and what its scripts are reported for, for    *)
(* every setup.                                                            *)
(*                                                                         *)
(* Discovery: DiscoveryInv says of every component where it comes from and *)
(* of every claim of an asked discoverer that nothing of it was lost.  It  *)
(* rests on what each discoverer claims: a part of what the inventory      *)
(* knows, attributed to the owner of the directory.                        *)
(*                                                                         *)
(* SkillScripts: no report of the script rules is made up (ReportsBacked)  *)
(* and no flow they follow is missed (FlowsReported).  taint-flow keeps in *)
(* its dictionary only names that a source reaches, and the shell rule     *)
(* marks only for variables that are set on the marked line; what a run of *)
(* the script has handed on when the walk comes by is in them.             *)
(***************************************************************************)
EXTENDS Discovery, SkillScripts, SequenceTheorems, WellFoundedInduction, TLAPS

(* A set of naturals has a least element: what the inductions rest on.     *)
LEMMA LeastNat ==
    ASSUME NEW T \in SUBSET Nat, T # {}
    PROVE  \E m \in T : \A n \in T : m <= n
<1> DEFINE R == OpToRel(<, Nat)
<1>1. IsWellFoundedOn(R, Nat)
  BY NatLessThanWellFounded
<1> HIDE DEF R
<1>2. PICK m \in T : \A n \in T : ~(<<n, m>> \in R)
  BY <1>1, WFMin
<1>3. ASSUME NEW n \in T PROVE m <= n
  <2>1. ~(n < m)
    BY <1>2 DEF R, OpToRel
  <2> QED BY <2>1
<1> QED BY <1>3

-----------------------------------------------------------------------------
ToolDirs == SweptDirs \ {"skills", "commands"}

(* The files of these that lie in one tool's directory lie below x.        *)
Placed(files, x) ==
    \A f \in files : f.base = "root" /\ f.dir # <<>> /\ ~NestedTool(f) => f.dir[1] = x

LEMMA TreeFacts ==
    ASSUME tree \in Trees, NEW f \in tree
    PROVE  f \in File /\ f.dir \in Seq(STRING) /\ Len(f.dir) \in Nat
BY DiscoveryConstants DEF File

LEMMA AtPlaced ==
    ASSUME NEW S, NEW p \in Seq(S), Len(p) > 0, p[1] # "*", NEW s, NEW e
    PROVE  Placed(At(p, s, e), p[1])
BY DEF Placed, At, InRoot, Named, Matches

LEMMA BelowPlaced ==
    ASSUME NEW S, NEW p \in Seq(S), Len(p) > 0, p[1] # "*", NEW s, NEW e
    PROVE  Placed(Below(p, s, e), p[1])
BY DEF Placed, Below, InRoot, Named, Begins

LEMMA DeepPlaced ==
    ASSUME tree \in Trees, NEW S, NEW p \in Seq(S), Len(p) > 0, p[1] \in ToolDirs, NEW s, NEW e
    PROVE  Placed(Deep(p, s, e), p[1])
<1> SUFFICES ASSUME NEW f \in Deep(p, s, e), f.dir # <<>>, ~NestedTool(f)
             PROVE  f.dir[1] = p[1]
  BY DEF Placed
<1>1. f \in tree /\ Ends(f.dir, p)
  BY DEF Deep, InRoot, Named
<1>2. Len(f.dir) \in Nat /\ Len(p) \in Nat \ {0} /\ 1 \in DOMAIN p
  BY <1>1, TreeFacts
<1> DEFINE i == Len(f.dir) - Len(p) + 1
<1>3. i \in 1 .. Len(f.dir) /\ p[1] \in {"*", f.dir[i]}
  BY <1>1, <1>2 DEF Ends
<1>4. p[1] # "*"
  BY DEF ToolDirs, SweptDirs
<1>5. f.dir[i] \in ToolDirs /\ f.dir[i] = p[1]
  BY <1>3, <1>4
<1>6. i \notin 2 .. Len(f.dir)
  BY <1>5 DEF NestedTool, ToolDirs
<1> QED BY <1>2, <1>3, <1>5, <1>6

LEMMA StarAfter ==
    ASSUME NEW S, NEW p \in Seq(S), Len(p) > 0, "*" \in S
    PROVE  /\ p \o <<"*">> \in Seq(S) /\ Len(p \o <<"*">>) = Len(p) + 1
           /\ (p \o <<"*">>)[Len(p) + 1] = "*"
           /\ \A i \in 1 .. Len(p) : (p \o <<"*">>)[i] = p[i]
           /\ (p \o <<"*">>)[1] = p[1]
<1>1. Len(p) \in Nat /\ DOMAIN p = 1 .. Len(p)
  OBVIOUS
<1>3. <<"*">> \in Seq(S) /\ Len(<<"*">>) = 1
  OBVIOUS
<1>4. p \o <<"*">> \in Seq(S) /\ Len(p \o <<"*">>) = Len(p) + 1
  BY <1>3
<1>5. DOMAIN (p \o <<"*">>) = 1 .. Len(p) + 1
  BY <1>1, <1>4
<1>6. ASSUME NEW i \in 1 .. Len(p) PROVE (p \o <<"*">>)[i] = p[i]
  BY <1>1, <1>3, <1>5
<1>7. (p \o <<"*">>)[Len(p) + 1] = "*"
  BY <1>1, <1>3, <1>5
<1>8. 1 \in 1 .. Len(p)
  BY <1>1
<1> QED BY <1>4, <1>6, <1>7, <1>8

(* A skill directory of a tool, anywhere, is one of the directories skills.*)
LEMMA DeepTail ==
    ASSUME tree \in Trees, NEW a
    PROVE  DeepSkills(<<a, "skills">>) \subseteq NestedSkills
<1> DEFINE S == {a, "skills", "*"}
           p == <<"skills">> \o <<"*">>
           q == <<a, "skills">> \o <<"*">>
<1>1. Len(p) = 2 /\ p[1] = "skills" /\ p[2] = "*" /\ DOMAIN p = 1 .. 2
  <2> DEFINE r == <<"skills">>
  <2>1. r \in Seq(S) /\ Len(r) = 1 /\ r[1] = "skills" /\ p = r \o <<"*">>
    OBVIOUS
  <2>2. "*" \in S
    OBVIOUS
  <2> HIDE DEF r, p, S
  <2>3. /\ r \o <<"*">> \in Seq(S) /\ Len(r \o <<"*">>) = Len(r) + 1
        /\ (r \o <<"*">>)[Len(r) + 1] = "*"
        /\ \A i \in 1 .. Len(r) : (r \o <<"*">>)[i] = r[i]
    <3>1. Len(r) > 0
      BY <2>1
    <3> QED BY <2>1, <2>2, <3>1, StarAfter
  <2> QED BY <2>1, <2>3
<1>2. Len(q) = 3 /\ q[2] = "skills" /\ q[3] = "*" /\ DOMAIN q = 1 .. 3
  <2> DEFINE r == <<a, "skills">>
  <2>1. r \in Seq(S) /\ Len(r) = 2 /\ r[2] = "skills" /\ q = r \o <<"*">>
    OBVIOUS
  <2>2. "*" \in S
    OBVIOUS
  <2> HIDE DEF r, q, S
  <2>3. /\ r \o <<"*">> \in Seq(S) /\ Len(r \o <<"*">>) = Len(r) + 1
        /\ (r \o <<"*">>)[Len(r) + 1] = "*"
        /\ \A i \in 1 .. Len(r) : (r \o <<"*">>)[i] = r[i]
    <3>1. Len(r) > 0
      BY <2>1
    <3> QED BY <2>1, <2>2, <3>1, StarAfter
  <2> QED BY <2>1, <2>3
<1> HIDE DEF p, q
<1>3. ASSUME NEW f \in Deep(q, "SKILL", {".md"}) PROVE f \in Deep(p, "SKILL", {".md"})
  <2>1. f \in tree /\ Ends(f.dir, q)
    BY DEF Deep, InRoot, Named
  <2>2. Len(f.dir) \in Nat /\ Len(f.dir) >= 3
    BY <1>2, <2>1, TreeFacts DEF Ends
  <2>3. "skills" \in {"*", f.dir[Len(f.dir) - 3 + 2]}
    BY <1>2, <2>1 DEF Ends
  <2>4. Len(f.dir) - 3 + 2 = Len(f.dir) - 2 + 1
    BY <2>2
  <2>5. Ends(f.dir, p)
    BY <1>1, <2>2, <2>3, <2>4 DEF Ends
  <2> QED BY <2>5 DEF Deep
<1> QED BY <1>3 DEF DeepSkills, NestedSkills, p, q

(* In the directory a pattern begins with, that one or the one below it.   *)
LEMMA PlacedOne ==
    ASSUME tree \in Trees, NEW a, a # "*"
    PROVE  /\ \A s, e : Placed(At(<<a>>, s, e), a)
           /\ a \in ToolDirs => \A s, e : Placed(Both(<<a>>, s, e), a)
           /\ Placed(SkillsAt(<<a>>), a) /\ Placed(CommandsAt(<<a>>), a)
<1> DEFINE S == {a, "*"}
           p == <<a>>
<1>1. p \in Seq(S) /\ Len(p) > 0 /\ p[1] = a /\ "*" \in S
  OBVIOUS
<1> HIDE DEF p, S
<1>2. p \o <<"*">> \in Seq(S) /\ Len(p \o <<"*">>) > 0 /\ (p \o <<"*">>)[1] = a
  <2>1. p \o <<"*">> \in Seq(S) /\ Len(p \o <<"*">>) = Len(p) + 1 /\ (p \o <<"*">>)[1] = p[1]
    BY <1>1, StarAfter
  <2> QED BY <1>1, <2>1
<1>3. \A s, e : Placed(At(p, s, e), a)
  BY <1>1, AtPlaced
<1>4. \A s, e : Placed(At(p \o <<"*">>, s, e), a)
  BY <1>2, AtPlaced
<1>5. a \in ToolDirs => \A s, e : Placed(Deep(p, s, e), a)
  BY <1>1, DeepPlaced
<1>6. a \in ToolDirs => \A s, e : Placed(Both(p, s, e), a)
  BY <1>3, <1>5 DEF Both, Placed
<1>7. Placed(SkillsAt(p), a)
  BY <1>4 DEF SkillsAt
<1>8. Placed(CommandsAt(p), a)
  BY <1>3, <1>4 DEF CommandsAt, Placed
<1> QED BY <1>3, <1>6, <1>7, <1>8 DEF p

LEMMA PlacedTwo ==
    ASSUME tree \in Trees, NEW a, NEW b, a # "*"
    PROVE  /\ \A s, e : Placed(At(<<a, b>>, s, e), a)
           /\ a \in ToolDirs => \A s, e : /\ Placed(Deep(<<a, b>>, s, e), a)
                                          /\ Placed(Both(<<a, b>>, s, e), a)
           /\ Placed(SkillsAt(<<a, b>>), a) /\ Placed(CommandsAt(<<a, b>>), a)
           /\ a \in ToolDirs => Placed(DeepSkills(<<a, b>>), a)
<1> DEFINE S == {a, b, "*"}
           p == <<a, b>>
<1>1. p \in Seq(S) /\ Len(p) > 0 /\ p[1] = a /\ "*" \in S
  OBVIOUS
<1> HIDE DEF p, S
<1>2. p \o <<"*">> \in Seq(S) /\ Len(p \o <<"*">>) > 0 /\ (p \o <<"*">>)[1] = a
  <2>1. p \o <<"*">> \in Seq(S) /\ Len(p \o <<"*">>) = Len(p) + 1 /\ (p \o <<"*">>)[1] = p[1]
    BY <1>1, StarAfter
  <2> QED BY <1>1, <2>1
<1>3. \A s, e : Placed(At(p, s, e), a)
  BY <1>1, AtPlaced
<1>4. \A s, e : Placed(At(p \o <<"*">>, s, e), a)
  BY <1>2, AtPlaced
<1>5. a \in ToolDirs => \A s, e : Placed(Deep(p, s, e), a)
  BY <1>1, DeepPlaced
<1>6. a \in ToolDirs => \A s, e : Placed(Both(p, s, e), a)
  BY <1>3, <1>5 DEF Both, Placed
<1>7. Placed(SkillsAt(p), a)
  BY <1>4 DEF SkillsAt
<1>8. Placed(CommandsAt(p), a)
  BY <1>3, <1>4 DEF CommandsAt, Placed
<1>9. a \in ToolDirs => Placed(DeepSkills(p), a)
  BY <1>2, DeepPlaced DEF DeepSkills
<1> QED BY <1>3, <1>5, <1>6, <1>7, <1>8, <1>9 DEF p

-----------------------------------------------------------------------------
(* Where the inventory knows a file from.                                  *)
Known ==
    ClaudePaths \cup CursorPaths \cup WindsurfPaths \cup ClinePaths \cup CopilotPaths
    \cup GeminiPaths \cup OpenCodePaths \cup CodexPaths \cup HarnessCandidates
    \cup ThirdPartyPaths \cup Candidates \cup {f \in tree : Unlisted(f)}

OwnedTypes == {"skill", "command", "agent", "hooks", "config"}

(* What OwnerIsAttributed asks of a claim, on files other than these.      *)
OwnedBut(cl, files) ==
    \A f \in cl.files \ files : \A t \in DOMAIN Owner :
        /\ f.base = "root" /\ f.dir # <<>> /\ f.dir[1] = Owner[t]
        /\ ~NestedTool(f) /\ cl.type \in OwnedTypes
        => cl.tool = t \/ (recursive /\ cl.tool = None)

LEMMA ClaimIs ==
    ASSUME NEW type, NEW tool, NEW files
    PROVE  /\ Claim(type, tool, files).type = type /\ Claim(type, tool, files).tool = tool
           /\ Claim(type, tool, files).files = files
BY DEF Claim

(* No two tools own a directory.                                           *)
LEMMA OneOwner ==
    ASSUME NEW t \in DOMAIN Owner, NEW u \in DOMAIN Owner, Owner[t] = Owner[u]
    PROVE  t = u
BY DEF Owner

LEMMA OwnedByTool ==
    ASSUME NEW type, NEW t \in DOMAIN Owner, NEW files, Placed(files, Owner[t])
    PROVE  OwnedBut(Claim(type, t, files), {})
BY OneOwner, ClaimIs DEF OwnedBut, Placed

LEMMA OwnedByNobody ==
    ASSUME NEW type, NEW tool, NEW x, NEW files, Placed(files, x), \A t \in DOMAIN Owner : Owner[t] # x
    PROVE  OwnedBut(Claim(type, tool, files), {})
BY ClaimIs DEF OwnedBut, Placed

LEMMA OwnedOtherwise ==
    ASSUME NEW type, NEW tool, NEW files, type \notin OwnedTypes
    PROVE  OwnedBut(Claim(type, tool, files), {})
BY ClaimIs DEF OwnedBut

LEMMA OwnedNested ==
    ASSUME NEW type, NEW files, files # {} => recursive
    PROVE  OwnedBut(Claim(type, None, files), {})
BY ClaimIs DEF OwnedBut

LEMMA DeepIsRecursive ==
    ASSUME NEW p, NEW s, NEW e
    PROVE  Deep(p, s, e) # {} => recursive
BY DEF Deep

LEMMA PlacedRoot ==
    ASSUME tree \in Trees, NEW s, NEW e, NEW x
    PROVE  Placed(At(<<>>, s, e), x) /\ Placed(InUser(<<>>, s, e), x)
<1>1. \A f \in At(<<>>, s, e) : f \in tree /\ Len(f.dir) = 0
  BY DEF At, InRoot, Named, Matches
<1>2. \A f \in At(<<>>, s, e) : f.dir = <<>>
  <2> SUFFICES ASSUME NEW f \in At(<<>>, s, e) PROVE f.dir = <<>>
    OBVIOUS
  <2>1. f.dir \in Seq(STRING) /\ Len(f.dir) = 0
    BY <1>1, TreeFacts
  <2> QED BY <2>1
<1>3. \A f \in InUser(<<>>, s, e) : f.base # "root"
  BY DEF InUser
<1> QED BY <1>2, <1>3 DEF Placed

(* A skill in a tool's directory that the recursive search finds under the *)
(* tool's own pattern is one the search of the root finds.                 *)
LEMMA DeepAtRoot ==
    ASSUME tree \in Trees, NEW a, NEW b, a \in ToolDirs,
           NEW f \in DeepSkills(<<a, b>>), f.dir # <<>>, ~NestedTool(f)
    PROVE  f \in SkillsAt(<<a, b>>)
<1> DEFINE S == {a, b, "*"}
           r == <<a, b>>
           q == r \o <<"*">>
<1>1. r \in Seq(S) /\ Len(r) = 2 /\ r[1] = a /\ "*" \in S
  OBVIOUS
<1> HIDE DEF r, S
<1>2. Len(q) = 3 /\ q[1] = a /\ q \in Seq(S)
  <2>1. Len(r) > 0
    BY <1>1
  <2>2. q \in Seq(S) /\ Len(q) = Len(r) + 1 /\ q[1] = r[1]
    BY <1>1, <2>1, StarAfter
  <2> QED BY <1>1, <2>2
<1> HIDE DEF q
<1>3. f \in tree /\ Ends(f.dir, q) /\ f \in InRoot("SKILL", {".md"})
  BY DEF DeepSkills, Deep, InRoot, Named, q, r
<1>4. Len(f.dir) \in Nat /\ Len(f.dir) >= 3 /\ DOMAIN q = 1 .. 3
  BY <1>2, <1>3, TreeFacts DEF Ends
<1>5. q[1] \in {"*", f.dir[Len(f.dir) - 3 + 1]}
  BY <1>2, <1>3, <1>4 DEF Ends
<1>6. f.dir[Len(f.dir) - 3 + 1] \in ToolDirs
  BY <1>2, <1>5 DEF ToolDirs, SweptDirs
<1>7. Len(f.dir) - 3 + 1 \notin 2 .. Len(f.dir)
  BY <1>6 DEF NestedTool, ToolDirs
<1>8. Len(f.dir) = 3
  <2>1. \A n \in Nat : n >= 3 /\ n - 3 + 1 \notin 2 .. n => n = 3
    OBVIOUS
  <2> QED BY <1>4, <1>7, <2>1
<1>9. Matches(f.dir, q)
  BY <1>2, <1>3, <1>4, <1>8 DEF Matches, Ends
<1> QED BY <1>3, <1>9 DEF SkillsAt, At, q, r

(* Of files each covered by claims in order, the claim is in order.        *)
LEMMA OwnedCover ==
    ASSUME NEW type, NEW tool, NEW files, NEW but,
           \A f \in files : \E A : f \in A /\ OwnedBut(Claim(type, tool, A), but)
    PROVE  OwnedBut(Claim(type, tool, files), but)
BY ClaimIs DEF OwnedBut

LEMMA OwnedWeaker ==
    ASSUME NEW c, NEW but, OwnedBut(c, {})
    PROVE  OwnedBut(c, but)
BY DEF OwnedBut

LEMMA OwnedLate ==
    ASSUME tree \in Trees, NEW type, NEW tool
    PROVE  /\ OwnedBut(Claim(type, tool, SkillsAt(<<".claude", "skills">>)), ClaudeSkills)
           /\ OwnedBut(Claim(type, tool, DeepSkills(<<".claude", "skills">>)), ClaudeSkills)
<1>1. ".claude" \in ToolDirs
  BY DEF ToolDirs, SweptDirs
<1>2. \A f \in DeepSkills(<<".claude", "skills">>) :
         f.dir # <<>> /\ ~NestedTool(f) => f \in ClaudeSkills
  BY <1>1, DeepAtRoot DEF ClaudeSkills
<1> QED BY <1>2, ClaimIs DEF OwnedBut, ClaudeSkills

(* The skills that only the claims of another discoverer keep in order.    *)
Late(c) == IF c.type = "skill" THEN ClaudeSkills ELSE {}

-----------------------------------------------------------------------------
(* The claims of the discoverers: what they claim the inventory knows, and *)
(* what lies in a directory some tool owns they claim for that tool.       *)
LEMMA ClaudeFine ==
    ASSUME tree \in Trees, NEW i \in DOMAIN ClaudeClaims
    PROVE  ClaudeClaims[i].files \subseteq Known /\ OwnedBut(ClaudeClaims[i], {})
<1> DEFINE Good(c) == c.files \subseteq Known /\ OwnedBut(c, {})
<1>1. i \in 1 .. 15
  BY DEF ClaudeClaims
<1>2. /\ ClaudeAgents \subseteq Both(<<".claude", "agents">>, "*", Md)
      /\ NestedClaudeAgents \subseteq Both(<<".claude", "agents">>, "*", Md)
      /\ RootAgents \subseteq Both(<<"agents">>, "*", Md)
      /\ NestedAgents \subseteq Both(<<"agents">>, "*", Md)
  BY DEF ClaudeAgents, NestedClaudeAgents, RootAgents, NestedAgents, Agents, Both
<1>3. ClaudePaths \subseteq Known
  BY DEF Known
<1>4. \A x \in {ClaudeMds, RootSkills, ClaudeSkills, NestedSkills, RootCommands, ClaudeCommands,
                NestedCommands, ClaudeSettings, ClaudeAgents, RootAgents, NestedClaudeAgents,
                NestedAgents, McpConfigs, ClaudeRules, ClaudeStyles} : x \subseteq Known
  BY <1>2, <1>3 DEF ClaudePaths
<1>5. /\ "claude" \in DOMAIN Owner /\ Owner["claude"] = ".claude"
      /\ \A t \in DOMAIN Owner : Owner[t] \notin {"skills", "commands", "agents"}
      /\ ".claude" \in ToolDirs
  BY DEF Owner, ToolDirs, SweptDirs
<1>6. /\ Placed(RootSkills, "skills") /\ Placed(RootCommands, "commands")
  <2>2. Placed(SkillsAt(<<"skills">>), "skills") /\ Placed(CommandsAt(<<"commands">>), "commands")
    BY PlacedOne
  <2> QED BY <2>2 DEF RootSkills, RootCommands
<1>7. /\ Placed(ClaudeSkills, ".claude") /\ Placed(ClaudeCommands, ".claude")
  BY PlacedTwo DEF ClaudeSkills, ClaudeCommands
<1>8. Placed(ClaudeSettings, ".claude")
  BY <1>5, PlacedOne DEF ClaudeSettings
<1>9. /\ Placed(ClaudeAgents, ".claude") /\ Placed(NestedClaudeAgents, ".claude")
  <2>1. /\ Placed(At(<<".claude", "agents">>, "*", Md), ".claude")
        /\ Placed(Deep(<<".claude", "agents">>, "*", Md), ".claude")
    BY <1>5, PlacedTwo
  <2> QED BY <2>1 DEF ClaudeAgents, NestedClaudeAgents, Agents, Placed
<1>10. Placed(RootAgents, "agents")
  <2>1. Placed(At(<<"agents">>, "*", Md), "agents")
    BY PlacedOne
  <2> QED BY <2>1 DEF RootAgents, Agents, Placed
<1>11. /\ NestedSkills # {} => recursive
       /\ NestedCommands # {} => recursive
       /\ NestedAgents # {} => recursive
  BY DeepIsRecursive DEF NestedSkills, DeepSkills, NestedCommands, NestedAgents, Agents
<1>12. /\ OwnedBut(Claim("skill", "claude", ClaudeSkills), {})
       /\ OwnedBut(Claim("command", "claude", ClaudeCommands), {})
       /\ OwnedBut(Claim("hooks", "claude", ClaudeSettings), {})
       /\ OwnedBut(Claim("agent", "claude", ClaudeAgents), {})
       /\ OwnedBut(Claim("agent", "claude", NestedClaudeAgents), {})
  BY <1>5, <1>7, <1>8, <1>9, OwnedByTool
<1>13. /\ OwnedBut(Claim("skill", RootTool, RootSkills), {})
       /\ OwnedBut(Claim("command", RootTool, RootCommands), {})
       /\ OwnedBut(Claim("agent", None, RootAgents), {})
  BY <1>5, <1>6, <1>10, OwnedByNobody
<1>14. /\ OwnedBut(Claim("skill", None, NestedSkills), {})
       /\ OwnedBut(Claim("command", None, NestedCommands), {})
       /\ OwnedBut(Claim("agent", None, NestedAgents), {})
  BY <1>11, OwnedNested
<1>15. /\ OwnedBut(Claim("claude_md", "claude", ClaudeMds), {})
       /\ OwnedBut(Claim("mcp_config", None, McpConfigs), {})
       /\ OwnedBut(Claim("rule", "claude", ClaudeRules), {})
       /\ OwnedBut(Claim("output_style", "claude", ClaudeStyles), {})
  BY OwnedOtherwise DEF OwnedTypes
<1>16. \A c \in {Claim("claude_md", "claude", ClaudeMds), Claim("skill", RootTool, RootSkills),
                 Claim("skill", "claude", ClaudeSkills), Claim("skill", None, NestedSkills),
                 Claim("command", RootTool, RootCommands),
                 Claim("command", "claude", ClaudeCommands),
                 Claim("command", None, NestedCommands), Claim("hooks", "claude", ClaudeSettings),
                 Claim("agent", "claude", ClaudeAgents), Claim("agent", None, RootAgents),
                 Claim("agent", "claude", NestedClaudeAgents), Claim("agent", None, NestedAgents),
                 Claim("mcp_config", None, McpConfigs), Claim("rule", "claude", ClaudeRules),
                 Claim("output_style", "claude", ClaudeStyles)} : Good(c)
  BY <1>4, <1>12, <1>13, <1>14, <1>15, ClaimIs
<1> HIDE DEF Good
<1>17. Good(ClaudeClaims[i])
  BY <1>1, <1>16 DEF ClaudeClaims
<1> QED BY <1>17 DEF Good

LEMMA KnownPaths ==
    /\ CursorPaths \subseteq Known /\ WindsurfPaths \subseteq Known /\ ClinePaths \subseteq Known
    /\ CopilotPaths \subseteq Known /\ GeminiPaths \subseteq Known /\ OpenCodePaths \subseteq Known
    /\ CodexPaths \subseteq Known /\ HarnessCandidates \subseteq Known
    /\ ThirdPartyPaths \subseteq Known /\ NestedSkills \subseteq Known
    /\ AllAgentsMd \subseteq Known
BY DEF Known, ClaudePaths, OpenCodePaths

LEMMA Owners ==
    /\ {"claude", "cursor", "gemini", "opencode", "codex", "cline", "windsurf", "copilot"}
          = DOMAIN Owner
    /\ Owner["cursor"] = ".cursor" /\ Owner["gemini"] = ".gemini" /\ Owner["opencode"] = ".opencode"
    /\ Owner["codex"] = ".codex" /\ Owner["cline"] = ".cline" /\ Owner["windsurf"] = ".windsurf"
    /\ Owner["copilot"] = ".github"
    /\ \A t \in DOMAIN Owner : Owner[t] \notin {".agents", ".devin", ".clinerules", ".lola"}
    /\ {".claude", ".cursor", ".github", ".gemini", ".opencode", ".codex", ".agents", ".cline",
        ".clinerules", ".devin", ".windsurf"} \subseteq ToolDirs
BY DEF Owner, ToolDirs, SweptDirs

LEMMA CursorFine ==
    ASSUME tree \in Trees, NEW i \in DOMAIN CursorClaims
    PROVE  CursorClaims[i].files \subseteq Known /\ OwnedBut(CursorClaims[i], Late(CursorClaims[i]))
<1> DEFINE Good(c) == c.files \subseteq Known /\ OwnedBut(c, {})
<1>1. i \in 1 .. 6
  BY DEF CursorClaims
<1>2. \A x \in {CursorRules, CursorCommands, CursorSkills, CursorHooks, CursorMcp, AllAgentsMd} :
         x \subseteq Known
  BY KnownPaths DEF CursorPaths
<1>3. /\ Placed(CursorCommands, ".cursor") /\ Placed(CursorHooks, ".cursor")
      /\ Placed(CursorSkills, ".cursor")
  <2>1. Placed(Both(<<".cursor", "commands">>, "*", Md), ".cursor")
    BY Owners, PlacedTwo
  <2>2. Placed(Both(<<".cursor">>, "hooks", Json), ".cursor")
    BY Owners, PlacedOne
  <2>3. /\ Placed(SkillsAt(<<".cursor", "skills">>), ".cursor")
        /\ Placed(DeepSkills(<<".cursor", "skills">>), ".cursor")
    BY Owners, PlacedTwo
  <2> QED BY <2>1, <2>2, <2>3 DEF CursorCommands, CursorHooks, CursorSkills, Placed
<1>4. /\ OwnedBut(Claim("command", "cursor", CursorCommands), {})
      /\ OwnedBut(Claim("skill", "cursor", CursorSkills), {})
      /\ OwnedBut(Claim("hooks", "cursor", CursorHooks), {})
  BY <1>3, Owners, OwnedByTool
<1>5. /\ OwnedBut(Claim("claude_md", "cursor", CursorRules), {})
      /\ OwnedBut(Claim("mcp_config", "cursor", CursorMcp), {})
      /\ OwnedBut(Claim("claude_md", "agents-md", AllAgentsMd), {})
  BY OwnedOtherwise DEF OwnedTypes
<1>6. \A c \in {Claim("claude_md", "cursor", CursorRules), Claim("command", "cursor", CursorCommands),
                Claim("skill", "cursor", CursorSkills), Claim("hooks", "cursor", CursorHooks),
                Claim("mcp_config", "cursor", CursorMcp),
                Claim("claude_md", "agents-md", AllAgentsMd)} : Good(c)
  BY <1>2, <1>4, <1>5, ClaimIs
<1> HIDE DEF Good
<1>7. Good(CursorClaims[i])
  BY <1>1, <1>6 DEF CursorClaims
<1> QED BY <1>7, OwnedWeaker DEF Good

LEMMA WindsurfFine ==
    ASSUME tree \in Trees, NEW i \in DOMAIN WindsurfClaims
    PROVE  WindsurfClaims[i].files \subseteq Known /\ OwnedBut(WindsurfClaims[i], Late(WindsurfClaims[i]))
<1> DEFINE Good(c) == c.files \subseteq Known /\ OwnedBut(c, {})
<1>1. i \in 1 .. 6
  BY DEF WindsurfClaims
<1>2. WindsurfSkillDirs = {<<".devin", "skills">>, <<".windsurf", "skills">>, <<".agents", "skills">>}
  BY DEF WindsurfSkillDirs, WindsurfDirs
<1>3. WindsurfAllSkills \subseteq Known
  <2>1. \A d \in WindsurfSkillDirs : DeepSkills(d) \subseteq NestedSkills
    BY <1>2, DeepTail
  <2> QED BY <2>1, KnownPaths DEF WindsurfAllSkills, WindsurfPaths
<1>4. WindsurfAllWorkflows \subseteq Known
  <2> SUFFICES ASSUME NEW d \in WindsurfDirs, NEW f \in Both(<<d, "workflows">>, "*", Md)
               PROVE  f \in Known
    BY DEF WindsurfAllWorkflows
  <2>1. CASE f \in At(<<d, "workflows">>, "*", Md)
    BY <2>1, KnownPaths DEF WindsurfPaths, WindsurfWorkflows
  <2>2. CASE f \in Deep(<<d, "workflows">>, "*", Md)
    BY <2>2 DEF Deep, InRoot, Named, Unlisted, Known
  <2> QED BY <2>1, <2>2 DEF Both
<1>5. \A x \in {WindsurfRules, WindsurfAllSkills, WindsurfAllWorkflows, WindsurfHooks, WindsurfMcp,
                AllAgentsMd} : x \subseteq Known
  BY <1>3, <1>4, KnownPaths DEF WindsurfPaths
<1>6. OwnedBut(Claim("skill", "windsurf", WindsurfAllSkills), {})
  <2>1. /\ Placed(SkillsAt(<<".devin", "skills">>), ".devin")
        /\ Placed(DeepSkills(<<".devin", "skills">>), ".devin")
        /\ Placed(SkillsAt(<<".agents", "skills">>), ".agents")
        /\ Placed(DeepSkills(<<".agents", "skills">>), ".agents")
        /\ Placed(SkillsAt(<<".windsurf", "skills">>), ".windsurf")
        /\ Placed(DeepSkills(<<".windsurf", "skills">>), ".windsurf")
    BY Owners, PlacedTwo
  <2>2. \A d \in WindsurfSkillDirs : /\ OwnedBut(Claim("skill", "windsurf", SkillsAt(d)), {})
                                     /\ OwnedBut(Claim("skill", "windsurf", DeepSkills(d)), {})
    <3>1. \A d \in {<<".devin", "skills">>, <<".agents", "skills">>} :
             /\ OwnedBut(Claim("skill", "windsurf", SkillsAt(d)), {})
             /\ OwnedBut(Claim("skill", "windsurf", DeepSkills(d)), {})
      BY <2>1, Owners, OwnedByNobody
    <3>2. /\ OwnedBut(Claim("skill", "windsurf", SkillsAt(<<".windsurf", "skills">>)), {})
          /\ OwnedBut(Claim("skill", "windsurf", DeepSkills(<<".windsurf", "skills">>)), {})
      BY <2>1, Owners, OwnedByTool
    <3> QED BY <1>2, <3>1, <3>2
  <2>3. \A f \in WindsurfAllSkills : \E A : f \in A /\ OwnedBut(Claim("skill", "windsurf", A), {})
    BY <2>2 DEF WindsurfAllSkills, WindsurfSkills
  <2> QED BY <2>3, OwnedCover
<1>7. OwnedBut(Claim("command", "windsurf", WindsurfAllWorkflows), {})
  <2>1. /\ Placed(Both(<<".devin", "workflows">>, "*", Md), ".devin")
        /\ Placed(Both(<<".windsurf", "workflows">>, "*", Md), ".windsurf")
    BY Owners, PlacedTwo
  <2>2. OwnedBut(Claim("command", "windsurf", Both(<<".devin", "workflows">>, "*", Md)), {})
    BY <2>1, Owners, OwnedByNobody
  <2>3. OwnedBut(Claim("command", "windsurf", Both(<<".windsurf", "workflows">>, "*", Md)), {})
    BY <2>1, Owners, OwnedByTool
  <2>4. \A d \in WindsurfDirs : <<d, "workflows">> \in {<<".devin", "workflows">>, <<".windsurf", "workflows">>}
    BY DEF WindsurfDirs
  <2>5. \A f \in WindsurfAllWorkflows : \E A : f \in A /\ OwnedBut(Claim("command", "windsurf", A), {})
    BY <2>2, <2>3, <2>4 DEF WindsurfAllWorkflows
  <2> QED BY <2>5, OwnedCover
<1>8. OwnedBut(Claim("hooks", "windsurf", WindsurfHooks), {})
  <2>1. Placed(WindsurfHooks, ".windsurf")
    BY PlacedOne DEF WindsurfHooks
  <2> QED BY <2>1, Owners, OwnedByTool
<1>9. /\ OwnedBut(Claim("claude_md", "windsurf", WindsurfRules), {})
      /\ OwnedBut(Claim("mcp_config", "windsurf", WindsurfMcp), {})
      /\ OwnedBut(Claim("claude_md", "agents-md", AllAgentsMd), {})
  BY OwnedOtherwise DEF OwnedTypes
<1>10. \A c \in {Claim("claude_md", "windsurf", WindsurfRules), Claim("skill", "windsurf", WindsurfAllSkills),
                 Claim("command", "windsurf", WindsurfAllWorkflows), Claim("hooks", "windsurf", WindsurfHooks),
                 Claim("mcp_config", "windsurf", WindsurfMcp),
                 Claim("claude_md", "agents-md", AllAgentsMd)} : Good(c)
  BY <1>5, <1>6, <1>7, <1>8, <1>9, ClaimIs
<1> HIDE DEF Good
<1>11. Good(WindsurfClaims[i])
  BY <1>1, <1>10 DEF WindsurfClaims
<1> QED BY <1>11, OwnedWeaker DEF Good

LEMMA ClineFine ==
    ASSUME tree \in Trees, NEW i \in DOMAIN ClineClaims
    PROVE  ClineClaims[i].files \subseteq Known /\ OwnedBut(ClineClaims[i], Late(ClineClaims[i]))
<1> DEFINE Good(c) == c.files \subseteq Known /\ OwnedBut(c, Late(c))
<1>1. i \in 1 .. 3
  BY DEF ClineClaims
<1>2. ClineSkillDirs = {<<".cline", "skills">>, <<".clinerules", "skills">>, <<".claude", "skills">>}
  BY DEF ClineSkillDirs
<1>3. ClineAllSkills \subseteq Known
  <2>1. \A d \in ClineSkillDirs : DeepSkills(d) \subseteq NestedSkills
    BY <1>2, DeepTail
  <2> QED BY <2>1, KnownPaths DEF ClineAllSkills, ClinePaths
<1>4. \A x \in {ClineAllRules, ClineAllSkills, AllAgentsMd} : x \subseteq Known
  BY <1>3, KnownPaths DEF ClinePaths, ClineAllRules
<1>5. OwnedBut(Claim("skill", "cline", ClineAllSkills), ClaudeSkills)
  <2>1. /\ Placed(SkillsAt(<<".cline", "skills">>), ".cline")
        /\ Placed(DeepSkills(<<".cline", "skills">>), ".cline")
        /\ Placed(SkillsAt(<<".clinerules", "skills">>), ".clinerules")
        /\ Placed(DeepSkills(<<".clinerules", "skills">>), ".clinerules")
    BY Owners, PlacedTwo
  <2>2. /\ OwnedBut(Claim("skill", "cline", SkillsAt(<<".clinerules", "skills">>)), ClaudeSkills)
        /\ OwnedBut(Claim("skill", "cline", DeepSkills(<<".clinerules", "skills">>)), ClaudeSkills)
    BY <2>1, Owners, OwnedByNobody, OwnedWeaker
  <2>3. /\ OwnedBut(Claim("skill", "cline", SkillsAt(<<".cline", "skills">>)), ClaudeSkills)
        /\ OwnedBut(Claim("skill", "cline", DeepSkills(<<".cline", "skills">>)), ClaudeSkills)
    BY <2>1, Owners, OwnedByTool, OwnedWeaker
  <2>4. \A d \in ClineSkillDirs : /\ OwnedBut(Claim("skill", "cline", SkillsAt(d)), ClaudeSkills)
                                  /\ OwnedBut(Claim("skill", "cline", DeepSkills(d)), ClaudeSkills)
    BY <1>2, <2>2, <2>3, OwnedLate
  <2>5. \A f \in ClineAllSkills : \E A : f \in A /\ OwnedBut(Claim("skill", "cline", A), ClaudeSkills)
    BY <2>4 DEF ClineAllSkills, ClineSkills
  <2> QED BY <2>5, OwnedCover
<1>6. /\ OwnedBut(Claim("claude_md", "cline", ClineAllRules), {})
      /\ OwnedBut(Claim("claude_md", "agents-md", AllAgentsMd), {})
  BY OwnedOtherwise DEF OwnedTypes
<1>7. \A c \in {Claim("claude_md", "cline", ClineAllRules), Claim("skill", "cline", ClineAllSkills),
                Claim("claude_md", "agents-md", AllAgentsMd)} : Good(c)
  BY <1>4, <1>5, <1>6, ClaimIs, OwnedWeaker DEF Late
<1> HIDE DEF Good
<1>8. Good(ClineClaims[i])
  BY <1>1, <1>7 DEF ClineClaims
<1> QED BY <1>8 DEF Good

LEMMA CopilotFine ==
    ASSUME tree \in Trees, NEW i \in DOMAIN CopilotClaims
    PROVE  CopilotClaims[i].files \subseteq Known /\ OwnedBut(CopilotClaims[i], Late(CopilotClaims[i]))
<1> DEFINE Good(c) == c.files \subseteq Known /\ OwnedBut(c, Late(c))
<1>1. i \in 1 .. 7
  BY DEF CopilotClaims
<1>2. CopilotAllHooks \subseteq Known
  <2> SUFFICES ASSUME NEW f \in CopilotAllHooks PROVE f \in Known
    OBVIOUS
  <2>1. CASE f \in At(<<".github", "hooks">>, "*", Json)
    BY <2>1, KnownPaths DEF CopilotPaths, CopilotHooks
  <2>2. CASE f \in Deep(<<".github", "hooks">>, "*", Json)
    BY <2>2 DEF Deep, InRoot, Named, Unlisted, Known
  <2> QED BY <2>1, <2>2 DEF CopilotAllHooks, Both
<1>3. \A x \in {CopilotInstructions, CopilotSkills, CopilotPrompts, CopilotAgentFiles, CopilotAllHooks,
                CopilotSettings, CopilotServers} : x \subseteq Known
  BY <1>2, KnownPaths DEF CopilotPaths, CopilotAgentFiles, Agents, CopilotServers, With
<1>4. OwnedBut(Claim("skill", "copilot", CopilotSkills), ClaudeSkills)
  <2>1. /\ Placed(SkillsAt(<<".github", "skills">>), ".github")
        /\ Placed(DeepSkills(<<".github", "skills">>), ".github")
        /\ Placed(SkillsAt(<<".agents", "skills">>), ".agents")
    BY Owners, PlacedTwo
  <2>2. /\ OwnedBut(Claim("skill", "copilot", SkillsAt(<<".agents", "skills">>)), ClaudeSkills)
    BY <2>1, Owners, OwnedByNobody, OwnedWeaker
  <2>3. /\ OwnedBut(Claim("skill", "copilot", SkillsAt(<<".github", "skills">>)), ClaudeSkills)
        /\ OwnedBut(Claim("skill", "copilot", DeepSkills(<<".github", "skills">>)), ClaudeSkills)
    BY <2>1, Owners, OwnedByTool, OwnedWeaker
  <2>4. \A f \in CopilotSkills : \/ f \in SkillsAt(<<".github", "skills">>)
                                 \/ f \in SkillsAt(<<".agents", "skills">>)
                                 \/ f \in SkillsAt(<<".claude", "skills">>)
                                 \/ f \in DeepSkills(<<".github", "skills">>)
    <3> SUFFICES ASSUME NEW f \in CopilotSkills, f \notin DeepSkills(<<".github", "skills">>)
                 PROVE  \/ f \in SkillsAt(<<".github", "skills">>)
                        \/ f \in SkillsAt(<<".agents", "skills">>)
                        \/ f \in SkillsAt(<<".claude", "skills">>)
      OBVIOUS
    <3>1. PICK d \in {".github", ".agents", ".claude"} : f \in SkillsAt(<<d, "skills">>)
      BY DEF CopilotSkills
    <3> QED BY <3>1
  <2>5. OwnedBut(Claim("skill", "copilot", SkillsAt(<<".claude", "skills">>)), ClaudeSkills)
    BY OwnedLate
  <2>6. \A f \in CopilotSkills : \E A : f \in A /\ OwnedBut(Claim("skill", "copilot", A), ClaudeSkills)
    BY <2>2, <2>3, <2>4, <2>5
  <2> QED BY <2>6, OwnedCover
<1>5. /\ Placed(CopilotPrompts, ".github") /\ Placed(CopilotAgentFiles, ".github")
      /\ Placed(CopilotAllHooks, ".github") /\ Placed(CopilotSettings, ".github")
  <2>1. /\ Placed(Both(<<".github", "prompts">>, "*", Md), ".github")
        /\ Placed(Both(<<".github", "agents">>, "*", Md), ".github")
        /\ Placed(Both(<<".github", "hooks">>, "*", Json), ".github")
        /\ \A s : Placed(At(<<".github", "copilot">>, s, Json), ".github")
    BY Owners, PlacedTwo
  <2> QED BY <2>1 DEF CopilotPrompts, CopilotAgentFiles, CopilotAgents, Agents, CopilotAllHooks,
                      CopilotSettings, Placed
<1>6. /\ OwnedBut(Claim("command", "copilot", CopilotPrompts), {})
      /\ OwnedBut(Claim("agent", "copilot", CopilotAgentFiles), {})
      /\ OwnedBut(Claim("hooks", "copilot", CopilotAllHooks), {})
      /\ OwnedBut(Claim("config", "copilot", CopilotSettings), {})
  BY <1>5, Owners, OwnedByTool
<1>7. /\ OwnedBut(Claim("claude_md", "copilot", CopilotInstructions), {})
      /\ OwnedBut(Claim("mcp_config", "copilot", CopilotServers), {})
  BY OwnedOtherwise DEF OwnedTypes
<1>8. \A c \in {Claim("claude_md", "copilot", CopilotInstructions), Claim("skill", "copilot", CopilotSkills),
                Claim("command", "copilot", CopilotPrompts), Claim("agent", "copilot", CopilotAgentFiles),
                Claim("hooks", "copilot", CopilotAllHooks), Claim("config", "copilot", CopilotSettings),
                Claim("mcp_config", "copilot", CopilotServers)} : Good(c)
  BY <1>3, <1>4, <1>6, <1>7, ClaimIs DEF Late
<1> HIDE DEF Good
<1>9. Good(CopilotClaims[i])
  BY <1>1, <1>8 DEF CopilotClaims
<1> QED BY <1>9 DEF Good

LEMMA GeminiFine ==
    ASSUME tree \in Trees, NEW i \in DOMAIN GeminiClaims
    PROVE  GeminiClaims[i].files \subseteq Known /\ OwnedBut(GeminiClaims[i], Late(GeminiClaims[i]))
<1> DEFINE Good(c) == c.files \subseteq Known /\ OwnedBut(c, {})
           Hooks == With(GeminiSettings, "hooks")
           Servers == With(GeminiSettings, "mcpServers")
<1>1. i \in 1 .. 6
  BY DEF GeminiClaims
<1>2. Hooks \subseteq GeminiSettings /\ Servers \subseteq GeminiSettings
  BY DEF With
<1>3. GeminiAllSkills \subseteq Known
  <2>1. /\ DeepSkills(<<".gemini", "skills">>) \subseteq NestedSkills
        /\ DeepSkills(<<".agents", "skills">>) \subseteq NestedSkills
    BY DeepTail
  <2> QED BY <2>1, KnownPaths DEF GeminiAllSkills, GeminiPaths
<1> HIDE DEF Hooks, Servers
<1>4. \A x \in {GeminiMds, GeminiCommands, GeminiAllSkills, Hooks, Servers, GeminiSettings} : x \subseteq Known
  BY <1>2, <1>3, KnownPaths DEF GeminiPaths
<1>5. OwnedBut(Claim("skill", "gemini", GeminiAllSkills), {})
  <2>1. /\ Placed(SkillsAt(<<".gemini", "skills">>), ".gemini")
        /\ Placed(DeepSkills(<<".gemini", "skills">>), ".gemini")
        /\ Placed(SkillsAt(<<".agents", "skills">>), ".agents")
        /\ Placed(DeepSkills(<<".agents", "skills">>), ".agents")
    BY Owners, PlacedTwo
  <2>2. /\ OwnedBut(Claim("skill", "gemini", SkillsAt(<<".agents", "skills">>)), {})
        /\ OwnedBut(Claim("skill", "gemini", DeepSkills(<<".agents", "skills">>)), {})
    BY <2>1, Owners, OwnedByNobody
  <2>3. /\ OwnedBut(Claim("skill", "gemini", SkillsAt(<<".gemini", "skills">>)), {})
        /\ OwnedBut(Claim("skill", "gemini", DeepSkills(<<".gemini", "skills">>)), {})
    BY <2>1, Owners, OwnedByTool
  <2>4. \A f \in GeminiAllSkills : \E A : f \in A /\ OwnedBut(Claim("skill", "gemini", A), {})
    BY <2>2, <2>3 DEF GeminiAllSkills, GeminiSkills
  <2> QED BY <2>4, OwnedCover
<1>6. /\ Placed(GeminiCommands, ".gemini") /\ Placed(GeminiSettings, ".gemini")
      /\ Placed(Hooks, ".gemini") /\ Placed(Servers, ".gemini")
  <2>1. Placed(Both(<<".gemini", "commands">>, "*", Md \cup {".toml"}), ".gemini")
    BY Owners, PlacedTwo
  <2>2. Placed(At(<<".gemini">>, "settings", Json), ".gemini") /\ Placed(InUser(<<>>, "settings", Json), ".gemini")
    BY PlacedOne, PlacedRoot
  <2> QED BY <1>2, <2>1, <2>2 DEF GeminiCommands, GeminiSettings, Placed
<1>7. /\ OwnedBut(Claim("command", "gemini", GeminiCommands), {})
      /\ OwnedBut(Claim("hooks", "gemini", Hooks), {})
      /\ OwnedBut(Claim("config", "gemini", GeminiSettings), {})
  BY <1>6, Owners, OwnedByTool
<1>8. /\ OwnedBut(Claim("claude_md", "gemini", GeminiMds), {})
      /\ OwnedBut(Claim("mcp_config", "gemini", Servers), {})
  BY OwnedOtherwise DEF OwnedTypes
<1>9. \A c \in {Claim("claude_md", "gemini", GeminiMds), Claim("command", "gemini", GeminiCommands),
                Claim("skill", "gemini", GeminiAllSkills), Claim("hooks", "gemini", Hooks),
                Claim("mcp_config", "gemini", Servers), Claim("config", "gemini", GeminiSettings)} : Good(c)
  BY <1>4, <1>5, <1>7, <1>8, ClaimIs
<1>10. GeminiClaims = <<Claim("claude_md", "gemini", GeminiMds), Claim("command", "gemini", GeminiCommands),
                Claim("skill", "gemini", GeminiAllSkills), Claim("hooks", "gemini", Hooks),
                Claim("mcp_config", "gemini", Servers), Claim("config", "gemini", GeminiSettings)>>
  BY DEF GeminiClaims, Hooks, Servers
<1> HIDE DEF Good
<1>11. Good(GeminiClaims[i])
  BY <1>1, <1>9, <1>10
<1> QED BY <1>11, OwnedWeaker DEF Good

LEMMA OpenCodeFine ==
    ASSUME tree \in Trees, NEW i \in DOMAIN OpenCodeClaims
    PROVE  OpenCodeClaims[i].files \subseteq Known /\ OwnedBut(OpenCodeClaims[i], Late(OpenCodeClaims[i]))
<1> DEFINE Good(c) == c.files \subseteq Known /\ OwnedBut(c, Late(c))
<1>1. i \in 1 .. 6
  BY DEF OpenCodeClaims
<1>2. OpenCodeSkillDirs = {<<".opencode", "skills">>, <<".agents", "skills">>, <<".claude", "skills">>}
  BY DEF OpenCodeSkillDirs
<1>3. OpenCodeAllSkills \subseteq Known
  <2>1. \A d \in OpenCodeSkillDirs : DeepSkills(d) \subseteq NestedSkills
    BY <1>2, DeepTail
  <2> QED BY <2>1, KnownPaths DEF OpenCodeAllSkills, OpenCodePaths
<1>4. OpenCodeMcp \subseteq OpenCodeConfigs
  BY DEF OpenCodeMcp
<1>5. \A x \in {AllAgentsMd, OpenCodeCommands, OpenCodeAgents, OpenCodeAllSkills, OpenCodeMcp,
                OpenCodeConfigs} : x \subseteq Known
  BY <1>3, <1>4, KnownPaths DEF OpenCodePaths
<1>6. OwnedBut(Claim("skill", "opencode", OpenCodeAllSkills), ClaudeSkills)
  <2>1. /\ Placed(SkillsAt(<<".opencode", "skills">>), ".opencode")
        /\ Placed(DeepSkills(<<".opencode", "skills">>), ".opencode")
        /\ Placed(SkillsAt(<<".agents", "skills">>), ".agents")
        /\ Placed(DeepSkills(<<".agents", "skills">>), ".agents")
    BY Owners, PlacedTwo
  <2>2. /\ OwnedBut(Claim("skill", "opencode", SkillsAt(<<".agents", "skills">>)), ClaudeSkills)
        /\ OwnedBut(Claim("skill", "opencode", DeepSkills(<<".agents", "skills">>)), ClaudeSkills)
    BY <2>1, Owners, OwnedByNobody, OwnedWeaker
  <2>3. /\ OwnedBut(Claim("skill", "opencode", SkillsAt(<<".opencode", "skills">>)), ClaudeSkills)
        /\ OwnedBut(Claim("skill", "opencode", DeepSkills(<<".opencode", "skills">>)), ClaudeSkills)
    BY <2>1, Owners, OwnedByTool, OwnedWeaker
  <2>4. \A d \in OpenCodeSkillDirs : /\ OwnedBut(Claim("skill", "opencode", SkillsAt(d)), ClaudeSkills)
                                     /\ OwnedBut(Claim("skill", "opencode", DeepSkills(d)), ClaudeSkills)
    BY <1>2, <2>2, <2>3, OwnedLate
  <2>5. \A f \in OpenCodeAllSkills : \E A : f \in A /\ OwnedBut(Claim("skill", "opencode", A), ClaudeSkills)
    BY <2>4 DEF OpenCodeAllSkills, OpenCodeSkills
  <2> QED BY <2>5, OwnedCover
<1>7. /\ Placed(OpenCodeCommands, ".opencode") /\ Placed(OpenCodeAgents, ".opencode")
      /\ Placed(OpenCodeConfigs, ".opencode")
  <2>1. /\ Placed(Both(<<".opencode", "commands">>, "*", Md), ".opencode")
        /\ Placed(Both(<<".opencode", "agents">>, "*", Md), ".opencode")
    BY Owners, PlacedTwo
  <2>2. Placed(At(<<>>, "opencode", {".json", ".jsonc"}), ".opencode")
    BY PlacedRoot
  <2> QED BY <2>1, <2>2 DEF OpenCodeCommands, OpenCodeAgents, OpenCodeConfigs
<1>8. /\ OwnedBut(Claim("command", "opencode", OpenCodeCommands), {})
      /\ OwnedBut(Claim("agent", "opencode", OpenCodeAgents), {})
      /\ OwnedBut(Claim("config", "opencode", OpenCodeConfigs), {})
  BY <1>7, Owners, OwnedByTool
<1>9. /\ OwnedBut(Claim("claude_md", "agents-md", AllAgentsMd), {})
      /\ OwnedBut(Claim("mcp_config", "opencode", OpenCodeMcp), {})
  BY OwnedOtherwise DEF OwnedTypes
<1>10. \A c \in {Claim("claude_md", "agents-md", AllAgentsMd), Claim("command", "opencode", OpenCodeCommands),
                 Claim("agent", "opencode", OpenCodeAgents), Claim("skill", "opencode", OpenCodeAllSkills),
                 Claim("mcp_config", "opencode", OpenCodeMcp),
                 Claim("config", "opencode", OpenCodeConfigs)} : Good(c)
  BY <1>5, <1>6, <1>8, <1>9, ClaimIs DEF Late
<1> HIDE DEF Good
<1>11. Good(OpenCodeClaims[i])
  BY <1>1, <1>10 DEF OpenCodeClaims
<1> QED BY <1>11 DEF Good

LEMMA CodexFine ==
    ASSUME tree \in Trees, NEW i \in DOMAIN CodexClaims
    PROVE  CodexClaims[i].files \subseteq Known /\ OwnedBut(CodexClaims[i], Late(CodexClaims[i]))
<1> DEFINE Good(c) == c.files \subseteq Known /\ OwnedBut(c, {})
           Servers == With(CodexConfigs, "mcp_servers")
           Other == CodexJson \cup CodexSetup
<1>1. i \in 1 .. 6
  BY DEF CodexClaims
<1>2. Servers \subseteq CodexConfigs
  BY DEF With
<1>3. CodexInstructions \subseteq CodexPaths
  BY DEF CodexInstructions, CodexPaths, At, Below, Begins, Matches, InRoot, Named, Md
<1>4. CodexSetup \subseteq Known
  <2> SUFFICES ASSUME NEW f \in CodexSetup, above \cap {".git", "__pycache__"} = {}
               PROVE  f \in Candidates
    BY DEF Known, Unlisted, CodexSetup, At, InRoot, Named
  <2>1. /\ f \in tree /\ f.base = "root" /\ f.stem = "setup" /\ f.ext = ".sh" /\ Matches(f.dir, <<".codex">>)
    BY DEF CodexSetup, At, InRoot, Named
  <2>2. Len(f.dir) = 1 /\ f.dir[1] = ".codex"
    BY <2>1 DEF Matches
  <2>3. f.dir \in Seq(STRING) /\ DOMAIN f.dir = 1 .. 1
    BY <2>1, <2>2, TreeFacts
  <2>4. Range(f.dir) = {".codex"} /\ f.dir # <<>>
    BY <2>2, <2>3 DEF Range
  <2>5. Parts(f) \cap {".git", "__pycache__"} = {}
    BY <2>1, <2>4 DEF Parts
  <2> QED BY <2>1, <2>2, <2>4, <2>5 DEF Candidates, SweptDirs, BinarySuffixes, HiddenStems
<1>5. Other \subseteq Known
  BY <1>4, KnownPaths DEF CodexPaths
<1> HIDE DEF Servers, Other
<1>6. \A x \in {AllAgentsMd, CodexInstructions, CodexSkills, Servers, CodexConfigs, Other} : x \subseteq Known
  BY <1>2, <1>3, <1>5, KnownPaths DEF CodexPaths
<1>7. OwnedBut(Claim("skill", "codex", CodexSkills), {})
  <2>1. /\ Placed(SkillsAt(<<".codex", "skills">>), ".codex")
        /\ Placed(DeepSkills(<<".codex", "skills">>), ".codex")
        /\ Placed(SkillsAt(<<".agents", "skills">>), ".agents")
        /\ Placed(DeepSkills(<<".agents", "skills">>), ".agents")
    BY Owners, PlacedTwo
  <2>2. /\ OwnedBut(Claim("skill", "codex", SkillsAt(<<".agents", "skills">>)), {})
        /\ OwnedBut(Claim("skill", "codex", DeepSkills(<<".agents", "skills">>)), {})
    BY <2>1, Owners, OwnedByNobody
  <2>3. /\ OwnedBut(Claim("skill", "codex", SkillsAt(<<".codex", "skills">>)), {})
        /\ OwnedBut(Claim("skill", "codex", DeepSkills(<<".codex", "skills">>)), {})
    BY <2>1, Owners, OwnedByTool
  <2>4. \A f \in CodexSkills : \E A : f \in A /\ OwnedBut(Claim("skill", "codex", A), {})
    BY <2>2, <2>3 DEF CodexSkills
  <2> QED BY <2>4, OwnedCover
<1>8. OwnedBut(Claim("config", "codex", CodexConfigs), {})
  <2>1. Placed(At(<<".codex">>, "config", {".toml"}), ".codex") /\ Placed(InUser(<<>>, "config", {".toml"}), ".codex")
    BY PlacedOne, PlacedRoot
  <2>2. Placed(CodexConfigs, ".codex")
    BY <2>1 DEF CodexConfigs, Placed
  <2> QED BY <2>2, Owners, OwnedByTool
<1>9. /\ OwnedBut(Claim("claude_md", "agents-md", AllAgentsMd), {})
      /\ OwnedBut(Claim("claude_md", "codex", CodexInstructions), {})
      /\ OwnedBut(Claim("mcp_config", "codex", Servers), {})
      /\ OwnedBut(Claim("uncategorized", "codex", Other), {})
  BY OwnedOtherwise DEF OwnedTypes
<1>10. \A c \in {Claim("claude_md", "agents-md", AllAgentsMd), Claim("claude_md", "codex", CodexInstructions),
                 Claim("skill", "codex", CodexSkills), Claim("mcp_config", "codex", Servers),
                 Claim("config", "codex", CodexConfigs), Claim("uncategorized", "codex", Other)} : Good(c)
  BY <1>6, <1>7, <1>8, <1>9, ClaimIs
<1>11. CodexClaims = <<Claim("claude_md", "agents-md", AllAgentsMd), Claim("claude_md", "codex", CodexInstructions),
                 Claim("skill", "codex", CodexSkills), Claim("mcp_config", "codex", Servers),
                 Claim("config", "codex", CodexConfigs), Claim("uncategorized", "codex", Other)>>
  BY DEF CodexClaims, Servers, Other
<1> HIDE DEF Good
<1>12. Good(CodexClaims[i])
  BY <1>1, <1>10, <1>11
<1> QED BY <1>12, OwnedWeaker DEF Good

LEMMA FullsendFine ==
    ASSUME tree \in Trees, NEW i \in DOMAIN FullsendClaims
    PROVE  FullsendClaims[i].files \subseteq Known /\ OwnedBut(FullsendClaims[i], Late(FullsendClaims[i]))
<1>1. i = 1 /\ FullsendClaims[i] = Claim("harness", "fullsend", Harnesses)
  BY DEF FullsendClaims
<1>2. Harnesses \subseteq Known
  BY KnownPaths DEF Harnesses
<1>3. OwnedBut(Claim("harness", "fullsend", Harnesses), {})
  BY OwnedOtherwise DEF OwnedTypes
<1> QED BY <1>1, <1>2, <1>3, ClaimIs, OwnedWeaker

LEMMA ThirdPartyFine ==
    ASSUME tree \in Trees, NEW i \in DOMAIN ThirdPartyClaims
    PROVE  ThirdPartyClaims[i].files \subseteq Known /\ OwnedBut(ThirdPartyClaims[i], Late(ThirdPartyClaims[i]))
<1> DEFINE Good(c) == c.files \subseteq Known /\ OwnedBut(c, {})
           S == {".lola", "modules", "*", "skills", "commands", "agents"}
<1>1. i \in 1 .. 3
  BY DEF ThirdPartyClaims
<1>2. \A x \in {ModuleSkills, ModuleCommands, ModuleAgents} : x \subseteq Known
  BY KnownPaths DEF ThirdPartyPaths
<1>3. \A x \in {"skills", "commands", "agents"} : ModuleDir(x) = <<".lola", "modules", "*", x>>
  BY DEF ModuleDir
<1>4. \A x \in {"skills", "commands", "agents"} :
         LET p == <<".lola", "modules", "*", x>> IN
         p \in Seq(S) /\ Len(p) > 0 /\ p[1] = ".lola" /\ "*" \in S
  OBVIOUS
<1> HIDE DEF S
<1>5. ".lola" \in ToolDirs /\ ".lola" # "*"
  BY DEF ToolDirs, SweptDirs
<1>6. /\ Placed(ModuleCommands, ".lola") /\ Placed(ModuleAgents, ".lola")
  <2>1. \A x \in {"skills", "commands", "agents"} : Placed(At(<<".lola", "modules", "*", x>>, "*", Md), ".lola")
    BY <1>4, <1>5, AtPlaced
  <2> QED BY <1>3, <2>1 DEF ModuleCommands, ModuleAgents
<1>7. Placed(ModuleSkills, ".lola")
  <2> DEFINE p == <<".lola", "modules", "*", "skills">>
  <2>1. p \in Seq(S) /\ Len(p) > 0 /\ p[1] = ".lola" /\ "*" \in S
    BY <1>4
  <2>2. ModuleSkills = SkillsAt(p) \cup DeepSkills(p)
    BY DEF ModuleSkills, ModuleDir
  <2> HIDE DEF p
  <2>3. p \o <<"*">> \in Seq(S) /\ Len(p \o <<"*">>) > 0 /\ (p \o <<"*">>)[1] = ".lola"
    <3>1. p \o <<"*">> \in Seq(S) /\ Len(p \o <<"*">>) = Len(p) + 1 /\ (p \o <<"*">>)[1] = p[1]
      BY <2>1, StarAfter
    <3> QED BY <2>1, <3>1
  <2>4. Placed(SkillsAt(p), ".lola")
    BY <1>5, <2>3, AtPlaced DEF SkillsAt
  <2>5. Placed(DeepSkills(p), ".lola")
    BY <1>5, <2>3, DeepPlaced DEF DeepSkills
  <2> QED BY <2>2, <2>4, <2>5 DEF Placed
<1>8. /\ OwnedBut(Claim("skill", "third-party", ModuleSkills), {})
      /\ OwnedBut(Claim("command", "third-party", ModuleCommands), {})
      /\ OwnedBut(Claim("agent", "third-party", ModuleAgents), {})
  BY <1>6, <1>7, Owners, OwnedByNobody
<1>9. \A c \in {Claim("skill", "third-party", ModuleSkills), Claim("command", "third-party", ModuleCommands),
                Claim("agent", "third-party", ModuleAgents)} : Good(c)
  BY <1>2, <1>8, ClaimIs
<1> HIDE DEF Good
<1>10. Good(ThirdPartyClaims[i])
  BY <1>1, <1>9 DEF ThirdPartyClaims
<1> QED BY <1>10, OwnedWeaker DEF Good

-----------------------------------------------------------------------------
(* What the tree holds is not changed by a step that leaves the tree, the  *)
(* spelling of its root, the patterns and --recursive alone.               *)
LEMMA SameFile ==
    ASSUME tree' = tree, above' = above, excluded' = excluded, NEW f
    PROVE  /\ Parts(f)' = Parts(f) /\ (ExcludedPath(f)' <=> ExcludedPath(f))
           /\ \A b : TopLevelKeys(f, b)' = TopLevelKeys(f, b)
           /\ \A b : IsAgentFile(f, b)' <=> IsAgentFile(f, b)
           /\ IsHarnessFile(f)' <=> IsHarnessFile(f)
BY DEF Parts, ExcludedPath, TopLevelKeys, IsAgentFile, IsHarnessFile

LEMMA SamePlace ==
    ASSUME tree' = tree
    PROVE  /\ \A s, e : InRoot(s, e)' = InRoot(s, e)
           /\ \A p, s, e : At(p, s, e)' = At(p, s, e)
           /\ \A p, s, e : Below(p, s, e)' = Below(p, s, e)
           /\ \A p, s, e : InUser(p, s, e)' = InUser(p, s, e)
           /\ \A p : SkillsAt(p)' = SkillsAt(p)
           /\ \A p : CommandsAt(p)' = CommandsAt(p)
<1>1. \A s, e : InRoot(s, e)' = InRoot(s, e) /\ Named(s, e)' = Named(s, e)
  BY DEF InRoot, Named
<1>2. \A p, s, e : At(p, s, e)' = At(p, s, e) /\ Below(p, s, e)' = Below(p, s, e)
  BY <1>1 DEF At, Below
<1>3. \A p, s, e : InUser(p, s, e)' = InUser(p, s, e)
  BY <1>1 DEF InUser
<1>4. \A p : SkillsAt(p)' = SkillsAt(p)
  BY <1>2 DEF SkillsAt
<1>5. \A p : CommandsAt(p)' = CommandsAt(p)
  BY <1>2 DEF CommandsAt
<1> QED BY <1>1, <1>2, <1>3, <1>4, <1>5

LEMMA SameDeep ==
    ASSUME tree' = tree, above' = above, excluded' = excluded, recursive' = recursive
    PROVE  /\ \A p, s, e : Deep(p, s, e)' = Deep(p, s, e)
           /\ \A p, s, e : Both(p, s, e)' = Both(p, s, e)
           /\ \A p : DeepSkills(p)' = DeepSkills(p)
           /\ AgentsMd' = AgentsMd /\ AllAgentsMd' = AllAgentsMd
<1>1. \A p, s, e : Deep(p, s, e)' = Deep(p, s, e)
  BY SamePlace, SameFile DEF Deep
<1>2. \A p, s, e : Both(p, s, e)' = Both(p, s, e)
  BY <1>1, SamePlace DEF Both
<1>3. \A p : DeepSkills(p)' = DeepSkills(p)
  BY <1>1 DEF DeepSkills
<1>4. AgentsMd' = AgentsMd /\ AllAgentsMd' = AllAgentsMd
  BY <1>2, SamePlace DEF AgentsMd, AllAgentsMd
<1> QED BY <1>1, <1>2, <1>3, <1>4

LEMMA SameClaude ==
    ASSUME tree' = tree, above' = above, excluded' = excluded, recursive' = recursive
    PROVE  ClaudeClaims' = ClaudeClaims /\ ClaudePaths' = ClaudePaths
<1>1. /\ ClaudeMds' = ClaudeMds /\ McpConfigs' = McpConfigs /\ ClaudeSettings' = ClaudeSettings
      /\ ClaudeRules' = ClaudeRules /\ ClaudeStyles' = ClaudeStyles
  BY SamePlace, SameDeep, SameFile DEF ClaudeMds, McpConfigs, ClaudeSettings, ClaudeRules, ClaudeStyles
<1>2. /\ RootSkills' = RootSkills /\ ClaudeSkills' = ClaudeSkills /\ NestedSkills' = NestedSkills
      /\ RootCommands' = RootCommands /\ ClaudeCommands' = ClaudeCommands
      /\ NestedCommands' = NestedCommands /\ RootTool' = RootTool
  BY SamePlace, SameDeep
     DEF RootSkills, ClaudeSkills, NestedSkills, RootCommands, ClaudeCommands, NestedCommands, RootTool
<1>3. /\ ClaudeAgents' = ClaudeAgents /\ RootAgents' = RootAgents
      /\ NestedClaudeAgents' = NestedClaudeAgents /\ NestedAgents' = NestedAgents
  BY SamePlace, SameDeep, SameFile DEF ClaudeAgents, RootAgents, NestedClaudeAgents, NestedAgents, Agents
<1> QED BY <1>1, <1>2, <1>3, SameDeep DEF ClaudeClaims, Claim, ClaudePaths

LEMMA SameEditors ==
    ASSUME tree' = tree, above' = above, excluded' = excluded, recursive' = recursive
    PROVE  /\ CursorClaims' = CursorClaims /\ CursorPaths' = CursorPaths
           /\ WindsurfClaims' = WindsurfClaims /\ WindsurfPaths' = WindsurfPaths
           /\ ClineClaims' = ClineClaims /\ ClinePaths' = ClinePaths
<1>1. CursorRules' = CursorRules
  <2>1. /\ Below(<<".cursor", "rules">>, "*", {".mdc"})' = Below(<<".cursor", "rules">>, "*", {".mdc"})
        /\ Deep(<<".cursor", "rules">>, "*", {".mdc"})' = Deep(<<".cursor", "rules">>, "*", {".mdc"})
        /\ Below(<<>>, ".cursorrules", {""})' = Below(<<>>, ".cursorrules", {""})
    BY SamePlace, SameDeep
  <2>2. \A f : Parts(f)' = Parts(f)
    BY SameFile
  <2> QED BY <2>1, <2>2 DEF CursorRules
<1>2. /\ CursorCommands' = CursorCommands
      /\ CursorSkills' = CursorSkills /\ CursorHooks' = CursorHooks /\ CursorMcp' = CursorMcp
  BY SamePlace, SameDeep DEF CursorCommands, CursorSkills, CursorHooks, CursorMcp
<1>3. CursorClaims' = CursorClaims /\ CursorPaths' = CursorPaths
  BY <1>1, <1>2, SameDeep DEF CursorClaims, CursorPaths, Claim
<1>4. WindsurfRules' = WindsurfRules /\ WindsurfHooks' = WindsurfHooks /\ WindsurfMcp' = WindsurfMcp
  BY SamePlace, SameDeep DEF WindsurfRules, WindsurfHooks, WindsurfMcp
<1>5. /\ WindsurfSkills' = WindsurfSkills /\ WindsurfAllSkills' = WindsurfAllSkills
      /\ WindsurfWorkflows' = WindsurfWorkflows /\ WindsurfAllWorkflows' = WindsurfAllWorkflows
  BY SamePlace, SameDeep DEF WindsurfSkills, WindsurfAllSkills, WindsurfWorkflows, WindsurfAllWorkflows
<1>6. WindsurfClaims' = WindsurfClaims /\ WindsurfPaths' = WindsurfPaths
  BY <1>4, <1>5, SameDeep DEF WindsurfClaims, WindsurfPaths, Claim
<1>7. ClineFile' = ClineFile /\ ClineDir' = ClineDir /\ ClineNested' = ClineNested /\ ClineRules' = ClineRules
  BY SamePlace, SameDeep DEF ClineFile, ClineDir, ClineNested, ClineRules
<1>8. ClineAllRules' = ClineAllRules
  BY <1>7, SameFile DEF ClineAllRules
<1>9. ClineSkills' = ClineSkills /\ ClineAllSkills' = ClineAllSkills
  BY SamePlace, SameDeep DEF ClineSkills, ClineAllSkills
<1>10. ClineClaims' = ClineClaims /\ ClinePaths' = ClinePaths
  BY <1>7, <1>8, <1>9, SameDeep DEF ClineClaims, ClinePaths, Claim
<1> QED BY <1>3, <1>6, <1>10

LEMMA SameAssistants ==
    ASSUME tree' = tree, above' = above, excluded' = excluded, recursive' = recursive
    PROVE  /\ CopilotClaims' = CopilotClaims /\ CopilotPaths' = CopilotPaths
           /\ GeminiClaims' = GeminiClaims /\ GeminiPaths' = GeminiPaths
           /\ OpenCodeClaims' = OpenCodeClaims /\ OpenCodePaths' = OpenCodePaths
<1>1. /\ CopilotInstructions' = CopilotInstructions /\ CopilotSkills' = CopilotSkills
      /\ CopilotPrompts' = CopilotPrompts /\ CopilotAgents' = CopilotAgents
      /\ CopilotHooks' = CopilotHooks /\ CopilotAllHooks' = CopilotAllHooks
      /\ CopilotSettings' = CopilotSettings /\ CopilotMcp' = CopilotMcp
  BY SamePlace, SameDeep
     DEF CopilotInstructions, CopilotSkills, CopilotPrompts, CopilotAgents, CopilotHooks,
         CopilotAllHooks, CopilotSettings, CopilotMcp
<1>2. CopilotAgentFiles' = CopilotAgentFiles
  BY <1>1, SameFile DEF CopilotAgentFiles, Agents
<1>3. CopilotServers' = CopilotServers
  BY <1>1, SameFile DEF CopilotServers, With
<1>4. CopilotClaims' = CopilotClaims /\ CopilotPaths' = CopilotPaths
  BY <1>1, <1>2, <1>3 DEF CopilotClaims, CopilotPaths, Claim
<1>5. /\ GeminiMds' = GeminiMds /\ GeminiCommands' = GeminiCommands /\ GeminiSkills' = GeminiSkills
      /\ GeminiAllSkills' = GeminiAllSkills /\ GeminiSettings' = GeminiSettings
  BY SamePlace, SameDeep DEF GeminiMds, GeminiCommands, GeminiSkills, GeminiAllSkills, GeminiSettings
<1>6. \A k : With(GeminiSettings, k)' = With(GeminiSettings, k)
  BY <1>5, SameFile DEF With
<1>7. GeminiClaims' = GeminiClaims /\ GeminiPaths' = GeminiPaths
  BY <1>5, <1>6 DEF GeminiClaims, GeminiPaths, Claim
<1>8. /\ OpenCodeCommands' = OpenCodeCommands /\ OpenCodeAgents' = OpenCodeAgents
      /\ OpenCodeSkills' = OpenCodeSkills /\ OpenCodeAllSkills' = OpenCodeAllSkills
      /\ OpenCodeConfigs' = OpenCodeConfigs
  BY SamePlace, SameDeep
     DEF OpenCodeCommands, OpenCodeAgents, OpenCodeSkills, OpenCodeAllSkills, OpenCodeConfigs
<1>9. OpenCodeMcp' = OpenCodeMcp
  BY <1>8, SameFile DEF OpenCodeMcp
<1>10. OpenCodeClaims' = OpenCodeClaims /\ OpenCodePaths' = OpenCodePaths
  BY <1>8, <1>9, SameDeep DEF OpenCodeClaims, OpenCodePaths, Claim
<1> QED BY <1>4, <1>7, <1>10

LEMMA SameOthers ==
    ASSUME tree' = tree, above' = above, excluded' = excluded, recursive' = recursive
    PROVE  /\ CodexClaims' = CodexClaims /\ CodexPaths' = CodexPaths /\ CodexSetup' = CodexSetup
           /\ FullsendClaims' = FullsendClaims /\ HarnessCandidates' = HarnessCandidates
           /\ ThirdPartyClaims' = ThirdPartyClaims /\ ThirdPartyPaths' = ThirdPartyPaths
<1>1. /\ CodexInstructions' = CodexInstructions /\ CodexSetup' = CodexSetup
      /\ CodexSkills' = CodexSkills /\ CodexConfigs' = CodexConfigs /\ CodexJson' = CodexJson
  BY SamePlace, SameDeep DEF CodexInstructions, CodexSetup, CodexSkills, CodexConfigs, CodexJson
<1>2. With(CodexConfigs, "mcp_servers")' = With(CodexConfigs, "mcp_servers")
  BY <1>1, SameFile DEF With
<1>3. CodexClaims' = CodexClaims /\ CodexPaths' = CodexPaths
  BY <1>1, <1>2, SamePlace, SameDeep DEF CodexClaims, CodexPaths, Claim
<1>4. HarnessCandidates' = HarnessCandidates
  BY SameDeep DEF HarnessCandidates
<1>5. Harnesses' = Harnesses
  BY <1>4, SameFile DEF Harnesses
<1>6. FullsendClaims' = FullsendClaims
  BY <1>5 DEF FullsendClaims, Claim
<1>7. /\ ModuleSkills' = ModuleSkills /\ ModuleCommands' = ModuleCommands
      /\ ModuleAgents' = ModuleAgents
  BY SamePlace, SameDeep DEF ModuleSkills, ModuleCommands, ModuleAgents
<1>8. ThirdPartyClaims' = ThirdPartyClaims /\ ThirdPartyPaths' = ThirdPartyPaths
  BY <1>7 DEF ThirdPartyClaims, ThirdPartyPaths, Claim
<1> QED BY <1>1, <1>3, <1>4, <1>6, <1>8

(* Under --recursive nothing is claimed less, or under another type.       *)
Grows(cs, ds) ==
    \A i \in DOMAIN cs : /\ i \in DOMAIN ds /\ ds[i].type = cs[i].type
                         /\ cs[i].files \subseteq ds[i].files

LEMMA MorePlaced ==
    ASSUME tree' = tree, ~recursive
    PROVE  /\ \A p, s, e : Deep(p, s, e) = {}
           /\ \A p, s, e : Both(p, s, e) \subseteq Both(p, s, e)'
           /\ \A p : DeepSkills(p) = {}
           /\ AllAgentsMd \subseteq AllAgentsMd'
<1>1. \A p, s, e : Deep(p, s, e) = {}
  BY DEF Deep
<1>2. \A p, s, e : Both(p, s, e) \subseteq Both(p, s, e)'
  BY <1>1, SamePlace DEF Both
<1> QED BY <1>1, <1>2 DEF DeepSkills, AllAgentsMd

LEMMA MoreClaude ==
    ASSUME tree' = tree, above' = above, excluded' = excluded, ~recursive
    PROVE  Grows(ClaudeClaims, ClaudeClaims')
<1>1. /\ ClaudeMds' = ClaudeMds /\ McpConfigs' = McpConfigs /\ ClaudeSettings \subseteq ClaudeSettings'
      /\ ClaudeRules' = ClaudeRules /\ ClaudeStyles' = ClaudeStyles
  BY SamePlace, MorePlaced, SameFile DEF ClaudeMds, McpConfigs, ClaudeSettings, ClaudeRules, ClaudeStyles
<1>2. /\ RootSkills' = RootSkills /\ ClaudeSkills' = ClaudeSkills /\ NestedSkills = {}
      /\ RootCommands' = RootCommands /\ ClaudeCommands' = ClaudeCommands /\ NestedCommands = {}
  BY SamePlace, MorePlaced
     DEF RootSkills, ClaudeSkills, NestedSkills, RootCommands, ClaudeCommands, NestedCommands
<1>3. /\ ClaudeAgents' = ClaudeAgents /\ RootAgents' = RootAgents
      /\ NestedClaudeAgents = {} /\ NestedAgents = {}
  BY SamePlace, MorePlaced, SameFile DEF ClaudeAgents, RootAgents, NestedClaudeAgents, NestedAgents, Agents
<1>4. /\ ClaudeMds \subseteq ClaudeMds' /\ McpConfigs \subseteq McpConfigs'
      /\ ClaudeRules \subseteq ClaudeRules' /\ ClaudeStyles \subseteq ClaudeStyles'
      /\ RootSkills \subseteq RootSkills' /\ ClaudeSkills \subseteq ClaudeSkills'
      /\ NestedSkills \subseteq NestedSkills' /\ RootCommands \subseteq RootCommands'
      /\ ClaudeCommands \subseteq ClaudeCommands' /\ NestedCommands \subseteq NestedCommands'
      /\ ClaudeAgents \subseteq ClaudeAgents' /\ RootAgents \subseteq RootAgents'
      /\ NestedClaudeAgents \subseteq NestedClaudeAgents' /\ NestedAgents \subseteq NestedAgents'
  BY <1>1, <1>2, <1>3
<1> SUFFICES ASSUME NEW i \in 1 .. 15
             PROVE  /\ i \in DOMAIN ClaudeClaims' /\ (ClaudeClaims')[i].type = ClaudeClaims[i].type
                    /\ ClaudeClaims[i].files \subseteq (ClaudeClaims')[i].files
  BY DEF Grows, ClaudeClaims
<1>5. CASE i \in 1 .. 5
  BY <1>1, <1>4, <1>5 DEF ClaudeClaims, Claim
<1>6. CASE i \in 6 .. 10
  BY <1>1, <1>4, <1>6 DEF ClaudeClaims, Claim
<1>7. CASE i \in 11 .. 15
  BY <1>1, <1>4, <1>7 DEF ClaudeClaims, Claim
<1> QED BY <1>5, <1>6, <1>7

LEMMA MoreEditors ==
    ASSUME tree' = tree, above' = above, excluded' = excluded, ~recursive
    PROVE  /\ Grows(CursorClaims, CursorClaims') /\ Grows(WindsurfClaims, WindsurfClaims')
           /\ Grows(ClineClaims, ClineClaims')
<1>1. CursorRules \subseteq CursorRules'
  <2>1. /\ Below(<<".cursor", "rules">>, "*", {".mdc"})' = Below(<<".cursor", "rules">>, "*", {".mdc"})
        /\ Deep(<<".cursor", "rules">>, "*", {".mdc"}) = {}
        /\ Below(<<>>, ".cursorrules", {""})' = Below(<<>>, ".cursorrules", {""})
    BY SamePlace, MorePlaced
  <2>2. \A f : Parts(f)' = Parts(f)
    BY SameFile
  <2> QED BY <2>1, <2>2 DEF CursorRules
<1>2. /\ CursorCommands \subseteq CursorCommands' /\ CursorSkills \subseteq CursorSkills'
      /\ CursorHooks \subseteq CursorHooks' /\ CursorMcp \subseteq CursorMcp'
  BY SamePlace, MorePlaced DEF CursorCommands, CursorSkills, CursorHooks, CursorMcp
<1>3. Grows(CursorClaims, CursorClaims')
  BY <1>1, <1>2, MorePlaced DEF Grows, CursorClaims, Claim
<1>4. /\ WindsurfRules \subseteq WindsurfRules' /\ WindsurfHooks \subseteq WindsurfHooks'
      /\ WindsurfMcp \subseteq WindsurfMcp'
  BY SamePlace, MorePlaced DEF WindsurfRules, WindsurfHooks, WindsurfMcp
<1>5. /\ WindsurfAllSkills \subseteq WindsurfAllSkills'
      /\ WindsurfAllWorkflows \subseteq WindsurfAllWorkflows'
  BY SamePlace, MorePlaced DEF WindsurfSkills, WindsurfAllSkills, WindsurfAllWorkflows
<1>6. Grows(WindsurfClaims, WindsurfClaims')
  BY <1>4, <1>5, MorePlaced DEF Grows, WindsurfClaims, Claim
<1>7. ClineFile' = ClineFile /\ ClineDir' = ClineDir /\ ClineNested = {} /\ ClineRules' = ClineRules
  BY SamePlace, MorePlaced DEF ClineFile, ClineDir, ClineNested, ClineRules
<1>8. ClineAllRules \subseteq ClineAllRules'
  BY <1>7, SameFile DEF ClineAllRules
<1>9. ClineAllSkills \subseteq ClineAllSkills'
  BY SamePlace, MorePlaced DEF ClineSkills, ClineAllSkills
<1>10. Grows(ClineClaims, ClineClaims')
  BY <1>8, <1>9, MorePlaced DEF Grows, ClineClaims, Claim
<1> QED BY <1>3, <1>6, <1>10

LEMMA MoreAssistants ==
    ASSUME tree' = tree, above' = above, excluded' = excluded, ~recursive
    PROVE  /\ Grows(CopilotClaims, CopilotClaims') /\ Grows(GeminiClaims, GeminiClaims')
           /\ Grows(OpenCodeClaims, OpenCodeClaims')
<1>1. /\ CopilotInstructions' = CopilotInstructions /\ CopilotSkills \subseteq CopilotSkills'
      /\ CopilotPrompts \subseteq CopilotPrompts' /\ CopilotAgents \subseteq CopilotAgents'
      /\ CopilotAllHooks \subseteq CopilotAllHooks'
      /\ CopilotSettings' = CopilotSettings /\ CopilotMcp' = CopilotMcp
  BY SamePlace, MorePlaced
     DEF CopilotInstructions, CopilotSkills, CopilotPrompts, CopilotAgents,
         CopilotAllHooks, CopilotSettings, CopilotMcp
<1>2. CopilotAgentFiles \subseteq CopilotAgentFiles'
  BY <1>1, SameFile DEF CopilotAgentFiles, Agents
<1>3. CopilotServers' = CopilotServers
  BY <1>1, SameFile DEF CopilotServers, With
<1>4. Grows(CopilotClaims, CopilotClaims')
  BY <1>1, <1>2, <1>3 DEF Grows, CopilotClaims, Claim
<1>5. /\ GeminiMds \subseteq GeminiMds' /\ GeminiCommands \subseteq GeminiCommands'
      /\ GeminiAllSkills \subseteq GeminiAllSkills' /\ GeminiSettings' = GeminiSettings
  BY SamePlace, MorePlaced DEF GeminiMds, GeminiCommands, GeminiSkills, GeminiAllSkills, GeminiSettings
<1>6. \A k : With(GeminiSettings, k)' = With(GeminiSettings, k)
  BY <1>5, SameFile DEF With
<1>7. Grows(GeminiClaims, GeminiClaims')
  BY <1>5, <1>6 DEF Grows, GeminiClaims, Claim
<1>8. /\ OpenCodeCommands \subseteq OpenCodeCommands' /\ OpenCodeAgents \subseteq OpenCodeAgents'
      /\ OpenCodeAllSkills \subseteq OpenCodeAllSkills' /\ OpenCodeConfigs' = OpenCodeConfigs
  BY SamePlace, MorePlaced
     DEF OpenCodeCommands, OpenCodeAgents, OpenCodeSkills, OpenCodeAllSkills, OpenCodeConfigs
<1>9. OpenCodeMcp' = OpenCodeMcp
  BY <1>8, SameFile DEF OpenCodeMcp
<1>10. Grows(OpenCodeClaims, OpenCodeClaims')
  BY <1>8, <1>9, MorePlaced DEF Grows, OpenCodeClaims, Claim
<1> QED BY <1>4, <1>7, <1>10

LEMMA MoreOthers ==
    ASSUME tree' = tree, above' = above, excluded' = excluded, ~recursive
    PROVE  /\ Grows(CodexClaims, CodexClaims') /\ Grows(FullsendClaims, FullsendClaims')
           /\ Grows(ThirdPartyClaims, ThirdPartyClaims')
<1>1. /\ CodexInstructions' = CodexInstructions /\ CodexSetup' = CodexSetup
      /\ CodexSkills \subseteq CodexSkills' /\ CodexConfigs' = CodexConfigs /\ CodexJson' = CodexJson
  BY SamePlace, MorePlaced DEF CodexInstructions, CodexSetup, CodexSkills, CodexConfigs, CodexJson
<1>2. With(CodexConfigs, "mcp_servers")' = With(CodexConfigs, "mcp_servers")
  BY <1>1, SameFile DEF With
<1>3. Grows(CodexClaims, CodexClaims')
  BY <1>1, <1>2, MorePlaced DEF Grows, CodexClaims, Claim
<1>4. HarnessCandidates \subseteq HarnessCandidates'
  BY MorePlaced DEF HarnessCandidates
<1>5. Harnesses \subseteq Harnesses'
  BY <1>4, SameFile DEF Harnesses
<1>6. Grows(FullsendClaims, FullsendClaims')
  BY <1>5 DEF Grows, FullsendClaims, Claim
<1>7. /\ ModuleSkills \subseteq ModuleSkills' /\ ModuleCommands' = ModuleCommands
      /\ ModuleAgents' = ModuleAgents
  BY SamePlace, MorePlaced DEF ModuleSkills, ModuleCommands, ModuleAgents
<1>8. Grows(ThirdPartyClaims, ThirdPartyClaims')
  BY <1>7 DEF Grows, ThirdPartyClaims, Claim
<1> QED BY <1>3, <1>6, <1>8

(* The registry as a whole.                                                *)
LEMMA Asking ==
    /\ DOMAIN Registry = 1 .. 10 /\ Len(Registry) = 10
    /\ Claims(Registry[1]) = ClaudeClaims /\ Claims(Registry[2]) = CursorClaims
    /\ Claims(Registry[3]) = WindsurfClaims /\ Claims(Registry[4]) = ClineClaims
    /\ Claims(Registry[5]) = CopilotClaims /\ Claims(Registry[6]) = GeminiClaims
    /\ Claims(Registry[7]) = OpenCodeClaims /\ Claims(Registry[8]) = CodexClaims
    /\ Claims(Registry[9]) = FullsendClaims /\ Claims(Registry[10]) = ThirdPartyClaims
BY DEF Registry, Claims

LEMMA Listing ==
    /\ CollectPaths(Registry[1]) = ClaudePaths /\ CollectPaths(Registry[2]) = CursorPaths
    /\ CollectPaths(Registry[3]) = WindsurfPaths /\ CollectPaths(Registry[4]) = ClinePaths
    /\ CollectPaths(Registry[5]) = CopilotPaths /\ CollectPaths(Registry[6]) = GeminiPaths
    /\ CollectPaths(Registry[7]) = OpenCodePaths /\ CollectPaths(Registry[8]) = CodexPaths
    /\ CollectPaths(Registry[9]) = HarnessCandidates /\ CollectPaths(Registry[10]) = ThirdPartyPaths
BY DEF Registry, CollectPaths

LEMMA AskingLater ==
    /\ Claims(Registry[1])' = ClaudeClaims' /\ Claims(Registry[2])' = CursorClaims'
    /\ Claims(Registry[3])' = WindsurfClaims' /\ Claims(Registry[4])' = ClineClaims'
    /\ Claims(Registry[5])' = CopilotClaims' /\ Claims(Registry[6])' = GeminiClaims'
    /\ Claims(Registry[7])' = OpenCodeClaims' /\ Claims(Registry[8])' = CodexClaims'
    /\ Claims(Registry[9])' = FullsendClaims' /\ Claims(Registry[10])' = ThirdPartyClaims'
BY DEF Registry, Claims

LEMMA ListingLater ==
    /\ CollectPaths(Registry[1])' = ClaudePaths' /\ CollectPaths(Registry[2])' = CursorPaths'
    /\ CollectPaths(Registry[3])' = WindsurfPaths' /\ CollectPaths(Registry[4])' = ClinePaths'
    /\ CollectPaths(Registry[5])' = CopilotPaths' /\ CollectPaths(Registry[6])' = GeminiPaths'
    /\ CollectPaths(Registry[7])' = OpenCodePaths' /\ CollectPaths(Registry[8])' = CodexPaths'
    /\ CollectPaths(Registry[9])' = HarnessCandidates' /\ CollectPaths(Registry[10])' = ThirdPartyPaths'
BY DEF Registry, CollectPaths

LEMMA AllClaims ==
    ASSUME tree \in Trees, NEW k \in DOMAIN Registry, NEW i \in DOMAIN Claims(Registry[k])
    PROVE  /\ Claims(Registry[k])[i].files \subseteq Known
           /\ OwnedBut(Claims(Registry[k])[i], IF k = 1 THEN {} ELSE Late(Claims(Registry[k])[i]))
<1>1. k \in 1 .. 10
  BY Asking
<1>2. CASE k = 1
  BY <1>2, Asking, ClaudeFine
<1>3. CASE k = 2
  BY <1>3, Asking, CursorFine
<1>4. CASE k = 3
  BY <1>4, Asking, WindsurfFine
<1>5. CASE k = 4
  BY <1>5, Asking, ClineFine
<1>6. CASE k = 5
  BY <1>6, Asking, CopilotFine
<1>7. CASE k = 6
  BY <1>7, Asking, GeminiFine
<1>8. CASE k = 7
  BY <1>8, Asking, OpenCodeFine
<1>9. CASE k = 8
  BY <1>9, Asking, CodexFine
<1>10. CASE k = 9
  BY <1>10, Asking, FullsendFine
<1>11. CASE k = 10
  BY <1>11, Asking, ThirdPartyFine
<1> QED BY <1>1, <1>2, <1>3, <1>4, <1>5, <1>6, <1>7, <1>8, <1>9, <1>10, <1>11

LEMMA ClaimsInOrder ==
    ASSUME NEW k \in DOMAIN Registry
    PROVE  \E n \in Nat : DOMAIN Claims(Registry[k]) = 1 .. n
<1>1. k \in 1 .. 10
  BY Asking
<1>2. DOMAIN ClaudeClaims = 1 .. 15 /\ DOMAIN CursorClaims = 1 .. 6 /\ DOMAIN WindsurfClaims = 1 .. 6
  BY DEF ClaudeClaims, CursorClaims, WindsurfClaims
<1>3. DOMAIN ClineClaims = 1 .. 3 /\ DOMAIN CopilotClaims = 1 .. 7 /\ DOMAIN GeminiClaims = 1 .. 6
  BY DEF ClineClaims, CopilotClaims, GeminiClaims
<1>4. DOMAIN OpenCodeClaims = 1 .. 6 /\ DOMAIN CodexClaims = 1 .. 6
  BY DEF OpenCodeClaims, CodexClaims
<1>5. DOMAIN FullsendClaims = 1 .. 1 /\ DOMAIN ThirdPartyClaims = 1 .. 3
  BY DEF FullsendClaims, ThirdPartyClaims
<1>6. \E n \in {15, 6, 3, 7, 1} : DOMAIN Claims(Registry[k]) = 1 .. n
  BY <1>1, <1>2, <1>3, <1>4, <1>5, Asking
<1> QED BY <1>6

-----------------------------------------------------------------------------
(* The inductive invariant.  Some discoverer claims the file under t.      *)
ClaimedAs(k, f, t) ==
    \E i \in DOMAIN Claims(Registry[k]) :
        f \in Claims(Registry[k])[i].files /\ Claims(Registry[k])[i].type = t

Asked == {k \in DOMAIN Registry : pc # "inventory" /\ (pc = "discover" => k < next)}

Owned(c) ==
    \A t \in DOMAIN Owner :
        /\ c.file.base = "root" /\ c.file.dir # <<>> /\ c.file.dir[1] = Owner[t]
        /\ ~NestedTool(c.file) /\ c.type \in OwnedTypes
        => c.tool = t \/ (recursive /\ c.tool = None)

Explained(c) ==
    \/ c.type = "uncategorized" \/ c.tool = "unknown"
    \/ \E k \in DOMAIN Registry : ClaimedAs(k, c.file, c.type)

Context ==
    /\ tree \in Trees /\ excluded \subseteq tree /\ recursive \in BOOLEAN
    /\ next \in DOMAIN Registry
    /\ pc \in {"inventory", "discover", "sweep", "bare", "filter", "detect", "done"}

Listed == pc # "inventory" => inventory = Inventory

Found ==
    \A c \in components : c.file \in Known \cup RootSkill /\ Owned(c) /\ Explained(c)

(* Nothing that an asked discoverer claims is lost, but to the patterns.   *)
Kept ==
    \A k \in Asked : \A f, t : ClaimedAs(k, f, t) =>
        <<f, t>> \in Keys(components) \/ (pc \in {"detect", "done"} /\ f \in excluded)

(* An excluded file is no component of a finished setup. *)
Filtered == pc \in {"detect", "done"} => \A c \in components : c.file \notin excluded

PlainKept == \A c \in plain : c.file \notin excluded /\ Explained(c)

DiscoveryInv ==
    /\ Context /\ Listed /\ Found /\ Kept /\ PlainKept
    /\ Filtered

LEMMA Frame ==
    ASSUME tree' = tree, above' = above, excluded' = excluded, recursive' = recursive
    PROVE  /\ \A k \in DOMAIN Registry : \A f, t : ClaimedAs(k, f, t)' <=> ClaimedAs(k, f, t)
           /\ Candidates' = Candidates /\ RootSkill' = RootSkill
           /\ Known' = Known /\ Inventory' = Inventory
           /\ \A c : Owned(c)' <=> Owned(c)
           /\ \A c : Explained(c)' <=> Explained(c)
<1>1. \A k \in DOMAIN Registry : Claims(Registry[k])' = Claims(Registry[k])
  BY Asking, AskingLater, SameClaude, SameEditors, SameAssistants, SameOthers
<1>2. \A k \in DOMAIN Registry : \A f, t : ClaimedAs(k, f, t)' <=> ClaimedAs(k, f, t)
  BY <1>1 DEF ClaimedAs
<1>3. Candidates' = Candidates
  BY SameFile DEF Candidates
<1>4. RootSkill' = RootSkill
  BY SamePlace DEF RootSkill
<1>5. Known' = Known
  <2>1. \A f : Unlisted(f)' <=> Unlisted(f)
    BY SameOthers DEF Unlisted
  <2>2. {f \in tree : Unlisted(f)}' = {f \in tree : Unlisted(f)}
    BY <2>1
  <2>3. /\ ClaudePaths' = ClaudePaths /\ CursorPaths' = CursorPaths /\ WindsurfPaths' = WindsurfPaths
        /\ ClinePaths' = ClinePaths /\ CopilotPaths' = CopilotPaths /\ GeminiPaths' = GeminiPaths
        /\ OpenCodePaths' = OpenCodePaths /\ CodexPaths' = CodexPaths
        /\ HarnessCandidates' = HarnessCandidates /\ ThirdPartyPaths' = ThirdPartyPaths
    BY SameClaude, SameEditors, SameAssistants, SameOthers
  <2> QED BY <1>3, <2>2, <2>3 DEF Known
<1>6. Inventory' = Inventory
  <2>1. \A k \in DOMAIN Registry : CollectPaths(Registry[k])' = CollectPaths(Registry[k])
    BY Asking, Listing, ListingLater, SameClaude, SameEditors, SameAssistants, SameOthers
  <2>2. \A s : Bundle(s)' = Bundle(s)
    BY SameFile DEF Bundle
  <2> QED BY <1>3, <1>4, <2>1, <2>2 DEF Inventory
<1>7. \A c : Owned(c)' <=> Owned(c)
  BY DEF Owned
<1>8. \A c : Explained(c)' <=> Explained(c)
  BY <1>2 DEF Explained
<1> QED BY <1>2, <1>3, <1>4, <1>5, <1>6, <1>7, <1>8

LEMMA Growing ==
    ASSUME tree' = tree, above' = above, excluded' = excluded, ~recursive
    PROVE  \A c : Explained(c) => Explained(c)'
<1>1. \A k \in DOMAIN Registry : Grows(Claims(Registry[k]), Claims(Registry[k])')
  <2> SUFFICES ASSUME NEW k \in 1 .. 10 PROVE Grows(Claims(Registry[k]), Claims(Registry[k])')
    BY Asking
  <2>1. CASE k \in 1 .. 4
    BY <2>1, Asking, AskingLater, MoreClaude, MoreEditors
  <2>2. CASE k \in 5 .. 7
    BY <2>2, Asking, AskingLater, MoreAssistants
  <2>3. CASE k \in 8 .. 10
    BY <2>3, Asking, AskingLater, MoreOthers
  <2> QED BY <2>1, <2>2, <2>3
<1>2. \A k \in DOMAIN Registry : \A f, t : ClaimedAs(k, f, t) => ClaimedAs(k, f, t)'
  BY <1>1 DEF ClaimedAs, Grows
<1> QED BY <1>2 DEF Explained

(* What the inventory is made of.                                          *)
LEMMA KnownListed ==
    ASSUME NEW f \in Known \cup RootSkill, f \notin excluded
    PROVE  f \in Inventory \/ Unlisted(f)
<1> DEFINE listed == (UNION {CollectPaths(Registry[i]) : i \in DOMAIN Registry})
                     \cup Candidates \cup RootSkill
<1>1. listed \ excluded \subseteq Inventory
  BY DEF Inventory
<1>2. \A i \in 1 .. 10 : CollectPaths(Registry[i]) \subseteq listed
  BY Asking
<1> HIDE DEF listed
<1>3. /\ ClaudePaths \subseteq listed /\ CursorPaths \subseteq listed /\ WindsurfPaths \subseteq listed
      /\ ClinePaths \subseteq listed /\ CopilotPaths \subseteq listed /\ GeminiPaths \subseteq listed
      /\ OpenCodePaths \subseteq listed /\ CodexPaths \subseteq listed
      /\ HarnessCandidates \subseteq listed /\ ThirdPartyPaths \subseteq listed
  BY <1>2, Listing
<1>4. Candidates \cup RootSkill \subseteq listed
  BY DEF listed
<1>5. f \in listed \/ Unlisted(f)
  BY <1>3, <1>4 DEF Known
<1> QED BY <1>1, <1>5

-----------------------------------------------------------------------------
(* A discoverer leaves nothing out that it claims: what is not a component *)
(* already is one under its first claim.                                   *)
LEMMA FirstClaim ==
    ASSUME NEW k \in DOMAIN Registry, NEW f, NEW t, ClaimedAs(k, f, t),
           <<f, t>> \notin Keys(components)
    PROVE  <<f, t>> \in Keys(New(Claims(Registry[k])))
<1> DEFINE cs == Claims(Registry[k])
           Js == {j \in DOMAIN cs : f \in cs[j].files /\ cs[j].type = t}
<1>1. PICK n \in Nat : DOMAIN cs = 1 .. n
  BY ClaimsInOrder
<1>2. Js \in SUBSET Nat /\ Js # {}
  BY <1>1 DEF ClaimedAs
<1>3. PICK j \in Js : \A m \in Js : j <= m
  BY <1>2, LeastNat
<1> HIDE DEF cs
<1>4. \A m \in 1 .. (j - 1) : cs[m].type = cs[j].type => f \notin cs[m].files
  BY <1>1, <1>3
<1>5. f \in FirstClaimed(cs, j)
  BY <1>3, <1>4 DEF FirstClaimed
<1>6. [file |-> f, type |-> t, tool |-> cs[j].tool] \in New(cs)
  BY <1>3, <1>5 DEF New
<1> QED BY <1>6 DEF Keys, cs

(* What a discoverer adds is known to the inventory and named after its    *)
(* owner: the first of the registry has asked for the skills the others    *)
(* would claim for themselves.                                             *)
LEMMA NewIsFine ==
    ASSUME Context, Kept, pc = "discover", NEW c \in New(Claims(Registry[next]))
    PROVE  c.file \in Known /\ Owned(c) /\ Explained(c)
<1> DEFINE cs == Claims(Registry[next])
<1>1. PICK i \in DOMAIN cs : \E f \in FirstClaimed(cs, i) :
         c = [file |-> f, type |-> cs[i].type, tool |-> cs[i].tool]
  BY DEF New
<1>2. /\ c.file \in cs[i].files /\ c.type = cs[i].type /\ c.tool = cs[i].tool
      /\ <<c.file, c.type>> \notin Keys(components)
  BY <1>1 DEF FirstClaimed
<1>3. tree \in Trees /\ next \in DOMAIN Registry
  BY DEF Context
<1>4. cs[i].files \subseteq Known /\ OwnedBut(cs[i], IF next = 1 THEN {} ELSE Late(cs[i]))
  BY <1>3, AllClaims
<1>5. ClaimedAs(next, c.file, c.type)
  BY <1>2 DEF ClaimedAs
<1> HIDE DEF cs
<1>6. c.file \notin (IF next = 1 THEN {} ELSE Late(cs[i]))
  <2> SUFFICES ASSUME next # 1, c.type = "skill", c.file \in ClaudeSkills PROVE FALSE
    BY <1>2 DEF Late
  <2>1. 1 \in Asked
    BY <1>3, Asking DEF Asked
  <2>2. 3 \in DOMAIN ClaudeClaims /\ ClaudeClaims[3] = Claim("skill", "claude", ClaudeSkills)
    BY DEF ClaudeClaims
  <2>3. ClaimedAs(1, c.file, "skill")
    BY <2>2, Asking, ClaimIs DEF ClaimedAs
  <2> QED BY <1>2, <2>1, <2>3 DEF Kept
<1>7. Owned(c)
  BY <1>2, <1>4, <1>6 DEF OwnedBut, Owned
<1> QED BY <1>2, <1>3, <1>4, <1>5, <1>7 DEF Explained

LEMMA DiscoveryStarts == DiscoveryInit => DiscoveryInv
<1> SUFFICES ASSUME DiscoveryInit PROVE DiscoveryInv
  OBVIOUS
<1>1. Context
  <2>1. excluded \subseteq tree
    BY DEF DiscoveryInit
  <2>2. 1 \in DOMAIN Registry
    BY Asking
  <2> QED BY <2>1, <2>2 DEF DiscoveryInit, Context
<1>2. Listed /\ Found /\ Kept /\ PlainKept
  BY DEF DiscoveryInit, Listed, Found, Kept, Asked, PlainKept
<1>3. Filtered
  BY DEF DiscoveryInit, Filtered
<1> QED BY <1>1, <1>2, <1>3 DEF DiscoveryInv

LEMMA CollectStep ==
    ASSUME DiscoveryInv, CollectInventory
    PROVE  DiscoveryInv'
<1>1. /\ tree' = tree /\ above' = above /\ excluded' = excluded /\ recursive' = recursive
      /\ pc = "inventory" /\ pc' = "discover" /\ next' = 1 /\ plain' = plain
      /\ inventory' = Inventory /\ components' = {}
  BY DEF CollectInventory, tree_vars
<1>2. Context'
  BY <1>1, Asking DEF DiscoveryInv, Context
<1>3. Listed'
  BY <1>1, Frame DEF Listed
<1>4. Found' /\ PlainKept'
  BY <1>1, Frame DEF DiscoveryInv, Found, PlainKept
<1>5. Kept'
  BY <1>1, Asking DEF Kept, Asked
<1>6. Filtered'
  BY <1>1 DEF Filtered, FilesOf
<1> QED BY <1>2, <1>3, <1>4, <1>5, <1>6 DEF DiscoveryInv

LEMMA DiscoverStep ==
    ASSUME DiscoveryInv, Discover
    PROVE  DiscoveryInv'
<1> DEFINE found == New(Claims(Registry[next]))
<1>1. /\ tree' = tree /\ above' = above /\ excluded' = excluded /\ recursive' = recursive
      /\ pc = "discover" /\ inventory' = inventory /\ plain' = plain
      /\ components' = components \cup found
  BY DEF Discover, tree_vars
<1>2. \/ next < Len(Registry) /\ next' = next + 1 /\ pc' = "discover"
      \/ next >= Len(Registry) /\ next' = next /\ pc' = "sweep"
  <2>1. next \in Nat /\ Len(Registry) \in Nat
    BY Asking DEF DiscoveryInv, Context
  <2> QED BY <1>1, <2>1 DEF Discover
<1>3. \A c \in found : c.file \in Known /\ Owned(c) /\ Explained(c)
  BY <1>1, NewIsFine DEF DiscoveryInv
<1>4. \A f, t : ClaimedAs(next, f, t) => <<f, t>> \in Keys(components) \/ <<f, t>> \in Keys(found)
  BY FirstClaim DEF DiscoveryInv, Context
<1>5. Keys(components') = Keys(components) \cup Keys(found)
  BY <1>1 DEF Keys
<1> HIDE DEF found
<1>6. Context'
  BY <1>1, <1>2, Asking DEF DiscoveryInv, Context
<1>7. Listed'
  BY <1>1, <1>2, Frame DEF DiscoveryInv, Listed
<1>8. Found'
  BY <1>1, <1>3, Frame DEF DiscoveryInv, Found
<1>9. PlainKept'
  BY <1>1, Frame DEF DiscoveryInv, PlainKept
<1>10. Kept'
  <2> SUFFICES ASSUME NEW k \in Asked', NEW f, NEW t, ClaimedAs(k, f, t)'
               PROVE  (<<f, t>> \in Keys(components))'
    BY DEF Kept
  <2>1. k \in DOMAIN Registry /\ ClaimedAs(k, f, t)
    BY <1>1, Frame DEF Asked
  <2>2. k \in Asked \/ k = next
    BY <1>1, <1>2, <2>1, Asking DEF Asked, DiscoveryInv, Context
  <2>3. k \in Asked => <<f, t>> \in Keys(components)
    BY <1>1, <2>1 DEF DiscoveryInv, Kept
  <2> QED BY <1>4, <1>5, <2>1, <2>2, <2>3
<1>11. Filtered'
  BY <1>1, <1>2 DEF DiscoveryInv, Filtered
<1> QED BY <1>6, <1>7, <1>8, <1>9, <1>10, <1>11 DEF DiscoveryInv

(* The actions that only add components, once every tool has been asked.   *)
LEMMA Later ==
    ASSUME DiscoveryInv, tree' = tree, above' = above, excluded' = excluded, recursive' = recursive,
           next' = next, inventory' = inventory, plain' = plain,
           pc \in {"sweep", "bare"}, pc' \in {"bare", "filter"},
           NEW more, components' = components \cup more,
           \A c \in more : c.file \in Known \cup RootSkill /\ Owned(c) /\ Explained(c)
    PROVE  Context' /\ Listed' /\ Found' /\ Kept' /\ PlainKept'
<1>1. Context'
  BY DEF DiscoveryInv, Context
<1>2. Listed'
  BY Frame DEF DiscoveryInv, Listed
<1>3. Found'
  BY Frame DEF DiscoveryInv, Found
<1>4. PlainKept'
  BY Frame DEF DiscoveryInv, PlainKept
<1>5. Kept'
  <2> SUFFICES ASSUME NEW k \in Asked', NEW f, NEW t, ClaimedAs(k, f, t)'
               PROVE  (<<f, t>> \in Keys(components))'
    BY DEF Kept
  <2>1. k \in Asked /\ ClaimedAs(k, f, t)
    BY Frame DEF Asked
  <2>2. <<f, t>> \in Keys(components)
    BY <2>1 DEF DiscoveryInv, Kept
  <2> QED BY <2>2 DEF Keys
<1> QED BY <1>1, <1>2, <1>3, <1>4, <1>5

LEMMA SweepStep ==
    ASSUME DiscoveryInv, AddUncategorized
    PROVE  DiscoveryInv'
<1> DEFINE rest == Unclaimed(components)
           more == {[file |-> f, type |-> "uncategorized", tool |-> None] : f \in rest}
<1>1. /\ tree' = tree /\ above' = above /\ excluded' = excluded /\ recursive' = recursive
      /\ next' = next /\ inventory' = inventory /\ plain' = plain
      /\ pc = "sweep" /\ pc' = "bare" /\ components' = components \cup more
  BY DEF AddUncategorized, tree_vars
<1>2. \A c \in more : c.file \in Known \cup RootSkill /\ Owned(c) /\ Explained(c)
  <2>1. \A c \in more : c.file \in Candidates /\ c.type = "uncategorized"
    BY DEF Unclaimed
  <2> QED BY <2>1 DEF Known, Owned, OwnedTypes, Explained
<1>3. Filtered'
  BY <1>1 DEF Filtered
<1> HIDE DEF more
<1>4. Context' /\ Listed' /\ Found' /\ Kept' /\ PlainKept'
  BY <1>1, <1>2, Later
<1> QED BY <1>3, <1>4 DEF DiscoveryInv

LEMMA BareStep ==
    ASSUME DiscoveryInv, AddBareSkill
    PROVE  DiscoveryInv'
<1> DEFINE bare == IF components = {} THEN RootSkill \ excluded ELSE {}
           more == {[file |-> f, type |-> "skill", tool |-> "unknown"] : f \in bare}
<1>1. /\ tree' = tree /\ above' = above /\ excluded' = excluded /\ recursive' = recursive
      /\ next' = next /\ inventory' = inventory /\ plain' = plain
      /\ pc = "bare" /\ pc' = "filter" /\ components' = components \cup more
  BY DEF AddBareSkill, tree_vars
<1>2. bare \subseteq RootSkill \ excluded
  OBVIOUS
<1>3. \A c \in more : c.file \in Known \cup RootSkill /\ Owned(c) /\ Explained(c)
  <2>1. \A c \in more : c.file \in RootSkill /\ c.tool = "unknown"
    BY <1>2
  <2>2. \A f \in RootSkill : f.dir = <<>>
    <3> SUFFICES ASSUME NEW f \in RootSkill PROVE f.dir = <<>>
      OBVIOUS
    <3>1. f \in tree /\ Len(f.dir) = 0
      BY DEF RootSkill, At, InRoot, Named, Matches
    <3> QED BY <3>1, TreeFacts DEF DiscoveryInv, Context
  <2> QED BY <2>1, <2>2 DEF Owned, Explained
<1>4. Filtered'
  BY <1>1 DEF Filtered
<1> HIDE DEF more
<1>5. Context' /\ Listed' /\ Found' /\ Kept' /\ PlainKept'
  BY <1>1, <1>3, Later
<1> QED BY <1>4, <1>5 DEF DiscoveryInv

LEMMA FilterStep ==
    ASSUME DiscoveryInv, Filter
    PROVE  DiscoveryInv'
<1>1. /\ tree' = tree /\ above' = above /\ excluded' = excluded /\ recursive' = recursive
      /\ next' = next /\ inventory' = inventory /\ plain' = plain
      /\ pc = "filter" /\ pc' = "detect"
      /\ components' = {c \in components : c.file \notin excluded}
  BY DEF Filter, tree_vars
<1>2. Context'
  BY <1>1 DEF DiscoveryInv, Context
<1>3. Listed'
  BY <1>1, Frame DEF DiscoveryInv, Listed
<1>4. Found'
  BY <1>1, Frame DEF DiscoveryInv, Found
<1>5. PlainKept'
  BY <1>1, Frame DEF DiscoveryInv, PlainKept
<1>6. Kept'
  <2> SUFFICES ASSUME NEW k \in Asked', NEW f, NEW t, ClaimedAs(k, f, t)'
               PROVE  (<<f, t>> \in Keys(components))' \/ f \in excluded
    BY <1>1 DEF Kept
  <2>1. k \in Asked /\ ClaimedAs(k, f, t)
    BY <1>1, Frame DEF Asked
  <2>2. <<f, t>> \in Keys(components)
    BY <1>1, <2>1 DEF DiscoveryInv, Kept
  <2> QED BY <1>1, <2>2 DEF Keys
<1>7. Filtered'
  BY <1>1 DEF DiscoveryInv, Filtered, FilesOf
<1> QED BY <1>2, <1>3, <1>4, <1>5, <1>6, <1>7 DEF DiscoveryInv

LEMMA DetectStep ==
    ASSUME DiscoveryInv, Detect
    PROVE  DiscoveryInv'
<1>1. /\ tree' = tree /\ above' = above /\ excluded' = excluded /\ recursive' = recursive
      /\ next' = next /\ inventory' = inventory /\ components' = components
      /\ pc = "detect" /\ pc' = "done"
      /\ plain' = plain \/ plain' = components
  BY DEF Detect, tree_vars
<1>2. Context'
  BY <1>1 DEF DiscoveryInv, Context
<1>3. Listed'
  BY <1>1, Frame DEF DiscoveryInv, Listed
<1>4. Found'
  BY <1>1, Frame DEF DiscoveryInv, Found
<1>5. PlainKept'
  BY <1>1, Frame DEF DiscoveryInv, PlainKept, Found, Filtered
<1>6. Kept'
  <2> SUFFICES ASSUME NEW k \in Asked', NEW f, NEW t, ClaimedAs(k, f, t)'
               PROVE  <<f, t>> \in Keys(components) \/ f \in excluded
    BY <1>1 DEF Kept
  <2>1. k \in Asked /\ ClaimedAs(k, f, t)
    BY <1>1, Frame DEF Asked
  <2> QED BY <1>1, <2>1 DEF DiscoveryInv, Kept
<1>7. Filtered'
  BY <1>1 DEF DiscoveryInv, Filtered
<1> QED BY <1>2, <1>3, <1>4, <1>5, <1>6, <1>7 DEF DiscoveryInv

LEMMA AgainStep ==
    ASSUME DiscoveryInv, ScanRecursively
    PROVE  DiscoveryInv'
<1>1. /\ tree' = tree /\ above' = above /\ excluded' = excluded /\ ~recursive /\ recursive' = TRUE
      /\ pc' = "inventory" /\ next' = 1 /\ components' = {} /\ plain' = plain
  BY DEF ScanRecursively
<1>2. Context'
  BY <1>1, Asking DEF DiscoveryInv, Context
<1>3. Listed' /\ Found' /\ Kept'
  BY <1>1 DEF Listed, Found, Kept, Asked
<1>4. PlainKept'
  BY <1>1, Growing DEF DiscoveryInv, PlainKept
<1>5. Filtered'
  BY <1>1 DEF Filtered
<1> QED BY <1>2, <1>3, <1>4, <1>5 DEF DiscoveryInv

LEMMA WithdrawStep ==
    ASSUME DiscoveryInv, WithdrawExcludes
    PROVE  DiscoveryInv'
<1>1. /\ tree' = tree /\ above' = above /\ excluded' = {} /\ recursive' = recursive
      /\ pc' = "inventory" /\ next' = 1 /\ components' = {} /\ plain' = {}
  BY DEF WithdrawExcludes
<1>2. Context'
  BY <1>1, Asking DEF DiscoveryInv, Context
<1>3. Listed' /\ Found' /\ Kept' /\ PlainKept'
  BY <1>1 DEF Listed, Found, Kept, Asked, PlainKept
<1>4. Filtered'
  BY <1>1 DEF Filtered
<1> QED BY <1>2, <1>3, <1>4 DEF DiscoveryInv

LEMMA DiscoveryKeeps == DiscoveryInv /\ [DiscoveryNext]_discoveryVars => DiscoveryInv'
<1> SUFFICES ASSUME DiscoveryInv, [DiscoveryNext]_discoveryVars PROVE DiscoveryInv'
  OBVIOUS
<1>1. CASE DiscoveryNext
  BY <1>1, CollectStep, DiscoverStep, SweepStep, BareStep, FilterStep, DetectStep, AgainStep,
     WithdrawStep
     DEF DiscoveryNext
<1>2. CASE UNCHANGED discoveryVars
  <2>1. /\ tree' = tree /\ above' = above /\ excluded' = excluded /\ recursive' = recursive
        /\ pc' = pc /\ next' = next /\ inventory' = inventory /\ components' = components
        /\ plain' = plain
    BY <1>2 DEF discoveryVars, tree_vars
  <2>2. Context'
    BY <2>1 DEF DiscoveryInv, Context
  <2>3. Listed' /\ Found' /\ PlainKept'
    BY <2>1, Frame DEF DiscoveryInv, Listed, Found, PlainKept
  <2>4. Kept'
    BY <2>1, Frame DEF DiscoveryInv, Kept, Asked, Keys
  <2>5. Filtered'
    BY <2>1, Frame DEF DiscoveryInv, Filtered, FilesOf
  <2> QED BY <2>2, <2>3, <2>4, <2>5 DEF DiscoveryInv
<1> QED BY <1>1, <1>2

-----------------------------------------------------------------------------
(* Whatever the tree, the patterns and the path of the root: the invariant *)
(* holds of discover_setup, without --recursive and then with it.          *)
THEOREM DiscoveryInductive == DiscoverySpec => []DiscoveryInv
BY DiscoveryStarts, DiscoveryKeeps, PTL DEF DiscoverySpec

(* Every component of a finished setup is measured and fingerprinted, but  *)
(* for those of Unlisted (setup.py: collect_setup_file_paths).             *)
THEOREM InventoryIsComplete == DiscoverySpec => []InventoryCovers
<1>1. DiscoveryInv => InventoryCovers
  BY KnownListed DEF DiscoveryInv, InventoryCovers, Listed, Found, Filtered
<1> QED BY <1>1, DiscoveryInductive, PTL

(* What lies in a tool's directory is attributed to that tool, whichever   *)
(* discoverers read it (registry.py: the order of DISCOVERERS).            *)
THEOREM OwnerKept == DiscoverySpec => []OwnerIsAttributed
<1>1. DiscoveryInv => OwnerIsAttributed
  BY DEF DiscoveryInv, Found, Owned, OwnedTypes, OwnerIsAttributed
<1> QED BY <1>1, DiscoveryInductive, PTL

(* --recursive loses no component (base.py: _recursive_glob).              *)
THEOREM RecursiveOnlyAdds == DiscoverySpec => []RecursiveKeeps
<1>1. DiscoveryInv => RecursiveKeeps
  <2> SUFFICES ASSUME DiscoveryInv, pc = "done", NEW c \in plain,
                      c.type # "uncategorized", c.tool # "unknown"
               PROVE  <<c.file, c.type>> \in Keys(components)
    BY DEF RecursiveKeeps
  <2>1. c.file \notin excluded
    BY DEF DiscoveryInv, PlainKept
  <2>2. PICK k \in DOMAIN Registry : ClaimedAs(k, c.file, c.type)
    BY DEF DiscoveryInv, PlainKept, Explained
  <2>3. k \in Asked
    BY DEF Asked
  <2> QED BY <2>1, <2>2, <2>3 DEF DiscoveryInv, Kept
<1> QED BY <1>1, DiscoveryInductive, PTL

-----------------------------------------------------------------------------
(* The dictionary of taint-flow: each entry names a source line, its type, *)
(* and a name that the source reaches.                                     *)
TaintBacked ==
    \A t \in tainted :
        /\ t.name \in Names /\ t.line \in Lines
        /\ Origin(t.line) /\ t.type = TypeAt(t.line) /\ Carries(t.name, t.line)

PyInv == script \in Seq(Statement) /\ TaintBacked /\ FlowsBacked

Sets(c, v) == c.op \in {"assign", "read", "export"} /\ c.var = v
SetOn(v, n) == n \in DOMAIN sh /\ \E k \in DOMAIN sh[n] : Sets(sh[n][k], v)

MarksBacked == marks \in [Vars -> Nat] /\ \A v \in Vars : marks[v] > 0 => SetOn(v, marks[v])

ShBacked(r) ==
    /\ r.line \in DOMAIN sh
    /\ \E k \in DOMAIN sh[r.line] : sh[r.line][k].op \in {"fetch", "eval", "exec"}
    /\ r.kind = "bash_taint_indirect" =>
         /\ r.source \in DOMAIN sh
         /\ \E k \in DOMAIN sh[r.source] :
              /\ sh[r.source][k].op \in {"assign", "read", "export"}
              /\ sh[r.source][k].var = r.var
         /\ \E k \in DOMAIN sh[r.line] : Mentions(sh[r.line][k], r.var)

AtInv ==
    /\ at[1] \in Nat \ {0}
    /\ pass = "walk" /\ at[1] <= Len(sh) => at[2] \in DOMAIN sh[at[1]]

ShInv ==
    /\ sh \in Seq(Seq(Command) \ {<<>>})
    /\ at \in Nat \X Nat /\ AtInv /\ MarksBacked
    /\ \A r \in reports : ShBacked(r)

-----------------------------------------------------------------------------
(* A name assigned from a source is reached by it, and an f-string hands   *)
(* on what reaches its parts.                                              *)
LEMMA OriginCarries ==
    ASSUME NEW i \in Lines, script[i].target # NoName, Origin(i)
    PROVE  Carries(script[i].target, i)
BY DEF Carries, Closed

LEMMA FStringCarries ==
    ASSUME NEW i \in Lines, script[i].target # NoName, script[i].value = "fstring",
           NEW k \in DOMAIN script[i].args, NEW l \in Lines, Carries(script[i].args[k], l)
    PROVE  Carries(script[i].target, l)
BY DEF Carries, Closed

(* The nodes of the walk are on lines of the script. *)
LEMMA NodeOnLine ==
    ASSUME NEW n \in Nodes
    PROVE  /\ n.at \in Lines
           /\ n.kind = "assign" => script[n.at].target # NoName
           /\ n.kind = "call" => script[n.at].value = "call"
BY DEF Nodes

(* An entry that is backed, and the others, stay so with the script.       *)
LEMMA MarkKeepsTaint ==
    ASSUME TaintBacked, script' = script,
           NEW name \in Names, NEW type, NEW line \in Lines,
           Origin(line), type = TypeAt(line), Carries(name, line),
           tainted' = Mark(name, type, line)
    PROVE  TaintBacked'
<1>1. ASSUME NEW t \in tainted'
      PROVE  /\ t.name \in Names /\ t.line \in Lines
             /\ Origin(t.line) /\ t.type = TypeAt(t.line) /\ Carries(t.name, t.line)
  <2>1. t \in tainted \/ t = [name |-> name, type |-> type, line |-> line]
    BY <1>1 DEF Mark
  <2>2. CASE t \in tainted
    BY <2>2 DEF TaintBacked
  <2>3. CASE t = [name |-> name, type |-> type, line |-> line]
    <3>1. t.name = name /\ t.type = type /\ t.line = line
      BY <2>3
    <3> QED BY <3>1
  <2> QED BY <2>1, <2>2, <2>3
<1>2. Lines' = Lines
  BY DEF Lines
<1>3. \A i : Origin(i)' = Origin(i)
  BY DEF Origin
<1>4. \A i : TypeAt(i)' = TypeAt(i)
  BY DEF TypeAt
<1>5. \A x, i : Carries(x, i)' = Carries(x, i)
  BY <1>2 DEF Carries, Closed, Origin
<1> QED BY <1>1, <1>2, <1>3, <1>4, <1>5, Zenon DEF TaintBacked

(* What taint-flow stores stays backed as long as the script is the same.  *)
LEMMA AssignKeepsTaint ==
    ASSUME PyInv, NEW n \in Nodes, VisitAssign(n), script' = script
    PROVE  TaintBacked'
<1> DEFINE s == script[n.at]
<1>1. n.at \in Lines /\ s.target # NoName
  BY NodeOnLine DEF VisitAssign
<1>2. s \in Statement
  BY <1>1 DEF PyInv, Lines
<1>3. s.target \in Names
  BY <1>1, <1>2 DEF Statement
<1> HIDE DEF s
<1>4. CASE s.value = "call" /\ s.callee.source # "none" /\ tainted' = Mark(s.target, s.callee.source, n.at)
  <2>1. Origin(n.at) /\ TypeAt(n.at) = s.callee.source
    BY <1>4 DEF Origin, TypeAt, s
  <2>2. Carries(s.target, n.at)
    BY <1>1, <2>1, OriginCarries DEF s
  <2> QED BY <1>1, <1>3, <1>4, <2>1, <2>2, MarkKeepsTaint DEF PyInv
<1>5. CASE s.value = "environ" /\ tainted' = Mark(s.target, "credential", n.at)
  <2>1. Origin(n.at) /\ TypeAt(n.at) = "credential"
    BY <1>5 DEF Origin, TypeAt, s
  <2>2. Carries(s.target, n.at)
    BY <1>1, <2>1, OriginCarries DEF s
  <2> QED BY <1>1, <1>3, <1>5, <2>1, <2>2, MarkKeepsTaint DEF PyInv
<1>6. CASE /\ s.value = "fstring"
           /\ \E k \in FirstTainted(s.args) : \E t \in TaintOf(s.args[k]) :
                tainted' = Mark(s.target, t.type, t.line)
  <2>1. PICK k \in DOMAIN s.args, t \in tainted :
           t.name = s.args[k] /\ tainted' = Mark(s.target, t.type, t.line)
    BY <1>6 DEF FirstTainted, TaintOf
  <2>2. t.line \in Lines /\ Origin(t.line) /\ t.type = TypeAt(t.line) /\ Carries(s.args[k], t.line)
    BY <2>1 DEF PyInv, TaintBacked
  <2>3. Carries(s.target, t.line)
    BY <1>1, <1>6, <2>2, FStringCarries DEF s
  <2> QED BY <1>3, <2>1, <2>2, <2>3, MarkKeepsTaint DEF PyInv
<1>7. CASE tainted' = tainted
  BY <1>7 DEF PyInv, TaintBacked, Origin, TypeAt, Carries, Closed, Lines
<1> QED BY <1>4, <1>5, <1>6, <1>7 DEF VisitAssign, s

(* What makes one report of taint-flow backed.                             *)
FlowBacked(r) ==
    /\ r.source \in Lines /\ r.line \in Lines
    /\ Origin(r.source) /\ r.type = TypeAt(r.source)
    /\ script[r.line].value = "call" /\ r.sink = script[r.line].callee.sink
    /\ r.sink # "none"
    /\ \E name \in Names :
         /\ Carries(name, r.source)
         /\ \/ \E k \in DOMAIN script[r.line].args : script[r.line].args[k] = name
            \/ \E k \in DOMAIN script[r.line].kws : script[r.line].kws[k].value = name

(* A report made from a backed entry is backed. *)
LEMMA FlowOfTaint ==
    ASSUME TaintBacked, NEW n \in Nodes, n.kind = "call",
           script[n.at].callee.sink # "none", NEW t \in tainted,
           \/ \E k \in DOMAIN script[n.at].args : script[n.at].args[k] = t.name
           \/ \E k \in DOMAIN script[n.at].kws : script[n.at].kws[k].value = t.name
    PROVE  FlowBacked(Flow(t, n))
<1>1. n.at \in Lines /\ script[n.at].value = "call"
  BY NodeOnLine
<1>2. t.name \in Names /\ t.line \in Lines /\ Origin(t.line) /\ t.type = TypeAt(t.line)
      /\ Carries(t.name, t.line)
  BY DEF TaintBacked
<1> DEFINE r == Flow(t, n)
<1>3. r.type = t.type /\ r.sink = script[n.at].callee.sink /\ r.source = t.line /\ r.line = n.at
  BY DEF Flow
<1> HIDE DEF r
<1>4. FlowBacked(r)
  BY <1>1, <1>2, <1>3 DEF FlowBacked
<1> QED BY <1>4 DEF r

(* A call adds only backed reports. *)
LEMMA CallKeepsFlows ==
    ASSUME PyInv, NEW n \in Nodes, VisitCall(n), script' = script
    PROVE  FlowsBacked'
<1> DEFINE s == script[n.at]
           values == [k \in DOMAIN s.kws |-> s.kws[k].value]
<1>1. ASSUME NEW r \in flows', r \notin flows
      PROVE  FlowBacked(r)
  <2>1. s.callee.sink # "none" /\ n.kind = "call"
    BY <1>1 DEF VisitCall
  <2>2. \/ \E k \in FirstTainted(s.args) : \E t \in TaintOf(s.args[k]) : r = Flow(t, n)
        \/ \E k \in FirstTainted(values) : \E t \in TaintOf(values[k]) : r = Flow(t, n)
    BY <1>1, <2>1, Zenon DEF VisitCall
  <2>3. PICK t \in tainted :
          /\ r = Flow(t, n)
          /\ \/ \E k \in DOMAIN s.args : s.args[k] = t.name
             \/ \E k \in DOMAIN s.kws : s.kws[k].value = t.name
    BY <2>2 DEF FirstTainted, TaintOf
  <2> QED BY <2>1, <2>3, FlowOfTaint DEF PyInv
<1>2. \A r \in flows : FlowBacked(r)
  BY Zenon DEF PyInv, FlowsBacked, FlowBacked
<1>3. \A r \in flows' : FlowBacked(r)
  BY <1>1, <1>2
<1>4. \A r : FlowBacked(r)' = FlowBacked(r)
  BY DEF FlowBacked, Lines, Origin, TypeAt, Carries, Closed
<1> QED BY <1>3, <1>4, Zenon DEF FlowsBacked, FlowBacked

(* Backed reports stay so with the script. *)
LEMMA FlowsStayBacked ==
    ASSUME FlowsBacked, script' = script, flows' = flows
    PROVE  FlowsBacked'
<1>1. \A r \in flows' : FlowBacked(r)
  BY Zenon DEF FlowsBacked, FlowBacked
<1>2. \A r : FlowBacked(r)' = FlowBacked(r)
  BY DEF FlowBacked, Lines, Origin, TypeAt, Carries, Closed
<1> QED BY <1>1, <1>2, ZenonT(30) DEF FlowsBacked, FlowBacked

(* A step of taint-flow keeps its invariant. *)
LEMMA PyStep ==
    ASSUME PyInv, PyNext
    PROVE  PyInv'
<1>1. script' = script
  BY DEF PyNext, AstBehavioral, TaintTracking
<1>2. CASE AstBehavioral
  <2>1. tainted' = tainted /\ flows' = flows
    BY <1>2 DEF AstBehavioral
  <2>2. TaintBacked'
    BY <1>1, <2>1 DEF PyInv, TaintBacked, Origin, TypeAt, Carries, Closed, Lines
  <2> QED BY <1>1, <2>1, <2>2, FlowsStayBacked DEF PyInv
<1>3. CASE TaintTracking
  <2>1. PICK n \in Nodes : VisitAssign(n) \/ VisitCall(n)
    BY <1>3 DEF TaintTracking
  <2>2. CASE VisitAssign(n)
    <3>1. TaintBacked'
      BY <1>1, <2>2, AssignKeepsTaint
    <3>2. flows' = flows
      BY <2>2 DEF VisitAssign
    <3>3. FlowsBacked'
      BY <1>1, <3>2, FlowsStayBacked DEF PyInv
    <3> QED BY <1>1, <3>1, <3>3 DEF PyInv
  <2>3. CASE VisitCall(n)
    <3>1. FlowsBacked'
      BY <1>1, <2>3, CallKeepsFlows
    <3>2. tainted' = tainted
      BY <2>3 DEF VisitCall
    <3>3. TaintBacked'
      BY <1>1, <3>2 DEF PyInv, TaintBacked, Origin, TypeAt, Carries, Closed, Lines
    <3> QED BY <1>1, <3>1, <3>3 DEF PyInv
  <2> QED BY <2>1, <2>2, <2>3
<1> QED BY <1>2, <1>3 DEF PyNext

-----------------------------------------------------------------------------
(* The walk stays on commands of the script. *)
LEMMA FollowsStays ==
    ASSUME ShInv, pass = "walk", at[1] <= Len(sh), at' = Follows, sh' = sh
    PROVE  at' \in Nat \X Nat /\ AtInv'
<1>1. at[1] \in 1 .. Len(sh) /\ at[2] \in 1 .. Len(sh[at[1]])
  BY DEF ShInv, AtInv
<1>2. Len(sh) \in Nat /\ \A i \in 1 .. Len(sh) : Len(sh[i]) \in Nat \ {0}
  BY DEF ShInv
<1>3. CASE at[2] < Len(sh[at[1]])
  <2>1. at' = <<at[1], at[2] + 1>>
    BY <1>3 DEF Follows
  <2> QED BY <1>1, <1>2, <1>3, <2>1 DEF AtInv, ShInv
<1>4. CASE ~(at[2] < Len(sh[at[1]]))
  <2>1. at' = <<at[1] + 1, 1>>
    BY <1>4 DEF Follows
  <2> QED BY <1>1, <1>2, <1>4, <2>1 DEF AtInv, ShInv
<1> QED BY <1>3, <1>4

(* The commands of a script have a variable. *)
LEMMA CommandHasVar ==
    ASSUME ShInv, NEW n \in DOMAIN sh, NEW k \in DOMAIN sh[n]
    PROVE  sh[n][k].var \in Vars /\ sh[n][k].value \in Values
<1>1. sh[n] \in Seq(Command)
  BY DEF ShInv
<1>2. sh[n][k] \in Command
  BY <1>1
<1> QED BY <1>2 DEF Command

(* Marks are set on the line of the command that sets the variable. *)
LEMMA WalkMarksBacked ==
    ASSUME ShInv, NEW n \in DOMAIN sh, NEW k \in DOMAIN sh[n], sh' = sh,
           marks' = WalkMarks(sh[n][k], n)
    PROVE  MarksBacked'
<1> DEFINE c == sh[n][k]
<1>1. c.var \in Vars
  BY CommandHasVar
<1>2. n \in Nat
  BY DEF ShInv
<1>3. CASE marks' = marks
  BY <1>3 DEF ShInv, MarksBacked, SetOn, Sets
<1>4. CASE Sets(c, c.var) /\ marks' = [marks EXCEPT ![c.var] = n]
  <2>1. SetOn(c.var, n)
    BY <1>4 DEF SetOn
  <2> HIDE DEF c
  <2>2. marks' \in [Vars -> Nat]
    BY <1>1, <1>2, <1>4 DEF ShInv, MarksBacked
  <2>3. ASSUME NEW v \in Vars, marks'[v] > 0
        PROVE  SetOn(v, marks'[v])
    BY <1>1, <1>4, <2>1, <2>3 DEF ShInv, MarksBacked
  <2>4. \A v, i : SetOn(v, i)' = SetOn(v, i)
    BY DEF SetOn, Sets
  <2> QED BY <2>2, <2>3, <2>4, Zenon DEF MarksBacked
<1> QED BY <1>3, <1>4 DEF WalkMarks, Sets

(* So are those of the line pass. *)
LEMMA LineMarksBacked ==
    ASSUME ShInv, NEW n \in DOMAIN sh
    PROVE  /\ LineMarks(sh[n], n) \in [Vars -> Nat]
           /\ \A v \in Vars : LineMarks(sh[n], n)[v] > 0 => SetOn(v, LineMarks(sh[n], n)[v])
<1> DEFINE line == sh[n]
           assigned == IF line[1].op = "assign" /\ HasSource(line)
                       THEN [marks EXCEPT ![line[1].var] = n] ELSE marks
           read == [v \in Vars |-> IF \E k \in FirstOf(line, "read") : line[k].var = v
                                   THEN n ELSE assigned[v]]
           all == [v \in Vars |-> IF \E k \in FirstOf(line, "export") :
                                       /\ line[k].var = v /\ line[k].value \in Vars
                                       /\ read[line[k].value] > 0
                                  THEN n ELSE read[v]]
<1>1. LineMarks(line, n) = all
  BY DEF LineMarks
<1>2. n \in Nat /\ 1 \in DOMAIN line /\ line[1].var \in Vars
  <2>1. line \in Seq(Command) /\ line # <<>>
    BY DEF ShInv
  <2>2. 1 \in DOMAIN line
    BY <2>1
  <2> QED BY <2>2, CommandHasVar DEF ShInv
<1>3. marks \in [Vars -> Nat] /\ \A v \in Vars : marks[v] > 0 => SetOn(v, marks[v])
  BY DEF ShInv, MarksBacked
<1>4. \A k \in DOMAIN line : line[k].op \in {"assign", "read", "export"} => SetOn(line[k].var, n)
  BY DEF SetOn, Sets
<1>5. \A op : \A k \in FirstOf(line, op) : k \in DOMAIN line /\ line[k].op = op
  BY DEF FirstOf
<1> HIDE DEF line
<1>6. assigned \in [Vars -> Nat] /\ \A v \in Vars : assigned[v] > 0 => SetOn(v, assigned[v])
  BY <1>2, <1>3, <1>4
<1> HIDE DEF assigned
<1>7. read \in [Vars -> Nat] /\ \A v \in Vars : read[v] > 0 => SetOn(v, read[v])
  BY <1>2, <1>4, <1>5, <1>6
<1> HIDE DEF read
<1>8. all \in [Vars -> Nat] /\ \A v \in Vars : all[v] > 0 => SetOn(v, all[v])
  BY <1>2, <1>4, <1>5, <1>7
<1> QED BY <1>1, <1>8 DEF line

(* A report of the walk is backed. *)
LEMMA WalkReportBacked ==
    ASSUME ShInv, NEW n \in DOMAIN sh, NEW k \in DOMAIN sh[n],
           NEW r \in WalkReports(sh[n][k], n)
    PROVE  ShBacked(r)
<1> DEFINE c == sh[n][k]
<1>1. CASE c.op = "fetch" /\ r = Direct(n, "curl | bash")
  BY <1>1 DEF ShBacked, Direct
<1>2. CASE c.op = "eval" /\ r = Direct(n, "eval")
  BY <1>2 DEF ShBacked, Direct
<1>3. ASSUME c.op = "eval", NEW v \in Tainted(c), r = Indirect(n, v, "eval")
      PROVE  ShBacked(r)
  <2>1. v \in Vars /\ marks[v] > 0 /\ Mentions(c, v)
    BY <1>3 DEF Tainted
  <2>2. SetOn(v, marks[v])
    BY <2>1 DEF ShInv, MarksBacked
  <2> QED BY <1>3, <2>1, <2>2 DEF ShBacked, Indirect, SetOn, Sets
<1> QED BY <1>1, <1>2, <1>3 DEF WalkReports

(* A report of the line pass is backed. *)
LEMMA LineReportBacked ==
    ASSUME ShInv, NEW n \in DOMAIN sh, NEW r \in LineReports(sh[n], n, LineMarks(sh[n], n))
    PROVE  ShBacked(r)
<1> DEFINE line == sh[n]
           seen == LineMarks(line, n)
<1>1. CASE HasFetch(line) /\ r = Direct(n, "curl | bash")
  BY <1>1 DEF ShBacked, Direct, HasFetch
<1>2. CASE EvalOfSubstitution(line) /\ r = Direct(n, "eval")
  BY <1>2 DEF ShBacked, Direct, EvalOfSubstitution
<1>3. CASE HasSink(line) /\ r = Direct(n, "sink")
  BY <1>3 DEF ShBacked, Direct, HasSink
<1>4. ASSUME HasSink(line), NEW v \in Vars, seen[v] > 0,
             \E k \in DOMAIN line : Mentions(line[k], v),
             r = [Indirect(n, v, "sink") EXCEPT !.source = seen[v]]
      PROVE  ShBacked(r)
  <2>1. SetOn(v, seen[v])
    BY <1>4, LineMarksBacked
  <2> HIDE DEF seen
  <2>2. r.line = n /\ r.var = v /\ r.source = seen[v]
    BY <1>4 DEF Indirect
  <2> QED BY <1>4, <2>1, <2>2 DEF ShBacked, HasSink, SetOn, Sets
<1> QED BY <1>1, <1>2, <1>3, <1>4 DEF LineReports

(* Reports and marks stay backed with the script. *)
LEMMA ReportsStayBacked ==
    ASSUME sh' = sh, NEW r, ShBacked(r)
    PROVE  ShBacked(r)'
BY DEF ShBacked, Mentions

LEMMA MarksStayBacked ==
    ASSUME ShInv, sh' = sh,
           marks' \in [Vars -> Nat], \A v \in Vars : marks'[v] > 0 => SetOn(v, marks'[v])
    PROVE  MarksBacked'
<1>1. \A v, i : SetOn(v, i)' = SetOn(v, i)
  BY DEF SetOn, Sets
<1> QED BY <1>1, Zenon DEF MarksBacked

(* So does the invariant with its variables. *)
LEMMA ShUnchanged ==
    ASSUME ShInv, UNCHANGED sh_vars
    PROVE  ShInv'
<1>1. AtInv'
  BY DEF sh_vars, ShInv, AtInv
<1>2. MarksBacked'
  BY MarksStayBacked DEF sh_vars, ShInv, MarksBacked
<1>3. \A r \in reports' : ShBacked(r)'
  BY ReportsStayBacked DEF sh_vars, ShInv
<1> QED BY <1>1, <1>2, <1>3 DEF sh_vars, ShInv

(* A step of the shell rule keeps its invariant. *)
LEMMA ShStep ==
    ASSUME ShInv, ShNext
    PROVE  ShInv'
<1>1. sh' = sh
  BY DEF ShNext, Walk, Walked, ReadLine, Read
<1>2. CASE Walk
  <2> DEFINE n == at[1]
             k == at[2]
             new == WalkReports(sh[n][k], n)
  <2>1. n \in DOMAIN sh /\ k \in DOMAIN sh[n]
    <3>1. n \in Nat \ {0} /\ Len(sh) \in Nat /\ n <= Len(sh) /\ DOMAIN sh = 1 .. Len(sh)
      BY <1>2 DEF Walk, ShInv, AtInv
    <3> QED BY <1>2, <3>1 DEF Walk, ShInv, AtInv
  <2>2. at' \in Nat \X Nat /\ AtInv'
    BY <1>1, <1>2, FollowsStays DEF Walk
  <2>3. MarksBacked'
    BY <1>1, <1>2, <2>1, WalkMarksBacked DEF Walk
  <2>4. \A r \in reports' : r \in reports \/ r \in new
    BY <1>2, Zenon DEF Walk
  <2>5. \A r \in reports' : ShBacked(r)
    BY <2>1, <2>4, WalkReportBacked DEF ShInv
  <2>6. \A r \in reports' : ShBacked(r)'
    BY <1>1, <2>5, ReportsStayBacked
  <2> QED BY <1>1, <2>2, <2>3, <2>6 DEF ShInv
<1>3. CASE Walked
  <2>1. at' \in Nat \X Nat /\ AtInv'
    BY <1>3 DEF Walked, AtInv
  <2>2. MarksBacked'
    BY <1>1, <1>3, MarksStayBacked DEF Walked, ShInv, MarksBacked
  <2>3. \A r \in reports' : ShBacked(r)'
    BY <1>1, <1>3, ReportsStayBacked DEF Walked, ShInv
  <2> QED BY <1>1, <2>1, <2>2, <2>3 DEF ShInv
<1>4. CASE ReadLine
  <2> DEFINE n == at[1]
             seen == LineMarks(sh[n], n)
             new == LineReports(sh[n], n, seen)
  <2>1. n \in DOMAIN sh
    BY <1>4 DEF ReadLine, ShInv, AtInv
  <2>2. at' \in Nat \X Nat /\ AtInv'
    BY <1>4 DEF ReadLine, ShInv, AtInv
  <2>3. marks' = marks \/ marks' = seen
    BY <1>4 DEF ReadLine
  <2>4. MarksBacked'
    <3>1. CASE marks' = marks
      BY <1>1, <3>1, MarksStayBacked DEF ShInv, MarksBacked
    <3>2. CASE marks' = seen
      BY <1>1, <2>1, <3>2, LineMarksBacked, MarksStayBacked
    <3> QED BY <2>3, <3>1, <3>2
  <2>5. \A r \in reports' : r \in reports \/ r \in new
    BY <1>4, Zenon DEF ReadLine
  <2>6. \A r \in reports' : ShBacked(r)
    BY <2>1, <2>5, LineReportBacked DEF ShInv
  <2>7. \A r \in reports' : ShBacked(r)'
    BY <1>1, <2>6, ReportsStayBacked
  <2> QED BY <1>1, <2>2, <2>4, <2>7 DEF ShInv
<1>5. CASE Read
  <2>1. at' \in Nat \X Nat /\ AtInv'
    BY <1>5 DEF Read, AtInv, ShInv
  <2>2. MarksBacked'
    BY <1>1, <1>5, MarksStayBacked DEF Read, ShInv, MarksBacked
  <2>3. \A r \in reports' : ShBacked(r)'
    BY <1>1, <1>5, ReportsStayBacked DEF Read, ShInv
  <2> QED BY <1>1, <2>1, <2>2, <2>3 DEF ShInv
<1> QED BY <1>2, <1>3, <1>4, <1>5 DEF ShNext

-----------------------------------------------------------------------------
(* The invariants hold when a script is opened. *)
LEMMA InitInv ==
    ASSUME Init
    PROVE  PyInv /\ ShInv
<1>1. script \in Seq(Statement) /\ sh \in Seq(Seq(Command) \ {<<>>})
  <2>1. Scripts \subseteq Seq(Statement) /\ ShScripts \subseteq Seq(Seq(Command) \ {<<>>})
    BY PythonConstants, BashConstants
  <2>2. \A S : <<>> \in Seq(S)
    OBVIOUS
  <2>3. \/ script \in Scripts /\ sh = <<>>
        \/ script = <<>> /\ sh \in ShScripts
    BY DEF Init
  <2> QED BY <2>1, <2>2, <2>3, Zenon
<1>2. TaintBacked /\ FlowsBacked
  BY DEF Init, PyFresh, TaintBacked, FlowsBacked
<1>3. at = <<1, 1>> /\ marks = NoMarks /\ reports = {}
  BY DEF Init, ShFresh
<1>4. AtInv
  BY <1>1, <1>3 DEF AtInv
<1>5. MarksBacked
  BY <1>3 DEF MarksBacked, NoMarks
<1> QED BY <1>1, <1>2, <1>3, <1>4, <1>5 DEF PyInv, ShInv

(* The invariants say that every report is backed. *)
LEMMA InvBacks ==
    ASSUME PyInv, ShInv
    PROVE  FlowsBacked /\ ReportsBacked
BY Zenon DEF PyInv, ShInv, ReportsBacked, ShBacked

(* No report of the script rules is made up, for every set of scripts.     *)
THEOREM NothingMadeUp == Spec => []ReportsBacked
<1>1. Init => PyInv /\ ShInv
  BY InitInv
<1>2. PyInv /\ ShInv /\ [Next]_vars => (PyInv /\ ShInv)'
  <2> SUFFICES ASSUME PyInv, ShInv, [Next]_vars
               PROVE  PyInv' /\ ShInv'
    OBVIOUS
  <2>1. ASSUME UNCHANGED py_vars
        PROVE  PyInv'
    BY <2>1, FlowsStayBacked
       DEF py_vars, PyInv, TaintBacked, Origin, TypeAt, Carries, Closed, Lines
  <2>2. ASSUME UNCHANGED sh_vars
        PROVE  ShInv'
    BY <2>2, ShUnchanged
  <2>3. CASE PyNext /\ UNCHANGED sh_vars
    BY <2>2, <2>3, PyStep
  <2>4. CASE ShNext /\ UNCHANGED py_vars
    BY <2>1, <2>4, ShStep
  <2>5. CASE UNCHANGED vars
    BY <2>1, <2>2, <2>5 DEF vars
  <2> QED BY <2>3, <2>4, <2>5 DEF Next
<1>3. PyInv /\ ShInv => ReportsBacked
  BY InvBacks
<1> QED BY <1>1, <1>2, <1>3, PTL DEF Spec

-----------------------------------------------------------------------------
(* What a run of a Python script carries: the equation of PyCarrying has a *)
(* solution.                                                               *)
PyCarried(g, n) == g = [i \in 0 .. n |-> IF i = 0 THEN {} ELSE PyAfter(i, g[i - 1])]

LEMMA PyCarriedExists ==
    ASSUME NEW n \in Nat
    PROVE  \E g : PyCarried(g, n)
<1> DEFINE T == {m \in 0 .. n : ~\E g : PyCarried(g, m)}
<1> SUFFICES ASSUME T # {} PROVE FALSE
  OBVIOUS
<1>1. PICK m \in T : \A l \in T : m <= l
  <2>1. T \in SUBSET Nat
    OBVIOUS
  <2> HIDE DEF T
  <2> QED BY <2>1, LeastNat
<1>2. m # 0
  <2>1. PyCarried([i \in 0 .. 0 |-> {}], 0)
    BY DEF PyCarried
  <2> QED BY <2>1
<1>3. m \in 1 .. n /\ m - 1 \in 0 .. n /\ m - 1 \notin T
  BY <1>1, <1>2
<1>4. PICK g : PyCarried(g, m - 1)
  BY <1>3
<1> DEFINE h == [i \in 0 .. m |-> IF i = m THEN PyAfter(m, g[m - 1]) ELSE g[i]]
<1>5. ASSUME NEW i \in 0 .. m
      PROVE  h[i] = IF i = 0 THEN {} ELSE PyAfter(i, h[i - 1])
  <2>1. CASE i = m
    <3>1. m - 1 \in 0 .. m /\ m - 1 # m /\ h[m - 1] = g[m - 1]
      BY <1>3
    <3> QED BY <1>3, <2>1, <3>1
  <2>2. CASE i # m
    <3>1. i \in 0 .. m - 1 /\ h[i] = g[i]
      BY <1>3, <2>2
    <3>2. g[i] = IF i = 0 THEN {} ELSE PyAfter(i, g[i - 1])
      BY <1>4, <3>1 DEF PyCarried
    <3>3. i # 0 => h[i - 1] = g[i - 1]
      BY <1>3, <3>1
    <3> QED BY <3>1, <3>2, <3>3
  <2> QED BY <2>1, <2>2
<1>6. PyCarried(h, m)
  BY <1>5 DEF PyCarried
<1> QED BY <1>3, <1>6

LEMMA PyCarryingIs ==
    ASSUME script \in Seq(Statement)
    PROVE  /\ PyCarrying[0] = {}
           /\ \A i \in Lines : PyCarrying[i] = PyAfter(i, PyCarrying[i - 1])
<1> DEFINE g == CHOOSE f : PyCarried(f, Len(script))
<1>1. Len(script) \in Nat /\ Lines = 1 .. Len(script)
  BY DEF Lines
<1>2. PyCarried(g, Len(script))
  BY <1>1, PyCarriedExists
<1>3. PyCarrying = g
  BY DEF PyCarrying, PyCarried
<1> HIDE DEF g
<1>4. \A i \in 0 .. Len(script) : g[i] = IF i = 0 THEN {} ELSE PyAfter(i, g[i - 1])
  BY <1>2 DEF PyCarried
<1> QED BY <1>1, <1>3, <1>4

(* Assignments that taint-flow can follow: from a source, or by an         *)
(* f-string over what such an assignment further up, and no deeper, sets.  *)
HandsOn(S, i) ==
    /\ script[i].value = "fstring"
    /\ \E k \in DOMAIN script[i].args : \E j \in S :
         /\ j \in Lines /\ j < i /\ script[j].depth <= script[i].depth
         /\ script[j].target = script[i].args[k] /\ script[j].target # NoName
Extended(S) ==
    \A i \in Lines : script[i].target # NoName /\ (Origin(i) \/ HandsOn(S, i)) => i \in S
Followed(i) == \A S \in SUBSET Lines : Extended(S) => i \in S
FollowedLines == {i \in Lines : Followed(i)}

LEMMA FollowedFrom ==
    ASSUME NEW i \in Lines, script[i].target # NoName, Origin(i) \/ HandsOn(FollowedLines, i)
    PROVE  Followed(i)
<1> SUFFICES ASSUME NEW S \in SUBSET Lines, Extended(S) PROVE i \in S
  BY DEF Followed
<1>1. FollowedLines \subseteq S
  BY DEF FollowedLines, Followed
<1>2. HandsOn(FollowedLines, i) => HandsOn(S, i)
  BY <1>1 DEF HandsOn
<1> QED BY <1>2 DEF Extended

LEMMA FollowedOnly ==
    ASSUME NEW i \in Lines, Followed(i)
    PROVE  script[i].target # NoName /\ (Origin(i) \/ HandsOn(FollowedLines, i))
<1> DEFINE S == {l \in FollowedLines :
                    script[l].target # NoName /\ (Origin(l) \/ HandsOn(FollowedLines, l))}
<1>1. S \in SUBSET Lines /\ S \subseteq FollowedLines
  BY DEF FollowedLines
<1>2. ASSUME NEW l \in Lines, script[l].target # NoName, Origin(l) \/ HandsOn(S, l)
      PROVE  l \in S
  <2>1. HandsOn(S, l) => HandsOn(FollowedLines, l)
    BY <1>1 DEF HandsOn
  <2>2. Followed(l)
    BY <1>2, <2>1, FollowedFrom
  <2> QED BY <1>2, <2>1, <2>2 DEF FollowedLines
<1>3. Extended(S)
  BY <1>2 DEF Extended
<1> HIDE DEF S
<1>4. i \in S
  BY <1>1, <1>3 DEF Followed
<1> QED BY <1>4 DEF S

(* In a followable script a name that carries data of a source has been    *)
(* assigned by one of these.                                               *)
LEMMA CarriedIsFollowed ==
    ASSUME script \in Seq(Statement), Followable, NEW n \in 0 .. Len(script),
           NEW x \in PyCarrying[n]
    PROVE  \E j \in Lines : j <= n /\ Followed(j) /\ script[j].target = x
<1> DEFINE Fine(i) == \A y \in PyCarrying[i] :
                         \E j \in Lines : j <= i /\ Followed(j) /\ script[j].target = y
           T == {i \in 0 .. Len(script) : ~Fine(i)}
<1>1. Len(script) \in Nat /\ Lines = 1 .. Len(script)
  BY DEF Lines
<1> SUFFICES ASSUME T # {} PROVE FALSE
  OBVIOUS
<1>2. PICK i \in T : \A l \in T : i <= l
  <2>1. T \in SUBSET Nat
    BY <1>1
  <2> HIDE DEF T
  <2> QED BY <2>1, LeastNat
<1>3. i # 0
  BY <1>2, PyCarryingIs
<1>4. i \in Lines /\ i - 1 \in 0 .. Len(script) /\ Fine(i - 1)
  BY <1>1, <1>2, <1>3
<1>5. PICK y \in PyCarrying[i] : ~\E j \in Lines : j <= i /\ Followed(j) /\ script[j].target = y
  BY <1>2
<1>6. PyCarrying[i] = PyAfter(i, PyCarrying[i - 1])
  BY <1>4, PyCarryingIs
<1>7. y \notin PyCarrying[i - 1]
  <2>1. ASSUME NEW j \in Lines, j <= i - 1 PROVE j <= i
    BY <1>1, <1>4, <2>1
  <2> QED BY <1>4, <1>5, <2>1
<1>8. /\ y = script[i].target /\ y # NoName
      /\ \/ Origin(i)
         \/ script[i].value = "fstring"
              /\ \E k \in DOMAIN script[i].args : script[i].args[k] \in PyCarrying[i - 1]
         \/ script[i].value = "copy"
  BY <1>5, <1>6, <1>7 DEF PyAfter
<1>9. script[i].value # "copy"
  BY <1>4 DEF Followable
<1>10. CASE script[i].value = "fstring"
              /\ \E k \in DOMAIN script[i].args : script[i].args[k] \in PyCarrying[i - 1]
  <2>1. PICK k \in DOMAIN script[i].args : script[i].args[k] \in PyCarrying[i - 1]
    BY <1>10
  <2>2. PICK j \in Lines : j <= i - 1 /\ Followed(j) /\ script[j].target = script[i].args[k]
    BY <1>4, <2>1
  <2>3. j < i /\ script[j].target # NoName
    BY <1>1, <1>4, <2>2, FollowedOnly
  <2>4. script[j].depth <= script[i].depth
    BY <1>4, <1>10, <2>3 DEF Followable
  <2>5. HandsOn(FollowedLines, i)
    BY <1>10, <2>2, <2>3, <2>4 DEF HandsOn, FollowedLines
  <2>6. Followed(i)
    BY <1>4, <1>8, <2>5, FollowedFrom
  <2> QED BY <1>1, <1>4, <1>5, <1>8, <2>6
<1>11. CASE Origin(i)
  <2>1. Followed(i)
    BY <1>4, <1>8, <1>11, FollowedFrom
  <2> QED BY <1>1, <1>4, <1>5, <1>8, <2>1
<1> QED BY <1>8, <1>9, <1>10, <1>11

-----------------------------------------------------------------------------
(* What taint-flow has seen: a visited assignment that can be followed has *)
(* put its name into the dictionary, and a visited call has been reported  *)
(* when such an assignment, before it in the walk, sets one of its         *)
(* arguments.                                                              *)
Argument(i, name) ==
    \/ \E k \in DOMAIN script[i].args : script[i].args[k] = name
    \/ \E k \in DOMAIN script[i].kws : script[i].kws[k].value = name

SeenAssigned ==
    \A n \in visited : n.kind = "assign" /\ Followed(n.at) => Tainting(script[n.at].target)
SeenCalled ==
    \A n \in visited : n.kind = "call" /\ script[n.at].callee.sink # "none" =>
        \A m \in Nodes : /\ m.kind = "assign" /\ Before(m, n) /\ Followed(m.at)
                         /\ Argument(n.at, script[m.at].target)
                         => \E r \in flows : r.line = n.at
Behaved ==
    rule = "taint-flow" =>
        \A i \in Lines : script[i].value = "call" /\ Behaviour(script[i]) # {} =>
            \E b \in behaviours : b.line = i

PySeen ==
    /\ script \in Seq(Statement) /\ visited \subseteq Nodes
    /\ SeenAssigned /\ SeenCalled /\ Behaved

(* The walk goes through the nodes in order.                               *)
LEMMA EarlierVisited ==
    ASSUME script \in Seq(Statement), NEW n \in Nodes, NEW m \in Nodes, Before(m, n), Upcoming(n)
    PROVE  m \in visited
<1>1. /\ m.at \in Nat /\ n.at \in Nat /\ m.level \in Nat /\ n.level \in Nat
  <2>1. ASSUME NEW x \in Nodes PROVE x.at \in Nat /\ x.level \in Nat
    <3>1. PICK i \in Lines : x.at = i /\ x.level \in {script[i].depth + 1, script[i].depth + 2}
      BY DEF Nodes
    <3>2. script[i] \in Statement /\ i \in Nat
      BY DEF Lines
    <3>3. script[i].depth \in Nat
      BY <3>2 DEF Statement
    <3> QED BY <3>1, <3>2, <3>3
  <2> QED BY <2>1
<1>2. m # n /\ ~Before(n, m)
  BY <1>1 DEF Before
<1> QED BY <1>2 DEF Upcoming

(* An entry for one of them, then one for the first of them.               *)
LEMMA FirstIsThere ==
    ASSUME NEW S, NEW exprs \in Seq(S), NEW k \in DOMAIN exprs, Tainting(exprs[k])
    PROVE  \E j \in FirstTainted(exprs) : TaintOf(exprs[j]) # {}
<1> DEFINE T == {j \in DOMAIN exprs : Tainting(exprs[j])}
<1>1. T \in SUBSET Nat /\ T # {}
  OBVIOUS
<1>2. PICK j \in T : \A l \in T : j <= l
  BY <1>1, LeastNat
<1>3. \A l \in 1 .. j - 1 : ~Tainting(exprs[l])
  <2> SUFFICES ASSUME NEW l \in 1 .. j - 1, Tainting(exprs[l]) PROVE FALSE
    OBVIOUS
  <2>1. l \in DOMAIN exprs /\ ~(j <= l)
    BY <1>2
  <2> QED BY <1>2, <2>1
<1>4. j \in FirstTainted(exprs)
  BY <1>2, <1>3 DEF FirstTainted
<1> QED BY <1>2, <1>4 DEF Tainting

(* Whether an assignment is followed, and the order of the walk, are the   *)
(* script's.                                                               *)
LEMMA SameScript ==
    ASSUME script' = script
    PROVE  /\ Lines' = Lines /\ Nodes' = Nodes
           /\ \A i : Followed(i)' <=> Followed(i)
           /\ \A i, x : Argument(i, x)' <=> Argument(i, x)
<1>1. Lines' = Lines
  BY DEF Lines
<1>2. Nodes' = Nodes
  BY <1>1 DEF Nodes
<1>3. \A S : Extended(S)' <=> Extended(S)
  BY <1>1 DEF Extended, Origin, HandsOn
<1>4. \A i : Followed(i)' <=> Followed(i)
  BY <1>1, <1>3 DEF Followed
<1>5. \A i, x : Argument(i, x)' <=> Argument(i, x)
  BY DEF Argument
<1> QED BY <1>1, <1>2, <1>4, <1>5

(* The dictionary only gains names.                                        *)
LEMMA StaysTainting ==
    ASSUME NEW n \in Nodes, VisitAssign(n) \/ VisitCall(n), NEW x, Tainting(x)
    PROVE  Tainting(x)'
<1>1. PICK t \in tainted : t.name = x
  BY DEF Tainting, TaintOf
<1>2. \/ tainted' = tainted
      \/ \E type, line : tainted' = Mark(script[n.at].target, type, line)
  BY DEF VisitAssign, VisitCall
<1>3. CASE tainted' = tainted
  BY <1>1, <1>3 DEF Tainting, TaintOf
<1>4. ASSUME NEW name, NEW type, NEW line, tainted' = Mark(name, type, line)
      PROVE  \E u \in tainted' : u.name = x
  <2>1. CASE x = name
    <3> DEFINE u == [name |-> name, type |-> type, line |-> line]
    <3>1. u \in tainted' /\ u.name = x
      BY <1>4, <2>1 DEF Mark
    <3> QED BY <3>1
  <2>2. CASE x # name
    BY <1>1, <1>4, <2>2 DEF Mark
  <2> QED BY <2>1, <2>2
<1>5. CASE \E type, line : tainted' = Mark(script[n.at].target, type, line)
  <2>1. \E u \in tainted' : u.name = x
    BY <1>4, <1>5
  <2> QED BY <2>1 DEF Tainting, TaintOf
<1> QED BY <1>2, <1>3, <1>5

(* A visited assignment that can be followed puts its name there.          *)
LEMMA AssignSeen ==
    ASSUME PySeen, NEW n \in Nodes, Upcoming(n), VisitAssign(n), Followed(n.at), script' = script
    PROVE  Tainting(script[n.at].target)'
<1> DEFINE s == script[n.at]
<1>1. n.at \in Lines /\ n.kind = "assign" /\ s.target # NoName
  BY NodeOnLine DEF VisitAssign
<1>2. Origin(n.at) \/ HandsOn(FollowedLines, n.at)
  BY <1>1, FollowedOnly
<1>3. s \in Statement /\ s.args \in Seq(Exprs)
  <2>1. s \in Statement
    BY <1>1 DEF PySeen, Lines
  <2> QED BY <2>1 DEF Statement
<1>4. HandsOn(FollowedLines, n.at) => FirstTainted(s.args) # {}
  <2> SUFFICES ASSUME HandsOn(FollowedLines, n.at) PROVE FirstTainted(s.args) # {}
    OBVIOUS
  <2>1. PICK k \in DOMAIN s.args, j \in Lines :
           /\ Followed(j) /\ j < n.at /\ script[j].depth <= s.depth
           /\ script[j].target = s.args[k] /\ script[j].target # NoName
    BY DEF HandsOn, FollowedLines
  <2> DEFINE m == [at |-> j, level |-> script[j].depth + 1, kind |-> "assign"]
  <2>2. m \in Nodes
    BY <2>1 DEF Nodes
  <2>3. n.level = s.depth + 1
    BY <1>1 DEF Nodes
  <2>4. Before(m, n)
    <3>1. script[j] \in Statement /\ j \in Nat /\ n.at \in Nat
      BY <1>1 DEF PySeen, Lines
    <3>2. script[j].depth \in Nat /\ s.depth \in Nat
      BY <1>3, <3>1 DEF Statement
    <3> QED BY <2>1, <2>3, <3>1, <3>2 DEF Before
  <2>5. m \in visited
    BY <2>2, <2>4, EarlierVisited DEF PySeen
  <2>6. Tainting(s.args[k])
    BY <2>1, <2>5 DEF PySeen, SeenAssigned
  <2> QED BY <1>3, <2>6, FirstIsThere
<1>5. \E type, line : tainted' = Mark(s.target, type, line)
  <2>1. CASE Origin(n.at)
    BY <2>1 DEF VisitAssign, Origin
  <2>2. CASE HandsOn(FollowedLines, n.at)
    <3>1. s.value = "fstring" /\ FirstTainted(s.args) # {}
      BY <1>4, <2>2 DEF HandsOn
    <3> QED BY <3>1 DEF VisitAssign
  <2> QED BY <1>2, <2>1, <2>2
<1>6. PICK type, line : tainted' = Mark(s.target, type, line)
  BY <1>5
<1> DEFINE u == [name |-> s.target, type |-> type, line |-> line]
<1>7. u \in tainted' /\ u.name = s.target
  BY <1>6 DEF Mark
<1>8. \E t \in tainted' : t.name = script'[n.at].target
  BY <1>7
<1> HIDE DEF u, s
<1> QED BY <1>8 DEF Tainting, TaintOf

(* A visited call is reported for such an assignment.                      *)
LEMMA CallSeen ==
    ASSUME PySeen, NEW n \in Nodes, Upcoming(n), VisitCall(n), script[n.at].callee.sink # "none",
           NEW m \in Nodes, m.kind = "assign", Before(m, n), Followed(m.at),
           Argument(n.at, script[m.at].target)
    PROVE  \E r \in flows' : r.line = n.at
<1> DEFINE s == script[n.at]
           values == [k \in DOMAIN s.kws |-> s.kws[k].value]
           x == script[m.at].target
<1>1. n.at \in Lines
  BY NodeOnLine
<1>2. Tainting(x)
  BY EarlierVisited DEF PySeen, SeenAssigned
<1>3. s.args \in Seq(Exprs) /\ s.kws \in Seq([name : STRING, value : Exprs])
  <2>1. s \in Statement
    BY <1>1 DEF PySeen, Lines
  <2> QED BY <2>1 DEF Statement
<1>4. values \in Seq(Exprs)
  <2>1. ASSUME NEW k \in DOMAIN s.kws PROVE s.kws[k].value \in Exprs
    <3> DEFINE KW == [name : STRING, value : Exprs]
    <3>1. s.kws \in Seq(KW)
      BY <1>3
    <3> HIDE DEF KW, s
    <3>2. s.kws[k] \in KW
      BY <3>1
    <3> QED BY <3>2 DEF KW
  <2>2. DOMAIN s.kws = 1 .. Len(s.kws) /\ Len(s.kws) \in Nat
    BY <1>3
  <2>3. values \in [1 .. Len(s.kws) -> Exprs]
    BY <2>1, <2>2
  <2> HIDE DEF values, s
  <2> DEFINE K == Len(s.kws)
  <2>4. K \in Nat /\ values \in [1 .. K -> Exprs]
    BY <2>2, <2>3
  <2> HIDE DEF K
  <2>5. values \in UNION {[1 .. l -> Exprs] : l \in Nat}
    BY <2>4
  <2> QED BY <2>5, SeqDef
<1>5. \/ \E k \in FirstTainted(s.args) : TaintOf(s.args[k]) # {}
      \/ \E k \in FirstTainted(values) : TaintOf(values[k]) # {}
  <2>1. (\E k \in DOMAIN s.args : s.args[k] = x) \/ (\E k \in DOMAIN values : values[k] = x)
    BY DEF Argument
  <2> HIDE DEF values, x, s
  <2> QED BY <1>2, <1>3, <1>4, <2>1, FirstIsThere
<1>6. flows' = flows \cup
         ((UNION {{Flow(t, n) : t \in TaintOf(s.args[k])} : k \in FirstTainted(s.args)})
          \cup (UNION {{Flow(t, n) : t \in TaintOf(values[k])} : k \in FirstTainted(values)}))
  BY DEF VisitCall
<1>7. \E t : Flow(t, n) \in flows'
  <2> HIDE DEF values, s
  <2>1. CASE \E k \in FirstTainted(s.args) : TaintOf(s.args[k]) # {}
    BY <1>6, <2>1
  <2>2. CASE \E k \in FirstTainted(values) : TaintOf(values[k]) # {}
    BY <1>6, <2>2
  <2> QED BY <1>5, <2>1, <2>2
<1>8. \A t : Flow(t, n).line = n.at
  BY DEF Flow
<1> QED BY <1>7, <1>8

LEMMA PySeenStep ==
    ASSUME PySeen, PyNext
    PROVE  PySeen'
<1>1. script' = script
  BY DEF PyNext, AstBehavioral, TaintTracking
<1>2. CASE AstBehavioral
  <2>1. visited' = visited /\ tainted' = tainted /\ flows' = flows
    BY <1>2 DEF AstBehavioral
  <2>2. visited' \subseteq Nodes'
    BY <1>1, <2>1, SameScript DEF PySeen
  <2>3. SeenAssigned'
    BY <1>1, <2>1, SameScript DEF PySeen, SeenAssigned, Tainting, TaintOf
  <2>4. SeenCalled'
    BY <1>1, <2>1, SameScript DEF PySeen, SeenCalled
  <2>5. Behaved'
    <3> SUFFICES ASSUME NEW i \in Lines, script[i].value = "call", NEW w \in Behaviour(script[i])
                 PROVE  \E b \in behaviours' : b.line = i
      BY <1>1, SameScript DEF Behaved
    <3> DEFINE b == [line |-> i, message |-> w]
    <3>1. w \in UNION {Behaviour(script[j]) : j \in Lines}
      OBVIOUS
    <3>2. b \in behaviours' /\ b.line = i
      BY <1>2, <3>1 DEF AstBehavioral
    <3> QED BY <3>2
  <2> QED BY <1>1, <2>2, <2>3, <2>4, <2>5 DEF PySeen
<1>3. CASE TaintTracking
  <2>1. PICK n \in Nodes : /\ Upcoming(n) /\ (VisitAssign(n) \/ VisitCall(n))
                           /\ visited' = visited \cup {n} /\ rule' = rule /\ behaviours' = behaviours
    BY <1>3 DEF TaintTracking
  <2>2. visited' \subseteq Nodes'
    BY <1>1, <2>1, SameScript DEF PySeen
  <2>3. \A x : Tainting(x) => Tainting(x)'
    BY <2>1, StaysTainting
  <2>4. SeenAssigned'
    <3> SUFFICES ASSUME NEW q \in visited', q.kind = "assign", Followed(q.at)
                 PROVE  Tainting(script[q.at].target)'
      BY <1>1, SameScript DEF SeenAssigned
    <3>1. CASE q \in visited
      <4>1. Tainting(script[q.at].target)
        BY <3>1 DEF PySeen, SeenAssigned
      <4> QED BY <1>1, <2>3, <4>1
    <3>2. CASE q = n
      <4>1. VisitAssign(n)
        BY <2>1, <3>2 DEF VisitCall
      <4> QED BY <1>1, <2>1, <3>2, <4>1, AssignSeen
    <3> QED BY <2>1, <3>1, <3>2
  <2>5. flows \subseteq flows'
    BY <2>1 DEF VisitAssign, VisitCall
  <2>6. SeenCalled'
    <3> SUFFICES ASSUME NEW q \in visited', q.kind = "call", script[q.at].callee.sink # "none",
                        NEW m \in Nodes, m.kind = "assign", Before(m, q), Followed(m.at),
                        Argument(q.at, script[m.at].target)
                 PROVE  \E r \in flows' : r.line = q.at
      BY <1>1, SameScript DEF SeenCalled
    <3>1. CASE q \in visited
      BY <2>5, <3>1 DEF PySeen, SeenCalled
    <3>2. CASE q = n
      <4>1. VisitCall(n)
        BY <2>1, <3>2 DEF VisitAssign
      <4> QED BY <2>1, <3>2, <4>1, CallSeen
    <3> QED BY <2>1, <3>1, <3>2
  <2>7. Behaved'
    BY <1>1, <2>1, SameScript DEF PySeen, Behaved
  <2> QED BY <1>1, <2>2, <2>4, <2>6, <2>7 DEF PySeen
<1> QED BY <1>2, <1>3 DEF PyNext

(* At the end of the walk the leaks have been seen.                        *)
LEMMA PyLeaksReported ==
    ASSUME PySeen, PyDone, NEW i \in Lines, PyLeaks(i)
    PROVE  /\ Followable => \E r \in flows : r.line = i
           /\ script[i].callee.sink = "code_execution" => \E b \in behaviours : b.line = i
<1>1. script[i] \in Statement /\ i \in Nat /\ i - 1 \in 0 .. Len(script)
  BY DEF PySeen, Lines
<1>2. script[i].value = "call" /\ script[i].callee.sink # "none" /\ script[i].callee \in Callee
  BY <1>1 DEF PyLeaks, Statement
<1>3. ASSUME Followable PROVE \E r \in flows : r.line = i
  <2>1. PICK x \in PyCarrying[i - 1] : Argument(i, x)
    BY <1>3 DEF PyLeaks, Followable, Argument
  <2>2. PICK j \in Lines : j <= i - 1 /\ Followed(j) /\ script[j].target = x
    BY <1>1, <1>3, <2>1, CarriedIsFollowed DEF PySeen
  <2>3. script[j].target # NoName /\ j \in Nat /\ j < i /\ script[j] \in Statement
    BY <1>1, <2>2, FollowedOnly DEF PySeen, Lines
  <2>4. script[j].depth <= script[i].depth + 1
    BY <1>2, <1>3, <2>3 DEF Followable
  <2> DEFINE m == [at |-> j, level |-> script[j].depth + 1, kind |-> "assign"]
             n == [at |-> i, level |-> script[i].depth + 2, kind |-> "call"]
  <2>5. m \in Nodes /\ n \in Nodes
    BY <1>2, <2>3 DEF Nodes
  <2>6. Before(m, n)
    <3>1. script[j].depth \in Nat /\ script[i].depth \in Nat
      BY <1>1, <2>3 DEF Statement
    <3>2. m.at = j /\ n.at = i /\ m.level = script[j].depth + 1 /\ n.level = script[i].depth + 2
      OBVIOUS
    <3> HIDE DEF m, n
    <3>3. ASSUME NEW a \in Nat, NEW b \in Nat, a <= b + 1
          PROVE  a + 1 < b + 2 \/ a + 1 = b + 2
      BY <3>3
    <3>4. m.level < n.level \/ m.level = n.level
      BY ONLY <2>4, <3>1, <3>2, <3>3
    <3> QED BY ONLY <2>3, <3>2, <3>4 DEF Before
  <2>7. m.at = j /\ m.kind = "assign" /\ n.at = i /\ n.kind = "call"
    OBVIOUS
  <2> HIDE DEF m, n
  <2>8. n \in visited
    BY <2>5 DEF PyDone
  <2> QED BY <1>2, <2>1, <2>2, <2>5, <2>6, <2>7, <2>8 DEF PySeen, SeenCalled
<1>4. ASSUME script[i].callee.sink = "code_execution" PROVE \E b \in behaviours : b.line = i
  <2>1. script[i].callee.danger \in {"builtin", "process"}
    BY <1>2, <1>4 DEF Callee
  <2>2. Behaviour(script[i]) # {}
    BY <2>1 DEF Behaviour
  <2> QED BY <1>2, <2>2 DEF PySeen, PyDone, Behaved
<1> QED BY <1>3, <1>4

-----------------------------------------------------------------------------
(* What a run of a plain shell script carries: on a line only the first    *)
(* command assigns, so one application of ShDoes stands for the line.      *)
ShLine(f, line, carrying) ==
    f = [k \in 0 .. Len(line) |-> IF k = 0 THEN carrying ELSE ShDoes(line[k], f[k - 1])]

LEMMA ShAfterIs ==
    ASSUME NEW line \in Seq(Command), Plain(line), NEW carrying
    PROVE  \A k \in 1 .. Len(line) :
              /\ ShAfter(line, carrying)[0] = carrying
              /\ ShAfter(line, carrying)[k] = ShDoes(line[1], carrying)
<1> DEFINE f == CHOOSE g : ShLine(g, line, carrying)
           h == [k \in 0 .. Len(line) |-> IF k = 0 THEN carrying ELSE ShDoes(line[1], carrying)]
<1>1. Len(line) \in Nat /\ DOMAIN line = 1 .. Len(line)
  OBVIOUS
<1>2. ASSUME NEW k \in 1 .. Len(line), k # 1, NEW held
      PROVE  ShDoes(line[k], held) = held
  <2>1. line[k].op \notin {"assign", "read", "export"}
    BY <1>1, <1>2 DEF Plain
  <2> QED BY <2>1 DEF ShDoes
<1>3. ShLine(h, line, carrying)
  <2>1. ASSUME NEW k \in 0 .. Len(line)
        PROVE  h[k] = IF k = 0 THEN carrying ELSE ShDoes(line[k], h[k - 1])
    <3>1. CASE k = 0
      BY <1>1, <3>1
    <3>2. CASE k = 1
      <4>1. h[0] = carrying /\ h[1] = ShDoes(line[1], carrying)
        BY <1>1, <3>2
      <4> HIDE DEF h
      <4> QED BY <3>2, <4>1
    <3>3. CASE k # 0 /\ k # 1
      <4>1. k \in 1 .. Len(line) /\ k - 1 \in 0 .. Len(line) /\ k - 1 # 0
        BY <1>1, <3>3
      <4>2. h[k] = ShDoes(line[1], carrying) /\ h[k - 1] = ShDoes(line[1], carrying)
        BY <4>1
      <4> HIDE DEF h
      <4> QED BY <1>2, <3>3, <4>1, <4>2
    <3> QED BY <3>1, <3>2, <3>3
  <2> QED BY <2>1 DEF ShLine
<1>4. ShLine(f, line, carrying)
  <2> HIDE DEF h
  <2> QED BY <1>3
<1>5. ShAfter(line, carrying) = f
  BY DEF ShAfter, ShLine
<1> HIDE DEF f
<1>6. \A k \in 0 .. Len(line) : f[k] = IF k = 0 THEN carrying ELSE ShDoes(line[k], f[k - 1])
  BY <1>4 DEF ShLine
<1>7. f[0] = carrying
  BY <1>1, <1>6
<1> DEFINE T == {k \in 1 .. Len(line) : f[k] # ShDoes(line[1], carrying)}
<1>8. T = {}
  <2> SUFFICES ASSUME T # {} PROVE FALSE
    OBVIOUS
  <2>1. PICK k \in T : \A l \in T : k <= l
    <3>1. T \in SUBSET Nat
      BY <1>1
    <3> HIDE DEF T
    <3> QED BY <3>1, LeastNat
  <2>2. k \in 1 .. Len(line) /\ k \in 0 .. Len(line) /\ k # 0
    BY <1>1
  <2>3. f[k] = ShDoes(line[k], f[k - 1])
    BY <1>6, <2>2
  <2>4. k # 1
    BY <1>7, <2>2, <2>3
  <2>5. k - 1 \in 1 .. Len(line) /\ ~(k <= k - 1)
    BY <1>1, <2>2, <2>4
  <2>6. f[k - 1] = ShDoes(line[1], carrying)
    BY <2>1, <2>5
  <2>7. ShDoes(line[k], f[k - 1]) = f[k - 1]
    BY <1>2, <2>2, <2>4
  <2> QED BY <2>3, <2>6, <2>7
<1> QED BY <1>5, <1>7, <1>8

ShCarried(g, s, n) ==
    g = [i \in 0 .. n |-> IF i = 0 THEN {} ELSE ShAfter(s[i], g[i - 1])[Len(s[i])]]
CarriedIn(s) == CHOOSE g : ShCarried(g, s, Len(s))

LEMMA ShCarriedExists ==
    ASSUME NEW s, NEW n \in Nat
    PROVE  \E g : ShCarried(g, s, n)
<1> DEFINE T == {m \in 0 .. n : ~\E g : ShCarried(g, s, m)}
<1> SUFFICES ASSUME T # {} PROVE FALSE
  OBVIOUS
<1>1. PICK m \in T : \A l \in T : m <= l
  <2>1. T \in SUBSET Nat
    OBVIOUS
  <2> HIDE DEF T
  <2> QED BY <2>1, LeastNat
<1>2. m # 0
  <2>1. ShCarried([i \in 0 .. 0 |-> {}], s, 0)
    BY DEF ShCarried
  <2> QED BY <2>1
<1>3. m \in 1 .. n /\ m - 1 \in 0 .. n /\ m - 1 \notin T
  BY <1>1, <1>2
<1>4. PICK g : ShCarried(g, s, m - 1)
  BY <1>3
<1> DEFINE h == [i \in 0 .. m |-> IF i = m THEN ShAfter(s[m], g[m - 1])[Len(s[m])] ELSE g[i]]
<1>5. ASSUME NEW i \in 0 .. m
      PROVE  h[i] = IF i = 0 THEN {} ELSE ShAfter(s[i], h[i - 1])[Len(s[i])]
  <2>1. CASE i = m
    <3>1. m - 1 \in 0 .. m /\ m - 1 # m /\ h[m - 1] = g[m - 1]
      BY <1>3
    <3> QED BY <1>3, <2>1, <3>1
  <2>2. CASE i # m
    <3>1. i \in 0 .. m - 1 /\ h[i] = g[i]
      BY <1>3, <2>2
    <3>2. g[i] = IF i = 0 THEN {} ELSE ShAfter(s[i], g[i - 1])[Len(s[i])]
      BY <1>4, <3>1 DEF ShCarried
    <3>3. i # 0 => h[i - 1] = g[i - 1]
      BY <1>3, <3>1
    <3> QED BY <3>1, <3>2, <3>3
  <2> QED BY <2>1, <2>2
<1>6. ShCarried(h, s, m)
  BY <1>5 DEF ShCarried
<1> QED BY <1>3, <1>6

(* The shell scripts within the promise, and how they run.                 *)
PlainScript(s) ==
    /\ s \in Seq(Seq(Command) \ {<<>>})
    /\ \A n \in DOMAIN s : Plain(s[n])
    /\ \A n \in DOMAIN s : \A k \in DOMAIN s[n] : s[n][k].op = "comment" => Len(s[n]) = 1
First(s, n) == s[n][1]

LEMMA PlainLine ==
    ASSUME NEW s, PlainScript(s), NEW n \in DOMAIN s
    PROVE  /\ s[n] \in Seq(Command) /\ Plain(s[n]) /\ n \in Nat \ {0} /\ DOMAIN s = 1 .. Len(s)
           /\ Len(s) \in Nat /\ Len(s[n]) \in Nat \ {0} /\ 1 \in DOMAIN s[n]
           /\ DOMAIN s[n] = 1 .. Len(s[n])
           /\ \A k \in DOMAIN s[n] : s[n][k] \in Command
<1>1. s[n] \in Seq(Command) /\ s[n] # <<>> /\ n \in Nat \ {0} /\ DOMAIN s = 1 .. Len(s)
      /\ Len(s) \in Nat
  BY DEF PlainScript
<1>2. Plain(s[n])
  BY DEF PlainScript
<1>3. Len(s[n]) \in Nat \ {0} /\ DOMAIN s[n] = 1 .. Len(s[n])
  BY <1>1
<1> QED BY <1>1, <1>2, <1>3

LEMMA CarriedInIs ==
    ASSUME NEW s, PlainScript(s)
    PROVE  /\ CarriedIn(s)[0] = {}
           /\ \A n \in DOMAIN s : CarriedIn(s)[n] = ShDoes(First(s, n), CarriedIn(s)[n - 1])
<1> DEFINE g == CarriedIn(s)
<1>1. Len(s) \in Nat
  BY DEF PlainScript
<1>2. ShCarried(g, s, Len(s))
  BY <1>1, ShCarriedExists DEF CarriedIn
<1> HIDE DEF g
<1>3. \A i \in 0 .. Len(s) : g[i] = IF i = 0 THEN {} ELSE ShAfter(s[i], g[i - 1])[Len(s[i])]
  BY <1>2 DEF ShCarried
<1>4. g[0] = {}
  BY <1>1, <1>3
<1>5. ASSUME NEW n \in DOMAIN s
      PROVE  g[n] = ShDoes(First(s, n), g[n - 1])
  <2>1. n \in 0 .. Len(s) /\ n # 0 /\ Len(s[n]) \in 1 .. Len(s[n])
    BY PlainLine
  <2>2. ShAfter(s[n], g[n - 1])[Len(s[n])] = ShDoes(s[n][1], g[n - 1])
    BY <2>1, PlainLine, ShAfterIs
  <2> QED BY <1>3, <2>1, <2>2 DEF First
<1> QED BY <1>4, <1>5 DEF g

(* A plain line leaks what it fetches, what it executes of a source, and   *)
(* what it executes of a variable that carries one after the line.         *)
LeaksOf(s, n) ==
    \E k \in DOMAIN s[n] :
        \/ s[n][k].op = "fetch"
        \/ s[n][k].op \in {"eval", "exec"} /\ s[n][k].value \in CarriedIn(s)[n] \cup {"$1", "$()"}

LEMMA PlainLeaks ==
    ASSUME PlainScript(sh), NEW n \in DOMAIN sh, ShLeaks(n)
    PROVE  LeaksOf(sh, n)
<1>1. ShCarrying = CarriedIn(sh)
  BY DEF ShCarrying, CarriedIn, ShCarried
<1> DEFINE before == CarriedIn(sh)[n - 1]
<1>2. PICK k \in DOMAIN sh[n] :
        \/ sh[n][k].op = "fetch"
        \/ /\ sh[n][k].op \in {"eval", "exec"}
           /\ sh[n][k].value \in ShAfter(sh[n], before)[k - 1] \cup {"$1", "$()"}
  BY <1>1 DEF ShLeaks
<1>3. CarriedIn(sh)[n] = ShDoes(sh[n][1], before)
  BY CarriedInIs DEF First
<1> HIDE DEF before
<1>4. ASSUME sh[n][k].op \in {"eval", "exec"}
      PROVE  ShAfter(sh[n], before)[k - 1] = CarriedIn(sh)[n]
  <2>1. /\ sh[n] \in Seq(Command) /\ Plain(sh[n]) /\ Len(sh[n]) \in Nat \ {0}
        /\ k \in 1 .. Len(sh[n]) /\ 1 \in 1 .. Len(sh[n])
    BY PlainLine
  <2>2. CASE k = 1
    <3>1. ShAfter(sh[n], before)[0] = before
      BY <2>1, ShAfterIs
    <3>2. ShDoes(sh[n][1], before) = before
      BY <1>4, <2>2 DEF ShDoes
    <3> QED BY <1>3, <2>2, <3>1, <3>2
  <2>3. CASE k # 1
    <3>1. k - 1 \in 1 .. Len(sh[n])
      BY <2>1, <2>3
    <3>2. ShAfter(sh[n], before)[k - 1] = ShDoes(sh[n][1], before)
      BY <2>1, <3>1, ShAfterIs
    <3> QED BY <1>3, <3>2
  <2> QED BY <2>2, <2>3
<1> QED BY <1>2, <1>4 DEF LeaksOf

-----------------------------------------------------------------------------
(* What the shell rule has seen of a plain script: the variables that      *)
(* carry data of a source after a line that has been gone through are      *)
(* marked (after any line once a walk is over: a line that the walk has    *)
(* reported is skipped, but the walk has marked what it assigns), and the  *)
(* leaks of the lines gone through have been reported.                     *)
Marked == {v \in Vars : marks[v] > 0}
GoneThrough(m) ==
    \/ m < at[1]
    \/ m = at[1] /\ pass = "walk" /\ at[2] > 1
    \/ parsed /\ pass # "walk"
CarriedMarked == \A m \in 0 .. Len(sh) : GoneThrough(m) => CarriedIn(sh)[m] \subseteq Marked
LeaksReported ==
    pass # "walk" => \A n \in DOMAIN sh : n < at[1] /\ LeaksOf(sh, n) => Reported(n)

ShSeen ==
    /\ pass = "walk" => parsed
    /\ pass = "done" => at[1] > Len(sh)
    /\ CarriedMarked /\ LeaksReported

(* What a command adds to the carried variables, in a plain script.        *)
LEMMA ShDoesPlain ==
    ASSUME NEW s, PlainScript(s), NEW n \in DOMAIN s, NEW x \in CarriedIn(s)[n],
           CarriedIn(s)[n - 1] \subseteq Vars
    PROVE  \/ x \in CarriedIn(s)[n - 1]
           \/ First(s, n).op = "read" /\ x = First(s, n).var
           \/ /\ First(s, n).op = "assign" /\ First(s, n).value \in {"$1", "$()"}
              /\ x = First(s, n).var
           \/ /\ First(s, n).op = "export" /\ First(s, n).value \in CarriedIn(s)[n - 1]
              /\ x = First(s, n).var
<1> DEFINE c == First(s, n)
           before == CarriedIn(s)[n - 1]
<1>1. x \in ShDoes(c, before)
  BY CarriedInIs
<1>2. /\ c.op = "assign" => c.value \notin Vars
      /\ c.op = "export" => c.value \in Vars \cup {"text"}
  <2>1. s[n] # <<>> /\ Plain(s[n])
    BY PlainLine
  <2> QED BY <2>1 DEF Plain, First
<1>3. "text" \notin Vars /\ "$1" \notin Vars /\ "$()" \notin Vars
  BY BashConstants
<1> HIDE DEF c, before
<1>4. before \subseteq Vars
  BY DEF before
<1>5. \/ x \in before
      \/ c.op = "read" /\ x = c.var
      \/ c.op = "assign" /\ c.value \in {"$1", "$()"} /\ x = c.var
      \/ c.op = "export" /\ c.value \in before /\ x = c.var
  BY <1>1, <1>2, <1>3, <1>4 DEF ShDoes
<1> QED BY <1>5 DEF c, before

(* The walk marks what a line carries as it passes the first command.      *)
LEMMA WalkMarksCarried ==
    ASSUME PlainScript(sh), marks \in [Vars -> Nat], NEW n \in DOMAIN sh, NEW k \in DOMAIN sh[n],
           marks' = WalkMarks(sh[n][k], n)
    PROVE  /\ Marked \subseteq Marked'
           /\ k = 1 /\ CarriedIn(sh)[n - 1] \subseteq Marked => CarriedIn(sh)[n] \subseteq Marked'
<1> DEFINE c == sh[n][k]
<1>1. n \in Nat \ {0} /\ c.var \in Vars
  <2>1. c \in Command
    BY PlainLine
  <2> QED BY <2>1, PlainLine DEF Command
<1>2. /\ c.op = "read" => marks' = [marks EXCEPT ![c.var] = n]
      /\ c.op = "assign" /\ c.value \in {"$1", "$()"} => marks' = [marks EXCEPT ![c.var] = n]
      /\ c.op = "export" /\ c.value \in Marked => marks' = [marks EXCEPT ![c.var] = n]
      /\ marks' = marks \/ marks' = [marks EXCEPT ![c.var] = n]
  BY DEF WalkMarks, Marked
<1> HIDE DEF c
<1>3. marks' = [marks EXCEPT ![c.var] = n] => c.var \in Marked'
  BY <1>1 DEF Marked
<1>4. Marked \subseteq Marked'
  BY <1>1, <1>2 DEF Marked
<1>5. ASSUME k = 1, CarriedIn(sh)[n - 1] \subseteq Marked, NEW x \in CarriedIn(sh)[n]
      PROVE  x \in Marked'
  <2>1. c = First(sh, n)
    BY <1>5 DEF First, c
  <2>2. CarriedIn(sh)[n - 1] \subseteq Vars
    BY <1>5 DEF Marked
  <2>3. \/ x \in CarriedIn(sh)[n - 1]
        \/ c.op = "read" /\ x = c.var
        \/ c.op = "assign" /\ c.value \in {"$1", "$()"} /\ x = c.var
        \/ c.op = "export" /\ c.value \in CarriedIn(sh)[n - 1] /\ x = c.var
    BY <2>1, <2>2, ShDoesPlain
  <2> QED BY <1>2, <1>3, <1>4, <1>5, <2>3
<1> QED BY <1>4, <1>5

(* So does the line pass.                                                  *)
LEMMA LineMarksCarried ==
    ASSUME PlainScript(sh), marks \in [Vars -> Nat], NEW n \in DOMAIN sh
    PROVE  /\ \A v \in Marked : LineMarks(sh[n], n)[v] > 0
           /\ CarriedIn(sh)[n - 1] \subseteq Marked =>
                \A v \in CarriedIn(sh)[n] : v \in Vars /\ LineMarks(sh[n], n)[v] > 0
<1> DEFINE line == sh[n]
           c == line[1]
           assigned == IF line[1].op = "assign" /\ HasSource(line)
                       THEN [marks EXCEPT ![line[1].var] = n] ELSE marks
           read == [v \in Vars |-> IF \E k \in FirstOf(line, "read") : line[k].var = v
                                   THEN n ELSE assigned[v]]
           all == [v \in Vars |-> IF \E k \in FirstOf(line, "export") :
                                       /\ line[k].var = v /\ line[k].value \in Vars
                                       /\ read[line[k].value] > 0
                                  THEN n ELSE read[v]]
<1>1. LineMarks(line, n) = all
  BY DEF LineMarks
<1>2. n \in Nat \ {0} /\ 1 \in DOMAIN line /\ c.var \in Vars
  <2>1. c \in Command
    BY PlainLine
  <2> QED BY <2>1, PlainLine DEF Command
<1>3. \A op : c.op = op => 1 \in FirstOf(line, op)
  BY <1>2 DEF FirstOf
<1>4. c.value \in {"$1", "$()"} => HasSource(line)
  BY <1>2 DEF HasSource, Source
<1>5. c = First(sh, n)
  BY DEF First
<1> HIDE DEF line
<1>6. /\ \A v \in Vars : marks[v] > 0 => assigned[v] > 0
      /\ c.op = "assign" /\ c.value \in {"$1", "$()"} => assigned[c.var] > 0
      /\ assigned \in [Vars -> Nat]
  BY <1>2, <1>4
<1> HIDE DEF assigned
<1>7. /\ \A v \in Vars : assigned[v] > 0 => read[v] > 0
      /\ c.op = "read" => read[c.var] > 0
      /\ read \in [Vars -> Nat]
  BY <1>2, <1>3, <1>6
<1> HIDE DEF read
<1>8. /\ \A v \in Vars : read[v] > 0 => all[v] > 0
      /\ c.op = "export" /\ c.value \in Vars /\ read[c.value] > 0 => all[c.var] > 0
  BY <1>2, <1>3, <1>7
<1> HIDE DEF all
<1>9. \A v \in Marked : all[v] > 0
  BY <1>6, <1>7, <1>8 DEF Marked
<1>10. ASSUME CarriedIn(sh)[n - 1] \subseteq Marked, NEW x \in CarriedIn(sh)[n]
       PROVE  x \in Vars /\ all[x] > 0
  <2>1. CarriedIn(sh)[n - 1] \subseteq Vars
    BY <1>10 DEF Marked
  <2> HIDE DEF c
  <2>2. \/ x \in CarriedIn(sh)[n - 1]
        \/ c.op = "read" /\ x = c.var
        \/ c.op = "assign" /\ c.value \in {"$1", "$()"} /\ x = c.var
        \/ c.op = "export" /\ c.value \in CarriedIn(sh)[n - 1] /\ x = c.var
    BY <1>5, <2>1, ShDoesPlain
  <2>3. c.value \in CarriedIn(sh)[n - 1] => c.value \in Vars /\ marks[c.value] > 0
    BY <1>10 DEF Marked
  <2> QED BY <1>2, <1>6, <1>7, <1>8, <1>9, <1>10, <2>1, <2>2, <2>3
<1> QED BY <1>1, <1>9, <1>10 DEF line

(* A leaking line has something to report.                                 *)
LEMMA LeakIsReported ==
    ASSUME PlainScript(sh), NEW n \in DOMAIN sh, LeaksOf(sh, n), NEW seen,
           \A v \in CarriedIn(sh)[n] : v \in Vars /\ seen[v] > 0
    PROVE  LineReports(sh[n], n, seen) # {} /\ ~IsComment(sh[n])
<1> DEFINE line == sh[n]
           blamed == {[Indirect(n, v, "sink") EXCEPT !.source = seen[v]] :
                        v \in {u \in Vars : seen[u] > 0 /\ \E k \in DOMAIN line : Mentions(line[k], u)}}
<1>1. LineReports(line, n, seen) =
        IF HasFetch(line) THEN {Direct(n, "curl | bash")}
        ELSE IF parsed /\ EvalOfSubstitution(line) THEN {Direct(n, "eval")}
        ELSE IF ~HasSink(line) THEN {}
        ELSE IF HasSource(line) THEN {Direct(n, "sink")} ELSE blamed
  BY DEF LineReports
<1>2. PICK k \in DOMAIN line :
        \/ line[k].op = "fetch"
        \/ line[k].op \in {"eval", "exec"} /\ line[k].value \in CarriedIn(sh)[n] \cup {"$1", "$()"}
  BY DEF LeaksOf
<1>3. ~IsComment(line)
  <2> SUFFICES ASSUME line[1].op = "comment" PROVE FALSE
    BY DEF IsComment
  <2>1. Len(line) = 1 /\ k = 1
    BY PlainLine DEF PlainScript
  <2> QED BY <1>2, <2>1
<1>4. CASE line[k].op = "fetch"
  <2>1. HasFetch(line)
    BY <1>4 DEF HasFetch
  <2> HIDE DEF line, blamed
  <2> QED BY <1>1, <1>3, <2>1 DEF line
<1>5. CASE line[k].op \in {"eval", "exec"}
  <2>1. HasSink(line)
    BY <1>5 DEF HasSink
  <2>2. HasSource(line) \/ blamed # {}
    <3>1. CASE line[k].value \in {"$1", "$()"}
      BY <3>1 DEF HasSource, Source
    <3>2. CASE line[k].value \in CarriedIn(sh)[n]
      <4> DEFINE w == line[k].value
      <4>1. w \in Vars /\ seen[w] > 0
        BY <3>2
      <4>2. Mentions(line[k], w)
        BY <4>1, BashConstants DEF Mentions
      <4>3. w \in {u \in Vars : seen[u] > 0 /\ \E j \in DOMAIN line : Mentions(line[j], u)}
        BY <4>1, <4>2
      <4> QED BY <4>3
    <3> QED BY <1>2, <1>5, <3>1, <3>2
  <2> HIDE DEF line, blamed
  <2> QED BY <1>1, <1>3, <2>1, <2>2 DEF line
<1> QED BY <1>2, <1>4, <1>5

(* The line pass reports the line it reads.                                *)
LEMMA LineReportsAt ==
    ASSUME NEW line, NEW n, NEW seen, NEW r \in LineReports(line, n, seen)
    PROVE  r.line = n
<1>1. ASSUME NEW v, r = [Indirect(n, v, "sink") EXCEPT !.source = seen[v]] PROVE r.line = n
  BY <1>1 DEF Indirect
<1>2. ASSUME NEW sink, r = Direct(n, sink) PROVE r.line = n
  BY <1>2 DEF Direct
<1>3. \/ \E sink \in {"curl | bash", "eval", "sink"} : r = Direct(n, sink)
      \/ \E v \in Vars : r = [Indirect(n, v, "sink") EXCEPT !.source = seen[v]]
  BY DEF LineReports
<1> QED BY <1>1, <1>2, <1>3

(* ShSeen is about the script and what only grows.                         *)
LEMMA SeenSteps ==
    ASSUME PlainScript(sh), ShInv, ShSeen, ShNext
    PROVE  ShSeen' /\ sh' = sh
<1>1. sh' = sh /\ parsed' = parsed
  BY DEF ShNext, Walk, Walked, ReadLine, Read
<1>2. marks \in [Vars -> Nat] /\ at[1] \in Nat \ {0} /\ at[2] \in Nat /\ Len(sh) \in Nat
      /\ DOMAIN sh = 1 .. Len(sh)
  BY DEF ShInv, MarksBacked, AtInv
<1>3. Len(sh') = Len(sh) /\ CarriedIn(sh') = CarriedIn(sh)
  BY <1>1
<1>4. CASE Walk
  <2> DEFINE n == at[1]
             k == at[2]
  <2>1. n \in DOMAIN sh /\ k \in DOMAIN sh[n] /\ pass = "walk" /\ pass' = pass /\ n <= Len(sh)
    BY <1>2, <1>4 DEF Walk, ShInv, AtInv
  <2> k \in Nat \ {0}
    BY <2>1, PlainLine
  <2>2. marks' = WalkMarks(sh[n][k], n)
    BY <1>4 DEF Walk
  <2>3. /\ Marked \subseteq Marked'
        /\ k = 1 /\ CarriedIn(sh)[n - 1] \subseteq Marked => CarriedIn(sh)[n] \subseteq Marked'
    BY <1>2, <2>1, <2>2, WalkMarksCarried
  <2>4. at'[1] \in {n, n + 1} /\ (at'[1] = n => at'[2] = k + 1) /\ (at'[1] = n + 1 => at'[2] = 1)
    BY <1>2, <1>4 DEF Walk, Follows
  <2>5. CarriedIn(sh)[n] \subseteq Marked'
    <3>1. CASE k = 1
      <4>1. n - 1 \in 0 .. Len(sh) /\ GoneThrough(n - 1)
        BY <1>2, <2>1 DEF GoneThrough
      <4> QED BY <2>3, <3>1, <4>1 DEF ShSeen, CarriedMarked
    <3>2. CASE k # 1
      <4>1. n \in 0 .. Len(sh) /\ GoneThrough(n)
        BY <1>2, <2>1, <3>2 DEF GoneThrough
      <4> QED BY <2>3, <4>1 DEF ShSeen, CarriedMarked
    <3> QED BY <3>1, <3>2
  <2>6. CarriedMarked'
    <3> SUFFICES ASSUME NEW m \in 0 .. Len(sh), GoneThrough(m)' PROVE CarriedIn(sh)[m] \subseteq Marked'
      BY <1>3 DEF CarriedMarked
    <3>1. m = n \/ m < n
      BY <1>2, <2>1, <2>4 DEF GoneThrough
    <3>2. m < n => GoneThrough(m)
      BY DEF GoneThrough
    <3> QED BY <2>3, <2>5, <3>1, <3>2 DEF ShSeen, CarriedMarked
  <2>7. LeaksReported'
    BY <2>1 DEF LeaksReported
  <2> QED BY <1>1, <2>1, <2>6, <2>7 DEF ShSeen
<1>5. CASE Walked
  <2>1. Marked' = Marked
    BY <1>5 DEF Walked, Marked
  <2>2. CarriedMarked'
    <3>1. \A m \in 0 .. Len(sh) : GoneThrough(m)
      BY <1>2, <1>5 DEF Walked, GoneThrough
    <3> QED BY <1>3, <2>1, <3>1 DEF ShSeen, CarriedMarked
  <2>3. LeaksReported'
    <3>1. \A n \in DOMAIN sh : ~(n < at'[1])
      BY <1>2, <1>5 DEF Walked
    <3> QED BY <1>1, <3>1 DEF LeaksReported
  <2> QED BY <1>1, <1>5, <2>2, <2>3 DEF Walked, ShSeen
<1>6. CASE ReadLine
  <2>1. PICK n \in DOMAIN sh : n = at[1] /\ pass = "lines" /\ pass' = pass /\ at'[1] = n + 1
    BY <1>2, <1>6 DEF ReadLine
  <2> DEFINE seen == LineMarks(sh[n], n)
             new == LineReports(sh[n], n, seen)
             skipped == IsComment(sh[n]) \/ (parsed /\ Reported(n))
  <2>2. /\ marks' = IF skipped THEN marks ELSE seen
        /\ IF skipped \/ new = {} THEN reports' = reports
           ELSE \E r \in new : reports' = reports \cup {r}
    BY <1>6, <2>1 DEF ReadLine
  <2>3. /\ \A v \in Marked : seen[v] > 0
        /\ CarriedIn(sh)[n - 1] \subseteq Marked =>
             \A v \in CarriedIn(sh)[n] : v \in Vars /\ seen[v] > 0
    BY <1>2, <2>1, LineMarksCarried
  <2>4. CarriedIn(sh)[n - 1] \subseteq Marked
    <3>1. n - 1 \in 0 .. Len(sh) /\ GoneThrough(n - 1)
      BY <1>2, <2>1 DEF GoneThrough
    <3> QED BY <3>1 DEF ShSeen, CarriedMarked
  <2>5. \A r \in new : r.line = n
    BY LineReportsAt
  <2> HIDE DEF seen, new
  <2>6. Marked \subseteq Marked'
    BY <2>2, <2>3 DEF Marked
  <2>7. CarriedIn(sh)[n] \subseteq Marked'
    <3>1. CASE ~skipped
      BY <2>2, <2>3, <2>4, <3>1 DEF Marked
    <3>2. CASE parsed
      <4>1. n \in 0 .. Len(sh) /\ GoneThrough(n)
        BY <1>2, <2>1, <3>2 DEF GoneThrough
      <4> QED BY <2>6, <4>1 DEF ShSeen, CarriedMarked
    <3>3. CASE IsComment(sh[n])
      <4>1. First(sh, n).op = "comment"
        BY <3>3 DEF IsComment, First
      <4>2. CarriedIn(sh)[n] = ShDoes(First(sh, n), CarriedIn(sh)[n - 1])
        BY <2>1, CarriedInIs
      <4>3. CarriedIn(sh)[n] = CarriedIn(sh)[n - 1]
        BY <4>1, <4>2 DEF ShDoes
      <4> QED BY <2>4, <2>6, <4>3
    <3> QED BY <3>1, <3>2, <3>3
  <2>8. CarriedMarked'
    <3> SUFFICES ASSUME NEW m \in 0 .. Len(sh), GoneThrough(m)' PROVE CarriedIn(sh)[m] \subseteq Marked'
      BY <1>3 DEF CarriedMarked
    <3>1. m = n \/ GoneThrough(m)
      BY <1>1, <1>2, <2>1 DEF GoneThrough
    <3> QED BY <2>6, <2>7, <3>1 DEF ShSeen, CarriedMarked
  <2>9. reports \subseteq reports'
    BY <2>2
  <2>10. LeaksOf(sh, n) => Reported(n)'
    <3> SUFFICES ASSUME LeaksOf(sh, n) PROVE Reported(n)'
      OBVIOUS
    <3>1. new # {} /\ ~IsComment(sh[n])
      BY <2>1, <2>3, <2>4, LeakIsReported DEF new
    <3>2. CASE skipped
      BY <2>9, <3>1, <3>2 DEF Reported
    <3>3. CASE ~skipped
      <4>1. PICK r \in new : reports' = reports \cup {r}
        BY <2>2, <3>1, <3>3
      <4>2. r \in reports' /\ r.line = n
        BY <2>5, <4>1
      <4> QED BY <4>2 DEF Reported
    <3> QED BY <3>2, <3>3
  <2>11. LeaksReported'
    <3> SUFFICES ASSUME NEW j \in DOMAIN sh, j < at'[1], LeaksOf(sh, j) PROVE Reported(j)'
      BY <1>1 DEF LeaksReported
    <3>1. j = n \/ j < n
      BY <1>2, <2>1
    <3>2. j < n => Reported(j)
      BY <2>1 DEF ShSeen, LeaksReported
    <3>3. Reported(j) => Reported(j)'
      BY <2>9 DEF Reported
    <3> QED BY <2>10, <3>1, <3>2, <3>3
  <2> QED BY <1>1, <2>1, <2>8, <2>11 DEF ShSeen
<1>7. CASE Read
  <2>1. Marked' = Marked /\ at' = at /\ pass = "lines" /\ pass' = "done" /\ reports' = reports
        /\ at[1] > Len(sh)
    BY <1>7 DEF Read, Marked
  <2>2. CarriedMarked'
    <3>1. \A m \in 0 .. Len(sh) : GoneThrough(m)
      BY <1>2, <2>1 DEF GoneThrough
    <3> QED BY <1>3, <2>1, <3>1 DEF ShSeen, CarriedMarked
  <2>3. LeaksReported'
    BY <1>1, <2>1 DEF ShSeen, LeaksReported, Reported
  <2> QED BY <1>1, <2>1, <2>2, <2>3 DEF ShSeen
<1> QED BY <1>1, <1>4, <1>5, <1>6, <1>7 DEF ShNext

-----------------------------------------------------------------------------
(* What both have seen, and that it answers FlowsReported.                 *)
Comments == \A n \in DOMAIN sh : \A k \in DOMAIN sh[n] : sh[n][k].op = "comment" => Len(sh[n]) = 1
FlowInv == ShInv /\ PySeen /\ Comments /\ (PlainScript(sh) => ShSeen)

LEMMA InitSeen ==
    ASSUME Init
    PROVE  FlowInv
<1>1. ShInv /\ script \in Seq(Statement)
  BY InitInv DEF PyInv
<1>2. PySeen
  BY <1>1 DEF Init, PyFresh, PySeen, SeenAssigned, SeenCalled, Behaved
<1>3. Comments
  BY BashConstants DEF Init, Comments
<1>4. ASSUME PlainScript(sh) PROVE ShSeen
  <2>1. at = <<1, 1>> /\ marks = NoMarks /\ pass = IF parsed THEN "walk" ELSE "lines"
    BY DEF Init, ShFresh
  <2>2. ASSUME NEW m \in 0 .. Len(sh), GoneThrough(m) PROVE CarriedIn(sh)[m] = {}
    <3>1. m = 0
      BY <1>4, <2>1, <2>2 DEF GoneThrough, PlainScript
    <3> QED BY <1>4, <3>1, CarriedInIs
  <2>3. ASSUME NEW n \in DOMAIN sh PROVE ~(n < at[1])
    BY <1>4, <2>1 DEF PlainScript
  <2> QED BY <2>1, <2>2, <2>3 DEF ShSeen, CarriedMarked, LeaksReported
<1> QED BY <1>1, <1>2, <1>3, <1>4 DEF FlowInv

LEMMA StepSeen ==
    ASSUME FlowInv, [Next]_vars
    PROVE  FlowInv'
<1>1. ASSUME UNCHANGED py_vars PROVE PySeen'
  BY <1>1, SameScript DEF FlowInv, py_vars, PySeen, SeenAssigned, SeenCalled, Behaved, Tainting, TaintOf
<1>2. ASSUME UNCHANGED sh_vars PROVE ShInv' /\ Comments' /\ (PlainScript(sh) => ShSeen)'
  <2>1. ShInv'
    BY <1>2, ShUnchanged DEF FlowInv
  <2>2. sh' = sh /\ parsed' = parsed /\ pass' = pass /\ at' = at /\ marks' = marks /\ reports' = reports
    BY <1>2 DEF sh_vars
  <2>3. Comments'
    BY <2>2 DEF FlowInv, Comments
  <2>4. PlainScript(sh)' => PlainScript(sh)
    BY <2>2
  <2>5. ShSeen => ShSeen'
    BY <2>2 DEF ShSeen, CarriedMarked, GoneThrough, Marked, LeaksReported, Reported
  <2> QED BY <2>1, <2>3, <2>4, <2>5 DEF FlowInv
<1>3. CASE PyNext /\ UNCHANGED sh_vars
  BY <1>2, <1>3, PySeenStep DEF FlowInv
<1>4. CASE ShNext /\ UNCHANGED py_vars
  <2>1. ShInv' /\ PySeen'
    BY <1>1, <1>4, ShStep DEF FlowInv
  <2>2. sh' = sh
    BY <1>4 DEF ShNext, Walk, Walked, ReadLine, Read
  <2>3. Comments' /\ (PlainScript(sh)' => PlainScript(sh))
    BY <2>2 DEF FlowInv, Comments
  <2>4. PlainScript(sh) => ShSeen'
    BY <1>4, SeenSteps DEF FlowInv
  <2> QED BY <2>1, <2>3, <2>4 DEF FlowInv
<1>5. CASE UNCHANGED vars
  BY <1>1, <1>2, <1>5 DEF vars, FlowInv
<1> QED BY <1>3, <1>4, <1>5 DEF Next

LEMMA SeenIsReported ==
    ASSUME FlowInv
    PROVE  FlowsReported
<1>1. ASSUME PyDone, NEW i \in Lines, PyLeaks(i)
      PROVE  /\ Followable => \E r \in flows : r.line = i
             /\ script[i].callee.sink = "code_execution" => \E b \in behaviours : b.line = i
  BY <1>1, PyLeaksReported DEF FlowInv
<1>2. ASSUME ShDone, \A n \in DOMAIN sh : Plain(sh[n]), NEW n \in DOMAIN sh, ShLeaks(n)
      PROVE  Reported(n)
  <2>1. PlainScript(sh) /\ DOMAIN sh = 1 .. Len(sh) /\ Len(sh) \in Nat /\ at[1] \in Nat
    BY <1>2 DEF FlowInv, ShInv, PlainScript, Comments
  <2>2. LeaksOf(sh, n)
    BY <1>2, <2>1, PlainLeaks
  <2>3. pass = "done" /\ n < at[1]
    BY <1>2, <2>1 DEF ShDone, FlowInv, ShSeen
  <2> QED BY <2>1, <2>2, <2>3 DEF FlowInv, ShSeen, LeaksReported
<1> QED BY <1>1, <1>2, Zenon DEF FlowsReported

(* "Detect data flows from ... sources to dangerous sinks" (the three      *)
(* rules on scripts): for every script of either language that is within   *)
(* the promise, each line where data of a source reaches a sink as the     *)
(* script runs has been reported when the rules are done.                  *)
THEOREM FlowsSeen == Spec => []FlowsReported
<1>1. Init => FlowInv
  BY InitSeen
<1>2. FlowInv /\ [Next]_vars => FlowInv'
  BY StepSeen
<1>3. FlowInv => FlowsReported
  BY SeenIsReported
<1> QED BY <1>1, <1>2, <1>3, PTL DEF Spec

=============================================================================
