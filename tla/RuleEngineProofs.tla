--------------------------- MODULE RuleEngineProofs ---------------------------
(***************************************************************************)
(* For every setup, every catalog and everything the rules may report: the *)
(* rule table of a result agrees with its findings, a setup-wide rule      *)
(* reports in one result, directives and parse errors are honoured, and    *)
(* the views show what the files configure.  The argument follows the      *)
(* result that is being built: what holds of a result when it is finished  *)
(* holds at every step before.                                             *)
(***************************************************************************)
EXTENDS RuleEngine, WellFoundedInduction, TLAPS

RanRec == [rule : RuleIds, passed : BOOLEAN]

(* What one more entry adds to the lists of rules run and failed.          *)
LEMMA RanOneMore ==
    ASSUME NEW q, NEW r, q.ran \in Seq(RanRec), NEW x \in RanRec, r.ran = Append(q.ran, x)
    PROVE  /\ IdsRan(r) = IdsRan(q) \cup {x.rule}
           /\ FailedIn(r) = FailedIn(q) \cup (IF x.passed THEN {} ELSE {x.rule})
<1> DEFINE s == q.ran
           t == r.ran
<1>1. /\ DOMAIN t = DOMAIN s \cup {Len(s) + 1}
      /\ t[Len(s) + 1] = x /\ Len(s) + 1 \notin DOMAIN s
      /\ \A k \in DOMAIN s : t[k] = s[k]
  OBVIOUS
<1> HIDE DEF s, t
<1>2. IdsRan(r) = {t[k].rule : k \in DOMAIN t} /\ IdsRan(q) = {s[k].rule : k \in DOMAIN s}
  BY DEF IdsRan, s, t
<1>3. /\ FailedIn(r) = {t[k].rule : k \in {k \in DOMAIN t : ~t[k].passed}}
      /\ FailedIn(q) = {s[k].rule : k \in {k \in DOMAIN s : ~s[k].passed}}
  BY DEF FailedIn, s, t
<1> QED BY <1>1, <1>2, <1>3

(* A configuration narrowed for a text file is a configuration.            *)
LEMMA ConfigType ==
    ASSUME cfg \in [RuleIds -> Settings], NEW c
    PROVE  ConfigFor(c) \in [RuleIds -> Settings]
BY DEF ConfigFor, Settings, Severities

(* A rule that is not switched off gives its reports a severity.           *)
LEMMA SeverityType ==
    ASSUME cfg \in [RuleIds -> Settings], NEW r \in Rule, NEW c, NEW d \in Descriptor,
           Selected(r, c)
    PROVE  SeverityOf(r, ConfigFor(c), d) \in Severities
<1>1. ConfigFor(c) \in [RuleIds -> Settings] /\ r.id \in RuleIds /\ r.default \in Severities
  BY ConfigType DEF Rule
<1>2. ConfigFor(c)[r.id] # "off"
  BY DEF Selected, Silenced
<1>3. d.override \in Severities \cup {"none"}
  BY DEF Descriptor
<1> QED BY <1>1, <1>2, <1>3 DEF SeverityOf, SeverityFor, Settings

-----------------------------------------------------------------------------
(* A finding made of a report, as ReportAll makes it.                      *)
Finding(d) ==
    [rule |-> d.rule, file |-> d.file, line |-> d.line, reach |-> "none",
     sev |-> SeverityOf(CurrentRule, ConfigFor(Comp), d)]
Hushed(ds) == {d \in ds : IsSuppressed(DirectivesFor(Comp, d.file), d.rule, d.line)}
Findings(ds) == {Finding(d) : d \in ds \ Hushed(ds)}

(* What a rule hands to the report callback is of that rule.               *)
LEMMA ReportFacts ==
    ASSUME TypeOK, pc = "rules", ri <= Len(RuleSeq), ci <= Len(Queue),
           Selected(CurrentRule, Comp), NEW ds \in SUBSET MayReport(CurrentRule, Comp)
    PROVE  /\ CurrentRule \in Rule /\ CurrentRule.id \in RuleIds
           /\ ds \subseteq Descriptors /\ \A d \in ds : d \in Descriptor /\ d.rule = CurrentRule.id
           /\ Findings(ds) \subseteq FindingRec
           /\ \A f \in Findings(ds) : f.rule = CurrentRule.id
           /\ ds \subseteq Hushed(ds) <=> Findings(ds) = {}
<1>1. CurrentRule \in Rule
  <2>1. RuleSeq \in Seq(Rule) /\ ri \in 1 .. Len(RuleSeq)
    BY EngineConstants DEF TypeOK
  <2> QED BY <2>1 DEF CurrentRule
<1>2. CurrentRule.id \in RuleIds
  BY <1>1 DEF Rule
<1>3. ds \subseteq Descriptors /\ \A d \in ds : d \in Descriptor /\ d.rule = CurrentRule.id
  BY EngineConstants DEF MayReport
<1>4. ASSUME NEW d \in ds PROVE Finding(d) \in FindingRec /\ Finding(d).rule = CurrentRule.id
  <2>1. /\ d \in Descriptor /\ d.rule = CurrentRule.id
        /\ SeverityOf(CurrentRule, ConfigFor(Comp), d) \in Severities
    BY <1>1, <1>3, SeverityType DEF TypeOK
  <2> QED BY <1>2, <2>1 DEF Finding, FindingRec, Descriptor
<1>5. ds \subseteq Hushed(ds) <=> Findings(ds) = {}
  BY DEF Findings, Hushed
<1> QED BY <1>1, <1>2, <1>3, <1>4, <1>5 DEF Findings

(* ReportAll in these terms. *)
LEMMA ReportAllIs ==
    ASSUME NEW ds, ReportAll(ds)
    PROVE  /\ suppressed' = suppressed \cup Hushed(ds)
           /\ diags' = diags \cup Findings(ds)
           /\ ran' = Append(ran, [rule |-> CurrentRule.id, passed |-> ds \subseteq Hushed(ds)])
BY DEF ReportAll, Hushed, Findings, Finding

-----------------------------------------------------------------------------
(* The claim on the rule that runs: it is free and taken for this          *)
(* component, or it was taken before and the rule has nothing to report.   *)
ClaimStep(ds) ==
    /\ DOMAIN claims' = DOMAIN claims /\ claims' \in [DOMAIN claims -> 0 .. Len(Queue)]
    /\ \A k \in DOMAIN claims : k # ri => claims'[k] = claims[k]
    /\ ri \in DOMAIN claims => /\ claims[ri] \in {0, claims'[ri]}
                               /\ claims'[ri] \in 1 .. ci
                               /\ ds # {} => claims'[ri] = ci

(* One rule that runs on the current component. *)
RunStep(ds) ==
    /\ pc = "rules" /\ ri <= Len(RuleSeq) /\ Selected(CurrentRule, Comp)
    /\ ds \subseteq MayReport(CurrentRule, Comp) /\ ReportAll(ds)
    /\ ri' = ri + 1 /\ ClaimStep(ds)
    /\ UNCHANGED <<pc, inputs, ci, results>>

(* A claim changes only while no result lists its rule.                    *)
LEMMA ResultsKept ==
    ASSUME NEW ds, ClaimStep(ds), UNCHANGED <<inputs, results>>,
           results \in Seq([diags : SUBSET FindingRec, suppressed : SUBSET Descriptors,
                            ran : Seq(RanRec)]),
           NEW j \in DOMAIN results, ResultInv(j, results[j])
    PROVE  ResultInv(j, results[j])'
<1>1. AgreesIn(results[j])'
  BY DEF ResultInv, AgreesIn, FailedIn, FoundIn
<1>2. HonouredIn(j, results[j])' /\ ShownIn(j, results[j])'
  BY DEF ResultInv, HonouredIn, ShownIn, Covered, inputs
<1>3. ClaimedIn(j, results[j])'
  <2>0. results' = results
    BY DEF inputs
  <2>1. /\ IdsRan(results[j])' = IdsRan(results[j]) /\ FoundIn(results[j])' = FoundIn(results[j])
        /\ {d.rule : d \in results[j].suppressed}' = {d.rule : d \in results[j].suppressed}
    BY <2>0
  <2>2. j \in Nat \ {0}
    OBVIOUS
  <2>3. ASSUME NEW k \in DOMAIN claims
        PROVE  /\ RuleSeq[k].id \in IdsRan(results[j]) => claims'[k] \in 1 .. j
               /\ RuleSeq[k].id \in FoundIn(results[j])
                                     \cup {d.rule : d \in results[j].suppressed}
                    => claims'[k] = j
    <3>1. /\ RuleSeq[k].id \in IdsRan(results[j]) => claims[k] \in 1 .. j
          /\ RuleSeq[k].id \in FoundIn(results[j])
                                \cup {d.rule : d \in results[j].suppressed}
               => claims[k] = j
      BY DEF ResultInv, ClaimedIn
    <3> QED BY <2>2, <3>1 DEF ClaimStep
  <2>4. DOMAIN claims' = DOMAIN claims
    BY DEF ClaimStep
  <2> QED BY <2>1, <2>3, <2>4, Zenon DEF ClaimedIn
<1> QED BY <1>1, <1>2, <1>3 DEF ResultInv

(* What one rule adds to the result being built.                           *)
LEMMA RunFacts ==
    ASSUME EngineInv, NEW ds, RunStep(ds)
    PROVE  /\ ci \in 1 .. Len(Queue) /\ Len(Queue) \in Nat /\ Len(RuleSeq) \in Nat
           /\ ri \in DOMAIN RuleSeq
           /\ CurrentRule.id \in RuleIds
           /\ ds \subseteq Descriptors
           /\ \A d \in ds : d \in Descriptor /\ d.rule = CurrentRule.id
           /\ Findings(ds) \subseteq FindingRec
           /\ \A f \in Findings(ds) : f.rule = CurrentRule.id
           /\ ds \subseteq Hushed(ds) <=> Findings(ds) = {}
           /\ suppressed' = suppressed \cup Hushed(ds)
           /\ diags' = diags \cup Findings(ds)
           /\ ran' = Append(ran, [rule |-> CurrentRule.id, passed |-> ds \subseteq Hushed(ds)])
<1>1. /\ ci \in 1 .. Len(Queue) /\ Len(Queue) \in Nat /\ Len(RuleSeq) \in Nat
      /\ ri \in DOMAIN RuleSeq
  BY EngineConstants DEF EngineInv, TypeOK, Stage, RunStep
<1>2. /\ TypeOK /\ pc = "rules" /\ ri <= Len(RuleSeq) /\ ci <= Len(Queue)
      /\ Selected(CurrentRule, Comp) /\ ds \in SUBSET MayReport(CurrentRule, Comp)
      /\ ReportAll(ds)
  BY <1>1 DEF EngineInv, RunStep
<1>3. /\ suppressed' = suppressed \cup Hushed(ds)
      /\ diags' = diags \cup Findings(ds)
      /\ ran' = Append(ran, [rule |-> CurrentRule.id, passed |-> ds \subseteq Hushed(ds)])
  BY <1>2, ReportAllIs
<1>4. /\ CurrentRule.id \in RuleIds
      /\ ds \subseteq Descriptors
      /\ \A d \in ds : d \in Descriptor /\ d.rule = CurrentRule.id
      /\ Findings(ds) \subseteq FindingRec
      /\ \A f \in Findings(ds) : f.rule = CurrentRule.id
      /\ ds \subseteq Hushed(ds) <=> Findings(ds) = {}
  BY <1>2, ReportFacts, Zenon
<1> QED BY <1>1, <1>3, <1>4, Zenon

(* The types after one rule has run. *)
LEMMA RunTypes ==
    ASSUME EngineInv, NEW ds, RunStep(ds)
    PROVE  TypeOK' /\ Stage'
<1>1. /\ ci \in 1 .. Len(Queue) /\ Len(Queue) \in Nat /\ Len(RuleSeq) \in Nat
      /\ ri \in DOMAIN RuleSeq
      /\ CurrentRule.id \in RuleIds /\ ds \subseteq Descriptors
      /\ Findings(ds) \subseteq FindingRec
      /\ suppressed' = suppressed \cup Hushed(ds)
      /\ diags' = diags \cup Findings(ds)
      /\ ran' = Append(ran, [rule |-> CurrentRule.id, passed |-> ds \subseteq Hushed(ds)])
  BY RunFacts, Zenon
<1>2. ran' \in Seq([rule : RuleIds, passed : BOOLEAN])
  BY <1>1 DEF EngineInv, TypeOK
<1>3. suppressed' \subseteq Descriptors /\ diags' \subseteq FindingRec
  BY <1>1 DEF EngineInv, TypeOK, Hushed
<1>4. ri' \in 1 .. Len(RuleSeq) + 1
  BY <1>1, EngineConstants DEF RunStep
<1>5. UNCHANGED <<pc, cfg, dirs, content, parsed, ci, results>>
  BY DEF RunStep, inputs
<1>6. /\ DOMAIN claims' = DOMAIN claims /\ claims' \in [DOMAIN claims' -> 0 .. Len(Queue)]
      /\ \A k \in DOMAIN claims' : claims'[k] <= ci
  <2>1. ClaimStep(ds) /\ \A k \in DOMAIN claims : claims[k] <= ci
    BY DEF RunStep, EngineInv, Stage
  <2>2. ASSUME NEW k \in DOMAIN claims PROVE claims'[k] <= ci
    <3>1. CASE k = ri
      BY <1>1, <2>1, <3>1 DEF ClaimStep
    <3>2. CASE k # ri
      BY <2>1, <3>2 DEF ClaimStep
    <3> QED BY <3>1, <3>2
  <2> QED BY <2>1, <2>2 DEF ClaimStep
<1>7. TypeOK'
  BY <1>2, <1>3, <1>4, <1>5, <1>6 DEF EngineInv, TypeOK, Parsable
<1>8. Stage'
  <2>1. Views' = Views
    BY <1>5 DEF Views, Parsable
  <2> QED BY <1>5, <1>6, <2>1 DEF EngineInv, Stage, Parsable, Raises
<1> QED BY <1>7, <1>8

(* The result being built, after one rule has run.                         *)
LEMMA RunBuilding ==
    ASSUME EngineInv, NEW ds, RunStep(ds)
    PROVE  ResultInv(ci, Building)'
<1> DEFINE id == CurrentRule.id
           x == [rule |-> id, passed |-> ds \subseteq Hushed(ds)]
<1>0. /\ ci \in 1 .. Len(Queue) /\ Len(Queue) \in Nat /\ ri \in DOMAIN RuleSeq
  BY RunFacts, Zenon
<1>1. /\ id \in RuleIds
      /\ \A d \in ds : d \in Descriptor /\ d.rule = id
      /\ \A f \in Findings(ds) : f.rule = id
      /\ ds \subseteq Hushed(ds) <=> Findings(ds) = {}
      /\ suppressed' = suppressed \cup Hushed(ds)
      /\ diags' = diags \cup Findings(ds)
      /\ ran' = Append(ran, x)
  BY RunFacts, Zenon
<1>2. ran \in Seq(RanRec) /\ x \in RanRec /\ x.rule = id /\ x.passed = (ds \subseteq Hushed(ds))
  BY <1>1 DEF EngineInv, TypeOK, RanRec
<1> DEFINE new == Result(diags', suppressed', ran')
<1>3. Building' = new /\ new.diags = diags' /\ new.suppressed = suppressed'
      /\ Building.diags = diags /\ Building.suppressed = suppressed
  BY DEF Building, Result
<1>4. /\ IdsRan(new) = IdsRan(Building) \cup {id}
      /\ FailedIn(new) = FailedIn(Building) \cup (IF Findings(ds) = {} THEN {} ELSE {id})
  <2> HIDE DEF x, id
  <2>0. new.ran = Append(ran, x) /\ Building.ran = ran
    BY <1>1 DEF Building, Result
  <2> HIDE DEF new
  <2>1. /\ IdsRan(new) = IdsRan(Building) \cup {x.rule}
        /\ FailedIn(new) = FailedIn(Building) \cup (IF x.passed THEN {} ELSE {x.rule})
    BY <1>2, <2>0, RanOneMore
  <2> QED BY <1>1, <1>2, <2>1
<1> HIDE DEF new, x, id
<1>5. FoundIn(new) = FoundIn(Building) \cup (IF Findings(ds) = {} THEN {} ELSE {id})
  BY <1>1, <1>3 DEF FoundIn
<1>6. {d.rule : d \in suppressed'} \subseteq {d.rule : d \in suppressed} \cup (IF ds = {} THEN {} ELSE {id})
  BY <1>1 DEF Hushed
<1>7. AgreesIn(Building) /\ ClaimedIn(ci, Building) /\ HonouredIn(ci, Building) /\ ShownIn(ci, Building)
  BY DEF EngineInv, ResultInv, RunStep
<1>8. AgreesIn(new)
  BY <1>4, <1>5, <1>7 DEF AgreesIn
<1>9. ClaimedIn(ci, Building)'
  <2>1. ASSUME NEW k \in DOMAIN claims
        PROVE  /\ RuleSeq[k].id \in IdsRan(new) => claims'[k] \in 1 .. ci
               /\ RuleSeq[k].id \in FoundIn(new) \cup {d.rule : d \in suppressed'}
                    => claims'[k] = ci
    <3>1. /\ RuleSeq[k].id \in IdsRan(Building) => claims[k] \in 1 .. ci
          /\ RuleSeq[k].id \in FoundIn(Building) \cup {d.rule : d \in suppressed}
               => claims[k] = ci
      BY <1>3, <1>7 DEF ClaimedIn
    <3>2. k \in DOMAIN RuleSeq /\ ri \in DOMAIN RuleSeq
      BY <1>0 DEF EngineInv, Stage
    <3>3. CASE k = ri
      <4>1. /\ claims[k] \in {0, claims'[k]} /\ claims'[k] \in 1 .. ci
            /\ ds # {} => claims'[k] = ci
        BY <3>3 DEF RunStep, ClaimStep
      <4>2. Findings(ds) # {} => ds # {}
        BY DEF Findings
      <4>3. ci \in Nat \ {0}
        BY <1>0
      <4>4. CASE ds # {}
        BY <4>1, <4>3, <4>4
      <4>5. CASE ds = {}
        BY <1>5, <1>6, <3>1, <4>1, <4>2, <4>3, <4>5
      <4> QED BY <4>4, <4>5
    <3>4. CASE k # ri
      <4>1. claims'[k] = claims[k]
        BY <3>4 DEF RunStep, ClaimStep
      <4>2. RuleSeq[k].id # id
        BY <3>2, <3>4, EngineConstants DEF id, CurrentRule
      <4> QED BY <1>4, <1>5, <1>6, <3>1, <4>1, <4>2
    <3> QED BY <3>3, <3>4
  <2>2. DOMAIN claims' = DOMAIN claims /\ ci' = ci
    BY DEF RunStep, ClaimStep
  <2> QED BY <1>3, <2>1, <2>2, Zenon DEF ClaimedIn
<1>10. HonouredIn(ci, Building)'
  <2>0. UNCHANGED <<dirs, ci>>
    BY DEF RunStep, inputs
  <2>1. ASSUME NEW d \in diags', d.file = Queue[ci].file, d.rule # "parser"
        PROVE  ~Covered(d)
    <3>1. CASE d \in diags
      BY <1>3, <1>7, <2>1, <3>1 DEF HonouredIn
    <3>2. CASE d \in Findings(ds)
      <4>1. PICK e \in ds \ Hushed(ds) : d = Finding(e)
        BY <3>2 DEF Findings
      <4>2. d.file = e.file /\ d.rule = e.rule /\ d.line = e.line
        BY <4>1 DEF Finding
      <4>3. e \in Descriptor /\ Comp \in Component
        BY <1>0, <1>1, EngineConstants DEF Comp
      <4>4. ~IsSuppressed(dirs[d.file], d.rule, d.line)
        <5>1. DirectivesFor(Comp, d.file) = dirs[d.file]
          BY <2>1 DEF DirectivesFor, Comp
        <5> QED BY <4>1, <4>2, <5>1 DEF Hushed
      <4>5. dirs[d.file] \subseteq RuleIds \X (Nat \cup {AllLines})
        BY <2>1, <4>3 DEF EngineInv, TypeOK, Comp, Component
      <4>6. d.line \in Nat \cup {NoLine}
        BY <4>2, <4>3 DEF Descriptor
      <4> QED BY <4>4, <4>5, <4>6, EngineConstants DEF IsSuppressed, Covered
    <3> QED BY <1>1, <3>1, <3>2
  <2>2. \A d : Covered(d)' = Covered(d)
    BY <2>0 DEF Covered
  <2> QED BY <1>3, <2>0, <2>1, <2>2 DEF HonouredIn
<1>11. ShownIn(ci, Building)'
  <2>1. UNCHANGED <<content, ci>> /\ diags \subseteq diags'
    BY <1>1 DEF RunStep, inputs
  <2> QED BY <1>3, <1>7, <2>1 DEF ShownIn
<1>12. ci' = ci /\ AgreesIn(Building)'
  BY <1>3, <1>8 DEF RunStep
<1> QED BY <1>9, <1>10, <1>11, <1>12 DEF ResultInv


-----------------------------------------------------------------------------
(* A file that is not what its format asks for has errors in its view,     *)
(* unless the parser raises.                                               *)
LEMMA ParseShows ==
    ASSUME NEW c \in Component, NEW f, f.form \in Forms, ~Raises(c, f), Broken(c, f)
    PROVE  ~IsText(c) /\ c.type # "mcp" /\ Parse(c, f).errors # {}
<1>1. c.type \in {"skill", "agent", "command", "hooks", "harness", "claude_md", "config"}
  BY DEF Broken, Component, TextTypes
<1>2. ~IsText(c) /\ c.type # "mcp"
  BY <1>1 DEF IsText, TextTypes
<1>3. f.form # "gone" => FrontmatterErrors(f.form) = ReadAndParse(f).errors
  BY DEF ReadAndParse, View
<1>4. f.form \in {"unclosed", "notMapping", "invalid"} => FrontmatterErrors(f.form) # {}
  BY DEF FrontmatterErrors
<1>5. NotFound.errors # {} /\ [NotFound EXCEPT !.below = TRUE].errors # {}
  BY DEF NotFound, View
<1>6. CASE c.type = "skill" \/ (c.type = "command" /\ ~c.toml)
  <2>1. f.form \in {"gone", "unclosed", "notMapping", "invalid"}
    BY <1>6 DEF Broken
  <2> QED BY <1>2, <1>3, <1>4, <1>5, <1>6, <2>1 DEF Parse, ParseSkill, ParseCommand
<1>7. CASE c.type = "agent"
  <2>1. f.form \in {"gone", "unclosed", "notMapping", "invalid"}
    BY <1>7 DEF Broken
  <2> QED BY <1>2, <1>3, <1>4, <1>5, <1>7, <2>1 DEF Parse, ParseAgent
<1>8. CASE c.type = "command" /\ c.toml
  <2>1. f.form \in {"gone", "invalid"}
    BY <1>8 DEF Broken
  <2> QED BY <1>2, <1>5, <1>8, <2>1 DEF Parse, ParseCommand, ParseToml, View
<1>9. CASE c.type = "hooks"
  <2>1. f.form \in {"gone", "empty", "invalid"}
    BY <1>9 DEF Broken, Raises
  <2> QED BY <1>2, <1>5, <1>9, <2>1 DEF Parse, ParseHooks, View
<1>10. CASE c.type = "harness"
  <2>1. f.form \in {"gone", "notMapping", "invalid"}
    BY <1>10 DEF Broken
  <2> QED BY <1>2, <1>5, <1>10, <2>1 DEF Parse, ParseHarness, View
<1>11. CASE c.type \in {"claude_md", "config"}
  <2>1. f.form = "gone"
    BY <1>11 DEF Broken
  <2> QED BY <1>2, <1>5, <1>11, <2>1 DEF Parse, ParseClaudeMd, ParseText
<1> QED BY <1>1, <1>6, <1>7, <1>8, <1>9, <1>10, <1>11

(* The component whose turn it is.                                         *)
LEMMA TurnFacts ==
    ASSUME EngineInv, NEW types, Turn(types)
    PROVE  /\ ci \in 1 .. Len(Queue) /\ Len(Queue) \in Nat /\ Comp \in Component
           /\ content[ci].form \in Forms /\ Comp.type \in types
           /\ ~IsText(Comp) => /\ parsed[ci] = Parse(Comp, content[ci])
                               /\ ~Raises(Comp, content[ci])
<1>1. ci \in 1 .. Len(Queue) /\ Len(Queue) \in Nat /\ Comp \in Component /\ Comp.type \in types
  BY EngineConstants DEF EngineInv, TypeOK, Turn, Comp
<1>2. content[ci].form \in Forms
  BY <1>1, EngineConstants DEF EngineInv, TypeOK
<1>3. ASSUME ~IsText(Comp)
      PROVE  parsed[ci] = Parse(Comp, content[ci]) /\ ~Raises(Comp, content[ci])
  <2>1. ci \in Parsable
    BY <1>1, <1>3, EngineConstants DEF Parsable, Comp
  <2>2. parsed = Views /\ \A j \in Parsable : ~Raises(Queue[j], content[j])
    BY DEF EngineInv, Stage, Turn
  <2> QED BY <2>1, <2>2 DEF Views, Comp
<1> QED BY <1>1, <1>2, <1>3

(* What a component starts with, and what its parse errors are.            *)
ParserFindings == {ParserFinding(f) : f \in Files \cup {NoSuchFile}}

LEMMA ErrorFacts ==
    ASSUME EngineInv, NEW types, Turn(types), ~IsText(Comp)
    PROVE  \A ds \in {ParseErrors, ParseErrorsBelow} :
              /\ ds \subseteq ParserFindings
              /\ Broken(Comp, content[ci]) => ds # {}
<1>1. Comp.file \in Files
  BY TurnFacts DEF Component
<1>2. Broken(Comp, content[ci]) => parsed[ci].errors # {}
  BY TurnFacts, ParseShows
<1> QED BY <1>1, <1>2 DEF ParseErrors, ParseErrorsBelow, ParserFindings

(* A component starts with nothing but errors of the parser.               *)
LEMMA StartStep ==
    ASSUME EngineInv, NEW types, Turn(types), NEW ds \in SUBSET ParserFindings, StartRules(ds),
           Broken(Comp, content[ci]) => ds # {}
    PROVE  EngineInv'
<1>1. /\ pc' = "rules" /\ ri' = 1 /\ diags' = ds /\ suppressed' = {} /\ ran' = <<>>
      /\ UNCHANGED <<cfg, dirs, content, parsed, ci, claims, results>>
  BY DEF StartRules, inputs
<1>2. ci \in 1 .. Len(Queue) /\ Len(Queue) \in Nat /\ Len(RuleSeq) \in Nat
  BY TurnFacts, EngineConstants
<1>3. \A d \in ds : d \in FindingRec /\ d.rule = "parser" /\ d.sev = "error"
  BY DEF ParserFindings, ParserFinding, FindingRec, Severities
<1>4. TypeOK'
  BY <1>1, <1>2, <1>3 DEF EngineInv, TypeOK, Parsable
<1>5. Stage'
  <2>1. Views' = Views
    BY <1>1 DEF Views, Parsable
  <2> QED BY <1>1, <1>2, <2>1 DEF EngineInv, Stage, Parsable, Raises, Turn
<1>6. ResultInv(ci, Building)'
  <2>1. /\ Building'.diags = ds /\ Building'.suppressed = {} /\ Building'.ran = <<>>
        /\ IdsRan(Building') = {} /\ FailedIn(Building') = {}
    BY <1>1 DEF Building, Result, IdsRan, FailedIn
  <2>2. FoundIn(Building') \subseteq {"parser"}
    BY <1>3, <2>1 DEF FoundIn
  <2>3. AgreesIn(Building)'
    BY <2>1, <2>2 DEF AgreesIn
  <2>4. ClaimedIn(ci, Building)'
    <3>1. \A k \in DOMAIN claims' : RuleSeq[k].id # "parser"
      BY <1>1, EngineConstants DEF EngineInv, Stage
    <3> QED BY <2>1, <2>2, <3>1 DEF ClaimedIn
  <2>5. HonouredIn(ci, Building)'
    BY <1>3, <2>1 DEF HonouredIn
  <2>6. ShownIn(ci, Building)'
    <3>1. Broken(Queue[ci], content[ci])' => ds # {}
      BY <1>1 DEF Comp
    <3> QED BY <1>3, <2>1, <3>1 DEF ShownIn
  <2> QED BY <2>3, <2>4, <2>5, <2>6 DEF ResultInv
<1>7. \A j \in DOMAIN results' : ResultInv(j, results[j])'
  BY <1>1 DEF EngineInv, ResultInv, AgreesIn, ClaimedIn, HonouredIn, ShownIn, Covered
<1> QED BY <1>4, <1>5, <1>6, <1>7 DEF EngineInv


-----------------------------------------------------------------------------
ResultRec == [diags : SUBSET FindingRec, suppressed : SUBSET Descriptors, ran : Seq(RanRec)]

(* A component is done: its result joins the others.                       *)
LEMMA ResultAdded ==
    ASSUME EngineInv, pc \in {"next", "rules"}, ci <= Len(Queue),
           NEW r \in ResultRec, ResultInv(ci, r), results' = Append(results, r),
           ci' = ci + 1, pc' = "next",
           UNCHANGED <<inputs, ri, diags, suppressed, ran, claims>>
    PROVE  EngineInv'
<1>1. UNCHANGED <<cfg, dirs, content, parsed, ri, diags, suppressed, ran, claims>>
  BY DEF inputs
<1>2. /\ ci \in 1 .. Len(Queue) /\ Len(Queue) \in Nat /\ Len(results) = ci - 1
      /\ results \in Seq(ResultRec)
  BY EngineConstants, SMTT(30) DEF EngineInv, TypeOK, Stage, ResultRec, RanRec
<1>3. /\ results' \in Seq(ResultRec) /\ Len(results') = ci
      /\ DOMAIN results' = DOMAIN results \cup {ci} /\ ci \notin DOMAIN results
      /\ results'[ci] = r /\ \A j \in DOMAIN results : results'[j] = results[j]
  BY <1>2
<1>4. TypeOK'
  BY <1>1, <1>2, <1>3 DEF EngineInv, TypeOK, Parsable, ResultRec, RanRec
<1>5. Stage'
  <2>1. Views' = Views
    BY <1>1 DEF Views, Parsable
  <2> QED BY <1>1, <1>2, <1>3, <2>1 DEF EngineInv, TypeOK, Stage, Parsable, Raises
<1>6. ASSUME NEW j \in DOMAIN results' PROVE ResultInv(j, results[j])'
  <2>1. ResultInv(j, results'[j])
    BY <1>3, <1>6 DEF EngineInv
  <2> QED BY <1>1, <2>1 DEF ResultInv, AgreesIn, ClaimedIn, HonouredIn, ShownIn, Covered
<1> QED BY <1>4, <1>5, <1>6 DEF EngineInv

(* The early returns are taken for files whose loss is passed over. *)
LEMMA EmptyStep ==
    ASSUME EngineInv, NEW types, Turn(types), EmptyResult, ~Broken(Comp, content[ci])
    PROVE  EngineInv'
<1> DEFINE r == Result({}, {}, <<>>)
<1>1. /\ r \in ResultRec /\ r.diags = {} /\ r.suppressed = {} /\ r.ran = <<>>
      /\ IdsRan(r) = {} /\ FailedIn(r) = {} /\ FoundIn(r) = {}
  BY DEF Result, ResultRec, IdsRan, FailedIn, FoundIn
<1>2. /\ results' = Append(results, r) /\ ci' = ci + 1 /\ pc' = pc /\ pc = "next"
      /\ UNCHANGED <<inputs, ri, diags, suppressed, ran, claims>> /\ ci <= Len(Queue)
  BY DEF EmptyResult, Turn
<1> HIDE DEF r
<1>3. ResultInv(ci, r)
  BY <1>1 DEF ResultInv, AgreesIn, ClaimedIn, HonouredIn, ShownIn, Comp
<1> QED BY <1>1, <1>2, <1>3, ResultAdded

LEMMA FinishStep == EngineInv /\ FinishComponent => EngineInv'
<1> SUFFICES ASSUME EngineInv, FinishComponent PROVE EngineInv'
  OBVIOUS
<1>1. /\ results' = Append(results, Building) /\ ci' = ci + 1 /\ pc' = "next" /\ pc = "rules"
      /\ UNCHANGED <<inputs, ri, diags, suppressed, ran, claims>>
  BY DEF FinishComponent, Building
<1>2. Building \in ResultRec /\ ResultInv(ci, Building) /\ ci <= Len(Queue)
  BY <1>1 DEF EngineInv, TypeOK, Stage, Building, Result, ResultRec, RanRec
<1> QED BY <1>1, <1>2, ResultAdded

(* The parse of the setup: its views, or its end.                          *)
LEMMA ParseStep == EngineInv /\ (ParseSetup \/ ParseRaises) => EngineInv'
<1> SUFFICES ASSUME EngineInv, ParseSetup \/ ParseRaises PROVE EngineInv'
  OBVIOUS
<1>1. /\ UNCHANGED <<cfg, dirs, content, ci, ri, diags, suppressed, ran, claims, results>>
      /\ pc = "parse" /\ pc' \in {"next", "crashed"}
  BY DEF ParseSetup, ParseRaises, inputs
<1>2. Views' = Views /\ Parsable' = Parsable
  BY <1>1 DEF Views, Parsable
<1>3. /\ parsed' \in {parsed, Views}
      /\ pc' = "next" => parsed' = Views /\ \A j \in Parsable : ~Raises(Queue[j], content[j])
  BY DEF ParseSetup, ParseRaises, inputs, Views
<1>4. TypeOK'
  BY <1>1, <1>2, <1>3 DEF EngineInv, TypeOK, Views
<1>5. Stage'
  BY <1>1, <1>2, <1>3 DEF EngineInv, TypeOK, Stage, Raises
<1>6. \A j \in DOMAIN results' : ResultInv(j, results[j])'
  BY <1>1 DEF EngineInv, ResultInv, AgreesIn, ClaimedIn, HonouredIn, ShownIn, Covered
<1> QED BY <1>1, <1>4, <1>5, <1>6 DEF EngineInv


LEMMA SkipStep == EngineInv /\ SkipRule => EngineInv'
<1> SUFFICES ASSUME EngineInv, SkipRule PROVE EngineInv'
  OBVIOUS
<1>1. /\ UNCHANGED <<pc, cfg, dirs, content, parsed, ci, diags, suppressed, ran, claims, results>>
      /\ ri' = ri + 1 /\ ri <= Len(RuleSeq) /\ Len(RuleSeq) \in Nat
  BY EngineConstants DEF SkipRule, inputs
<1>2. TypeOK'
  BY <1>1 DEF EngineInv, TypeOK, Parsable
<1>3. Stage'
  BY <1>1 DEF EngineInv, Stage, Views, Parsable, Raises
<1>4. Building' = Building
  BY <1>1 DEF Building, Result
<1> QED BY <1>1, <1>2, <1>3, <1>4
        DEF EngineInv, ResultInv, AgreesIn, ClaimedIn, HonouredIn, ShownIn, Covered

LEMMA RaiseStep == EngineInv /\ RuleRaises => EngineInv'
<1> SUFFICES ASSUME EngineInv, RuleRaises PROVE EngineInv'
  OBVIOUS
<1>1. /\ UNCHANGED <<cfg, dirs, content, parsed, ci, ri, diags, suppressed, ran, claims>>
      /\ results' = <<>> /\ pc' = "crashed" /\ pc # "crashed"
  BY DEF RuleRaises, Turn, inputs
<1>2. TypeOK'
  BY <1>1 DEF EngineInv, TypeOK, Parsable
<1>3. Stage'
  BY <1>1 DEF EngineInv, Stage, Views, Parsable, Raises
<1> QED BY <1>1, <1>2, <1>3 DEF EngineInv

(* The closing pass changes nothing of a result but the reachability.      *)
LEMMA AnnotateStep == EngineInv /\ Annotate => EngineInv'
<1> SUFFICES ASSUME EngineInv, Annotate PROVE EngineInv'
  OBVIOUS
<1> DEFINE mark(d) == IF d.rule \in AnnotatedIds
                      THEN [d EXCEPT !.reach = IF d.file \in Reachable THEN "reachable"
                                                                      ELSE "unreachable"]
                      ELSE d
<1>1. /\ UNCHANGED <<cfg, dirs, content, parsed, ci, ri, diags, suppressed, ran, claims>>
      /\ pc = "next" /\ pc' = "done"
      /\ results' = [j \in DOMAIN results |->
                        [results[j] EXCEPT !.diags = {mark(d) : d \in @}]]
  BY DEF Annotate, inputs
<1>2. results \in Seq(ResultRec)
  BY DEF EngineInv, TypeOK, ResultRec, RanRec
<1>3. ASSUME NEW d \in FindingRec
      PROVE  /\ mark(d) \in FindingRec /\ mark(d).rule = d.rule /\ mark(d).file = d.file
             /\ mark(d).line = d.line /\ mark(d).sev = d.sev
  BY DEF FindingRec
<1> HIDE DEF mark
<1>4. ASSUME NEW j \in DOMAIN results
      PROVE  /\ results'[j] \in ResultRec
             /\ results'[j].diags = {mark(d) : d \in results[j].diags}
             /\ results'[j].ran = results[j].ran /\ results'[j].suppressed = results[j].suppressed
             /\ results[j].diags \subseteq FindingRec
  <2>1. results[j] \in ResultRec
    BY <1>2
  <2>2. {mark(d) : d \in results[j].diags} \subseteq FindingRec
    BY <1>3, <2>1 DEF ResultRec
  <2> QED BY <1>1, <2>1, <2>2 DEF ResultRec
<1>5. results' \in Seq(ResultRec) /\ Len(results') = Len(results) /\ DOMAIN results' = DOMAIN results
  <2>1. DOMAIN results = 1 .. Len(results) /\ Len(results) \in Nat
    BY <1>2
  <2>2. results' \in [1 .. Len(results) -> ResultRec]
    BY <1>1, <1>4, <2>1
  <2> QED BY <2>1, <2>2
<1>6. TypeOK'
  BY <1>1, <1>5 DEF EngineInv, TypeOK, Parsable, ResultRec, RanRec
<1>7. Stage'
  BY <1>1, <1>5 DEF EngineInv, Stage, Views, Parsable, Raises
<1>8. ASSUME NEW j \in DOMAIN results' PROVE ResultInv(j, results[j])'
  <2>1. ResultInv(j, results[j]) /\ j \in DOMAIN results
    BY <1>5 DEF EngineInv
  <2>2. /\ IdsRan(results'[j]) = IdsRan(results[j]) /\ FailedIn(results'[j]) = FailedIn(results[j])
        /\ FoundIn(results'[j]) = FoundIn(results[j])
        /\ results'[j].suppressed = results[j].suppressed
    <3>1. FoundIn(results'[j]) = FoundIn(results[j])
      BY <1>3, <1>4, <2>1 DEF FoundIn
    <3> QED BY <1>4, <2>1, <3>1 DEF IdsRan, FailedIn
  <2>3. AgreesIn(results[j])' /\ ClaimedIn(j, results[j])'
    BY <1>1, <2>1, <2>2 DEF ResultInv, AgreesIn, ClaimedIn
  <2>4. HonouredIn(j, results[j])'
    <3>1. ASSUME NEW d \in results[j].diags, mark(d).file = Queue[j].file, mark(d).rule # "parser"
          PROVE  ~Covered(mark(d))'
      BY <1>1, <1>3, <1>4, <2>1, <3>1 DEF ResultInv, HonouredIn, Covered
    <3> QED BY <1>4, <2>1, <3>1 DEF HonouredIn
  <2>5. ShownIn(j, results[j])'
    <3>1. ASSUME Broken(Queue[j], content[j])
          PROVE  \E d \in results'[j].diags : d.rule = "parser" /\ d.sev = "error"
      <4>1. PICK d \in results[j].diags : d.rule = "parser" /\ d.sev = "error"
        BY <2>1, <3>1 DEF ResultInv, ShownIn
      <4>2. mark(d) \in results'[j].diags /\ mark(d).rule = "parser" /\ mark(d).sev = "error"
        BY <1>3, <1>4, <2>1, <4>1
      <4> QED BY <4>2
    <3> QED BY <1>1, <3>1 DEF ShownIn
  <2> QED BY <2>3, <2>4, <2>5 DEF ResultInv
<1> QED BY <1>1, <1>6, <1>7, <1>8 DEF EngineInv

-----------------------------------------------------------------------------
(* The eight functions that lint parsed components.                        *)
LEMMA LintStep ==
    EngineInv /\ (\/ LintSkill \/ LintCommand \/ LintClaudeMd \/ LintHooks \/ LintAgent
                  \/ LintConfig \/ LintHarness \/ LintMcpConfig \/ LintTextFile) => EngineInv'
<1>1. ASSUME EngineInv, NEW types \in {{"skill"}, {"command"}, {"claude_md"}, {"hooks"}, {"agent"},
                                       {"config"}, {"harness"}},
             Turn(types), NEW ds \in {ParseErrors, ParseErrorsBelow}, StartRules(ds)
      PROVE  EngineInv'
  <2>1. ~IsText(Comp)
    BY <1>1 DEF Turn, IsText, TextTypes
  <2>2. ds \subseteq ParserFindings /\ (Broken(Comp, content[ci]) => ds # {})
    BY <1>1, <2>1, ErrorFacts
  <2> QED BY <1>1, <2>2, StartStep
<1>2. ASSUME EngineInv, NEW types, types = {"mcp"} \/ types = TextTypes, Turn(types),
             EmptyResult \/ StartRules({})
      PROVE  EngineInv'
  <2>1. ~Broken(Comp, content[ci])
    <3>1. Comp.type \in {"mcp"} \cup TextTypes
      BY <1>2 DEF Turn
    <3> QED BY <3>1 DEF Broken, TextTypes
  <2> QED BY <1>2, <2>1, EmptyStep, StartStep
<1> QED BY <1>1, <1>2 DEF LintSkill, LintCommand, LintClaudeMd, LintHooks, LintAgent, LintConfig,
                          LintHarness, LintMcpConfig, LintTextFile

(* A rule that runs, the claimed ones included.                            *)
LEMMA RuleStep == EngineInv /\ (RunRule \/ RunClaimedRule) => EngineInv'
<1>1. ASSUME EngineInv, NEW ds, RunStep(ds) PROVE EngineInv'
  <2>1. UNCHANGED <<pc, ci, inputs, results>> /\ ClaimStep(ds) /\ pc = "rules"
    BY <1>1 DEF RunStep
  <2>2. \A j \in DOMAIN results' : ResultInv(j, results[j])'
    BY <1>1, <2>1, ResultsKept DEF EngineInv, TypeOK, RanRec
  <2> QED BY <1>1, <2>1, <2>2, RunTypes, RunBuilding DEF EngineInv
<1>2. ASSUME EngineInv, RunRule PROVE \E ds : RunStep(ds)
  <2>1. PICK ds \in SUBSET MayReport(CurrentRule, Comp) : ReportAll(ds)
    BY <1>2 DEF RunRule
  <2>2. ci \in 1 .. Len(Queue) /\ Len(Queue) \in Nat /\ claims \in [DOMAIN claims -> 0 .. Len(Queue)]
    BY <1>2, EngineConstants DEF EngineInv, TypeOK, Stage, RunRule
  <2>3. /\ ri \in DOMAIN claims => claims[ri] = 0
        /\ claims' = IF ri \in DOMAIN claims THEN [claims EXCEPT ![ri] = ci] ELSE claims
    BY <1>2 DEF RunRule
  <2>4. ClaimStep(ds)
    <3>1. CASE ri \in DOMAIN claims
      BY <2>2, <2>3, <3>1 DEF ClaimStep
    <3>2. CASE ri \notin DOMAIN claims
      BY <2>2, <2>3, <3>2 DEF ClaimStep
    <3> QED BY <3>1, <3>2
  <2> QED BY <1>2, <2>1, <2>4 DEF RunRule, RunStep
<1>3. ASSUME EngineInv, RunClaimedRule PROVE RunStep({})
  <2>1. ci \in 1 .. Len(Queue) /\ Len(Queue) \in Nat /\ claims \in [DOMAIN claims -> 0 .. Len(Queue)]
    BY <1>3, EngineConstants DEF EngineInv, TypeOK, Stage, RunClaimedRule
  <2>2. ri \in DOMAIN claims /\ claims[ri] # 0 /\ claims' = claims /\ claims[ri] <= ci
    BY <1>3 DEF RunClaimedRule, EngineInv, Stage
  <2>3. ClaimStep({})
    BY <2>1, <2>2 DEF ClaimStep
  <2> QED BY <1>3, <2>3 DEF RunClaimedRule, RunStep
<1> QED BY <1>1, <1>2, <1>3

-----------------------------------------------------------------------------
LEMMA InitInv == Init => EngineInv
<1> SUFFICES ASSUME Init PROVE EngineInv
  OBVIOUS
<1>1. Len(Queue) \in Nat /\ Len(RuleSeq) \in Nat
  BY EngineConstants
<1>2. cfg \in Configs /\ dirs \in Directives /\ content \in Contents /\ pc = "parse"
      /\ parsed = <<>> /\ ci = 1 /\ ri = 1 /\ diags = {} /\ suppressed = {} /\ ran = <<>>
      /\ claims = [k \in {k \in DOMAIN RuleSeq : RuleSeq[k].once} |-> 0] /\ results = <<>>
  BY DEF Init
<1>3. TypeOK
  BY <1>1, <1>2, EngineConstants DEF TypeOK
<1>4. Stage
  BY <1>1, <1>2 DEF Stage
<1> QED BY <1>2, <1>3, <1>4 DEF EngineInv

LEMMA StepInv == EngineInv /\ [Next]_vars => EngineInv'
<1> SUFFICES ASSUME EngineInv, [Next]_vars PROVE EngineInv'
  OBVIOUS
<1>1. CASE Next
  BY <1>1, ParseStep, LintStep, SkipStep, RuleStep, RaiseStep, FinishStep, AnnotateStep DEF Next
<1>2. CASE UNCHANGED vars
  <2>1. Building' = Building
    BY <1>2 DEF vars, Building, Result
  <2>2. TypeOK' /\ Stage'
    BY <1>2 DEF vars, EngineInv, TypeOK, Stage, Views, Parsable, Raises
  <2> QED BY <1>2, <2>1, <2>2
          DEF vars, EngineInv, ResultInv, AgreesIn, ClaimedIn, HonouredIn, ShownIn, Covered
<1> QED BY <1>1, <1>2

(* Types, the progress of the scan, and what holds of every result.        *)
THEOREM EngineInductive == Spec => []EngineInv
BY InitInv, StepInv, PTL DEF Spec

(* Every variable of the rule engine keeps its type.                       *)
THEOREM EngineTypes == Spec => []TypeOK
<1>1. EngineInv => TypeOK
  BY DEF EngineInv
<1> QED BY <1>1, EngineInductive, PTL

(* The rule table of every result lists as failed the rules with findings. *)
THEOREM TableAgrees == Spec => []RuleTableAgrees
<1>1. EngineInv => RuleTableAgrees
  BY DEF EngineInv, ResultInv, AgreesIn, RuleTableAgrees
<1> QED BY <1>1, EngineInductive, PTL

(* A setup-wide rule has reports in one result only, the first that lists  *)
(* it as run, however components and rules follow each other.              *)
THEOREM ReportsOnce == Spec => []SetupRuleReportsOnce
<1>1. EngineInv => SetupRuleReportsOnce
  <2> SUFFICES ASSUME EngineInv, NEW k \in DOMAIN RuleSeq, RuleSeq[k].once,
                      NEW j \in DOMAIN results, RuleSeq[k].id \in RanIn(j),
                      \/ \E d \in results[j].diags : d.rule = RuleSeq[k].id
                      \/ \E d \in results[j].suppressed : d.rule = RuleSeq[k].id,
                      NEW i \in DOMAIN results, RuleSeq[k].id \in RanIn(i)
               PROVE  j <= i
    BY DEF SetupRuleReportsOnce
  <2>1. k \in DOMAIN claims
    BY DEF EngineInv, Stage
  <2>2. claims[k] = j
    BY <2>1 DEF EngineInv, ResultInv, ClaimedIn, FoundIn
  <2>3. claims[k] \in 1 .. i
    BY <2>1 DEF EngineInv, ResultInv, ClaimedIn, RanIn
  <2>4. i \in Nat
    BY DEF EngineInv, TypeOK
  <2> QED BY <2>2, <2>3, <2>4
<1> QED BY <1>1, EngineInductive, PTL

(* What the directives of a file cover is a finding of no result of the    *)
(* component parsed from it.                                               *)
THEOREM DirectivesHonoured == Spec => []OwnDirectiveHonoured
<1>1. EngineInv => OwnDirectiveHonoured
  BY DEF EngineInv, ResultInv, HonouredIn, Covered, OwnDirectiveHonoured
<1> QED BY <1>1, EngineInductive, PTL

(* A component whose file is broken has an error of the parser, whatever   *)
(* the configuration, the directives and the rules.                        *)
THEOREM BrokenShown == Spec => []BrokenIsNotClean
<1>1. EngineInv => BrokenIsNotClean
  BY DEF EngineInv, ResultInv, ShownIn, BrokenIsNotClean
<1> QED BY <1>1, EngineInductive, PTL

-----------------------------------------------------------------------------
(* The hooks of a file.  A set of naturals has a least element: what the   *)
(* induction over the list of events rests on.                             *)
LEMMA LeastNat ==
    ASSUME NEW T \in SUBSET Nat, T # {}
    PROVE  \E m \in T : \A n \in T : m <= n
<1> DEFINE R == OpToRel(<, Nat)
<1>1. IsWellFoundedOn(R, Nat)
  BY NatLessThanWellFounded
<1> HIDE DEF R
<1>2. PICK m \in T : \A n \in T : ~(<<n, m>> \in R)
  BY <1>1, WFMin
<1>3. ASSUME NEW n \in T PROVE m <= n
  <2>1. ~(n < m)
    BY <1>2 DEF R, OpToRel
  <2> QED BY <2>1
<1> QED BY <1>3

(* What AllHooks builds, as an equation of the function it chooses.        *)
Joins(g, events, n) ==
    g = [k \in 0 .. n |-> IF k = 0 THEN <<>> ELSE g[k - 1] \o HooksUnder(events[k])]

(* The equation has a solution for every list.                             *)
LEMMA JoinExists ==
    ASSUME NEW n \in Nat, NEW events
    PROVE  \E g : Joins(g, events, n)
<1> DEFINE T == {m \in 0 .. n : ~\E g : Joins(g, events, m)}
<1> SUFFICES ASSUME T # {} PROVE FALSE
  OBVIOUS
<1>1. PICK m \in T : \A l \in T : m <= l
  <2>1. T \in SUBSET Nat
    OBVIOUS
  <2> HIDE DEF T
  <2> QED BY <2>1, LeastNat
<1>2. m # 0
  <2>1. Joins([k \in 0 .. 0 |-> <<>>], events, 0)
    BY DEF Joins
  <2> QED BY <2>1
<1>3. m \in 0 .. n /\ m - 1 \in 0 .. n /\ m - 1 \notin T
  BY <1>1, <1>2
<1>4. PICK g : Joins(g, events, m - 1)
  BY <1>3
<1> DEFINE h == [k \in 0 .. m |-> IF k = m THEN g[m - 1] \o HooksUnder(events[m]) ELSE g[k]]
<1>5. Joins(h, events, m)
  <2>1. ASSUME NEW k \in 0 .. m
        PROVE  h[k] = IF k = 0 THEN <<>> ELSE h[k - 1] \o HooksUnder(events[k])
    <3>1. CASE k = 0
      BY <1>2, <1>3, <1>4, <3>1 DEF Joins
    <3>2. CASE k = m
      <4>1. k - 1 \in 0 .. m /\ k - 1 # m /\ k # 0
        BY <1>2, <1>3, <3>2
      <4>2. h[k - 1] = g[m - 1]
        BY <4>1, <3>2
      <4>3. h[k] = g[m - 1] \o HooksUnder(events[m])
        BY <3>2
      <4> QED BY <4>1, <4>2, <4>3, <3>2
    <3>3. CASE k \notin {0, m}
      <4>1. k \in 0 .. m - 1 /\ k - 1 \in 0 .. m /\ k - 1 # m /\ k # m /\ k # 0
        BY <1>2, <1>3, <3>3
      <4>2. h[k] = g[k] /\ h[k - 1] = g[k - 1]
        BY <4>1
      <4>3. g[k] = g[k - 1] \o HooksUnder(events[k])
        BY <1>4, <4>1 DEF Joins
      <4> QED BY <4>1, <4>2, <4>3
    <3> QED BY <3>1, <3>2, <3>3
  <2> QED BY <2>1 DEF Joins
<1> QED BY <1>3, <1>5

(* A list, extended: what is in either part is in the whole.               *)
LEMMA Joined ==
    ASSUME NEW S, NEW s \in Seq(S), NEW t \in Seq(S)
    PROVE  /\ s \o t \in Seq(S)
           /\ \A i \in DOMAIN s : i \in DOMAIN (s \o t) /\ (s \o t)[i] = s[i]
           /\ \A i \in DOMAIN t : Len(s) + i \in DOMAIN (s \o t) /\ (s \o t)[Len(s) + i] = t[i]
<1>1. s \o t \in Seq(S) /\ Len(s) \in Nat /\ Len(t) \in Nat /\ Len(s \o t) = Len(s) + Len(t)
  OBVIOUS
<1>2. DOMAIN s = 1 .. Len(s) /\ DOMAIN t = 1 .. Len(t) /\ DOMAIN (s \o t) = 1 .. Len(s) + Len(t)
  BY <1>1
<1>3. ASSUME NEW i \in DOMAIN s
      PROVE  i \in DOMAIN (s \o t) /\ (s \o t)[i] = s[i]
  BY <1>1, <1>2
<1>4. ASSUME NEW i \in DOMAIN t
      PROVE  Len(s) + i \in DOMAIN (s \o t) /\ (s \o t)[Len(s) + i] = t[i]
  <2>1. i \in 1 .. Len(t) /\ Len(s) + i \in 1 .. Len(s) + Len(t) /\ ~(Len(s) + i <= Len(s))
    BY <1>1, <1>2
  <2> QED BY <1>1, <1>2, <2>1
<1> QED BY <1>1, <1>3, <1>4

(* Every hook of every event is among them.                                *)
LEMMA AllHooksHolds ==
    ASSUME NEW events, NEW S, Len(events) \in Nat,
           \A k \in 1 .. Len(events) : HooksUnder(events[k]) \in Seq(S)
    PROVE  \A k \in 1 .. Len(events) : \A i \in DOMAIN HooksUnder(events[k]) :
              \E h \in DOMAIN AllHooks(events) : AllHooks(events)[h] = HooksUnder(events[k])[i]
<1> DEFINE n == Len(events)
           f == CHOOSE g : Joins(g, events, n)
           u(k) == HooksUnder(events[k])
<1>1. Joins(f, events, n)
  BY JoinExists
<1>2. AllHooks(events) = f[n]
  BY DEF AllHooks, Joins
<1>3. n \in Nat /\ \A k \in 1 .. n : u(k) \in Seq(S)
  OBVIOUS
<1> HIDE DEF f, n
<1>4. f[0] = <<>> /\ \A k \in 1 .. n : f[k] = f[k - 1] \o u(k)
  BY <1>1, <1>3 DEF Joins
<1> HIDE DEF u
<1> DEFINE Has(m) ==
       /\ f[m] \in Seq(S)
       /\ \A k \in 1 .. m : \A i \in DOMAIN u(k) : \E h \in DOMAIN f[m] : f[m][h] = u(k)[i]
           T == {m \in 0 .. n : ~Has(m)}
<1>5. Has(0)
  BY <1>4
<1>6. ASSUME NEW m \in 1 .. n, Has(m - 1)
      PROVE  Has(m)
  <2>1. f[m - 1] \in Seq(S) /\ u(m) \in Seq(S) /\ f[m] = f[m - 1] \o u(m)
    BY <1>3, <1>4, <1>6
  <2>2. /\ f[m] \in Seq(S)
        /\ \A i \in DOMAIN f[m - 1] : i \in DOMAIN f[m] /\ f[m][i] = f[m - 1][i]
        /\ \A i \in DOMAIN u(m) : Len(f[m - 1]) + i \in DOMAIN f[m] /\ f[m][Len(f[m - 1]) + i] = u(m)[i]
    BY <2>1, Joined, SMTT(30)
  <2>3. ASSUME NEW k \in 1 .. m, NEW i \in DOMAIN u(k)
        PROVE  \E h \in DOMAIN f[m] : f[m][h] = u(k)[i]
    <3>1. CASE k = m
      BY <2>2, <3>1
    <3>2. CASE k # m
      <4>1. k \in 1 .. m - 1
        BY <1>3, <3>2
      <4>2. PICK h \in DOMAIN f[m - 1] : f[m - 1][h] = u(k)[i]
        BY <1>6, <4>1
      <4> QED BY <2>2, <4>2
    <3> QED BY <3>1, <3>2
  <2> QED BY <2>2, <2>3
<1> HIDE DEF Has
<1>7. T = {}
  <2> SUFFICES ASSUME T # {} PROVE FALSE
    OBVIOUS
  <2>1. PICK m \in T : \A l \in T : m <= l
    <3>1. T \in SUBSET Nat
      BY <1>3
    <3> HIDE DEF T
    <3> QED BY <3>1, LeastNat
  <2>2. m \in 0 .. n /\ ~Has(m)
    BY <2>1
  <2>3. m \in 1 .. n /\ m - 1 \in 0 .. n /\ ~(m <= m - 1)
    BY <1>3, <1>5, <2>2
  <2>4. Has(m - 1)
    BY <2>1, <2>3
  <2> QED BY <1>6, <2>2, <2>3, <2>4
<1>8. Has(n)
  BY <1>3, <1>7
<1>9. \A k \in 1 .. n : \A i \in DOMAIN u(k) : \E h \in DOMAIN f[n] : f[n][h] = u(k)[i]
  BY <1>8 DEF Has
<1>10. \A k \in 1 .. n : u(k) = HooksUnder(events[k])
  BY DEF u
<1>11. AllHooks(events) = f[n] /\ n = Len(events)
  BY <1>2 DEF n
<1> HIDE DEF n, u, Has
<1>12. ASSUME NEW k \in 1 .. Len(events), NEW i \in DOMAIN HooksUnder(events[k])
       PROVE  \E h \in DOMAIN AllHooks(events) : AllHooks(events)[h] = HooksUnder(events[k])[i]
  <2>1. k \in 1 .. n /\ i \in DOMAIN u(k) /\ u(k)[i] = HooksUnder(events[k])[i]
    BY <1>10, <1>11
  <2>2. PICK h \in DOMAIN f[n] : f[n][h] = u(k)[i]
    BY <1>9, <2>1
  <2> QED BY <1>11, <2>1, <2>2
<1> QED BY <1>12

(* A handler that has a command under any of the known keys, and no blank  *)
(* one that stands for the others, hands over one of its own; any other    *)
(* hands over nothing.                                                     *)
LEMMA NormaliseTakesOne ==
    ASSUME NEW h, IsHandler(h), ~HasBlank(h)
    PROVE  /\ CommandsOf(h) = {} => NormaliseHookEntry(h) = NoText
           /\ CommandsOf(h) # {} => NormaliseHookEntry(h) \in CommandsOf(h) /\ NormaliseHookEntry(h) # NoText
<1> DEFINE present == {i \in 1 .. 4 : Stands(h, Keys[i])}
           first == CHOOSE i \in present : \A j \in present : i <= j
<1>1. NormaliseHookEntry(h) = IF present = {} THEN NoText ELSE h[Keys[first]]
  BY DEF NormaliseHookEntry
<1>0. Keys[1] = "command" /\ Keys[2] = "bash" /\ Keys[3] = "powershell" /\ Keys[4] = "exec"
  BY DEF Keys
<1>2. ASSUME NEW i \in present
      PROVE  Keys[i] \in DOMAIN h /\ h[Keys[i]] \in CommandsOf(h) /\ h[Keys[i]] # NoText
  <2>1. Keys[i] \in DOMAIN h /\ (Keys[i] \in {"bash", "powershell"} => h[Keys[i]] # Blank)
    BY DEF Stands
  <2>2. Keys[i] \in {"command", "exec"} \/ Keys[i] \in {"bash", "powershell"}
    BY <1>0
  <2>3. h[Keys[i]] # Blank
    BY <2>1, <2>2 DEF HasBlank
  <2> QED BY <2>1, <2>3 DEF CommandsOf, IsHandler
<1>3. ASSUME CommandsOf(h) # {}
      PROVE  present # {}
  <2>1. PICK k \in DOMAIN h : h[k] # Blank
    BY <1>3 DEF CommandsOf
  <2>2. PICK i \in 1 .. 4 : Keys[i] = k
    BY DEF IsHandler
  <2> QED BY <2>1, <2>2 DEF Stands
<1>4. ASSUME present # {}
      PROVE  first \in present
  <2>1. present \in SUBSET Nat
    OBVIOUS
  <2> HIDE DEF present
  <2>2. \E m \in present : \A l \in present : m <= l
    BY <1>4, <2>1, LeastNat
  <2> QED BY <2>2
<1> HIDE DEF present, first
<1>5. CommandsOf(h) = {} => present = {}
  BY <1>2
<1> QED BY <1>1, <1>2, <1>3, <1>4, <1>5

(* Of every handler of an entry that has a command, one is in its hooks.   *)
LEMMA HooksOfShows ==
    ASSUME NEW e, IsEntry(e), NEW h \in HandlersOf(e) \ {{}}
    PROVE  \E i \in DOMAIN HooksOf(e) : HooksOf(e)[i] \in h
<1>0. ~HasBlank(e.handler)
  BY DEF HandlersOf
<1>1. CASE e.string
  <2>1. h = CommandsOf(e.handler) /\ HooksOf(e) = <<e.handler["command"]>>
    BY <1>0, <1>1 DEF HandlersOf, HooksOf
  <2>2. "command" \in DOMAIN e.handler /\ e.handler["command"] # Blank
    BY <1>0, <1>1 DEF IsEntry, HasBlank
  <2>3. HooksOf(e)[1] \in h /\ 1 \in DOMAIN HooksOf(e)
    BY <2>1, <2>2 DEF CommandsOf
  <2> QED BY <2>3
<1>2. CASE ~e.string /\ e.nested = <<>>
  <2>1. h = CommandsOf(e.handler) /\ HooksOf(e) = <<NormaliseHookEntry(e.handler)>>
    BY <1>0, <1>2 DEF HandlersOf, HooksOf
  <2>2. CommandsOf(e.handler) # {} /\ IsHandler(e.handler)
    BY <2>1 DEF IsEntry
  <2>3. NormaliseHookEntry(e.handler) \in CommandsOf(e.handler)
    BY <1>0, <2>2, NormaliseTakesOne
  <2>4. HooksOf(e)[1] \in h /\ 1 \in DOMAIN HooksOf(e)
    BY <2>1, <2>3
  <2> QED BY <2>4
<1>3. CASE ~e.string /\ e.nested # <<>>
  <2> DEFINE own == IF "command" \in DOMAIN e.handler THEN e.handler["command"] ELSE NoText
             sub(k) == e.nested[k]
             merged(k) ==
                 IF sub(k).string THEN IF own = NoText THEN sub(k).handler["command"] ELSE own
                 ELSE IF NormaliseHookEntry(sub(k).handler) = NoText THEN own
                 ELSE NormaliseHookEntry(sub(k).handler)
  <2>1. HooksOf(e) = [k \in DOMAIN e.nested |-> merged(k)]
    BY <1>3 DEF HooksOf
  <2>2. PICK k \in DOMAIN e.nested :
           h = CommandsOf(sub(k).handler)
                 \cup (IF "command" \in DOMAIN e.handler THEN {e.handler["command"]} ELSE {})
           /\ ~HasBlank(sub(k).handler)
    BY <1>0, <1>3 DEF HandlersOf
  <2>3. /\ IsHandler(sub(k).handler) /\ IsHandler(e.handler)
        /\ sub(k).string => "command" \in DOMAIN sub(k).handler /\ sub(k).handler["command"] # Blank
    BY <2>2 DEF IsEntry, HasBlank
  <2>4. own # NoText => own \in h
    BY <2>2
  <2>5. own = NoText => "command" \notin DOMAIN e.handler
    BY <2>3 DEF IsHandler
  <2> HIDE DEF own, sub
  <2>6. merged(k) \in h
    <3>1. CASE sub(k).string
      <4>1. sub(k).handler["command"] \in h
        BY <2>2, <2>3, <3>1 DEF CommandsOf
      <4> QED BY <2>4, <3>1, <4>1
    <3>2. CASE ~sub(k).string /\ NormaliseHookEntry(sub(k).handler) = NoText
      <4>1. CommandsOf(sub(k).handler) = {}
        BY <2>2, <2>3, <3>2, NormaliseTakesOne
      <4>2. own # NoText
        BY <2>2, <2>5, <4>1
      <4> QED BY <2>4, <3>2, <4>2
    <3>3. CASE ~sub(k).string /\ NormaliseHookEntry(sub(k).handler) # NoText
      <4>1. NormaliseHookEntry(sub(k).handler) \in CommandsOf(sub(k).handler)
        BY <2>2, <2>3, <3>3, NormaliseTakesOne
      <4> QED BY <2>2, <3>3, <4>1
    <3> QED BY <3>1, <3>2, <3>3
  <2> HIDE DEF merged
  <2>7. k \in DOMAIN HooksOf(e) /\ HooksOf(e)[k] \in h
    BY <2>1, <2>6
  <2> QED BY <2>7
<1> QED BY <1>1, <1>2, <1>3

(* The hooks under an event form a list.                                   *)
LEMMA HooksUnderList ==
    ASSUME NEW event, event.list => IsEntry(event.entry)
    PROVE  LET u == HooksUnder(event) IN u \in Seq({u[i] : i \in DOMAIN u})
<1> DEFINE e == event.entry
           u == HooksUnder(event)
<1>1. CASE ~event.list
  BY <1>1 DEF HooksUnder
<1>2. CASE event.list /\ (e.string \/ e.nested = <<>>)
  <2>1. \E x : u = <<x>>
    BY <1>2 DEF HooksUnder, HooksOf
  <2> QED BY <2>1
<1>3. CASE event.list /\ ~(e.string \/ e.nested = <<>>)
  <2>1. Len(e.nested) \in Nat /\ DOMAIN e.nested = 1 .. Len(e.nested)
    BY <1>3 DEF IsEntry
  <2>2. DOMAIN u = DOMAIN e.nested /\ u = [k \in DOMAIN u |-> u[k]]
    BY <1>3 DEF HooksUnder, HooksOf
  <2> HIDE DEF u
  <2>3. u = [k \in 1 .. Len(e.nested) |-> u[k]]
    BY <2>1, <2>2
  <2> DEFINE S == {u[i] : i \in DOMAIN u}
  <2>4. \A k \in 1 .. Len(e.nested) : u[k] \in S
    BY <2>1, <2>2
  <2> HIDE DEF S
  <2>5. u \in [1 .. Len(e.nested) -> S]
    BY <2>3, <2>4
  <2> QED BY <2>1, <2>5 DEF S, u
<1> QED BY <1>1, <1>2, <1>3

(* parse_hooks: every handler that has a command is among the hooks.       *)
LEMMA HooksShown ==
    ASSUME NEW c, NEW f, c.type = "hooks", f.form = "mapping", HoldsWhatItMay(c, f),
           NEW k \in DOMAIN f.events, f.events[k].list,
           NEW h \in HandlersOf(f.events[k].entry) \ {{}}
    PROVE  \E i \in DOMAIN Parse(c, f).hooks : Parse(c, f).hooks[i] \in h
<1> DEFINE events == f.events
           S == UNION {{HooksUnder(events[m])[i] : i \in DOMAIN HooksUnder(events[m])} :
                       m \in 1 .. Len(events)}
<1>1. /\ Len(events) \in Nat /\ DOMAIN events = 1 .. Len(events)
      /\ \A m \in DOMAIN events : events[m].list => IsEntry(events[m].entry)
  BY DEF HoldsWhatItMay
<1>2. Parse(c, f).hooks = AllHooks(events)
  BY DEF Parse, ParseHooks, Readable, View
<1>3. ASSUME NEW m \in 1 .. Len(events)
      PROVE  HooksUnder(events[m]) \in Seq(S)
  <2> DEFINE u == HooksUnder(events[m])
             R == {u[i] : i \in DOMAIN u}
  <2>1. u \in Seq(R)
    BY <1>1, HooksUnderList
  <2>2. R \subseteq S
    OBVIOUS
  <2> HIDE DEF u, R, S
  <2>3. u \in Seq(S)
    BY <2>1, <2>2
  <2> QED BY <2>3 DEF u
<1> HIDE DEF S
<1>4. k \in 1 .. Len(events) /\ IsEntry(events[k].entry) /\ HooksUnder(events[k]) = HooksOf(events[k].entry)
  BY <1>1 DEF HooksUnder
<1>5. PICK i \in DOMAIN HooksUnder(events[k]) : HooksUnder(events[k])[i] \in h
  <2>1. \E i \in DOMAIN HooksOf(events[k].entry) : HooksOf(events[k].entry)[i] \in h
    BY <1>4, HooksOfShows
  <2> QED BY <1>4, <2>1
<1>6. PICK l \in DOMAIN AllHooks(events) : AllHooks(events)[l] = HooksUnder(events[k])[i]
  <2>1. Len(events) \in Nat /\ \A m \in 1 .. Len(events) : HooksUnder(events[m]) \in Seq(S)
    BY <1>1, <1>3
  <2>2. \A m \in 1 .. Len(events) : \A x \in DOMAIN HooksUnder(events[m]) :
           \E y \in DOMAIN AllHooks(events) : AllHooks(events)[y] = HooksUnder(events[m])[x]
    BY <2>1, AllHooksHolds, ZenonT(30)
  <2> QED BY <1>4, <1>5, <2>2, Zenon
<1> QED BY <1>2, <1>5, <1>6

(* parse_agent: what is disallowed, either way, is denied.                 *)
LEMMA DeniedShown ==
    ASSUME NEW c, NEW f, c.type = "agent", f.form = "mapping"
    PROVE  f.disallowed \cup {t \in DOMAIN f.tools : ~f.tools[t]} \subseteq Parse(c, f).denied
BY DEF Parse, ParseAgent, ReadAndParse, View

(* _parse_toml_command: a prompt under any accepted spelling is found.     *)
LEMMA PromptShown ==
    ASSUME NEW c, NEW f, c.type = "command", c.toml, f.form = "mapping", HoldsWhatItMay(c, f)
    PROVE  Parse(c, f).prompt = NoText
             <=> \A key \in DOMAIN f.top \cup DOMAIN f.table : TomlField(f, key) = Blank
<1> DEFINE P == TomlField(f, "prompt")
           T == TomlField(f, "template")
           All == \A key \in DOMAIN f.top \cup DOMAIN f.table : TomlField(f, key) = Blank
<1>1. Parse(c, f).prompt = IF P \notin {NoText, Blank} THEN P ELSE IF T # Blank THEN T ELSE NoText
  BY DEF Parse, ParseCommand, ParseToml, Readable, View
<1>2. \A t \in {f.top, f.table} :
         DOMAIN t \subseteq {"prompt", "template"} /\ \A k \in DOMAIN t : t[k] # NoText
  BY DEF HoldsWhatItMay
<1>3. \A key : (TomlField(f, key) = NoText) <=> key \notin DOMAIN f.top \cup DOMAIN f.table
  BY <1>2 DEF TomlField
<1>4. All <=> P \in {NoText, Blank} /\ T \in {NoText, Blank}
  BY <1>2, <1>3
<1> HIDE DEF P, T, All
<1>5. (Parse(c, f).prompt = NoText) <=> P \in {NoText, Blank} /\ T \in {NoText, Blank}
  BY <1>1, ParserConstants
<1> QED BY <1>4, <1>5 DEF All

(* What a file configures is in the view the rules look at: a command of   *)
(* every hook handler, the tools an agent is denied, a command's prompt.   *)
THEOREM ViewsShow == Spec => []ViewsShowWhatRuns
<1>1. ASSUME EngineInv
      PROVE  ViewsShowWhatRuns
  <2>1. parsed \in {<<>>, Views} /\ content \in Contents
    BY <1>1 DEF EngineInv, Stage, TypeOK
  <2>2. CASE parsed = <<>>
    BY <2>2 DEF ViewsShowWhatRuns
  <2>3. ASSUME parsed = Views, NEW j \in DOMAIN parsed, content[j].form = "mapping"
        PROVE  LET c == Queue[j]
                   f == content[j]
                   v == parsed[j]
               IN  /\ c.type = "hooks" =>
                         \A k \in DOMAIN f.events : f.events[k].list =>
                             \A h \in HandlersOf(f.events[k].entry) \ {{}} :
                                 \E i \in DOMAIN v.hooks : v.hooks[i] \in h
                   /\ c.type = "agent" =>
                         f.disallowed \cup {t \in DOMAIN f.tools : ~f.tools[t]} \subseteq v.denied
                   /\ c.toml =>
                         (v.prompt = NoText
                           <=> \A key \in DOMAIN f.top \cup DOMAIN f.table : TomlField(f, key) = Blank)
    <3>1. j \in DOMAIN Queue /\ parsed[j] = Parse(Queue[j], content[j])
      BY <2>3 DEF Views, Parsable
    <3>2. HoldsWhatItMay(Queue[j], content[j]) /\ (Queue[j].toml => Queue[j].type = "command")
      BY <2>1, <3>1, EngineConstants
    <3>3. ASSUME Queue[j].type = "hooks"
          PROVE  \A k \in DOMAIN content[j].events : content[j].events[k].list =>
                    \A h \in HandlersOf(content[j].events[k].entry) \ {{}} :
                       \E i \in DOMAIN parsed[j].hooks : parsed[j].hooks[i] \in h
      BY <2>3, <3>1, <3>2, <3>3, HooksShown
    <3>4. ASSUME Queue[j].type = "agent"
          PROVE  content[j].disallowed \cup {t \in DOMAIN content[j].tools : ~content[j].tools[t]}
                    \subseteq parsed[j].denied
      BY <2>3, <3>1, <3>4, DeniedShown
    <3>5. ASSUME Queue[j].toml
          PROVE  parsed[j].prompt = NoText
                   <=> \A key \in DOMAIN content[j].top \cup DOMAIN content[j].table :
                          TomlField(content[j], key) = Blank
      <4>1. Queue[j].type = "command" /\ Queue[j].toml /\ content[j].form = "mapping"
        BY <2>3, <3>2, <3>5
      <4>2. Parse(Queue[j], content[j]).prompt = NoText
              <=> \A key \in DOMAIN content[j].top \cup DOMAIN content[j].table :
                     TomlField(content[j], key) = Blank
        BY <3>2, <4>1, PromptShown, Zenon
      <4> QED BY <3>1, <4>2, Zenon
    <3> QED BY <3>3, <3>4, <3>5
  <2> QED BY <2>1, <2>2, <2>3 DEF ViewsShowWhatRuns
<1> QED BY <1>1, EngineInductive, PTL

=============================================================================
