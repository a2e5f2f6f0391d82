----------------------------- MODULE RuleEngine -----------------------------
(***************************************************************************)
(* One scan of a setup by the rule engine (inspection/engine.py): all      *)
(* components are parsed (Parsers), then linted one after the other; every *)
(* rule of the scan's catalog that applies runs on each, what a rule       *)
(* reports is suppressed or becomes a diagnostic, and setup-wide rules     *)
(* claim a flag in the shared ScanArtifacts so that they run once.  What a *)
(* rule looks for is its own business: `Descriptors` holds everything a    *)
(* rule may report.                                                        *)
(***************************************************************************)
EXTENDS Parsers

CONSTANTS
    Queue,        \* components in the order _inspect_setup lints them
    RuleSeq,      \* rules in catalog order
    RuleIds,      \* identifiers a configuration or a directive can name
    Files,
    Descriptors,  \* what rules can hand to their report callback
    Configs,      \* rule settings a command can run with
    Directives,   \* suppression comments the files can hold
    Contents,     \* what the components' files can be when they are read
    Reachable,    \* files a trigger reaches (GraphReach)
    AllLines,     \* a file-wide directive
    NoLine,       \* a report without a line
    NoSuchFile    \* <path>/SKILL.md below a path that is gone

Severities == {"info", "warning", "error"}

TextTypes == {"rule", "output_style", "uncategorized"}
Component ==
    [type : TextTypes \cup {"skill", "command", "claude_md", "hooks", "agent", "mcp",
                            "config", "harness"},
     file : Files, subs : SUBSET Files, tool : STRING, toml : BOOLEAN]
Rule ==
    [id : RuleIds, targets : SUBSET STRING, tools : SUBSET STRING,
     once : BOOLEAN,       \* setup-wide: claims a flag of the scan state
     custom : BOOLEAN,     \* from a YAML file
     textSafe : BOOLEAN,   \* one of _SECURITY_ONLY_RULES
     annotated : BOOLEAN,  \* category security or cross_component
     default : Severities]
Descriptor ==
    [rule : RuleIds, file : Files, line : Nat \cup {NoLine},
     override : Severities \cup {"none"}, downgrade : BOOLEAN]
Settings == Severities \cup {"off", "unset"}

ASSUME EngineConstants ==
    /\ Queue \in Seq(Component)
    /\ \A j \in DOMAIN Queue : Queue[j].toml => Queue[j].type = "command"
    /\ RuleSeq \in Seq(Rule)
    /\ \A j, k \in DOMAIN RuleSeq : RuleSeq[j].id = RuleSeq[k].id => j = k
    /\ \A k \in DOMAIN RuleSeq : RuleSeq[k].once => RuleSeq[k].id # "parser"  \* built in
    /\ Descriptors \subseteq Descriptor
    /\ Configs \subseteq [RuleIds -> Settings]
    /\ Directives \subseteq [Files -> SUBSET (RuleIds \X (Nat \cup {AllLines}))]
    /\ \A f \in Contents : /\ DOMAIN f = DOMAIN Queue
                           /\ \A j \in DOMAIN f : f[j].form \in Forms /\ HoldsWhatItMay(Queue[j], f[j])
    /\ NoLine \notin Nat /\ AllLines \notin Nat /\ NoLine # AllLines

VARIABLES
    pc,          \* "parse", "next" component, its "rules", "done", "crashed"
    cfg,         \* config_rules
    dirs,        \* the suppression comments in the files
    content,     \* what the components' files are
    parsed,      \* ParsedSetup: a view of every component but text files
    ci,          \* component being linted
    ri,          \* next rule of the catalog
    diags,       \* findings of this component so far
    suppressed,  \* reports of this component that a directive silenced
    ran,         \* rules_run of this component
    claims,      \* scan state: setup-wide rule -> component that claimed it
    results      \* InspectionResults of the components already linted

vars == <<pc, cfg, dirs, content, parsed, ci, ri, diags, suppressed, ran, claims, results>>

Comp == Queue[ci]
CurrentRule == RuleSeq[ri]
IsText(c) == c.type \in TextTypes

-----------------------------------------------------------------------------
(* Rule selection *)

Empty(c) == \A r \in RuleIds : c[r] = "unset"

(***************************************************************************)
(* lint_text_file narrows the configuration to the security-only rules: an *)
(* unlisted one is off, and without a configuration all of them warn.      *)
(***************************************************************************)
ConfigFor(c) ==
    IF ~IsText(c) THEN cfg
    ELSE [r \in RuleIds |->
            IF \A k \in DOMAIN RuleSeq : RuleSeq[k].id = r => ~RuleSeq[k].textSafe
            THEN "unset"
            ELSE IF Empty(cfg) THEN "warning"
            ELSE IF cfg[r] = "unset" THEN "off" ELSE cfg[r]]

(* _resolve_severity returns None. *)
Silenced(r, c) ==
    \/ c[r.id] = "off"
    \/ c[r.id] = "unset" /\ ~Empty(c) /\ ~r.custom

SeverityFor(r, c) == IF c[r.id] = "unset" THEN r.default ELSE c[r.id]

(* Text files are linted as if they were skills. *)
TargetOf(c) == IF IsText(c) THEN "skill" ELSE c.type

(* A skill or command that lies outside the directories of a client.      *)
NoTool == ""

Selected(r, c) ==
    /\ TargetOf(c) \in r.targets
    /\ r.tools = {} \/ c.tool = NoTool \/ c.tool \in r.tools
    /\ ~Silenced(r, ConfigFor(c))

-----------------------------------------------------------------------------
(* Suppression *)

(* Mutant of IsSuppressed: file-wide directives need a line to act on. *)
IsSuppressedOnLine(sups, rule, line) ==
    line # NoLine /\ (<<rule, AllLines>> \in sups \/ <<rule, line>> \in sups)

(* is_suppressed *)
IsSuppressed(sups, rule, line) ==
    \/ <<rule, AllLines>> \in sups
    \/ line # NoLine /\ <<rule, line>> \in sups

(***************************************************************************)
(* The directives a report of component c at file f is held against: those *)
(* of the component's own file, and those of a sub-file of a skill if that *)
(* sub-file has any; every other file falls back to the component's own.   *)
(***************************************************************************)
DirectivesFor(c, f) ==
    IF f \in c.subs /\ dirs[f] # {} THEN dirs[f] ELSE dirs[c.file]

(* The severity a report ends up with: the configuration overrides the     *)
(* rule's own choice except for info and contextual downgrades.            *)
SeverityOf(r, c, d) ==
    IF \/ d.override = "none"
       \/ c[r.id] # "unset" /\ d.override # "info" /\ ~d.downgrade
    THEN SeverityFor(r, c)
    ELSE d.override

(* The components whose parsed views a lint function passes to the rules.  *)
Given(type) ==
    CASE type \in {"skill", "command", "config"} -> {"skill", "command"}
      [] type \in {"claude_md", "agent"} -> {"skill"}
      [] OTHER -> {}

(* What rule r may report while component c is linted: a setup-wide rule   *)
(* looks at all components it is given, any other at the files of this one.*)
MayReport(r, c) ==
    {d \in Descriptors :
        /\ d.rule = r.id
        /\ \/ d.file \in {c.file} \cup c.subs
           \/ /\ r.once
              /\ \E j \in DOMAIN Queue : /\ Queue[j].type \in Given(c.type)
                                        /\ d.file \in {Queue[j].file} \cup Queue[j].subs}

-----------------------------------------------------------------------------
Init ==
    /\ pc = "parse"
    /\ cfg \in Configs
    /\ content \in Contents
    /\ dirs \in Directives
    /\ \A j \in DOMAIN Queue :   \* only a file with text holds directives
          content[j].form \in {"gone", "empty"} => dirs[Queue[j].file] = {}
    /\ parsed = <<>>
    /\ ci = 1 /\ ri = 1
    /\ diags = {} /\ suppressed = {} /\ ran = <<>>
    /\ claims = [k \in {k \in DOMAIN RuleSeq : RuleSeq[k].once} |-> 0]
    /\ results = <<>>

inputs == <<cfg, dirs, content, parsed>>

Parsable == {j \in DOMAIN Queue : ~IsText(Queue[j])}

ParseSetup ==
    /\ pc = "parse"
    /\ \A j \in Parsable : ~Raises(Queue[j], content[j])
    /\ parsed' = [j \in Parsable |-> Parse(Queue[j], content[j])]
    /\ pc' = "next"
    /\ UNCHANGED <<cfg, dirs, content, ci, ri, diags, suppressed, ran, claims, results>>

(* A parser raises: no component has a result. *)
ParseRaises ==
    /\ pc = "parse"
    /\ \E j \in Parsable : Raises(Queue[j], content[j])
    /\ pc' = "crashed"
    /\ UNCHANGED <<inputs, ci, ri, diags, suppressed, ran, claims, results>>

ParserFinding(f) ==
    [rule |-> "parser", file |-> f, line |-> NoLine, sev |-> "error", reach |-> "none"]

Result(ds, sup, rr) == [diags |-> ds, suppressed |-> sup, ran |-> rr]

Turn(types) == pc = "next" /\ ci <= Len(Queue) /\ Comp.type \in types

(* The early returns: no findings, not even those the parser recorded. *)
EmptyResult ==
    /\ results' = Append(results, Result({}, {}, <<>>))
    /\ ci' = ci + 1
    /\ UNCHANGED <<pc, inputs, ri, diags, suppressed, ran, claims>>

(* Mutant of StartRules: the scan state is created anew for each component. *)
StartRulesFreshState(ds) ==
    /\ diags' = ds
    /\ suppressed' = {} /\ ran' = <<>> /\ ri' = 1
    /\ claims' = [k \in DOMAIN claims |-> 0]
    /\ pc' = "rules"
    /\ UNCHANGED <<inputs, ci, results>>

(* Up to the loop of _run_rules, with ds as the first diagnostics. *)
StartRules(ds) ==
    /\ diags' = ds
    /\ suppressed' = {} /\ ran' = <<>> /\ ri' = 1
    /\ pc' = "rules"
    /\ UNCHANGED <<inputs, ci, claims, results>>

ParseErrors == {ParserFinding(Comp.file) : e \in parsed[ci].errors}

(* Skills and commands place the error of a missing path below that path. *)
ParseErrorsBelow ==
    IF parsed[ci].below THEN {ParserFinding(NoSuchFile) : e \in parsed[ci].errors}
    ELSE ParseErrors

LintSkill == Turn({"skill"}) /\ StartRules(ParseErrorsBelow)
LintCommand == Turn({"command"}) /\ StartRules(ParseErrorsBelow)
LintClaudeMd == Turn({"claude_md"}) /\ StartRules(ParseErrors)
LintHooks == Turn({"hooks"}) /\ StartRules(ParseErrors)
LintAgent == Turn({"agent"}) /\ StartRules(ParseErrors)
LintConfig == Turn({"config"}) /\ StartRules(ParseErrors)
LintHarness == Turn({"harness"}) /\ StartRules(ParseErrors)

(* An MCP file that is gone counts as clean. *)
LintMcpConfig ==
    /\ Turn({"mcp"})
    /\ IF ~parsed[ci].raw /\ parsed[ci].errors # {} THEN EmptyResult ELSE StartRules({})

(* Text files are read now, and not parsed. *)
LintTextFile ==
    /\ Turn(TextTypes) /\ content[ci].form # "locked"
    /\ IF content[ci].form = "gone" THEN EmptyResult ELSE StartRules({})

SkipRule ==
    /\ pc = "rules" /\ ri <= Len(RuleSeq)
    /\ ~Selected(CurrentRule, Comp)
    /\ ri' = ri + 1
    /\ UNCHANGED <<pc, inputs, ci, diags, suppressed, ran, claims, results>>

(* Mutant of ReportAll: a rule whose reports were all silenced has failed. *)
ReportAllSilencedFails(ds) ==
    LET hushed == {d \in ds : IsSuppressed(DirectivesFor(Comp, d.file), d.rule, d.line)}
        finding(d) ==
            [rule |-> d.rule, file |-> d.file, line |-> d.line, reach |-> "none",
             sev |-> SeverityOf(CurrentRule, ConfigFor(Comp), d)]
    IN /\ suppressed' = suppressed \cup hushed
       /\ diags' = diags \cup {finding(d) : d \in ds \ hushed}
       /\ ran' = Append(ran, [rule |-> CurrentRule.id, passed |-> ds = {}])

(* The report callback applied to everything the rule reported. *)
ReportAll(ds) ==
    LET hushed == {d \in ds : IsSuppressed(DirectivesFor(Comp, d.file), d.rule, d.line)}
        finding(d) ==
            [rule |-> d.rule, file |-> d.file, line |-> d.line, reach |-> "none",
             sev |-> SeverityOf(CurrentRule, ConfigFor(Comp), d)]
    IN /\ suppressed' = suppressed \cup hushed
       /\ diags' = diags \cup {finding(d) : d \in ds \ hushed}
       /\ ran' = Append(ran, [rule |-> CurrentRule.id, passed |-> ds \subseteq hushed])

RunRule ==
    /\ pc = "rules" /\ ri <= Len(RuleSeq)
    /\ Selected(CurrentRule, Comp)
    /\ ri \in DOMAIN claims => claims[ri] = 0
    /\ claims' = IF ri \in DOMAIN claims THEN [claims EXCEPT ![ri] = ci] ELSE claims
    /\ \E ds \in SUBSET MayReport(CurrentRule, Comp) : ReportAll(ds)
    /\ ri' = ri + 1
    /\ UNCHANGED <<pc, inputs, ci, results>>

(* A setup-wide rule whose flag is set returns at once and counts as run. *)
RunClaimedRule ==
    /\ pc = "rules" /\ ri <= Len(RuleSeq)
    /\ Selected(CurrentRule, Comp)
    /\ ri \in DOMAIN claims /\ claims[ri] # 0
    /\ ReportAll({})
    /\ ri' = ri + 1
    /\ UNCHANGED <<pc, inputs, ci, claims, results>>

(* create raises, or a text file cannot be read: nothing catches it, and   *)
(* the results so far are lost.                                            *)
RuleRaises ==
    /\ \/ pc = "rules" /\ ri <= Len(RuleSeq) /\ Selected(CurrentRule, Comp)
       \/ Turn(TextTypes) /\ content[ci].form = "locked"
    /\ results' = <<>>
    /\ pc' = "crashed"
    /\ UNCHANGED <<inputs, ci, ri, diags, suppressed, ran, claims>>

FinishComponent ==
    /\ pc = "rules" /\ ri > Len(RuleSeq)
    /\ results' = Append(results, Result(diags, suppressed, ran))
    /\ ci' = ci + 1
    /\ pc' = "next"
    /\ UNCHANGED <<inputs, ri, diags, suppressed, ran, claims>>

AnnotatedIds == {RuleSeq[k].id : k \in {k \in DOMAIN RuleSeq : RuleSeq[k].annotated}}

(* The closing pass: security findings get the reachability of their file. *)
Annotate ==
    /\ pc = "next" /\ ci > Len(Queue)
    /\ results' =
         [j \in DOMAIN results |->
            [results[j] EXCEPT !.diags =
               {IF d.rule \in AnnotatedIds
                THEN [d EXCEPT !.reach = IF d.file \in Reachable THEN "reachable"
                                                                ELSE "unreachable"]
                ELSE d : d \in @}]]
    /\ pc' = "done"
    /\ UNCHANGED <<inputs, ci, ri, diags, suppressed, ran, claims>>

Next ==
    \/ ParseSetup \/ ParseRaises
    \/ LintSkill \/ LintCommand \/ LintClaudeMd \/ LintHooks \/ LintAgent
    \/ LintMcpConfig \/ LintConfig \/ LintHarness \/ LintTextFile
    \/ SkipRule \/ RunRule \/ RunClaimedRule
    \/ RuleRaises \/ FinishComponent \/ Annotate

Spec == Init /\ [][Next]_vars

-----------------------------------------------------------------------------
(* Properties *)

FindingRec ==
    [rule : RuleIds \cup {"parser"}, file : Files \cup {NoSuchFile}, line : Nat \cup {NoLine},
     sev : Severities, reach : {"none", "reachable", "unreachable"}]

(* Every variable keeps its type: a diagnostic has a severity other than    *)
(* "off" and lies in a file of the setup.                                  *)
TypeOK ==
    /\ pc \in {"parse", "next", "rules", "done", "crashed"}
    /\ cfg \in [RuleIds -> Settings]
    /\ dirs \in [Files -> SUBSET (RuleIds \X (Nat \cup {AllLines}))]
    /\ content \in Contents
    /\ DOMAIN parsed \in {{}, Parsable}
    /\ ci \in 1 .. Len(Queue) + 1
    /\ ri \in 1 .. Len(RuleSeq) + 1
    /\ diags \subseteq FindingRec
    /\ suppressed \subseteq Descriptors
    /\ ran \in Seq([rule : RuleIds, passed : BOOLEAN])
    /\ claims \in [DOMAIN claims -> 0 .. Len(Queue)]
    /\ results \in Seq([diags : SUBSET FindingRec, suppressed : SUBSET Descriptors,
                        ran : Seq([rule : RuleIds, passed : BOOLEAN])])

IdsRan(r) == {r.ran[k].rule : k \in DOMAIN r.ran}
RanIn(j) == IdsRan(results[j])

FailedIn(r) == {r.ran[k].rule : k \in {k \in DOMAIN r.ran : ~r.ran[k].passed}}
FoundIn(r) == {d.rule : d \in r.diags}

(***************************************************************************)
(* A rule that is listed as not passed left a diagnostic in that result,   *)
(* and every diagnostic belongs to a rule listed as run and not passed:    *)
(* the rule table of a report and its findings agree for every component,  *)
(* including those reached after setup-wide rules.  A rule called "parser" *)
(* is the exception: parse errors go by the same name.                     *)
(***************************************************************************)
RuleTableAgrees ==
    \A j \in DOMAIN results :
        FailedIn(results[j]) \ {"parser"} = FoundIn(results[j]) \ {"parser"}

(***************************************************************************)
(* A setup-wide rule reports in exactly one result, that of the first      *)
(* component it was selected for: its findings are neither repeated for    *)
(* every component nor lost because a component it skipped took the flag.  *)
(***************************************************************************)
SetupRuleReportsOnce ==
    \A k \in DOMAIN RuleSeq : RuleSeq[k].once =>
        LET id == RuleSeq[k].id
            linted == {j \in DOMAIN results : id \in RanIn(j)}
            active == {j \in linted :
                         \/ \E d \in results[j].diags : d.rule = id
                         \/ \E d \in results[j].suppressed : d.rule = id}
        IN active \subseteq {j \in linted : \A i \in linted : j <= i}

(***************************************************************************)
(* A directive in the file a component was parsed from silences its rule   *)
(* there: whatever that component's lint reports at its own file and the   *)
(* directive covers is no diagnostic of any result of that component,      *)
(* errors of the parser excepted, which no directive silences.             *)
(***************************************************************************)
OwnDirectiveHonoured ==
    \A j \in DOMAIN results :
        \A d \in results[j].diags :
            d.file = Queue[j].file /\ d.rule # "parser" =>
                ~ \E s \in dirs[d.file] : s[1] = d.rule /\ s[2] \in {AllLines, d.line}

(***************************************************************************)
(* The forms the format of a component does not allow, except that an MCP  *)
(* configuration or a text file that vanished is passed over.              *)
(***************************************************************************)
Broken(c, f) ==
    CASE c.type \in {"skill", "agent"} \/ (c.type = "command" /\ ~c.toml) ->
            f.form \in {"gone", "unclosed", "notMapping", "invalid"}
      [] c.type = "command" -> f.form \in {"gone", "invalid"}
      [] c.type = "hooks" -> f.form \in {"gone", "empty", "notMapping", "invalid"}
      [] c.type = "harness" -> f.form \in {"gone", "notMapping", "invalid"}
      [] c.type \in {"claude_md", "config"} -> f.form = "gone"
      [] OTHER -> FALSE

(***************************************************************************)
(* Breaking a file never turns its result clean: a component whose file is *)
(* not what its format asks for has an error of the parser in its result,  *)
(* whatever the configuration and the directives, or the scan has failed   *)
(* (the comment on is_harness_file: dropping the error would "let a gate   *)
(* pass on a change that broke the file").                                 *)
(***************************************************************************)
BrokenIsNotClean ==
    \A j \in DOMAIN results :
        Broken(Queue[j], content[j]) =>
            \E d \in results[j].diags : d.rule = "parser" /\ d.sev = "error"

CommandsOf(h) == {h[k] : k \in DOMAIN h} \ {Blank}
HasBlank(h) == \E k \in DOMAIN h \cap {"command", "exec"} : h[k] = Blank

(* The handlers of an entry that the rules must see.  Where an entry has   *)
(* a command beside nested ones, either may be meant; a command or exec    *)
(* that is blank is taken as it is, and hides the others.                  *)
HandlersOf(e) ==
    IF HasBlank(e.handler) THEN {}
    ELSE IF e.string \/ e.nested = <<>> THEN {CommandsOf(e.handler)}
    ELSE {CommandsOf(e.nested[k].handler)
            \cup (IF "command" \in DOMAIN e.handler THEN {e.handler["command"]} ELSE {}) :
          k \in {i \in DOMAIN e.nested : ~HasBlank(e.nested[i].handler)}}

(***************************************************************************)
(* The rules look at parsed views, so what a file configures must be in    *)
(* its view: of every hook handler one command, no tool an agent is denied *)
(* counted as allowed only, and a prompt for every TOML command that has   *)
(* one, under whichever of the accepted spellings, unless its table        *)
(* overrides that by a blank one (parse_hooks, parse_agent,                *)
(* _parse_toml_command).                                                   *)
(***************************************************************************)
ViewsShowWhatRuns ==
    \A j \in DOMAIN parsed : content[j].form = "mapping" =>
        LET c == Queue[j]
            f == content[j]
            v == parsed[j]
        IN  /\ c.type = "hooks" =>
                  \A k \in DOMAIN f.events : f.events[k].list =>
                      \A h \in HandlersOf(f.events[k].entry) \ {{}} :
                          \E i \in DOMAIN v.hooks : v.hooks[i] \in h
            /\ c.type = "agent" =>
                  f.disallowed \cup {t \in DOMAIN f.tools : ~f.tools[t]} \subseteq v.denied
            /\ c.toml =>
                  (v.prompt = NoText
                    <=> \A key \in DOMAIN f.top \cup DOMAIN f.table : TomlField(f, key) = Blank)

-----------------------------------------------------------------------------
(* What RuleEngineProofs shows by induction: the facts below hold of every *)
(* result, and of the one being built (Building).                          *)
Building == Result(diags, suppressed, ran)

AgreesIn(r) == FailedIn(r) \ {"parser"} = FoundIn(r) \ {"parser"}

(* Only the component that claimed a setup-wide rule has reports of it,    *)
(* and only it and later ones list it as run.                              *)
ClaimedIn(j, r) ==
    \A k \in DOMAIN claims :
        /\ RuleSeq[k].id \in IdsRan(r) => claims[k] \in 1 .. j
        /\ RuleSeq[k].id \in FoundIn(r) \cup {d.rule : d \in r.suppressed} => claims[k] = j

Covered(d) == \E s \in dirs[d.file] : s[1] = d.rule /\ s[2] \in {AllLines, d.line}

HonouredIn(j, r) ==
    \A d \in r.diags : d.file = Queue[j].file /\ d.rule # "parser" => ~Covered(d)

ShownIn(j, r) ==
    Broken(Queue[j], content[j]) => \E d \in r.diags : d.rule = "parser" /\ d.sev = "error"

ResultInv(j, r) == AgreesIn(r) /\ ClaimedIn(j, r) /\ HonouredIn(j, r) /\ ShownIn(j, r)

Views == [j \in Parsable |-> Parse(Queue[j], content[j])]

(* Where the scan stands: one result per component linted, or none.        *)
Stage ==
    /\ parsed \in {<<>>, Views}
    /\ pc \in {"next", "rules", "done"} =>
          parsed = Views /\ \A j \in Parsable : ~Raises(Queue[j], content[j])
    /\ Len(results) = IF pc = "crashed" THEN 0 ELSE ci - 1
    /\ pc = "parse" => ci = 1
    /\ pc = "rules" => ci <= Len(Queue)
    /\ DOMAIN claims = {k \in DOMAIN RuleSeq : RuleSeq[k].once}
    /\ \A k \in DOMAIN claims : claims[k] <= ci

EngineInv ==
    /\ TypeOK /\ Stage
    /\ \A j \in DOMAIN results : ResultInv(j, results[j])
    /\ pc = "rules" => ResultInv(ci, Building)
=============================================================================
