# harness-eval: specifications

TLA+ specifications of [harness-eval](../src/README.md), the scanner that lints,
gates and audits the configuration of AI coding assistants (skills, agents,
hooks, MCP servers, context files). Every module is translated from the Python
source; paths below are relative to `src/src/harness_eval/`. `PROJECT.json` maps
each definition to the lines it stands for, lists the runs, the theorems and the
hazards the properties are for.

    tlc -workers 4 -config MCRuleCatalog.cfg MCRuleCatalog     # a run
    tlapm RuleCatalogProofs.tla                                # the proofs of a module

Contents: [1 the system](#1-the-system) · [2 plan](#2-plan) ·
[3 modules](#3-modules) · [4 runs and bounds](#4-runs-and-bounds) ·
[5 fairness](#5-fairness) · [6 proofs](#6-proofs) ·
[7 disagreements](#7-disagreements-between-code-and-documents) ·
[8 not modelled](#8-what-is-not-modelled)

## 1 The system

harness-eval is a command line program. A command discovers the components of a
setup, parses them, runs a catalog of rules over them, annotates the findings,
decides, prints and exits. Most of it is sequential; what is hard lies in the
many passes over a tree that somebody may be editing, in the rules, severities,
directives, policies and baselines that meet in one verdict, in identities that
different modules form independently, in searches whose result depends on the
order of their input, and in four threads that talk to a language model.

| component (code) | state | operations | talks to | what is hard | what makes it correct |
|---|---|---|---|---|---|
| **Discovery** `core/setup.py`, `core/inventory.py`, `core/discoverers/*` | inventory, components, detected tools | per tool: claim, list; sweep, bare skill, filter, detect | the engine lints what it finds; evidence measures what it lists | ten discoverers, an inventory and a sweep that each have their own idea of a path | what is a component is measured; a pattern takes out what it matches and nothing else; a tool's directory is that tool's |
| **Scan and evidence** `core/setup.py`, `core/fingerprint.py`, `inspection/setup.py`, `inspection/_fswalk.py`, `output/provenance.py` | inventory, components, hashes | sweep, list, stat, discover, hash, parse, walk | the engine reads its parse results; the report prints its evidence | six passes over a tree that may change between any two | untouched files are measured, hashed, parsed and read by rules alike, within the limits |
| **Parsers** `inspection/parsers.py`, `utils/parsing.py`, `inspection/harness_formats/fullsend.py` | none | parse | the engine | files that are missing, empty, not closed, not of the form expected | a broken file is not a clean one; what it configures is seen |
| **Rule catalog** `inspection/registry.py`, `inspection/rules/__init__.py`, `inspection/yaml_rules.py` | dictionaries of rules, cached answers by type | register, unregister, copy, load plugins, load YAML | scans copy the default catalog, the engine asks the copy | ids chosen by strangers, plugins that break, caches, scans at the same time | no rule replaced, no cache stale, no rule of one tree in another scan |
| **Rule engine** `inspection/engine.py`, `inspection/suppression.py`, `inspection/types.py` | findings, suppressions, the claims of setup-wide rules | parse, lint a component, report, suppress, annotate | catalog, parsers, graph | a report meets a preset, an override, a downgrade and directives; setup-wide rules share state | the table of rules agrees with the findings; setup-wide rules report once; directives work |
| **Rules about references** `inspection/rules/content/circular_references.py`, `inspection/rules/cross/duplicate_skill_id.py`, `inspection/rules/agents/referenced_skills_exist.py`, `inspection/rules/commands/references_nonexistent_skill.py`, `inspection/rules/_component_index.py`, `analysis/dependencies.py` | path and names seen by the search, the cached index | search, index, compare | the engine runs them; the graph takes the dependency map | sets without an order, names that components share, a cache | every circle is told of; what is called missing is |
| **Graph, reachability, flows** `analysis/component_graph.py`, `reachability.py`, `inspection/rules/security/cross_component_flow.py` | nodes by key, edges, capabilities | build, walk, look up a finding's node, look for flows | the engine annotates findings with it | keys are names, edges come from text | nothing that a trigger leads to is called unreachable; no chain to the network goes untold |
| **Taint tracking** `inspection/rules/security/taint_tracking.py`, `bash_taint_tracking.py`, `ast_behavioral.py` | tainted names, lines reported | walk a script, record, report | the engine runs them | the order of the visits is not the order of the script; two passes share their state | flows are reported, and only flows |
| **Merge verdict** `cli/autonomy.py`, `baseline.py` | grants, keys of the base, buckets | filter, load policy, compare, classify, exit | engine results of head and base | five filters in a row, any of which may drop a defect | FAIL exactly for an unexcused defect, PASS only for accepted facts |
| **Lint, gate, baseline commands** `cli/lint.py`, `cli/gate.py`, `cli/baseline.py`, `config/presets.py`, `inspection/fixer.py`, part of `output/report.py` | baseline file, files being fixed | scan, filter, fix, enforce, write | engine, catalog | a baseline outlives the setup it was made from; lines move | a baseline hides only what it lists; a fix changes only what was reported |
| **Security audit** `cli/security.py`, `rubric/scorer.py`, `utils/llm.py` | adjudications, checks in the pool, counters | clean, adjudicate, submit, collect, assess, exit | engine results; a language model | answers that are wrong, missing or late; threads that fail while others run | an error leaves the risk only by a dismissal; the report is whole; the command ends |
| **Review command** `cli/review.py`, `rubric/*`, `utils/llm.py` | batches, answers, counters | group, batch, call, fall back, collect, sort | a language model | a batch that fails in part; results in any order | every component is answered once, or nothing is reported |
| **Watch mode** `watch.py` | watched paths, results on the terminal | initial lint, batch, lint | watchfiles, engine | edits while a lint runs | a heard change is shown or an error is |
| Reports `output/*` | none | format | every command | tiers with thresholds | the card agrees with the exit code (in the lint commands) |
| System analysis, configuration rules, pattern rules, text utilities, catalog and diagnosis commands, release scripts | | | | | see section 8 |

The hazards, at their lines, are in `PROJECT.json`.

## 2 Plan

Order of work, most decisive behaviour first.

1. `AutonomyVerdict`: findings to PASS, FAIL or REVIEW_REQUIRED. Proved.
2. `RuleEngine` with `Parsers`: one scan of the components by the rules.
3. `WatchLoop`: the watch command against its user. Safety proved.
4. `ScanEvidence`: the passes over the tree against concurrent edits.
5. `GraphWalk`: the walk of the graph, against the set of reachable nodes. Proved.
6. `ComponentGraph`, then `CrossComponentFlow` over it: construction, verdicts,
   flows. Proved.
7. `SecurityReview`: adjudication and thread pool of harness-security. Safety proved.
8. `RuleCatalog`: registration, plugins, YAML rules, scans. Proved.
9. `ReviewCommand` refining `ComponentReviews`. Safety and its refinement are proved.
10. `SetupTree`, `Discoverers`, `Discovery`: the ten discoverers. Proved, but for
    the comparison of two scans with different patterns.
11. `LintCommands`: a baseline created by one command and applied by later ones,
    `--fix`, `--enforce`, the report card. Proved.
12. `PythonScripts`, `BashScripts`, `SkillScripts`: the taint rules. Proved.
13. `ReferenceRules`: circles, duplicates, missing skills. Proved.

All of these exist, and every invariant the runs check is a theorem, except
`ExcludesTakeOnlyTheirFiles`. What is left, in this order: that one, which needs
each discoverer's claims compared under two sets of patterns; a `ScanEvidence` that takes its sets from `Discovery` instead
of from constants; measures that decrease with every step of the walk and of the search,
the part of `Returns` that is not about fairness.

## 3 Modules

Each `MC...` module gives the constants of its base module their small values;
each `...Proofs` module holds theorems. No module declares a RECURSIVE operator.
Definitions named "Mutant of X" are wrong versions of X, of the kind a bug would
make; no specification uses them. They show that the properties notice. `TypeOK`
of a module is its type invariant; the theorems rest on it or on an equivalent.

How the modules meet: `RuleEngine` extends `Parsers` and parses every file at the
start of a scan; `CrossComponentFlow` extends `ComponentGraph` and runs over the
finished graph; `Discovery` extends `Discoverers` extends `SetupTree`;
`SkillScripts` extends both script modules and holds what a run of a script
does; `ReviewCommand` instantiates `ComponentReviews`. `RuleCatalog` decides which
rules `RuleEngine` is given, `Discovery` which files `ScanEvidence`, `RuleEngine`
and `LintCommands` are given; these meet through constants.

### AutonomyVerdict: `cli/autonomy.py`, `baseline.py`

`head` and `base` are the findings of the two checkouts; a finding keeps rule,
relative path, message (its hash), severity and line. `FilterBaselined` is
`filter_baselined`, `LoadEntry` one iteration of `load_policy`, `ScanBase` the
`--compare` scan reduced to its keys, `Classify` one iteration of `classify` (one
action per branch), `Decide` the verdict, `ExitCode` the exit code. Findings are
sets: the order of the report is layout.

* `EveryFindingAccounted`: each finding of the head is suppressed, to do, or in
  exactly one bucket.
* `FailIffDefect`: exit code 1 exactly when a finding that is neither baselined,
  nor on the base, nor info belongs to a rule that is not `policy`.
* `PassMeansAccepted`: PASS only when each finding is excused or is a policy fact
  with a grant for that very rule.

### RuleEngine and Parsers: `inspection/engine.py`, `suppression.py`, `types.py`, `parsers.py`

One scan. `ParseSetup` makes a view of every file (`Parsers`: one operator per
parser, from the form of a file to errors, hooks, tools, prompt) or `ParseRaises`
ends the scan. Then one entry point per type (`LintSkill` ... `LintTextFile`),
`SkipRule`, `RunRule` (`RunClaimedRule` for setup-wide rules, which claim a flag
in the shared `ScanArtifacts`), `RuleRaises`, `FinishComponent`, `Annotate`. What
a rule looks for is abstracted: it may report any subset of its `Descriptors`.
Severity resolution (`SeverityOf`), directives (`DirectivesFor`, `IsSuppressed`)
and applicability are translated in full.

* `RuleTableAgrees`: a rule listed as failed has a diagnostic, and every
  diagnostic a rule listed as run and failed.
* `SetupRuleReportsOnce`: a setup-wide rule is active on one component only.
* `OwnDirectiveHonoured`: a directive in the file a component was parsed from
  silences its rule there.
* `BrokenIsNotClean`: a file that is not what its format asks for has an error of
  the parser in its result, or the scan has failed.
* `ViewsShowWhatRuns`: every hook handler, denied tool and prompt of a file is in
  the view the rules get.

### WatchLoop: `watch.py`

The user writes, creates and deletes files at any moment (`User`); the command
collects the paths, scans, reads files one by one, shows results, starts to
listen and takes batches. The watchfiles library is external: it collects the
paths below the watched directories from the moment it is iterated, also while
the loop body runs. `Heard` is the filter, with symbolic links (`Home`).

* `HeardChangeShown`: a change the library has collected is eventually on the
  terminal, or the terminal shows an error, or the file is gone.
* `QuietMeansCurrent`, its safety core, is a theorem: after such a change the
  command never waits in silence over old results.

### ScanEvidence: `core/`, `inspection/setup.py`, `output/provenance.py`

The passes of a scan, with an edit possible between any two reads: `Sweep`,
`CollectInventory`, `Stat`, `Glob`, `ReadComponent`, `AddUncategorized`,
`ReadBareSkill`, `Hash`, `Parse`, then the rules that open files themselves:
`StartWalk` takes the list of a directory, `OpenScript` reads one script of it,
`SizeForYara` and `ReadForYara` are the stat and the read of the YARA rule,
`FollowReferences` the paths a harness names. `Finish` ends the scan. A path is
characterised by the passes its position qualifies it for. What a discoverer lists
(`Listed`) and what it claims (`Claimed`) are separate constants, because the
code asks with different patterns; the others are `Swept`, `Bare`, `SkillMds`,
`Inside`, `Skipped`, `Scripts`, `Excluded` and `Deep` (below `max_depth`).

* `StableComponentCovered`: a component nobody touched is in the fingerprint with
  the content the discoverers and the parsers saw, unless no listing names it
  (`Unlisted`, section 7).
* `RulesReadWhatWasHashed`: what a rule reads by itself in a skill is in the
  fingerprint as it was read, except below `vendor/` and what a harness names.
* `StableWithinLimits`: the four limits (depth, number, size, sum) hold for
  untouched files; YARA reads only what was listed and measured before, and a file
  above the limit only when it changed between YARA's own stat and its read.

### Discovery, Discoverers, SetupTree: `core/setup.py`, `core/inventory.py`, `core/discoverers/`

`SetupTree` has files (directory, name, what discovery tells apart in their
content, whether they lead outside) and pathlib's ways to look for them.
`Discoverers` has, for each of the ten, its claims in order (`discover`) and its
list (`collect_paths`). `Discovery` is `discover_setup`: `CollectInventory`,
`Discover` (once per discoverer, first claim wins), `AddUncategorized`,
`AddBareSkill`, `Filter`, `Detect`, then the whole again, to compare: with
`--recursive` (`ScanRecursively`), or without the patterns (`WithdrawExcludes`).

* `InventoryCovers`: every component is in the inventory, except those of
  `Unlisted` (section 7).
* `ExcludesTakeOnlyTheirFiles`: the scan with patterns finds what the scan without
  finds, less the files they match, under the same types and tools. An excluded
  file is not opened, yet its claim must still keep others from it and its
  directory from the sweep. `ComesUp` names the two exceptions (section 7).
* `OwnerIsAttributed`: what lies right in a tool's directory is that tool's,
  although several discoverers read it; `NestedTool` names the files that a
  directory of another tool further down takes away.
* `RecursiveKeeps`: `--recursive` loses no component of the plain scan, a bare
  skill apart.

### GraphWalk: `analysis/component_graph.py` `reachable_from`

The loop with its stack, one edge per step (`Pop`, `Examine`, `EndOfEdges`,
`Return`). `Reachable` is the abstract result: the least set closed under
sufficiently confident edges.

* `ReturnsReachable`: the walk returns exactly the other reachable nodes.
* `Returns`: it returns, on cyclic graphs too.

### ComponentGraph: `build_component_graph`, `compute_reachability`

The loops over skills, commands, agents, hooks and MCP configurations add nodes
and edges in the code's order (`AddSkill` ... `AddMcpConfig`), `LinkSkills` adds
the references between skills, `Annotate` computes the verdict for a finding in
each file. `table` is the dictionary in insertion order, because the lookup
takes the first node that fits. `ReachableFrom(k, confidence)` stands for the
calls of `reachable_from`; theorem `WalkServesGraph` says that the walk of
`GraphWalk`, run on the nodes and edges of this graph, returns just that. `IncomingDecides` (the transitive
branch of the verdict never decides) and `EdgesJoinNodes` are theorems.

* `UnreachableIsUntriggered`: a component called unreachable, when it was looked
  up as itself, has no description and no command, agent or hook leads to it.

### CrossComponentFlow: `inspection/rules/security/cross_component_flow.py`

`CheckFlows` runs once over the finished graph, before the annotation. Nodes have
the capabilities of the file they were last written for (`caps`). The rule looks
from each reader along explicit edges (`Reaches`); `Chain`, which the
property holds against it, is made of the references in the files by way of every
component of a name.

* `FlowsAreReported`: every chain of explicit references from a skill that reads
  credentials to something that transmits is reported, unless another file took
  the node of one of its members; an MCP server is called unknown exactly when no
  configuration defines it.

### ReferenceRules: circles, duplicates and missing skills

`TakeRoot`, `Descend`, `Revisit`, `Leave` are the depth-first search of
`circular_references.py`; a set of references is walked in any order.
`ReportCycles`, `FindDuplicates`, `CheckCommand` and `CheckAgent` are the rules,
each at its place in the order of linting; the first that asks fills `index`
(`_component_index.py`), with what it was given. `BrokenRefs` is the answer of
`analysis/dependencies.py` to the question the agents' rule asks. `Writers` are
the components that enter references into the map, `Places` the turns at which a
name was entered; `Leads`, the reference of the property, is the least closed set
of names that references lead to.

* `CyclesReported`: a reported circle is one and told once, and no name that
  refers to itself over others is left untold, in whatever order the sets come.
* `MissingIsAbsent`: what one of the three places calls missing, the others do
  not know either.

### SkillScripts, PythonScripts, BashScripts: the taint rules

A Python script is a sequence of statements in blocks; `ast.walk` visits them
level by level (`VisitAssign`, `VisitCall`), so the table of tainted names does not follow the
program. A shell script is lines of simple commands; the walk over bashlex's tree
and then the pass over the lines share what is tainted, and a script bashlex
cannot parse has the lines only. `PyCarrying` and `ShAfter` in `SkillScripts` say
what a run of the script does, the reference of both properties. What a call is
said to be (`Callee`) is what `data/capabilities.yaml` can say of a name.

* `FlowsReported`: a line where data of a source reaches a sink as the script
  runs is reported. `Followable` and `Plain` name the scripts that are excepted.
* `ReportsBacked`: a report names a sink, a line that sets the name, and a name
  the source reaches.

### LintCommands: `cli/lint.py`, `gate.py`, `security.py`, `baseline.py`, `inspection/fixer.py`, `output/report.py`

Commands run one after the other on one tree and one baseline file: `Scan` (with
the rules the command selects, `Config`), `Report` (filter, card) or
`FailOnBaseline`, the files of `--fix`, `Exit` with its code,
`OpenBaseline`, `WriteBaseline`. `FixFile` reads a file, `Truncate` opens it for
writing, `Fixed` fills it. `Edit` changes a file at any point, `Kill` ends a
command at any point: what was being written (the baseline, a file being fixed)
is then truncated. A scan is one step; `ScanEvidence` has its races. Each process
walks its sets in an order of its own (`Orders`): in which order
`circular-references` (`Unsteady`) does it decides which circles it tells of and
how it words them (`Told`). A rule may fire on a file scanned alone that is quiet
in the setup (`FiresAlone`).

* `NewFindingsFail`: when the gate passes, every finding of its scan was in the
  baseline, said the same way, when the baseline was taken.
* `QuietWhileUnchanged`: a command given the baseline of the very files it scans
  shows nothing and passes; in another order of the sets it may show circles told
  in another way, and nothing else.
* `FixKeepsOtherLines`: `--fix` changes the lines of shown findings only, each to
  what a rule proposes, in a file as it was scanned and with one kind of line end.
* `CardMatchesExit`: exit code, verdict, grade and tier of lint agree.

### SecurityReview: `cli/security.py`, `rubric/scorer.py`, `utils/llm.py`

`Clean` drops optional and parser rules, `Ask` adjudicates a result (the reply
may be an exception, garbage, or verdicts for some indices), `SubmitChecks` hands
all components to a pool of `Workers`, `StartCheck`, `CheckReturns`,
`CheckRaises` are the threads, `Collect` and `CollectRaised` the loop over
`as_completed`, `LeavePool` and `Fail` the two ways out of the `with` block,
`Report` risk and exit code.

* `ErrorsNeedDismissal`: an error whose answer is kept counts unless the model
  dismissed this very finding.
* `ReviewIsWhole`: a printed report has the check of every component.
* `NoCallInFlight`: the command ends only when no thread is in a call and no
  submitted check is left; the counters are those of all calls.
* `Ends`: the command ends.

### ReviewCommand and ComponentReviews: `cli/review.py`, `rubric/scorer.py`, `utils/llm.py`

`NoClient` and `StartPool` check the provider, `GroupSmall` and `GroupLarge` form
batches as the code does (small components by type, in chunks), `Take` is a
thread that takes the next batch, `BatchAnswered`, `BatchUnusable`,
`CheckAnswered`, `CallRaises` its calls, `Collect`, `CollectRaised`, `Fail` the
main thread, `PrintReport` the sort. A result is one per component, whatever it
says. `ComponentReviews` is the promise: components
are answered, none twice, and the command ends with a report on all or a failure.

* `KeepsPromise`: `ReviewCommand` implements `ComponentReviews` (a component is
  answered when a result of it has been collected).
* `AlwaysEnds`: the liveness half of the promise.
* `ReportInSetupOrder`: the report has every component once; one is printed ahead
  of a component that stands before it only where they share a name, or where the
  other's name is used again behind it.
* `CallsAccounted`: one or two calls per component, none without a client, none
  in flight at the end, so the counters are those of all calls.

### RuleCatalog: `inspection/registry.py`, `yaml_rules.py`

The import (`RegisterBuiltins`, `LoadCwdRule`, `LoadPlugin`, `PluginsLoaded`),
an application that registers and unregisters (`RegisterLate`,
`UnregisterLate`), and scans: `StartScan` (a single file is linted with the
default catalog itself), `CopyCatalog` and `LoadTargetRule`, which are
`build_scan_catalog`, `LintComponent`, which asks `for_target`, and `FinishScan`.
A plugin may be a callable: it may unregister rules (`removes`) before it registers
its own. A catalog has a dictionary and an index; `dict` tells which dictionary, so that a
copy that shared it would be visible. A dictionary is a set of rules: the order of
rules in it decides the order of findings only. `register` and `for_target` are
single steps: each is one call, and the program never registers in a catalog from
one thread while another asks it.

* `TargetRulesStayLocal`: rules of a scanned tree are only in the catalogs of
  scans of that tree that asked for them.
* `IndexIsCurrent`: no cached answer is stale.
* `NoRuleReplaced`: nothing takes the id of a registered rule, but a callable
  plugin that has unregistered that very id.
* `SoundPluginsLoaded`: a plugin that does not break is registered, whatever the
  ones before it did, but for what one behind it unregisters.

## 4 Runs and bounds

All runs pass and explore all states of their instance; deadlock checking is off
because commands end, and the watch command waits for its user.

| run | instance | states | why it is enough |
|---|---|---|---|
| `autonomy_verdict` | 6 findings in 2 files of one name, 4 rules (2 policy), every subset as head and as base, 3 policy files, 2 baselines | 325,715 | one finding of each class the conditions of `classify` tell apart, a grant for the wrong rule, the wrong file and of a wrong type |
| `rule_engine` | one component of each type, 3 configurations, 3 placements of directives, 8 states of the files | 107,675 | each entry point and parser with sound and broken files, each combination of preset, override and downgrade, directives in the own file, a sub-file and another file |
| `watch_loop` | 3 files (one linked, one new), 3 changes | 4,383 | a change before, during and after a run, and one more during the run it causes |
| `scan_race` | 10 paths in two layouts, 3 contents, 2 edits, limits of 3 files, 2 bytes each, 4 together | 3,968,693 | one path for each combination of passes that occurs, one of them claimed and not listed, one below vendor, one too deep; an edit before and after any pass, and between YARA's stat and read |
| `graph_walk` | 3 nodes, all lists of up to 3 weighted edges, all thresholds; beside it 7 components on 5 names: 432 arrangements of references, and every pair of listed references of 8 kinds with an invoked name of 7 | 460,378 | cycles, self-loops, parallel edges, a node pushed twice; overlapping circles, two skills of one name, a command of a skill's name; each way in which a name can exist for one of three readers |
| `component_graph` | 7 components, all references between them, 2 assignments of capabilities | 94,208 | names shared by a command, two skills and a directory; every kind of edge; a node overwritten by one of other capabilities |
| `security_review` | 3 results, 3 components, pool of 2 | 276,980 | more checks than threads; two results of one name; each form of reply; failures at any point |
| `rule_catalog` | 3 built-ins, 6 pairs of YAML directories, 3 sets of plugins, 5 requests, 2 scans (symmetric) | 68,466 | two scans is what leaking needs; a plugin that breaks before and after others, one that swaps a rule |
| `review_command` | 4 setups of up to 5 components, every kind of client, pool of 2, batches of 2 | 61,764 | three and four batches on two threads, a batch that falls back, two components of one name side by side and apart, a setup without anything to review |
| `discovery` | a file for every place the discoverers look at, alone and with others, 4 spellings of the root, any file excluded, in small trees any two | 169,856 | discoverers disagree on places and on who comes first, so pairs of files show it; a skill and a file it holds excluded together |
| `lint_commands` | 2 files, 8 rules, 4 trees, 2 orders of the sets, 13 command lines, 3 commands, 1 edit, a kill at any point | 224,622 | baseline, edit, gate is the shortest history in which a baseline is stale; each preset, root spelling and enforcement occurs; a circle told from either member or passed over |
| `skill_scripts` | 61,377 scripts of three lines | 997,566 | a source, a step and a sink, in every order of blocks; a variable whose name begins like another |

`graph_walk` checks two modules that have nothing to do with each other
(`GraphWalk`, `ReferenceRules`): a behaviour runs one of them while the other is
over.

Bounds that are part of a module: `MaxEdges` (`MCGraphWalk`, length of the edge
list), `MaxChanges` (`WatchLoop`, what the user does), `MaxEdits`
(`ScanEvidence`), `MaxEdits` and `MaxRuns` (`LintCommands`), `Workers`
(`SecurityReview`, `ReviewCommand`; 4 in the code), `BatchSize` (`ReviewCommand`;
3 in the code). The proofs have no bounds.

## 5 Fairness

* `WatchLoop`: `WF_watchVars(Command)`. The command is one thread that blocks only in
  `watch()`. The user is under no obligation.
* `GraphWalk`: `WF_walkVars(WalkNext)`. An ordinary function call goes on until it returns.
* `SecurityReview` and `ReviewCommand`: weak fairness of the main thread and of the
  threads of the pool. The main thread runs whenever it is not waiting; the
  executor starts submitted work when a thread is free; a call ends because the
  OpenAI-compatible client sets a timeout of 120 s, and for the other providers
  because their libraries return. A model that never answers and a library that
  waits for ever would break `Ends` and `AlwaysEnds`, and the code has no guard of
  its own against it.

The other modules state safety only and assume no fairness.

## 6 Proofs

TLAPS checks the following for all values of the constants that satisfy the
named assumptions (`ASSUME` in each module: types of the constants, unique ids,
finite sets where a choice or a cardinality needs them). Each invariant that a
run checks is the statement of a theorem, `ExcludesTakeOnlyTheirFiles` apart, and
so are `NoRuleReplaced` and the refinement of `ComponentReviews`.
Where a claim is about positions in a sequence the proofs argue by a least
counterexample (`LeastNat`, from the well-foundedness of the naturals).

**EvidenceVerdictProofs, the verdict.** `IInv` = `TypeOK` ∧
`EveryFindingAccounted` ∧ `StageFacts` (which buckets may be filled in which
phase) ∧ `BucketFacts` (what each bucket holds: blocking findings belong to rules
that are not policy, waived ones have a grant for their rule, pre-existing ones a
key on the base). The accounting alone is not inductive: `FailIffDefect` needs to
know why a finding is in its bucket. `Accounted`, `FailCorrect` and `PassCorrect`
follow. No finding, rule or policy file is bounded.

**EvidenceVerdictProofs, the evidence.** `EvidenceInv` speaks of the files that
hold still (`Held`: there, and not touched during the scan): both listings have
those they look for (`Listings`), those measured are within the limits and weigh
no more than what was added up (`Limited`), what was opened had its present
content (`Opened`), so had what was hashed and parsed (`Evidence`), and what a rule
reads lies in a skill that was parsed (`Walks`). An edit only takes a file out of
`Held` (`EditKeeps`), so every other step can be looked at alone. `StableCovered`,
`RulesReadHashed` and `StableLimited` hold for every number of edits; the sum
needs a count of bytes, `Load`, because a file may shrink after it was counted.

**RuleEngineProofs.** `EngineInv` (in `RuleEngine`, next to what it is about) =
`TypeOK` ∧ `Stage` ∧ `ResultInv` of each finished result and of the one being
built. The properties speak of finished results; what makes them true is decided
rule by rule, so the same facts are claimed of `Building`. `ClaimedIn` adds who
claimed a setup-wide rule: only that component reports it, only later ones list it.
`TableAgrees`, `ReportsOnce`, `DirectivesHonoured`, `BrokenShown` follow;
`ViewsShow` is about the parsers: the sequences they build hold what the file
lists, at whatever place.

**GraphProofs, the walk.** `WalkInv` = types ∧ `Sound` (stack and visited are
reachable) ∧ `Complete` (every step out of a visited node leads to a node that is
visited, waiting, or still to come in the edge list). At the empty stack
`Complete` makes `visited` closed, and a closed set contains `Reachable`, the
least one (`ReachableLeast`): `WalkCorrect`. For every finite or infinite node
set and every edge list. `WalkServesGraph` joins it with the graph: run on the
built nodes and edges, at either threshold, it returns what `ComponentGraph` and
`CrossComponentFlow` use.

**GraphProofs, the graph.** `GraphInv` = types ∧ `HandledHaveKeys` (a component
that was handled has its key in the table, even if another one of the same key
replaced it) ∧ `NoDanglingEdge` ∧ `VerdictsHold`. It rests on `SkillsFirst`: the
skills are all in the table when the first name is resolved. Then `NoDangling`,
`WalkNeverDecides` and `UnreachableSound`, by `NoIncomingNoPath`: a node without
incoming edge is reachable from no other.

**GraphProofs, the flows.** `FlowSpec` implements `Spec` of `ComponentGraph`
(`FlowImplementsGraph`), so those theorems hold of the two together. `FlowInv`
adds `OwnKeys` (a node is written under the key of the file it stands for) and
`LinksInGraph` (once the graph is built, the links of every skill are edges). A
chain of references is then a path of explicit edges, and `FlowsReach` follows:
no chain is missed, and unknown servers are exact.

**GraphProofs, references.** `MissingInv` says what the cached index was filled with
(with the commands, or without them if an agent asked first: `IndexInv`), and of
each report that its name is unknown to the other two places: `MissingSound`. For circles, `SearchInv` describes the depth-first
search: `PathInv` (the path is one), `Tries` (every reference tried leads to a name
left behind, closes a recorded cycle, or is the one the path takes), `CyclesTrue` and
`Peeled`: among the names left behind any set has a name all of whose references
into the set close a recorded cycle. A circle nobody was told of would be such a
set without such a name. `ToldInv` follows the cycles to the reports, and
`CirclesTold` says that every circle is told, whatever the order of the sets.

**LintCommandsProofs.** `LintInv` = `Typed` ∧ `Underway` (what a command holds is
what its scan found, less what its baseline holds) ∧ `Accepted` (a baseline that
can be read holds what the scan it was taken from found, whatever was killed in
between) ∧ `Repairing` (the fix being written, against the file as it was
scanned) ∧ `Concluded` (the last command's card and code are those of what it
showed). `CoveredByBaseline` compares two scans of the same files: in one order of
the sets they say the same, in two they differ in what the unsteady rules tell. `NewFindingsShown`, `QuietAfterBaseline`, `FixIsLocal`, `CardAgrees`.
For any number of commands, edits and kills.

**SetupProofs, discovery.** What the discoverers claim is a part of what the
inventory lists, and each attributes a tool's directory to its owner; these are
lemmas about the ten claim tables. `DiscoveryInv` then says where every component
comes from (`Found`), that nothing an asked discoverer claims is lost but to a
pattern (`Kept`), and that the plain scan's components have such an origin too
(`PlainKept`), which is what lets the recursive scan find them again. `Filtered`
says that nothing excluded is left at the end. `InventoryIsComplete`, `OwnerKept`
and `RecursiveOnlyAdds` follow, for every tree and every set of excluded files.

**SetupProofs, scripts.** `NothingMadeUp`: `PyInv` (the table of `taint-flow`
names only what a source reaches) and `ShInv` (a mark of the shell rule is on a
line that sets the variable). `FlowsSeen` is the converse, with `FlowInv`:
`PySeen` (what the walk has passed and can follow is in the table or reported) and, in plain
scripts, `ShSeen` (what a run of the first lines hands on is marked). The walk
visits in another order than the script runs; `Followable` is what makes the
earlier assignment the earlier visited one.

**SecurityReviewProofs.** `IInv` = `TypeInv` ∧ `PoolInv` (the pool's sets are
disjoint) ∧ `PhaseInv` (together they are all components from submission to the
report) ∧ `CountInv` (calls are the results asked about and the checks started)
∧ `VerdictInv` (the kept answers are those of the replies) ∧ `EndInv`.
`ErrorsKept` needs a cardinality argument: the undismissed errors map one-to-one
into the confirmed verdicts (`FS_Injection`). For any number of threads.

**SecurityReviewProofs, the watch loop.** `Remembered(f)` says what the command still
has to do about a file it heard of: take the batch, scan, read it, or show the
run that read the present content. Each step of user and command keeps it
(`RememberedStays`), which rests on `LoopInv` (the first run is over when the library
listens) and on watched paths that never change (`HeardStays`). A command that
waits with no events and no error has nothing left to do, so what it shows is
current: `WatchIsCurrent`. For any files, links and number of edits.

**ReviewCommandProofs.** `Inv` says that the batches and the components without a
batch partition the reviewed components, that a finished batch has a result for
each of its components, and that one still running has those of the components
before the one it asks about. Without the partition a component could be answered
twice; without the results a batch could be collected in part. Each action is
then a step of `ComponentReviews` or a stutter: `ReviewKeepsPromise`. `CallsInv`
= `OncePlaced` (a batch waits, runs, is done or has raised) ∧ `Course` ∧ `Counts`
(calls are at most one per component asked about and one per shared batch):
`CallsAreAccounted`. `ReportOrdered` shows what sorting by the last place of a name
makes of results collected in any order: where no name is used twice, the order of
the setup.

**RuleCatalogProofs.** `CatalogInv` = `Control` ∧ `Fillings` (each catalog has a
dictionary of its own, empty until it is filled, and only a scan that asked is in
the phase that loads rules) ∧ `Indexes` (nothing is cached before the import is
over) ∧ unique ids ∧ `TargetRulesStayLocal` ∧ `IndexIsCurrent`. Most steps
renew a catalog: they keep rules and answers or drop the answers
(`RenewedKeeps`). `LintKeeps` shows that a computed answer is current,
`AcceptedFacts` that what a plugin leaves behind has new ids. `RulesKept` then
needs only that a step moves the rules of a catalog one way (`OneWay`), but for the
ids a plugin unregisters in its turn. `PluginInv` bounds the ids taken before each
plugin's turn and follows each rule to a plugin that removes it: `SoundLoaded`. For every number of
scans, any plugins and trees.

Model-checked only: liveness (`Returns`, `Ends`, `AlwaysEnds`,
`HeardChangeShown`), which is out of this prover's reach, and
`ExcludesTakeOnlyTheirFiles`. That the least closed
sets used as references (`Reachable`, `ReachableFrom`, `Chain`, `Leads`) are the
sets of nodes at the end of a path is not proved: they are how "leads to" is
stated here.

## 7 Disagreements between code and documents

Met while modelling; the modules follow the code, and a property excepts the case
where it is about it. Paths without a directory of their own are below
`src/src/harness_eval/`, documents and tests below `src/`.

Verdicts and commands:

* `--compare` excuses findings by the set of keys of the base, without severity
  and count: a second occurrence of a defect, and one that rose from info, pass
  (`cli/autonomy.py:168`; `README.md:88`);
* a grant for `file: a.yaml` covers every file of that name
  (`cli/autonomy.py:60`; the docstring at line 70 says relative to the root);
* results whose name differs from their component's (CLAUDE.md, settings.json,
  .mcp.json) are never adjudicated, and their errors leave the risk
  (`cli/security.py:490`; `CHANGELOG.md:1028`);
* a downgraded info finding adds a warning (`cli/security.py:164`), and a strict
  run ends with 0 on semantic issues (`cli/security.py:608`; help at line 380);
* the card calls a setup HARDENED without errors of security rules, warnings
  allowed, so no setup is merely VERIFIED (`output/report.py`; the docstring says
  "Verified + no security findings"), and a baseline raises the tier;
* "then `--baseline` on any command" (`README.md:209`): findings of YARA and of the
  target's rules are in no baseline, and a baseline taken under another spelling
  of the root hides nothing (`baseline.py:62`);
* fixes go to line numbers of the scan: in a file edited since, or with mixed line
  ends, they hit another line, and bytes that are not UTF-8 are replaced in lines
  nobody reported (`inspection/fixer.py:57`; no built-in rule proposes a fix); an
  edit between the read and the write of a file is lost (lines 38 and 59);
* lint of a single file ignores `--baseline`, gate does not (`cli/lint.py:229`);
* a base URL beginning with `http://localhost` counts as loopback, also
  `http://localhost.example.com` (`utils/llm.py:161`);
* components of one name are all printed at the place of the last of them
  (`cli/review.py:176`);
* a change made between the initial lint and the start of the watcher is not
  seen (`watch.py:130`; line 1).

Scanning:

* equal evidence does not mean equal findings: rules look at files that no part of
  it covers (`inspection/rules/harness/output_schema_valid.py:69`;
  `README.md:112`), and below `vendor/` and the like they analyse files of a bare
  skill that are neither measured nor hashed (`core/inventory.py:105`;
  `output/provenance.py:132`);
* excluded files are opened: the schema a harness names
  (`output_schema_valid.py:69`; `CHANGELOG.md:73`) and harness files when tools are
  detected (`core/setup.py:198`; line 25 says "never opened");
* with `--recursive`, nested `.github/hooks/*.json` and windsurf workflows are
  components without being in the inventory (`core/discoverers/copilot.py:100` and
  180, `windsurf.py:62` and 149; `base.py:182`), root components lose their tool, and a bare
  SKILL.md stops being one as soon as anything else is found (`core/setup.py:184`);
* in a root that lies below a `.git` or `__pycache__`, `.codex/setup.sh` is a
  component without being in the inventory (`core/discoverers/codex.py`);
* `_is_excluded_path` looks at the path as spelled, the part above the root
  included (`core/discoverers/base.py:40`);
* an excluded SKILL.md keeps its directory from the sweep although nothing reads it
  (`core/setup.py:272`); excluding opencode.json turns the servers of opencode.jsonc
  into a component (`core/discoverers/opencode.py:195`), and excluding an agent, a
  harness or a configuration can make a bare SKILL.md one (`core/setup.py:184`);
* a file that grows between YARA's stat and its read is read whole
  (`inspection/rules/security/yara_scan.py:151` and 160);
* a scanned tree that is also the working directory has its YAML rules loaded
  without being asked (`inspection/yaml_rules.py:220`; `docs/rules-reference.md:15`);
* an MCP configuration that vanished gives a clean result
  (`inspection/engine.py:514`), while a hooks file whose JSON is no mapping
  (`inspection/parsers.py:346`), an impossible YAML date and a rule that raises
  (`inspection/engine.py:260`) end the whole scan;
* a plugin that is a callable may put its own rule under an id it has unregistered
  (`inspection/registry.py:92`);
* the blank `command` of a hook handler hides its `bash`, `powershell` or `exec`
  (`inspection/parsers.py:384`).

Rules:

* a setup-wide rule's report is held against the directives of the file that was
  linted first, and a sub-file without directives inherits those of SKILL.md with
  their line numbers (`inspection/engine.py:133`; `docs/INSTALL.md:69`,
  `README.md:206`);
* directives naming a removed rule id do nothing (`inspection/suppression.py:72`;
  `README.md:207`);
* a preset lowers an error a rule chose itself (`inspection/engine.py:150`;
  `inspection/types.py:143` says it can still raise it);
* custom rules run on text files that are linted "using security-only rules"
  (`inspection/engine.py:86` and 641);
* two skills of one directory name share a node, and only the last one's
  capabilities count (`analysis/component_graph.py:194`); a finding in a command is
  answered for the skill of its name (`analysis/reachability.py:57`), and two
  skills that mention each other are reachable from no trigger and still called
  reachable (line 76; docstring at line 46);
* which circles `circular-references` tells of, and how, depends on the order of
  Python sets, so a baseline can miss one from run to run
  (`inspection/rules/content/circular_references.py:26`);
* in a checkout below a directory called `build`, `dist` or `venv` every skill that
  is not linted is called missing (`inspection/rules/_component_index.py:132`), and a trailing
  comma in an agent's list gives a missing skill without a name
  (`inspection/parsers.py:443`);
* taint rules see assignments in deeper blocks after calls in shallower ones
  (`inspection/rules/security/taint_tracking.py:83`), follow no plain copies, and the shell rule
  takes `$AB` for a use of `A`; `Followable` and `Plain` in `SkillScripts` list what
  they do follow;
* the reply to a single check that breaks off is read as text and becomes a clean
  KEEP (`rubric/scorer.py:226`).

## 8 What is not modelled

* **System analysis** (`analysis/system.py`, `budget.py`, `triggers.py`,
  `context_utilization.py`): sums of token counts and ratios over one list, with
  floating point thresholds; a model would be the code again.
* **Configuration rules**: entries of one or two files compared by patterns on
  their text. `RuleEngine` lets any rule report anything and models the flags by
  which setup-wide ones run once.
* **Pattern rules**: about a hundred rules are regular expressions over text.
  What they match is the property, and a model of the expression would restate it.
* **Text utilities** (`utils/`): redaction, similarity, token counts, path
  display, comments in JSONC are functions on strings.
* **Reports**: layout of terminal, JSON and SARIF output; the card and the exit
  codes are in `LintCommands`.
* **Catalog and diagnosis commands** print what is installed; **release scripts**
  are run by maintainers and CI.
* Of modelled components: the version-control fields of the evidence
  (`ScanEvidence`); names and scopes of components, links that lead out of the
  tree beyond their being skipped (`Discovery`); the fields of the fullsend mapper
  (`Parsers`); text formats of the model's replies (`SecurityReview` keeps what can
  come of reading them, `ReviewCommand` that a result comes of it); the patterns behind a
  capability and the two readings of a description (`ComponentGraph`); the
  patterns that find names in text (`ReferenceRules`); import aliases
  (`PythonScripts`); the order of rules in a catalog and `suggest`, `by_category`,
  `clear` (`RuleCatalog`). The counters of the language model client are
  incremented atomically, as on the CPython builds the package supports.
