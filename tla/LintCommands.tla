---------------------------- MODULE LintCommands ----------------------------
(***************************************************************************)
(* The commands lint, gate, security (without a model) and baseline on one *)
(* setup, run one after the other while the files are edited: cli/lint.py, *)
(* cli/gate.py, cli/security.py, cli/baseline.py, baseline.py,             *)
(* config/presets.py, inspection/fixer.py and the report card of           *)
(* output/report.py.  A command may be killed at any point; both the       *)
(* baseline and the files --fix rewrites are written by write_text, which  *)
(* truncates first.                                                        *)
(*                                                                         *)
(* A file is a sequence of lines, a rule fires on lines with certain       *)
(* texts.  How a rule decides and what suppresses it is in RuleEngine, how *)
(* the files are found in Discovery, how a scan races with edits in        *)
(* ScanEvidence: here a scan is one step.                                  *)
(***************************************************************************)
EXTENDS Naturals, SequencesExt

CONSTANTS
    Files,      \* component files of the setup
    Texts,      \* what a line may say
    Blank,      \* the empty line, one of Texts
    Trees,      \* trees to start from
    Edited,     \* contents an edit may leave in a file
    Catalog,    \* sequence of rules, in catalog order
    TargetRules,\* YAML rules of the scanned tree, part of Catalog
    Meta,       \* Meta[r]: [effect, tier, category, group, sev]
    RecommendedOverrides, StrictOverrides, SecurityOverrides, \* severities
    Fires,      \* Fires[r]: texts r reports
    FiresAlone, \* FiresAlone[r]: also, when no other file is scanned
    Quotes,     \* rules whose message holds the text
    Unsteady,   \* rules that walk a set: circular-references
    Orders,     \* the orders in which a process may walk its sets
    Told,       \* Told[w][r]: texts such a rule tells of then, and from where
    Fix,        \* Fix[r]: the line r would put there, or NoFix
    NoFix,
    Unparsable, \* texts the parser stumbles over
    Outside,    \* files that are not below the root: user configuration
    Unknown,    \* files lint and gate do not recognise when named alone
    Options,    \* command lines
    MaxEdits, MaxRuns   \* bounds on edits and on commands

Rules == {Catalog[i] : i \in DOMAIN Catalog}
NoFile == <<>>
Whole == "."   \* the target of a command that scans the setup
Line == [text : Texts, crlf : BOOLEAN, bytes : {"utf8", "other", "lost"}]

(* The commands baseline and security discover a setup and have no mode    *)
(* for a single file.                                                      *)
ASSUME LintConstants ==
    /\ IsFiniteSet(Files) /\ "none" \notin Files
    /\ Catalog \in Seq(Rules)
    /\ \A o \in Options : /\ o.cmd \in {"gate", "lint", "security", "baseline"}
                          /\ o.target \in Files \cup {Whole}
                          /\ o.cmd \in {"baseline", "security"} => o.target = Whole
    /\ Blank \in Texts /\ TargetRules \subseteq Rules /\ Quotes \subseteq Rules
    /\ Fires \in [Rules -> SUBSET Texts] /\ FiresAlone \in [Rules -> SUBSET Texts]
    /\ Unsteady \subseteq Rules /\ Orders # {}
    /\ \A w \in Orders : \A r \in Unsteady : DOMAIN Told[w][r] \subseteq Fires[r]
    /\ Fix \in [Rules -> Texts \cup {NoFix}] /\ NoFix \notin Texts
    /\ Trees \subseteq [Files -> Seq(Line)] /\ Edited \subseteq Seq(Line)
    /\ Unparsable \subseteq Texts /\ Unknown \subseteq Files /\ Outside \subseteq Files
    /\ MaxEdits \in Nat /\ MaxRuns \in Nat

VARIABLES
    tree,       \* content of every file
    baseline,   \* the baseline file: [state, keys]
    pc,         \* "idle", "scanned", "reported", "repairing", "writing"
    opts,       \* command line of the running command
    results,    \* its findings, filtered once it has reported
    pending,    \* files --fix has not come to
    write,      \* the write under way: [to, content]
    edits, runs,
    seen,       \* tree as scanned by the running command
    order,      \* the order of the sets of its process
    taken,      \* the scan behind the baseline: [tree, opts, order]
    repair,     \* the file --fix read last: [file, before, after, findings, seen]
    last        \* the command that ended, until the next: [opts, seen, order, taken, code, ...]

vars == <<tree, baseline, pc, opts, results, pending, write, edits, runs,
          seen, order, taken, repair, last>>

-----------------------------------------------------------------------------
(* config/presets.py *)
Over(sevs, overrides) ==
    [r \in DOMAIN sevs |-> IF r \in DOMAIN overrides THEN overrides[r] ELSE sevs[r]]
Recommended ==
    Over([r \in Rules \ TargetRules |-> Meta[r].sev], RecommendedOverrides)
Preset(name) ==
    IF name = "strict" THEN Over(Recommended, StrictOverrides) ELSE Recommended
SelectRules(effects, tiers, categories, base) ==
    [r \in {x \in DOMAIN base : /\ Meta[x].effect \in effects
                                /\ Meta[x].tier \in tiers
                                /\ Meta[x].category \in categories} |-> base[r]]
AnyTier == {Meta[r].tier : r \in Rules}
AnyCategory == {Meta[r].category : r \in Rules}
GateRules(provisional) ==
    SelectRules({"block"}, {"gating"} \cup IF provisional THEN {"provisional"} ELSE {},
                AnyCategory, Recommended)
SecurityRules ==
    LET signals == SelectRules({"policy", "signal"}, AnyTier, AnyCategory, Recommended)
        blocks  == SelectRules({"block"}, AnyTier, {"security"}, Recommended)
    IN  Over([r \in DOMAIN signals \cup DOMAIN blocks |-> Recommended[r]],
             SecurityOverrides)
LintRules(preset, everything) ==
    IF everything THEN Preset(preset)
    ELSE SelectRules({"advice"}, AnyTier, AnyCategory, Preset(preset))

(* Mutant of Config: the baseline is taken with what lint runs by default. *)
ConfigBaselineAdvice(o) ==
    CASE o.cmd = "gate" -> GateRules(o.everything)
      [] o.cmd = "security" -> SecurityRules
      [] OTHER -> LintRules(o.preset, o.everything)

(* config_rules of a command; everything is --all or --include-provisional *)
Config(o) ==
    CASE o.cmd = "gate"     -> GateRules(o.everything)
      [] o.cmd = "lint"     -> LintRules(o.preset, o.everything)
      [] o.cmd = "security" -> SecurityRules
      [] o.cmd = "baseline" -> Preset(o.preset)

Severity(o, r) == IF r \in DOMAIN Config(o) THEN Config(o)[r] ELSE Meta[r].sev
Running(o) ==
    {r \in DOMAIN Config(o) : Config(o)[r] # "off"}
      \cup IF o.yaml /\ o.target = Whole THEN TargetRules ELSE {}

-----------------------------------------------------------------------------
(* A finding carries the file as the path on the command line spells it.   *)
Scanned(o) == IF o.target = Whole THEN Files ELSE {o.target} \ Unknown

(* circular-references tells a circle from one of its members, and may pass *)
(* one over, by the order of its sets; it knows no other file than a lone   *)
(* one.                                                                     *)
Reported(o, r, w) ==
    CASE r \in Unsteady /\ o.target = Whole -> DOMAIN Told[w][r]
      [] r \in Unsteady /\ o.target # Whole -> {}
      [] OTHER -> Fires[r] \cup IF o.target = Whole THEN {} ELSE FiresAlone[r]
Message(r, text, w) ==
    IF r \in Unsteady THEN <<r, Told[w][r][text]>>
    ELSE IF r \in Quotes THEN <<r, text>> ELSE <<r>>
Hits(o, t, w, r, f) == {i \in DOMAIN t[f] : t[f][i].text \in Reported(o, r, w)}
RuleFindings(o, t, w) ==
    UNION {{[rule |-> r, sev |-> Severity(o, r), file |-> f, root |-> o.root, line |-> i,
             message |-> Message(r, t[f][i].text, w)] : i \in Hits(o, t, w, r, f)}
           : r \in Running(o), f \in Scanned(o)}
ParserFindings(o, t) ==
    {[rule |-> "parser", sev |-> "error", file |-> f, root |-> o.root, line |-> 0,
      message |-> <<"parser">>] :
       f \in {x \in Scanned(o) : \E i \in DOMAIN t[x] : t[x][i].text \in Unparsable}}
Inspect(o, t, w) == RuleFindings(o, t, w) \cup ParserFindings(o, t)

(* create_baseline, filter_baselined *)
Key(d) == <<d.rule, d.root, d.file, d.message>>
CreateBaseline(ds) == {Key(d) : d \in ds}

(* Mutant of Filtered: a finding goes with its file's, whatever it says. *)
FilteredByRule(ds, keys) ==
    {d \in ds : \A k \in keys : <<k[1], k[2], k[3]>> # <<d.rule, d.root, d.file>>}
Filtered(ds, keys) == {d \in ds : Key(d) \notin keys}
(* lint opens the baseline for a setup only, gate for a lone file as well. *)
Baselined(o) == o.baseline /\ (o.cmd = "lint" => o.target = Whole)
Cleaned(o, ds) == IF o.cmd = "security" THEN {d \in ds : d.rule # "parser"} ELSE ds

Errors(ds) == Cardinality({d \in ds : d.sev = "error"})
Warnings(ds) == Cardinality({d \in ds : d.sev = "warning"})

-----------------------------------------------------------------------------
(* output/report.py: format_report_card *)
Verdict(ds) ==
    IF Errors(ds) > 0 THEN "BLOCKED"
    ELSE IF Warnings(ds) > 0 THEN "NEEDS_WORK" ELSE "CLEAN"
Grade(errors, warnings) ==
    CASE errors = 0 /\ warnings = 0 -> "A"
      [] errors = 0 /\ warnings \in 1..2 -> "B"
      [] errors = 0 /\ warnings >= 3 -> "C"
      [] errors \in 1..4 -> "D"
      [] OTHER -> "F"
Quality(d) == d.rule \in Rules /\ Meta[d.rule].group = "quality"
Security(d) == d.rule \in Rules /\ Meta[d.rule].group = "security"
Basic(ds) == Errors(ds) = 0
Verified(ds) == Basic(ds) /\ Warnings({d \in ds : Quality(d)}) = 0
Hardened(ds) == Verified(ds) /\ Errors({d \in ds : Security(d)}) = 0
Tier(ds) ==
    IF Hardened(ds) THEN "HARDENED" ELSE IF Verified(ds) THEN "VERIFIED"
    ELSE IF Basic(ds) THEN "BASIC" ELSE "NONE"
ReportCard(ds) ==
    [verdict |-> Verdict(ds), grade |-> Grade(Errors(ds), Warnings(ds)), tier |-> Tier(ds)]

(* Exit code of lint and security by --enforce and --fail-on, of the gate. *)
ExitCode(o, ds) ==
    LET fails == CASE o.cmd = "gate"               -> \E d \in ds : d.sev # "info"
                   [] o.cmd # "gate" /\ o.enforce \in {"strict", "fail-on-warning"}
                                                   -> Errors(ds) + Warnings(ds) > 0
                   [] o.cmd # "gate" /\ o.enforce = "fail-on-error" -> Errors(ds) > 0
                   [] OTHER                        -> FALSE
    IN  IF fails THEN 1 ELSE 0

-----------------------------------------------------------------------------
(* inspection/fixer.py: apply_fixes on one file.  The content is split at  *)
(* "\r\n" when it holds one, else at "\n"; a finding's line counts both.   *)
Unix(content) == \A i \in 1 .. Len(content) - 1 : ~content[i].crlf
ChunkStarts(content) ==
    {i \in DOMAIN content : i = 1 \/ Unix(content) \/ content[i - 1].crlf}
ChunkNo(content, i) == Cardinality({s \in ChunkStarts(content) : s <= i})
Fixable(ds, f) == {d \in ds : d.file = f /\ d.line > 0 /\ d.rule \in Rules
                              /\ Fix[d.rule] # NoFix}
Place(r) == CHOOSE i \in DOMAIN Catalog : Catalog[i] = r
Winner(ds) == CHOOSE d \in ds : \A e \in ds : Place(e.rule) <= Place(d.rule)
Rewritten(line) == [line EXCEPT !.bytes = IF @ = "other" THEN "lost" ELSE @]
(* line i of the new content: kept, replacing a chunk, or gone with one *)
NewLine(content, ds, i) ==
    LET n == ChunkNo(content, i)
        at == {d \in ds : d.line = n}
        ends == i = Len(content) \/ i + 1 \in ChunkStarts(content)
    IN  CASE at = {}       -> <<Rewritten(content[i])>>
          [] at # {} /\ ends -> <<[content[i] EXCEPT !.text = Fix[Winner(at).rule],
                                                    !.bytes = "utf8"]>>
          [] OTHER         -> <<>>
(* Mutant of FixedContent: the line numbers are taken to count from zero. *)
FixedContentFromZero(content, ds) ==
    FlattenSeq([i \in DOMAIN content |->
                  NewLine(content, {[d EXCEPT !.line = d.line + 1] : d \in ds}, i)])
FixedContent(content, ds) ==
    FlattenSeq([i \in DOMAIN content |-> NewLine(content, ds, i)])

-----------------------------------------------------------------------------
NoOptions == [cmd |-> "none"]
NoTree == [f \in Files |-> NoFile]
NoWrite == [to |-> "none", content |-> <<>>]
NoOrder == "none"
NoScan == [tree |-> NoTree, opts |-> NoOptions, order |-> NoOrder]
NoRepair == [file |-> "none", before |-> <<>>, after |-> <<>>, findings |-> {}, seen |-> <<>>]
NoLast == [opts |-> NoOptions, seen |-> NoTree, order |-> NoOrder, taken |-> NoScan,
           code |-> 0, shown |-> {}, card |-> ReportCard({})]

Init ==
    /\ tree \in Trees /\ baseline = [state |-> "absent", keys |-> {}]
    /\ pc = "idle" /\ opts = NoOptions /\ results = {} /\ pending = {}
    /\ write = NoWrite /\ edits = 0 /\ runs = 0 /\ seen = NoTree
    /\ order = NoOrder /\ taken = NoScan
    /\ repair = NoRepair /\ last = NoLast

(* The next command; the code of one that ends in an exception is 1. *)
Ends(code, ds) ==
    /\ pc' = "idle" /\ opts' = NoOptions /\ results' = {} /\ pending' = {}
    /\ seen' = NoTree /\ order' = NoOrder /\ write' = NoWrite
    /\ last' = [opts |-> opts, seen |-> seen, order |-> order, taken |-> taken,
                code |-> code, shown |-> ds, card |-> ReportCard(ds)]

(* The order of the sets counts where a rule that walks one is run.        *)
OrdersOf(o) == IF Running(o) \cap Unsteady # {} THEN Orders ELSE {NoOrder}

(* click refuses --baseline on a path that does not exist *)
Scan ==
    /\ pc = "idle" /\ runs < MaxRuns
    /\ \E o \in Options : \E w \in OrdersOf(o) :
         /\ o.baseline => baseline.state # "absent"
         /\ o.target # Whole => tree[o.target] # NoFile
         /\ opts' = o /\ order' = w /\ results' = Inspect(o, tree, w)
    /\ seen' = tree /\ pc' = "scanned" /\ runs' = runs + 1
    /\ repair' = NoRepair /\ last' = NoLast
    /\ UNCHANGED <<tree, baseline, pending, write, edits, taken>>

(* json.loads of a baseline a kill left truncated *)
FailOnBaseline ==
    /\ pc = "scanned" /\ opts.cmd # "baseline"
    /\ Baselined(opts) /\ baseline.state = "torn"
    /\ Ends(1, {})
    /\ UNCHANGED <<tree, baseline, edits, runs, taken, repair>>

Report ==
    /\ pc = "scanned" /\ opts.cmd # "baseline"
    /\ Baselined(opts) => baseline.state = "whole"
    /\ results' = Cleaned(opts, IF Baselined(opts) THEN Filtered(results, baseline.keys)
                                ELSE results)
    /\ pending' = IF opts.cmd = "lint" /\ opts.fix
                  THEN {f \in Files \ Outside : Fixable(results', f) # {}} ELSE {}
    /\ pc' = "reported"
    /\ UNCHANGED <<tree, baseline, opts, write, edits, runs, seen, order, taken, repair, last>>

(* read_bytes, and the new content *)
FixFile ==
    /\ pc = "reported"
    /\ \E f \in pending :
         /\ pending' = pending \ {f}
         /\ IF tree[f] = NoFile THEN UNCHANGED <<write, pc>>
            ELSE /\ write' = [to |-> f, content |-> FixedContent(tree[f], Fixable(results, f))]
                 /\ pc' = "repairing"
         /\ repair' = [file |-> f, before |-> tree[f], after |-> <<>>,
                       findings |-> Fixable(results, f), seen |-> seen[f]]
    /\ UNCHANGED <<tree, baseline, opts, results, edits, runs, seen, order, taken, last>>

(* write_text opens the file, which truncates it, and then fills it: what  *)
(* the file held by now is lost.                                           *)
Truncate ==
    /\ pc = "repairing" /\ pc' = "writing"
    /\ tree' = [tree EXCEPT ![write.to] = <<[text |-> Blank, crlf |-> FALSE, bytes |-> "utf8"]>>]
    /\ UNCHANGED <<baseline, opts, results, pending, write, edits, runs, seen, order, taken,
                   repair, last>>

Fixed ==
    /\ pc = "writing" /\ write.to \in Files
    /\ tree' = [tree EXCEPT ![write.to] = write.content]
    /\ repair' = [repair EXCEPT !.after = write.content]
    /\ write' = NoWrite /\ pc' = "reported"
    /\ UNCHANGED <<baseline, opts, results, pending, edits, runs, seen, order, taken, last>>

(* Mutant of Exit: a run that fixes files passes. *)
ExitFixed ==
    /\ pc = "reported" /\ pending = {}
    /\ Ends(IF opts.cmd = "lint" /\ opts.fix THEN 0 ELSE ExitCode(opts, results), results)
    /\ UNCHANGED <<tree, baseline, edits, runs, taken, repair>>

Exit ==
    /\ pc = "reported" /\ pending = {}
    /\ Ends(ExitCode(opts, results), results)
    /\ UNCHANGED <<tree, baseline, edits, runs, taken, repair>>

OpenBaseline ==
    /\ pc = "scanned" /\ opts.cmd = "baseline"
    /\ baseline' = [state |-> "torn", keys |-> {}]
    /\ pc' = "writing"
    /\ UNCHANGED <<tree, opts, results, pending, write, edits, runs, seen, order, taken, repair,
                   last>>

WriteBaseline ==
    /\ pc = "writing" /\ opts.cmd = "baseline"
    /\ baseline' = [state |-> "whole", keys |-> CreateBaseline(results)]
    /\ taken' = [tree |-> seen, opts |-> opts, order |-> order]
    /\ Ends(0, results)
    /\ UNCHANGED <<tree, edits, runs, repair>>

(* Ctrl-C, or the CI job ends *)
Kill ==
    /\ pc # "idle"
    /\ Ends(130, {})
    /\ UNCHANGED <<tree, baseline, edits, runs, taken, repair>>

(* Someone changes, empties or removes a file. *)
Edit ==
    /\ edits < MaxEdits /\ edits' = edits + 1
    /\ \E f \in Files, content \in Edited \cup {NoFile} :
         content # tree[f] /\ tree' = [tree EXCEPT ![f] = content]
    /\ UNCHANGED <<baseline, pc, opts, results, pending, write, runs, seen, order, taken, repair,
                   last>>

Next ==
    \/ Scan \/ FailOnBaseline \/ Report \/ FixFile \/ Truncate \/ Fixed \/ Exit
    \/ OpenBaseline \/ WriteBaseline \/ Kill \/ Edit

Spec == Init /\ [][Next]_vars
-----------------------------------------------------------------------------
TypeOK ==
    /\ tree \in [Files -> Seq(Line)]
    /\ baseline.state \in {"absent", "torn", "whole"}
    /\ pc \in {"idle", "scanned", "reported", "repairing", "writing"}
    /\ pending \subseteq Files /\ edits \in 0 .. MaxEdits /\ runs \in 0 .. MaxRuns

(* "New findings are surfaced" (baseline.py): when the gate passes, every  *)
(* finding of its scan that is no mere information was there, said the     *)
(* same way, when the baseline was taken, whatever happened to the         *)
(* baseline file and the setup meanwhile.                                  *)
NewFindingsFail ==
    last.opts.cmd = "gate" /\ last.code = 0 =>
        LET was == last.taken IN
        \A d \in Inspect(last.opts, last.seen, last.order) :
            d.sev = "info" \/ /\ last.opts.baseline
                              /\ Key(d) \in CreateBaseline(Inspect(was.opts, was.tree, was.order))

(* Adoption (README.md "Adopt incrementally"): a command that is given the *)
(* baseline of the very files it scans shows nothing and passes, if the    *)
(* root is spelled alike and it runs no rule the baseline's preset turns   *)
(* off, as security does with YARA, nor rules of the target; but a rule    *)
(* that walks a set may show what it words in another way than it did for  *)
(* the baseline, or did not tell of then (circular_references.py:26).      *)
QuietWhileUnchanged ==
    LET o == last.opts IN
    /\ o.cmd \in {"gate", "lint", "security"} /\ last.code \in {0, 1}
    /\ o.baseline /\ baseline.state = "whole" /\ o.target = Whole
    /\ last.seen = last.taken.tree /\ o.root = last.taken.opts.root
    /\ Running(o) \subseteq {r \in Rules \ TargetRules : Preset(last.taken.opts.preset)[r] # "off"}
    => /\ \A d \in last.shown : d.rule \in Unsteady
       /\ last.order = last.taken.order => last.shown = {}
       /\ last.shown = {} => last.code = 0

(* "Groups fixes by file, applies in reverse line order to preserve line   *)
(* numbers" (fixer.py): in a file as it was scanned, decodable and with    *)
(* one kind of line end, --fix changes the lines of shown findings only,   *)
(* and each to what a rule that reported it proposes.                      *)
Uniform(content) == Unix(content) \/ \A i \in 1 .. Len(content) - 1 : content[i].crlf
FixKeepsOtherLines ==
    LET b == repair.before  a == repair.after IN
    a # <<>> /\ b = repair.seen /\ Uniform(b) /\ (\A i \in DOMAIN b : b[i].bytes # "other")
    => /\ Len(a) = Len(b)
       /\ \A i \in DOMAIN b :
            IF \E d \in repair.findings : d.line = i
            THEN \E d \in repair.findings :
                   /\ d.line = i /\ b[i].text \in Fires[d.rule] \cup FiresAlone[d.rule]
                   /\ a[i] = [text |-> Fix[d.rule], crlf |-> b[i].crlf, bytes |-> "utf8"]
            ELSE a[i] = b[i]

(* Exit code and report card of a lint agree, also after --fix and with a  *)
(* baseline: --enforce strict fails unless the card is CLEAN and graded A, *)
(* the tier is NONE exactly for the grades D and F, and a failing verdict. *)
CardMatchesExit ==
    last.opts.cmd = "lint" /\ last.code \in {0, 1} /\ last.shown # {} =>
        /\ last.opts.enforce = "strict" =>
               (last.code = 0 <=> last.card.verdict = "CLEAN" /\ last.card.grade = "A")
        /\ last.card.tier = "NONE" <=> last.card.grade \in {"D", "F"}
        /\ last.card.tier = "NONE" <=> last.card.verdict = "BLOCKED"

=============================================================================
