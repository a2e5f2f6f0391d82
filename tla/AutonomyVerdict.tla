-------------------------- MODULE AutonomyVerdict --------------------------
(***************************************************************************)
(* harness-autonomy: how one run of the command turns the findings of a    *)
(* checkout into PASS, FAIL or REVIEW_REQUIRED (cli/autonomy.py).          *)
(*                                                                         *)
(* The scan itself (discovery and rules) is the subject of ScanEvidence    *)
(* and RuleEngine; here its outcome is the set `head`, and the outcome of  *)
(* scanning the base checkout is `base`.  A finding keeps what the verdict *)
(* can tell apart: rule, file relative to the scan root, message (a model  *)
(* value standing for its hash, root path blanked), severity and line.     *)
(***************************************************************************)
EXTENDS Naturals, Sequences, FiniteSets

CONSTANTS
    Rules,          \* rule identifiers that can appear on a finding
    Effect,         \* Effect[r]: the effect the registry records for r
    Paths,          \* files, by path relative to the scan root
    BaseName,       \* BaseName[p]: last component of p
    Globs,          \* patterns a policy entry can carry in its `file` key
    Match,          \* Match[g]: the strings fnmatch accepts for pattern g
    NoGlob,         \* a policy entry without a `file` key
    BadGlob,        \* a `file` key that is not a string
    Universe,       \* the findings a scan of head or base can produce
    PolicyFiles,    \* contents the --policy file can have
    Roots,          \* spellings of a scan root in findings: this one, others
    ScanRoot,       \* the one this run was started with
    Baselines       \* key sets the --baseline file can have

Severities == {"error", "warning", "info"}
Effects == {"block", "policy", "signal", "advice", "unregistered"}

Finding ==
    [rule : Rules, path : Paths, msg : STRING, sev : Severities, line : Nat]

(***************************************************************************)
(* finding_key: rule, relative file and message hash; neither the severity *)
(* nor the line is part of it.                                             *)
(***************************************************************************)
FindingKey(f) == <<f.rule, f.path, f.msg>>

Keys == {FindingKey(f) : f \in Universe}

(***************************************************************************)
(* The key filter_baselined compares: the file as the scan spelled it and  *)
(* the message as it stands, so the root is part of it.                    *)
(***************************************************************************)
BaselineKey(root, f) == <<f.rule, root, f.path, f.msg>>

BaselineKeys == {BaselineKey(r, f) : r \in Roots, f \in Universe}

Grant == [rule : Rules, file : Globs \cup {NoGlob}]

(* One item of the policy file's accept list.  `shaped` is false when the  *)
(* item is no mapping or has no rule string, `reason` when the reason is   *)
(* missing or blank.                                                       *)
Entry ==
    [shaped : BOOLEAN, reason : BOOLEAN, rule : Rules,
     file : Globs \cup {NoGlob, BadGlob}]

ASSUME VerdictConstants ==
    /\ Effect \in [Rules -> Effects]
    /\ BaseName \in [Paths -> STRING]
    /\ Universe \subseteq Finding
    /\ IsFiniteSet(Universe)
    /\ PolicyFiles \subseteq Seq(Entry)
    /\ ScanRoot \in Roots
    /\ Baselines \subseteq SUBSET BaselineKeys

VARIABLES
    pc,          \* where the command is
    head,        \* findings of the checkout under review
    base,        \* findings of the --compare checkout
    comparing,   \* whether --compare was given
    baseline,    \* keys of the --baseline file
    entries,     \* policy entries still to load
    grants,      \* PolicyGrant list built so far
    preKeys,     \* pre_existing_keys, once the base was scanned
    todo,        \* diagnostics classify has not reached
    suppressed,  \* diagnostics the baseline removed
    blocking, policy, waived, preExisting, info,   \* the report's buckets
    verdict      \* AutonomyReport.verdict

vars == <<pc, head, base, comparing, baseline, entries, grants, preKeys, todo,
          suppressed, blocking, policy, waived, preExisting, info, verdict>>

inputs == <<head, base, comparing, baseline>>
buckets == <<blocking, policy, waived, preExisting, info>>

(* Mutant of Covers: the rule of the grant is not compared. *)
CoversAnyRule(g, f) ==
    \/ g.file = NoGlob
    \/ g.file \in Globs /\ f.path \in Match[g.file]
    \/ g.file \in Globs /\ BaseName[f.path] \in Match[g.file]

(***************************************************************************)
(* PolicyGrant.covers: the rule matches and the pattern, if there is one,  *)
(* matches the file relative to the root or its bare name.                 *)
(***************************************************************************)
Covers(g, f) ==
    /\ g.rule = f.rule
    /\ \/ g.file = NoGlob
       \/ g.file \in Globs /\ f.path \in Match[g.file]
       \/ g.file \in Globs /\ BaseName[f.path] \in Match[g.file]

(* The entries load_policy turns into grants; every other entry only adds  *)
(* a line to policy_problems.                                              *)
Acceptable(e) ==
    /\ e.shaped
    /\ e.reason
    /\ Effect[e.rule] = "policy"
    /\ e.file # BadGlob

Covering(f) == {i \in DOMAIN grants : Covers(grants[i], f)}

(* classify asks the registry for the effect; a rule it does not know      *)
(* (the "parser" pseudo-rule) counts as block, and so does any effect that *)
(* is not policy.                                                          *)
IsPolicyFact(f) == Effect[f.rule] = "policy"

Init ==
    /\ pc = "scan"
    /\ head \in SUBSET Universe
    /\ comparing \in BOOLEAN
    /\ base \in IF comparing THEN SUBSET Universe ELSE {{}}
    /\ baseline \in Baselines
    /\ entries \in PolicyFiles
    /\ grants = <<>>
    /\ preKeys = {}
    /\ todo = {}
    /\ suppressed = {}
    /\ blocking = {} /\ policy = {} /\ waived = {}
    /\ preExisting = {} /\ info = {}
    /\ verdict = "PASS"

(* inspect_setup, then filter_baselined on its results. *)
FilterBaselined ==
    /\ pc = "scan"
    /\ suppressed' = {f \in head : BaselineKey(ScanRoot, f) \in baseline}
    /\ todo' = head \ suppressed'
    /\ pc' = "policy"
    /\ UNCHANGED <<inputs, entries, grants, preKeys, buckets, verdict>>

LoadEntry ==
    /\ pc = "policy"
    /\ entries # <<>>
    /\ LET e == Head(entries) IN
         grants' = IF Acceptable(e)
                   THEN Append(grants, [rule |-> e.rule, file |-> e.file])
                   ELSE grants
    /\ entries' = Tail(entries)
    /\ UNCHANGED <<pc, inputs, preKeys, todo, suppressed, buckets, verdict>>

(* --compare: the base is scanned with the same rules and limits, and all  *)
(* its diagnostics, whatever their severity, become keys.                  *)
ScanBase ==
    /\ pc = "policy"
    /\ entries = <<>>
    /\ preKeys' = IF comparing THEN {FindingKey(f) : f \in base} ELSE {}
    /\ pc' = "classify"
    /\ UNCHANGED <<inputs, entries, grants, todo, suppressed, buckets, verdict>>

-----------------------------------------------------------------------------
(* One iteration of classify's loop, one action per branch. *)

Take(f) ==
    /\ pc = "classify"
    /\ todo' = todo \ {f}
    /\ UNCHANGED <<pc, inputs, entries, grants, preKeys, suppressed, verdict>>

Decides(f) == f.sev # "info" /\ FindingKey(f) \notin preKeys

ClassifyInfo(f) ==
    /\ Take(f)
    /\ f.sev = "info"
    /\ info' = info \cup {f}
    /\ UNCHANGED <<blocking, policy, waived, preExisting>>

(* Mutant of ClassifyPreExisting: the branch continues without appending. *)
ClassifyPreExistingDropped(f) ==
    /\ Take(f)
    /\ f.sev # "info"
    /\ FindingKey(f) \in preKeys
    /\ UNCHANGED <<blocking, policy, waived, preExisting, info>>

ClassifyPreExisting(f) ==
    /\ Take(f)
    /\ f.sev # "info"
    /\ FindingKey(f) \in preKeys
    /\ preExisting' = preExisting \cup {f}
    /\ UNCHANGED <<blocking, policy, waived, info>>

ClassifyWaived(f) ==
    /\ Take(f)
    /\ Decides(f)
    /\ IsPolicyFact(f)
    /\ \E i \in Covering(f) :
         /\ \A j \in Covering(f) : i <= j
         /\ waived' = waived \cup {<<f, grants[i]>>}
    /\ UNCHANGED <<blocking, policy, preExisting, info>>

ClassifyPolicy(f) ==
    /\ Take(f)
    /\ Decides(f)
    /\ IsPolicyFact(f)
    /\ Covering(f) = {}
    /\ policy' = policy \cup {f}
    /\ UNCHANGED <<blocking, waived, preExisting, info>>

ClassifyBlocking(f) ==
    /\ Take(f)
    /\ Decides(f)
    /\ ~IsPolicyFact(f)
    /\ blocking' = blocking \cup {f}
    /\ UNCHANGED <<policy, waived, preExisting, info>>

Classify ==
    \E f \in todo :
        \/ ClassifyInfo(f)
        \/ ClassifyPreExisting(f)
        \/ ClassifyWaived(f)
        \/ ClassifyPolicy(f)
        \/ ClassifyBlocking(f)

(* Mutant of VerdictOf: the two tests in the opposite order. *)
VerdictOfPolicyFirst(bl, po) ==
    IF po # {} THEN "REVIEW_REQUIRED" ELSE IF bl # {} THEN "FAIL" ELSE "PASS"

VerdictOf(bl, po) ==
    IF bl # {} THEN "FAIL" ELSE IF po # {} THEN "REVIEW_REQUIRED" ELSE "PASS"

Decide ==
    /\ pc = "classify"
    /\ todo = {}
    /\ verdict' = VerdictOf(blocking, policy)
    /\ pc' = "exit"
    /\ UNCHANGED <<inputs, entries, grants, preKeys, todo, suppressed, buckets>>

(* AutonomyReport.exit_code, which the command raises as SystemExit. *)
ExitCode ==
    CASE verdict = "PASS" -> 0
      [] verdict = "FAIL" -> 1
      [] OTHER -> 2

Next == FilterBaselined \/ LoadEntry \/ ScanBase \/ Classify \/ Decide

Spec == Init /\ [][Next]_vars

-----------------------------------------------------------------------------
(* Properties *)

(* Every variable keeps its type: only entries that load_policy accepts     *)
(* become grants.                                                          *)
TypeOK ==
    /\ pc \in {"scan", "policy", "classify", "exit"}
    /\ head \subseteq Universe /\ base \subseteq Universe
    /\ comparing \in BOOLEAN
    /\ baseline \subseteq BaselineKeys
    /\ entries \in Seq(Entry)
    /\ grants \in Seq(Grant)
    /\ preKeys \subseteq Keys
    /\ todo \subseteq Universe /\ suppressed \subseteq Universe
    /\ blocking \subseteq Universe /\ policy \subseteq Universe
    /\ waived \subseteq (Universe \X Grant)
    /\ preExisting \subseteq Universe /\ info \subseteq Universe
    /\ verdict \in {"PASS", "FAIL", "REVIEW_REQUIRED"}

WaivedFindings == {w[1] : w \in waived}

(***************************************************************************)
(* No finding disappears on its way through the command: from the start of *)
(* the loop every head finding is suppressed by the baseline (and counted  *)
(* as such), still to be classified, or in exactly one bucket of the       *)
(* report.  This is what "instead of hiding them" in the README means for  *)
(* filter_baselined and classify together.                                 *)
(***************************************************************************)
EveryFindingAccounted ==
    pc # "scan" =>
        /\ head = suppressed \cup todo \cup blocking \cup policy
                    \cup WaivedFindings \cup preExisting \cup info
        /\ suppressed \cap todo = {}
        /\ blocking \cap (suppressed \cup todo) = {}
        /\ policy \cap (suppressed \cup todo \cup blocking) = {}
        /\ WaivedFindings \cap (suppressed \cup todo \cup blocking \cup policy) = {}
        /\ preExisting \cap (suppressed \cup todo \cup blocking \cup policy
                                \cup WaivedFindings) = {}
        /\ info \cap (suppressed \cup todo \cup blocking \cup policy
                        \cup WaivedFindings \cup preExisting) = {}

Done == pc = "exit"

(* What a policy file as a whole accepts, read off the file and not off    *)
(* the loader's state.                                                     *)
Excused(f) ==
    \/ BaselineKey(ScanRoot, f) \in baseline
    \/ f.sev = "info"
    \/ comparing /\ FindingKey(f) \in {FindingKey(b) : b \in base}

(***************************************************************************)
(* The command answers FAIL exactly when the head carries a defect that is *)
(* neither baselined nor on the base: no policy entry can accept a finding *)
(* of a block rule or of a rule the registry does not know.                *)
(***************************************************************************)
FailIffDefect ==
    Done => (ExitCode = 1 <=>
               \E f \in head : ~Excused(f) /\ Effect[f.rule] # "policy")

(***************************************************************************)
(* PASS is only given when every finding of the head is excused or is a    *)
(* policy fact for which the report names a grant for that very rule.      *)
(***************************************************************************)
PassMeansAccepted ==
    Done /\ ExitCode = 0 =>
        \A f \in head :
            \/ Excused(f)
            \/ Effect[f.rule] = "policy" /\ \E w \in waived : w[1] = f /\ w[2].rule = f.rule
=============================================================================
