---------------------------- MODULE ScanEvidence ----------------------------
(***************************************************************************)
(* One scan of a setup, from the inventory to the evidence of the report,  *)
(* while the tree may change: core/setup.py discover_setup, core/          *)
(* inventory.py, core/fingerprint.py, inspection/setup.py parse_setup, the *)
(* rules that open files of their own, and output/provenance.py.           *)
(*                                                                         *)
(* The scan visits the tree several times: it lists it twice (inventory,   *)
(* discoverers), stats it, reads the components, hashes the inventory,     *)
(* reads the components again and lets rules open further files.  A file   *)
(* is classified by which of these visits its path qualifies for; what the *)
(* inventory lists and what the discoverers claim are two questions, asked *)
(* with different patterns.                                                *)
(***************************************************************************)
EXTENDS Naturals, FiniteSets, Sequences

CONSTANTS
    Files,      \* paths the tree may hold
    Contents,   \* what a file may contain
    Size,       \* Size[c]: bytes of content c
    Absent,     \* "content" of a path that does not exist
    Trees,      \* trees a scan may start from
    Listed,     \* paths a tool discoverer lists (collect_paths)
    Claimed,    \* paths a tool discoverer turns into a component (discover)
    Swept,      \* paths the uncategorized sweep returns
    Bare,       \* the SKILL.md of the root, when it is such a path: {} or {f}
    SkillMds,   \* the SKILL.md files among these
    Inside,     \* Inside[s]: the paths in the directory of SKILL.md s, s included
    Skipped,    \* paths below vendor/, node_modules/, .venv/ or .tox/
    Scripts,    \* the *.py, *.sh and *.md files that rules open in a skill
    Refers,     \* Refers[h]: paths the rules on harness file h look at
    Excluded,   \* paths matching --exclude or a default exclude
    Deep,       \* paths nested deeper than max_depth
    MaxFiles,       \* max_files
    MaxFileBytes,   \* max_file_bytes
    MaxTotalBytes,  \* max_total_bytes
    MaxEdits    \* bound on changes to the tree

ASSUME ScanConstants ==
    /\ Absent \notin Contents /\ Size \in [Contents -> Nat]
    /\ Trees \subseteq [Files -> Contents \cup {Absent}]
    /\ Listed \subseteq Files /\ Claimed \subseteq Files /\ Swept \subseteq Files
    /\ Bare \subseteq Files \ (Claimed \cup Swept) /\ \A f, g \in Bare : f = g
    /\ SkillMds \subseteq Listed \cup Claimed \cup Bare
    /\ Inside \in [SkillMds -> SUBSET Files]
    /\ Skipped \subseteq Files /\ Scripts \subseteq Files
    /\ Refers \in [Claimed -> SUBSET Files]
    /\ Excluded \subseteq Files /\ Deep \subseteq Files
    /\ MaxFiles \in Nat /\ MaxFileBytes \in Nat /\ MaxTotalBytes \in Nat
    /\ MaxEdits \in Nat

VARIABLES
    phase,      \* where the scan is
    tree,       \* content of every path
    edits,      \* changes made so far
    touched,    \* paths changed since the scan began
    candidates, \* result of the uncategorized sweep
    inventory,  \* files the scan measures, hashes and lets YARA read
    measured,   \* files _enforce_scan_limits has counted
    total,      \* their bytes, each as large as it was when it was counted
    pending,    \* work left in the current phase
    known,      \* paths the discoverers have made a component of
    discovered, \* discovered[f]: component content
    hashed,     \* hashed[f]: content in the fingerprint
    parsed,     \* parsed[f]: content the parsers saw
    walk,       \* what is left of the directory walk of a rule
    sized,      \* the file YARA has measured and not yet read, and its content then
    opened      \* what rules have read for themselves

scanVars == <<phase, tree, edits, touched, candidates, inventory, measured, total,
          pending, known, discovered, hashed, parsed, walk, sized, opened>>

user == <<tree, edits, touched>>
listing == <<candidates, inventory, measured, total>>
ruleReads == <<walk, sized, opened>>
reads == <<discovered, hashed, parsed, ruleReads>>

Phases == {"idle", "collect", "stat", "glob", "read", "rest", "hash",
           "parse", "rules", "done", "rejected", "dead"}
Ended == {"idle", "done", "rejected", "dead"}
RuleReads == {"scripts", "yara", "refs"}
Large(f) == Size[tree[f]] > MaxFileBytes

Present == {f \in Files : tree[f] # Absent}
Nothing == [f \in {} |-> Absent]

(* g with f |-> v added or replaced. *)
With(g, f, v) == [x \in DOMAIN g \cup {f} |-> IF x = f THEN v ELSE g[x]]

Components == DOMAIN discovered

-----------------------------------------------------------------------------
ScanInit ==
    /\ phase = "idle" /\ tree \in Trees /\ edits = 0 /\ touched = {}
    /\ candidates = {} /\ inventory = {} /\ measured = {} /\ total = 0
    /\ pending = {} /\ known = {} /\ discovered = Nothing /\ hashed = Nothing
    /\ parsed = Nothing /\ walk = {} /\ sized = {} /\ opened = {}

(* Somebody writes, creates or deletes a file, at any moment. *)
Edit(f, content) ==
    /\ edits < MaxEdits /\ tree[f] # content
    /\ edits' = edits + 1
    /\ tree' = [tree EXCEPT ![f] = content]
    /\ touched' = touched \cup {f}
    /\ UNCHANGED <<phase, listing, pending, known, reads>>

(* discover_setup begins: the sweep of the config directories.  A command  *)
(* that ended leaves nothing behind for the next one.                      *)
Sweep ==
    /\ phase \in Ended /\ phase' = "collect"
    /\ candidates' = Present \cap Swept
    /\ touched' = {} /\ inventory' = {} /\ measured' = {} /\ total' = 0
    /\ pending' = {} /\ known' = {} /\ discovered' = Nothing /\ hashed' = Nothing
    /\ parsed' = Nothing /\ walk' = {} /\ sized' = {} /\ opened' = {}
    /\ UNCHANGED <<tree, edits>>

(* skill_bundle_files *)
Bundle(s) == (Inside[s] \cap Present) \ Skipped

(* Mutant of InventoryPaths: the SKILL.md of the root is forgotten. *)
InventoryWithoutBare ==
    LET listed == (Listed \cap Present) \cup candidates
    IN  (listed \cup UNION {Bundle(s) : s \in listed \cap SkillMds}) \ Excluded

(* Mutant of InventoryPaths: skills are listed without their bundles. *)
InventoryWithoutBundles == (((Listed \cup Bare) \cap Present) \cup candidates) \ Excluded

(***************************************************************************)
(* collect_setup_file_paths: what the discoverers list, the sweep, and the *)
(* bundle of every SKILL.md among them; then the excludes.                 *)
(***************************************************************************)
InventoryPaths ==
    LET listed == ((Listed \cup Bare) \cap Present) \cup candidates
    IN  (listed \cup UNION {Bundle(s) : s \in listed \cap SkillMds}) \ Excluded

CollectInventory ==
    /\ phase = "collect" /\ phase' = "stat"
    /\ inventory' = InventoryPaths
    /\ pending' = inventory'
    /\ UNCHANGED <<user, candidates, measured, total, known, reads>>

(* Mutant of Stat: each file is held against the limits, their sum is not. *)
StatUnsummed(f) ==
    /\ phase = "stat" /\ f \in pending
    /\ pending' = pending \ {f}
    /\ measured' = IF f \in Present THEN measured \cup {f} ELSE measured
    /\ total' = IF f \in Present THEN Size[tree[f]] ELSE total
    /\ phase' = IF f \in Present /\ (\/ f \in Deep
                                     \/ Cardinality(measured') > MaxFiles
                                     \/ Large(f)
                                     \/ total' > MaxTotalBytes)
                THEN "rejected" ELSE phase
    /\ UNCHANGED <<user, candidates, inventory, known, reads>>

(***************************************************************************)
(* _enforce_scan_limits, one path: a vanished file is not counted; depth,  *)
(* number, size and sum are held against their limits.                     *)
(***************************************************************************)
Stat(f) ==
    /\ phase = "stat" /\ f \in pending
    /\ pending' = pending \ {f}
    /\ measured' = IF f \in Present THEN measured \cup {f} ELSE measured
    /\ total' = IF f \in Present THEN total + Size[tree[f]] ELSE total
    /\ phase' = IF f \in Present /\ (\/ f \in Deep
                                     \/ Cardinality(measured') > MaxFiles
                                     \/ Large(f)
                                     \/ total' > MaxTotalBytes)
                THEN "rejected" ELSE phase
    /\ UNCHANGED <<user, candidates, inventory, known, reads>>

(* The discoverers list the tree again. *)
Glob ==
    /\ phase = "stat" /\ pending = {} /\ phase' = "read"
    /\ known' = Claimed \cap Present
    /\ pending' = known'
    /\ UNCHANGED <<user, listing, reads>>

(***************************************************************************)
(* parse_file: an excluded file is not opened and its dummy component is   *)
(* dropped later; a file that vanished raises and ends the command.        *)
(***************************************************************************)
ReadComponent(f) ==
    /\ phase \in {"read", "rest"} /\ f \in pending
    /\ pending' = pending \ {f}
    /\ discovered' = IF f \in Present \ Excluded
                     THEN With(discovered, f, tree[f]) ELSE discovered
    /\ phase' = IF f \notin Present \cup Excluded THEN "dead" ELSE phase
    /\ UNCHANGED <<user, listing, known, hashed, parsed, ruleReads>>

(***************************************************************************)
(* _discover_uncategorized: the swept files that no discoverer made a      *)
(* component of and that no skill directory holds.                         *)
(***************************************************************************)
AddUncategorized ==
    /\ phase = "read" /\ pending = {} /\ phase' = "rest"
    /\ pending' = (candidates \ known)
                      \ UNION {Inside[s] : s \in known \cap SkillMds}
    /\ known' = known \cup pending'
    /\ UNCHANGED <<user, listing, reads>>

(* A bare skill directory: no component at all, but a SKILL.md. *)
BareSkillOnly == known = {} /\ (Bare \cap Present) \ Excluded # {}

ReadBareSkill ==
    /\ phase = "rest" /\ pending = {} /\ BareSkillOnly
    /\ known' = Bare
    /\ discovered' = [f \in Bare |-> tree[f]]
    /\ UNCHANGED <<user, phase, listing, pending, hashed, parsed, ruleReads>>

StartHash ==
    /\ phase = "rest" /\ pending = {} /\ ~BareSkillOnly /\ phase' = "hash"
    /\ pending' = inventory
    /\ UNCHANGED <<user, listing, known, reads>>

(* fingerprint_setup, one file of the inventory. *)
Hash(f) ==
    /\ phase = "hash" /\ f \in pending
    /\ pending' = pending \ {f}
    /\ hashed' = IF f \in Present THEN With(hashed, f, tree[f]) ELSE hashed
    /\ UNCHANGED <<user, phase, listing, known, discovered, parsed, ruleReads>>

StartParse ==
    /\ phase = "hash" /\ pending = {} /\ phase' = "parse"
    /\ pending' = Components \cap (Claimed \cup Bare)
    /\ UNCHANGED <<user, listing, known, reads>>

(* parse_setup: every component a tool claims is opened again; a missing   *)
(* file parses to an error, recorded here as Absent.                       *)
Parse(f) ==
    /\ phase = "parse" /\ f \in pending
    /\ pending' = pending \ {f}
    /\ parsed' = With(parsed, f, tree[f])
    /\ UNCHANGED <<user, phase, listing, known, discovered, hashed, ruleReads>>

(* inspect_setup: which rules read files depends on the component. *)
StartRules ==
    /\ phase = "parse" /\ pending = {} /\ phase' = "rules"
    /\ pending' = {w \in (DOMAIN parsed) \X RuleReads :
                       /\ parsed[w[1]] # Absent
                       /\ IF w[1] \in SkillMds THEN w[2] # "refs"
                          ELSE w[1] \in Claimed /\ Refers[w[1]] # {} /\ w[2] = "refs"}
    /\ UNCHANGED <<user, listing, known, reads>>

(* ScanArtifacts.iter_files below the skill: the list is taken at once. *)
Walked(s) == (Inside[s] \cap Present) \ Excluded

(* Rules run one after the other; none starts before the walk of another   *)
(* has ended.                                                              *)
Free == phase = "rules" /\ walk = {} /\ sized = {}

(* A rule takes its list: the sub-file, AST, taint and component graph     *)
(* readers ("scripts"), or the YARA rule.                                  *)
StartWalk(s, reader) ==
    /\ Free /\ <<s, reader>> \in pending
    /\ pending' = pending \ {<<s, reader>>}
    /\ walk' = {[by |-> s, reader |-> reader, file |-> f] :
                   f \in IF reader = "yara" THEN Walked(s) ELSE Walked(s) \cap Scripts}
    /\ UNCHANGED <<user, phase, listing, known, discovered, hashed, parsed, sized, opened>>

(* What w.by's reader has got out of file f, and what it believed of it.   *)
Got(w, believed) == [by |-> w.by, reader |-> w.reader, file |-> w.file,
                     seen |-> believed, data |-> tree[w.file]]

(* One script is read; a vanished one is skipped.  The limits some readers *)
(* have of their own, on number and size, only make them read less.        *)
OpenScript(w) ==
    /\ w \in walk /\ w.reader = "scripts"
    /\ walk' = walk \ {w}
    /\ opened' = IF w.file \in Present THEN opened \cup {Got(w, tree[w.file])} ELSE opened
    /\ UNCHANGED <<user, phase, listing, pending, known, discovered, hashed, parsed, sized>>

(* The YARA rule measures a file again: one that has vanished, lies        *)
(* outside the inventory or is above max_file_bytes is passed over.        *)
SizeForYara(w) ==
    /\ w \in walk /\ w.reader = "yara" /\ sized = {}
    /\ walk' = walk \ {w}
    /\ sized' = IF w.file \in Present \cap inventory /\ ~Large(w.file)
                THEN {Got(w, tree[w.file])} ELSE {}
    /\ UNCHANGED <<user, phase, listing, pending, known, discovered, hashed, parsed, opened>>

(* ... and then reads it, as it is by now. *)
ReadForYara(z) ==
    /\ z \in sized /\ sized' = {}
    /\ opened' = IF z.file \in Present THEN opened \cup {Got(z, z.seen)} ELSE opened
    /\ UNCHANGED <<user, phase, listing, pending, known, discovered, hashed, parsed, walk>>

(***************************************************************************)
(* harness/referenced-file-exists, output-schema-valid, output-contract-   *)
(* instructed: paths taken from the harness file, looked at or read as     *)
(* they are.                                                               *)
(***************************************************************************)
FollowReferences(h) ==
    /\ Free /\ <<h, "refs">> \in pending
    /\ pending' = pending \ {<<h, "refs">>}
    /\ opened' = opened \cup {Got([by |-> h, reader |-> "refs", file |-> f], tree[f]) :
                                 f \in Refers[h]}
    /\ UNCHANGED <<user, phase, listing, known, discovered, hashed, parsed, walk, sized>>

(* collect_scan_evidence: the fingerprint computed during discovery stands *)
(* for what was scanned.                                                   *)
Finish ==
    /\ Free /\ pending = {} /\ phase' = "done"
    /\ UNCHANGED <<user, listing, pending, known, reads>>

ScanNext ==
    \/ \E f \in Files, c \in Contents \cup {Absent} : Edit(f, c)
    \/ Sweep \/ CollectInventory \/ Glob \/ AddUncategorized \/ ReadBareSkill
    \/ StartHash \/ StartParse \/ StartRules \/ Finish
    \/ \E f \in Files : Stat(f) \/ ReadComponent(f) \/ Hash(f) \/ Parse(f)
    \/ \E s \in SkillMds, reader \in {"scripts", "yara"} : StartWalk(s, reader)
    \/ \E w \in walk : OpenScript(w) \/ SizeForYara(w)
    \/ \E z \in sized : ReadForYara(z)
    \/ \E h \in Claimed : FollowReferences(h)

ScanSpec == ScanInit /\ [][ScanNext]_scanVars

-----------------------------------------------------------------------------
(* Every variable keeps its type. *)
ScanTypes ==
    /\ phase \in Phases
    /\ tree \in [Files -> Contents \cup {Absent}]
    /\ edits \in 0..MaxEdits
    /\ touched \subseteq Files
    /\ candidates \subseteq Swept
    /\ inventory \subseteq Files \ Excluded
    /\ measured \subseteq inventory /\ total \in Nat
    /\ pending \subseteq Files \cup (Files \X RuleReads)
    /\ known \subseteq Files
    /\ \A g \in {discovered, hashed, parsed} :
          /\ DOMAIN g \subseteq Files
          /\ \A f \in DOMAIN g : g[f] \in Contents \cup {Absent}
    /\ walk \subseteq [by : SkillMds, reader : RuleReads, file : Files]
    /\ sized \cup opened \subseteq [by : Files, reader : RuleReads, file : Files,
                                    seen : Contents \cup {Absent},
                                    data : Contents \cup {Absent}]

(* What discover() claims and no listing names: below a directory,         *)
(* .github/hooks and the skills, workflows and hooks of .devin and         *)
(* .windsurf under --recursive.  Such a component is linted without being  *)
(* measured or fingerprinted.                                              *)
Unlisted == Claimed \ (Listed \cup Swept)

(***************************************************************************)
(* Whatever else changes in the tree meanwhile, a component whose own file *)
(* nobody touched is in the inventory, unless no listing names it, and the *)
(* content in the fingerprint is the one the parsers and the security      *)
(* review see: the three reads of discover_setup, fingerprint_setup and    *)
(* parse_setup and its two listings agree on every file that holds still.  *)
(***************************************************************************)
StableComponentCovered ==
    phase = "done" =>
        \A f \in Components \ touched :
            /\ f \notin Unlisted => f \in DOMAIN hashed
            /\ f \in DOMAIN hashed => hashed[f] = discovered[f]
            /\ f \in DOMAIN parsed => parsed[f] = discovered[f]

(***************************************************************************)
(* What rules read for themselves is in the evidence: a file that holds    *)
(* still, in the directory of a listed skill that does, is in the          *)
(* fingerprint with the content the rule read, whichever of the readers    *)
(* came to it and whenever.  Two kinds of file are read and not            *)
(* fingerprinted: those below vendor/ and its like (inventory.py:105       *)
(* leaves out what _fswalk.py:15 does not), and those a harness names;     *)
(* when these are in the fingerprint, they too are what was read.          *)
(***************************************************************************)
RulesReadWhatWasHashed ==
    phase = "done" =>
        \A o \in opened : o.file \notin touched =>
            /\ o.reader = "yara" => o.file \in DOMAIN hashed
            /\ o.reader = "scripts" /\ o.by \notin touched \cup Unlisted
                  /\ o.file \notin Skipped => o.file \in DOMAIN hashed
            /\ o.file \in DOMAIN hashed => hashed[o.file] = o.data

(* The files the limits are for: the components a listing names and what   *)
(* YARA reads; and what they weigh together, as a set to be counted.       *)
Weighed == (Components \ Unlisted) \cup {o.file : o \in {x \in opened : x.reader = "yara"}}
Bytes(fs) == {b \in fs \X (1..MaxFileBytes) : b[2] <= Size[tree[b[1]]]}

(***************************************************************************)
(* The limits hold for what a scan reads, even when the tree outruns it:   *)
(* the untouched files among the listed components and among what YARA     *)
(* read are within max_depth, max_file_bytes, max_files and                *)
(* max_total_bytes (_enforce_scan_limits runs before any of them is        *)
(* opened); the YARA rule reads no file the limits were not applied to,    *)
(* even one created after the inventory was taken (allowed_paths), and one *)
(* above max_file_bytes only when it changed between its own stat and its  *)
(* read (yara_scan.py:151 and 160), never for having grown earlier.        *)
(***************************************************************************)
StableWithinLimits ==
    /\ \A f \in Weighed \ touched :
          f \notin Deep /\ tree[f] \in Contents /\ Size[tree[f]] <= MaxFileBytes
    /\ Cardinality(Weighed \ touched) <= MaxFiles
    /\ Cardinality(Bytes(Weighed \ touched)) <= MaxTotalBytes
    /\ \A o \in opened : o.reader = "yara" =>
          /\ o.file \in inventory
          /\ Size[o.data] > MaxFileBytes => o.data # o.seen
=============================================================================
