------------------------ MODULE EvidenceVerdictProofs ------------------------
(***************************************************************************)
(* Two ends of what a certificate says: what a scan has seen, and the      *)
(* verdict.                                                                *)
(*                                                                         *)
(* ScanEvidence, for every tree, every sequence of edits during the scan   *)
(* and all limits: EvidenceInv relates the listings and reads of a scan    *)
(* through the files that hold still.                                      *)
(*                                                                         *)
(* AutonomyVerdict, for every rule set, policy file, baseline and pair of  *)
(* scans: the verdict properties speak of the end of a run only; IInv adds *)
(* what each bucket is known to hold at every moment and which phases      *)
(* leave the buckets empty.                                                *)
(***************************************************************************)
EXTENDS AutonomyVerdict, ScanEvidence, FiniteSetTheorems, TLAPS

(* The keys --compare contributes once the base has been scanned. *)
BaseKeys == IF comparing THEN {FindingKey(b) : b \in base} ELSE {}

(* Nothing is classified before the loop, and preKeys is then final. *)
StageFacts ==
    /\ pc \in {"scan", "policy"} =>
         /\ blocking = {} /\ policy = {} /\ waived = {}
         /\ preExisting = {} /\ info = {}
    /\ pc \in {"classify", "exit"} => preKeys = BaseKeys
    /\ pc = "exit" => todo = {} /\ verdict = VerdictOf(blocking, policy)

(* What every member of a bucket satisfies. *)
BucketFacts ==
    /\ \A f \in suppressed : BaselineKey(ScanRoot, f) \in baseline
    /\ \A f \in todo : BaselineKey(ScanRoot, f) \notin baseline
    /\ \A f \in blocking : ~Excused(f) /\ Effect[f.rule] # "policy"
    /\ \A f \in policy : ~Excused(f) /\ Effect[f.rule] = "policy"
    /\ \A w \in waived : Effect[w[1].rule] = "policy" /\ w[2].rule = w[1].rule
    /\ \A f \in preExisting : Excused(f)
    /\ \A f \in info : Excused(f)

IInv == TypeOK /\ EveryFindingAccounted /\ StageFacts /\ BucketFacts

(* One step of the command keeps the types. *)
LEMMA TypeStep == TypeOK /\ [Next]_vars => TypeOK'
  <2> SUFFICES ASSUME TypeOK, [Next]_vars PROVE TypeOK'
    OBVIOUS
  <2> USE VerdictConstants DEF TypeOK, inputs, buckets
  <2>1. CASE FilterBaselined
    BY <2>1 DEF FilterBaselined
  <2>2. CASE LoadEntry
    <3>1. Head(entries) \in Entry /\ Tail(entries) \in Seq(Entry)
      BY <2>2 DEF LoadEntry
    <3>2. Acceptable(Head(entries)) =>
            [rule |-> Head(entries).rule, file |-> Head(entries).file] \in Grant
      BY <3>1 DEF Acceptable, Entry, Grant
    <3>3. grants' \in Seq(Grant)
      BY <2>2, <3>2 DEF LoadEntry
    <3> QED BY <2>2, <3>1, <3>3 DEF LoadEntry
  <2>3. CASE ScanBase
    BY <2>3 DEF ScanBase, Keys
  <2>4. CASE Classify
    <3> PICK f \in todo : \/ ClassifyInfo(f) \/ ClassifyPreExisting(f)
                          \/ ClassifyWaived(f) \/ ClassifyPolicy(f)
                          \/ ClassifyBlocking(f)
      BY <2>4 DEF Classify
    <3> USE DEF Take
    <3>1. CASE ClassifyInfo(f)
      BY <3>1 DEF ClassifyInfo
    <3>2. CASE ClassifyPreExisting(f)
      BY <3>2 DEF ClassifyPreExisting
    <3>3. CASE ClassifyWaived(f)
      <4>1. PICK i \in Covering(f) : waived' = waived \cup {<<f, grants[i]>>}
        BY <3>3 DEF ClassifyWaived
      <4>2. grants[i] \in Grant
        BY <4>1 DEF Covering
      <4> QED BY <3>3, <4>1, <4>2 DEF ClassifyWaived
    <3>4. CASE ClassifyPolicy(f)
      BY <3>4 DEF ClassifyPolicy
    <3>5. CASE ClassifyBlocking(f)
      BY <3>5 DEF ClassifyBlocking
    <3> QED BY <3>1, <3>2, <3>3, <3>4, <3>5
  <2>5. CASE Decide
    BY <2>5 DEF Decide, VerdictOf
  <2>6. CASE UNCHANGED vars
    BY <2>6 DEF vars
  <2> QED BY <2>1, <2>2, <2>3, <2>4, <2>5, <2>6 DEF Next

(* The variables keep their types: in particular every grant the loader    *)
(* builds carries a pattern covers can use.                                *)
THEOREM TypeCorrect == Spec => []TypeOK
<1>1. Init => TypeOK
  BY VerdictConstants DEF Init, TypeOK
<1> QED BY <1>1, TypeStep, PTL DEF Spec

-----------------------------------------------------------------------------
(* What a finding is excused by depends only on the inputs, the policy and *)
(* the effects of the rules, none of which a step changes.                 *)
LEMMA ExcusedStable ==
    ASSUME UNCHANGED inputs, NEW f
    PROVE  Excused(f)' <=> Excused(f)
BY DEF inputs, Excused

(* Before the loop every finding is suppressed or waits for it. *)
LEMMA FilterStep == IInv /\ FilterBaselined => IInv'
<1> SUFFICES ASSUME IInv, FilterBaselined PROVE IInv'
  OBVIOUS
<1>1. TypeOK'
  BY TypeStep DEF IInv, Next
<1> USE DEF IInv, FilterBaselined, StageFacts, buckets, inputs, WaivedFindings
<1>2. EveryFindingAccounted'
  BY DEF EveryFindingAccounted
<1>3. StageFacts'
  OBVIOUS
<1>4. BucketFacts'
  BY DEF BucketFacts
<1> QED BY <1>1, <1>2, <1>3, <1>4

(* A branch of the loop moves one finding out of todo into the bucket its  *)
(* branch condition describes.                                             *)
LEMMA ClassifyStep == IInv /\ Classify => IInv'
<1> SUFFICES ASSUME IInv, Classify PROVE IInv'
  OBVIOUS
<1>1. TypeOK'
  BY TypeStep DEF IInv, Next
<1>2. PICK f \in todo : \/ ClassifyInfo(f) \/ ClassifyPreExisting(f)
                        \/ ClassifyWaived(f) \/ ClassifyPolicy(f)
                        \/ ClassifyBlocking(f)
  BY DEF Classify
<1>3. Take(f)
  BY <1>2 DEF ClassifyInfo, ClassifyPreExisting, ClassifyWaived,
              ClassifyPolicy, ClassifyBlocking
<1>4. /\ pc = "classify" /\ pc' = pc /\ UNCHANGED inputs
      /\ UNCHANGED <<grants, preKeys, suppressed, verdict>>
      /\ todo' = todo \ {f} /\ f \in todo /\ preKeys = BaseKeys
  BY <1>3 DEF Take, IInv, StageFacts
<1>5. StageFacts'
  BY <1>4 DEF StageFacts, BaseKeys, inputs
<1>6. \A g : Excused(g)' <=> Excused(g)
  BY <1>4, ExcusedStable
<1>7. Excused(f) <=> f.sev = "info" \/ FindingKey(f) \in preKeys
  BY <1>4 DEF IInv, BucketFacts, Excused, BaseKeys
<1>8. CASE ClassifyInfo(f)
  <2>1. WaivedFindings' = WaivedFindings /\ UNCHANGED <<blocking, policy, waived, preExisting>>
        /\ info' = info \cup {f} /\ f.sev = "info"
    BY <1>8 DEF ClassifyInfo, WaivedFindings
  <2>2. EveryFindingAccounted'
    BY <2>1, <1>4 DEF IInv, EveryFindingAccounted, inputs
  <2>3. BucketFacts'
    BY <2>1, <1>4, <1>6, <1>7 DEF IInv, BucketFacts, inputs
  <2> QED BY <1>1, <1>5, <2>2, <2>3 DEF IInv
<1>9. CASE ClassifyPreExisting(f)
  <2>1. WaivedFindings' = WaivedFindings /\ UNCHANGED <<blocking, policy, waived, info>>
        /\ preExisting' = preExisting \cup {f} /\ FindingKey(f) \in preKeys
    BY <1>9 DEF ClassifyPreExisting, WaivedFindings
  <2>2. EveryFindingAccounted'
    BY <2>1, <1>4 DEF IInv, EveryFindingAccounted, inputs
  <2>3. BucketFacts'
    BY <2>1, <1>4, <1>6, <1>7 DEF IInv, BucketFacts, inputs
  <2> QED BY <1>1, <1>5, <2>2, <2>3 DEF IInv
<1>10. CASE ClassifyWaived(f)
  <2>1. PICK i \in Covering(f) : waived' = waived \cup {<<f, grants[i]>>}
    BY <1>10 DEF ClassifyWaived
  <2>2. UNCHANGED <<blocking, policy, preExisting, info>> /\ Effect[f.rule] = "policy"
    BY <1>10 DEF ClassifyWaived, IsPolicyFact
  <2>3. grants[i].rule = f.rule
    BY <2>1 DEF Covering, Covers
  <2>4. WaivedFindings' = WaivedFindings \cup {f}
    <3>1. f \in WaivedFindings'
      <4>1. <<f, grants[i]>> \in waived' /\ <<f, grants[i]>>[1] = f
        BY <2>1
      <4> QED BY <4>1 DEF WaivedFindings
    <3>2. WaivedFindings \subseteq WaivedFindings'
      BY <2>1 DEF WaivedFindings
    <3>3. WaivedFindings' \subseteq WaivedFindings \cup {f}
      <4>1. SUFFICES ASSUME NEW w \in waived' PROVE w[1] \in WaivedFindings \cup {f}
        BY DEF WaivedFindings
      <4>2. w \in waived \/ w = <<f, grants[i]>>
        BY <2>1
      <4> QED BY <4>2 DEF WaivedFindings
    <3> QED BY <3>1, <3>2, <3>3
  <2>5. EveryFindingAccounted'
    BY <2>2, <2>4, <1>4 DEF IInv, EveryFindingAccounted, inputs
  <2>6. \A w \in waived' : Effect[w[1].rule] = "policy" /\ w[2].rule = w[1].rule
    BY <2>1, <2>2, <2>3 DEF IInv, BucketFacts
  <2>7. BucketFacts'
    BY <2>2, <2>6, <1>4, <1>6 DEF IInv, BucketFacts, inputs
  <2> QED BY <1>1, <1>5, <2>5, <2>7 DEF IInv
<1>11. CASE ClassifyPolicy(f)
  <2>1. WaivedFindings' = WaivedFindings /\ UNCHANGED <<blocking, waived, preExisting, info>>
        /\ policy' = policy \cup {f} /\ Decides(f) /\ Effect[f.rule] = "policy"
    BY <1>11 DEF ClassifyPolicy, WaivedFindings, IsPolicyFact
  <2>2. EveryFindingAccounted'
    BY <2>1, <1>4 DEF IInv, EveryFindingAccounted, inputs
  <2>3. BucketFacts'
    BY <2>1, <1>4, <1>6, <1>7 DEF IInv, BucketFacts, inputs, Decides
  <2> QED BY <1>1, <1>5, <2>2, <2>3 DEF IInv
<1>12. CASE ClassifyBlocking(f)
  <2>1. WaivedFindings' = WaivedFindings /\ UNCHANGED <<policy, waived, preExisting, info>>
        /\ blocking' = blocking \cup {f} /\ Decides(f) /\ Effect[f.rule] # "policy"
    BY <1>12 DEF ClassifyBlocking, WaivedFindings, IsPolicyFact
  <2>2. EveryFindingAccounted'
    BY <2>1, <1>4 DEF IInv, EveryFindingAccounted, inputs
  <2>3. BucketFacts'
    BY <2>1, <1>4, <1>6, <1>7 DEF IInv, BucketFacts, inputs, Decides
  <2> QED BY <1>1, <1>5, <2>2, <2>3 DEF IInv
<1> QED BY <1>2, <1>8, <1>9, <1>10, <1>11, <1>12

(* The inductive invariant holds throughout. *)
THEOREM Inductive == Spec => []IInv
<1>1. Init => IInv
  BY VerdictConstants DEF Init, IInv, TypeOK, EveryFindingAccounted, StageFacts,
                          BucketFacts, WaivedFindings
<1>2. IInv /\ [Next]_vars => IInv'
  <2> SUFFICES ASSUME IInv, [Next]_vars PROVE IInv'
    OBVIOUS
  <2>1. TypeOK'
    BY TypeStep DEF IInv
  <2>2. CASE LoadEntry
    BY <2>1, <2>2 DEF LoadEntry, IInv, EveryFindingAccounted, StageFacts, BucketFacts,
                      WaivedFindings, Excused, inputs, buckets
  <2>3. CASE ScanBase
    BY <2>1, <2>3 DEF ScanBase, IInv, EveryFindingAccounted, StageFacts, BucketFacts,
                      BaseKeys, WaivedFindings, Excused, inputs, buckets
  <2>4. CASE Decide
    BY <2>1, <2>4 DEF Decide, IInv, EveryFindingAccounted, StageFacts, BucketFacts,
                      BaseKeys, WaivedFindings, Excused, inputs, buckets
  <2>5. CASE UNCHANGED vars
    BY <2>1, <2>5 DEF vars, IInv, EveryFindingAccounted, StageFacts, BucketFacts,
                      BaseKeys, WaivedFindings, Excused
  <2> QED BY <2>2, <2>3, <2>4, <2>5, FilterStep, ClassifyStep DEF Next
<1> QED BY <1>1, <1>2, PTL DEF Spec

(* No finding disappears on its way through the command. *)
THEOREM Accounted == Spec => []EveryFindingAccounted
BY Inductive, PTL DEF IInv

(* At the end a finding that nothing excuses is in the bucket its rule's   *)
(* effect asks for.                                                        *)
LEMMA DefectsBlock ==
    ASSUME IInv, Done, NEW f \in head, ~Excused(f)
    PROVE  /\ Effect[f.rule] # "policy" => f \in blocking
           /\ Effect[f.rule] = "policy" => f \in policy \cup WaivedFindings
<1>1. todo = {} /\ pc # "scan"
  BY DEF IInv, StageFacts, Done
<1>2. f \in suppressed \cup blocking \cup policy \cup WaivedFindings
              \cup preExisting \cup info
  BY <1>1 DEF IInv, EveryFindingAccounted
<1>3. f \notin suppressed \cup preExisting \cup info
  BY DEF IInv, BucketFacts, Excused
<1>4. f \in WaivedFindings \cup policy => Effect[f.rule] = "policy"
  BY DEF IInv, BucketFacts, WaivedFindings
<1>5. f \in blocking => Effect[f.rule] # "policy"
  BY DEF IInv, BucketFacts
<1> QED BY <1>2, <1>3, <1>4, <1>5

(* FAIL is answered exactly for a defect nothing excuses. *)
THEOREM FailCorrect == Spec => []FailIffDefect
<1>1. IInv => FailIffDefect
  <2> SUFFICES ASSUME IInv, Done
               PROVE  ExitCode = 1 <=>
                        \E f \in head : ~Excused(f) /\ Effect[f.rule] # "policy"
    BY DEF FailIffDefect
  <2>1. ExitCode = 1 <=> blocking # {}
    BY DEF IInv, StageFacts, Done, ExitCode, VerdictOf
  <2>2. blocking \subseteq head
    BY DEF IInv, EveryFindingAccounted, Done
  <2> QED BY <2>1, <2>2, DefectsBlock DEF IInv, BucketFacts
<1> QED BY <1>1, Inductive, PTL

(* PASS is answered only when every finding is excused or granted. *)
THEOREM PassCorrect == Spec => []PassMeansAccepted
<1>1. IInv => PassMeansAccepted
  <2> SUFFICES ASSUME IInv, Done, ExitCode = 0, NEW f \in head, ~Excused(f)
               PROVE  Effect[f.rule] = "policy"
                        /\ \E w \in waived : w[1] = f /\ w[2].rule = f.rule
    BY DEF PassMeansAccepted
  <2>1. blocking = {} /\ policy = {}
    BY DEF IInv, StageFacts, Done, ExitCode, VerdictOf
  <2>2. Effect[f.rule] = "policy" /\ f \in WaivedFindings
    BY <2>1, DefectsBlock
  <2>3. PICK w \in waived : f = w[1]
    BY <2>2 DEF WaivedFindings
  <2>4. w[2].rule = f.rule
    BY <2>3 DEF IInv, BucketFacts
  <2> QED BY <2>2, <2>3, <2>4
<1> QED BY <1>1, Inductive, PTL

-----------------------------------------------------------------------------
(* The phases in which files are opened, those after them included.        *)
Reading == {"read", "rest", "hash", "parse", "rules", "done", "dead"}

(* The files that are there and that nobody touched during the scan: all   *)
(* its listings and reads agree on them.                                   *)
Held == Present \ touched

(* The two listings, and the bundles of the skills among what is listed.   *)
Listable == Listed \cup Bare \cup Swept
Bundled(s) == (Held \cap Inside[s]) \ (Skipped \cup Excluded)
Listings ==
    /\ candidates \subseteq Swept
    /\ phase # "idle" => Held \cap Swept \subseteq candidates
    /\ phase \notin {"idle", "collect"} =>
          /\ (Held \cap Listable) \ Excluded \subseteq inventory
          /\ \A s \in Held \cap Listable \cap SkillMds : Bundled(s) \subseteq inventory

(* The limits.  Load, what was counted and holds still weighs no more than what  *)
(* was added up.                                                           *)
Load == Bytes(measured \ touched)
Within(f) == f \in measured /\ f \notin Deep /\ tree[f] \in Contents /\ Size[tree[f]] <= MaxFileBytes
Limited ==
    /\ IsFiniteSet(measured) /\ measured \subseteq Files /\ total \in Nat
    /\ IsFiniteSet(Load) /\ Cardinality(Load) <= total
    /\ phase # "rejected" => Cardinality(measured) <= MaxFiles /\ total <= MaxTotalBytes
    /\ phase = "stat" => \A f \in (Held \cap inventory) \ pending : Within(f)
    /\ phase \in Reading => \A f \in Held \cap inventory : Within(f)

(* What was opened.                                                        *)
Opened ==
    /\ phase \notin Reading => Components = {}
    /\ phase = "read" => pending \subseteq Claimed
    /\ phase = "rest" => pending \subseteq Swept
    /\ Components \subseteq Claimed \cup Bare \cup Swept
    /\ \A f \in Components \ touched : f \in Present \ Excluded /\ discovered[f] = tree[f]

(* What stands in the evidence.                                            *)
Evidence ==
    /\ phase = "hash" => (Held \cap inventory) \ pending \subseteq DOMAIN hashed
    /\ phase \in {"parse", "rules", "done"} => Held \cap inventory \subseteq DOMAIN hashed
    /\ \A f \in DOMAIN hashed \ touched : hashed[f] = tree[f]
    /\ \A f \in DOMAIN parsed \ touched : parsed[f] = tree[f]

(* What rules read for themselves: whose it is, where it lies and what was *)
(* found.  A reader of scripts or of YARA is a skill that was parsed.      *)
Reader(s) == s \in SkillMds /\ s \in DOMAIN parsed /\ parsed[s] # Absent
Walks ==
    /\ DOMAIN parsed \subseteq Claimed \cup Bare
    /\ phase = "parse" => pending \subseteq Claimed \cup Bare
    /\ phase = "rules" => \A w \in pending : w[2] # "refs" => Reader(w[1])
    /\ phase # "rules" => walk = {} /\ sized = {}
    /\ phase \notin {"rules", "done"} => opened = {}
    /\ \A w \in walk : Reader(w.by) /\ w.file \in Inside[w.by] \ Excluded
    /\ \A z \in sized : z.reader = "yara"
    /\ \A o \in sized \cup opened : o.reader = "yara" =>
          /\ o.file \in inventory /\ o.seen \in Contents /\ Size[o.seen] <= MaxFileBytes
          /\ o.file \in Present \cup touched
    /\ \A o \in opened :
          /\ o.reader = "scripts" => Reader(o.by) /\ o.file \in (Inside[o.by] \ Excluded)
                                                /\ o.file \in Present \cup touched
          /\ o.file \notin touched => o.data = tree[o.file]

EvidenceInv ==
    /\ phase \in Phases /\ tree \in [Files -> Contents \cup {Absent}]
    /\ Listings /\ Limited /\ Opened /\ Evidence /\ Walks

-----------------------------------------------------------------------------
(* A change of the tree takes a file away from those that hold still, and  *)
(* changes nothing of the others.                                          *)
LEMMA EditKeeps ==
    ASSUME EvidenceInv, NEW f \in Files, NEW content \in Contents \cup {Absent}, Edit(f, content)
    PROVE  EvidenceInv'
<1>1. /\ tree' \in [Files -> Contents \cup {Absent}]
      /\ \A g \in Files \ {f} : tree'[g] = tree[g]
      /\ touched' = touched \cup {f}
      /\ UNCHANGED <<phase, candidates, inventory, measured, pending, known, discovered, hashed, parsed,
                     walk, sized, opened, total>>
  BY DEF Edit, EvidenceInv, listing, reads, ruleReads
<1>2. Held' \subseteq Held /\ f \notin Held' /\ \A g \in Held' : tree'[g] = tree[g]
  BY <1>1 DEF Held, Present
<1>3. Listings'
  BY <1>1, <1>2 DEF EvidenceInv, Listings, Bundled
<1>4. Limited'
  <2>1. Load' \subseteq Load
    BY <1>1 DEF EvidenceInv, Limited, Load, Bytes
  <2>2. IsFiniteSet(Load') /\ Cardinality(Load') <= Cardinality(Load)
    BY <2>1, FS_Subset DEF EvidenceInv, Limited
  <2>3. Cardinality(Load') \in Nat /\ Cardinality(Load) \in Nat
    BY <2>2, FS_CardinalityType DEF EvidenceInv, Limited
  <2>4. \A g \in Held' : Within(g) => Within(g)'
    BY <1>1, <1>2 DEF Within
  <2> QED BY <1>1, <1>2, <2>2, <2>3, <2>4 DEF EvidenceInv, Limited
<1>5. Opened'
  <2>1. \A g \in Present : g = f \/ g \in Present'
    BY <1>1 DEF Present
  <2>2. ASSUME NEW g \in Components \ touched'
        PROVE  g \in Present' \ Excluded /\ discovered[g] = tree'[g]
    <3>1. g \in Present \ Excluded /\ discovered[g] = tree[g] /\ g # f
      BY <1>1, <2>2 DEF EvidenceInv, Opened
    <3> QED BY <1>1, <3>1 DEF Present
  <2>3. Components' = Components
    BY <1>1 DEF Components
  <2> QED BY <1>1, <2>1, <2>2, <2>3 DEF EvidenceInv, Opened
<1>6. Evidence'
  <2>1. ASSUME NEW h \in {hashed, parsed}, NEW g \in DOMAIN h \ touched'
        PROVE  h[g] = tree'[g]
    <3>1. h[g] = tree[g] /\ g # f
      BY <1>1, <2>1 DEF EvidenceInv, Evidence
    <3>2. tree'[g] = tree[g]
      BY <1>1, <3>1 DEF Edit, EvidenceInv
    <3> QED BY <3>1, <3>2
  <2> QED BY <1>1, <1>2, <2>1 DEF EvidenceInv, Evidence
<1>7. Walks'
  <2>1. Present \cup touched \subseteq Present' \cup touched'
    BY <1>1 DEF Present
  <2>2. ASSUME NEW o \in opened, o.file \notin touched'
        PROVE  o.data = tree'[o.file]
    BY <1>1, <2>2 DEF EvidenceInv, Walks, Edit
  <2> QED BY <1>1, <2>1, <2>2 DEF EvidenceInv, Walks, Reader
<1> QED BY <1>1, <1>3, <1>4, <1>5, <1>6, <1>7 DEF EvidenceInv

(* A step that neither touches the tree nor opens a file.                  *)
LEMMA HeldStays ==
    ASSUME UNCHANGED <<tree, touched>>
    PROVE  Held' = Held /\ Present' = Present
BY DEF Held, Present

LEMMA SweepKeeps ==
    ASSUME EvidenceInv, Sweep, ScanConstants
    PROVE  EvidenceInv'
<1>1. /\ phase' = "collect" /\ tree' = tree /\ candidates' = Present \cap Swept
      /\ touched' = {} /\ inventory' = {} /\ measured' = {} /\ total' = 0
      /\ pending' = {} /\ discovered' = Nothing /\ hashed' = Nothing /\ parsed' = Nothing
      /\ walk' = {} /\ sized' = {} /\ opened' = {}
  BY DEF Sweep
<1>2. DOMAIN Nothing = {}
  BY DEF Nothing
<1>3. Held' = Present
  BY <1>1 DEF Held, Present
<1>4. Listings'
  BY <1>1, <1>3 DEF Listings
<1>5. Limited'
  <2>1. IsFiniteSet({}) /\ Cardinality({}) = 0 /\ 0 <= MaxFiles /\ 0 <= MaxTotalBytes
    BY FS_EmptySet DEF ScanConstants
  <2>2. Load' = {}
    BY <1>1 DEF Load, Bytes
  <2> QED BY <1>1, <2>1, <2>2 DEF Limited, Reading
<1>6. Opened'
  BY <1>1, <1>2 DEF Opened, Reading, Components
<1>7. Evidence'
  BY <1>1, <1>2 DEF Evidence
<1>8. Walks'
  BY <1>1, <1>2 DEF EvidenceInv, Walks, Reader
<1> QED BY <1>1, <1>4, <1>5, <1>6, <1>7, <1>8 DEF EvidenceInv, Phases

LEMMA CollectKeeps ==
    ASSUME EvidenceInv, CollectInventory
    PROVE  EvidenceInv'
<1>1. /\ phase = "collect" /\ phase' = "stat" /\ inventory' = InventoryPaths /\ pending' = inventory'
      /\ UNCHANGED <<tree, touched, candidates, measured, total, discovered, hashed, parsed, walk, sized,
                     opened>>
  BY DEF CollectInventory, user, reads, ruleReads
<1>2. Held' = Held /\ Present' = Present
  BY <1>1, HeldStays
<1>3. /\ (Held \cap Listable) \ Excluded \subseteq InventoryPaths
      /\ \A s \in Held \cap Listable \cap SkillMds : Bundled(s) \subseteq InventoryPaths
  <2> DEFINE listed == ((Listed \cup Bare) \cap Present) \cup candidates
  <2>1. Held \cap Listable \subseteq listed
    BY <1>1 DEF EvidenceInv, Listings, Held, Listable
  <2>2. \A s \in listed \cap SkillMds : Bundled(s) \subseteq Bundle(s) \ Excluded
    BY DEF Bundled, Bundle, Held
  <2>3. InventoryPaths = (listed \cup UNION {Bundle(s) : s \in listed \cap SkillMds}) \ Excluded
    BY DEF InventoryPaths
  <2> HIDE DEF listed
  <2>4. ASSUME NEW s \in listed \cap SkillMds  PROVE Bundled(s) \subseteq InventoryPaths
    BY <2>2, <2>3
  <2> QED BY <2>1, <2>3, <2>4
<1>4. Listings'
  BY <1>1, <1>2, <1>3 DEF EvidenceInv, Listings, Bundled
<1>5. Limited'
  BY <1>1, <1>2 DEF EvidenceInv, Limited, Reading, Load, Bytes
<1>6. Opened'
  BY <1>1, <1>2 DEF EvidenceInv, Opened, Reading, Components
<1>7. Evidence'
  BY <1>1, <1>2 DEF EvidenceInv, Evidence
<1>8. Walks'
  BY <1>1, <1>2 DEF EvidenceInv, Walks, Reader
<1> QED BY <1>1, <1>4, <1>5, <1>6, <1>7, <1>8 DEF EvidenceInv, Phases

(* What a file adds to the bytes of a set.                                 *)
LEMMA BytesGrow ==
    ASSUME NEW M, NEW f, IsFiniteSet(Bytes(M)), Size[tree[f]] \in Nat
    PROVE  /\ IsFiniteSet(Bytes(M \cup {f}))
           /\ Cardinality(Bytes(M \cup {f})) <= Cardinality(Bytes(M)) + Size[tree[f]]
<1> DEFINE n == Size[tree[f]]
           row == {f} \X (1..n)
<1>1. IsFiniteSet({f}) /\ Cardinality({f}) = 1
  BY FS_Singleton
<1>2. IsFiniteSet(1..n) /\ Cardinality(1..n) = n
  <2>1. n \in Nat
    OBVIOUS
  <2> HIDE DEF n
  <2>2. IsFiniteSet(1..n) /\ Cardinality(1..n) = IF 1 > n THEN 0 ELSE n - 1 + 1
    BY <2>1, FS_Interval
  <2> QED BY <2>1, <2>2
<1>3. IsFiniteSet(row) /\ Cardinality(row) = n
  <2>1. IsFiniteSet(row) /\ Cardinality(row) = 1 * Cardinality(1..n)
    BY <1>1, <1>2, FS_Product
  <2> QED BY <1>2, <2>1
<1>4. Bytes(M \cup {f}) \subseteq Bytes(M) \cup row
  <2> SUFFICES ASSUME NEW b \in Bytes(M \cup {f})  PROVE b \in Bytes(M) \cup row
    OBVIOUS
  <2>1. b \in (M \cup {f}) \X (1..MaxFileBytes) /\ b[2] <= Size[tree[b[1]]]
    BY DEF Bytes
  <2>2. CASE b[1] \in M
    BY <2>1, <2>2 DEF Bytes
  <2>3. CASE b[1] = f
    <3>1. b[2] \in 1..Size[tree[f]]
      BY <2>1, <2>3
    <3> QED BY <2>1, <2>3, <3>1
  <2> QED BY <2>1, <2>2, <2>3
<1> HIDE DEF row
<1>5. /\ IsFiniteSet(Bytes(M) \cup row)
      /\ Cardinality(Bytes(M) \cup row)
            = Cardinality(Bytes(M)) + Cardinality(row) - Cardinality(Bytes(M) \cap row)
  BY <1>3, FS_Union
<1>6. IsFiniteSet(Bytes(M) \cap row)
  BY <1>3, FS_Subset
<1>7. /\ IsFiniteSet(Bytes(M \cup {f}))
      /\ Cardinality(Bytes(M \cup {f})) <= Cardinality(Bytes(M) \cup row)
  BY <1>4, <1>5, FS_Subset
<1>8. /\ Cardinality(Bytes(M)) \in Nat /\ Cardinality(Bytes(M) \cap row) \in Nat
      /\ Cardinality(Bytes(M) \cup row) \in Nat /\ Cardinality(Bytes(M \cup {f})) \in Nat
  BY <1>5, <1>6, <1>7, FS_CardinalityType
<1> QED BY <1>3, <1>5, <1>7, <1>8

(* A path that passes is there, is counted and is within the limits.       *)
LEMMA StatKeeps ==
    ASSUME EvidenceInv, NEW f \in Files, Stat(f), ScanConstants
    PROVE  EvidenceInv'
<1>1. /\ phase = "stat" /\ f \in pending /\ pending' = pending \ {f} /\ phase' \in {"stat", "rejected"}
      /\ measured' = IF f \in Present THEN measured \cup {f} ELSE measured
      /\ total' = IF f \in Present THEN total + Size[tree[f]] ELSE total
      /\ UNCHANGED <<tree, touched, candidates, inventory, discovered, hashed, parsed, walk, sized,
                     opened>>
  BY DEF Stat, user, reads, ruleReads
<1>2. Held' = Held /\ Present' = Present
  BY <1>1, HeldStays
<1>3. f \in Present => tree[f] \in Contents /\ Size[tree[f]] \in Nat
  BY DEF EvidenceInv, Present, ScanConstants
<1>4. Listings'
  BY <1>1, <1>2 DEF EvidenceInv, Listings, Bundled
<1>5. Limited'
  <2>1. IsFiniteSet(measured') /\ measured' \subseteq Files /\ total' \in Nat
    <3>1. IsFiniteSet(measured \cup {f})
      BY FS_AddElement DEF EvidenceInv, Limited
    <3>2. total \in Nat /\ measured \subseteq Files /\ IsFiniteSet(measured)
      BY DEF EvidenceInv, Limited
    <3> QED BY <1>1, <1>3, <3>1, <3>2
  <2>2. IsFiniteSet(Load') /\ Cardinality(Load') <= total'
    <3> DEFINE M == measured \ touched
    <3>1. Load = Bytes(M) /\ Load' = Bytes(measured' \ touched)
      BY <1>1 DEF Load, Bytes
    <3>2. IsFiniteSet(Load) /\ Cardinality(Load) \in Nat /\ Cardinality(Load) <= total /\ total \in Nat
      BY FS_CardinalityType DEF EvidenceInv, Limited
    <3>3. CASE f \notin Present \/ f \in touched
      <4>1. measured' \ touched = M /\ total <= total'
        BY <1>1, <1>3, <3>2, <3>3
      <4>2. Load' = Load
        BY <3>1, <4>1
      <4> QED BY <2>1, <3>2, <4>1, <4>2
    <3>4. CASE f \in Present /\ f \notin touched
      <4>1. measured' \ touched = M \cup {f}
        BY <1>1, <3>4
      <4> HIDE DEF M
      <4>2. Load' = Bytes(M \cup {f})
        BY <3>1, <4>1
      <4>3. IsFiniteSet(Bytes(M))
        BY <3>1, <3>2
      <4>4. IsFiniteSet(Load') /\ Cardinality(Load') <= Cardinality(Load) + Size[tree[f]]
        BY <1>3, <3>1, <3>4, <4>2, <4>3, BytesGrow
      <4>5. Cardinality(Load') \in Nat /\ total' = total + Size[tree[f]]
        BY <1>1, <3>4, <4>4, FS_CardinalityType
      <4> QED BY <1>3, <3>2, <3>4, <4>4, <4>5
    <3> QED BY <3>3, <3>4
  <2>3. phase' = "stat" => \/ f \notin Present
                           \/ /\ f \notin Deep /\ ~(Cardinality(measured') > MaxFiles)
                              /\ ~(Size[tree[f]] > MaxFileBytes) /\ ~(total' > MaxTotalBytes)
    BY <1>1 DEF Stat, Large
  <2>4. phase' # "rejected" => Cardinality(measured') <= MaxFiles /\ total' <= MaxTotalBytes
    <3>1. Cardinality(measured') \in Nat /\ MaxFiles \in Nat /\ MaxTotalBytes \in Nat
      BY <2>1, FS_CardinalityType DEF ScanConstants
    <3> QED BY <1>1, <2>1, <2>3, <3>1 DEF EvidenceInv, Limited
  <2>5. phase' = "stat" => \A g \in (Held \cap inventory) \ pending' : Within(g)'
    <3> SUFFICES ASSUME phase' = "stat", NEW g \in (Held \cap inventory) \ pending'
                 PROVE  Within(g)'
      OBVIOUS
    <3>1. CASE g = f
      <4>1. f \in Present /\ f \in measured'
        BY <1>1, <3>1 DEF Held
      <4>2. Size[tree[f]] <= MaxFileBytes
        BY <1>3, <2>3, <4>1 DEF ScanConstants
      <4> QED BY <1>1, <1>3, <2>3, <3>1, <4>1, <4>2 DEF Within
    <3>2. CASE g # f
      BY <1>1, <3>2 DEF EvidenceInv, Limited, Within
    <3> QED BY <3>1, <3>2
  <2> QED BY <1>1, <1>2, <2>1, <2>2, <2>4, <2>5 DEF Limited, Reading
<1>6. Opened'
  BY <1>1, <1>2 DEF EvidenceInv, Opened, Reading, Components
<1>7. Evidence'
  BY <1>1, <1>2 DEF EvidenceInv, Evidence
<1>8. Walks'
  BY <1>1, <1>2 DEF EvidenceInv, Walks, Reader
<1> QED BY <1>1, <1>4, <1>5, <1>6, <1>7, <1>8 DEF EvidenceInv, Phases

LEMMA GlobKeeps ==
    ASSUME EvidenceInv, Glob
    PROVE  EvidenceInv'
<1>1. /\ phase = "stat" /\ pending = {} /\ phase' = "read" /\ pending' \subseteq Claimed
      /\ UNCHANGED <<tree, touched, candidates, inventory, measured, total, discovered, hashed, parsed, walk, sized,
                     opened>>
  BY DEF Glob, user, reads, ruleReads, listing
<1>2. Held' = Held /\ Present' = Present
  BY <1>1, HeldStays
<1>4. Listings'
  BY <1>1, <1>2 DEF EvidenceInv, Listings, Bundled
<1>5. Limited'
  BY <1>1, <1>2 DEF EvidenceInv, Limited, Reading, Within, Load, Bytes
<1>6. Opened'
  BY <1>1, <1>2 DEF EvidenceInv, Opened, Reading, Components
<1>7. Evidence'
  BY <1>1, <1>2 DEF EvidenceInv, Evidence
<1>8. Walks'
  BY <1>1, <1>2 DEF EvidenceInv, Walks, Reader
<1> QED BY <1>1, <1>4, <1>5, <1>6, <1>7, <1>8 DEF EvidenceInv, Phases

(* The file read is one the discoverers or the sweep listed.               *)
LEMMA ReadKeeps ==
    ASSUME EvidenceInv, NEW f \in Files, ReadComponent(f)
    PROVE  EvidenceInv'
<1>1. /\ phase \in {"read", "rest"} /\ f \in pending /\ pending' = pending \ {f} /\ phase' \in {phase, "dead"}
      /\ discovered' = IF f \in Present \ Excluded THEN With(discovered, f, tree[f]) ELSE discovered
      /\ UNCHANGED <<tree, touched, candidates, inventory, measured, total, hashed, parsed, walk, sized,
                     opened>>
  BY DEF ReadComponent, user, listing, ruleReads
<1>2. Held' = Held /\ Present' = Present
  BY <1>1, HeldStays
<1>4. Listings'
  BY <1>1, <1>2 DEF EvidenceInv, Listings, Bundled
<1>5. Limited'
  BY <1>1, <1>2 DEF EvidenceInv, Limited, Reading, Within, Load, Bytes
<1>6. Opened'
  <2>1. f \in Claimed \cup Swept
    BY <1>1 DEF EvidenceInv, Opened
  <2>2. /\ Components' \subseteq Components \cup {f}
        /\ \A g \in Components' :
              \/ g \in Components /\ discovered'[g] = discovered[g]
              \/ g = f /\ f \in Present \ Excluded /\ discovered'[g] = tree[f]
    <3>1. CASE f \in Present \ Excluded
      <4>1. discovered' = With(discovered, f, tree[f])
        BY <1>1, <3>1
      <4>2. /\ DOMAIN discovered' = DOMAIN discovered \cup {f} /\ discovered'[f] = tree[f]
            /\ \A x \in DOMAIN discovered : x # f => discovered'[x] = discovered[x]
        BY <4>1 DEF With
      <4> QED BY <3>1, <4>2 DEF Components
    <3>2. CASE f \notin Present \ Excluded
      BY <1>1, <3>2 DEF Components
    <3> QED BY <3>1, <3>2
  <2>3. \A g \in Components' \ touched : g \in Present \ Excluded /\ discovered'[g] = tree[g]
    BY <2>2 DEF EvidenceInv, Opened
  <2> QED BY <1>1, <1>2, <2>1, <2>2, <2>3 DEF EvidenceInv, Opened, Reading
<1>7. Evidence'
  BY <1>1, <1>2 DEF EvidenceInv, Evidence
<1>8. Walks'
  BY <1>1, <1>2 DEF EvidenceInv, Walks, Reader
<1> QED BY <1>1, <1>4, <1>5, <1>6, <1>7, <1>8 DEF EvidenceInv, Phases

LEMMA UncategorizedKeeps ==
    ASSUME EvidenceInv, AddUncategorized
    PROVE  EvidenceInv'
<1>1. /\ phase = "read" /\ phase' = "rest" /\ pending' \subseteq candidates
      /\ UNCHANGED <<tree, touched, candidates, inventory, measured, total, discovered, hashed, parsed, walk, sized,
                     opened>>
  BY DEF AddUncategorized, user, reads, ruleReads, listing
<1>2. Held' = Held /\ Present' = Present
  BY <1>1, HeldStays
<1>4. Listings'
  BY <1>1, <1>2 DEF EvidenceInv, Listings, Bundled
<1>5. Limited'
  BY <1>1, <1>2 DEF EvidenceInv, Limited, Reading, Within, Load, Bytes
<1>6. Opened'
  BY <1>1, <1>2 DEF EvidenceInv, Listings, Opened, Reading, Components
<1>7. Evidence'
  BY <1>1, <1>2 DEF EvidenceInv, Evidence
<1>8. Walks'
  BY <1>1, <1>2 DEF EvidenceInv, Walks, Reader
<1> QED BY <1>1, <1>4, <1>5, <1>6, <1>7, <1>8 DEF EvidenceInv, Phases

(* There is one such path, and it is there.                                *)
LEMMA BareKeeps ==
    ASSUME EvidenceInv, ReadBareSkill, ScanConstants
    PROVE  EvidenceInv'
<1>1. /\ phase = "rest" /\ BareSkillOnly /\ discovered' = [f \in Bare |-> tree[f]]
      /\ UNCHANGED <<phase, pending, tree, touched, candidates, inventory, measured, total, hashed, parsed, walk, sized,
                     opened>>
  BY DEF ReadBareSkill, user, listing, ruleReads
<1>2. Held' = Held /\ Present' = Present
  BY <1>1, HeldStays
<1>4. Listings'
  BY <1>1, <1>2 DEF EvidenceInv, Listings, Bundled
<1>5. Limited'
  BY <1>1, <1>2 DEF EvidenceInv, Limited, Reading, Within, Load, Bytes
<1>6. Opened'
  <2>1. \A f \in Bare : f \in Present \ Excluded
    BY <1>1 DEF BareSkillOnly, ScanConstants
  <2>2. Components' = Bare /\ \A f \in Bare : discovered'[f] = tree[f]
    BY <1>1 DEF Components
  <2> QED BY <1>1, <1>2, <2>1, <2>2 DEF EvidenceInv, Opened, Reading
<1>7. Evidence'
  BY <1>1, <1>2 DEF EvidenceInv, Evidence
<1>8. Walks'
  BY <1>1, <1>2 DEF EvidenceInv, Walks, Reader
<1> QED BY <1>1, <1>4, <1>5, <1>6, <1>7, <1>8 DEF EvidenceInv

LEMMA StartHashKeeps ==
    ASSUME EvidenceInv, StartHash
    PROVE  EvidenceInv'
<1>1. /\ phase = "rest" /\ phase' = "hash" /\ pending' = inventory
      /\ UNCHANGED <<tree, touched, candidates, inventory, measured, total, discovered, hashed, parsed, walk, sized,
                     opened>>
  BY DEF StartHash, user, reads, ruleReads, listing
<1>2. Held' = Held /\ Present' = Present
  BY <1>1, HeldStays
<1>4. Listings'
  BY <1>1, <1>2 DEF EvidenceInv, Listings, Bundled
<1>5. Limited'
  BY <1>1, <1>2 DEF EvidenceInv, Limited, Reading, Within, Load, Bytes
<1>6. Opened'
  BY <1>1, <1>2 DEF EvidenceInv, Opened, Reading, Components
<1>7. Evidence'
  BY <1>1, <1>2 DEF EvidenceInv, Evidence
<1>8. Walks'
  BY <1>1, <1>2 DEF EvidenceInv, Walks, Reader
<1> QED BY <1>1, <1>4, <1>5, <1>6, <1>7, <1>8 DEF EvidenceInv, Phases

(* A file that holds still is there when its turn comes.                   *)
LEMMA HashKeeps ==
    ASSUME EvidenceInv, NEW f \in Files, Hash(f)
    PROVE  EvidenceInv'
<1>1. /\ phase = "hash" /\ f \in pending /\ pending' = pending \ {f}
      /\ hashed' = IF f \in Present THEN With(hashed, f, tree[f]) ELSE hashed
      /\ UNCHANGED <<phase, tree, touched, candidates, inventory, measured, total, discovered, parsed, walk, sized,
                     opened>>
  BY DEF Hash, user, listing, ruleReads
<1>2. Held' = Held /\ Present' = Present
  BY <1>1, HeldStays
<1>4. Listings'
  BY <1>1, <1>2 DEF EvidenceInv, Listings, Bundled
<1>5. Limited'
  BY <1>1, <1>2 DEF EvidenceInv, Limited, Reading, Within, Load, Bytes
<1>6. Opened'
  BY <1>1, <1>2 DEF EvidenceInv, Opened, Reading, Components
<1>7. Evidence'
  <2>1. /\ DOMAIN hashed \subseteq DOMAIN hashed'
        /\ f \in Present => f \in DOMAIN hashed'
        /\ \A g \in DOMAIN hashed' :
              \/ g = f /\ f \in Present /\ hashed'[g] = tree[g]
              \/ g \in DOMAIN hashed /\ hashed'[g] = hashed[g]
    <3>1. CASE f \in Present
      <4>1. hashed' = With(hashed, f, tree[f])
        BY <1>1, <3>1
      <4>2. /\ DOMAIN hashed' = DOMAIN hashed \cup {f} /\ hashed'[f] = tree[f]
            /\ \A x \in DOMAIN hashed : x # f => hashed'[x] = hashed[x]
        BY <4>1 DEF With
      <4> QED BY <3>1, <4>2
    <3>2. CASE f \notin Present
      BY <1>1, <3>2
    <3> QED BY <3>1, <3>2
  <2>2. (Held \cap inventory) \ pending' \subseteq DOMAIN hashed'
    BY <1>1, <2>1 DEF EvidenceInv, Evidence, Held
  <2>3. \A g \in DOMAIN hashed' \ touched : hashed'[g] = tree[g]
    BY <2>1 DEF EvidenceInv, Evidence
  <2> QED BY <1>1, <1>2, <2>2, <2>3 DEF EvidenceInv, Evidence
<1>8. Walks'
  BY <1>1, <1>2 DEF EvidenceInv, Walks, Reader
<1> QED BY <1>1, <1>4, <1>5, <1>6, <1>7, <1>8 DEF EvidenceInv

LEMMA StartParseKeeps ==
    ASSUME EvidenceInv, StartParse
    PROVE  EvidenceInv'
<1>1. /\ phase = "hash" /\ pending = {} /\ phase' = "parse" /\ pending' \subseteq Claimed \cup Bare
      /\ UNCHANGED <<tree, touched, candidates, inventory, measured, total, discovered, hashed, parsed, walk, sized,
                     opened>>
  BY DEF StartParse, user, reads, ruleReads, listing
<1>2. Held' = Held /\ Present' = Present
  BY <1>1, HeldStays
<1>4. Listings'
  BY <1>1, <1>2 DEF EvidenceInv, Listings, Bundled
<1>5. Limited'
  BY <1>1, <1>2 DEF EvidenceInv, Limited, Reading, Within, Load, Bytes
<1>6. Opened'
  BY <1>1, <1>2 DEF EvidenceInv, Opened, Reading, Components
<1>7. Evidence'
  BY <1>1, <1>2 DEF EvidenceInv, Evidence
<1>8. Walks'
  BY <1>1, <1>2 DEF EvidenceInv, Walks, Reader
<1> QED BY <1>1, <1>4, <1>5, <1>6, <1>7, <1>8 DEF EvidenceInv, Phases

LEMMA ParseKeeps ==
    ASSUME EvidenceInv, NEW f \in Files, Parse(f)
    PROVE  EvidenceInv'
<1>1. /\ phase = "parse" /\ f \in pending /\ pending' \subseteq pending /\ parsed' = With(parsed, f, tree[f])
      /\ UNCHANGED <<phase, tree, touched, candidates, inventory, measured, total, discovered, hashed, walk, sized, opened>>
  BY DEF Parse, user, listing, ruleReads
<1>2. Held' = Held /\ Present' = Present
  BY <1>1, HeldStays
<1>4. Listings'
  BY <1>1, <1>2 DEF EvidenceInv, Listings, Bundled
<1>5. Limited'
  BY <1>1, <1>2 DEF EvidenceInv, Limited, Reading, Within, Load, Bytes
<1>6. Opened'
  BY <1>1, <1>2 DEF EvidenceInv, Opened, Reading, Components
<1>7. Evidence'
  <2>1. \A g \in DOMAIN parsed' \ touched : parsed'[g] = tree[g]
    BY <1>1 DEF EvidenceInv, Evidence, With
  <2> QED BY <1>1, <1>2, <2>1 DEF EvidenceInv, Evidence
<1>8. Walks'
  <2>1. DOMAIN parsed' \subseteq Claimed \cup Bare
    BY <1>1 DEF EvidenceInv, Walks, With
  <2> QED BY <1>1, <1>2, <2>1 DEF EvidenceInv, Walks
<1> QED BY <1>1, <1>4, <1>5, <1>6, <1>7, <1>8 DEF EvidenceInv

LEMMA StartRulesKeeps ==
    ASSUME EvidenceInv, StartRules
    PROVE  EvidenceInv'
<1>1. /\ phase = "parse" /\ phase' = "rules" /\ \A w \in pending' : w[2] # "refs" => Reader(w[1])
      /\ UNCHANGED <<tree, touched, candidates, inventory, measured, total, discovered, hashed, parsed, walk, sized,
                     opened>>
  BY DEF StartRules, Reader, user, reads, ruleReads, listing
<1>2. Held' = Held /\ Present' = Present
  BY <1>1, HeldStays
<1>4. Listings'
  BY <1>1, <1>2 DEF EvidenceInv, Listings, Bundled
<1>5. Limited'
  BY <1>1, <1>2 DEF EvidenceInv, Limited, Reading, Within, Load, Bytes
<1>6. Opened'
  BY <1>1, <1>2 DEF EvidenceInv, Opened, Reading, Components
<1>7. Evidence'
  BY <1>1, <1>2 DEF EvidenceInv, Evidence
<1>8. Walks'
  BY <1>1, <1>2 DEF EvidenceInv, Walks, Reader
<1> QED BY <1>1, <1>4, <1>5, <1>6, <1>7, <1>8 DEF EvidenceInv, Phases

(* A rule takes its list; only a skill that was parsed has one.            *)
LEMMA StartWalkKeeps ==
    ASSUME EvidenceInv, NEW s \in SkillMds, NEW reader \in {"scripts", "yara"}, StartWalk(s, reader)
    PROVE  EvidenceInv'
<1>1. /\ phase = "rules" /\ <<s, reader>> \in pending /\ pending' = pending \ {<<s, reader>>}
      /\ \A w \in walk' : w.by = s /\ w.file \in Walked(s)
      /\ UNCHANGED <<phase, tree, touched, candidates, inventory, measured, total, discovered, hashed,
                     parsed, sized, opened>>
  BY DEF StartWalk, Free, user, listing
<1>2. Held' = Held /\ Present' = Present
  BY <1>1, HeldStays
<1>4. Listings'
  BY <1>1, <1>2 DEF EvidenceInv, Listings, Bundled
<1>5. Limited'
  BY <1>1, <1>2 DEF EvidenceInv, Limited, Reading, Within, Load, Bytes
<1>6. Opened'
  BY <1>1, <1>2 DEF EvidenceInv, Opened, Reading, Components
<1>7. Evidence'
  BY <1>1, <1>2 DEF EvidenceInv, Evidence
<1>8. Walks'
  <2>1. Reader(s)
    BY <1>1 DEF EvidenceInv, Walks
  <2>2. \A w \in walk' : Reader(w.by) /\ w.file \in Inside[w.by] \ Excluded
    BY <1>1, <2>1 DEF Walked
  <2> QED BY <1>1, <1>2, <2>2 DEF EvidenceInv, Walks, Reader
<1> QED BY <1>1, <1>4, <1>5, <1>6, <1>7, <1>8 DEF EvidenceInv

(* A file is opened for a rule: it is there, and what is found is what is  *)
(* there; what YARA reads is in the inventory and was measured again.      *)
LEMMA RuleReadKeeps ==
    ASSUME EvidenceInv, ScanConstants,
           \/ \E w \in walk : OpenScript(w) \/ SizeForYara(w)
           \/ \E z \in sized : ReadForYara(z)
           \/ \E h \in Claimed : FollowReferences(h)
    PROVE  EvidenceInv'
<1>1. /\ pending' \subseteq pending /\ walk' \subseteq walk
      /\ UNCHANGED <<phase, tree, touched, candidates, inventory, measured, total, discovered, hashed,
                     parsed>>
  BY DEF OpenScript, SizeForYara, ReadForYara, FollowReferences, user, listing
<1>2. Held' = Held /\ Present' = Present
  BY <1>1, HeldStays
<1>3. phase = "rules"
  BY DEF OpenScript, SizeForYara, ReadForYara, FollowReferences, Free, EvidenceInv, Walks
<1>4. Listings'
  BY <1>1, <1>2 DEF EvidenceInv, Listings, Bundled
<1>5. Limited'
  BY <1>1, <1>2, <1>3 DEF EvidenceInv, Limited, Reading, Within, Load, Bytes
<1>6. Opened'
  BY <1>1, <1>2, <1>3 DEF EvidenceInv, Opened, Reading, Components
<1>7. Evidence'
  BY <1>1, <1>2, <1>3 DEF EvidenceInv, Evidence
<1>8. Walks'
  <2> DEFINE Fine(o) ==
        /\ o.reader = "yara" => /\ o.file \in inventory /\ o.seen \in Contents
                                /\ Size[o.seen] <= MaxFileBytes /\ o.file \in Present \cup touched
        /\ o.reader = "scripts" => /\ Reader(o.by) /\ o.file \in (Inside[o.by] \ Excluded)
                                   /\ o.file \in Present \cup touched
        /\ o.file \notin touched => o.data = tree[o.file]
  <2>1. ASSUME NEW w \in walk, OpenScript(w)
        PROVE  sized' = sized /\ \A o \in opened' : o \in opened \/ Fine(o)
    <3>1. \A o \in opened' : o \in opened \/ (o = Got(w, tree[w.file]) /\ w.file \in Present)
      BY <2>1 DEF OpenScript
    <3>2. w.file \in Present => Fine(Got(w, tree[w.file]))
      BY <2>1 DEF OpenScript, Got, EvidenceInv, Walks
    <3> QED BY <2>1, <3>1, <3>2 DEF OpenScript
  <2>2. ASSUME NEW w \in walk, SizeForYara(w)
        PROVE  /\ opened' = opened
               /\ \A o \in sized' : /\ o.reader = "yara" /\ o.file \in inventory /\ o.seen \in Contents
                                     /\ Size[o.seen] <= MaxFileBytes /\ o.file \in Present \cup touched
    <3>1. \A o \in sized' : /\ o = Got(w, tree[w.file]) /\ w.file \in Present \cap inventory
                            /\ ~(Size[tree[w.file]] > MaxFileBytes)
      BY <2>2 DEF SizeForYara, Large
    <3>2. w.file \in Present => tree[w.file] \in Contents /\ Size[tree[w.file]] \in Nat
      BY DEF EvidenceInv, Present, ScanConstants
    <3>3. MaxFileBytes \in Nat /\ w.reader = "yara"
      BY <2>2 DEF ScanConstants, SizeForYara
    <3> QED BY <2>2, <3>1, <3>2, <3>3 DEF SizeForYara, Got
  <2>3. ASSUME NEW z \in sized, ReadForYara(z)
        PROVE  sized' = {} /\ \A o \in opened' : o \in opened \/ Fine(o)
    <3>1. \A o \in opened' : o \in opened \/ (o = Got(z, z.seen) /\ z.file \in Present)
      BY <2>3 DEF ReadForYara
    <3>2. z.file \in Present => Fine(Got(z, z.seen))
      BY DEF Got, EvidenceInv, Walks
    <3> QED BY <2>3, <3>1, <3>2 DEF ReadForYara
  <2>4. ASSUME NEW h \in Claimed, FollowReferences(h)
        PROVE  sized' = sized /\ \A o \in opened' : o \in opened \/ Fine(o)
    <3>1. \A o \in opened' : o \in opened \/ (o.reader = "refs" /\ o.data = tree[o.file])
      BY <2>4 DEF FollowReferences, Got
    <3> QED BY <2>4, <3>1 DEF FollowReferences
  <2>5. \A o \in opened' : o \in opened \/ Fine(o)
    BY <2>1, <2>2, <2>3, <2>4
  <2>6. \A o \in sized' : \/ o \in sized
                          \/ /\ o.reader = "yara" /\ o.file \in inventory /\ o.seen \in Contents
                             /\ Size[o.seen] <= MaxFileBytes /\ o.file \in Present \cup touched
    BY <2>1, <2>2, <2>3, <2>4
  <2> QED BY <1>1, <1>2, <1>3, <2>5, <2>6 DEF EvidenceInv, Walks, Reader
<1> QED BY <1>1, <1>4, <1>5, <1>6, <1>7, <1>8 DEF EvidenceInv

LEMMA FinishKeeps ==
    ASSUME EvidenceInv, Finish
    PROVE  EvidenceInv'
<1>1. /\ phase = "rules" /\ phase' = "done" /\ walk = {} /\ sized = {}
      /\ UNCHANGED <<tree, touched, candidates, inventory, measured, total, discovered, hashed, parsed, walk, sized,
                     opened>>
  BY DEF Finish, Free, user, reads, ruleReads, listing
<1>2. Held' = Held /\ Present' = Present
  BY <1>1, HeldStays
<1>4. Listings'
  BY <1>1, <1>2 DEF EvidenceInv, Listings, Bundled
<1>5. Limited'
  BY <1>1, <1>2 DEF EvidenceInv, Limited, Reading, Within, Load, Bytes
<1>6. Opened'
  BY <1>1, <1>2 DEF EvidenceInv, Opened, Reading, Components
<1>7. Evidence'
  BY <1>1, <1>2 DEF EvidenceInv, Evidence
<1>8. Walks'
  BY <1>1, <1>2 DEF EvidenceInv, Walks, Reader
<1> QED BY <1>1, <1>4, <1>5, <1>6, <1>7, <1>8 DEF EvidenceInv, Phases

LEMMA InitEvidence ==
    ASSUME ScanInit, ScanConstants
    PROVE  EvidenceInv
<1>1. /\ phase = "idle" /\ tree \in [Files -> Contents \cup {Absent}]
      /\ candidates = {} /\ measured = {} /\ total = 0 /\ DOMAIN discovered = {} /\ DOMAIN hashed = {}
      /\ DOMAIN parsed = {} /\ walk = {} /\ sized = {} /\ opened = {}
  BY DEF ScanInit, ScanConstants, Nothing
<1>2. IsFiniteSet({}) /\ Cardinality({}) = 0 /\ 0 <= MaxFiles /\ 0 <= MaxTotalBytes
  BY FS_EmptySet DEF ScanConstants
<1>3. Load = {}
  BY <1>1 DEF Load, Bytes
<1> QED
  BY <1>1, <1>2, <1>3 DEF EvidenceInv, Listings, Limited, Opened, Evidence, Walks, Reading, Phases, Components

LEMMA NextKeeps ==
    ASSUME EvidenceInv, ScanConstants, [ScanNext]_scanVars
    PROVE  EvidenceInv'
<1>1. CASE \E f \in Files, c \in Contents \cup {Absent} : Edit(f, c)
  BY <1>1, EditKeeps
<1>2. CASE Sweep
  BY <1>2, SweepKeeps
<1>3. CASE CollectInventory
  BY <1>3, CollectKeeps
<1>4. CASE \E f \in Files : Stat(f)
  BY <1>4, StatKeeps
<1>5. CASE Glob
  BY <1>5, GlobKeeps
<1>6. CASE \E f \in Files : ReadComponent(f)
  BY <1>6, ReadKeeps
<1>7. CASE AddUncategorized
  BY <1>7, UncategorizedKeeps
<1>8. CASE ReadBareSkill
  BY <1>8, BareKeeps
<1>9. CASE StartHash
  BY <1>9, StartHashKeeps
<1>10. CASE \E f \in Files : Hash(f)
  BY <1>10, HashKeeps
<1>11. CASE StartParse
  BY <1>11, StartParseKeeps
<1>12. CASE \E f \in Files : Parse(f)
  BY <1>12, ParseKeeps
<1>13. CASE StartRules
  BY <1>13, StartRulesKeeps
<1>14. CASE \E s \in SkillMds, reader \in {"scripts", "yara"} : StartWalk(s, reader)
  BY <1>14, StartWalkKeeps
<1>17. CASE \/ \E w \in walk : OpenScript(w) \/ SizeForYara(w)
            \/ \E z \in sized : ReadForYara(z)
            \/ \E h \in Claimed : FollowReferences(h)
  BY <1>17, RuleReadKeeps
<1>15. CASE Finish
  BY <1>15, FinishKeeps
<1>16. CASE UNCHANGED scanVars
  BY <1>16 DEF scanVars, EvidenceInv, Listings, Limited, Opened, Evidence, Walks, Reader, Held, Present,
              Components, Within, Bundled, Load, Bytes
<1> QED
  BY <1>1, <1>2, <1>3, <1>4, <1>5, <1>6, <1>7, <1>8, <1>9, <1>10, <1>11, <1>12, <1>13, <1>14, <1>15,
     <1>16, <1>17 DEF ScanNext

(* EvidenceInv is inductive.                                               *)
THEOREM EvidenceInductive == ScanSpec => []EvidenceInv
<1>1. ScanInit => EvidenceInv
  BY InitEvidence, ScanConstants
<1>2. EvidenceInv /\ [ScanNext]_scanVars => EvidenceInv'
  BY NextKeeps, ScanConstants
<1> QED BY <1>1, <1>2, PTL DEF ScanSpec

(* discover_setup, fingerprint_setup, parse_setup: whatever is edited      *)
(* between their visits, a component nobody touched and a listing names is *)
(* in the fingerprint, with the content that was discovered and parsed.    *)
THEOREM StableCovered == ScanSpec => []StableComponentCovered
<1>1. EvidenceInv => StableComponentCovered
  <2> SUFFICES ASSUME EvidenceInv, phase = "done", NEW f \in Components \ touched
               PROVE  /\ f \notin Unlisted => f \in DOMAIN hashed
                      /\ f \in DOMAIN hashed => hashed[f] = discovered[f]
                      /\ f \in DOMAIN parsed => parsed[f] = discovered[f]
    BY DEF StableComponentCovered
  <2>1. f \in Held /\ f \in (Claimed \cup Bare \cup Swept) \ Excluded /\ discovered[f] = tree[f]
    BY DEF EvidenceInv, Opened, Held
  <2>2. f \notin Unlisted => f \in Held \cap inventory
    BY <2>1 DEF EvidenceInv, Listings, Listable, Unlisted
  <2>3. f \notin Unlisted => f \in DOMAIN hashed
    BY <2>2 DEF EvidenceInv, Evidence
  <2> QED BY <2>1, <2>3 DEF EvidenceInv, Evidence
<1> QED BY <1>1, EvidenceInductive, PTL

(* The walks of the rules against the inventory and its fingerprint: what  *)
(* a rule read in a skill that holds still, and what YARA read, was hashed *)
(* as it was read.                                                         *)
THEOREM RulesReadHashed == ScanSpec => []RulesReadWhatWasHashed
<1>1. EvidenceInv /\ ScanConstants => RulesReadWhatWasHashed
  <2> SUFFICES ASSUME EvidenceInv, ScanConstants, phase = "done", NEW o \in opened, o.file \notin touched
               PROVE  /\ o.reader = "yara" => o.file \in DOMAIN hashed
                      /\ o.reader = "scripts" /\ o.by \notin touched \cup Unlisted
                            /\ o.file \notin Skipped => o.file \in DOMAIN hashed
                      /\ o.file \in DOMAIN hashed => hashed[o.file] = o.data
    BY DEF RulesReadWhatWasHashed
  <2>1. o.data = tree[o.file] /\ Held \cap inventory \subseteq DOMAIN hashed
    BY DEF EvidenceInv, Walks, Evidence
  <2>2. ASSUME o.reader = "yara"  PROVE o.file \in DOMAIN hashed
    <3>1. o.file \in inventory /\ o.file \in Present
      BY <2>2 DEF EvidenceInv, Walks
    <3> QED BY <2>1, <3>1 DEF Held
  <2>3. ASSUME o.reader = "scripts", o.by \notin touched \cup Unlisted, o.file \notin Skipped
        PROVE  o.file \in DOMAIN hashed
    <3>1. Reader(o.by) /\ o.file \in Inside[o.by] \ Excluded /\ o.file \in Present
      BY <2>3 DEF EvidenceInv, Walks
    <3>2. o.by \in Claimed \cup Bare /\ tree[o.by] # Absent
      BY <2>3, <3>1 DEF EvidenceInv, Walks, Evidence, Reader
    <3>3. o.by \in Held \cap Listable \cap SkillMds
      BY <2>3, <3>1, <3>2 DEF Held, Present, Listable, Unlisted, Reader, ScanConstants
    <3>4. o.file \in Bundled(o.by)
      BY <2>3, <3>1 DEF Bundled, Held
    <3>5. o.file \in inventory
      BY <3>3, <3>4 DEF EvidenceInv, Listings
    <3> QED BY <2>1, <3>1, <3>5 DEF Held
  <2>4. o.file \in DOMAIN hashed => hashed[o.file] = o.data
    BY <2>1 DEF EvidenceInv, Evidence
  <2> QED BY <2>2, <2>3, <2>4
<1> QED BY <1>1, EvidenceInductive, ScanConstants, PTL

(* _enforce_scan_limits and the yara rule: what holds still and is opened  *)
(* was counted and weighed, so all four limits bound it.                   *)
THEOREM StableLimited == ScanSpec => []StableWithinLimits
<1>1. ASSUME EvidenceInv, ScanConstants
      PROVE  StableWithinLimits
  <2> DEFINE read == Weighed \ touched
  <2>1. \A f \in read : phase \in Reading /\ f \in Held \cap inventory
    <3>1. ASSUME NEW f \in (Components \ Unlisted) \ touched
          PROVE  phase \in Reading /\ f \in Held \cap inventory
      <4>1. phase \in Reading /\ f \in Held /\ f \in Listable \ Excluded
        BY <1>1 DEF EvidenceInv, Opened, Held, Listable, Unlisted
      <4> QED BY <1>1, <4>1 DEF EvidenceInv, Listings, Reading
    <3>2. ASSUME NEW o \in opened, o.reader = "yara", o.file \notin touched
          PROVE  phase \in Reading /\ o.file \in Held \cap inventory
      BY <1>1, <3>2 DEF EvidenceInv, Walks, Held, Reading
    <3> QED BY <3>1, <3>2 DEF Weighed
  <2> HIDE DEF read
  <2>2. \A f \in read : Within(f)
    BY <1>1, <2>1 DEF EvidenceInv, Limited
  <2>3. read \subseteq measured \ touched
    BY <2>1, <2>2 DEF Within, Held
  <2>4. IsFiniteSet(measured) /\ IsFiniteSet(Load)
    BY <1>1 DEF EvidenceInv, Limited
  <2>5. IsFiniteSet(read) /\ Cardinality(read) <= Cardinality(measured)
    <3>1. read \in SUBSET measured
      BY <2>3
    <3> QED BY <2>4, <3>1, FS_Subset
  <2>6. IsFiniteSet(Bytes(read)) /\ Cardinality(Bytes(read)) <= Cardinality(Load)
    <3>1. Bytes(read) \in SUBSET Load
      BY <2>3 DEF Load, Bytes
    <3> QED BY <2>4, <3>1, FS_Subset
  <2>7. Cardinality(read) <= MaxFiles /\ Cardinality(Bytes(read)) <= MaxTotalBytes
    <3>1. CASE read = {}
      <4>1. Cardinality({}) = 0 /\ MaxFiles \in Nat /\ MaxTotalBytes \in Nat
        BY <1>1, FS_EmptySet DEF ScanConstants
      <4>2. Bytes(read) = {}
        BY <3>1 DEF Bytes
      <4> QED BY <3>1, <4>1, <4>2
    <3>2. CASE read # {}
      <4>1. /\ Cardinality(measured) <= MaxFiles /\ total <= MaxTotalBytes /\ total \in Nat
            /\ Cardinality(Load) <= total
        BY <1>1, <2>1, <3>2 DEF EvidenceInv, Limited, Reading
      <4>2. /\ Cardinality(read) \in Nat /\ Cardinality(measured) \in Nat /\ MaxFiles \in Nat
            /\ Cardinality(Bytes(read)) \in Nat /\ Cardinality(Load) \in Nat
            /\ MaxTotalBytes \in Nat
        BY <1>1, <2>4, <2>5, <2>6, FS_CardinalityType DEF ScanConstants
      <4> QED BY <2>5, <2>6, <4>1, <4>2
    <3> QED BY <3>1, <3>2
  <2>8. \A f \in read : f \notin Deep /\ tree[f] \in Contents /\ Size[tree[f]] <= MaxFileBytes
    BY <2>2 DEF Within
  <2>9. ASSUME NEW o \in opened, o.reader = "yara"
        PROVE  o.file \in inventory /\ (Size[o.data] > MaxFileBytes => o.data # o.seen)
    <3>1. o.file \in inventory /\ o.seen \in Contents /\ Size[o.seen] <= MaxFileBytes
      BY <1>1, <2>9 DEF EvidenceInv, Walks
    <3>2. Size[o.seen] \in Nat /\ MaxFileBytes \in Nat
      BY <1>1, <3>1 DEF ScanConstants
    <3> QED BY <3>1, <3>2
  <2> QED BY <2>7, <2>8, <2>9 DEF StableWithinLimits, read
<1> QED BY <1>1, EvidenceInductive, ScanConstants, PTL
=============================================================================
