------------------------- MODULE LintCommandsProofs -------------------------
(***************************************************************************)
(* Theorems about LintCommands, for every setup, catalog and command line, *)
(* and every sequence of commands, edits and kills.  LintInv follows a     *)
(* finding from the scan to the exit code: what a command holds is what    *)
(* its scan found less what its baseline holds, and a baseline that can be *)
(* read holds what the scan it was taken from found.                       *)
(***************************************************************************)
EXTENDS LintCommands, FiniteSetTheorems, TLAPS

(* The findings a command is left with.                                    *)
Left(o, t, w, keys) ==
    Cleaned(o, IF Baselined(o) THEN Filtered(Inspect(o, t, w), keys) ELSE Inspect(o, t, w))

Typed ==
    /\ tree \in [Files -> Seq(Line)] /\ seen \in [Files -> Seq(Line)]
    /\ pending \subseteq Files
    /\ pc \in {"idle", "scanned", "reported", "repairing", "writing"}

(* The command under way.                                                  *)
Underway ==
    /\ pc # "idle" => opts \in Options /\ order \in OrdersOf(opts)
    /\ pc = "scanned" => results = Inspect(opts, seen, order)
    /\ pc \in {"reported", "repairing"} => opts.cmd # "baseline"
    /\ pc = "repairing" => write.to \in Files
    /\ pc = "writing" /\ opts.cmd = "baseline" => results = Inspect(opts, seen, order)
    /\ pc \in {"reported", "repairing", "writing"} /\ opts.cmd # "baseline" =>
          /\ Baselined(opts) => baseline.state = "whole"
          /\ results = Left(opts, seen, order, baseline.keys)
    /\ pc \notin {"repairing", "writing"} \/ opts.cmd = "baseline" => write = NoWrite

(* A baseline that can be read.                                            *)
Accepted ==
    baseline.state = "whole" =>
        /\ taken.opts \in Options /\ taken.opts.cmd = "baseline"
        /\ baseline.keys = CreateBaseline(Inspect(taken.opts, taken.tree, taken.order))

(* A finding that --fix acts upon, in the file as it was scanned.          *)
Proposed(d, content) ==
    /\ d.rule \in Rules /\ Fix[d.rule] \in Texts
    /\ d.line \in DOMAIN content
    /\ content[d.line].text \in Fires[d.rule] \cup FiresAlone[d.rule]

(* What FixKeepsOtherLines says of the file.                               *)
LinesKept(a, b, ds) ==
    /\ Len(a) = Len(b)
    /\ \A i \in DOMAIN b :
         IF \E d \in ds : d.line = i
         THEN \E d \in ds :
                /\ d.line = i /\ b[i].text \in Fires[d.rule] \cup FiresAlone[d.rule]
                /\ a[i] = [text |-> Fix[d.rule], crlf |-> b[i].crlf, bytes |-> "utf8"]
         ELSE a[i] = b[i]

(* The last file --fix came to.                                            *)
Repairing ==
    /\ DOMAIN repair = {"file", "before", "after", "findings", "seen"}
    /\ repair.before \in Seq(Line) /\ repair.seen \in Seq(Line)
    /\ \A d \in repair.findings : Proposed(d, repair.seen)
    /\ pc \in {"repairing", "writing"} /\ opts.cmd # "baseline" =>
          write.content = FixedContent(repair.before, repair.findings)
    /\ repair.after # <<>> => repair.after = FixedContent(repair.before, repair.findings)

(* The last command that ended.                                            *)
Concluded ==
    /\ IsFiniteSet(last.shown) /\ last.card = ReportCard(last.shown)
    /\ last.opts.cmd = "lint" /\ last.code \in {0, 1} /\ last.shown # {} =>
          last.code = ExitCode(last.opts, last.shown)
    /\ NewFindingsFail /\ QuietWhileUnchanged

LintInv == Typed /\ Underway /\ Accepted /\ Repairing /\ Concluded

-----------------------------------------------------------------------------
(* A set of naturals has a least element: what the inductions rest on.     *)
LEMMA LeastNat ==
    ASSUME NEW T \in SUBSET Nat, T # {}
    PROVE  \E m \in T : \A n \in T : m <= n
<1> DEFINE R == OpToRel(<, Nat)
<1>1. IsWellFoundedOn(R, Nat)
  BY NatLessThanWellFounded
<1> HIDE DEF R
<1>2. PICK m \in T : \A n \in T : ~(<<n, m>> \in R)
  BY <1>1, WFMin
<1>3. ASSUME NEW n \in T PROVE m <= n
  <2>1. ~(n < m)
    BY <1>2 DEF R, OpToRel
  <2> QED BY <2>1
<1> QED BY <1>3

(* The equation by which FlattenSeq is defined.                            *)
Flattens(g, q, n) ==
    g = [i \in 1 .. n |-> IF i = 1 THEN q[i] ELSE g[i - 1] \o q[i]]

(* It has a solution.                                                      *)
LEMMA FlattenExists ==
    ASSUME NEW q, NEW n \in Nat
    PROVE  \E g : Flattens(g, q, n)
<1> DEFINE T == {m \in 0 .. n : ~\E g : Flattens(g, q, m)}
<1> SUFFICES ASSUME T # {} PROVE FALSE
  OBVIOUS
<1>1. PICK m \in T : \A l \in T : m <= l
  <2>1. T \in SUBSET Nat
    OBVIOUS
  <2> HIDE DEF T
  <2> QED BY <2>1, LeastNat
<1>2. m # 0
  <2>1. Flattens([k \in 1 .. 0 |-> <<>>], q, 0)
    BY DEF Flattens
  <2> QED BY <2>1
<1>3. m \in 1 .. n /\ m - 1 \in 0 .. n /\ m - 1 \notin T
  BY <1>1, <1>2
<1>4. PICK g : Flattens(g, q, m - 1)
  BY <1>3
<1> DEFINE last_ == IF m = 1 THEN q[m] ELSE g[m - 1] \o q[m]
           h == [k \in 1 .. m |-> IF k = m THEN last_ ELSE g[k]]
<1> HIDE DEF last_
<1>5. ASSUME NEW k \in 1 .. m
      PROVE  h[k] = IF k = 1 THEN q[k] ELSE h[k - 1] \o q[k]
  <2>1. CASE k = m /\ k = 1
    BY <2>1 DEF last_
  <2>2. CASE k = m /\ k # 1
    <3>1. k - 1 \in 1 .. m /\ k - 1 # m
      BY <1>3, <2>2
    <3>2. h[k - 1] = g[m - 1]
      BY <3>1, <2>2
    <3>3. h[k] = g[m - 1] \o q[m]
      BY <2>2 DEF last_
    <3> QED BY <3>2, <3>3, <2>2
  <2>3. CASE k # m
    <3>1. k \in 1 .. m - 1 /\ h[k] = g[k]
      BY <1>3, <2>3
    <3>2. g[k] = IF k = 1 THEN q[k] ELSE g[k - 1] \o q[k]
      BY <1>4, <3>1 DEF Flattens
    <3>3. k # 1 => h[k - 1] = g[k - 1]
      BY <1>3, <3>1
    <3> QED BY <3>1, <3>2, <3>3
  <2> QED BY <2>1, <2>2, <2>3
<1>6. Flattens(h, q, m)
  BY <1>5 DEF Flattens
<1> QED BY <1>3, <1>6

(* Two lists, one after the other.                                         *)
LEMMA Joined ==
    ASSUME NEW S, NEW s \in Seq(S), NEW t \in Seq(S)
    PROVE  /\ s \o t \in Seq(S) /\ Len(s) \in Nat /\ Len(t) \in Nat
           /\ Len(s \o t) = Len(s) + Len(t)
           /\ \A i \in 1 .. Len(s) : (s \o t)[i] = s[i]
           /\ \A i \in 1 .. Len(t) : (s \o t)[Len(s) + i] = t[i]
<1>1. s \o t \in Seq(S) /\ Len(s) \in Nat /\ Len(t) \in Nat /\ Len(s \o t) = Len(s) + Len(t)
  OBVIOUS
<1>2. DOMAIN s = 1 .. Len(s) /\ DOMAIN t = 1 .. Len(t) /\ DOMAIN (s \o t) = 1 .. Len(s) + Len(t)
  BY <1>1
<1>3. ASSUME NEW i \in 1 .. Len(s) PROVE (s \o t)[i] = s[i]
  BY <1>1, <1>2
<1>4. ASSUME NEW i \in 1 .. Len(t) PROVE (s \o t)[Len(s) + i] = t[i]
  <2>1. Len(s) + i \in 1 .. Len(s) + Len(t) /\ ~(Len(s) + i <= Len(s))
    BY <1>1
  <2> QED BY <1>1, <1>2, <2>1
<1> QED BY <1>1, <1>3, <1>4

(* A list of lines for every place: the whole is a list of lines, and when *)
(* there is one line for each place it stays at its place.                 *)
LEMMA FlattenShows ==
    ASSUME NEW S, NEW q \in Seq(Seq(S))
    PROVE  /\ FlattenSeq(q) \in Seq(S)
           /\ (\A i \in DOMAIN q : Len(q[i]) = 1) =>
                 /\ Len(FlattenSeq(q)) = Len(q)
                 /\ \A i \in DOMAIN q : FlattenSeq(q)[i] = q[i][1]
<1> DEFINE n == Len(q)
<1>1. n \in Nat /\ DOMAIN q = 1 .. n /\ \A i \in 1 .. n : q[i] \in Seq(S)
  OBVIOUS
<1>2. CASE n = 0
  <2>1. FlattenSeq(q) = q
    BY <1>2 DEF FlattenSeq
  <2>2. q = <<>> /\ q \in Seq(S)
    BY <1>2
  <2> QED BY <1>1, <1>2, <2>1, <2>2
<1>3. CASE n # 0
  <2> DEFINE g == CHOOSE f : Flattens(f, q, n)
  <2>1. Flattens(g, q, n)
    BY <1>1, FlattenExists
  <2>2. FlattenSeq(q) = g[n]
    BY <1>3 DEF FlattenSeq, Flattens
  <2> HIDE DEF n, g
  <2> DEFINE Single(i) == \A j \in 1 .. i : Len(q[j]) = 1
             Fine(i) == /\ g[i] \in Seq(S)
                        /\ Single(i) => Len(g[i]) = i /\ \A j \in 1 .. i : g[i][j] = q[j][1]
  <2>3. 1 \in 1 .. n => Fine(1)
    <3>1. 1 \in 1 .. n => g[1] = q[1]
      BY <2>1 DEF Flattens
    <3> QED BY <1>1, <3>1
  <2>4. ASSUME NEW i \in 2 .. n, Fine(i - 1) PROVE Fine(i)
    <3>1. i \in 1 .. n /\ i - 1 \in Nat /\ i # 1 /\ i \in Nat
      BY <1>1
    <3>2. g[i] = g[i - 1] \o q[i]
      BY <2>1, <3>1 DEF Flattens
    <3>3. g[i - 1] \in Seq(S) /\ q[i] \in Seq(S)
      BY <1>1, <2>4, <3>1
    <3>4. g[i] \in Seq(S)
      BY <3>2, <3>3
    <3>5. ASSUME Single(i) PROVE Len(g[i]) = i /\ \A j \in 1 .. i : g[i][j] = q[j][1]
      <4>1. Single(i - 1) /\ Len(q[i]) = 1
        BY <3>1, <3>5
      <4>2. Len(g[i - 1]) = i - 1 /\ \A j \in 1 .. i - 1 : g[i - 1][j] = q[j][1]
        BY <2>4, <4>1
      <4> HIDE DEF Single, Fine
      <4> DEFINE a == g[i - 1]
                 b == q[i]
      <4>3. a \in Seq(S) /\ b \in Seq(S) /\ Len(b) = 1 /\ Len(a) = i - 1 /\ g[i] = a \o b
        BY <3>2, <3>3, <4>1, <4>2
      <4>4. \A j \in 1 .. i - 1 : a[j] = q[j][1]
        BY <4>2
      <4>5. b[1] = q[i][1]
        OBVIOUS
      <4> HIDE DEF a, b
      <4>6. /\ Len(g[i]) = Len(a) + 1 /\ \A j \in 1 .. Len(a) : g[i][j] = a[j]
            /\ g[i][Len(a) + 1] = b[1]
        <5>1. a \in Seq(S) /\ b \in Seq(S)
          BY <4>3
        <5>2. /\ Len(a) \in Nat /\ Len(a \o b) = Len(a) + Len(b)
              /\ \A j \in 1 .. Len(a) : (a \o b)[j] = a[j]
              /\ \A j \in 1 .. Len(b) : (a \o b)[Len(a) + j] = b[j]
          BY ONLY <5>1, Joined
        <5> QED BY <4>3, <5>2
      <4>7. Len(a) + 1 = i /\ Len(a) = i - 1
        BY <3>1, <4>3
      <4>8. \A j \in 1 .. i : j = i \/ j \in 1 .. i - 1
        BY <3>1
      <4> QED BY <4>4, <4>5, <4>6, <4>7, <4>8
    <3> QED BY <3>4, <3>5
  <2> HIDE DEF Fine
  <2>5. \A i \in 1 .. n : Fine(i)
    <3> DEFINE T == {i \in 1 .. n : ~Fine(i)}
    <3> SUFFICES ASSUME T # {} PROVE FALSE
      OBVIOUS
    <3>1. PICK m \in T : \A l \in T : m <= l
      <4>1. T \in SUBSET Nat
        BY <1>1
      <4> HIDE DEF T
      <4> QED BY <4>1, LeastNat
    <3>2. m \in 1 .. n /\ m # 1
      BY <1>1, <2>3
    <3>3. m \in 2 .. n /\ m - 1 \in 1 .. n /\ m - 1 \notin T
      BY <1>1, <3>1, <3>2
    <3> QED BY <2>4, <3>3
  <2>6. n \in 1 .. n
    BY <1>1, <1>3
  <2> QED BY <1>1, <2>2, <2>5, <2>6 DEF Fine, n
<1> QED BY <1>2, <1>3

-----------------------------------------------------------------------------
(* Which rules a command runs.                                             *)
LEMMA RunningFacts ==
    ASSUME NEW o \in Options
    PROVE  /\ Running(o) \subseteq Rules
           /\ o.cmd = "baseline" =>
                 /\ o.target = Whole
                 /\ {r \in Rules \ TargetRules : Preset(o.preset)[r] # "off"} \subseteq Running(o)
<1>1. /\ TargetRules \subseteq Rules /\ o.cmd \in {"gate", "lint", "security", "baseline"}
      /\ o.cmd = "baseline" => o.target = Whole
  BY LintConstants
<1>2. DOMAIN Recommended = Rules \ TargetRules
  BY DEF Recommended, Over
<1>3. \A name : DOMAIN Preset(name) = Rules \ TargetRules
  BY <1>2 DEF Preset, Over
<1>4. ASSUME NEW effects, NEW tiers, NEW categories, NEW base
      PROVE  DOMAIN SelectRules(effects, tiers, categories, base) \subseteq DOMAIN base
  BY DEF SelectRules
<1>5. \A p : DOMAIN GateRules(p) \subseteq Rules
  BY <1>2, <1>4 DEF GateRules
<1>6. \A preset, everything : DOMAIN LintRules(preset, everything) \subseteq Rules
  BY <1>3, <1>4 DEF LintRules
<1>7. DOMAIN SecurityRules \subseteq Rules
  BY <1>2, <1>4 DEF SecurityRules, Over
<1>8. DOMAIN Config(o) \subseteq Rules
  BY <1>1, <1>3, <1>5, <1>6, <1>7 DEF Config
<1>9. o.cmd = "baseline" => Config(o) = Preset(o.preset)
  BY DEF Config
<1> QED BY <1>1, <1>3, <1>8, <1>9 DEF Running

(* A scan of the setup reports nothing that a scan for a baseline of the   *)
(* same files would not, if that ran the same rules, and walked its sets   *)
(* in the same order where a rule does.                                    *)
LEMMA CoveredByBaseline ==
    ASSUME NEW o \in Options, NEW b \in Options, b.cmd = "baseline",
           o.target = Whole, o.root = b.root, NEW t, NEW w, NEW v,
           Running(o) \subseteq {r \in Rules \ TargetRules : Preset(b.preset)[r] # "off"}
    PROVE  \A d \in Inspect(o, t, w) :
              d.rule \notin Unsteady \/ w = v => Key(d) \in CreateBaseline(Inspect(b, t, v))
<1>1. Running(o) \subseteq Running(b) /\ b.target = Whole
  BY RunningFacts
<1>2. Scanned(o) = Scanned(b)
  BY <1>1 DEF Scanned
<1>3. ASSUME NEW r, NEW f, r \notin Unsteady \/ w = v
      PROVE  Hits(o, t, w, r, f) = Hits(b, t, v, r, f) /\ \A x : Message(r, x, w) = Message(r, x, v)
  <2>1. Reported(o, r, w) = Reported(b, r, v)
    BY <1>1, <1>3 DEF Reported
  <2>2. \A x : Message(r, x, w) = Message(r, x, v)
    BY <1>3 DEF Message
  <2> QED BY <2>1, <2>2 DEF Hits
<1>4. ASSUME NEW d \in RuleFindings(o, t, w), d.rule \notin Unsteady \/ w = v
      PROVE  \E e \in RuleFindings(b, t, v) : Key(e) = Key(d)
  <2>0. PICK r \in Running(o), f \in Scanned(o) : \E i \in Hits(o, t, w, r, f) :
             d = [rule |-> r, sev |-> Severity(o, r), file |-> f, root |-> o.root, line |-> i,
                  message |-> Message(r, t[f][i].text, w)]
    BY <1>4 DEF RuleFindings
  <2>1. PICK i \in Hits(o, t, w, r, f) :
             d = [rule |-> r, sev |-> Severity(o, r), file |-> f, root |-> o.root, line |-> i,
                  message |-> Message(r, t[f][i].text, w)]
    BY <2>0
  <2> DEFINE e == [rule |-> r, sev |-> Severity(b, r), file |-> f, root |-> b.root, line |-> i,
                   message |-> Message(r, t[f][i].text, v)]
  <2>4. r \notin Unsteady \/ w = v
    BY <1>4, <2>1
  <2>5. Hits(o, t, w, r, f) = Hits(b, t, v, r, f) /\ \A x : Message(r, x, w) = Message(r, x, v)
    BY <1>3, <2>4
  <2>2. e \in RuleFindings(b, t, v)
    <3> DEFINE Of(x, y) ==
          {[rule |-> x, sev |-> Severity(b, x), file |-> y, root |-> b.root, line |-> j,
            message |-> Message(x, t[y][j].text, v)] : j \in Hits(b, t, v, x, y)}
    <3>1. r \in Running(b) /\ f \in Scanned(b) /\ i \in Hits(b, t, v, r, f)
      BY <1>1, <1>2, <2>5
    <3>2. e \in Of(r, f)
      BY <3>1
    <3>3. Of(r, f) \in {Of(x, y) : x \in Running(b), y \in Scanned(b)}
      <4> HIDE DEF Of
      <4> QED BY <3>1
    <3>4. RuleFindings(b, t, v) = UNION {Of(x, y) : x \in Running(b), y \in Scanned(b)}
      BY DEF RuleFindings
    <3> HIDE DEF Of, e
    <3> QED BY <3>2, <3>3, <3>4
  <2>3. Key(e) = Key(d)
    BY <2>1, <2>5 DEF Key
  <2> QED BY <2>2, <2>3
<1>5. ParserFindings(o, t) = ParserFindings(b, t)
  BY <1>2 DEF ParserFindings
<1> QED BY <1>4, <1>5 DEF Inspect, CreateBaseline

(* A scan reports finitely many findings.                                  *)
LEMMA InspectFinite ==
    ASSUME NEW o \in Options, NEW t \in [Files -> Seq(Line)], NEW w
    PROVE  IsFiniteSet(Inspect(o, t, w))
<1> DEFINE Found(r, f) ==
               {[rule |-> r, sev |-> Severity(o, r), file |-> f, root |-> o.root, line |-> i,
                 message |-> Message(r, t[f][i].text, w)] : i \in Hits(o, t, w, r, f)}
<1>1. IsFiniteSet(Rules)
  <2> DEFINE places == 1 .. Len(Catalog)
  <2>1. Len(Catalog) \in Nat /\ DOMAIN Catalog = places /\ Catalog \in [places -> Rules]
    BY LintConstants
  <2>2. Catalog \in Surjection(places, Rules)
    BY <2>1 DEF Surjection, Rules
  <2>3. IsFiniteSet(places)
    BY <2>1, FS_Interval
  <2> QED BY <2>2, <2>3, FS_Surjection
<1>2. IsFiniteSet(Running(o)) /\ Running(o) \subseteq Rules
  BY <1>1, RunningFacts, FS_Subset
<1>3. Scanned(o) \subseteq Files
  BY LintConstants DEF Scanned
<1>4. IsFiniteSet(Scanned(o))
  BY <1>3, FS_Subset, LintConstants
<1>5. ASSUME NEW r, NEW f \in Files PROVE IsFiniteSet(Found(r, f))
  <2> DEFINE hits == Hits(o, t, w, r, f)
             g == [i \in hits |-> [rule |-> r, sev |-> Severity(o, r), file |-> f, root |-> o.root,
                                   line |-> i, message |-> Message(r, t[f][i].text, w)]]
  <2>1. Len(t[f]) \in Nat /\ DOMAIN t[f] = 1 .. Len(t[f])
    OBVIOUS
  <2>2. hits \subseteq 1 .. Len(t[f])
    BY <2>1 DEF Hits
  <2>3. IsFiniteSet(hits)
    <3> HIDE DEF hits
    <3>1. IsFiniteSet(1 .. Len(t[f]))
      BY <2>1, FS_Interval
    <3> QED BY <2>2, <3>1, FS_Subset
  <2>4. g \in Surjection(hits, Found(r, f))
    BY DEF Surjection
  <2> HIDE DEF g, hits, Found
  <2> QED BY <2>3, <2>4, FS_Surjection
<1>6. IsFiniteSet(RuleFindings(o, t, w))
  <2> DEFINE pairs == Running(o) \X Scanned(o)
             sets == {Found(r, f) : r \in Running(o), f \in Scanned(o)}
             g == [p \in pairs |-> Found(p[1], p[2])]
  <2>1. IsFiniteSet(pairs)
    BY <1>2, <1>4, FS_Product
  <2> HIDE DEF Found
  <2>2. g \in Surjection(pairs, sets)
    <3>1. g \in [pairs -> sets]
      OBVIOUS
    <3>2. ASSUME NEW x \in sets PROVE \E p \in pairs : g[p] = x
      <4>1. PICK r \in Running(o), f \in Scanned(o) : x = Found(r, f)
        OBVIOUS
      <4>2. <<r, f>> \in pairs /\ g[<<r, f>>] = Found(r, f)
        OBVIOUS
      <4> QED BY <4>1, <4>2
    <3> HIDE DEF g, pairs, sets
    <3> QED BY <3>1, <3>2 DEF Surjection
  <2>3. IsFiniteSet(sets)
    <3> HIDE DEF g, pairs, sets
    <3> QED BY <2>1, <2>2, FS_Surjection
  <2>4. \A x \in sets : IsFiniteSet(x)
    BY <1>3, <1>5
  <2>5. RuleFindings(o, t, w) = UNION sets
    BY DEF RuleFindings, Found
  <2> HIDE DEF sets
  <2> QED BY <2>3, <2>4, <2>5, FS_UNION
<1>7. IsFiniteSet(ParserFindings(o, t))
  <2> DEFINE files == {x \in Scanned(o) : \E i \in DOMAIN t[x] : t[x][i].text \in Unparsable}
             g == [f \in files |-> [rule |-> "parser", sev |-> "error", file |-> f, root |-> o.root,
                                    line |-> 0, message |-> <<"parser">>]]
  <2>1. IsFiniteSet(files)
    BY <1>4, FS_Subset
  <2>2. g \in Surjection(files, ParserFindings(o, t))
    BY DEF Surjection, ParserFindings
  <2> HIDE DEF g, files
  <2> QED BY <2>1, <2>2, FS_Surjection
<1> QED BY <1>6, <1>7, FS_Union DEF Inspect

(* The exit code of a command with nothing left to report.                 *)
LEMMA NothingPasses ==
    ASSUME NEW o
    PROVE  ExitCode(o, {}) = 0
<1>1. Errors({}) = 0 /\ Warnings({}) = 0
  BY FS_EmptySet DEF Errors, Warnings
<1> QED BY <1>1 DEF ExitCode

(* The grade of so many errors and warnings.                               *)
LEMMA GradeOf ==
    ASSUME NEW e \in Nat, NEW w \in Nat
    PROVE  /\ Grade(e, w) = "A" <=> e = 0 /\ w = 0
           /\ Grade(e, w) \in {"D", "F"} <=> e # 0
<1>1. CASE e = 0 /\ w = 0
  BY <1>1 DEF Grade
<1>2. CASE e = 0 /\ w \in 1 .. 2
  BY <1>2 DEF Grade
<1>3. CASE e = 0 /\ w >= 3
  <2>1. Grade(e, w) = "C"
    BY <1>3 DEF Grade
  <2> QED BY <1>3, <2>1
<1>4. CASE e \in 1 .. 4
  <2>1. Grade(e, w) = "D"
    BY <1>4 DEF Grade
  <2> QED BY <1>4, <2>1
<1>5. CASE e > 4
  <2>1. Grade(e, w) = "F"
    BY <1>5 DEF Grade
  <2> QED BY <1>5, <2>1
<1> QED BY <1>1, <1>2, <1>3, <1>4, <1>5

(* Exit code and card of a lint are functions of the numbers of errors and *)
(* warnings.                                                               *)
LEMMA CardFits ==
    ASSUME NEW o, o.cmd = "lint", NEW ds, IsFiniteSet(ds)
    PROVE  LET card == ReportCard(ds) IN
           /\ o.enforce = "strict" =>
                 (ExitCode(o, ds) = 0 <=> card.verdict = "CLEAN" /\ card.grade = "A")
           /\ card.tier = "NONE" <=> card.grade \in {"D", "F"}
           /\ card.tier = "NONE" <=> card.verdict = "BLOCKED"
<1>1. Errors(ds) \in Nat /\ Warnings(ds) \in Nat
  BY FS_Subset, FS_CardinalityType DEF Errors, Warnings
<1>2. Tier(ds) = "NONE" <=> Errors(ds) # 0
  BY DEF Tier, Hardened, Verified, Basic
<1>3. Verdict(ds) = "BLOCKED" <=> Errors(ds) # 0
  BY <1>1 DEF Verdict
<1>4. Verdict(ds) = "CLEAN" <=> Errors(ds) = 0 /\ Warnings(ds) = 0
  BY <1>1 DEF Verdict
<1>5. /\ Grade(Errors(ds), Warnings(ds)) = "A" <=> Errors(ds) = 0 /\ Warnings(ds) = 0
      /\ Grade(Errors(ds), Warnings(ds)) \in {"D", "F"} <=> Errors(ds) # 0
  BY <1>1, GradeOf
<1>6. o.enforce = "strict" => (ExitCode(o, ds) = 0 <=> Errors(ds) = 0 /\ Warnings(ds) = 0)
  BY <1>1 DEF ExitCode
<1> QED BY <1>2, <1>3, <1>4, <1>5, <1>6 DEF ReportCard

-----------------------------------------------------------------------------
(* --fix.                                                                  *)

(* Of findings on one line, one wins.                                      *)
LEMMA WinnerIsOne ==
    ASSUME NEW ds, ds # {}, \A d \in ds : d.rule \in Rules
    PROVE  Winner(ds) \in ds
<1>1. ASSUME NEW r \in Rules PROVE Place(r) \in 1 .. Len(Catalog)
  <2>1. \E i \in DOMAIN Catalog : Catalog[i] = r
    BY DEF Rules
  <2>2. DOMAIN Catalog = 1 .. Len(Catalog)
    BY LintConstants
  <2> QED BY <2>1, <2>2 DEF Place
<1>2. Len(Catalog) \in Nat
  BY LintConstants
<1> DEFINE T == {Len(Catalog) - Place(d.rule) : d \in ds}
<1>3. T \in SUBSET Nat /\ T # {}
  BY <1>1, <1>2
<1>4. PICK m \in T : \A n \in T : m <= n
  <2> HIDE DEF T
  <2> QED BY <1>3, LeastNat
<1>5. PICK d \in ds : m = Len(Catalog) - Place(d.rule)
  OBVIOUS
<1>6. \A e \in ds : Place(e.rule) <= Place(d.rule)
  <2> SUFFICES ASSUME NEW e \in ds PROVE Place(e.rule) <= Place(d.rule)
    OBVIOUS
  <2>1. m <= Len(Catalog) - Place(e.rule)
    BY <1>4
  <2>2. Place(e.rule) \in Int /\ Place(d.rule) \in Int
    BY <1>1
  <2> QED BY <1>2, <1>5, <2>1, <2>2
<1> QED BY <1>6 DEF Winner

(* What is written is a list of lines.                                     *)
LEMMA FixedTyped ==
    ASSUME NEW content \in Seq(Line), NEW ds, \A d \in ds : d.rule \in Rules /\ Fix[d.rule] \in Texts
    PROVE  /\ [i \in DOMAIN content |-> NewLine(content, ds, i)] \in Seq(Seq(Line))
           /\ FixedContent(content, ds) \in Seq(Line)
<1>1. Len(content) \in Nat /\ DOMAIN content = 1 .. Len(content)
  OBVIOUS
<1>2. ASSUME NEW i \in DOMAIN content PROVE NewLine(content, ds, i) \in Seq(Line)
  <2> DEFINE at == {d \in ds : d.line = ChunkNo(content, i)}
             new == [content[i] EXCEPT !.text = Fix[Winner(at).rule], !.bytes = "utf8"]
  <2>1. content[i] \in Line
    BY <1>1
  <2>2. Rewritten(content[i]) \in Line
    BY <2>1 DEF Rewritten, Line
  <2>3. at # {} => new \in Line
    <3>1. at # {} => Winner(at) \in ds
      BY WinnerIsOne
    <3>2. at # {} => Fix[Winner(at).rule] \in Texts
      BY <3>1
    <3> QED BY <2>1, <3>2 DEF Line
  <2> DEFINE ends == i = Len(content) \/ i + 1 \in ChunkStarts(content)
  <2>4. at = {} => NewLine(content, ds, i) = <<Rewritten(content[i])>>
    BY DEF NewLine
  <2>5. at # {} /\ ends => NewLine(content, ds, i) = <<new>>
    BY DEF NewLine
  <2>6. at # {} /\ ~ends => NewLine(content, ds, i) = <<>>
    BY DEF NewLine
  <2> HIDE DEF at, new, ends
  <2>0. \A x \in Line : <<x>> \in Seq(Line)
    OBVIOUS
  <2>7. at = {} => NewLine(content, ds, i) \in Seq(Line)
    BY <2>0, <2>2, <2>4, Zenon
  <2>8. at # {} /\ ends => NewLine(content, ds, i) \in Seq(Line)
    BY <2>0, <2>3, <2>5, Zenon
  <2>9. at # {} /\ ~ends => NewLine(content, ds, i) \in Seq(Line)
    <3>1. <<>> \in Seq(Line)
      OBVIOUS
    <3> QED BY <2>6, <3>1
  <2> QED BY <2>7, <2>8, <2>9
<1>3. [i \in DOMAIN content |-> NewLine(content, ds, i)] \in Seq(Seq(Line))
  BY <1>1, <1>2
<1> QED BY <1>3, FlattenShows DEF FixedContent

(* In a file with one kind of line end every line is a chunk of its own.   *)
LEMMA UniformChunks ==
    ASSUME NEW content \in Seq(Line), Uniform(content)
    PROVE  \A i \in DOMAIN content :
              ChunkNo(content, i) = i /\ (i = Len(content) \/ i + 1 \in ChunkStarts(content))
<1>1. Len(content) \in Nat /\ DOMAIN content = 1 .. Len(content)
  OBVIOUS
<1>2. ChunkStarts(content) = 1 .. Len(content)
  <2>1. ASSUME NEW i \in DOMAIN content, i # 1, ~Unix(content) PROVE content[i - 1].crlf
    <3>1. i - 1 \in 1 .. Len(content) - 1
      BY <1>1, <2>1
    <3> QED BY <2>1, <3>1 DEF Uniform
  <2> QED BY <1>1, <2>1 DEF ChunkStarts
<1>3. ASSUME NEW i \in DOMAIN content
      PROVE  ChunkNo(content, i) = i /\ (i = Len(content) \/ i + 1 \in ChunkStarts(content))
  <2>1. i \in Nat /\ i >= 1 /\ i <= Len(content)
    BY <1>1
  <2>2. {s \in ChunkStarts(content) : s <= i} = 1 .. i
    BY <1>1, <1>2, <2>1
  <2>3. Cardinality(1 .. i) = i
    BY <2>1, FS_Interval
  <2>4. i = Len(content) \/ i + 1 \in 1 .. Len(content)
    BY <1>1, <2>1
  <2> QED BY <1>2, <2>2, <2>3, <2>4 DEF ChunkNo
<1> QED BY <1>3

(* There, each line is kept, or replaced by what a finding on it proposes. *)
LEMMA FixedLines ==
    ASSUME NEW b \in Seq(Line), Uniform(b), \A i \in DOMAIN b : b[i].bytes # "other",
           NEW ds, \A d \in ds : Proposed(d, b)
    PROVE  LinesKept(FixedContent(b, ds), b, ds)
<1> DEFINE q == [i \in DOMAIN b |-> NewLine(b, ds, i)]
<1>1. Len(b) \in Nat /\ DOMAIN b = 1 .. Len(b)
  OBVIOUS
<1>2. q \in Seq(Seq(Line)) /\ FixedContent(b, ds) = FlattenSeq(q)
  BY FixedTyped DEF FixedContent, Proposed
<1>3. ASSUME NEW i \in DOMAIN b, NEW d0 \in ds, d0.line = i
      PROVE  \E d \in ds :
                /\ d.line = i /\ b[i].text \in Fires[d.rule] \cup FiresAlone[d.rule]
                /\ NewLine(b, ds, i) = <<[text |-> Fix[d.rule], crlf |-> b[i].crlf, bytes |-> "utf8"]>>
  <2> DEFINE at == {d \in ds : d.line = i}
             d1 == Winner(at)
  <2>1. at # {} /\ \A d \in at : d.rule \in Rules
    BY <1>3 DEF Proposed
  <2>2. d1 \in at
    BY <2>1, WinnerIsOne
  <2>3. NewLine(b, ds, i) = <<[b[i] EXCEPT !.text = Fix[d1.rule], !.bytes = "utf8"]>>
    BY <2>1, UniformChunks DEF NewLine
  <2>4. [b[i] EXCEPT !.text = Fix[d1.rule], !.bytes = "utf8"]
           = [text |-> Fix[d1.rule], crlf |-> b[i].crlf, bytes |-> "utf8"]
    <3>0. b[i] \in Line
      BY <1>1
    <3>1. b[i] \in [text : Texts, crlf : BOOLEAN, bytes : {"utf8", "other", "lost"}]
      BY <3>0 DEF Line
    <3> DEFINE l == b[i]
               x == Fix[d1.rule]
    <3>2. l \in [text : Texts, crlf : BOOLEAN, bytes : {"utf8", "other", "lost"}]
      BY <3>1
    <3> HIDE DEF l, x
    <3>3. [l EXCEPT !.text = x, !.bytes = "utf8"] = [text |-> x, crlf |-> l.crlf, bytes |-> "utf8"]
      <4>1. PICK u, c, y : l = [text |-> u, crlf |-> c, bytes |-> y]
        BY <3>2
      <4>2. [l EXCEPT !.text = x, !.bytes = "utf8"] = [[l EXCEPT !.text = x] EXCEPT !.bytes = "utf8"]
        OBVIOUS
      <4>3. [l EXCEPT !.text = x] = [text |-> x, crlf |-> c, bytes |-> y]
        BY <4>1
      <4>4. [[text |-> x, crlf |-> c, bytes |-> y] EXCEPT !.bytes = "utf8"]
               = [text |-> x, crlf |-> c, bytes |-> "utf8"]
        OBVIOUS
      <4>5. l.crlf = c
        BY <4>1
      <4> QED BY <4>2, <4>3, <4>4, <4>5
    <3> QED BY <3>3 DEF l, x
  <2> HIDE DEF d1
  <2> QED BY <2>2, <2>3, <2>4 DEF Proposed
<1>4. ASSUME NEW i \in DOMAIN b, ~\E d \in ds : d.line = i
      PROVE  NewLine(b, ds, i) = <<b[i]>>
  <2>1. NewLine(b, ds, i) = <<Rewritten(b[i])>>
    BY <1>4, UniformChunks DEF NewLine
  <2>2. b[i] \in Line /\ b[i].bytes # "other"
    BY <1>1
  <2>3. Rewritten(b[i]) = b[i]
    BY <2>2 DEF Rewritten, Line
  <2> QED BY <2>1, <2>3
<1>5. DOMAIN q = DOMAIN b /\ Len(q) = Len(b)
  BY <1>1, <1>2
<1>6. ASSUME NEW i \in DOMAIN b PROVE q[i] = NewLine(b, ds, i) /\ \E x : NewLine(b, ds, i) = <<x>>
  BY <1>3, <1>4
<1> HIDE DEF q
<1>7. \A i \in DOMAIN q : Len(q[i]) = 1
  BY <1>5, <1>6
<1>8. /\ Len(FlattenSeq(q)) = Len(q)
      /\ \A i \in DOMAIN q : FlattenSeq(q)[i] = q[i][1]
  BY <1>2, <1>7, FlattenShows
<1>9. \A i \in DOMAIN b : \A x : NewLine(b, ds, i) = <<x>> => FixedContent(b, ds)[i] = x
  BY <1>2, <1>5, <1>6, <1>8
<1>10. ASSUME NEW i \in DOMAIN b, \E d \in ds : d.line = i
       PROVE  \E d \in ds :
                /\ d.line = i /\ b[i].text \in Fires[d.rule] \cup FiresAlone[d.rule]
                /\ FixedContent(b, ds)[i] = [text |-> Fix[d.rule], crlf |-> b[i].crlf, bytes |-> "utf8"]
  BY <1>3, <1>9, <1>10
<1>11. ASSUME NEW i \in DOMAIN b, ~\E d \in ds : d.line = i
       PROVE  FixedContent(b, ds)[i] = b[i]
  BY <1>4, <1>9, <1>11
<1> QED BY <1>2, <1>5, <1>8, <1>10, <1>11 DEF LinesKept

-----------------------------------------------------------------------------
(* What holds of the commands holds initially and is kept by every step.   *)

LEMMA InitLintInv ==
    ASSUME Init
    PROVE  LintInv
<1>1. NoTree \in [Files -> Seq(Line)]
  BY DEF NoTree, NoFile
<1>2. tree \in [Files -> Seq(Line)]
  BY LintConstants DEF Init
<1>3. Typed
  BY <1>1, <1>2 DEF Init, Typed
<1>4. Underway
  BY DEF Init, Underway
<1>5. Accepted
  BY DEF Init, Accepted
<1>6. Repairing
  <2>1. <<>> \in Seq(Line)
    OBVIOUS
  <2>2. repair = NoRepair /\ pc = "idle"
    BY DEF Init
  <2> QED BY <2>1, <2>2 DEF NoRepair, Repairing
<1>7. Concluded
  <2>1. /\ last.opts.cmd = "none" /\ last.shown = {} /\ last.card = ReportCard({})
    BY DEF Init, NoLast, NoOptions
  <2> QED BY <2>1, FS_EmptySet DEF Concluded, NewFindingsFail, QuietWhileUnchanged
<1> QED BY <1>3, <1>4, <1>5, <1>6, <1>7 DEF LintInv

(* Nothing is under way once a command has ended.                          *)
LEMMA EndsKeeps ==
    ASSUME LintInv, NEW code, NEW ds, Ends(code, ds), tree' = tree, repair' = repair
    PROVE  Typed' /\ Underway' /\ Repairing'
<1>1. pc' = "idle" /\ pending' = {} /\ seen' = NoTree /\ write' = NoWrite
  BY DEF Ends
<1>2. NoTree \in [Files -> Seq(Line)]
  BY DEF NoTree, NoFile
<1>3. Typed'
  BY <1>1, <1>2 DEF LintInv, Typed
<1>4. Underway'
  BY <1>1 DEF Underway
<1>5. Repairing'
  BY <1>1 DEF LintInv, Repairing
<1> QED BY <1>3, <1>4, <1>5

(* What a command has left is among what its scan found.                   *)
LEMMA LeftIsFound ==
    ASSUME NEW o, NEW t, NEW w, NEW keys
    PROVE  Left(o, t, w, keys) \subseteq Inspect(o, t, w)
BY DEF Left, Cleaned, Filtered

LEMMA ScanKeeps ==
    ASSUME LintInv, Scan
    PROVE  LintInv'
<1>1. PICK o \in Options : \E w \in OrdersOf(o) :
          opts' = o /\ order' = w /\ results' = Inspect(o, tree, w)
  BY DEF Scan
<1>2. /\ seen' = tree /\ pc' = "scanned" /\ pc = "idle"
      /\ repair' = NoRepair /\ last' = NoLast
      /\ UNCHANGED <<tree, baseline, pending, write, taken>>
  BY DEF Scan
<1>3. Typed'
  BY <1>2 DEF LintInv, Typed
<1>4. Underway'
  BY <1>1, <1>2 DEF LintInv, Underway
<1>5. Accepted'
  BY <1>2 DEF LintInv, Accepted
<1>6. Repairing'
  <2>1. <<>> \in Seq(Line)
    OBVIOUS
  <2> QED BY <1>2, <2>1 DEF NoRepair, Repairing
<1>7. Concluded'
  <2>1. /\ last'.opts.cmd = "none" /\ last'.shown = {} /\ last'.card = ReportCard({})
    BY <1>2 DEF NoLast, NoOptions
  <2> QED BY <2>1, FS_EmptySet DEF Concluded, NewFindingsFail, QuietWhileUnchanged
<1> QED BY <1>3, <1>4, <1>5, <1>6, <1>7 DEF LintInv

LEMMA FailOnBaselineKeeps ==
    ASSUME LintInv, FailOnBaseline
    PROVE  LintInv'
<1>1. /\ Ends(1, {}) /\ baseline.state = "torn"
      /\ UNCHANGED <<tree, baseline, taken, repair>>
  BY DEF FailOnBaseline
<1>2. Typed' /\ Underway' /\ Repairing'
  BY <1>1, EndsKeeps
<1>3. Accepted'
  BY <1>1 DEF Accepted
<1>4. Concluded'
  <2>1. last'.code = 1 /\ last'.shown = {} /\ last'.card = ReportCard({}) /\ baseline'.state = "torn"
    BY <1>1 DEF Ends
  <2> QED BY <2>1, FS_EmptySet DEF Concluded, NewFindingsFail, QuietWhileUnchanged
<1> QED BY <1>2, <1>3, <1>4 DEF LintInv

LEMMA ReportKeeps ==
    ASSUME LintInv, Report
    PROVE  LintInv'
<1>1. /\ pc = "scanned" /\ pc' = "reported" /\ opts.cmd # "baseline"
      /\ Baselined(opts) => baseline.state = "whole"
      /\ UNCHANGED <<tree, baseline, opts, write, seen, order, taken, repair, last>>
  BY DEF Report
<1>2. results' = Left(opts, seen, order, baseline.keys)
  <2>1. results = Inspect(opts, seen, order)
    BY <1>1 DEF LintInv, Underway
  <2>2. results' = Cleaned(opts, IF Baselined(opts) THEN Filtered(results, baseline.keys)
                                 ELSE results)
    BY DEF Report
  <2> QED BY <2>1, <2>2 DEF Left
<1>3. pending' \subseteq Files
  BY DEF Report
<1>4. Typed'
  BY <1>1, <1>3 DEF LintInv, Typed
<1>5. Underway'
  BY <1>1, <1>2 DEF LintInv, Underway
<1>6. Accepted'
  BY <1>1 DEF LintInv, Accepted
<1>7. Repairing'
  BY <1>1 DEF LintInv, Repairing
<1>8. Concluded'
  BY <1>1 DEF LintInv, Concluded, NewFindingsFail, QuietWhileUnchanged
<1> QED BY <1>4, <1>5, <1>6, <1>7, <1>8 DEF LintInv

(* What --fix acts upon in a file was found there.                         *)
LEMMA FixableProposed ==
    ASSUME NEW o \in Options, NEW t, NEW w \in OrdersOf(o), NEW keys, NEW f,
           NEW d \in Fixable(Left(o, t, w, keys), f)
    PROVE  Proposed(d, t[f])
<1>1. d \in Inspect(o, t, w) /\ d.file = f /\ d.line > 0 /\ d.rule \in Rules /\ Fix[d.rule] # NoFix
  BY LeftIsFound DEF Fixable
<1>2. Fix[d.rule] \in Texts
  <2>1. Fix \in [Rules -> Texts \cup {NoFix}]
    BY LintConstants
  <2> QED BY <1>1, <2>1
<1>3. d \notin ParserFindings(o, t)
  BY <1>1 DEF ParserFindings
<1>4. d \in RuleFindings(o, t, w)
  BY <1>1, <1>3 DEF Inspect
<1>5. PICK r \in Running(o), g \in Scanned(o) : \E i \in Hits(o, t, w, r, g) :
           d = [rule |-> r, sev |-> Severity(o, r), file |-> g, root |-> o.root, line |-> i,
                message |-> Message(r, t[g][i].text, w)]
  BY <1>4 DEF RuleFindings
<1>6. PICK i \in Hits(o, t, w, r, g) :
           d = [rule |-> r, sev |-> Severity(o, r), file |-> g, root |-> o.root, line |-> i,
                message |-> Message(r, t[g][i].text, w)]
  BY <1>5
<1>7. r = d.rule /\ g = f /\ i = d.line
  BY <1>1, <1>6
<1>9. Reported(o, r, w) \subseteq Fires[r] \cup FiresAlone[r]
  <2>1. CASE r \in Unsteady
    <3>1. w \in Orders
      BY <2>1 DEF OrdersOf
    <3>2. DOMAIN Told[w][r] \subseteq Fires[r]
      BY <2>1, <3>1, LintConstants
    <3> QED BY <2>1, <3>2 DEF Reported
  <2>2. CASE r \notin Unsteady
    BY <2>2 DEF Reported
  <2> QED BY <2>1, <2>2
<1>8. i \in DOMAIN t[g] /\ t[g][i].text \in Fires[r] \cup FiresAlone[r]
  BY <1>9 DEF Hits
<1> QED BY <1>1, <1>2, <1>7, <1>8 DEF Proposed

LEMMA FixFileKeeps ==
    ASSUME LintInv, FixFile
    PROVE  LintInv'
<1>1. PICK f \in pending :
         /\ pending' = pending \ {f}
         /\ IF tree[f] = NoFile THEN UNCHANGED <<write, pc>>
            ELSE /\ write' = [to |-> f, content |-> FixedContent(tree[f], Fixable(results, f))]
                 /\ pc' = "repairing"
         /\ repair' = [file |-> f, before |-> tree[f], after |-> <<>>,
                       findings |-> Fixable(results, f), seen |-> seen[f]]
  BY DEF FixFile
<1>2. pc = "reported" /\ UNCHANGED <<tree, baseline, opts, results, seen, order, taken, last>>
  BY DEF FixFile
<1>3. /\ f \in Files /\ tree[f] \in Seq(Line) /\ seen[f] \in Seq(Line)
      /\ opts \in Options /\ order \in OrdersOf(opts)
  BY <1>2 DEF LintInv, Typed, Underway
<1>4. Typed'
  BY <1>1, <1>2 DEF LintInv, Typed
<1>5. Underway'
  <2>1. pc' = "repairing" => write'.to \in Files
    BY <1>1, <1>2, <1>3
  <2>2. pc' \in {"reported", "repairing"} /\ (pc' = "reported" => write' = write)
    BY <1>1, <1>2
  <2> QED BY <1>2, <2>1, <2>2 DEF LintInv, Underway
<1>6. Accepted'
  BY <1>2 DEF LintInv, Accepted
<1>7. Repairing'
  <2>1. results = Left(opts, seen, order, baseline.keys)
    BY <1>2 DEF LintInv, Underway
  <2>2. \A d \in Fixable(results, f) : Proposed(d, seen[f])
    BY <1>3, <2>1, FixableProposed
  <2>3. pc' \in {"repairing", "writing"} => write'.content = FixedContent(tree[f], Fixable(results, f))
    BY <1>1, <1>2
  <2> QED BY <1>1, <1>3, <2>2, <2>3 DEF Repairing
<1>8. Concluded'
  BY <1>2 DEF LintInv, Concluded, NewFindingsFail, QuietWhileUnchanged
<1> QED BY <1>4, <1>5, <1>6, <1>7, <1>8 DEF LintInv

LEMMA TruncateKeeps ==
    ASSUME LintInv, Truncate
    PROVE  LintInv'
<1>1. /\ pc = "repairing" /\ pc' = "writing"
      /\ tree' = [tree EXCEPT ![write.to] = <<[text |-> Blank, crlf |-> FALSE, bytes |-> "utf8"]>>]
      /\ UNCHANGED <<baseline, opts, results, pending, write, seen, order, taken, repair, last>>
  BY DEF Truncate
<1>2. Typed'
  <2>1. [text |-> Blank, crlf |-> FALSE, bytes |-> "utf8"] \in Line
    BY LintConstants DEF Line
  <2>2. <<[text |-> Blank, crlf |-> FALSE, bytes |-> "utf8"]>> \in Seq(Line)
    BY <2>1
  <2>3. tree' \in [Files -> Seq(Line)]
    BY <1>1, <2>2 DEF LintInv, Typed
  <2> QED BY <1>1, <2>3 DEF LintInv, Typed
<1>3. Underway'
  BY <1>1 DEF LintInv, Underway
<1>4. Accepted'
  BY <1>1 DEF LintInv, Accepted
<1>5. Repairing'
  BY <1>1 DEF LintInv, Repairing
<1>6. Concluded'
  BY <1>1 DEF LintInv, Concluded, NewFindingsFail, QuietWhileUnchanged
<1> QED BY <1>2, <1>3, <1>4, <1>5, <1>6 DEF LintInv

LEMMA FixedKeeps ==
    ASSUME LintInv, Fixed
    PROVE  LintInv'
<1>1. /\ pc = "writing" /\ write.to \in Files
      /\ tree' = [tree EXCEPT ![write.to] = write.content]
      /\ repair' = [repair EXCEPT !.after = write.content]
      /\ write' = NoWrite /\ pc' = "reported"
      /\ UNCHANGED <<baseline, opts, results, pending, seen, order, taken, last>>
  BY DEF Fixed
<1>2. opts.cmd # "baseline"
  <2>1. NoWrite.to = "none" /\ "none" \notin Files
    BY LintConstants DEF NoWrite
  <2> QED BY <1>1, <2>1 DEF LintInv, Underway
<1>3. write.content = FixedContent(repair.before, repair.findings)
  BY <1>1, <1>2 DEF LintInv, Repairing
<1>4. write.content \in Seq(Line)
  <2>1. repair.before \in Seq(Line) /\ \A d \in repair.findings : d.rule \in Rules /\ Fix[d.rule] \in Texts
    BY DEF LintInv, Repairing, Proposed
  <2> QED BY <1>3, <2>1, FixedTyped
<1>5. Typed'
  BY <1>1, <1>4 DEF LintInv, Typed
<1>6. Underway'
  BY <1>1, <1>2 DEF LintInv, Underway
<1>7. Accepted'
  BY <1>1 DEF LintInv, Accepted
<1>8. Repairing'
  <2>1. /\ repair'.before = repair.before /\ repair'.findings = repair.findings
        /\ repair'.seen = repair.seen /\ repair'.after = write.content
        /\ DOMAIN repair' = DOMAIN repair
    BY <1>1 DEF LintInv, Repairing
  <2> QED BY <1>1, <1>3, <2>1 DEF LintInv, Repairing
<1>9. Concluded'
  BY <1>1 DEF LintInv, Concluded, NewFindingsFail, QuietWhileUnchanged
<1> QED BY <1>5, <1>6, <1>7, <1>8, <1>9 DEF LintInv

(* The exit of a command: what the gate lets pass its baseline holds, and  *)
(* a command given the baseline of what it scanned is left with nothing.   *)
LEMMA ExitKeeps ==
    ASSUME LintInv, Exit
    PROVE  LintInv'
<1>1. /\ pc = "reported" /\ Ends(ExitCode(opts, results), results)
      /\ UNCHANGED <<tree, baseline, taken, repair>>
  BY DEF Exit
<1>2. Typed' /\ Underway' /\ Repairing'
  BY <1>1, EndsKeeps
<1>3. Accepted'
  BY <1>1 DEF LintInv, Accepted
<1>4. last' = [opts |-> opts, seen |-> seen, order |-> order, taken |-> taken,
               code |-> ExitCode(opts, results), shown |-> results, card |-> ReportCard(results)]
  BY <1>1 DEF Ends
<1>5. /\ opts \in Options /\ opts.cmd # "baseline" /\ results = Left(opts, seen, order, baseline.keys)
      /\ Baselined(opts) => baseline.state = "whole"
  BY <1>1 DEF LintInv, Underway
<1>6. Baselined(opts) =>
          /\ taken.opts \in Options /\ taken.opts.cmd = "baseline"
          /\ baseline.keys = CreateBaseline(Inspect(taken.opts, taken.tree, taken.order))
  BY <1>5 DEF LintInv, Accepted
<1>7. IsFiniteSet(results)
  <2>1. IsFiniteSet(Inspect(opts, seen, order))
    BY <1>5, InspectFinite DEF LintInv, Typed
  <2> QED BY <1>5, <2>1, LeftIsFound, FS_Subset
<1>8. NewFindingsFail'
  <2> SUFFICES ASSUME opts.cmd = "gate", ExitCode(opts, results) = 0,
                      NEW d \in Inspect(opts, seen, order), d.sev # "info"
               PROVE  /\ opts.baseline
                      /\ Key(d) \in CreateBaseline(Inspect(taken.opts, taken.tree, taken.order))
    BY <1>4 DEF NewFindingsFail
  <2>1. d \notin results
    BY DEF ExitCode
  <2>2. results = IF opts.baseline THEN Filtered(Inspect(opts, seen, order), baseline.keys)
                  ELSE Inspect(opts, seen, order)
    BY <1>5 DEF Left, Cleaned, Baselined
  <2>3. Baselined(opts) /\ opts.baseline /\ Key(d) \in baseline.keys
    BY <2>1, <2>2 DEF Filtered, Baselined
  <2> QED BY <1>6, <2>3
<1>9. QuietWhileUnchanged'
  <2> SUFFICES ASSUME opts.baseline, opts.target = Whole, seen = taken.tree,
                      opts.root = taken.opts.root,
                      Running(opts) \subseteq
                          {r \in Rules \ TargetRules : Preset(taken.opts.preset)[r] # "off"}
               PROVE  /\ \A d \in results : d.rule \in Unsteady
                      /\ order = taken.order => results = {}
                      /\ results = {} => ExitCode(opts, results) = 0
    BY <1>4 DEF QuietWhileUnchanged
  <2> DEFINE found == Inspect(opts, seen, order)
             had   == CreateBaseline(Inspect(taken.opts, seen, taken.order))
  <2>0. Baselined(opts) /\ baseline.keys = had /\ taken.opts \in Options /\ taken.opts.cmd = "baseline"
    BY <1>6 DEF Baselined
  <2>1. \A d \in found : d.rule \notin Unsteady \/ order = taken.order => Key(d) \in had
    BY <1>5, <2>0, CoveredByBaseline
  <2>2. \A d \in results : d \in found /\ Key(d) \notin had
    BY <1>5, <2>0 DEF Left, Cleaned, Filtered
  <2> HIDE DEF found, had
  <2>3. \A d \in results : d.rule \in Unsteady /\ order # taken.order
    BY <2>1, <2>2
  <2> QED BY <2>3, NothingPasses
<1>10. Concluded'
  BY <1>4, <1>7, <1>8, <1>9 DEF Concluded
<1> QED BY <1>2, <1>3, <1>10 DEF LintInv

LEMMA OpenBaselineKeeps ==
    ASSUME LintInv, OpenBaseline
    PROVE  LintInv'
<1>1. /\ pc = "scanned" /\ opts.cmd = "baseline" /\ pc' = "writing"
      /\ baseline' = [state |-> "torn", keys |-> {}]
      /\ UNCHANGED <<tree, opts, results, pending, write, seen, order, taken, repair, last>>
  BY DEF OpenBaseline
<1>2. Typed'
  BY <1>1 DEF LintInv, Typed
<1>3. Underway'
  BY <1>1 DEF LintInv, Underway
<1>4. Accepted'
  BY <1>1 DEF Accepted
<1>5. Repairing'
  BY <1>1 DEF LintInv, Repairing
<1>6. Concluded'
  BY <1>1 DEF LintInv, Concluded, NewFindingsFail, QuietWhileUnchanged
<1> QED BY <1>2, <1>3, <1>4, <1>5, <1>6 DEF LintInv

LEMMA WriteBaselineKeeps ==
    ASSUME LintInv, WriteBaseline
    PROVE  LintInv'
<1>1. /\ pc = "writing" /\ opts.cmd = "baseline"
      /\ baseline' = [state |-> "whole", keys |-> CreateBaseline(results)]
      /\ taken' = [tree |-> seen, opts |-> opts, order |-> order]
      /\ Ends(0, results) /\ UNCHANGED <<tree, repair>>
  BY DEF WriteBaseline
<1>2. Typed' /\ Underway' /\ Repairing'
  BY <1>1, EndsKeeps
<1>3. opts \in Options /\ results = Inspect(opts, seen, order)
  BY <1>1 DEF LintInv, Underway
<1>4. Accepted'
  BY <1>1, <1>3 DEF Accepted
<1>5. Concluded'
  <2>1. last'.opts.cmd = "baseline" /\ last'.shown = results /\ last'.card = ReportCard(results)
    BY <1>1 DEF Ends
  <2>2. IsFiniteSet(results)
    BY <1>3, InspectFinite DEF LintInv, Typed
  <2> QED BY <2>1, <2>2 DEF Concluded, NewFindingsFail, QuietWhileUnchanged
<1> QED BY <1>2, <1>4, <1>5 DEF LintInv

LEMMA KillKeeps ==
    ASSUME LintInv, Kill
    PROVE  LintInv'
<1>1. Ends(130, {}) /\ UNCHANGED <<tree, baseline, taken, repair>>
  BY DEF Kill
<1>2. Typed' /\ Underway' /\ Repairing'
  BY <1>1, EndsKeeps
<1>3. Accepted'
  BY <1>1 DEF LintInv, Accepted
<1>4. Concluded'
  <2>1. last'.code = 130 /\ last'.shown = {} /\ last'.card = ReportCard({})
    BY <1>1 DEF Ends
  <2> QED BY <2>1, FS_EmptySet DEF Concluded, NewFindingsFail, QuietWhileUnchanged
<1> QED BY <1>2, <1>3, <1>4 DEF LintInv

LEMMA EditKeeps ==
    ASSUME LintInv, Edit
    PROVE  LintInv'
<1>1. PICK f \in Files, content \in Edited \cup {NoFile} : tree' = [tree EXCEPT ![f] = content]
  BY DEF Edit
<1>2. UNCHANGED <<baseline, pc, opts, results, pending, write, seen, order, taken, repair, last>>
  BY DEF Edit
<1>3. tree' \in [Files -> Seq(Line)]
  <2>1. content \in Seq(Line)
    <3>1. Edited \subseteq Seq(Line)
      BY LintConstants
    <3>2. NoFile \in Seq(Line)
      BY DEF NoFile
    <3> QED BY <3>1, <3>2
  <2> QED BY <1>1, <2>1 DEF LintInv, Typed
<1>4. Typed'
  BY <1>2, <1>3 DEF LintInv, Typed
<1>5. Underway'
  BY <1>2 DEF LintInv, Underway
<1>6. Accepted'
  BY <1>2 DEF LintInv, Accepted
<1>7. Repairing'
  BY <1>2 DEF LintInv, Repairing
<1>8. Concluded'
  BY <1>2 DEF LintInv, Concluded, NewFindingsFail, QuietWhileUnchanged
<1> QED BY <1>4, <1>5, <1>6, <1>7, <1>8 DEF LintInv

LEMMA StepLintInv ==
    ASSUME LintInv, [Next]_vars
    PROVE  LintInv'
<1>1. CASE Next
  BY <1>1, ScanKeeps, FailOnBaselineKeeps, ReportKeeps, FixFileKeeps, TruncateKeeps, FixedKeeps,
     ExitKeeps, OpenBaselineKeeps, WriteBaselineKeeps, KillKeeps, EditKeeps DEF Next
<1>2. CASE UNCHANGED vars
  <2>1. Typed' /\ Underway' /\ Accepted' /\ Repairing'
    BY <1>2 DEF LintInv, vars, Typed, Underway, Accepted, Repairing
  <2>2. Concluded'
    BY <1>2 DEF LintInv, vars, Concluded, NewFindingsFail, QuietWhileUnchanged
  <2> QED BY <2>1, <2>2 DEF LintInv
<1> QED BY <1>1, <1>2

(* LintInv holds in every state.                                           *)
THEOREM LintInductive == Spec => []LintInv
<1> QED BY InitLintInv, StepLintInv, PTL DEF Spec

-----------------------------------------------------------------------------
(* "New findings are surfaced" (baseline.py): when the gate passes, every  *)
(* finding of its scan that is no mere information is one the scan behind  *)
(* the baseline had, however the baseline file was killed, rewritten and   *)
(* taken again since.                                                      *)
THEOREM NewFindingsShown == Spec => []NewFindingsFail
<1>1. LintInv => NewFindingsFail
  BY DEF LintInv, Concluded
<1> QED BY <1>1, LintInductive, PTL

(* A command that is given the baseline of the files it scans is quiet     *)
(* (README.md "Adopt incrementally"), but for the rules that walk a set    *)
(* (circular_references.py:26), and for these as well when the sets come   *)
(* in the order they came in for the baseline.                             *)
THEOREM QuietAfterBaseline == Spec => []QuietWhileUnchanged
<1>1. LintInv => QuietWhileUnchanged
  BY DEF LintInv, Concluded
<1> QED BY <1>1, LintInductive, PTL

(* --fix (fixer.py) changes no line but those it has a finding on, whatever*)
(* the number of findings and lines.                                       *)
THEOREM FixIsLocal == Spec => []FixKeepsOtherLines
<1>1. ASSUME LintInv PROVE FixKeepsOtherLines
  <2> SUFFICES ASSUME repair.after # <<>>, repair.before = repair.seen, Uniform(repair.before),
                      \A i \in DOMAIN repair.before : repair.before[i].bytes # "other"
               PROVE  LinesKept(repair.after, repair.before, repair.findings)
    BY DEF FixKeepsOtherLines, LinesKept
  <2>1. /\ repair.before \in Seq(Line) /\ \A d \in repair.findings : Proposed(d, repair.before)
        /\ repair.after = FixedContent(repair.before, repair.findings)
    BY <1>1 DEF LintInv, Repairing
  <2> DEFINE b == repair.before
             ds == repair.findings
  <2>2. /\ b \in Seq(Line) /\ Uniform(b) /\ (\A i \in DOMAIN b : b[i].bytes # "other")
        /\ \A d \in ds : Proposed(d, b)
    BY <2>1
  <2>3. repair.after = FixedContent(b, ds)
    BY <2>1
  <2> HIDE DEF b, ds
  <2>4. LinesKept(FixedContent(b, ds), b, ds)
    BY <2>2, FixedLines
  <2> QED BY <2>3, <2>4 DEF b, ds
<1> QED BY <1>1, LintInductive, PTL

(* The report card of a lint (format_report_card) and its exit code agree. *)
THEOREM CardAgrees == Spec => []CardMatchesExit
<1>1. ASSUME LintInv PROVE CardMatchesExit
  BY <1>1, CardFits DEF LintInv, Concluded, CardMatchesExit
<1> QED BY <1>1, LintInductive, PTL

=============================================================================
