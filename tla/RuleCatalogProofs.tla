------------------------- MODULE RuleCatalogProofs -------------------------
(***************************************************************************)
(* Theorems about RuleCatalog: rules of a scanned tree stay in the         *)
(* catalogs of the scans that asked for them, cached answers are current,  *)
(* and no rule takes the id of another, for every set of rules, plugins,   *)
(* trees and scans.                                                        *)
(***************************************************************************)
EXTENDS RuleCatalog, FiniteSetTheorems, TLAPS

(* Catalogs do not share dictionaries, so a catalog's rules are its own.   *)
LEMMA OwnRules ==
    ASSUME Fillings, NEW h \in Catalogs
    PROVE  dict[h] = h /\ RulesOf(h) = rules[h]
BY DEF Fillings, RulesOf

(* Default is a catalog, scans are others.                                 *)
LEMMA CatalogFacts ==
    /\ Default \in Catalogs
    /\ \A s \in Scans : s \in Catalogs /\ s # Default
BY DefaultIsNoScan DEF Catalogs

(* What register does: at most one rule more, its id new, no answer kept.  *)
LEMMA AddFacts ==
    ASSUME CatalogInv, NEW h \in Catalogs, NEW r \in Rule, Add(h, r)
    PROVE  /\ dict' = dict
           /\ rules' \in [Catalogs -> SUBSET Rule]
           /\ index' = [g \in Catalogs |-> index'[g]]
           /\ \A g \in Catalogs \ {h} : rules'[g] = rules[g] /\ index'[g] = index[g]
           /\ \/ rules'[h] = rules[h] /\ index'[h] = index[h]
              \/ /\ rules'[h] = rules[h] \cup {r} /\ index'[h] = NoIndex
                 /\ \A q \in rules[h] : q.id # r.id
<1>1. dict[h] = h /\ RulesOf(h) = rules[h]
  BY OwnRules DEF CatalogInv
<1>2. rules \in [Catalogs -> SUBSET Rule] /\ index = [g \in Catalogs |-> index[g]]
  BY DEF CatalogInv, Fillings, Indexes
<1>3. CASE r.id \in IdsIn(RulesOf(h))
  BY <1>2, <1>3 DEF Add, catalog
<1>4. CASE r.id \notin IdsIn(RulesOf(h))
  <2>1. /\ dict' = dict
        /\ rules' = [rules EXCEPT ![h] = @ \cup {r}]
        /\ index' = [index EXCEPT ![h] = NoIndex]
    BY <1>1, <1>4 DEF Add
  <2>2. \A q \in rules[h] : q.id # r.id
    BY <1>1, <1>4 DEF IdsIn
  <2>3. rules' \in [Catalogs -> SUBSET Rule]
    BY <1>2, <2>1
  <2> QED BY <1>2, <2>1, <2>2, <2>3
<1> QED BY <1>3, <1>4

(* What may be in the catalog g, as far as the origin of a rule decides.   *)
Belongs(r, g) ==
    r.from \in Dirs \ {Cwd} =>
        g \in Scans /\ request[g].dir = r.from /\ request[g].consent

(* One catalog either keeps its rules and answers or drops its answers.    *)
Renewed(g) ==
    \/ rules'[g] = rules[g] /\ index'[g] = index[g]
    \/ /\ index'[g] = NoIndex
       /\ \A r, q \in rules'[g] : r.id = q.id => r = q
       /\ \A r \in rules'[g] : Belongs(r, g)

(* What the steps have in common: ids stay unique, rules stay where they   *)
(* belong, answers stay current.                                           *)
LEMMA RenewedKeeps ==
    ASSUME CatalogInv, Fillings', UNCHANGED request,
           \A g \in Catalogs : Renewed(g)
    PROVE  UniqueIds' /\ TargetRulesStayLocal' /\ IndexIsCurrent'
<1>1. \A g \in Catalogs : dict[g] = g /\ dict'[g] = g
  BY DEF CatalogInv, Fillings
<1>2. UniqueIds'
  BY DEF CatalogInv, UniqueIds, Renewed
<1>3. TargetRulesStayLocal'
  BY <1>1 DEF CatalogInv, TargetRulesStayLocal, Renewed, Belongs, RulesOf
<1>4. IndexIsCurrent'
  <2> SUFFICES ASSUME NEW g \in Catalogs, NEW t \in DOMAIN index'[g]
               PROVE  index'[g][t] = ForType(rules'[g], t)
    BY <1>1 DEF IndexIsCurrent, RulesOf
  <2>1. CASE index'[g] = NoIndex
    BY <2>1 DEF NoIndex
  <2>2. CASE rules'[g] = rules[g] /\ index'[g] = index[g]
    BY <1>1, <2>2 DEF CatalogInv, IndexIsCurrent, RulesOf
  <2> QED BY <2>1, <2>2 DEF Renewed
<1> QED BY <1>2, <1>3, <1>4

(* register renews the catalog it is called on.                            *)
LEMMA AddRenews ==
    ASSUME CatalogInv, NEW h \in Catalogs, NEW r \in Rule, Add(h, r),
           Belongs(r, h)
    PROVE  \A g \in Catalogs : Renewed(g) /\ rules[g] \subseteq rules'[g]
<1>1. /\ \A g \in Catalogs \ {h} : rules'[g] = rules[g] /\ index'[g] = index[g]
      /\ \/ rules'[h] = rules[h] /\ index'[h] = index[h]
         \/ /\ rules'[h] = rules[h] \cup {r} /\ index'[h] = NoIndex
            /\ \A q \in rules[h] : q.id # r.id
  BY AddFacts
<1>2. \A q \in rules[h] : Belongs(q, h)
  BY OwnRules DEF CatalogInv, TargetRulesStayLocal, Belongs
<1>3. Renewed(h)
  BY <1>1, <1>2 DEF Renewed, CatalogInv, UniqueIds
<1> QED BY <1>1, <1>3 DEF Renewed

(* What a document of a rule directory parses to.                          *)
LEMMA ParsedFacts ==
    ASSUME NEW doc \in Document, NEW from \in Dirs
    PROVE  Parsed(doc, from) \in Rule /\ Parsed(doc, from).from = from
<1>1. from \in STRING /\ "skill" \in Types
  BY CatalogConstants
<1>2. {IF doc.target = "?" THEN "skill" ELSE doc.target} \subseteq Types
  BY <1>1 DEF Document
<1> QED BY <1>1, <1>2 DEF Parsed, Rule, Document

(* A catalog only gains rules or only loses rules in a step, unless it is  *)
(* the default one and a plugin unregisters some before it adds its own.   *)
OneWay == \A g \in Catalogs :
    \/ rules[g] \subseteq rules'[g]
    \/ rules'[g] \subseteq rules[g]
    \/ /\ g = Default /\ boot = "plugins" /\ at \in DOMAIN plugins
       /\ \A r \in rules[g] : r.id \in plugins[at].removes \/ r \in rules'[g]

(* What each action of the import and of the scans does to the invariant.  *)
StepKeeps == CatalogInv' /\ OneWay

(* Steps that leave the catalogs alone disturb the control state only.     *)
LEMMA CatalogUntouched ==
    ASSUME CatalogInv, UNCHANGED <<catalog, request>>, Control', Fillings',
           boot' # "ready" => boot # "ready"
    PROVE  StepKeeps
<1>1. \A g \in Catalogs : Renewed(g)
  BY DEF Renewed, catalog
<1>2. Indexes'
  BY DEF CatalogInv, Indexes, catalog
<1>3. OneWay
  BY DEF OneWay, catalog
<1> QED BY <1>1, <1>2, <1>3, RenewedKeeps DEF StepKeeps, CatalogInv

(* register, called with a rule of a kind the catalog may have.            *)
LEMMA AddKeeps ==
    ASSUME CatalogInv, NEW h \in Catalogs, NEW r \in Rule, Add(h, r),
           Belongs(r, h), UNCHANGED request, Control',
           boot # "builtins", boot' # "builtins", boot' # "ready" => boot # "ready",
           h \in Scans => phase[h] = "yaml" /\ phase'[h] \in {"yaml", "failed"},
           \A s \in Scans : s # h => phase'[s] = phase[s]
    PROVE  StepKeeps
<1>1. \A g \in Catalogs : Renewed(g) /\ rules[g] \subseteq rules'[g]
  BY AddRenews
<1>2. /\ dict' = dict
      /\ rules' \in [Catalogs -> SUBSET Rule]
      /\ index' = [g \in Catalogs |-> index'[g]]
      /\ \A g \in Catalogs \ {h} : rules'[g] = rules[g] /\ index'[g] = index[g]
      /\ index'[h] = index[h] \/ index'[h] = NoIndex
  BY AddFacts
<1>3. Fillings'
  <2>1. dict' = [g \in Catalogs |-> g]
    BY <1>2 DEF CatalogInv, Fillings
  <2>2. \A s \in Scans : phase'[s] \in {"idle", "copy"} => rules'[s] = {}
    <3> TAKE s \in Scans
    <3>1. CASE s = h
      BY <3>1
    <3>2. CASE s # h
      BY <1>2, <3>2, CatalogFacts DEF CatalogInv, Fillings
    <3> QED BY <3>1, <3>2
  <2>3. \A s \in Scans : phase'[s] = "yaml" => request'[s].consent
    BY DEF CatalogInv, Fillings
  <2> QED BY <1>2, <2>1, <2>2, <2>3 DEF Fillings
<1>4. Indexes'
  <2>1. \A g \in Catalogs : DOMAIN index'[g] \subseteq Types
    BY <1>2 DEF CatalogInv, Indexes, NoIndex
  <2>2. boot' # "ready" => \A g \in Catalogs : index'[g] = NoIndex
    BY <1>2 DEF CatalogInv, Indexes
  <2> QED BY <1>2, <2>1, <2>2 DEF Indexes
<1>5. OneWay
  BY <1>1 DEF OneWay
<1> QED BY <1>1, <1>3, <1>4, <1>5, RenewedKeeps DEF StepKeeps, CatalogInv

(* The rules of the default catalog come from nowhere a scan brings in.    *)
LEMMA DefaultRules ==
    ASSUME CatalogInv, NEW r \in rules[Default]
    PROVE  r.from \notin Dirs \ {Cwd}
BY CatalogFacts, OwnRules, DefaultIsNoScan DEF CatalogInv, TargetRulesStayLocal

(* The first import fills the empty default catalog with the built-ins.    *)
LEMMA BuiltinsKeep ==
    ASSUME CatalogInv, RegisterBuiltins
    PROVE  StepKeeps
<1> USE DEF CatalogInv
<1>1. /\ rules' = [rules EXCEPT ![Default] = Builtins]
      /\ UNCHANGED <<dict, index, request, phase>>
      /\ boot = "builtins" /\ boot' = "yaml"
  BY DEF RegisterBuiltins, scan
<1>2. Control'
  BY <1>1 DEF RegisterBuiltins, Control, inputs, scan
<1>3. rules' \in [Catalogs -> SUBSET Rule]
  BY <1>1, CatalogFacts, CatalogConstants DEF Fillings
<1>4. \A s \in Scans : rules'[s] = rules[s]
  BY <1>1, CatalogFacts DEF Fillings
<1>5. rules'[Default] = Builtins /\ rules[Default] = {}
  BY <1>1, CatalogFacts DEF Fillings
<1>6. Fillings'
  BY <1>1, <1>3, <1>4 DEF Fillings
<1>7. Indexes'
  BY <1>1 DEF Indexes
<1>8. \A g \in Catalogs : Renewed(g)
  <2>1. Renewed(Default)
    BY <1>1, <1>5, CatalogFacts, CatalogConstants DEF Renewed, Indexes, Belongs
  <2> QED BY <1>1, <1>4, <2>1 DEF Renewed, Catalogs
<1>9. OneWay
  BY <1>4, <1>5 DEF OneWay, Catalogs
<1> QED BY <1>2, <1>6, <1>7, <1>8, <1>9, RenewedKeeps, <1>1 DEF StepKeeps

(* A document of a rule directory is one of Document.                      *)
LEMMA DocumentFacts ==
    ASSUME CatalogInv, NEW d \in Dirs, NEW i \in Nat \ {0}, i <= Len(yaml[d])
    PROVE  yaml[d][i] \in Document
<1>1. yaml \in [Dirs -> Seq(Document)]
  BY CatalogConstants DEF CatalogInv, Control
<1>2. yaml[d] \in Seq(Document)
  BY <1>1
<1> QED BY <1>2

(* load_yaml_rules on the working directory.                               *)
LEMMA CwdRuleKeeps ==
    ASSUME CatalogInv, LoadCwdRule
    PROVE  StepKeeps
<1>1. /\ boot = "yaml" /\ boot' \in {"yaml", "crashed"}
      /\ at' = at + 1 /\ UNCHANGED <<inputs, scan>>
      /\ LoadDocument(Default, yaml[Cwd][at], Cwd) /\ at <= Len(yaml[Cwd])
  BY DEF LoadCwdRule
<1>2. Control'
  BY <1>1 DEF CatalogInv, Control, inputs, scan
<1>3. yaml[Cwd][at] \in Document /\ Cwd \in Dirs
  BY <1>1, CatalogConstants, DocumentFacts DEF CatalogInv, Control
<1>4. CASE yaml[Cwd][at].kind = "rule"
  <2> DEFINE r == Parsed(yaml[Cwd][at], Cwd)
  <2>1. r \in Rule /\ r.from = Cwd
    BY <1>3, ParsedFacts
  <2>2. Add(Default, r) /\ Belongs(r, Default)
    BY <1>1, <1>4, <2>1 DEF LoadDocument, Belongs
  <2> HIDE DEF r
  <2> QED BY <1>1, <1>2, <2>1, <2>2, AddKeeps, CatalogFacts DEF scan
<1>5. CASE yaml[Cwd][at].kind # "rule"
  <2>1. UNCHANGED catalog
    BY <1>1, <1>5 DEF LoadDocument
  <2>2. Fillings'
    BY <1>1, <2>1 DEF CatalogInv, Fillings, catalog, scan
  <2> QED BY <1>1, <1>2, <2>1, <2>2, CatalogUntouched DEF scan
<1> QED BY <1>4, <1>5

(* What a plugin leaves behind: rules of its own, under ids nobody has.    *)
LEMMA AcceptedFacts ==
    ASSUME NEW rs \in SUBSET Rule, NEW new \in Seq(Rule),
           \A r, q \in rs : r.id = q.id => r = q
    PROVE  /\ Accepted(rs, new) \subseteq ToSet(new) \cap Rule
           /\ \A r, q \in rs \cup Accepted(rs, new) : r.id = q.id => r = q
<1>1. Accepted(rs, new) \subseteq ToSet(new) \cap Rule
  BY DEF Accepted, ToSet
<1>2. \A i \in DOMAIN new : i \in Nat /\ i >= 1 /\ i \in 1..i
  OBVIOUS
<1>3. \A r \in rs, q \in Accepted(rs, new) : r.id # q.id
  BY <1>2 DEF Accepted, Taken, IdsIn
<1>4. ASSUME NEW r \in Accepted(rs, new), NEW q \in Accepted(rs, new), r.id = q.id
      PROVE  r = q
  <2>1. PICK i \in DOMAIN new : new[i] = r /\ 1..i \cap Taken(rs, new) = {}
    BY DEF Accepted
  <2>2. PICK j \in DOMAIN new : new[j] = q /\ 1..j \cap Taken(rs, new) = {}
    BY DEF Accepted
  <2>3. i \in Nat /\ j \in Nat /\ i >= 1 /\ j >= 1
    BY <1>2
  <2>4. CASE i < j
    <3>1. i \in 1..(j - 1) /\ j \in 1..j
      BY <2>3, <2>4
    <3> QED BY <1>4, <2>1, <2>2, <3>1 DEF Taken
  <2>5. CASE j < i
    <3>1. j \in 1..(i - 1) /\ i \in 1..i
      BY <2>3, <2>5
    <3> QED BY <1>4, <2>1, <2>2, <3>1 DEF Taken
  <2>6. CASE i = j
    BY <2>1, <2>2, <2>6
  <2> QED BY <2>3, <2>4, <2>5, <2>6
<1> QED BY <1>1, <1>3, <1>4

(* A plugin's rules are the default catalog's; nobody asked it anything.   *)
LEMMA PluginKeeps ==
    ASSUME CatalogInv, LoadPlugin
    PROVE  StepKeeps
<1> DEFINE p == plugins[at]
           kept == {r \in rules[Default] : r.id \notin p.removes}
           new == Accepted(kept, p.rules)
<1>1. /\ boot = "plugins" /\ at <= Len(plugins) /\ at' = at + 1
      /\ UNCHANGED <<boot, dict, index, request, phase, yaml, plugins, document>>
      /\ rules' = [rules EXCEPT ![Default] = kept \cup new]
  BY OwnRules, CatalogFacts DEF CatalogInv, Fillings, LoadPlugin, NextPlugin,
     inputs, scan
<1>2. Control'
  BY <1>1 DEF CatalogInv, Control
<1>3. at \in DOMAIN plugins /\ p \in Provider
      /\ \A r \in ToSet(p.rules) : r.from = "plugin"
  <2>1. plugins \in Seq(Provider) /\ at \in Nat \ {0} /\ plugins \in PluginSets
    BY CatalogConstants DEF CatalogInv, Control
  <2>2. at \in DOMAIN plugins /\ p \in Provider
    BY <1>1, <2>1
  <2> QED BY <2>1, <2>2, CatalogConstants
<1>4. rules \in [Catalogs -> SUBSET Rule] /\ Default \in Catalogs
      /\ rules[Default] \in SUBSET Rule
      /\ \A r, q \in rules[Default] : r.id = q.id => r = q
  BY CatalogFacts DEF CatalogInv, Fillings, UniqueIds
<1>5. p.rules \in Seq(Rule)
  BY <1>3 DEF Provider
<1>13. /\ kept \subseteq rules[Default]
       /\ \A r \in rules[Default] : r.id \in p.removes \/ r \in kept
  OBVIOUS
<1> HIDE DEF p, kept
<1>6. /\ new \subseteq ToSet(p.rules) \cap Rule
      /\ \A r, q \in kept \cup new : r.id = q.id => r = q
  <2> DEFINE rs == kept  own == p.rules
  <2>1. rs \in SUBSET Rule /\ own \in Seq(Rule)
        /\ \A r, q \in rs : r.id = q.id => r = q
    BY <1>4, <1>5, <1>13
  <2> HIDE DEF rs, own
  <2>2. /\ Accepted(rs, own) \subseteq ToSet(own) \cap Rule
        /\ \A r, q \in rs \cup Accepted(rs, own) : r.id = q.id => r = q
    BY <2>1, AcceptedFacts
  <2> QED BY <2>2 DEF rs, own
<1>7. \A r \in new : r.from \notin Dirs \ {Cwd}
  BY <1>3, <1>6, CatalogConstants
<1> HIDE DEF new
<1>8. /\ rules' \in [Catalogs -> SUBSET Rule]
      /\ rules'[Default] = kept \cup new
      /\ \A g \in Catalogs \ {Default} : rules'[g] = rules[g]
  BY <1>1, <1>4, <1>6, <1>13
<1>9. Fillings'
  BY <1>1, <1>8, CatalogFacts DEF CatalogInv, Fillings
<1>10. Indexes'
  BY <1>1 DEF CatalogInv, Indexes
<1>11. \A g \in Catalogs : Renewed(g)
  <2>1. Renewed(Default)
    BY <1>1, <1>4, <1>6, <1>7, <1>8, <1>13, DefaultRules DEF Renewed, Belongs,
       CatalogInv, Indexes
  <2> QED BY <1>1, <1>8, <2>1 DEF Renewed
<1>12. OneWay
  BY <1>1, <1>3, <1>8, <1>13 DEF OneWay, p
<1> QED BY <1>1, <1>2, <1>9, <1>10, <1>11, <1>12, RenewedKeeps
        DEF StepKeeps, CatalogInv

(* An application registers a rule; nobody reads a tree for it.            *)
LEMMA RegisterKeeps ==
    ASSUME CatalogInv, NEW r \in Late, RegisterLate(r)
    PROVE  StepKeeps
<1>1. /\ boot = "ready" /\ Add(Default, r)
      /\ UNCHANGED <<boot, at, yaml, plugins, request, phase, document>>
  BY DEF RegisterLate, inputs, scan
<1>2. r \in Rule /\ Belongs(r, Default)
  BY CatalogConstants DEF Belongs
<1>3. Control'
  BY <1>1 DEF CatalogInv, Control
<1> QED BY <1>1, <1>2, <1>3, AddKeeps, CatalogFacts

(* ... or takes one away.                                                  *)
LEMMA UnregisterKeeps ==
    ASSUME CatalogInv, NEW r \in Late, UnregisterLate(r)
    PROVE  StepKeeps
<1>1. /\ boot = "ready"
      /\ UNCHANGED <<boot, at, yaml, plugins, request, phase, document, dict>>
      /\ rules' = [rules EXCEPT ![Default] = {q \in @ : q.id # r.id}]
      /\ index' = [index EXCEPT ![Default] = NoIndex]
  BY OwnRules, CatalogFacts DEF CatalogInv, Fillings, UnregisterLate, Discard,
     inputs, scan
<1>2. Control'
  BY <1>1 DEF CatalogInv, Control
<1>3. /\ rules \in [Catalogs -> SUBSET Rule] /\ Default \in Catalogs
      /\ index = [g \in Catalogs |-> index[g]]
  BY CatalogFacts DEF CatalogInv, Fillings, Indexes
<1>4. /\ rules'[Default] = {q \in rules[Default] : q.id # r.id}
      /\ index'[Default] = NoIndex
      /\ \A g \in Catalogs \ {Default} : rules'[g] = rules[g] /\ index'[g] = index[g]
      /\ rules' \in [Catalogs -> SUBSET Rule]
      /\ index' = [g \in Catalogs |-> index'[g]]
  BY <1>1, <1>3
<1>5. Fillings'
  BY <1>1, <1>4, CatalogFacts DEF CatalogInv, Fillings
<1>6. Indexes'
  BY <1>1, <1>4 DEF CatalogInv, Indexes, NoIndex
<1>7. \A g \in Catalogs : Renewed(g)
  <2>1. Renewed(Default)
    BY <1>3, <1>4, DefaultRules DEF Renewed, Belongs, CatalogInv, UniqueIds
  <2> QED BY <1>4, <2>1 DEF Renewed
<1>8. OneWay
  BY <1>4 DEF OneWay
<1> QED BY <1>1, <1>2, <1>5, <1>6, <1>7, <1>8, RenewedKeeps
        DEF StepKeeps, CatalogInv

(* build_scan_catalog fills the empty catalog of the scan.                 *)
LEMMA CopyKeeps ==
    ASSUME CatalogInv, NEW s \in Scans, CopyCatalog(s)
    PROVE  StepKeeps
<1>1. /\ phase[s] = "copy"
      /\ UNCHANGED <<boot, at, yaml, plugins, request, document>>
      /\ rules' = [rules EXCEPT ![s] = rules[Default]]
      /\ index' = [index EXCEPT ![s] = NoIndex]
      /\ phase' = [phase EXCEPT ![s] = IF request[s].consent THEN "yaml" ELSE "lint"]
      /\ dict' = [dict EXCEPT ![s] = s]
  BY OwnRules, CatalogFacts DEF CatalogInv, CopyCatalog, Copy, inputs
<1>2. /\ rules \in [Catalogs -> SUBSET Rule] /\ s \in Catalogs /\ Default \in Catalogs
      /\ index = [g \in Catalogs |-> index[g]] /\ phase \in [Scans -> Phases]
      /\ boot = "ready" /\ rules[s] = {} /\ s # Default
      /\ dict = [g \in Catalogs |-> g]
  BY <1>1, CatalogFacts DEF CatalogInv, Control, Fillings, Indexes
<1>3. Control'
  BY <1>1, <1>2 DEF CatalogInv, Control, Phases
<1>4. /\ rules'[s] = rules[Default] /\ index'[s] = NoIndex /\ dict' = dict
      /\ \A g \in Catalogs \ {s} : rules'[g] = rules[g] /\ index'[g] = index[g]
      /\ rules' \in [Catalogs -> SUBSET Rule]
      /\ index' = [g \in Catalogs |-> index'[g]]
      /\ \A u \in Scans \ {s} : phase'[u] = phase[u]
      /\ phase'[s] = IF request[s].consent THEN "yaml" ELSE "lint"
  BY <1>1, <1>2
<1>5. Fillings'
  <2>1. \A u \in Scans : phase'[u] \in {"idle", "copy"} => rules'[u] = {}
    BY <1>4, CatalogFacts DEF CatalogInv, Fillings
  <2>2. \A u \in Scans : phase'[u] = "yaml" => request'[u].consent
    BY <1>1, <1>4 DEF CatalogInv, Fillings
  <2> QED BY <1>1, <1>2, <1>4, <2>1, <2>2 DEF Fillings
<1>6. Indexes'
  BY <1>1, <1>2, <1>4 DEF CatalogInv, Indexes, NoIndex
<1>7. \A g \in Catalogs : Renewed(g)
  <2>1. Renewed(s)
    BY <1>2, <1>4, DefaultRules DEF Renewed, Belongs, CatalogInv, UniqueIds
  <2> QED BY <1>4, <2>1 DEF Renewed
<1>8. OneWay
  BY <1>2, <1>4 DEF OneWay
<1> QED BY <1>1, <1>3, <1>5, <1>6, <1>7, <1>8, RenewedKeeps
        DEF StepKeeps, CatalogInv

(* A rule of the scanned tree enters the catalog of the scan that asked.   *)
LEMMA TargetRuleKeeps ==
    ASSUME CatalogInv, NEW s \in Scans, LoadTargetRule(s)
    PROVE  StepKeeps
<1> DEFINE d == request[s].dir
           doc == yaml[d][document[s]]
<1>1. /\ phase[s] = "yaml" /\ document[s] <= Len(yaml[d])
      /\ UNCHANGED <<boot, at, yaml, plugins, request>>
      /\ LoadDocument(s, doc, d)
      /\ phase' = [phase EXCEPT ![s] = IF doc.kind = "malformed" THEN "failed" ELSE @]
      /\ document' = [document EXCEPT ![s] = @ + 1]
  BY DEF LoadTargetRule, inputs
<1>2. /\ phase \in [Scans -> Phases] /\ document \in [Scans -> Nat \ {0}]
      /\ request[s] \in Requests /\ request[s].consent
      /\ boot = "ready"
  BY <1>1 DEF CatalogInv, Control, Fillings
<1>3. d \in Dirs
  BY <1>2, CatalogConstants DEF Request
<1>4. doc \in Document
  BY <1>1, <1>2, <1>3, DocumentFacts
<1>5. /\ phase'[s] \in {"yaml", "failed"}
      /\ \A u \in Scans : u # s => phase'[u] = phase[u]
      /\ phase' \in [Scans -> Phases]
  BY <1>1, <1>2 DEF Phases
<1>6. Control'
  BY <1>1, <1>2, <1>5 DEF CatalogInv, Control
<1>7. CASE doc.kind = "rule"
  <2> DEFINE r == Parsed(doc, d)
  <2>1. r \in Rule /\ r.from = d
    BY <1>3, <1>4, ParsedFacts
  <2>2. Add(s, r) /\ Belongs(r, s)
    BY <1>1, <1>2, <1>7, <2>1 DEF LoadDocument, Belongs
  <2> HIDE DEF r
  <2> QED BY <1>1, <1>2, <1>5, <1>6, <2>1, <2>2, AddKeeps, CatalogFacts
<1>8. CASE doc.kind # "rule"
  <2>1. UNCHANGED catalog
    BY <1>1, <1>8 DEF LoadDocument
  <2>2. \A u \in Scans : phase'[u] \in {"idle", "copy"} => phase'[u] = phase[u]
    BY <1>5
  <2>3. Fillings'
    BY <1>1, <1>2, <1>5, <2>1, <2>2 DEF CatalogInv, Fillings, catalog
  <2> QED BY <1>1, <1>2, <1>6, <2>1, <2>3, CatalogUntouched
<1> QED BY <1>7, <1>8

(* for_target caches the answer the catalog gives.                         *)
LEMMA LintKeeps ==
    ASSUME CatalogInv, NEW s \in Scans, NEW t \in Types, LintComponent(s, t)
    PROVE  StepKeeps
<1> DEFINE h == CatalogOf(s)
<1>1. h \in Catalogs
  BY CatalogFacts DEF CatalogOf
<1> HIDE DEF h
<1>2. /\ UNCHANGED <<boot, at, yaml, plugins, request, phase, document, dict, rules>>
      /\ index' = [index EXCEPT ![h] =
                     [u \in DOMAIN @ \cup {t} |-> IF u = t THEN Answer(h, t) ELSE @[u]]]
      /\ phase[s] = "lint"
  BY DEF LintComponent, Remember, inputs, h
<1>3. /\ index = [g \in Catalogs |-> index[g]] /\ boot = "ready"
      /\ \A g \in Catalogs : DOMAIN index[g] \subseteq Types
      /\ \A g \in Catalogs : RulesOf(g) = rules[g] /\ RulesOf(g)' = rules[g]
  BY <1>2, OwnRules DEF CatalogInv, Indexes, Control, Fillings, RulesOf
<1>4. Control' /\ Fillings' /\ UniqueIds' /\ TargetRulesStayLocal'
  BY <1>2 DEF CatalogInv, Control, Fillings, UniqueIds, TargetRulesStayLocal, RulesOf
<1>5. /\ index' = [g \in Catalogs |-> index'[g]]
      /\ \A g \in Catalogs : g # h => index'[g] = index[g]
      /\ index'[h] = [u \in DOMAIN index[h] \cup {t} |->
                         IF u = t THEN Answer(h, t) ELSE index[h][u]]
  BY <1>1, <1>2, <1>3
<1>6. Answer(h, t) = ForType(rules[h], t)
  BY <1>1, <1>3 DEF Answer, CatalogInv, IndexIsCurrent
<1>7. Indexes'
  BY <1>1, <1>2, <1>3, <1>5 DEF Indexes
<1>8. IndexIsCurrent'
  <2> SUFFICES ASSUME NEW g \in Catalogs, NEW u \in DOMAIN index'[g]
               PROVE  index'[g][u] = ForType(rules[g], u)
    <3>1. \A g \in Catalogs : RulesOf(g)' = rules[g]
      BY <1>3
    <3> QED BY <3>1 DEF IndexIsCurrent
  <2>1. CASE g = h
    BY <1>1, <1>3, <1>5, <1>6, <2>1 DEF CatalogInv, IndexIsCurrent
  <2>2. CASE g # h
    BY <1>3, <1>5, <2>2 DEF CatalogInv, IndexIsCurrent
  <2> QED BY <2>1, <2>2
<1>9. OneWay
  BY <1>2 DEF OneWay
<1> QED BY <1>4, <1>7, <1>8, <1>9 DEF StepKeeps, CatalogInv

(* Steps of the import and of the scans that leave the catalogs alone.     *)
LEMMA CwdRulesLoadedKeeps ==
    ASSUME CatalogInv, CwdRulesLoaded
    PROVE  StepKeeps
<1>1. /\ boot = "yaml" /\ boot' = "plugins" /\ at' = 1
      /\ UNCHANGED <<catalog, yaml, plugins, request, phase, document>>
  BY DEF CwdRulesLoaded, inputs, scan
<1>2. Control' /\ Fillings'
  BY <1>1 DEF CatalogInv, Control, Fillings, catalog
<1> QED BY <1>1, <1>2, CatalogUntouched

LEMMA PluginsLoadedKeeps ==
    ASSUME CatalogInv, PluginsLoaded
    PROVE  StepKeeps
<1>1. /\ boot = "plugins" /\ boot' = "ready"
      /\ UNCHANGED <<catalog, at, yaml, plugins, request, phase, document>>
  BY DEF PluginsLoaded, inputs, scan
<1>2. Control' /\ Fillings'
  BY <1>1 DEF CatalogInv, Control, Fillings, catalog
<1> QED BY <1>1, <1>2, CatalogUntouched

LEMMA StartKeeps ==
    ASSUME CatalogInv, NEW s \in Scans, StartScan(s)
    PROVE  StepKeeps
<1>1. /\ boot = "ready" /\ phase[s] = "idle"
      /\ phase' = [phase EXCEPT ![s] = IF request[s].single THEN "lint" ELSE "copy"]
      /\ UNCHANGED <<boot, catalog, at, yaml, plugins, request, document>>
  BY DEF StartScan, inputs
<1>2. phase \in [Scans -> Phases]
  BY DEF CatalogInv, Control
<1>3. phase' \in [Scans -> Phases] /\ phase'[s] \in {"lint", "copy"}
      /\ \A u \in Scans \ {s} : phase'[u] = phase[u]
  BY <1>1, <1>2 DEF Phases
<1>4. Control' /\ Fillings'
  BY <1>1, <1>3 DEF CatalogInv, Control, Fillings, catalog
<1> QED BY <1>1, <1>4, CatalogUntouched

LEMMA ScanEndsKeep ==
    ASSUME CatalogInv, NEW s \in Scans, TargetRulesLoaded(s) \/ FinishScan(s)
    PROVE  StepKeeps
<1>1. /\ phase[s] \in {"yaml", "lint"}
      /\ \E p \in {"lint", "done"} : phase' = [phase EXCEPT ![s] = p]
      /\ UNCHANGED <<boot, catalog, at, yaml, plugins, request, document>>
  BY DEF TargetRulesLoaded, FinishScan, inputs
<1>2. phase \in [Scans -> Phases] /\ boot = "ready"
  BY <1>1 DEF CatalogInv, Control
<1>3. phase' \in [Scans -> Phases] /\ phase'[s] \in {"lint", "done"}
      /\ \A u \in Scans \ {s} : phase'[u] = phase[u]
  BY <1>1, <1>2 DEF Phases
<1>4. Control' /\ Fillings'
  BY <1>1, <1>2, <1>3 DEF CatalogInv, Control, Fillings, catalog
<1> QED BY <1>1, <1>4, CatalogUntouched

-----------------------------------------------------------------------------
(* Before the import every catalog is empty and nothing is cached.         *)
LEMMA InitHolds == Init => CatalogInv
<1> SUFFICES ASSUME Init
             PROVE  CatalogInv
  OBVIOUS
<1>1. Control
  BY DEF Init, Control, Phases
<1>2. Fillings /\ UniqueIds
  BY CatalogFacts DEF Init, Fillings, UniqueIds
<1>3. Indexes /\ IndexIsCurrent
  BY DEF Init, Indexes, IndexIsCurrent, NoIndex
<1>4. TargetRulesStayLocal
  BY <1>2, OwnRules DEF Init, TargetRulesStayLocal
<1> QED BY <1>1, <1>2, <1>3, <1>4 DEF CatalogInv

(* Every step keeps the invariant and moves a catalog one way.             *)
LEMMA NextHolds == CatalogInv /\ [Next]_vars => StepKeeps
<1> SUFFICES ASSUME CatalogInv, [Next]_vars
             PROVE  StepKeeps
  OBVIOUS
<1>1. CASE RegisterBuiltins
  BY <1>1, BuiltinsKeep
<1>2. CASE LoadCwdRule
  BY <1>2, CwdRuleKeeps
<1>3. CASE CwdRulesLoaded
  BY <1>3, CwdRulesLoadedKeeps
<1>4. CASE LoadPlugin
  BY <1>4, PluginKeeps
<1>5. CASE PluginsLoaded
  BY <1>5, PluginsLoadedKeeps
<1>6. ASSUME NEW r \in Late, RegisterLate(r) \/ UnregisterLate(r)
      PROVE  StepKeeps
  BY <1>6, RegisterKeeps, UnregisterKeeps
<1>7. ASSUME NEW s \in Scans, StartScan(s)
      PROVE  StepKeeps
  BY <1>7, StartKeeps
<1>8. ASSUME NEW s \in Scans, CopyCatalog(s)
      PROVE  StepKeeps
  BY <1>8, CopyKeeps
<1>9. ASSUME NEW s \in Scans, LoadTargetRule(s)
      PROVE  StepKeeps
  BY <1>9, TargetRuleKeeps
<1>10. ASSUME NEW s \in Scans, TargetRulesLoaded(s) \/ FinishScan(s)
       PROVE  StepKeeps
  BY <1>10, ScanEndsKeep
<1>11. ASSUME NEW s \in Scans, NEW t \in Types, LintComponent(s, t)
       PROVE  StepKeeps
  BY <1>11, LintKeeps
<1>12. CASE UNCHANGED vars
  <2>1. UNCHANGED <<boot, at, yaml, plugins, catalog, phase, request, document>>
    BY <1>12 DEF vars, inputs, scan
  <2>2. Control' /\ Fillings'
    BY <2>1 DEF CatalogInv, Control, Fillings, catalog
  <2> QED BY <2>1, <2>2, CatalogUntouched
<1> QED BY <1>1, <1>2, <1>3, <1>4, <1>5, <1>6, <1>7, <1>8, <1>9, <1>10, <1>11,
        <1>12 DEF Next

(* CatalogInv is inductive: it holds in every state of every behaviour.    *)
THEOREM CatalogInvariant == Spec => []CatalogInv
<1>1. CatalogInv /\ [Next]_vars => CatalogInv'
  BY NextHolds DEF StepKeeps
<1> QED BY InitHolds, <1>1, PTL DEF Spec

(* registry.py, RuleCatalog.copy: rules of a scanned tree are only in the  *)
(* catalogs of the scans of that tree that asked for them.                 *)
THEOREM TargetRulesLocal == Spec => []TargetRulesStayLocal
<1>1. CatalogInv => TargetRulesStayLocal
  BY DEF CatalogInv
<1> QED BY <1>1, CatalogInvariant, PTL

(* registry.py, for_target: no cached answer is stale.                     *)
THEOREM IndexCurrent == Spec => []IndexIsCurrent
<1>1. CatalogInv => IndexIsCurrent
  BY DEF CatalogInv
<1> QED BY <1>1, CatalogInvariant, PTL

(* registry.py, register: nothing takes the id of a registered rule.       *)
THEOREM RulesKept == Spec => NoRuleReplaced
<1> DEFINE Kept == \A h \in Catalogs :
                     \A new \in RulesOf(h)', old \in RulesOf(h) :
                         new.id = old.id =>
                           \/ new = old
                           \/ /\ h = Default /\ boot = "plugins"
                              /\ at \in DOMAIN plugins /\ new.id \in plugins[at].removes
<1>1. ASSUME CatalogInv, [Next]_vars
      PROVE  Kept
  <2>1. CatalogInv' /\ OneWay
    BY <1>1, NextHolds DEF StepKeeps
  <2>2. \A h \in Catalogs : RulesOf(h) = rules[h] /\ RulesOf(h)' = rules'[h]
    BY <1>1, <2>1 DEF CatalogInv, Fillings, RulesOf
  <2> QED BY <1>1, <2>1, <2>2 DEF CatalogInv, UniqueIds, OneWay
<1>2. CatalogInv /\ [Next]_vars => [Kept]_vars
  BY <1>1
<1> QED BY <1>2, CatalogInvariant, PTL DEF Spec, NoRuleReplaced

-----------------------------------------------------------------------------
(* The plugins.  A sound one brings ids nobody had before, each once.      *)
Sound(k) ==
    LET new == ToSet(plugins[k].rules)
    IN  /\ IdsIn(new) \cap EarlierIds(k) = {}
        /\ Cardinality(IdsIn(new)) = Len(plugins[k].rules)

Loaded(k) ==
    Sound(k) => \A r \in ToSet(plugins[k].rules) :
        \/ r \in rules[Default]
        \/ \E j \in DOMAIN plugins : j > k /\ r.id \in plugins[j].removes

(* During the import the default catalog holds only what came before, and  *)
(* of the plugins that were asked every sound one.                         *)
PluginInv ==
    /\ boot \in {"builtins", "yaml"} => IdsIn(rules[Default]) \subseteq EarlierIds(1)
    /\ boot = "plugins" => IdsIn(rules[Default]) \subseteq EarlierIds(at)
    /\ boot = "ready" => \A k \in DOMAIN plugins : Loaded(k)
    /\ boot = "plugins" => \A k \in DOMAIN plugins : k < at => Loaded(k)

(* A plugin's rules have as many ids as there are rules only if no id      *)
(* comes twice.                                                            *)
LEMMA IdsDiffer ==
    ASSUME NEW seq \in Seq(Rule), Cardinality(IdsIn(ToSet(seq))) = Len(seq)
    PROVE  \A i, j \in 1 .. Len(seq) : seq[i].id = seq[j].id => i = j
<1> DEFINE n == Len(seq)
           S == IdsIn(ToSet(seq))
           f == [i \in 1 .. n |-> seq[i].id]
<1>1. n \in Nat /\ DOMAIN seq = 1 .. n
  OBVIOUS
<1>2. S = {seq[i].id : i \in 1 .. n}
  BY <1>1 DEF IdsIn, ToSet
<1>3. f \in [1 .. n -> S] /\ \A x \in S : \E i \in 1 .. n : f[i] = x
  BY <1>2
<1>4. \A i \in 1 .. n : f[i] = seq[i].id
  OBVIOUS
<1>5. Cardinality(S) = n
  OBVIOUS
<1> HIDE DEF f, S, n
<1>6. f \in Surjection(1 .. n, S)
  BY <1>3 DEF Surjection
<1>7. IsFiniteSet(1 .. n) /\ Cardinality(1 .. n) = n
  BY <1>1, FS_Interval
<1>8. f \in Injection(1 .. n, S)
  BY <1>5, <1>6, <1>7, FS_Surjection
<1>9. \A i, j \in 1 .. n : f[i] = f[j] => i = j
  BY <1>8 DEF Injection, IsInjective
<1> QED BY <1>4, <1>9 DEF n

(* Nothing of a sound plugin is refused.                                   *)
LEMMA SoundAccepted ==
    ASSUME NEW rs, NEW seq \in Seq(Rule),
           IdsIn(ToSet(seq)) \cap IdsIn(rs) = {}, Cardinality(IdsIn(ToSet(seq))) = Len(seq)
    PROVE  ToSet(seq) \subseteq Accepted(rs, seq)
<1>1. DOMAIN seq = 1 .. Len(seq) /\ Len(seq) \in Nat
  OBVIOUS
<1>2. \A i \in DOMAIN seq : seq[i].id \notin IdsIn(rs)
  BY DEF IdsIn, ToSet
<1>3. \A i \in DOMAIN seq : \A j \in 1 .. (i - 1) : seq[j].id # seq[i].id
  <2> SUFFICES ASSUME NEW i \in DOMAIN seq, NEW j \in 1 .. (i - 1), seq[j].id = seq[i].id
               PROVE  FALSE
    OBVIOUS
  <2>1. i \in 1 .. Len(seq) /\ j \in 1 .. Len(seq) /\ i # j
    BY <1>1
  <2> QED BY <2>1, IdsDiffer
<1>4. Taken(rs, seq) = {}
  BY <1>2, <1>3 DEF Taken
<1> QED BY <1>4 DEF Accepted, ToSet

(* What the import has behind it grows with every plugin.                  *)
LEMMA EarlierGrows ==
    ASSUME NEW k \in Nat \ {0}
    PROVE  EarlierIds(k) \cup IdsIn(ToSet(plugins[k].rules)) \subseteq EarlierIds(k + 1)
<1> DEFINE part(j) == IdsIn(ToSet(plugins[j].rules))
<1>1. 1 .. (k - 1) \subseteq 1 .. ((k + 1) - 1) /\ k \in 1 .. ((k + 1) - 1)
  OBVIOUS
<1> HIDE DEF part
<1>2. (UNION {part(j) : j \in 1 .. (k - 1)}) \cup part(k) \subseteq UNION {part(j) : j \in 1 .. ((k + 1) - 1)}
  BY <1>1
<1> QED BY <1>2 DEF EarlierIds, part

(* Steps that leave the import and the default catalog's plugin rules.     *)
LEMMA PluginsKept ==
    ASSUME PluginInv, UNCHANGED <<boot, at, yaml, plugins>>,
           \/ rules'[Default] = rules[Default]
           \/ /\ boot = "ready"
              /\ \A k \in DOMAIN plugins :
                    ToSet(plugins[k].rules) \cap rules[Default] \subseteq rules'[Default]
    PROVE  PluginInv'
<1>1. \A k : EarlierIds(k)' = EarlierIds(k) /\ (Sound(k)' <=> Sound(k))
  BY DEF EarlierIds, Sound
<1>2. CASE rules'[Default] = rules[Default]
  BY <1>1, <1>2 DEF PluginInv, Loaded
<1>3. CASE /\ boot = "ready"
           /\ \A k \in DOMAIN plugins :
                 ToSet(plugins[k].rules) \cap rules[Default] \subseteq rules'[Default]
  <2>1. \A k \in DOMAIN plugins : Loaded(k)
    BY <1>3 DEF PluginInv
  <2>2. \A k \in DOMAIN plugins : Loaded(k)'
    BY <1>1, <1>3, <2>1 DEF Loaded
  <2> QED BY <1>3, <2>2 DEF PluginInv
<1> QED BY <1>2, <1>3

(* A document of the working directory comes before every plugin.          *)
LEMMA CwdRulePlugins ==
    ASSUME CatalogInv, PluginInv, LoadCwdRule
    PROVE  PluginInv'
<1> DEFINE doc == yaml[Cwd][at]
<1>1. /\ boot = "yaml" /\ boot' \in {"yaml", "crashed"} /\ UNCHANGED <<yaml, plugins>>
      /\ at \in Nat \ {0} /\ at <= Len(yaml[Cwd]) /\ LoadDocument(Default, doc, Cwd)
  BY DEF LoadCwdRule, inputs, CatalogInv, Control
<1>2. doc \in Document /\ at \in DOMAIN yaml[Cwd]
  <2>1. yaml \in [Dirs -> Seq(Document)] /\ Cwd \in Dirs
    BY CatalogConstants DEF CatalogInv, Control
  <2> QED BY <1>1, <2>1
<1>3. IdsIn(rules'[Default]) \subseteq IdsIn(rules[Default]) \cup {doc.id}
  <2>1. CASE doc.kind = "rule"
    <3>1. Parsed(doc, Cwd) \in Rule /\ Parsed(doc, Cwd).id = doc.id
      BY <1>2, ParsedFacts, CatalogConstants DEF Parsed
    <3>2. Add(Default, Parsed(doc, Cwd))
      BY <1>1, <2>1 DEF LoadDocument
    <3>3. rules'[Default] \in {rules[Default], rules[Default] \cup {Parsed(doc, Cwd)}}
      BY <3>1, <3>2, AddFacts, CatalogFacts
    <3> QED BY <3>1, <3>3 DEF IdsIn
  <2>2. CASE doc.kind # "rule"
    BY <1>1, <2>2 DEF LoadDocument, catalog
  <2> QED BY <2>1, <2>2
<1>4. EarlierIds(1)' = EarlierIds(1) /\ doc.id \in EarlierIds(1)
  BY <1>1, <1>2 DEF EarlierIds
<1> QED BY <1>1, <1>3, <1>4 DEF PluginInv

(* The plugins are a list, each with a list of rules.                      *)
LEMMA PluginFacts ==
    ASSUME CatalogInv
    PROVE  /\ DOMAIN plugins = 1 .. Len(plugins) /\ Len(plugins) \in Nat /\ at \in Nat \ {0}
           /\ \A k \in DOMAIN plugins : plugins[k].rules \in Seq(Rule)
<1>1. plugins \in Seq(Provider) /\ at \in Nat \ {0}
  BY CatalogConstants DEF CatalogInv, Control
<1>2. DOMAIN plugins = 1 .. Len(plugins) /\ Len(plugins) \in Nat
  BY <1>1
<1>3. \A k \in DOMAIN plugins : plugins[k] \in Provider
  BY <1>1
<1> QED BY <1>1, <1>2, <1>3 DEF Provider

(* A plugin is asked: what it brings is taken, up to the first id in use.  *)
LEMMA LoadPluginPlugins ==
    ASSUME CatalogInv, PluginInv, LoadPlugin
    PROVE  PluginInv'
<1>1. PICK seq : seq = plugins[at].rules
  OBVIOUS
<1>2. PICK k : k = at
  OBVIOUS
<1>3. /\ boot = "plugins" /\ UNCHANGED <<boot, yaml, plugins>>
      /\ k \in Nat \ {0} /\ k \in DOMAIN plugins /\ at' = k + 1
  <2>1. boot = "plugins" /\ UNCHANGED <<boot, yaml, plugins>> /\ at <= Len(plugins) /\ at' = at + 1
    BY DEF LoadPlugin, NextPlugin, inputs
  <2> QED BY <1>2, <2>1, PluginFacts
<1>4. seq \in Seq(Rule) /\ \A j \in DOMAIN plugins : j \in Nat
  BY <1>1, <1>2, <1>3, PluginFacts
<1>10. PICK kept : kept = {r \in rules[Default] : r.id \notin plugins[k].removes}
  OBVIOUS
<1>5. rules'[Default] = kept \cup Accepted(kept, seq)
  <2>1. RulesOf(Default) = rules[Default] /\ rules \in [Catalogs -> SUBSET Rule]
    BY OwnRules, CatalogFacts DEF CatalogInv, Fillings
  <2> QED BY <1>1, <1>2, <1>10, <2>1, CatalogFacts DEF LoadPlugin
<1>6. \A j : EarlierIds(j)' = EarlierIds(j) /\ (Sound(j)' <=> Sound(j))
  BY <1>3 DEF EarlierIds, Sound
<1>7. IdsIn(kept) \subseteq EarlierIds(k)
  BY <1>2, <1>3, <1>10 DEF PluginInv, IdsIn
<1>8. IdsIn(rules'[Default]) \subseteq EarlierIds(k + 1)
  <2>1. IdsIn(rules'[Default]) \subseteq IdsIn(kept) \cup IdsIn(ToSet(seq))
    BY <1>5 DEF IdsIn, Accepted, ToSet
  <2>2. EarlierIds(k) \cup IdsIn(ToSet(seq)) \subseteq EarlierIds(k + 1)
    BY <1>1, <1>2, <1>3, EarlierGrows
  <2> QED BY <1>7, <2>1, <2>2
<1>9. ASSUME NEW j \in DOMAIN plugins, j < k + 1
      PROVE  Loaded(j)'
  <2>1. CASE j = k
    <3>1. ASSUME Sound(k)
          PROVE  ToSet(seq) \subseteq Accepted(kept, seq)
      <4>1. /\ IdsIn(ToSet(seq)) \cap IdsIn(kept) = {}
            /\ Cardinality(IdsIn(ToSet(seq))) = Len(seq)
        BY <1>1, <1>2, <1>7, <3>1 DEF Sound
      <4> QED BY <1>4, <4>1, SoundAccepted
    <3>2. plugins'[k].rules = seq
      BY <1>1, <1>2, <1>3
    <3> QED BY <1>5, <1>6, <2>1, <3>1, <3>2 DEF Loaded
  <2>2. CASE j # k
    <3>1. j < k
      BY <1>3, <1>4, <1>9, <2>2
    <3>2. Loaded(j)
      BY <1>2, <1>3, <3>1 DEF PluginInv
    <3>3. k \in DOMAIN plugins /\ k > j
      BY <1>3, <1>4, <3>1
    <3>4. \A r \in rules[Default] : r.id \in plugins[k].removes \/ r \in rules'[Default]
      BY <1>5, <1>10
    <3>5. plugins' = plugins /\ (Sound(j)' <=> Sound(j))
      BY <1>3, <1>6
    <3> QED BY <3>2, <3>3, <3>4, <3>5 DEF Loaded
  <2> QED BY <2>1, <2>2
<1> QED BY <1>3, <1>6, <1>8, <1>9 DEF PluginInv

(* An application's rule goes; a plugin's is another one.                  *)
LEMMA UnregisterPlugins ==
    ASSUME CatalogInv, PluginInv, NEW r \in Late, UnregisterLate(r)
    PROVE  PluginInv'
<1>1. /\ boot = "ready" /\ UNCHANGED <<boot, at, yaml, plugins>>
      /\ r \in rules[Default] /\ rules'[Default] = {q \in rules[Default] : q.id # r.id}
  <2>1. /\ RulesOf(Default) = rules[Default] /\ dict[Default] = Default
        /\ rules \in [Catalogs -> SUBSET Rule]
    BY OwnRules, CatalogFacts DEF CatalogInv, Fillings
  <2> QED BY <2>1, CatalogFacts DEF UnregisterLate, Discard, inputs
<1>2. ASSUME NEW k \in DOMAIN plugins, NEW q \in ToSet(plugins[k].rules) \cap rules[Default]
      PROVE  q \in rules'[Default]
  <2>1. q.from = "plugin" /\ r.from = "application"
    BY CatalogConstants DEF CatalogInv, Control
  <2>2. q.id # r.id
    BY <1>1, <2>1, CatalogFacts DEF CatalogInv, UniqueIds
  <2> QED BY <1>1, <2>2
<1> QED BY <1>1, <1>2, PluginsKept

(* A step of the import, of an application or of a scan.                   *)
LEMMA NextPlugins ==
    ASSUME CatalogInv, PluginInv, [Next]_vars
    PROVE  PluginInv'
<1>1. dict[Default] = Default /\ rules \in [Catalogs -> SUBSET Rule] /\ Default \in Catalogs
  BY OwnRules, CatalogFacts DEF CatalogInv, Fillings
<1>2. CASE RegisterBuiltins
  <2>1. /\ rules'[Default] = Builtins /\ boot' = "yaml" /\ UNCHANGED <<yaml, plugins>>
    BY <1>1, <1>2 DEF RegisterBuiltins, inputs
  <2>2. IdsIn(Builtins) \subseteq EarlierIds(1)'
    BY DEF EarlierIds
  <2> QED BY <2>1, <2>2 DEF PluginInv
<1>3. CASE LoadCwdRule
  BY <1>3, CwdRulePlugins
<1>4. CASE CwdRulesLoaded
  <2>1. boot = "yaml" /\ boot' = "plugins" /\ at' = 1 /\ UNCHANGED <<yaml, plugins, rules>>
    BY <1>4 DEF CwdRulesLoaded, inputs, catalog
  <2>2. IdsIn(rules[Default]) \subseteq EarlierIds(1) /\ EarlierIds(1)' = EarlierIds(1)
    BY <2>1 DEF PluginInv, EarlierIds
  <2>3. \A k \in DOMAIN plugins : ~(k < 1)
    BY PluginFacts
  <2> QED BY <2>1, <2>2, <2>3 DEF PluginInv
<1>5. CASE LoadPlugin
  BY <1>5, LoadPluginPlugins
<1>6. CASE PluginsLoaded
  <2>1. boot = "plugins" /\ boot' = "ready" /\ at > Len(plugins) /\ UNCHANGED <<yaml, plugins, rules>>
    BY <1>6 DEF PluginsLoaded, inputs, catalog
  <2>2. \A k \in DOMAIN plugins : k < at
    BY <2>1, PluginFacts
  <2>3. \A k \in DOMAIN plugins : Loaded(k)' <=> Loaded(k)
    BY <2>1 DEF Loaded, Sound, EarlierIds
  <2> QED BY <2>1, <2>2, <2>3 DEF PluginInv
<1>7. ASSUME NEW r \in Late, RegisterLate(r) PROVE PluginInv'
  <2>1. boot = "ready" /\ UNCHANGED <<boot, at, yaml, plugins>> /\ Add(Default, r) /\ r \in Rule
    BY <1>7, CatalogConstants DEF RegisterLate, inputs
  <2>2. rules[Default] \subseteq rules'[Default]
    BY <1>1, <2>1, AddFacts
  <2> QED BY <2>1, <2>2, PluginsKept
<1>8. ASSUME NEW r \in Late, UnregisterLate(r) PROVE PluginInv'
  BY <1>8, UnregisterPlugins
<1>9. ASSUME UNCHANGED <<boot, at, yaml, plugins>>, rules'[Default] = rules[Default] PROVE PluginInv'
  BY <1>9, PluginsKept
<1>10. ASSUME NEW s \in Scans, CopyCatalog(s) PROVE PluginInv'
  <2>1. rules'[Default] = rules[Default] /\ UNCHANGED <<boot, at, yaml, plugins>>
    BY <1>1, <1>10, CatalogFacts DEF CopyCatalog, Copy, inputs
  <2> QED BY <1>9, <2>1
<1>11. ASSUME NEW s \in Scans, LoadTargetRule(s) PROVE PluginInv'
  <2> DEFINE doc == yaml[request[s].dir][document[s]]
  <2>1. LoadDocument(s, doc, request[s].dir) /\ UNCHANGED <<boot, at, yaml, plugins>>
    BY <1>11 DEF LoadTargetRule, inputs
  <2>2. dict[s] = s /\ s # Default
    BY CatalogFacts DEF CatalogInv, Fillings
  <2>3. rules'[Default] = rules[Default]
    BY <1>1, <2>1, <2>2 DEF LoadDocument, Add, catalog
  <2> QED BY <1>9, <2>1, <2>3
<1>12. ASSUME NEW s \in Scans, StartScan(s) \/ TargetRulesLoaded(s) \/ FinishScan(s) PROVE PluginInv'
  BY <1>9, <1>12 DEF StartScan, TargetRulesLoaded, FinishScan, inputs, catalog
<1>13. ASSUME NEW s \in Scans, NEW t \in Types, LintComponent(s, t) PROVE PluginInv'
  BY <1>9, <1>13 DEF LintComponent, Remember, inputs
<1>14. CASE UNCHANGED vars
  BY <1>9, <1>14 DEF vars, inputs, catalog
<1> QED BY <1>2, <1>3, <1>4, <1>5, <1>6, <1>7, <1>8, <1>10, <1>11, <1>12, <1>13, <1>14 DEF Next

(* A plugin that neither raises nor reuses an id is registered completely, *)
(* whatever the plugins before it did and whatever an application removes. *)
THEOREM SoundLoaded == Spec => []SoundPluginsLoaded
<1>1. ASSUME Init PROVE PluginInv
  <2>1. boot = "builtins" /\ rules[Default] = {}
    BY <1>1, CatalogFacts DEF Init
  <2>2. IdsIn({}) = {}
    BY DEF IdsIn
  <2> QED BY <2>1, <2>2 DEF PluginInv
<1>2. CatalogInv /\ PluginInv /\ [Next]_vars => PluginInv'
  BY NextPlugins
<1>3. CatalogInv /\ PluginInv => SoundPluginsLoaded
  BY OwnRules, CatalogFacts DEF CatalogInv, PluginInv, Loaded, Sound, SoundPluginsLoaded
<1> QED BY <1>1, <1>2, <1>3, CatalogInvariant, PTL DEF Spec

=============================================================================
