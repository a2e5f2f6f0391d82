---------------------------- MODULE RuleCatalog ----------------------------
(***************************************************************************)
(* The rule catalogs of one process (inspection/registry.py): the default  *)
(* one, filled at import by the built-in rules, the YAML rules of the      *)
(* working directory and the plugins; and one copy per scan, to which the  *)
(* YAML rules of the scanned tree may be added (inspection/yaml_rules.py). *)
(* Scans of one process may run at the same time, and an application may   *)
(* register rules of its own meanwhile.  What a command runs of a catalog  *)
(* is in LintCommands, what a rule reports in RuleEngine.                  *)
(***************************************************************************)
EXTENDS Naturals, Sequences, FiniteSets, SequencesExt

CONSTANTS
    Ids,        \* rule ids
    Types,      \* component types
    Builtins,   \* the built-in rules
    Dirs,       \* directories that hold .harness-eval/rules
    Cwd,        \* the one the process runs in
    YamlTrees,  \* documents these may hold: [Dirs -> Seq(Document)]
    PluginSets, \* installed plugins: sequences of Provider
    Late,       \* rules an application may register
    Scans,      \* scans of the process
    Requests    \* what a scan may be asked to do

Rule == [id : Ids, targets : SUBSET Types, from : STRING]

(***************************************************************************)
(* One YAML document.  "rejected": not a mapping, no id, no pattern left.  *)
(* "malformed": a field of a type the parser trips over.  A target the     *)
(* loader does not know is "?".                                            *)
(***************************************************************************)
Document == [kind : {"rule", "rejected", "malformed"}, id : Ids,
             target : Types \cup {"?"}]

(***************************************************************************)
(* A plugin: the ids it unregisters and the rules it then registers, which *)
(* a callable may do as it likes (a Rule or a class registers one), and    *)
(* whether it raises after that (a provider of the wrong kind raises at    *)
(* once).                                                                  *)
(***************************************************************************)
Provider == [removes : SUBSET Ids, rules : Seq(Rule), raises : BOOLEAN]

(* single: of one file; consent: --rules-from-target. *)
Request == [dir : Dirs, consent : BOOLEAN, single : BOOLEAN]

ASSUME CatalogConstants ==
    /\ IsFiniteSet(Ids)
    /\ "skill" \in Types
    /\ Builtins \subseteq Rule
    /\ \A r, q \in Builtins : r.id = q.id => r = q
    /\ Cwd \in Dirs
    /\ YamlTrees \subseteq [Dirs -> Seq(Document)]
    /\ PluginSets \subseteq Seq(Provider)
    /\ Late \subseteq Rule
    /\ \A r \in Late : r.from = "application"
    /\ \A P \in PluginSets : \A k \in DOMAIN P :
           \A r \in ToSet(P[k].rules) : r.from = "plugin"
    /\ \A r \in Builtins : r.from = "builtin"
    /\ Dirs \subseteq STRING \ {"builtin", "plugin", "application"}
    /\ Requests \subseteq Request
    /\ \A q \in Requests : q.consent => ~q.single

Default == "default"
Catalogs == {Default} \cup Scans

ASSUME DefaultIsNoScan == Default \notin Scans

VARIABLES
    boot,      \* "builtins", "yaml", "plugins", "ready", "crashed"
    yaml,      \* what the rule directories hold
    plugins,   \* the installed plugins
    at,        \* next document or plugin of the import
    dict,      \* dict[h]: the dictionary catalog h keeps its rules in
    rules,     \* rules[d]: the rules of dictionary d
    index,     \* index[h]: cached answers of for_target
    phase,     \* phase[s]: where scan s is
    request,   \* request[s]: what it was asked to do
    document   \* document[s]: next YAML document to load

inputs == <<yaml, plugins>>
catalog == <<dict, rules, index>>
scan == <<phase, request, document>>
vars == <<boot, at, inputs, catalog, scan>>

-----------------------------------------------------------------------------
(* RuleCatalog *)

RulesOf(h) == rules[dict[h]]
IdsIn(rs) == {r.id : r \in rs}
ForType(rs, t) == {r \in rs : t \in r.targets}
NoIndex == [t \in {} |-> {}]

(* Mutant of Add: the cached answers are kept. *)
AddKeepingIndex(h, r) ==
    /\ rules' = [rules EXCEPT ![dict[h]] =
                    IF r.id \in IdsIn(@) THEN @ ELSE @ \cup {r}]
    /\ UNCHANGED <<dict, index>>

(* register: an id that is taken raises before anything changes. *)
Add(h, r) ==
    IF r.id \in IdsIn(RulesOf(h))
    THEN UNCHANGED catalog
    ELSE /\ rules' = [rules EXCEPT ![dict[h]] = @ \cup {r}]
         /\ index' = [index EXCEPT ![h] = NoIndex]
         /\ UNCHANGED dict

Discard(h, id) ==
    /\ rules' = [rules EXCEPT ![dict[h]] = {r \in @ : r.id # id}]
    /\ index' = [index EXCEPT ![h] = NoIndex]
    /\ UNCHANGED dict

(* Mutant of Copy: the copy keeps the dictionary of the original. *)
CopyShallow(s) ==
    /\ dict' = [dict EXCEPT ![s] = dict[Default]]
    /\ index' = [index EXCEPT ![s] = NoIndex]
    /\ UNCHANGED rules

Copy(s) ==
    /\ dict' = [dict EXCEPT ![s] = s]
    /\ rules' = [rules EXCEPT ![s] = RulesOf(Default)]
    /\ index' = [index EXCEPT ![s] = NoIndex]

(* for_target fills the index of the catalog it is asked of. *)
Answer(h, t) == IF t \in DOMAIN index[h] THEN index[h][t] ELSE ForType(RulesOf(h), t)

Remember(h, t) ==
    /\ index' = [index EXCEPT ![h] =
                    [u \in DOMAIN @ \cup {t} |-> IF u = t THEN Answer(h, t) ELSE @[u]]]
    /\ UNCHANGED <<dict, rules>>

-----------------------------------------------------------------------------
(* YAML rules *)

(***************************************************************************)
(* _parse_yaml_rule: an unknown target falls back.                         *)
(***************************************************************************)
Parsed(doc, from) ==
    [id |-> doc.id, targets |-> {IF doc.target = "?" THEN "skill" ELSE doc.target},
     from |-> from]

(* Mutant of LoadDocument: the file's rule replaces one of the same id. *)
LoadDocumentReplacing(h, doc, from) ==
    IF doc.kind = "rule"
    THEN /\ rules' = [rules EXCEPT ![dict[h]] =
                        {r \in @ : r.id # doc.id} \cup {Parsed(doc, from)}]
         /\ index' = [index EXCEPT ![h] = NoIndex]
         /\ UNCHANGED dict
    ELSE UNCHANGED catalog

(* load_yaml_rules_from_dir: an id the catalog has is passed over. *)
LoadDocument(h, doc, from) ==
    IF doc.kind = "rule" THEN Add(h, Parsed(doc, from)) ELSE UNCHANGED catalog

-----------------------------------------------------------------------------
Init ==
    /\ boot = "builtins" /\ at = 1
    /\ yaml \in YamlTrees /\ plugins \in PluginSets
    /\ dict = [h \in Catalogs |-> h]
    /\ rules = [h \in Catalogs |-> {}]
    /\ index = [h \in Catalogs |-> NoIndex]
    /\ phase = [s \in Scans |-> "idle"]
    /\ request \in [Scans -> Requests]
    /\ document = [s \in Scans |-> 1]

(* register_all_rules, on the first import of harness_eval.inspection ... *)
RegisterBuiltins ==
    /\ boot = "builtins" /\ boot' = "yaml"
    /\ rules' = [rules EXCEPT ![Default] = Builtins]
    /\ UNCHANGED <<at, inputs, dict, index, scan>>

(* ... then the YAML rules of the working directory ... *)
LoadCwdRule ==
    /\ boot = "yaml" /\ at <= Len(yaml[Cwd])
    /\ LoadDocument(Default, yaml[Cwd][at], Cwd)
    /\ at' = at + 1
    /\ boot' = IF yaml[Cwd][at].kind = "malformed" THEN "crashed" ELSE boot
    /\ UNCHANGED <<inputs, scan>>

CwdRulesLoaded ==
    /\ boot = "yaml" /\ at > Len(yaml[Cwd])
    /\ boot' = "plugins" /\ at' = 1
    /\ UNCHANGED <<inputs, catalog, scan>>

(* Positions whose id the catalog or an earlier rule of the plugin has. *)
Taken(rs, new) ==
    {i \in DOMAIN new : \/ new[i].id \in IdsIn(rs)
                        \/ \E j \in 1..(i - 1) : new[j].id = new[i].id}

(***************************************************************************)
(* What register_provider leaves behind: the rules before the first one    *)
(* whose id is taken; registering that one raises.                         *)
(***************************************************************************)
Accepted(rs, new) ==
    {new[i] : i \in {k \in DOMAIN new : 1..k \cap Taken(rs, new) = {}}}

(* Mutant of NextPlugin: the first exception ends the loop. *)
NextPluginUnlessBroken(p) ==
    IF p.raises \/ Taken(RulesOf(Default), p.rules) # {}
    THEN Len(plugins) + 1 ELSE at + 1

NextPlugin(p) == at + 1

(* ... and the plugins; whatever one raises is logged.  The index that     *)
(* register clears is empty anyway: nobody has asked yet.                  *)
LoadPlugin ==
    /\ boot = "plugins" /\ at <= Len(plugins)
    /\ LET p == plugins[at]
           kept == {r \in RulesOf(Default) : r.id \notin p.removes}
       IN  /\ rules' = [rules EXCEPT ![Default] = kept \cup Accepted(kept, p.rules)]
           /\ at' = NextPlugin(p)
    /\ UNCHANGED <<boot, inputs, dict, index, scan>>

PluginsLoaded ==
    /\ boot = "plugins" /\ at > Len(plugins)
    /\ boot' = "ready"
    /\ UNCHANGED <<at, inputs, catalog, scan>>

(* register_rule and unregister_rule, called by an application. *)
RegisterLate(r) ==
    /\ boot = "ready" /\ Add(Default, r)
    /\ UNCHANGED <<boot, at, inputs, scan>>

UnregisterLate(r) ==
    /\ boot = "ready" /\ r \in RulesOf(Default) /\ Discard(Default, r.id)
    /\ UNCHANGED <<boot, at, inputs, scan>>

-----------------------------------------------------------------------------
(* A scan.  One of a single file runs on the default catalog itself. *)

CatalogOf(s) == IF request[s].single THEN Default ELSE s

StartScan(s) ==
    /\ boot = "ready" /\ phase[s] = "idle"
    /\ phase' = [phase EXCEPT ![s] = IF request[s].single THEN "lint" ELSE "copy"]
    /\ UNCHANGED <<boot, at, inputs, catalog, request, document>>

(* build_scan_catalog *)
CopyCatalog(s) ==
    /\ phase[s] = "copy" /\ Copy(s)
    /\ phase' = [phase EXCEPT ![s] = IF request[s].consent THEN "yaml" ELSE "lint"]
    /\ UNCHANGED <<boot, at, inputs, request, document>>

LoadTargetRule(s) ==
    /\ phase[s] = "yaml" /\ document[s] <= Len(yaml[request[s].dir])
    /\ LET doc == yaml[request[s].dir][document[s]]
       IN  /\ LoadDocument(s, doc, request[s].dir)
           /\ phase' = [phase EXCEPT ![s] =
                           IF doc.kind = "malformed" THEN "failed" ELSE @]
    /\ document' = [document EXCEPT ![s] = @ + 1]
    /\ UNCHANGED <<boot, at, inputs, request>>

TargetRulesLoaded(s) ==
    /\ phase[s] = "yaml" /\ document[s] > Len(yaml[request[s].dir])
    /\ phase' = [phase EXCEPT ![s] = "lint"]
    /\ UNCHANGED <<boot, at, inputs, catalog, request, document>>

(* One component: the rules for its type. *)
LintComponent(s, t) ==
    /\ phase[s] = "lint"
    /\ Remember(CatalogOf(s), t)
    /\ UNCHANGED <<boot, at, inputs, phase, request, document>>

FinishScan(s) ==
    /\ phase[s] = "lint" /\ phase' = [phase EXCEPT ![s] = "done"]
    /\ UNCHANGED <<boot, at, inputs, catalog, request, document>>

Next ==
    \/ RegisterBuiltins \/ LoadCwdRule \/ CwdRulesLoaded
    \/ LoadPlugin \/ PluginsLoaded
    \/ \E r \in Late : RegisterLate(r) \/ UnregisterLate(r)
    \/ \E s \in Scans :
          \/ StartScan(s) \/ CopyCatalog(s) \/ LoadTargetRule(s)
          \/ TargetRulesLoaded(s) \/ FinishScan(s)
          \/ \E t \in Types : LintComponent(s, t)

Spec == Init /\ [][Next]_vars

-----------------------------------------------------------------------------
Phases == {"idle", "copy", "yaml", "lint", "done", "failed"}

UniqueIds == \A h \in Catalogs : \A r, q \in rules[h] : r.id = q.id => r = q

(* Every variable keeps its type; no dictionary has an id twice. *)
TypeOK ==
    /\ boot \in {"builtins", "yaml", "plugins", "ready", "crashed"}
    /\ at \in Nat
    /\ yaml \in YamlTrees /\ plugins \in PluginSets
    /\ dict \in [Catalogs -> Catalogs]
    /\ DOMAIN rules = Catalogs
    /\ \A h \in Catalogs :
          rules[h] \subseteq Rule /\ DOMAIN index[h] \subseteq Types
    /\ UniqueIds
    /\ phase \in [Scans -> Phases]
    /\ request \in [Scans -> Requests]

(***************************************************************************)
(* "Scan-local catalogs keep target-provided YAML rules from leaking       *)
(* across concurrent or repeated scans" (registry.py): whatever the order  *)
(* of the steps of several scans, the rules of a tree that is not the      *)
(* working directory are in the catalogs of scans of this tree that were   *)
(* asked to load them, and nowhere else.                                   *)
(***************************************************************************)
TargetRulesStayLocal ==
    \A h \in Catalogs : \A r \in RulesOf(h) :
        r.from \in Dirs \ {Cwd} =>
            h \in Scans /\ request[h].dir = r.from /\ request[h].consent

(***************************************************************************)
(* for_target never answers from a stale cache: every answer kept in an    *)
(* index is the one the catalog would compute now, whoever registered or   *)
(* removed rules since it was asked first.                                 *)
(***************************************************************************)
IndexIsCurrent ==
    \A h \in Catalogs : \A t \in DOMAIN index[h] :
        index[h][t] = ForType(RulesOf(h), t)

(***************************************************************************)
(* No rule takes the id of a registered one: neither a YAML file, the      *)
(* application or another scan can swap a rule under an id, nor a plugin,  *)
(* unless it is a callable that unregisters that id in the default catalog *)
(* itself (registry.py:92-95).                                             *)
(***************************************************************************)
NoRuleReplaced ==
    [][\A h \in Catalogs :
          \A new \in RulesOf(h)', old \in RulesOf(h) :
              new.id = old.id =>
                  \/ new = old
                  \/ /\ h = Default /\ boot = "plugins"
                     /\ at \in DOMAIN plugins /\ new.id \in plugins[at].removes]_vars

(* Ids of rules that come before plugin k in the order of the import. *)
EarlierIds(k) ==
    IdsIn(Builtins) \cup (UNION {IdsIn(ToSet(plugins[j].rules)) : j \in 1..(k - 1)})
        \cup {yaml[Cwd][i].id : i \in DOMAIN yaml[Cwd]}

(***************************************************************************)
(* "A broken plugin is logged and skipped rather than aborting the scan"   *)
(* (CHANGELOG.md:273): a plugin that neither raises nor reuses an id is    *)
(* registered completely, whatever the plugins before it did, but for what *)
(* one behind it unregisters.                                              *)
(***************************************************************************)
SoundPluginsLoaded ==
    boot = "ready" =>
        \A k \in DOMAIN plugins :
            LET new == ToSet(plugins[k].rules)
            IN  /\ IdsIn(new) \cap EarlierIds(k) = {}
                /\ Cardinality(IdsIn(new)) = Len(plugins[k].rules)
                => \A r \in new :
                       \/ r \in RulesOf(Default)
                       \/ \E j \in DOMAIN plugins : j > k /\ r.id \in plugins[j].removes

-----------------------------------------------------------------------------
(***************************************************************************)
(* What RuleCatalogProofs shows by induction: every catalog has a          *)
(* dictionary of its own, which stays empty until it is filled; only a     *)
(* scan that was asked to is in the phase that loads rules of its tree.    *)
(***************************************************************************)
Fillings ==
    /\ dict = [h \in Catalogs |-> h]
    /\ rules \in [Catalogs -> SUBSET Rule]
    /\ boot = "builtins" => rules[Default] = {}
    /\ \A s \in Scans : phase[s] \in {"idle", "copy"} => rules[s] = {}
    /\ \A s \in Scans : phase[s] = "yaml" => request[s].consent

Indexes ==
    /\ index = [h \in Catalogs |-> index[h]]
    /\ \A h \in Catalogs : DOMAIN index[h] \subseteq Types
    /\ boot # "ready" => \A h \in Catalogs : index[h] = NoIndex

Control ==
    /\ yaml \in YamlTrees /\ plugins \in PluginSets
    /\ at \in Nat \ {0} /\ document \in [Scans -> Nat \ {0}]
    /\ phase \in [Scans -> Phases] /\ request \in [Scans -> Requests]
    /\ boot # "ready" => \A s \in Scans : phase[s] = "idle"

CatalogInv ==
    /\ Control /\ Fillings /\ Indexes /\ UniqueIds
    /\ TargetRulesStayLocal /\ IndexIsCurrent

=============================================================================
