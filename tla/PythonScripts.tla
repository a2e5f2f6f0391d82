--------------------------- MODULE PythonScripts ----------------------------
(***************************************************************************)
(* What the rules security/ast-behavioral and security/taint-flow report   *)
(* on one Python script of a skill: inspection/rules/security/             *)
(* ast_behavioral.py and taint_tracking.py.                                *)
(*                                                                         *)
(* A script is a sequence of statements, each nested in a number of blocks *)
(* (its depth); statement i stands on line i.  Both rules go through       *)
(* ast.walk, which is breadth-first: an assignment is one level below its  *)
(* block, the call on its right-hand side, or of an expression statement,  *)
(* two.  So the order of the visits is not the order of the program, and   *)
(* taint-flow remembers what it has seen so far in one dictionary.         *)
(***************************************************************************)
EXTENDS Naturals, Sequences

CONSTANTS
    Names,      \* variables of the scripts
    Scripts,    \* the scripts to analyse
    NoName      \* an expression statement assigns to no name

SourceTypes == {"credential", "file_read", "network_input"}
SinkTypes == {"network_output", "code_execution"}
(* What an argument may be besides a name: a literal, True, a call such as *)
(* b64decode(...) or a subscript, the call of a source, anything else.     *)
Literals == {"literal", "True"}
Exprs == Names \cup Literals \cup {"decoded", "fetched", "expression"}
(* callee: what the taxonomy, capabilities.yaml, says of the called name.  *)
(* All that it has under code_execution it also has under                  *)
(* dangerous_builtins, subprocess or os_exec.                              *)
Callee ==
    {c \in [source : SourceTypes \cup {"none"}, sink : SinkTypes \cup {"none"},
            danger : {"builtin", "process", "getattr", "none"}] :
        c.sink = "code_execution" => c.danger \in {"builtin", "process"}}
(* value: the right-hand side; "call" with callee, args and keywords, an   *)
(* f-string over args, os.environ[...], a copy of args[1], anything else   *)
Statement ==
    [target : Names \cup {NoName}, value : {"call", "fstring", "environ", "copy", "other"},
     callee : Callee, args : Seq(Exprs), kws : Seq([name : STRING, value : Exprs]),
     depth : Nat]

ASSUME PythonConstants ==
    /\ NoName \notin Names /\ Names \cap {"literal", "True", "decoded", "fetched", "expression"} = {}
    /\ Scripts \subseteq Seq(Statement)

VARIABLES
    script,     \* the script
    rule,       \* "ast-behavioral", then "taint-flow"
    visited,    \* nodes ast.walk has yielded
    tainted,    \* [name, type, line]: the dictionary of taint-flow
    flows,      \* its reports: [type, sink, source, line, message]
    behaviours  \* reports of ast-behavioral: [line, message]

py_vars == <<script, rule, visited, tainted, flows, behaviours>>

PyFresh ==
    /\ rule = "ast-behavioral"
    /\ visited = {} /\ tainted = {} /\ flows = {} /\ behaviours = {}
PyInit == script \in Scripts /\ PyFresh

Lines == DOMAIN script

-----------------------------------------------------------------------------
(* ast.walk: the assignments and the calls, level by level *)
Node == [at : Nat, level : Nat, kind : {"assign", "call"}]
Nodes ==
    {[at |-> i, level |-> script[i].depth + 1, kind |-> "assign"] :
       i \in {j \in Lines : script[j].target # NoName}}
    \cup {[at |-> i, level |-> script[i].depth + 2, kind |-> "call"] :
       i \in {j \in Lines : script[j].value = "call"}}
Before(m, n) == m.level < n.level \/ (m.level = n.level /\ m.at < n.at)
Upcoming(n) ==
    /\ n \in Nodes \ visited
    /\ \A m \in Nodes \ visited : m = n \/ Before(n, m)

-----------------------------------------------------------------------------
(* ast_behavioral.py *)
AllArgsConstant(s) ==
    /\ \A k \in DOMAIN s.args : s.args[k] \in Literals
    /\ \A k \in DOMAIN s.kws :
         /\ ~(s.kws[k].name = "shell" /\ s.kws[k].value = "True")
         /\ s.kws[k].value \in Literals
              \/ s.kws[k].name \in {"stdout", "stderr", "stdin", "encoding", "cwd",
                                    "env", "check"}
Behaviour(s) ==
    CASE s.callee.danger = "builtin" ->
           {IF \E k \in DOMAIN s.args : s.args[k] = "decoded"
            THEN "ast_exec_chain" ELSE "ast_dangerous_call"}
      [] s.callee.danger = "process" ->
           {IF AllArgsConstant(s) THEN "ast_subprocess_hardcoded"
            ELSE "ast_subprocess_dynamic"}
      [] s.callee.danger = "getattr" ->
           {m \in {"ast_dynamic_import"} : Len(s.args) >= 2 /\ s.args[2] \notin Literals}
      [] OTHER -> {}

AstBehavioral ==
    /\ rule = "ast-behavioral" /\ rule' = "taint-flow"
    /\ behaviours' = {b \in [line : Lines,
                             message : UNION {Behaviour(script[i]) : i \in Lines}] :
                        /\ script[b.line].value = "call"
                        /\ b.message \in Behaviour(script[b.line])}
    /\ UNCHANGED <<script, visited, tainted, flows>>

-----------------------------------------------------------------------------
(* taint_tracking.py: _analyze_file *)
TaintOf(name) == {t \in tainted : t.name = name}
Tainting(name) == TaintOf(name) # {}
FirstTainted(exprs) ==
    {k \in DOMAIN exprs : Tainting(exprs[k]) /\ \A j \in 1 .. k - 1 : ~Tainting(exprs[j])}

Mark(name, type, line) ==
    {t \in tainted : t.name # name} \cup {[name |-> name, type |-> type, line |-> line]}

VisitAssign(n) ==
    LET s == script[n.at] IN
    /\ n.kind = "assign"
    /\ \/ /\ s.value = "call" /\ s.callee.source # "none"
          /\ tainted' = Mark(s.target, s.callee.source, n.at)
       \/ /\ s.value = "environ"
          /\ tainted' = Mark(s.target, "credential", n.at)
       \/ /\ s.value = "fstring"
          /\ \E k \in FirstTainted(s.args) : \E t \in TaintOf(s.args[k]) :
               tainted' = Mark(s.target, t.type, t.line)
       \/ /\ \/ s.value = "call" /\ s.callee.source = "none"
             \/ s.value = "fstring" /\ FirstTainted(s.args) = {}
             \/ s.value \in {"copy", "other"}
          /\ tainted' = tainted
    /\ flows' = flows

FlowMessage(type, sink) ==
    IF sink = "code_execution" THEN "taint_input_exec"
    ELSE IF type = "credential" THEN "taint_credential_leak" ELSE "taint_data_exfil"
(* Mutant of Flow: source and sink line the other way round. *)
FlowSwapped(t, n) ==
    [type |-> t.type, sink |-> script[n.at].callee.sink, source |-> n.at,
     line |-> t.line, message |-> FlowMessage(t.type, script[n.at].callee.sink)]
Flow(t, n) ==
    [type |-> t.type, sink |-> script[n.at].callee.sink, source |-> t.line,
     line |-> n.at, message |-> FlowMessage(t.type, script[n.at].callee.sink)]

VisitCall(n) ==
    LET s == script[n.at]
        values == [k \in DOMAIN s.kws |-> s.kws[k].value] IN
    /\ n.kind = "call"
    /\ flows' = flows \cup
         IF s.callee.sink = "none" THEN {}
         ELSE (UNION {{Flow(t, n) : t \in TaintOf(s.args[k])} : k \in FirstTainted(s.args)})
              \cup (UNION {{Flow(t, n) : t \in TaintOf(values[k])}
                           : k \in FirstTainted(values)})
    /\ tainted' = tainted

TaintTracking ==
    /\ rule = "taint-flow"
    /\ \E n \in Nodes :
         /\ Upcoming(n)
         /\ VisitAssign(n) \/ VisitCall(n)
         /\ visited' = visited \cup {n}
    /\ UNCHANGED <<script, rule, behaviours>>

PyNext == AstBehavioral \/ TaintTracking
PySpec == PyInit /\ [][PyNext]_py_vars
PyDone == rule = "taint-flow" /\ visited = Nodes

-----------------------------------------------------------------------------
(* The smallest relation between a name and a line of a source: the name   *)
(* is assigned there, or from an f-string over a name so related.          *)
Origin(i) == \/ script[i].value = "environ"
             \/ script[i].value = "call" /\ script[i].callee.source # "none"
Closed(rel) ==
    \A i \in Lines : script[i].target # NoName =>
        /\ Origin(i) => <<script[i].target, i>> \in rel
        /\ script[i].value = "fstring" =>
             \A k \in DOMAIN script[i].args, l \in Lines :
                <<script[i].args[k], l>> \in rel => <<script[i].target, l>> \in rel
Carries(name, line) ==
    \A rel \in SUBSET (Names \X Lines) : Closed(rel) => <<name, line>> \in rel
TypeAt(i) == IF script[i].value = "environ" THEN "credential" ELSE script[i].callee.source

(* A report of taint-flow is never made up, whatever order the walk takes: *)
(* its source line reads a source of the type it names, its sink line      *)
(* calls a sink of the type it names, and an argument of that call is      *)
(* assigned from the source, directly or through f-strings.                *)
FlowsBacked ==
    \A r \in flows :
        /\ r.source \in Lines /\ r.line \in Lines
        /\ Origin(r.source) /\ r.type = TypeAt(r.source)
        /\ script[r.line].value = "call" /\ r.sink = script[r.line].callee.sink
        /\ r.sink # "none"
        /\ \E name \in Names :
             /\ Carries(name, r.source)
             /\ \/ \E k \in DOMAIN script[r.line].args : script[r.line].args[k] = name
                \/ \E k \in DOMAIN script[r.line].kws : script[r.line].kws[k].value = name

=============================================================================
