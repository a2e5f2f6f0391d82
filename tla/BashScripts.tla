---------------------------- MODULE BashScripts -----------------------------
(***************************************************************************)
(* What the rule security/bash-taint-flow reports on one shell script of a *)
(* skill: inspection/rules/security/bash_taint_tracking.py.  A script that *)
(* bashlex parses is walked command by command and then gone through line  *)
(* by line; for any other the lines alone have to do.                      *)
(*                                                                         *)
(* A line holds the simple commands it separates by ";".  Its regular      *)
(* expressions see the line as a whole, the walk one command at a time.    *)
(***************************************************************************)
EXTENDS Naturals, Sequences

CONSTANTS
    Vars,       \* shell variables
    Prefixes,   \* Prefixes[v]: the variables whose name v's begins with, v too
    ShScripts   \* the scripts to analyse

(* op: V=value, read V, export V=value, a command that executes its        *)
(* argument (eval, exec, source, bash -c), curl | bash, a comment.         *)
(* value: a positional parameter, $(...), $W, or text.                     *)
Values == Vars \cup {"$1", "$()", "text"}
Command ==
    [op : {"assign", "read", "export", "eval", "exec", "fetch", "comment"},
     var : Vars, value : Values]

ASSUME BashConstants ==
    /\ Vars \cap {"$1", "$()", "text"} = {}
    /\ Prefixes \in [Vars -> SUBSET Vars] /\ \A v \in Vars : v \in Prefixes[v]
    /\ ShScripts \subseteq Seq(Seq(Command) \ {<<>>})
    /\ \A s \in ShScripts : \A n \in DOMAIN s : \A k \in DOMAIN s[n] :
         s[n][k].op = "comment" => Len(s[n]) = 1

VARIABLES
    sh,         \* the script
    parsed,     \* bashlex could parse it
    pass,       \* "walk", "lines", "done"
    at,         \* <<line, command>> of the walk, <<line, 1>> of the line pass
    marks,      \* marks[v]: line of tainted_vars, 0 without an entry
    reports     \* [line, kind, sink, var, source]

sh_vars == <<sh, parsed, pass, at, marks, reports>>

NoMarks == [v \in Vars |-> 0]
ShFresh ==
    /\ pass = IF parsed THEN "walk" ELSE "lines"
    /\ at = <<1, 1>> /\ marks = NoMarks /\ reports = {}
ShInit == sh \in ShScripts /\ parsed \in BOOLEAN /\ ShFresh

Reported(line) == \E r \in reports : r.line = line
Direct(line, sink) == [line |-> line, kind |-> "bash_taint_flow", sink |-> sink,
                       var |-> "", source |-> 0]
Indirect(line, v, sink) == [line |-> line, kind |-> "bash_taint_indirect", sink |-> sink,
                            var |-> v, source |-> marks[v]]
(* "$v" occurs in the command: also as the beginning of a longer name *)
Mentions(c, v) == c.value \in Vars /\ v \in Prefixes[c.value]
Tainted(c) == {v \in Vars : marks[v] > 0 /\ Mentions(c, v)}

-----------------------------------------------------------------------------
(* _walk_node: one command *)
WalkReports(c, line) ==
    CASE c.op = "fetch" -> {Direct(line, "curl | bash")}
      [] c.op = "eval" /\ c.value = "$()" -> {Direct(line, "eval")}
      [] c.op = "eval" -> {Indirect(line, v, "eval") : v \in Tainted(c)}
      [] OTHER -> {}
WalkMarks(c, line) ==
    CASE c.op = "read" -> [marks EXCEPT ![c.var] = line]
      [] c.op = "assign" /\ c.value \in {"$1", "$()"} -> [marks EXCEPT ![c.var] = line]
      [] c.op = "export" /\ c.value \in {v \in Vars : marks[v] > 0} ->
           [marks EXCEPT ![c.var] = line]
      [] OTHER -> marks

Follows == IF at[2] < Len(sh[at[1]]) THEN <<at[1], at[2] + 1>> ELSE <<at[1] + 1, 1>>

(* reported_lines lets a line have one report *)
Walk ==
    /\ pass = "walk" /\ at[1] <= Len(sh)
    /\ LET c == sh[at[1]][at[2]]
           new == WalkReports(c, at[1])
       IN  /\ IF new = {} \/ Reported(at[1]) THEN reports' = reports
              ELSE \E r \in new : reports' = reports \cup {r}
           /\ marks' = WalkMarks(c, at[1])
    /\ at' = Follows
    /\ UNCHANGED <<sh, parsed, pass>>
Walked ==
    /\ pass = "walk" /\ at[1] > Len(sh)
    /\ pass' = "lines" /\ at' = <<1, 1>>
    /\ UNCHANGED <<sh, parsed, marks, reports>>

-----------------------------------------------------------------------------
(* The line pass, of both analyses *)
Source(c) == c.op = "read" \/ c.value \in {"$1", "$()"}
HasSource(line) == \E k \in DOMAIN line : Source(line[k])
HasSink(line) == \E k \in DOMAIN line : line[k].op \in {"eval", "exec"}
HasFetch(line) == \E k \in DOMAIN line : line[k].op = "fetch"
FirstOf(line, op) ==
    {k \in DOMAIN line : line[k].op = op /\ \A j \in 1 .. k - 1 : line[j].op # op}
EvalOfSubstitution(line) ==
    \E j, k \in DOMAIN line : j <= k /\ line[j].op = "eval" /\ line[k].value = "$()"
IsComment(line) == line # <<>> /\ line[1].op = "comment"

(* _ASSIGNMENT_RE, _READ_CMD_RE and _EXPORT_TAINTED_RE on the line, in turn. *)
(* The first takes the rest of the line for the value.                     *)
LineMarks(line, n) ==
    LET assigned == IF line[1].op = "assign" /\ HasSource(line)
                    THEN [marks EXCEPT ![line[1].var] = n] ELSE marks
        read == [v \in Vars |-> IF \E k \in FirstOf(line, "read") : line[k].var = v
                                THEN n ELSE assigned[v]]
    IN  [v \in Vars |-> IF \E k \in FirstOf(line, "export") :
                               /\ line[k].var = v /\ line[k].value \in Vars
                               /\ read[line[k].value] > 0
                        THEN n ELSE read[v]]
LineReports(line, n, seen) ==
    IF HasFetch(line) THEN {Direct(n, "curl | bash")}
    ELSE IF parsed /\ EvalOfSubstitution(line) THEN {Direct(n, "eval")}
    ELSE IF ~HasSink(line) THEN {}
    ELSE IF HasSource(line) THEN {Direct(n, "sink")}
    ELSE {[Indirect(n, v, "sink") EXCEPT !.source = seen[v]] :
            v \in {u \in Vars : seen[u] > 0 /\ \E k \in DOMAIN line : Mentions(line[k], u)}}

(* Mutant of ReadLine: a line is looked at before what it assigns. *)
ReadLineUsesFirst ==
    /\ pass = "lines" /\ at[1] <= Len(sh)
    /\ LET line == sh[at[1]]
           skipped == IsComment(line) \/ (parsed /\ Reported(at[1]))
           new == LineReports(line, at[1], marks)
       IN  /\ marks' = IF skipped \/ new # {} THEN marks ELSE LineMarks(line, at[1])
           /\ IF skipped \/ new = {} THEN reports' = reports
              ELSE \E r \in new : reports' = reports \cup {r}
    /\ at' = <<at[1] + 1, 1>>
    /\ UNCHANGED <<sh, parsed, pass>>

(* A line that the walk has reported is skipped, its assignments included. *)
ReadLine ==
    /\ pass = "lines" /\ at[1] <= Len(sh)
    /\ LET line == sh[at[1]]
           skipped == IsComment(line) \/ (parsed /\ Reported(at[1]))
           seen == LineMarks(line, at[1])
           new == LineReports(line, at[1], seen)
       IN  /\ marks' = IF skipped THEN marks ELSE seen
           /\ IF skipped \/ new = {} THEN reports' = reports
              ELSE \E r \in new : reports' = reports \cup {r}
    /\ at' = <<at[1] + 1, 1>>
    /\ UNCHANGED <<sh, parsed, pass>>
Read ==
    /\ pass = "lines" /\ at[1] > Len(sh)
    /\ pass' = "done"
    /\ UNCHANGED <<sh, parsed, at, marks, reports>>

ShNext == Walk \/ Walked \/ ReadLine \/ Read
ShDone == pass = "done"
ShSpec == ShInit /\ [][ShNext]_sh_vars

=============================================================================
