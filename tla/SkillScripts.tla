---------------------------- MODULE SkillScripts ----------------------------
(***************************************************************************)
(* The three rules on the scripts of a skill, against what the scripts do. *)
(* Each rule goes through the files of the skill by itself (create), with  *)
(* nothing kept from one file to the next but the reports, so one script   *)
(* of either language, the other empty, stands for any number of them.     *)
(***************************************************************************)
EXTENDS PythonScripts, BashScripts

vars == <<py_vars, sh_vars>>

Init ==
    /\ \/ script \in Scripts /\ sh = <<>> /\ parsed = TRUE
       \/ script = <<>> /\ sh \in ShScripts /\ parsed \in BOOLEAN
    /\ PyFresh /\ ShFresh
Next == \/ PyNext /\ UNCHANGED sh_vars
        \/ ShNext /\ UNCHANGED py_vars
Spec == Init /\ [][Next]_vars

-----------------------------------------------------------------------------
(* What a run of the Python script does: PyCarrying[i] are the names that  *)
(* hold data of a source after the first i statements.                     *)
PyAfter(i, before) ==
    LET s == script[i]
        holds == \/ Origin(i)
                 \/ s.value = "fstring" /\ \E k \in DOMAIN s.args : s.args[k] \in before
                 \/ s.value = "copy" /\ s.args[1] \in before
    IN  IF holds THEN before \cup ({s.target} \ {NoName}) ELSE before \ {s.target}
PyCarrying[i \in 0 .. Len(script)] ==
    IF i = 0 THEN {} ELSE PyAfter(i, PyCarrying[i - 1])
PyLeaks(i) ==
    /\ script[i].value = "call" /\ script[i].callee.sink # "none"
    /\ LET held == PyCarrying[i - 1] \cup {"fetched"}
       IN  \/ \E k \in DOMAIN script[i].args : script[i].args[k] \in held
           \/ \E k \in DOMAIN script[i].kws : script[i].kws[k].value \in held

(* Scripts that name what they read and that the walk sees in a fit order: *)
(* no copies, no source called right in an argument, and what an f-string  *)
(* or a sink uses is not assigned in deeper blocks (one level deeper will  *)
(* do for a sink).                                                         *)
Followable ==
    /\ \A i \in Lines :
         /\ script[i].value # "copy"
         /\ \A k \in DOMAIN script[i].args : script[i].args[k] # "fetched"
         /\ \A k \in DOMAIN script[i].kws : script[i].kws[k].value # "fetched"
    /\ \A i, j \in Lines : j < i /\ script[j].target # NoName =>
         /\ script[i].value = "fstring" => script[j].depth <= script[i].depth
         /\ script[i].value = "call" => script[j].depth <= script[i].depth + 1

(* What a run of the shell script does, command by command: the variables  *)
(* that hold data of a source after k commands of a line.                  *)
ShDoes(c, before) ==
    CASE c.op \notin {"assign", "read", "export"} -> before
      [] c.op = "read" -> before \cup {c.var}
      [] c.op \in {"assign", "export"} /\ c.value \in {"$1", "$()"} \cup before ->
           before \cup {c.var}
      [] OTHER -> before \ {c.var}
ShAfter(line, carrying) ==
    LET after[k \in 0 .. Len(line)] ==
          IF k = 0 THEN carrying ELSE ShDoes(line[k], after[k - 1])
    IN  after
ShCarrying[n \in 0 .. Len(sh)] ==
    IF n = 0 THEN {} ELSE ShAfter(sh[n], ShCarrying[n - 1])[Len(sh[n])]
ShLeaks(n) ==
    \E k \in DOMAIN sh[n] :
        LET c == sh[n][k]  carrying == ShAfter(sh[n], ShCarrying[n - 1])[k - 1]
        IN  \/ c.op = "fetch"
            \/ c.op \in {"eval", "exec"} /\ c.value \in carrying \cup {"$1", "$()"}

(* Lines the rule can follow: assignments come first on their line, their  *)
(* value is a source or text, an export hands on a variable.               *)
Plain(line) ==
    /\ \A k \in DOMAIN line : line[k].op \in {"assign", "read", "export"} => k = 1
    /\ line # <<>> => /\ line[1].op = "assign" => line[1].value \notin Vars
                      /\ line[1].op = "export" => line[1].value \in Vars \cup {"text"}

(* "Detect data flows from ... sources to dangerous sinks" (both rules):   *)
(* a line where data of a source reaches a sink as the script runs is      *)
(* reported, in either language and whether or not bashlex parses the      *)
(* script; only scripts outside Followable and Plain are excepted.  What   *)
(* flows into code execution is reported by ast-behavioral even there.     *)
FlowsReported ==
    /\ PyDone => \A i \in Lines : PyLeaks(i) =>
         /\ Followable => \E r \in flows : r.line = i
         /\ script[i].callee.sink = "code_execution" => \E b \in behaviours : b.line = i
    /\ ShDone /\ (\A n \in DOMAIN sh : Plain(sh[n])) =>
         \A n \in DOMAIN sh : ShLeaks(n) => Reported(n)

(* No report is made up: see FlowsBacked for Python; a line the shell rule *)
(* reports executes something, and the variable it blames was assigned,    *)
(* read or exported on the line it names.                                  *)
ReportsBacked ==
    /\ FlowsBacked
    /\ \A r \in reports :
         /\ r.line \in DOMAIN sh
         /\ \E k \in DOMAIN sh[r.line] : sh[r.line][k].op \in {"fetch", "eval", "exec"}
         /\ r.kind = "bash_taint_indirect" =>
              /\ r.source \in DOMAIN sh
              /\ \E k \in DOMAIN sh[r.source] :
                   /\ sh[r.source][k].op \in {"assign", "read", "export"}
                   /\ sh[r.source][k].var = r.var
              /\ \E k \in DOMAIN sh[r.line] : Mentions(sh[r.line][k], r.var)

=============================================================================
