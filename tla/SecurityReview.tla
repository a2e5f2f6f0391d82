--------------------------- MODULE SecurityReview ---------------------------
(***************************************************************************)
(* cli/security.py: the harness-security command from the results of the   *)
(* rules to its exit code.  The results are cleaned, each one with         *)
(* findings is adjudicated by a language model, every component is         *)
(* reviewed by a pool of threads (rubric/scorer.py RubricChecker.check),   *)
(* and the adjudicated findings decide the risk and the exit code.         *)
(***************************************************************************)
EXTENDS Naturals, Sequences, FiniteSets, Functions

CONSTANTS
    Results,   \* sequence of [type, name]: target_type and target_name
    Comps,     \* components of the setup
    Key,       \* Key[c]: [type, name] of component c
    Scans,     \* findings of the results: sequences of Diagnostic, by result
    Options,   \* command lines
    Workers    \* max_workers of the pool (4 in the code)

(* kind "optional": yara-signatures or cve-lookup; "parser": a rule of      *)
(* non_security_rules; "rule": any other.                                   *)
Diagnostic == [kind : {"rule", "optional", "parser"},
               severity : {"error", "warning", "info"}]

Option == [review : BOOLEAN, enforce : {"none", "strict", "advisory", "off"},
           failOn : {"none", "error", "warning"}]

ASSUME ReviewConstants ==
    /\ Results \in Seq([type : STRING, name : STRING])
    /\ IsFiniteSet(Comps)
    /\ Key \in [Comps -> [type : STRING, name : STRING]]
    /\ Scans \subseteq [DOMAIN Results -> Seq(Diagnostic)]
    /\ Options \subseteq Option
    /\ \A o \in Options : o.enforce = "none" \/ o.failOn = "none"
    /\ Workers \in Nat \ {0}

VARIABLES
    pc,           \* "clean", "adjudicate", "review", "failing", "report", "ended"
    options,      \* the command line
    results,      \* diagnostics by result and number
    next,         \* result the adjudication loop is at
    reply,        \* reply[t]: the model's answer on result t
    adjudicated,  \* the flag of the report
    verdicts,     \* adjudication_map, by target name
    waiting,      \* submitted checks no thread has taken
    running,      \* checks in a thread
    found,        \* found[c]: issues of a check that returned
    raised,       \* checks that raised
    semantic,     \* components whose check was collected
    calls,        \* calls_total and calls_succeeded of the client
    report        \* what is printed, and the exit code

inputs == <<options, results>>
adjudication == <<next, reply, adjudicated, verdicts>>
pool == <<waiting, running, found, raised, semantic>>
vars == <<pc, inputs, adjudication, pool, calls, report>>

-----------------------------------------------------------------------------
Verdicts == {"CONFIRMED", "FALSE_POSITIVE", "DOWNGRADED"}

(* _clean_results: notices of skipped checks and parser findings go.  A      *)
(* finding keeps the number it had, where the code's list numbers anew.     *)
Kept(d) == d.kind = "rule" \/ (d.kind = "optional" /\ d.severity # "info")
Cleaned(diagnostics) == RestrictValues(diagnostics, Kept)

(* comp_map has the target. *)
HasComponent(t) == \E c \in Comps : Key[c] = Results[t]

NoReply == [kind |-> "none", given |-> <<>>]

Init ==
    /\ pc = "clean" /\ options \in Options /\ results \in Scans
    /\ next = 1 /\ reply = [t \in DOMAIN Results |-> NoReply]
    /\ adjudicated = FALSE /\ verdicts = <<>>
    /\ waiting = {} /\ running = {}
    /\ found = <<>> /\ raised = {} /\ semantic = {}
    /\ calls = [total |-> 0, succeeded |-> 0] /\ report = <<>>

Clean ==
    /\ pc = "clean"
    /\ pc' = IF options.review THEN "adjudicate" ELSE "report"
    /\ results' = [t \in DOMAIN Results |-> Cleaned(results[t])]
    /\ UNCHANGED <<options, adjudication, pool, calls, report>>

(* The client has no key or its library is missing. *)
NoClient ==
    /\ pc = "clean" /\ options.review
    /\ pc' = "ended" /\ report' = [printed |-> FALSE, exit |-> 1]
    /\ UNCHANGED <<inputs, adjudication, pool, calls>>

-----------------------------------------------------------------------------
(***************************************************************************)
(* What can come of asking about result t: the call or the reading raises; *)
(* the text holds no JSON; or some indices have a verdict, which need not  *)
(* be one of the three words.                                              *)
(***************************************************************************)
Replies(t) ==
    [kind : {"raised", "unusable"}, given : {<<>>}]
        \cup [kind : {"verdicts"},
              given : UNION {[I -> Verdicts \cup {"other"}] :
                                I \in SUBSET DOMAIN results[t]}]

(* Mutant of Answer: a finding the reply does not mention is dismissed. *)
AnswerDismissing(r, i) ==
    IF r.kind = "verdicts" /\ i \notin DOMAIN r.given THEN "FALSE_POSITIVE"
    ELSE IF i \in DOMAIN r.given /\ r.given[i] \in Verdicts THEN r.given[i]
    ELSE "CONFIRMED"

(* _parse_adjudication_response and the except clause around it: whatever   *)
(* is not a verdict on this finding confirms it.                            *)
Answer(r, i) ==
    IF i \in DOMAIN r.given /\ r.given[i] \in Verdicts THEN r.given[i]
    ELSE "CONFIRMED"

Adjudicated(t, r) ==
    [i \in DOMAIN results[t] |->
        [severity |-> results[t][i].severity, verdict |-> Answer(r, i)]]

Put(map, k, value) ==
    [x \in DOMAIN map \cup {k} |-> IF x = k THEN value ELSE map[x]]

AtResult(t) ==
    /\ pc = "adjudicate" /\ t = next /\ next' = next + 1
    /\ UNCHANGED <<pc, inputs, adjudicated, pool, report>>

NothingToAsk(t) ==
    /\ AtResult(t) /\ (results[t] = <<>> \/ ~HasComponent(t))
    /\ UNCHANGED <<reply, verdicts, calls>>

(* One synchronous call.  The Anthropic client counts a call as succeeded   *)
(* before it reads the text, so a raising call may have been counted.       *)
Ask(t) ==
    /\ AtResult(t) /\ results[t] # <<>> /\ HasComponent(t)
    /\ \E r \in Replies(t), succeeded \in {0, 1} :
          /\ r.kind # "raised" => succeeded = 1
          /\ reply' = [reply EXCEPT ![t] = r]
          /\ verdicts' = Put(verdicts, Results[t].name, Adjudicated(t, r))
          /\ calls' = [total |-> calls.total + 1,
                       succeeded |-> calls.succeeded + succeeded]

(* Every component is submitted to the pool. *)
SubmitChecks ==
    /\ pc = "adjudicate" /\ next > Len(Results) /\ pc' = "review"
    /\ adjudicated' = (\E t \in DOMAIN Results : results[t] # <<>>)
    /\ waiting' = Comps
    /\ UNCHANGED <<inputs, next, reply, verdicts, running, found, raised,
                   semantic, calls, report>>

-----------------------------------------------------------------------------
(* The threads: RubricChecker.check and the client's generate. *)
StartCheck(c) ==
    /\ c \in waiting /\ Cardinality(running) < Workers
    /\ waiting' = waiting \ {c} /\ running' = running \cup {c}
    /\ calls' = [calls EXCEPT !.total = @ + 1]
    /\ UNCHANGED <<pc, inputs, adjudication, found, raised, semantic, report>>

CheckReturns(c) ==
    /\ c \in running /\ running' = running \ {c}
    /\ \E issues \in {0, 1} : found' = Put(found, c, issues)
    /\ calls' = [calls EXCEPT !.succeeded = @ + 1]
    /\ UNCHANGED <<pc, inputs, adjudication, waiting, raised, semantic, report>>

CheckRaises(c) ==
    /\ c \in running /\ running' = running \ {c}
    /\ raised' = raised \cup {c}
    /\ \E succeeded \in {0, 1} :
          calls' = [calls EXCEPT !.succeeded = @ + succeeded]
    /\ UNCHANGED <<pc, inputs, adjudication, waiting, found, semantic, report>>

(* as_completed yields the finished checks in any order. *)
Collect(c) ==
    /\ pc = "review" /\ c \in DOMAIN found \ semantic
    /\ semantic' = semantic \cup {c}
    /\ UNCHANGED <<pc, inputs, adjudication, waiting, running, found, raised,
                   calls, report>>

(* future.result() raises: the exception goes to the end of the with block. *)
CollectRaised(c) ==
    /\ pc = "review" /\ c \in raised
    /\ pc' = "failing"
    /\ UNCHANGED <<inputs, adjudication, pool, calls, report>>

(* Mutant of PoolDone: the pool is left while checks still run. *)
PoolDoneEarly == waiting = {}

(* Mutant of PoolDone: waits for a result of every check. *)
PoolDoneAllFound == DOMAIN found = Comps

(* The end of the with block waits for every check, also for waiting ones. *)
PoolDone == waiting \cup running = {}

(* The command ends with the exception and prints no report. *)
Fail ==
    /\ pc = "failing" /\ PoolDone
    /\ pc' = "ended" /\ report' = [printed |-> FALSE, exit |-> 1]
    /\ UNCHANGED <<inputs, adjudication, pool, calls>>

(* Mutant of AllCollected: raised checks are skipped. *)
AllButRaisedCollected == semantic \cup raised = Comps

AllCollected == semantic = Comps

LeavePool ==
    /\ pc = "review" /\ AllCollected /\ PoolDone
    /\ pc' = "report"
    /\ UNCHANGED <<inputs, adjudication, pool, calls, report>>

-----------------------------------------------------------------------------
Diagnostics == UNION {{t} \X DOMAIN results[t] : t \in DOMAIN results}
SeverityOf(d) == results[d[1]][d[2]].severity
Raw(severity) == Cardinality({d \in Diagnostics : SeverityOf(d) = severity})

Entries == UNION {{n} \X DOMAIN verdicts[n] : n \in DOMAIN verdicts}
Judged(verdict) == {e \in Entries : verdicts[e[1]][e[2]].verdict = verdict}
Confirmed(severity) ==
    Cardinality({e \in Judged("CONFIRMED") :
                    verdicts[e[1]][e[2]].severity = severity})

EffectiveErrors == IF adjudicated THEN Confirmed("error") ELSE Raw("error")

EffectiveWarnings ==
    IF adjudicated THEN Confirmed("warning") + Cardinality(Judged("DOWNGRADED"))
    ELSE Raw("warning")

SemanticIssues == Cardinality({c \in semantic : found[c] = 1})

Risk ==
    IF EffectiveErrors > 0 THEN "UNSAFE"
    ELSE IF EffectiveWarnings + SemanticIssues > 0 THEN "CAUTION" ELSE "SAFE"

(* --enforce off and advisory always end with 0. *)
ExitCode ==
    IF \/ options.enforce = "strict" /\ EffectiveErrors + EffectiveWarnings > 0
       \/ options.failOn = "error" /\ EffectiveErrors > 0
       \/ options.failOn = "warning" /\ EffectiveErrors + EffectiveWarnings > 0
    THEN 1 ELSE 0

Report ==
    /\ pc = "report" /\ pc' = "ended"
    /\ report' = [printed |-> TRUE, exit |-> ExitCode, risk |-> Risk,
                  errors |-> EffectiveErrors, warnings |-> EffectiveWarnings,
                  semantic |-> SemanticIssues]
    /\ UNCHANGED <<inputs, adjudication, pool, calls>>

Main ==
    \/ Clean \/ NoClient \/ SubmitChecks \/ LeavePool \/ Fail \/ Report
    \/ \E t \in DOMAIN Results : NothingToAsk(t) \/ Ask(t)
    \/ \E c \in Comps : Collect(c) \/ CollectRaised(c)

Thread(c) == StartCheck(c) \/ CheckReturns(c) \/ CheckRaises(c)

Next == Main \/ \E c \in Comps : Thread(c)

(***************************************************************************)
(* Threads are scheduled, and a call of a client ends: the one for         *)
(* OpenAI-compatible services has a timeout of 120 s (utils/llm.py), the   *)
(* others rely on their libraries.                                         *)
(***************************************************************************)
Spec == Init /\ [][Next]_vars /\ WF_vars(Main) /\ \A c \in Comps : WF_vars(Thread(c))

-----------------------------------------------------------------------------
Printed == pc = "ended" /\ report.printed

(* Every variable keeps its type, and the pool never runs more checks than   *)
(* it has threads.                                                         *)
TypeOK ==
    /\ pc \in {"clean", "adjudicate", "review", "failing", "report", "ended"}
    /\ options \in Options
    /\ \A t \in DOMAIN Results : \A i \in DOMAIN results[t] :
          i \in Nat /\ results[t][i] \in Diagnostic
    /\ next \in 1..Len(Results) + 1 /\ adjudicated \in BOOLEAN
    /\ \A t \in DOMAIN Results : reply[t] \in Replies(t) \cup {NoReply}
    /\ \A e \in Entries : verdicts[e[1]][e[2]].verdict \in Verdicts
    /\ waiting \subseteq Comps /\ running \subseteq Comps
    /\ Cardinality(running) <= Workers
    /\ raised \subseteq Comps /\ semantic \subseteq DOMAIN found
    /\ calls.succeeded <= calls.total

(* t is asked about, and no later result of the same name replaces it. *)
Asked(t) == results[t] # <<>> /\ HasComponent(t)
Answers(t) ==
    Asked(t) /\ \A u \in DOMAIN Results :
                   u > t /\ Asked(u) => Results[u].name # Results[t].name

Dismissed(d) ==
    /\ reply[d[1]].kind = "verdicts" /\ d[2] \in DOMAIN reply[d[1]].given
    /\ reply[d[1]].given[d[2]] \in {"FALSE_POSITIVE", "DOWNGRADED"}

(***************************************************************************)
(* A failed call, an unusable reply, a missing index or an unknown word    *)
(* never takes an error out of the risk: every error of a result whose     *)
(* answer is kept counts, unless the model dismissed this very finding     *)
(* (_parse_adjudication_response, _assess_risk).                           *)
(***************************************************************************)
ErrorsNeedDismissal ==
    Printed /\ options.review =>
        report.errors >= Cardinality({d \in Diagnostics :
            SeverityOf(d) = "error" /\ Answers(d[1]) /\ ~Dismissed(d)})

(***************************************************************************)
(* A printed report with a review holds the check of every component, in   *)
(* whatever order the threads ended; one failed check and nothing is       *)
(* printed (the loop over as_completed).                                   *)
(***************************************************************************)
ReviewIsWhole ==
    Printed /\ options.review =>
        /\ raised = {} /\ DOMAIN found = Comps
        /\ report.semantic = Cardinality({c \in Comps : found[c] = 1})
        /\ report.semantic > 0 => report.risk # "SAFE"

(***************************************************************************)
(* The command never ends, with a report or with an exception, while a     *)
(* thread is in a call or a submitted check has not run: the counters of   *)
(* the metadata are those of all calls (the with block of the executor).   *)
(***************************************************************************)
NoCallInFlight ==
    pc = "ended" /\ calls.total > 0 =>
        /\ DOMAIN found \cup raised = Comps /\ running = {}
        /\ calls.total = Cardinality(Comps)
                          + Cardinality({t \in DOMAIN Results : Asked(t)})

(***************************************************************************)
(* The command ends: with a full pool, and when checks fail.               *)
(***************************************************************************)
Ends == <>(pc = "ended")

=============================================================================
