---------------------------- MODULE ReviewCommand ----------------------------
(***************************************************************************)
(* cli/review.py: the harness-review command.  The components of a setup   *)
(* are grouped into batches, a pool of threads asks a language model about *)
(* each batch (rubric/scorer.py: RubricChecker), a batch whose reply       *)
(* cannot be used is asked again component by component, and the results   *)
(* are collected as they end, sorted and printed.                          *)
(*                                                                         *)
(* A component is its position in setup.components.  A batch is the set of *)
(* its positions: both build it in the order of the setup.  A result stands*)
(* for its component: every reply to check gives one, and what it says of  *)
(* the component (issues, verdict) is left out.                            *)
(***************************************************************************)
EXTENDS Naturals, Sequences, FiniteSets, FiniteSetsExt, SequencesExt

CONSTANTS
    Setups,      \* setup.components: sequences of Component
    Clients,     \* --provider, --base-url and the environment
    Workers,     \* max_workers of the pool (4 in the code)
    BatchSize    \* components of a batch (3)

(* component_type_map: the types that have a rubric. *)
ReviewTypes == {"skill", "command", "claude_md", "hooks", "agent",
                "mcp_config", "config"}

Component == [type : STRING, name : STRING, small : BOOLEAN]

(* library: the provider's package is installed; url: where the            *)
(* OpenAI-compatible client sends its prompts.  "loopback" is what the code *)
(* takes for this machine: plain HTTP to an address that begins with        *)
(* localhost or 127.0.0.1, whatever follows.                               *)
Client == [provider : {"gemini", "anthropic", "openai"}, library : BOOLEAN,
           key : BOOLEAN, url : {"public", "https", "loopback", "http"}]

ASSUME ReviewConstants ==
    /\ Setups \subseteq Seq(Component) /\ Clients \subseteq Client
    /\ Workers \in Nat \ {0} /\ BatchSize \in Nat \ {0}

VARIABLES
    pc,         \* "group", "review", "failing", "failed", "reported"
    setup,      \* setup.components
    client,     \* the client that create_client returned
    ungrouped,  \* positions in no batch yet
    waiting,    \* submitted batches no thread has taken, in order
    running,    \* running[b]: the thread's place in batch b
    done,       \* done[b]: the components of the results its future holds
    raised,     \* batches whose future holds an exception
    collected,  \* batches whose results were collected, in that order
    calls       \* calls_total and calls_succeeded of the client

pool == <<waiting, running, done, raised>>
inputs == <<setup, client>>
vars == <<pc, inputs, ungrouped, pool, collected, calls>>

-----------------------------------------------------------------------------
Reviewable == {p \in DOMAIN setup : setup[p].type \in ReviewTypes}

Init ==
    /\ pc = "group" /\ setup \in Setups /\ client \in Clients
    /\ ungrouped = Reviewable
    /\ waiting = <<>> /\ running = <<>> /\ done = <<>> /\ raised = {}
    /\ collected = <<>>
    /\ calls = [total |-> 0, succeeded |-> 0]

(***************************************************************************)
(* _ensure_client: the SDKs need their package and a key.  The client that *)
(* uses the standard library needs a key for the public endpoint only, and *)
(* sends nothing over plain HTTP except to this machine.                   *)
(***************************************************************************)
Ready ==
    IF client.provider = "openai"
    THEN /\ client.key \/ client.url # "public"
         /\ client.url # "http"
    ELSE client.library /\ client.key

(* _ensure_client_safe raises: the command ends before the first call. *)
NoClient ==
    /\ pc = "group" /\ ungrouped = {} /\ ~Ready
    /\ pc' = "failed"
    /\ UNCHANGED <<inputs, ungrouped, pool, collected, calls>>

(* Less than 500 tokens. *)
Small(t) == {p \in Reviewable : setup[p].small /\ setup[p].type = t}
SmallLeft(t) == Small(t) \cap ungrouped

IsFirst(p, S) == p \in S /\ \A q \in S : p <= q

(* The next type of dict.fromkeys that has components left. *)
IsNextType(t) ==
    /\ SmallLeft(t) # {}
    /\ \A u \in ReviewTypes :
          SmallLeft(u) # {} => \E p \in Small(t) : \A q \in Small(u) : p <= q

(* The first components of S, as many as a batch holds. *)
Chunk(S) == {p \in S : Cardinality({q \in S : q < p}) < BatchSize}

Submit(b) ==
    /\ pc = "group" /\ ungrouped' = ungrouped \ b
    /\ waiting' = Append(waiting, b)
    /\ UNCHANGED <<pc, inputs, running, done, raised, collected, calls>>

(* Small components of one type share a prompt. *)
GroupSmall(t) == IsNextType(t) /\ Submit(Chunk(SmallLeft(t)))

(* Then each large component is a batch of its own. *)
GroupLarge(p) ==
    /\ \A t \in ReviewTypes : SmallLeft(t) = {}
    /\ IsFirst(p, ungrouped) /\ Submit({p})

(* Mutant of StartPool: the client is not checked before the calls. *)
StartPoolUnchecked ==
    /\ pc = "group" /\ ungrouped = {} /\ pc' = "review"
    /\ UNCHANGED <<inputs, ungrouped, pool, collected, calls>>

StartPool ==
    /\ pc = "group" /\ ungrouped = {} /\ Ready /\ pc' = "review"
    /\ UNCHANGED <<inputs, ungrouped, pool, collected, calls>>

-----------------------------------------------------------------------------
(***************************************************************************)
(* The threads: check_batch, check and the client's generate.  A thread in *)
(* a batch is in a call: about the whole batch (at = 0) or about position  *)
(* at.  calls_total counts the call before it is made.                     *)
(***************************************************************************)
Count(total, succeeded) ==
    calls' = [total |-> calls.total + total,
              succeeded |-> calls.succeeded + succeeded]

Without(f, b) == [x \in DOMAIN f \ {b} |-> f[x]]
With(f, b, value) == [x \in DOMAIN f \cup {b} |-> IF x = b THEN value ELSE f[x]]

Take ==
    /\ pc \in {"review", "failing"} /\ waiting # <<>>
    /\ Cardinality(DOMAIN running) < Workers
    /\ waiting' = Tail(waiting)
    /\ LET b == Head(waiting)
       IN  \E p \in b \cup {0} :
             /\ IF Cardinality(b) = 1 THEN p \in b ELSE p = 0
             /\ running' = With(running, b, [at |-> p, got |-> {}])
    /\ Count(1, 0)
    /\ UNCHANGED <<pc, inputs, ungrouped, done, raised, collected>>

Return(b, results) ==
    /\ running' = Without(running, b) /\ done' = With(done, b, results)
    /\ UNCHANGED <<pc, inputs, ungrouped, waiting, raised, collected>>

AskNext(b, p, got) ==
    /\ running' = [running EXCEPT ![b] = [at |-> p, got |-> got]]
    /\ UNCHANGED <<pc, inputs, ungrouped, waiting, done, raised, collected>>

(* A JSON list with as many entries as components: entry i is component i's *)
(* result, an empty one where the entry is no object.                       *)
BatchAnswered(b) ==
    /\ b \in DOMAIN running /\ running[b].at = 0
    /\ Return(b, b) /\ Count(0, 1)

(* Any other reply: each component is asked about by a call of its own. *)
BatchUnusable(b) ==
    /\ b \in DOMAIN running /\ running[b].at = 0
    /\ \E p \in b : IsFirst(p, b) /\ AskNext(b, p, {})
    /\ Count(1, 1)

(* Mutant of Later: the fallback leaves the last component out. *)
LaterButLast(b, p) == {q \in b : p < q /\ \E r \in b : q < r}

Later(b, p) == {q \in b : p < q}

(* Any reply to check: JSON, or text read line by line. *)
CheckAnswered(b) ==
    /\ b \in DOMAIN running /\ running[b].at # 0
    /\ LET p == running[b].at
           got == running[b].got \cup {p}
       IN  \/ Later(b, p) = {} /\ Return(b, got) /\ Count(0, 1)
           \/ \E q \in b : /\ IsFirst(q, Later(b, p))
                          /\ AskNext(b, q, got) /\ Count(1, 1)

(* The call raises.  A client may have counted it as succeeded. *)
CallRaises(b) ==
    /\ b \in DOMAIN running
    /\ running' = Without(running, b) /\ raised' = raised \cup {b}
    /\ \E succeeded \in {0, 1} : Count(0, succeeded)
    /\ UNCHANGED <<pc, inputs, ungrouped, waiting, done, collected>>

-----------------------------------------------------------------------------
(* as_completed yields the futures that ended, in any order. *)
Collect(b) ==
    /\ pc = "review" /\ b \in DOMAIN done \ Range(collected)
    /\ collected' = Append(collected, b)
    /\ UNCHANGED <<pc, inputs, ungrouped, pool, calls>>

(* future.result() raises: an authentication error or any other. *)
CollectRaised(b) ==
    /\ pc = "review" /\ b \in raised /\ pc' = "failing"
    /\ UNCHANGED <<inputs, ungrouped, pool, collected, calls>>

(* Mutant of PoolDone: waits for a result of every batch. *)
PoolDoneAllFound == waiting = <<>> /\ running = <<>> /\ raised = {}

PoolDone == waiting = <<>> /\ running = <<>>

(* The end of the with block waits for the other batches. *)
Fail ==
    /\ pc = "failing" /\ PoolDone /\ pc' = "failed"
    /\ UNCHANGED <<inputs, ungrouped, pool, collected, calls>>

(* comp_order: the last component of that name. *)
Order(p) == Max({q \in DOMAIN setup : setup[q].name = setup[p].name})

BatchIndex(p) == CHOOSE i \in 1..Len(collected) : p \in collected[i]

(* Mutant of Before: unsorted results. *)
BeforeUnsorted(p, q) ==
    \/ BatchIndex(p) < BatchIndex(q)
    \/ BatchIndex(p) = BatchIndex(q) /\ p < q

(* The sort is stable: equal keys stay in the order they were collected. *)
Before(p, q) ==
    \/ Order(p) < Order(q)
    \/ /\ Order(p) = Order(q)
       /\ \/ BatchIndex(p) < BatchIndex(q)
          \/ BatchIndex(p) = BatchIndex(q) /\ p < q

(* The loop over as_completed has seen every future. *)
AllCollected == DOMAIN done \cup raised = Range(collected)

Answered == UNION Range(collected)

(* Where the sort puts p: behind all that come before it.                  *)
Rank(p) == Cardinality({q \in Answered : Before(q, p)}) + 1

(* What is printed: rubric_results after the sort. *)
Report == [i \in 1..Cardinality(Answered) |-> CHOOSE p \in Answered : Rank(p) = i]

PrintReport ==
    /\ pc = "review" /\ AllCollected /\ PoolDone
    /\ pc' = "reported"
    /\ UNCHANGED <<inputs, ungrouped, pool, collected, calls>>

Batches == Range(waiting) \cup DOMAIN running \cup DOMAIN done \cup raised

Main ==
    \/ NoClient \/ StartPool \/ Fail \/ PrintReport
    \/ \E p \in ungrouped : GroupLarge(p)
    \/ \E t \in ReviewTypes : GroupSmall(t)
    \/ \E b \in Batches : Collect(b) \/ CollectRaised(b)

Thread(b) ==
    BatchAnswered(b) \/ BatchUnusable(b) \/ CheckAnswered(b) \/ CallRaises(b)

Next == Main \/ Take \/ \E b \in DOMAIN running : Thread(b)

(***************************************************************************)
(* The main thread and the pool are scheduled, and a call ends: the client *)
(* for OpenAI-compatible services has a timeout, the others rely on their  *)
(* libraries.                                                              *)
(***************************************************************************)
Spec ==
    /\ Init /\ [][Next]_vars /\ WF_vars(Main) /\ WF_vars(Take)
    /\ WF_vars(\E b \in DOMAIN running : Thread(b))

-----------------------------------------------------------------------------
(***************************************************************************)
(* Every variable keeps its type, and the pool never holds more batches    *)
(* than it has threads.                                                    *)
(***************************************************************************)
Positions == SUBSET Reviewable

TypeOK ==
    /\ pc \in {"group", "review", "failing", "failed", "reported"}
    /\ setup \in Setups /\ client \in Clients
    /\ ungrouped \in Positions /\ waiting \in Seq(Positions)
    /\ DOMAIN running \subseteq Positions /\ DOMAIN done \subseteq Positions
    /\ \A b \in DOMAIN running : running[b].at \in b \cup {0}
    /\ raised \subseteq Positions /\ collected \in Seq(DOMAIN done)
    /\ calls \in [total : Nat, succeeded : Nat]

(***************************************************************************)
(* The printed report has every component with a rubric once, in the order *)
(* of the setup whatever the order of the answers.  One is printed ahead   *)
(* of a component that stands before it only where they share a name, or   *)
(* where the other's name is used again behind it (the sort of             *)
(* eval_setup_review by comp_order, review.py:177).                        *)
(***************************************************************************)
ReportInSetupOrder ==
    pc = "reported" =>
        /\ Range(Report) = Reviewable /\ Len(Report) = Cardinality(Reviewable)
        /\ \A i, j \in DOMAIN Report :
              i < j =>
                LET p == Report[i]  r == Report[j]
                IN  \/ p < r
                    \/ \E q \in DOMAIN setup : q >= p /\ setup[q].name = setup[r].name

(***************************************************************************)
(* Prompts leave only by a client that is ready; every component is asked  *)
(* about in one or two calls, and no call is in flight when the command    *)
(* ends, so that the counters of the metadata are those of all calls       *)
(* (_ensure_client, check_batch, the with block of the executor).          *)
(***************************************************************************)
CallsAccounted ==
    /\ calls.total > 0 =>
        /\ client.provider = "openai" => client.url # "http" /\ (client.key \/ client.url # "public")
        /\ client.provider # "openai" => client.library /\ client.key
    /\ pc \in {"reported", "failed"} =>
        /\ calls.total = 0 \/ PoolDone
        /\ calls.total <= Cardinality(Reviewable)
                            + Cardinality({b \in DOMAIN done \cup raised :
                                             Cardinality(b) > 1})
        /\ pc = "reported" => calls.succeeded = calls.total

(***************************************************************************)
(* The command implements the promise: a component is answered when a      *)
(* result of it was collected.                                             *)
(***************************************************************************)
Promise == INSTANCE ComponentReviews WITH
    components <- Reviewable,
    answered <- UNION {done[b] : b \in Range(collected)},
    outcome <- IF pc \in {"reported", "failed"} THEN pc ELSE "open"

KeepsPromise == Promise!Safe

(***************************************************************************)
(* The command ends, with a full pool and when calls fail.                 *)
(***************************************************************************)
AlwaysEnds == Promise!Ends
=============================================================================
