------------------------ MODULE SecurityReviewProofs ------------------------
(***************************************************************************)
(* The two commands that wait for somebody else.                           *)
(*                                                                         *)
(* SecurityReview: the safety properties of harness-security, for any      *)
(* number of results, findings, components and threads and for every       *)
(* answer of the model.                                                    *)
(*                                                                         *)
(* WatchLoop: for any files, links and edits, the watch command does not   *)
(* forget a change it has heard of.  Remembered says what it still has to  *)
(* do about a file; every step, of the user or of the command, keeps it.   *)
(***************************************************************************)
EXTENDS SecurityReview, WatchLoop, FiniteSetTheorems, TLAPS

Settled == DOMAIN found \cup raised

(* The checks are submitted and the report is not yet printed. *)
Reviewing == pc \in {"review", "failing"} \/ (pc = "report" /\ options.review)

PoolEmpty ==
    waiting = {} /\ running = {} /\ Settled = {} /\ semantic = {}

AskedBefore == {t \in DOMAIN Results : t < next /\ Asked(t)}

TypeInv ==
    /\ pc \in {"clean", "adjudicate", "review", "failing", "report", "ended"}
    /\ options \in Options
    /\ DOMAIN results = DOMAIN Results
    /\ \A t \in DOMAIN Results : IsFiniteSet(DOMAIN results[t])
    /\ next \in 1..Len(Results) + 1
    /\ calls \in [total : Nat, succeeded : Nat]

(* A check is at one place only. *)
PoolInv ==
    /\ waiting \cup running \cup Settled \subseteq Comps
    /\ waiting \cap (running \cup Settled) = {}
    /\ running \cap Settled = {} /\ DOMAIN found \cap raised = {}
    /\ semantic \subseteq DOMAIN found

(* What each phase has behind it. *)
PhaseInv ==
    /\ pc \in {"adjudicate", "review", "failing"} => options.review
    /\ pc # "ended" /\ ~Reviewing => PoolEmpty
    /\ Reviewing => /\ next = Len(Results) + 1
                    /\ waiting \cup running \cup Settled = Comps
                    /\ adjudicated = (\E t \in DOMAIN Results : results[t] # <<>>)
    /\ pc = "report" /\ options.review => PoolDone /\ AllCollected
    /\ pc \in {"clean", "report"} /\ ~Reviewing => next = 1

CountInv ==
    pc # "ended" => calls.total = Cardinality(AskedBefore)
                                    + Cardinality(running \cup Settled)

(* The answers kept so far are those of the replies. *)
VerdictInv ==
    /\ IsFiniteSet(DOMAIN verdicts)
    /\ \A n \in DOMAIN verdicts : IsFiniteSet(DOMAIN verdicts[n])
    /\ DOMAIN reply = DOMAIN Results
    /\ \A t \in DOMAIN Results :
          reply[t].kind # "verdicts" => DOMAIN reply[t].given = {}
    /\ \A t \in DOMAIN Results : t < next /\ Answers(t) =>
          /\ Results[t].name \in DOMAIN verdicts
          /\ verdicts[Results[t].name] = Adjudicated(t, reply[t])

(* Nothing is left to happen at the end, and the report is as promised. *)
EndInv ==
    pc = "ended" => /\ PoolDone
                    /\ ErrorsNeedDismissal /\ ReviewIsWhole /\ NoCallInFlight

IInv == TypeInv /\ PoolInv /\ PhaseInv /\ CountInv /\ VerdictInv /\ EndInv

-----------------------------------------------------------------------------
(* The empty sequence is a function without arguments. *)
LEMMA EmptyDomain == DOMAIN <<>> = {}
OBVIOUS

(* There are finitely many results. *)
LEMMA ResultsDomain ==
    /\ DOMAIN Results = 1..Len(Results) /\ Len(Results) \in Nat
    /\ IsFiniteSet(DOMAIN Results)
<1>1. DOMAIN Results = 1..Len(Results) /\ Len(Results) \in Nat
  BY ReviewConstants
<1> QED
  BY <1>1, FS_Interval

(* Only some of finitely many. *)
LEMMA SubsetCount ==
    ASSUME NEW S, IsFiniteSet(S), NEW T \in SUBSET S
    PROVE  IsFiniteSet(T) /\ Cardinality(T) \in Nat
BY FS_Subset, FS_CardinalityType

(* The union of finitely many finite sets, one for each index, is finite. *)
LEMMA IndexedUnionFinite ==
    ASSUME NEW D, IsFiniteSet(D), NEW f, \A x \in D : IsFiniteSet(f[x])
    PROVE  IsFiniteSet(UNION {f[x] : x \in D})
<1> DEFINE g == [x \in D |-> f[x]]
           T == {f[x] : x \in D}
<1>1. g \in Surjection(D, T)
  BY DEF Surjection
<1>2. IsFiniteSet(T)
  BY <1>1, FS_Surjection
<1> QED
  BY <1>2, FS_UNION

(* The findings of all results are finitely many. *)
LEMMA FindingsFinite ==
    ASSUME TypeInv
    PROVE  IsFiniteSet(Diagnostics)
<1> DEFINE Of(t) == {t} \X DOMAIN results[t]
<1>1. ASSUME NEW t \in DOMAIN results PROVE IsFiniteSet(Of(t))
  <2>1. IsFiniteSet(DOMAIN results[t])
    BY DEF TypeInv
  <2> QED
    BY <2>1, FS_Singleton, FS_Product
<1>2. IsFiniteSet(DOMAIN results)
  BY ResultsDomain DEF TypeInv
<1> DEFINE f == [t \in DOMAIN results |-> Of(t)]
<1>3. IsFiniteSet(UNION {f[t] : t \in DOMAIN results})
  <2>1. \A t \in DOMAIN results : IsFiniteSet(f[t])
    BY <1>1
  <2> HIDE DEF f
  <2> QED
    BY <2>1, <1>2, IndexedUnionFinite
<1>4. {f[t] : t \in DOMAIN results} = {{t} \X DOMAIN results[t] : t \in DOMAIN results}
  OBVIOUS
<1> QED
  BY <1>3, <1>4 DEF Diagnostics

(* So are the verdicts of finitely many answers. *)
LEMMA EntriesFinite ==
    ASSUME IsFiniteSet(DOMAIN verdicts),
           \A n \in DOMAIN verdicts : IsFiniteSet(DOMAIN verdicts[n])
    PROVE  IsFiniteSet(Entries)
<1> DEFINE Of(n) == {n} \X DOMAIN verdicts[n]
<1>1. ASSUME NEW n \in DOMAIN verdicts PROVE IsFiniteSet(Of(n))
  BY FS_Singleton, FS_Product
<1> DEFINE f == [n \in DOMAIN verdicts |-> Of(n)]
<1>2. IsFiniteSet(UNION {f[n] : n \in DOMAIN verdicts})
  <2>1. \A n \in DOMAIN verdicts : IsFiniteSet(f[n])
    BY <1>1
  <2> HIDE DEF f
  <2> QED
    BY <2>1, IndexedUnionFinite
<1>3. {f[n] : n \in DOMAIN verdicts} = {{n} \X DOMAIN verdicts[n] : n \in DOMAIN verdicts}
  OBVIOUS
<1> QED
  BY <1>2, <1>3 DEF Entries

(* The numbers of the report are numbers. *)
LEMMA EffectiveNat ==
    ASSUME IInv
    PROVE  EffectiveErrors \in Nat /\ EffectiveWarnings \in Nat
<1>1. IsFiniteSet(Diagnostics) /\ IsFiniteSet(Entries)
  BY FindingsFinite, EntriesFinite DEF IInv, VerdictInv
<1>2. ASSUME NEW s PROVE Raw(s) \in Nat
  BY <1>1, SubsetCount DEF Raw
<1>3. ASSUME NEW v PROVE IsFiniteSet(Judged(v)) /\ Cardinality(Judged(v)) \in Nat
  BY <1>1, SubsetCount DEF Judged
<1>4. ASSUME NEW s PROVE Confirmed(s) \in Nat
  BY <1>3, SubsetCount DEF Confirmed
<1> QED
  BY <1>2, <1>3, <1>4 DEF EffectiveErrors, EffectiveWarnings

(***************************************************************************)
(* Every error the model did not dismiss is the finding of a confirmed     *)
(* verdict, and no two are the finding of the same.                        *)
(***************************************************************************)
Undismissed == {d \in Diagnostics :
                    SeverityOf(d) = "error" /\ Answers(d[1]) /\ ~Dismissed(d)}

ConfirmedErrors == {e \in Judged("CONFIRMED") :
                        verdicts[e[1]][e[2]].severity = "error"}

LEMMA UndismissedConfirmed ==
    ASSUME IInv, next = Len(Results) + 1,
           NEW d \in Undismissed
    PROVE  <<Results[d[1]].name, d[2]>> \in ConfirmedErrors
<1> DEFINE t == d[1]
           i == d[2]
           n == Results[t].name
<1>1. t \in DOMAIN Results /\ i \in DOMAIN results[t]
  <2>1. PICK u \in DOMAIN results : d \in {u} \X DOMAIN results[u]
    BY DEF Undismissed, Diagnostics
  <2> QED
    BY <2>1 DEF IInv, TypeInv
<1>2. Answers(t) /\ ~Dismissed(d) /\ results[t][i].severity = "error"
  BY DEF Undismissed, SeverityOf
<1>3. n \in DOMAIN verdicts /\ verdicts[n] = Adjudicated(t, reply[t])
  <2>1. t < next
    BY <1>1, ResultsDomain
  <2> QED
    BY <1>1, <1>2, <2>1 DEF IInv, VerdictInv
<1>4. Answer(reply[t], i) = "CONFIRMED"
  <2>1. CASE reply[t].kind = "verdicts"
    BY <1>2, <2>1 DEF Answer, Dismissed, Verdicts
  <2>2. CASE reply[t].kind # "verdicts"
    BY <1>1, <2>2 DEF Answer, IInv, VerdictInv
  <2> QED
    BY <2>1, <2>2
<1>5. /\ DOMAIN verdicts[n] = DOMAIN results[t]
      /\ verdicts[n][i].severity = "error" /\ verdicts[n][i].verdict = "CONFIRMED"
  BY <1>1, <1>2, <1>3, <1>4 DEF Adjudicated
<1>6. <<n, i>> \in Entries
  BY <1>1, <1>3, <1>5 DEF Entries
<1> QED
  BY <1>5, <1>6 DEF ConfirmedErrors, Judged

(* So the report counts at least as many errors as are not dismissed. *)
LEMMA ErrorsCounted ==
    ASSUME IInv, Reviewing
    PROVE  EffectiveErrors >= Cardinality(Undismissed)
<1> DEFINE at(d) == <<Results[d[1]].name, d[2]>>
           f == [d \in Undismissed |-> at(d)]
<1>1. next = Len(Results) + 1
  BY DEF IInv, PhaseInv
<1>2. IsFiniteSet(ConfirmedErrors) /\ Confirmed("error") = Cardinality(ConfirmedErrors)
  <2>1. IsFiniteSet(Entries)
    BY EntriesFinite DEF IInv, VerdictInv
  <2>2. ConfirmedErrors \subseteq Entries
    BY DEF ConfirmedErrors, Judged
  <2> QED
    BY <2>1, <2>2, SubsetCount DEF ConfirmedErrors, Confirmed
<1>3. ASSUME NEW d \in Undismissed, NEW e \in Undismissed, at(d) = at(e)
      PROVE  d = e
  <2>1. PICK t \in DOMAIN results : d \in {t} \X DOMAIN results[t]
    BY DEF Undismissed, Diagnostics
  <2>2. PICK u \in DOMAIN results : e \in {u} \X DOMAIN results[u]
    BY DEF Undismissed, Diagnostics
  <2>3. d = <<t, d[2]>> /\ e = <<u, e[2]>> /\ d[1] = t /\ e[1] = u
    BY <2>1, <2>2
  <2>4. t \in DOMAIN Results /\ u \in DOMAIN Results /\ t \in Int /\ u \in Int
    BY ResultsDomain DEF IInv, TypeInv
  <2>5. Answers(t) /\ Answers(u)
    BY <2>3 DEF Undismissed
  <2>6. Results[t].name = Results[u].name /\ d[2] = e[2]
    BY <1>3, <2>3
  <2>7. ~(t < u) /\ ~(u < t)
    BY <2>4, <2>5, <2>6 DEF Answers
  <2> QED
    BY <2>3, <2>4, <2>6, <2>7
<1>4. f \in Injection(Undismissed, ConfirmedErrors)
  <2>1. \A d \in Undismissed : at(d) \in ConfirmedErrors
    BY <1>1, UndismissedConfirmed
  <2>2. f \in [Undismissed -> ConfirmedErrors]
    BY <2>1
  <2>3. \A d, e \in Undismissed : f[d] = f[e] => d = e
    BY <1>3
  <2> HIDE DEF f
  <2> QED
    BY <2>2, <2>3 DEF Injection, IsInjective
<1>5. Cardinality(Undismissed) <= Confirmed("error")
  <2> HIDE DEF f
  <2> QED
    BY <1>2, <1>4, FS_Injection
<1>6. CASE adjudicated
  BY <1>5, <1>6, EffectiveNat, FindingsFinite, SubsetCount DEF EffectiveErrors
<1>7. CASE ~adjudicated
  <2>1. \A t \in DOMAIN Results : results[t] = <<>>
    BY <1>7 DEF IInv, PhaseInv
  <2>2. Undismissed = {}
    <3>1. \A t \in DOMAIN Results : ~Answers(t)
      BY <2>1 DEF Answers, Asked
    <3>2. ASSUME NEW d \in Undismissed PROVE FALSE
      <4>1. PICK t \in DOMAIN results : d \in {t} \X DOMAIN results[t]
        BY DEF Undismissed, Diagnostics
      <4>2. d[1] \in DOMAIN Results
        BY <4>1 DEF IInv, TypeInv
      <4> QED
        BY <3>1, <4>2 DEF Undismissed
    <3> QED
      BY <3>2
  <2> QED
    BY <2>2, FS_EmptySet, EffectiveNat
<1> QED
  BY <1>6, <1>7

-----------------------------------------------------------------------------
(* The invariant holds when the command starts. *)
LEMMA InvInit == Init => IInv
<1> SUFFICES ASSUME Init PROVE IInv
  OBVIOUS
<1>1. found = <<>> /\ raised = {} /\ DOMAIN found = {} /\ DOMAIN verdicts = {}
  BY EmptyDomain DEF Init
<1>2. next = 1 /\ pc = "clean" /\ ~Reviewing
  BY DEF Init, Reviewing
<1>3. AskedBefore = {}
  BY <1>2, ResultsDomain DEF AskedBefore
<1>4. TypeInv
  <2>1. results \in [DOMAIN Results -> Seq(Diagnostic)]
    BY ReviewConstants DEF Init
  <2>2. ASSUME NEW t \in DOMAIN Results PROVE IsFiniteSet(DOMAIN results[t])
    <3>1. DOMAIN results[t] = 1..Len(results[t]) /\ Len(results[t]) \in Nat
      BY <2>1
    <3> QED
      BY <3>1, FS_Interval
  <2> QED
    BY <1>2, <2>1, <2>2, ResultsDomain DEF Init, TypeInv
<1>5. PoolInv /\ PhaseInv
  BY <1>1, <1>2 DEF Init, PoolInv, PhaseInv, PoolEmpty, Settled
<1>6. CountInv
  <2>1. running \cup Settled = {} /\ calls.total = 0
    BY <1>1 DEF Init, Settled
  <2> QED
    BY <1>3, <2>1, FS_EmptySet DEF CountInv
<1>7. VerdictInv
  <2>1. DOMAIN reply = DOMAIN Results /\ \A t \in DOMAIN Results : DOMAIN reply[t].given = {}
    BY EmptyDomain DEF Init, NoReply
  <2>2. IsFiniteSet(DOMAIN verdicts)
    BY <1>1, FS_EmptySet
  <2>3. \A t \in DOMAIN Results : ~(t < next)
    BY <1>2, ResultsDomain
  <2> QED
    BY <1>1, <2>1, <2>2, <2>3 DEF VerdictInv
<1> QED
  BY <1>2, <1>4, <1>5, <1>6, <1>7 DEF IInv, EndInv

(* Cleaning takes findings away before anything was asked. *)
LEMMA CleanKeeps == IInv /\ Clean => IInv'
<1> SUFFICES ASSUME IInv, Clean PROVE IInv'
  OBVIOUS
<1>1. /\ pc = "clean" /\ pc' \in {"adjudicate", "report"} /\ next = 1
      /\ pc' = "adjudicate" <=> options.review
      /\ UNCHANGED <<options, next, reply, adjudicated, verdicts, waiting, running,
                     found, raised, semantic, calls, report>>
  BY DEF IInv, PhaseInv, Reviewing, Clean, adjudication, pool
<1>2. ~Reviewing /\ ~Reviewing' /\ PoolEmpty
  BY <1>1 DEF IInv, PhaseInv, Reviewing
<1>3. DOMAIN results' = DOMAIN Results
  BY DEF Clean
<1>8. ASSUME NEW t \in DOMAIN Results PROVE IsFiniteSet(DOMAIN results[t]')
  <2>1. DOMAIN results[t]' \subseteq DOMAIN results[t]
    BY DEF Clean, Cleaned, RestrictValues, Restrict
  <2> QED
    BY <2>1, FS_Subset DEF IInv, TypeInv
<1>4. TypeInv'
  BY <1>1, <1>3, <1>8 DEF IInv, TypeInv
<1>5. PoolInv' /\ PhaseInv'
  BY <1>1, <1>2 DEF IInv, PoolInv, PhaseInv, PoolEmpty, Settled, PoolDone, AllCollected
<1>6. CountInv'
  <2>1. AskedBefore = {} /\ AskedBefore' = {}
    BY <1>1, ResultsDomain DEF AskedBefore
  <2>2. running' \cup Settled' = running \cup Settled
    BY <1>1 DEF Settled
  <2> QED
    BY <1>1, <2>1, <2>2 DEF IInv, CountInv
<1>7. VerdictInv'
  <2>1. \A t \in DOMAIN Results : ~(t < next')
    BY <1>1, ResultsDomain
  <2> QED
    BY <1>1, <2>1 DEF IInv, VerdictInv
<1> QED
  BY <1>1, <1>4, <1>5, <1>6, <1>7 DEF IInv, EndInv

(* Without a client the command ends before any call. *)
LEMMA NoClientKeeps == IInv /\ NoClient => IInv'
<1> SUFFICES ASSUME IInv, NoClient PROVE IInv'
  OBVIOUS
<1>1. /\ pc = "clean" /\ pc' = "ended" /\ next = 1 /\ ~Reviewing /\ ~Reviewing'
      /\ UNCHANGED <<options, results, next, reply, adjudicated, verdicts, waiting,
                     running, found, raised, semantic, calls>>
      /\ report'.printed = FALSE
  BY DEF IInv, PhaseInv, Reviewing, NoClient, inputs, adjudication, pool
<1>2. PoolEmpty /\ calls.total = 0
  <2>1. AskedBefore = {}
    BY <1>1, ResultsDomain DEF AskedBefore
  <2>2. PoolEmpty
    BY <1>1 DEF IInv, PhaseInv
  <2>3. running \cup Settled = {}
    BY <2>2 DEF PoolEmpty
  <2> QED
    BY <1>1, <2>1, <2>2, <2>3, FS_EmptySet DEF IInv, CountInv
<1>3. TypeInv' /\ PoolInv' /\ PhaseInv' /\ CountInv'
  BY <1>1 DEF IInv, TypeInv, PoolInv, PhaseInv, CountInv, Settled
<1>4. VerdictInv'
  BY <1>1 DEF IInv, VerdictInv, Answers, Asked, Adjudicated
<1>5. EndInv'
  BY <1>1, <1>2 DEF EndInv, PoolEmpty, PoolDone, ErrorsNeedDismissal, ReviewIsWhole,
       NoCallInFlight, Printed
<1> QED
  BY <1>3, <1>4, <1>5 DEF IInv

(* A result that is passed over is not among those asked about. *)
LEMMA NothingToAskKeeps ==
    ASSUME NEW t \in DOMAIN Results
    PROVE  IInv /\ NothingToAsk(t) => IInv'
<1> SUFFICES ASSUME IInv, NothingToAsk(t) PROVE IInv'
  OBVIOUS
<1>1. /\ pc = "adjudicate" /\ pc' = pc /\ t = next /\ next' = next + 1 /\ ~Asked(t)
      /\ UNCHANGED <<options, results, reply, adjudicated, verdicts, waiting, running,
                     found, raised, semantic, calls, report>>
      /\ ~Reviewing /\ ~Reviewing'
  BY DEF NothingToAsk, AtResult, Asked, Reviewing, inputs, pool
<1>2. t \in 1..Len(Results) /\ Len(Results) \in Nat
  BY ResultsDomain
<1>3. AskedBefore' = AskedBefore
  BY <1>1, ResultsDomain DEF AskedBefore, Asked
<1>4. TypeInv' /\ PoolInv'
  BY <1>1, <1>2 DEF IInv, TypeInv, PoolInv, Settled
<1>5. PhaseInv'
  BY <1>1 DEF IInv, PhaseInv, PoolEmpty, Settled
<1>6. CountInv'
  BY <1>1, <1>3 DEF IInv, CountInv, Settled
<1>7. VerdictInv'
  <2>1. \A u \in DOMAIN Results : u < next' /\ Answers(u) => u < next
    BY <1>1, ResultsDomain DEF Answers
  <2> QED
    BY <1>1, <2>1 DEF IInv, VerdictInv, Answers, Asked, Adjudicated
<1> QED
  BY <1>1, <1>4, <1>5, <1>6, <1>7 DEF IInv, EndInv

(* An answer replaces an earlier one of the same name, and is counted. *)
LEMMA AskKeeps ==
    ASSUME NEW t \in DOMAIN Results
    PROVE  IInv /\ Ask(t) => IInv'
<1> SUFFICES ASSUME IInv, Ask(t) PROVE IInv'
  OBVIOUS
<1>1. /\ pc = "adjudicate" /\ pc' = pc /\ t = next /\ next' = next + 1 /\ Asked(t)
      /\ UNCHANGED <<options, results, adjudicated, waiting, running, found, raised,
                     semantic, report>>
      /\ ~Reviewing /\ ~Reviewing'
  BY DEF Ask, AtResult, Asked, Reviewing, inputs, pool
<1>2. PICK r \in Replies(t), succeeded \in {0, 1} :
         /\ reply' = [reply EXCEPT ![t] = r]
         /\ verdicts' = Put(verdicts, Results[t].name, Adjudicated(t, r))
         /\ calls' = [total |-> calls.total + 1,
                      succeeded |-> calls.succeeded + succeeded]
  BY DEF Ask
<1>3. t \in 1..Len(Results) /\ Len(Results) \in Nat
  BY ResultsDomain
<1>4. IsFiniteSet(AskedBefore) /\ Cardinality(AskedBefore') = Cardinality(AskedBefore) + 1
  <2>1. AskedBefore' = AskedBefore \cup {t} /\ t \notin AskedBefore
    BY <1>1, ResultsDomain DEF AskedBefore, Asked
  <2>2. IsFiniteSet(AskedBefore)
    BY ResultsDomain, SubsetCount DEF AskedBefore
  <2> QED
    BY <2>1, <2>2, FS_AddElement
<1>5. TypeInv' /\ PoolInv'
  BY <1>1, <1>2, <1>3 DEF IInv, TypeInv, PoolInv, Settled
<1>6. PhaseInv'
  BY <1>1 DEF IInv, PhaseInv, PoolEmpty, Settled
<1>7. CountInv'
  <2>1. Cardinality(AskedBefore) \in Nat
    BY <1>4, FS_CardinalityType
  <2>2. running \cup Settled = {} /\ running' \cup Settled' = {}
    BY <1>1 DEF IInv, PhaseInv, PoolEmpty, Settled
  <2> QED
    BY <1>1, <1>2, <1>4, <2>1, <2>2, FS_EmptySet DEF IInv, CountInv
<1>8. VerdictInv'
  <2> DEFINE name == Results[t].name
  <2>1. /\ DOMAIN verdicts' = DOMAIN verdicts \cup {name}
        /\ verdicts'[name] = Adjudicated(t, r)
        /\ \A x \in DOMAIN verdicts : x # name => verdicts'[x] = verdicts[x]
    BY <1>2 DEF Put
  <2>2. DOMAIN Adjudicated(t, r) = DOMAIN results[t] /\ IsFiniteSet(DOMAIN results[t])
    BY DEF Adjudicated, IInv, TypeInv
  <2>3. DOMAIN reply' = DOMAIN Results
    BY <1>2 DEF IInv, VerdictInv
  <2>4. r.kind # "verdicts" => DOMAIN r.given = {}
    BY EmptyDomain DEF Replies
  <2>5. ASSUME NEW u \in DOMAIN Results, u < next', Answers(u)
        PROVE  /\ Results[u].name \in DOMAIN verdicts'
               /\ verdicts'[Results[u].name] = Adjudicated(u, reply'[u])
    <3>1. CASE u = t
      BY <1>2, <2>1, <3>1 DEF IInv, VerdictInv
    <3>2. CASE u # t
      <4>1. u < next /\ t > u
        BY <1>1, <2>5, <3>2, ResultsDomain
      <4>2. Results[u].name # name
        BY <1>1, <2>5, <4>1 DEF Answers
      <4>3. reply'[u] = reply[u]
        BY <1>2, <3>2
      <4> QED
        BY <2>1, <2>5, <4>1, <4>2, <4>3 DEF IInv, VerdictInv
    <3> QED
      BY <3>1, <3>2
  <2>6. IsFiniteSet(DOMAIN verdicts')
    BY <2>1, FS_AddElement DEF IInv, VerdictInv
  <2>7. \A n \in DOMAIN verdicts' : IsFiniteSet(DOMAIN verdicts'[n])
    BY <2>1, <2>2 DEF IInv, VerdictInv
  <2>8. \A u \in DOMAIN Results :
           reply'[u].kind # "verdicts" => DOMAIN reply'[u].given = {}
    BY <1>2, <2>4 DEF IInv, VerdictInv
  <2>9. \A u \in DOMAIN Results : /\ Answers(u)' <=> Answers(u)
                                  /\ Adjudicated(u, reply[u])' = Adjudicated(u, reply'[u])
    BY <1>1 DEF Answers, Asked, Adjudicated
  <2> QED
    BY <2>3, <2>5, <2>6, <2>7, <2>8, <2>9 DEF VerdictInv
<1> QED
  BY <1>1, <1>5, <1>6, <1>7, <1>8 DEF IInv, EndInv

(* The loop over the results is over, and every component is submitted. *)
LEMMA SubmitChecksKeeps == IInv /\ SubmitChecks => IInv'
<1> SUFFICES ASSUME IInv, SubmitChecks PROVE IInv'
  OBVIOUS
<1>1. /\ pc = "adjudicate" /\ pc' = "review" /\ next > Len(Results)
      /\ adjudicated' = (\E t \in DOMAIN Results : results[t] # <<>>)
      /\ waiting' = Comps
      /\ UNCHANGED <<options, results, next, reply, verdicts, running, found, raised,
                     semantic, calls, report>>
      /\ ~Reviewing /\ Reviewing'
  BY DEF SubmitChecks, Reviewing, inputs
<1>2. next = Len(Results) + 1
  BY <1>1, ResultsDomain DEF IInv, TypeInv
<1>3. PoolEmpty /\ options.review
  BY <1>1 DEF IInv, PhaseInv
<1>4. TypeInv' /\ CountInv'
  BY <1>1 DEF IInv, TypeInv, CountInv, AskedBefore, Asked, Settled
<1>5. PoolInv' /\ PhaseInv'
  BY <1>1, <1>2, <1>3 DEF IInv, PoolInv, PhaseInv, PoolEmpty, Settled
<1>6. VerdictInv'
  BY <1>1 DEF IInv, VerdictInv, Answers, Asked, Adjudicated
<1> QED
  BY <1>1, <1>4, <1>5, <1>6 DEF IInv, EndInv

(* A thread only moves a check from one place to the next, and only while   *)
(* the command waits for the pool.                                         *)
LEMMA ThreadWhileReviewing ==
    ASSUME IInv, waiting \cup running # {}
    PROVE  Reviewing /\ pc \in {"review", "failing"}
BY DEF IInv, PhaseInv, EndInv, Reviewing, PoolEmpty, PoolDone

(* What a step of a thread must keep, so that everything else holds too. *)
LEMMA ThreadKeeps ==
    ASSUME IInv, pc' = pc,
           UNCHANGED <<inputs, adjudication, semantic, report>>,
           pc \in {"review", "failing"}, PoolInv',
           waiting' \cup running' \cup Settled' = waiting \cup running \cup Settled,
           calls' \in [total : Nat, succeeded : Nat],
           calls'.total - Cardinality(running' \cup Settled')
              = calls.total - Cardinality(running \cup Settled),
           Cardinality(running' \cup Settled') \in Nat
    PROVE  IInv'
<1>1. UNCHANGED <<options, results, next, reply, adjudicated, verdicts>>
  BY DEF inputs, adjudication
<1>2. TypeInv'
  BY <1>1 DEF IInv, TypeInv
<1>3. PhaseInv'
  BY <1>1 DEF IInv, PhaseInv, Reviewing
<1>4. CountInv'
  <2>1. AskedBefore' = AskedBefore
    BY <1>1 DEF AskedBefore, Asked
  <2>2. Cardinality(running \cup Settled) \in Nat /\ Cardinality(AskedBefore) \in Nat
    <3>1. running \cup Settled \subseteq Comps /\ AskedBefore \subseteq DOMAIN Results
      BY DEF IInv, PoolInv, AskedBefore
    <3> QED
      BY <3>1, SubsetCount, ReviewConstants, ResultsDomain
  <2> QED
    BY <2>1, <2>2 DEF IInv, TypeInv, CountInv
<1>5. VerdictInv'
  BY <1>1 DEF IInv, VerdictInv, Answers, Asked, Adjudicated
<1> QED
  BY <1>2, <1>3, <1>4, <1>5 DEF IInv, EndInv

(* Each step of a thread does. *)
LEMMA ThreadStepKeeps ==
    ASSUME NEW c \in Comps
    PROVE  IInv /\ Thread(c) => IInv'
<1> SUFFICES ASSUME IInv, Thread(c) PROVE IInv'
  OBVIOUS
<1> DEFINE Taken == running \cup Settled
<1>1. pc \in {"review", "failing"}
  BY ThreadWhileReviewing DEF Thread, StartCheck, CheckReturns, CheckRaises
<1>2. Taken \subseteq Comps /\ IsFiniteSet(Taken) /\ Cardinality(Taken) \in Nat
  <2>1. Taken \subseteq Comps
    BY DEF IInv, PoolInv
  <2> QED
    BY <2>1, SubsetCount, ReviewConstants
<1>3. calls \in [total : Nat, succeeded : Nat]
  BY DEF IInv, TypeInv
<1>4. CASE StartCheck(c)
  <2>1. /\ c \in waiting /\ waiting' = waiting \ {c} /\ running' = running \cup {c}
        /\ calls' = [calls EXCEPT !.total = @ + 1] /\ Settled' = Settled
        /\ UNCHANGED <<pc, inputs, adjudication, found, raised, semantic, report>>
    BY <1>4 DEF StartCheck, Settled
  <2>2. Taken' = Taken \cup {c} /\ c \notin Taken
    BY <2>1 DEF IInv, PoolInv
  <2>3. Cardinality(Taken') = Cardinality(Taken) + 1
    BY <1>2, <2>2, FS_AddElement
  <2>4. PoolInv'
    BY <2>1 DEF IInv, PoolInv, Settled
  <2>5. waiting' \cup Taken' = waiting \cup Taken
    BY <2>1, <2>2
  <2>6. calls' \in [total : Nat, succeeded : Nat] /\ calls'.total = calls.total + 1
    BY <1>3, <2>1
  <2> HIDE DEF Taken
  <2>7. calls'.total - Cardinality(Taken') = calls.total - Cardinality(Taken)
    BY <1>2, <1>3, <2>3, <2>6
  <2> USE DEF Taken
  <2> QED
    BY <1>1, <1>2, <2>1, <2>3, <2>4, <2>5, <2>6, <2>7, ThreadKeeps
<1>5. CASE CheckReturns(c) \/ CheckRaises(c)
  <2>1. /\ c \in running /\ running' = running \ {c} /\ waiting' = waiting
        /\ \/ DOMAIN found' = DOMAIN found \cup {c} /\ raised' = raised
           \/ found' = found /\ raised' = raised \cup {c}
        /\ UNCHANGED <<pc, inputs, adjudication, semantic, report>>
    BY <1>5 DEF CheckReturns, CheckRaises, Put
  <2>2. calls' \in [total : Nat, succeeded : Nat] /\ calls'.total = calls.total
    BY <1>3, <1>5 DEF CheckReturns, CheckRaises
  <2>3. Taken' = Taken
    BY <2>1 DEF Settled
  <2>4. PoolInv'
    BY <2>1 DEF IInv, PoolInv, Settled
  <2> QED
    BY <1>1, <1>2, <2>1, <2>2, <2>3, <2>4, ThreadKeeps
<1> QED
  BY <1>4, <1>5 DEF Thread

(* The loop over the finished checks, and its two ways out. *)
LEMMA CollectKeeps ==
    ASSUME NEW c \in Comps
    PROVE  IInv /\ (Collect(c) \/ CollectRaised(c)) => IInv'
<1> SUFFICES ASSUME IInv, Collect(c) \/ CollectRaised(c) PROVE IInv'
  OBVIOUS
<1>1. /\ pc = "review" /\ pc' \in {"review", "failing"}
      /\ semantic' \subseteq DOMAIN found
      /\ UNCHANGED <<options, results, next, reply, adjudicated, verdicts, waiting,
                     running, found, raised, calls, report>>
      /\ Reviewing /\ Reviewing'
  BY DEF Collect, CollectRaised, Reviewing, inputs, adjudication, pool, IInv, PoolInv
<1>2. TypeInv' /\ PoolInv' /\ PhaseInv' /\ CountInv'
  BY <1>1 DEF IInv, TypeInv, PoolInv, PhaseInv, CountInv, AskedBefore, Asked, Settled
<1>3. VerdictInv'
  BY <1>1 DEF IInv, VerdictInv, Answers, Asked, Adjudicated
<1> QED
  BY <1>1, <1>2, <1>3 DEF IInv, EndInv

(* The report follows when every check was collected. *)
LEMMA LeavePoolKeeps == IInv /\ LeavePool => IInv'
<1> SUFFICES ASSUME IInv, LeavePool PROVE IInv'
  OBVIOUS
<1>1. /\ pc = "review" /\ pc' = "report" /\ AllCollected /\ PoolDone
      /\ UNCHANGED <<options, results, next, reply, adjudicated, verdicts, waiting,
                     running, found, raised, semantic, calls, report>>
  BY DEF LeavePool, inputs, adjudication, pool
<1>2. options.review /\ Reviewing /\ Reviewing'
  BY <1>1 DEF IInv, PhaseInv, Reviewing
<1>3. TypeInv' /\ PoolInv' /\ PhaseInv' /\ CountInv'
  BY <1>1, <1>2 DEF IInv, TypeInv, PoolInv, PhaseInv, CountInv, AskedBefore, Asked,
       Settled, PoolDone, AllCollected
<1>4. VerdictInv'
  BY <1>1 DEF IInv, VerdictInv, Answers, Asked, Adjudicated
<1> QED
  BY <1>1, <1>3, <1>4 DEF IInv, EndInv

(* With an empty pool behind the last result, every call is counted. *)
LEMMA AllCounted ==
    ASSUME IInv, pc # "ended", Reviewing, PoolDone
    PROVE  /\ Settled = Comps /\ running = {} /\ waiting = {}
           /\ calls.total = Cardinality(Comps)
                              + Cardinality({t \in DOMAIN Results : Asked(t)})
<1>1. waiting = {} /\ running = {}
  BY DEF PoolDone
<1>2. Settled = Comps /\ running \cup Settled = Comps
  BY <1>1 DEF IInv, PhaseInv
<1>3. AskedBefore = {t \in DOMAIN Results : Asked(t)}
  <2>1. next = Len(Results) + 1
    BY DEF IInv, PhaseInv
  <2> QED
    BY <2>1, ResultsDomain DEF AskedBefore
<1>4. Cardinality(AskedBefore) \in Nat /\ Cardinality(Comps) \in Nat
  BY ResultsDomain, SubsetCount, ReviewConstants, FS_CardinalityType DEF AskedBefore
<1> QED
  BY <1>1, <1>2, <1>3, <1>4 DEF IInv, CountInv

(* A failed check ends the command after the others have run. *)
LEMMA FailKeeps == IInv /\ Fail => IInv'
<1> SUFFICES ASSUME IInv, Fail PROVE IInv'
  OBVIOUS
<1>1. /\ pc = "failing" /\ pc' = "ended" /\ PoolDone /\ Reviewing /\ ~Reviewing'
      /\ report'.printed = FALSE
      /\ UNCHANGED <<options, results, next, reply, adjudicated, verdicts, waiting,
                     running, found, raised, semantic, calls>>
  BY DEF Fail, Reviewing, inputs, adjudication, pool
<1>2. TypeInv' /\ PoolInv' /\ PhaseInv' /\ CountInv'
  BY <1>1 DEF IInv, TypeInv, PoolInv, PhaseInv, CountInv, Settled
<1>3. VerdictInv'
  BY <1>1 DEF IInv, VerdictInv, Answers, Asked, Adjudicated
<1>4. NoCallInFlight'
  <2>1. {t \in DOMAIN Results : Asked(t)}' = {t \in DOMAIN Results : Asked(t)}
    BY <1>1 DEF Asked
  <2> QED
    BY <1>1, <2>1, AllCounted DEF NoCallInFlight, Settled
<1> QED
  BY <1>1, <1>2, <1>3, <1>4 DEF IInv, EndInv, PoolDone, ErrorsNeedDismissal,
       ReviewIsWhole, Printed

(* What the report says is what the checks and the answers say. *)
LEMMA ReportKeeps == IInv /\ Report => IInv'
<1> SUFFICES ASSUME IInv, Report PROVE IInv'
  OBVIOUS
<1>1. /\ pc = "report" /\ pc' = "ended" /\ ~Reviewing'
      /\ UNCHANGED <<options, results, next, reply, adjudicated, verdicts, waiting,
                     running, found, raised, semantic, calls>>
  BY DEF Report, Reviewing, inputs, adjudication, pool
<1>2. /\ report'.errors = EffectiveErrors /\ report'.semantic = SemanticIssues
      /\ report'.risk = Risk
  BY DEF Report
<1>3. TypeInv' /\ PoolInv' /\ PhaseInv' /\ CountInv'
  BY <1>1 DEF IInv, TypeInv, PoolInv, PhaseInv, CountInv, Settled
<1>4. VerdictInv'
  BY <1>1 DEF IInv, VerdictInv, Answers, Asked, Adjudicated
<1>5. CASE options.review
  <2>1. Reviewing /\ PoolDone /\ AllCollected
    BY <1>1, <1>5 DEF IInv, PhaseInv, Reviewing
  <2>2. raised = {} /\ DOMAIN found = Comps /\ semantic = Comps
    BY <2>1, AllCounted, <1>1 DEF AllCollected, IInv, PoolInv, Settled
  <2>3. NoCallInFlight'
    <3>1. {t \in DOMAIN Results : Asked(t)}' = {t \in DOMAIN Results : Asked(t)}
      BY <1>1 DEF Asked
    <3> QED
      BY <1>1, <2>1, <3>1, AllCounted DEF NoCallInFlight, Settled
  <2>4. ErrorsNeedDismissal'
    <3>1. Undismissed' = Undismissed
      BY <1>1 DEF Undismissed, Diagnostics, SeverityOf, Answers, Asked, Dismissed
    <3>2. report'.errors >= Cardinality(Undismissed')
      BY <1>2, <2>1, <3>1, ErrorsCounted
    <3> QED
      BY <3>2 DEF ErrorsNeedDismissal, Undismissed
  <2>5. ReviewIsWhole'
    <3>1. report'.semantic = Cardinality({c \in Comps : found'[c] = 1})
      BY <1>1, <1>2, <2>2 DEF SemanticIssues
    <3>2. report'.semantic > 0 => report'.risk # "SAFE"
      <4>1. SemanticIssues \in Nat
        BY <2>2, SubsetCount, ReviewConstants DEF SemanticIssues
      <4> QED
        BY <1>2, <4>1, EffectiveNat DEF Risk
    <3> QED
      BY <1>1, <2>2, <3>1, <3>2 DEF ReviewIsWhole
  <2> QED
    BY <1>1, <1>3, <1>4, <2>1, <2>3, <2>4, <2>5 DEF IInv, EndInv, PoolDone
<1>6. CASE ~options.review
  <2>1. PoolEmpty /\ next = 1
    BY <1>1, <1>6 DEF IInv, PhaseInv, Reviewing
  <2>2. calls.total = 0
    <3>1. AskedBefore = {} /\ running \cup Settled = {}
      BY <2>1, ResultsDomain DEF AskedBefore, PoolEmpty
    <3> QED
      BY <1>1, <3>1, FS_EmptySet DEF IInv, CountInv
  <2> QED
    BY <1>1, <1>3, <1>4, <1>6, <2>1, <2>2 DEF IInv, EndInv, PoolDone, PoolEmpty,
         ErrorsNeedDismissal, ReviewIsWhole, NoCallInFlight, Printed
<1> QED
  BY <1>5, <1>6

(* Other programs' steps change nothing. *)
LEMMA StutterKeeps == IInv /\ UNCHANGED vars => IInv'
<1> SUFFICES ASSUME IInv, UNCHANGED vars PROVE IInv'
  OBVIOUS
<1>1. UNCHANGED <<pc, options, results, next, reply, adjudicated, verdicts, waiting,
                 running, found, raised, semantic, calls, report>>
  BY DEF vars, inputs, adjudication, pool
<1>2. TypeInv' /\ PoolInv' /\ PhaseInv' /\ CountInv'
  BY <1>1 DEF IInv, TypeInv, PoolInv, PhaseInv, CountInv, PoolEmpty, Reviewing,
       AskedBefore, Asked, Settled, PoolDone, AllCollected
<1>3. VerdictInv'
  BY <1>1 DEF IInv, VerdictInv, Answers, Asked, Adjudicated
<1>4. UNCHANGED <<Diagnostics, PoolDone, Printed>>
  BY <1>1 DEF Diagnostics, PoolDone, Printed
<1>5. /\ ErrorsNeedDismissal => ErrorsNeedDismissal'
      /\ ReviewIsWhole => ReviewIsWhole'
      /\ NoCallInFlight => NoCallInFlight'
  <2>1. ErrorsNeedDismissal => ErrorsNeedDismissal'
    BY <1>1, <1>4 DEF ErrorsNeedDismissal, SeverityOf, Answers, Asked, Dismissed
  <2>2. ReviewIsWhole => ReviewIsWhole'
    BY <1>1, <1>4 DEF ReviewIsWhole
  <2>3. NoCallInFlight => NoCallInFlight'
    BY <1>1 DEF NoCallInFlight, Asked
  <2> QED
    BY <2>1, <2>2, <2>3
<1> QED
  BY <1>1, <1>2, <1>3, <1>4, <1>5 DEF IInv, EndInv

(* Every step keeps the invariant. *)
LEMMA NextKeeps == IInv /\ [Next]_vars => IInv'
BY CleanKeeps, NoClientKeeps, NothingToAskKeeps, AskKeeps, SubmitChecksKeeps,
   ThreadStepKeeps, CollectKeeps, LeavePoolKeeps, FailKeeps, ReportKeeps, StutterKeeps
   DEF Next, Main

(* The invariant holds in every reachable state, whatever the schedule. *)
LEMMA Invariant == Spec => []IInv
<1>1. Init => IInv
  BY InvInit
<1>2. IInv /\ [Next]_vars => IInv'
  BY NextKeeps
<1> QED
  BY <1>1, <1>2, PTL DEF Spec

(***************************************************************************)
(* No error leaves the risk without a dismissal of this very finding, for  *)
(* any number of results of one name and any replies.                      *)
(***************************************************************************)
THEOREM ErrorsKept == Spec => []ErrorsNeedDismissal
<1>1. IInv => ErrorsNeedDismissal
  BY DEF IInv, EndInv, ErrorsNeedDismissal, Printed
<1> QED
  BY <1>1, Invariant, PTL

(***************************************************************************)
(* A printed report holds the check of every component, in whatever order  *)
(* any number of threads ended.                                            *)
(***************************************************************************)
THEOREM ReportHoldsEveryCheck == Spec => []ReviewIsWhole
<1>1. IInv => ReviewIsWhole
  BY DEF IInv, EndInv, ReviewIsWhole, Printed
<1> QED
  BY <1>1, Invariant, PTL

(***************************************************************************)
(* The command never ends with a call under way or a check that has not    *)
(* run, and its counters are those of all calls.                           *)
(***************************************************************************)
THEOREM EndsAfterEveryCall == Spec => []NoCallInFlight
<1>1. IInv => NoCallInFlight
  BY DEF IInv, EndInv, NoCallInFlight
<1> QED
  BY <1>1, Invariant, PTL

-----------------------------------------------------------------------------
(* WatchLoop.  While the command listens the first run is over.            *)
LoopInv ==
    /\ read \in [Files -> Nat] /\ version \in [Files -> Nat]
    /\ listening => ~initial /\ stage \in {"scan", "read", "wait"}

LEMMA LoopInductive == WatchSpec => []LoopInv
<1>1. WatchInit => LoopInv
  BY DEF WatchInit, LoopInv
<1>2. LoopInv /\ [WatchNext]_watchVars => LoopInv'
  <2> SUFFICES ASSUME LoopInv, [WatchNext]_watchVars PROVE LoopInv'
    OBVIOUS
  <2> USE DEF LoopInv
  <2>1. ASSUME NEW f \in Files, Write(f) PROVE LoopInv'
    BY <2>1 DEF Write, Touch, watcher
  <2>2. ASSUME NEW f \in Files, Delete(f) PROVE LoopInv'
    BY <2>2 DEF Delete, Touch, watcher
  <2>3. CASE CollectPaths
    BY <2>3 DEF CollectPaths, user
  <2>4. CASE ScanTree
    BY <2>4 DEF ScanTree, user, watcher
  <2>5. CASE ShowResults
    BY <2>5 DEF ShowResults, user, watcher
  <2>6. CASE Listen
    BY <2>6 DEF Listen, user
  <2>7. CASE TakeBatch
    BY <2>7 DEF TakeBatch, user, watcher
  <2>8. ASSUME NEW f \in Files, ReadFile(f) PROVE LoopInv'
    BY <2>8 DEF ReadFile, user, watcher
  <2>9. ASSUME NEW f \in Files, ReadMissing(f) PROVE LoopInv'
    BY <2>9 DEF ReadMissing, user, watcher
  <2>10. CASE UNCHANGED watchVars
    BY <2>10 DEF watchVars
  <2> QED BY <2>1, <2>2, <2>3, <2>4, <2>5, <2>6, <2>7, <2>8, <2>9, <2>10
             DEF WatchNext, User, Command
<1> QED BY <1>1, <1>2, PTL DEF WatchSpec

(* The file is gone, or the loop will come to it, or the run that comes to *)
(* an end has read it as it is, or the terminal has it or an error.        *)
Remembered(f) ==
    \/ f \notin present \/ f \in events
    \/ stage = "scan"
    \/ stage = "read" /\ (f \in toRead \/ read[f] = version[f])
    \/ stage = "wait" /\ (failed \/ shown[f] = version[f])

(* A file the loop hears of stays one: the watched paths are those of the  *)
(* start.                                                                  *)
LEMMA HeardStays ==
    ASSUME LoopInv, [WatchNext]_watchVars, NEW f \in Files, Heard(f)
    PROVE  Heard(f)'
<1>1. listening' /\ watched' = watched
  BY DEF Heard, LoopInv, WatchNext, User, Command, Write, Delete, Touch, CollectPaths, ScanTree,
         ShowResults, Listen, TakeBatch, ReadFile, ReadMissing, user, watcher, watchVars
<1> QED BY <1>1 DEF Heard, WatchDirs

(* Every step keeps what has been heard of f, a change of f first of all.  *)
LEMMA RememberedStays ==
    ASSUME LoopInv, [WatchNext]_watchVars, NEW f \in Files, Heard(f), Remembered(f)
    PROVE  Remembered(f)'
<1> USE DEF Remembered, LoopInv
<1>1. ~initial
  BY DEF Heard
<1>2. ASSUME NEW g \in Files, Write(g) PROVE Remembered(f)'
  <2>1. CASE g = f
    BY <1>2, <2>1 DEF Write, Touch, Notify
  <2>2. CASE g # f
    <3>1. version'[f] = version[f] /\ (f \in present' <=> f \in present) /\ events \subseteq events'
      BY <1>2, <2>2 DEF Write, Touch, Notify
    <3> QED BY <1>2, <3>1 DEF Write, Touch, Notify
  <2> QED BY <2>1, <2>2
<1>3. ASSUME NEW g \in Files, Delete(g) PROVE Remembered(f)'
  BY <1>3 DEF Delete, Touch, Notify
<1>4. CASE CollectPaths
  BY <1>4 DEF CollectPaths, Heard
<1>5. CASE ScanTree
  BY <1>5 DEF ScanTree, user
<1>6. CASE ShowResults
  BY <1>1, <1>6 DEF ShowResults, user
<1>7. CASE Listen
  BY <1>7 DEF Listen, Heard
<1>8. CASE TakeBatch
  BY <1>8 DEF TakeBatch, user
<1>9. ASSUME NEW g \in Files, ReadFile(g) PROVE Remembered(f)'
  BY <1>9 DEF ReadFile, user
<1>10. ASSUME NEW g \in Files, ReadMissing(g) PROVE Remembered(f)'
  BY <1>1, <1>10 DEF ReadMissing, user
<1>11. CASE UNCHANGED watchVars
  BY <1>11 DEF watchVars
<1> QED BY <1>2, <1>3, <1>4, <1>5, <1>6, <1>7, <1>8, <1>9, <1>10, <1>11
           DEF WatchNext, User, Command

(***************************************************************************)
(* run_watch never settles on old results: a change once heard, whatever   *)
(* the user does during the runs and between them, the command waits in    *)
(* silence only when the terminal shows the present content or the file is *)
(* gone.  For any number of files, links and changes.                      *)
(***************************************************************************)
THEOREM WatchIsCurrent == WatchSpec => QuietMeansCurrent
<1> SUFFICES ASSUME NEW f \in Files
             PROVE  WatchSpec => [](Heard(f) /\ f \in events => [](Quiet => ~Stale(f)))
  BY DEF QuietMeansCurrent
<1> DEFINE Safe == Heard(f) /\ Remembered(f)
<1>1. Heard(f) /\ f \in events => Safe
  BY DEF Remembered
<1>2. LoopInv /\ Safe /\ [WatchNext]_watchVars => Safe'
  BY HeardStays, RememberedStays
<1>3. Safe => (Quiet => ~Stale(f))
  BY DEF Remembered, Quiet, Stale
<1> HIDE DEF Safe
<1> QED BY <1>1, <1>2, <1>3, LoopInductive, PTL DEF WatchSpec

=============================================================================
