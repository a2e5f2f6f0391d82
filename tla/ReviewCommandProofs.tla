------------------------- MODULE ReviewCommandProofs -------------------------
(***************************************************************************)
(* The harness-review command keeps its promise: every step of             *)
(* ReviewCommand is a step of ComponentReviews or changes nothing of it.   *)
(***************************************************************************)
EXTENDS ReviewCommand, FiniteSetTheorems, TLAPS

Places == {"group", "review", "failing", "failed", "reported"}

(* A thread knows the results of the components before the one it asks      *)
(* about.                                                                   *)
Progress(b) ==
    /\ running[b].at \in b \cup {0}
    /\ running[b].at # 0 => running[b].got = {q \in b : q < running[b].at}

(***************************************************************************)
(* The batches and the components without a batch partition the components *)
(* that are reviewed, and a batch that is done has a result for each of    *)
(* its components.                                                         *)
(***************************************************************************)
Inv ==
    /\ pc \in Places /\ setup \in Setups
    /\ ungrouped \subseteq Reviewable
    /\ waiting \in Seq(SUBSET Reviewable)
    /\ collected \in Seq(DOMAIN done)
    /\ pc # "group" => ungrouped = {} \/ pc = "failed"
    /\ \A b \in Batches : b \subseteq Reviewable /\ b \cap ungrouped = {}
    /\ \A b, c \in Batches : b = c \/ b \cap c = {}
    /\ (UNION Batches) \cup ungrouped = Reviewable
    /\ \A b \in DOMAIN running : Progress(b)
    /\ \A b \in DOMAIN done : done[b] = b

-----------------------------------------------------------------------------
(* Positions are numbers, and every set of them is finite. *)
LEMMA PositionsFinite ==
    ASSUME setup \in Setups
    PROVE  /\ Reviewable \subseteq Nat \ {0}
           /\ \A b \in SUBSET Reviewable : IsFiniteSet(b)
<1>1. DOMAIN setup = 1..Len(setup) /\ Len(setup) \in Nat
  BY ReviewConstants
<1>2. IsFiniteSet(1..Len(setup))
  BY <1>1, FS_Interval
<1>3. Reviewable \subseteq 1..Len(setup)
  BY <1>1 DEF Reviewable
<1>4. Reviewable \subseteq Nat \ {0}
  BY <1>1, <1>3
<1>5. ASSUME NEW b \in SUBSET Reviewable PROVE IsFiniteSet(b)
  <2>1. b \subseteq 1..Len(setup)
    BY <1>3
  <2> QED
    BY <2>1, <1>2, FS_Subset
<1> QED
  BY <1>4, <1>5

(* The batches after the first was taken: it is the only one that left. *)
LEMMA HeadAndTail ==
    ASSUME NEW S, NEW s \in Seq(S), s # <<>>
    PROVE  /\ Range(s) = Range(Tail(s)) \cup {Head(s)}
           /\ Tail(s) \in Seq(S) /\ Head(s) \in S
<1>1. Tail(s) \in Seq(S) /\ Head(s) \in S
  OBVIOUS
<1>2. Range(s) \subseteq Range(Tail(s)) \cup {Head(s)}
  <2> SUFFICES ASSUME NEW i \in DOMAIN s PROVE s[i] \in Range(Tail(s)) \cup {Head(s)}
    BY DEF Range
  <2>1. CASE i = 1
    BY <2>1
  <2>2. CASE i # 1
    <3>1. i - 1 \in DOMAIN Tail(s) /\ Tail(s)[i - 1] = s[i]
      BY <2>2
    <3> QED
      BY <3>1 DEF Range
  <2> QED
    BY <2>1, <2>2
<1>3. Range(Tail(s)) \subseteq Range(s)
  <2> SUFFICES ASSUME NEW i \in DOMAIN Tail(s) PROVE Tail(s)[i] \in Range(s)
    BY DEF Range
  <2>1. i + 1 \in DOMAIN s /\ Tail(s)[i] = s[i + 1]
    OBVIOUS
  <2> QED
    BY <2>1 DEF Range
<1>4. Head(s) \in Range(s)
  <2>1. 1 \in DOMAIN s /\ Head(s) = s[1]
    OBVIOUS
  <2> QED
    BY <2>1 DEF Range
<1> QED
  BY <1>1, <1>2, <1>3, <1>4

(* An appended batch is the only new one. *)
LEMMA RangeOfAppend ==
    ASSUME NEW S, NEW s \in Seq(S), NEW x
    PROVE  Range(Append(s, x)) = Range(s) \cup {x}
<1>1. DOMAIN Append(s, x) = 1..Len(s) + 1 /\ DOMAIN s = 1..Len(s) /\ Len(s) \in Nat
  OBVIOUS
<1>2. \A i \in 1..Len(s) : Append(s, x)[i] = s[i]
  OBVIOUS
<1>3. Append(s, x)[Len(s) + 1] = x
  OBVIOUS
<1>4. \A i \in 1..Len(s) + 1 : i \in 1..Len(s) \/ i = Len(s) + 1
  BY <1>1
<1>5. 1..Len(s) \subseteq 1..Len(s) + 1 /\ Len(s) + 1 \in 1..Len(s) + 1
  BY <1>1
<1> QED
  BY <1>1, <1>2, <1>3, <1>4, <1>5 DEF Range

LEMMA RangeOfEmpty == Range(<<>>) = {}
  BY DEF Range

-----------------------------------------------------------------------------
(***************************************************************************)
(* Steps that move a batch from one place to another leave the set of      *)
(* batches as it was, so that the partition is kept.                       *)
(***************************************************************************)
LEMMA Moved ==
    ASSUME Inv, UNCHANGED <<setup, ungrouped>>, Batches' = Batches
    PROVE  /\ Reviewable' = Reviewable
           /\ ungrouped' \subseteq Reviewable'
           /\ \A b \in Batches' : b \subseteq Reviewable' /\ b \cap ungrouped' = {}
           /\ \A b, c \in Batches' : b = c \/ b \cap c = {}
           /\ (UNION Batches') \cup ungrouped' = Reviewable'
<1>1. Reviewable' = Reviewable
  BY DEF Reviewable
<1> QED
  BY <1>1 DEF Inv

(* A component that joins no batch and a new batch: Submit. *)
LEMMA SubmitKeeps ==
    ASSUME Inv, NEW b \in SUBSET ungrouped, Submit(b)
    PROVE  Inv'
<1>1. Reviewable' = Reviewable
  BY DEF Reviewable, Submit, inputs
<1>2. Range(waiting') = Range(waiting) \cup {b}
  BY RangeOfAppend DEF Submit, Inv
<1>3. Batches' = Batches \cup {b}
  BY <1>2 DEF Batches, Submit
<1>4. waiting' \in Seq(SUBSET Reviewable)
  BY DEF Submit, Inv
<1>5. /\ \A c \in Batches' : c \subseteq Reviewable' /\ c \cap ungrouped' = {}
      /\ \A c, d \in Batches' : c = d \/ c \cap d = {}
      /\ (UNION Batches') \cup ungrouped' = Reviewable'
  <2>1. ungrouped' = ungrouped \ b
    BY DEF Submit
  <2>2. \A c \in Batches : c \subseteq Reviewable /\ c \cap ungrouped = {}
    BY DEF Inv
  <2>3. \A c, d \in Batches : c = d \/ c \cap d = {}
    BY DEF Inv
  <2>4. (UNION Batches') = (UNION Batches) \cup b
    <3>1. UNION (Batches \cup {b}) = (UNION Batches) \cup b
      OBVIOUS
    <3> QED
      BY <1>3, <3>1, Zenon
  <2>5. (UNION Batches) \cup ungrouped = Reviewable /\ ungrouped \subseteq Reviewable
    BY DEF Inv
  <2>6. \A c \in Batches' : c \subseteq Reviewable' /\ c \cap ungrouped' = {}
    BY <1>1, <1>3, <2>1, <2>2, <2>5
  <2>7. \A c, d \in Batches' : c = d \/ c \cap d = {}
    BY <1>3, <2>2, <2>3
  <2>8. (UNION Batches') \cup ungrouped' = Reviewable'
    BY <1>1, <2>1, <2>4, <2>5
  <2> QED
    BY <2>6, <2>7, <2>8
<1>6. ungrouped' \subseteq Reviewable' /\ (pc' # "group" => ungrouped' = {} \/ pc' = "failed")
  BY <1>1 DEF Submit, Inv
<1>7. /\ \A c \in DOMAIN running' : Progress(c)'
      /\ \A c \in DOMAIN done' : done'[c] = c
      /\ pc' \in Places /\ setup' \in Setups /\ collected' \in Seq(DOMAIN done')
  BY DEF Submit, Inv, Progress, inputs
<1> QED
  BY <1>1, <1>4, <1>5, <1>6, <1>7 DEF Inv

(* A thread takes the first batch that waits. *)
LEMMA TakeKeeps ==
    ASSUME Inv, Take
    PROVE  Inv' /\ Batches' = Batches
<1> DEFINE h == Head(waiting)
<1>1. /\ Range(waiting) = Range(waiting') \cup {h}
      /\ waiting' \in Seq(SUBSET Reviewable) /\ h \in SUBSET Reviewable
  BY HeadAndTail DEF Take, Inv
<1>2. PICK p \in h \cup {0} :
         /\ IF Cardinality(h) = 1 THEN p \in h ELSE p = 0
         /\ running' = With(running, h, [at |-> p, got |-> {}])
  BY DEF Take
<1> DEFINE v == [at |-> p, got |-> {}]
<1> HIDE DEF v
<1>3. /\ DOMAIN running' = DOMAIN running \cup {h} /\ running'[h] = v
      /\ \A x \in DOMAIN running \ {h} : running'[x] = running[x]
  <2>1. running' = With(running, h, v)
    BY <1>2 DEF v
  <2> QED
    BY <2>1, Zenon DEF With
<1>4. Batches' = Batches
  BY <1>1, <1>3 DEF Batches, Take
<1>5. \A b \in DOMAIN running' : Progress(b)'
  <2> SUFFICES ASSUME NEW b \in DOMAIN running' PROVE Progress(b)'
    OBVIOUS
  <2>1. CASE b # h
    <3>1. running'[b] = running[b] /\ b \in DOMAIN running
      BY <1>3, <2>1
    <3> QED
      BY <3>1 DEF Inv, Progress
  <2>2. CASE b = h
    <3>1. running'[h].at = p /\ running'[h].got = {}
      BY <1>3 DEF v
    <3>2. p # 0 => h = {p}
      <4> SUFFICES ASSUME p # 0 PROVE h = {p}
        OBVIOUS
      <4>1. IsFiniteSet(h) /\ Cardinality(h) = 1 /\ p \in h
        BY <1>1, <1>2, PositionsFinite DEF Inv
      <4> QED
        BY <4>1, FS_Singleton
    <3>3. h \subseteq Nat
      BY <1>1, PositionsFinite DEF Inv
    <3>4. p # 0 => {q \in h : q < p} = {}
      BY <3>2, <3>3
    <3>5. DOMAIN <<>> = {}
      OBVIOUS
    <3> QED
      BY <1>2, <2>2, <3>1, <3>4, <3>5 DEF Progress
  <2> QED
    BY <2>1, <2>2
<1>6. Reviewable' = Reviewable /\ UNCHANGED <<pc, setup, ungrouped, done, collected>>
  BY DEF Take, Reviewable, inputs
<1> QED
  BY <1>1, <1>4, <1>5, <1>6, Moved DEF Inv

(* A thread whose future gets its results, one for each of its components. *)
LEMMA ReturnKeeps ==
    ASSUME Inv, NEW b \in DOMAIN running, NEW results, results = b,
           Return(b, results)
    PROVE  Inv' /\ Batches' = Batches
<1>1. /\ DOMAIN running' = DOMAIN running \ {b}
      /\ \A x \in DOMAIN running' : running'[x] = running[x]
  BY Zenon DEF Return, Without
<1>2. /\ DOMAIN done' = DOMAIN done \cup {b} /\ done'[b] = results
      /\ \A x \in DOMAIN done \ {b} : done'[x] = done[x]
  BY Zenon DEF Return, With
<1>3. Batches' = Batches
  BY <1>1, <1>2 DEF Batches, Return
<1>4. \A x \in DOMAIN running' : Progress(x)'
  BY <1>1 DEF Inv, Progress
<1>5. \A x \in DOMAIN done' : done'[x] = x
  BY <1>2 DEF Inv
<1>6. Reviewable' = Reviewable /\ UNCHANGED <<pc, setup, ungrouped, waiting, collected>>
  BY DEF Return, Reviewable, inputs
<1>7. collected' \in Seq(DOMAIN done')
  BY <1>2, <1>6 DEF Inv
<1> QED
  BY <1>3, <1>4, <1>5, <1>6, <1>7, Moved DEF Inv

(* A thread that asks about its next component. *)
LEMMA AskNextKeeps ==
    ASSUME Inv, NEW b \in DOMAIN running, NEW p \in b, NEW got,
           p # 0 => got = {q \in b : q < p}, AskNext(b, p, got)
    PROVE  Inv' /\ Batches' = Batches
<1>1. /\ DOMAIN running' = DOMAIN running
      /\ running'[b] = [at |-> p, got |-> got]
      /\ \A x \in DOMAIN running \ {b} : running'[x] = running[x]
  BY DEF AskNext
<1>2. Batches' = Batches
  BY <1>1 DEF Batches, AskNext
<1>3. \A x \in DOMAIN running' : Progress(x)'
  <2> SUFFICES ASSUME NEW x \in DOMAIN running' PROVE Progress(x)'
    OBVIOUS
  <2>1. CASE x = b
    BY <1>1, <2>1 DEF Progress
  <2>2. CASE x # b
    BY <1>1, <2>2 DEF Progress, Inv
  <2> QED
    BY <2>1, <2>2
<1>4. Reviewable' = Reviewable /\ UNCHANGED <<pc, setup, ungrouped, waiting, done, collected>>
  BY DEF AskNext, Reviewable, inputs
<1> QED
  BY <1>2, <1>3, <1>4, Moved DEF Inv

(* A reply about one component of batch b: the last one ends the batch. *)
LEMMA CheckKeeps ==
    ASSUME Inv, NEW b, CheckAnswered(b)
    PROVE  Inv' /\ Batches' = Batches
<1> DEFINE p == running[b].at
<1>1. b \in DOMAIN running /\ p # 0
  BY DEF CheckAnswered
<1> DEFINE got == running[b].got \cup {p}
<1>2. \/ Later(b, p) = {} /\ Return(b, got)
      \/ \E q \in b : IsFirst(q, Later(b, p)) /\ AskNext(b, q, got)
  BY DEF CheckAnswered
<1>3. p \in b /\ running[b].got = {q \in b : q < p}
  BY <1>1 DEF Inv, Progress
<1>4. b \subseteq Nat
  <2>1. b \subseteq Reviewable
    BY <1>1 DEF Inv, Batches
  <2> QED
    BY <2>1, PositionsFinite DEF Inv
<1>5. got = {q \in b : q < p} \cup {p}
  BY <1>3
<1> HIDE DEF got
<1>6. CASE Later(b, p) = {} /\ Return(b, got)
  <2>1. got = b
    <3>1. \A q \in b : ~(p < q)
      BY <1>6 DEF Later
    <3>2. ASSUME NEW q \in b PROVE q < p \/ q = p
      <4>1. q \in Nat /\ p \in Nat /\ ~(p < q)
        BY <1>3, <1>4, <3>1
      <4> HIDE DEF p
      <4> QED
        BY <4>1
    <3> QED
      BY <1>3, <1>5, <3>2
  <2> QED
    BY <1>1, <1>6, <2>1, ReturnKeeps
<1>7. CASE \E q \in b : IsFirst(q, Later(b, p)) /\ AskNext(b, q, got)
  <2>1. PICK q \in b : IsFirst(q, Later(b, p)) /\ AskNext(b, q, got)
    BY <1>7
  <2>2. got = {r \in b : r < q}
    <3>1. q \in Nat /\ p \in Nat /\ p < q
      BY <1>3, <1>4, <2>1 DEF IsFirst, Later
    <3>2. \A r \in b : p < r => q <= r
      BY <2>1 DEF IsFirst, Later
    <3>3. ASSUME NEW r \in b PROVE r < q <=> (r < p \/ r = p)
      <4>1. r \in Nat
        BY <1>4
      <4>2. p < r => q <= r
        BY <3>2
      <4> HIDE DEF p
      <4> QED
        BY <3>1, <4>1, <4>2
    <3> QED
      BY <1>3, <1>5, <3>3
  <2> QED
    BY <1>1, <2>1, <2>2, AskNextKeeps
<1> QED
  BY <1>2, <1>6, <1>7 DEF got

(* Every reply and every failure of a call. *)
LEMMA ThreadKeeps ==
    ASSUME Inv, NEW b \in DOMAIN running, Thread(b)
    PROVE  Inv' /\ Batches' = Batches
<1>1. CASE BatchAnswered(b)
  <2>1. Return(b, b)
    BY <1>1 DEF BatchAnswered
  <2> QED
    BY <2>1, ReturnKeeps
<1>2. CASE BatchUnusable(b)
  <2>1. PICK p \in b : IsFirst(p, b) /\ AskNext(b, p, {})
    BY <1>2 DEF BatchUnusable
  <2>2. b \subseteq Nat
    BY PositionsFinite DEF Inv, Batches
  <2>3. {q \in b : q < p} = {}
    BY <2>1, <2>2 DEF IsFirst
  <2>4. DOMAIN <<>> = {}
    OBVIOUS
  <2> QED
    BY <2>1, <2>3, <2>4, AskNextKeeps
<1>3. CASE CheckAnswered(b)
  BY <1>3, CheckKeeps
<1>4. CASE CallRaises(b)
  <2>1. /\ DOMAIN running' = DOMAIN running \ {b} /\ raised' = raised \cup {b}
        /\ \A x \in DOMAIN running' : running'[x] = running[x]
    BY <1>4, Zenon DEF CallRaises, Without
  <2>2. UNCHANGED <<pc, setup, ungrouped, waiting, done, collected>>
    BY <1>4 DEF CallRaises, inputs
  <2>3. Batches' = Batches
    BY <2>1, <2>2 DEF Batches
  <2>4. \A x \in DOMAIN running' : Progress(x)'
    BY <2>1 DEF Inv, Progress
  <2>5. Reviewable' = Reviewable
    BY <2>2 DEF Reviewable
  <2> QED
    BY <2>2, <2>3, <2>4, <2>5, Moved DEF Inv
<1> QED
  BY <1>1, <1>2, <1>3, <1>4 DEF Thread

-----------------------------------------------------------------------------
(* The main thread. *)
LEMMA MainKeeps ==
    ASSUME Inv, Main
    PROVE  Inv'
<1>1. ASSUME NEW t \in ReviewTypes, GroupSmall(t) PROVE Inv'
  <2>1. Chunk(SmallLeft(t)) \in SUBSET ungrouped
    BY DEF Chunk, SmallLeft
  <2> QED
    BY <1>1, <2>1, SubmitKeeps DEF GroupSmall
<1>2. ASSUME NEW p \in ungrouped, GroupLarge(p) PROVE Inv'
  <2>1. {p} \in SUBSET ungrouped
    BY <1>2
  <2> QED
    BY <1>2, <2>1, SubmitKeeps DEF GroupLarge
<1>3. ASSUME NEW b \in Batches, Collect(b) PROVE Inv'
  <2>1. collected' \in Seq(DOMAIN done) /\ UNCHANGED <<pc, inputs, ungrouped, pool>>
    BY <1>3 DEF Collect, Inv
  <2>2. Batches' = Batches /\ Reviewable' = Reviewable
    BY <2>1 DEF Batches, Reviewable, pool, inputs
  <2>3. \A x \in DOMAIN running' : Progress(x)'
    BY <2>1 DEF Inv, Progress, pool
  <2> QED
    BY <2>1, <2>2, <2>3, Moved DEF Inv, pool, inputs
<1>4. ASSUME UNCHANGED <<inputs, ungrouped, pool, collected>>, pc' \in Places,
             pc' # "group" => ungrouped = {} \/ pc' = "failed"
      PROVE  Inv'
  <2>1. Batches' = Batches /\ Reviewable' = Reviewable
    BY <1>4 DEF Batches, Reviewable, pool, inputs
  <2>2. \A x \in DOMAIN running' : Progress(x)'
    BY <1>4 DEF Inv, Progress, pool
  <2> QED
    BY <1>4, <2>1, <2>2, Moved DEF Inv, pool, inputs
<1>5. CASE NoClient \/ StartPool \/ Fail \/ PrintReport
  BY <1>4, <1>5 DEF NoClient, StartPool, Fail, PrintReport, Inv, Places
<1>6. ASSUME NEW b \in Batches, CollectRaised(b) PROVE Inv'
  BY <1>4, <1>6 DEF CollectRaised, Inv, Places
<1> QED
  BY <1>1, <1>2, <1>3, <1>5, <1>6 DEF Main

(***************************************************************************)
(* Inv holds in every state: the batches partition the components, whatever *)
(* the replies, the failures and the order of the threads.                 *)
(***************************************************************************)
THEOREM BatchesPartition == Spec => []Inv
<1>1. Init => Inv
  <2> SUFFICES ASSUME Init PROVE Inv
    OBVIOUS
  <2>1. Batches = {}
    BY RangeOfEmpty DEF Init, Batches
  <2> QED
    BY <2>1 DEF Init, Inv, Places
<1>2. Inv /\ [Next]_vars => Inv'
  <2> SUFFICES ASSUME Inv, [Next]_vars PROVE Inv'
    OBVIOUS
  <2>1. CASE UNCHANGED vars
    BY <2>1 DEF vars, pool, inputs, Inv, Progress, Batches, Reviewable
  <2>2. CASE Next
    BY <2>2, MainKeeps, TakeKeeps, ThreadKeeps DEF Next
  <2> QED
    BY <2>1, <2>2
<1> QED
  BY <1>1, <1>2, PTL DEF Spec

-----------------------------------------------------------------------------
(* What is answered, in terms of the promise. *)
Mapped == UNION {done[b] : b \in Range(collected)}

LEMMA MappedIsAnswered ==
    ASSUME Inv
    PROVE  Mapped = UNION Range(collected)
<1>1. \A b \in Range(collected) : done[b] = b
  <2>1. Range(collected) \subseteq DOMAIN done
    BY DEF Inv, Range
  <2> QED
    BY <2>1 DEF Inv
<1>2. {done[b] : b \in Range(collected)} = Range(collected)
  BY <1>1
<1> QED
  BY <1>2 DEF Mapped

(* The same after a step. *)
LEMMA MappedIsAnsweredNext ==
    ASSUME Inv'
    PROVE  Mapped' = UNION Range(collected')
<1>1. Range(collected') \subseteq DOMAIN done'
  BY DEF Inv, Range
<1>2. \A b \in Range(collected') : done'[b] = b
  BY <1>1 DEF Inv
<1>3. {done'[b] : b \in Range(collected')} = Range(collected')
  BY <1>2
<1> QED
  BY <1>3 DEF Mapped

(* A step that collects nothing answers nothing. *)
LEMMA Stutters ==
    ASSUME Inv, Inv', UNCHANGED <<setup, collected>>
    PROVE  Reviewable' = Reviewable /\ Mapped' = Mapped
BY MappedIsAnswered, MappedIsAnsweredNext DEF Reviewable

(***************************************************************************)
(* The refinement: collecting a batch answers its components, none of them *)
(* a second time; the report is printed only when all are answered.        *)
(***************************************************************************)
LEMMA StepRefines ==
    ASSUME Inv, Inv', [Next]_vars
    PROVE  [Promise!Next]_(Promise!vars)
<1> DEFINE outcome == IF pc \in {"reported", "failed"} THEN pc ELSE "open"
<1>1. CASE /\ UNCHANGED <<setup, collected>>
           /\ pc' = pc \/ {pc, pc'} \cap {"reported", "failed"} = {}
  <2>1. outcome' = outcome
    BY <1>1
  <2> QED
    BY <1>1, <2>1, Stutters DEF Promise!vars, Mapped
<1>2. CASE \E b \in Batches : Collect(b)
  <2>1. PICK b \in Batches : Collect(b)
    BY <1>2
  <2>2. /\ b \in DOMAIN done \ Range(collected) /\ pc = "review"
        /\ collected' = Append(collected, b) /\ UNCHANGED <<pc, setup>>
    BY <2>1 DEF Collect, inputs
  <2>3. Range(collected') = Range(collected) \cup {b}
    BY <2>2, RangeOfAppend DEF Inv
  <2>4. UNION Range(collected') = (UNION Range(collected)) \cup b
    BY <2>3
  <2>5. Mapped' = Mapped \cup b
    BY <2>4, MappedIsAnswered, MappedIsAnsweredNext
  <2>6. b \subseteq Reviewable \ Mapped
    <3>1. b \subseteq Reviewable
      BY <2>1 DEF Inv
    <3>2. \A c \in Range(collected) : c \in Batches /\ c # b
      BY <2>2 DEF Inv, Range, Batches
    <3>3. \A c \in Range(collected) : b \cap c = {}
      BY <2>1, <3>2 DEF Inv
    <3> QED
      BY <3>1, <3>3, MappedIsAnswered
  <2>7. Reviewable' = Reviewable
    BY <2>2 DEF Reviewable
  <2> QED
    BY <2>2, <2>5, <2>6, <2>7 DEF Promise!Next, Promise!Answer, Mapped
<1>3. CASE PrintReport
  <2>1. /\ pc = "review" /\ pc' = "reported" /\ UNCHANGED <<setup, collected>>
    BY <1>3 DEF PrintReport, inputs
  <2>2. Mapped = Reviewable
    <3>1. ungrouped = {}
      BY <2>1 DEF Inv
    <3>2. Batches = Range(collected)
      BY <1>3, RangeOfEmpty DEF PrintReport, PoolDone, AllCollected, Batches
    <3> QED
      BY <3>1, <3>2, MappedIsAnswered DEF Inv
  <2> QED
    BY <2>1, <2>2, Stutters DEF Promise!Next, Promise!Report, Mapped
<1>4. CASE NoClient \/ Fail
  <2>1. pc \in {"group", "failing"} /\ pc' = "failed" /\ UNCHANGED <<setup, collected>>
    BY <1>4 DEF NoClient, Fail, inputs
  <2> QED
    BY <2>1, Stutters DEF Promise!Next, Promise!Fail, Mapped
<1>5. ASSUME NEW b, Submit(b) PROVE pc' = pc /\ UNCHANGED <<setup, collected>>
  BY <1>5 DEF Submit, inputs
<1>6. ASSUME NEW b \in DOMAIN running, Thread(b)
      PROVE  pc' = pc /\ UNCHANGED <<setup, collected>>
  BY <1>6 DEF Thread, BatchAnswered, BatchUnusable, CheckAnswered, CallRaises,
              Return, AskNext, inputs
<1>7. ASSUME NEW b, CollectRaised(b) \/ StartPool
      PROVE  UNCHANGED <<setup, collected>>
             /\ {pc, pc'} \cap {"reported", "failed"} = {}
  BY <1>7 DEF CollectRaised, StartPool, inputs
<1>8. CASE Take
  BY <1>1, <1>8 DEF Take, inputs
<1>9. CASE UNCHANGED vars
  BY <1>1, <1>9 DEF vars, inputs
<1>10. CASE Main
  BY <1>1, <1>2, <1>3, <1>4, <1>5, <1>7, <1>10 DEF Main, GroupSmall, GroupLarge
<1> QED
  BY <1>1, <1>6, <1>8, <1>9, <1>10 DEF Next

(***************************************************************************)
(* harness-review implements its promise: for every setup, every size of   *)
(* the pool and of a batch, and every reply, each component with a rubric  *)
(* is answered once, or nothing is reported (KeepsPromise of the run).     *)
(***************************************************************************)
THEOREM ReviewKeepsPromise == Spec => KeepsPromise
<1>1. Init => Promise!Init
  <2> SUFFICES ASSUME Init PROVE Promise!Init
    OBVIOUS
  <2>1. UNION {done[b] : b \in Range(collected)} = {}
    BY RangeOfEmpty DEF Init
  <2> QED
    BY <2>1 DEF Init, Promise!Init
<1>2. Inv /\ Inv' /\ [Next]_vars => [Promise!Next]_(Promise!vars)
  BY StepRefines
<1> QED
  BY <1>1, <1>2, BatchesPartition, PTL DEF Spec, KeepsPromise, Promise!Safe

-----------------------------------------------------------------------------
(* The calls.  A batch is asked about once all together, and each of its   *)
(* components once: these have been asked about.                           *)
Started == DOMAIN running \cup DOMAIN done \cup raised
AskedIn(b) == IF b \in DOMAIN running THEN {q \in b : q <= running[b].at} ELSE b
Asked == UNION {AskedIn(b) : b \in Started}
Shared == {b \in Started : Cardinality(b) > 1}

(* A batch is in one place only.                                           *)
OncePlaced ==
    /\ {} \notin Batches
    /\ \A i, j \in DOMAIN waiting : waiting[i] = waiting[j] => i = j
    /\ Range(waiting) \cap Started = {}
    /\ DOMAIN running \cap (DOMAIN done \cup raised) = {}
    /\ DOMAIN done \cap raised = {}

(* Where the command stands: the pool works only between the check of the  *)
(* client and the end of the command.                                      *)
Course ==
    /\ pc = "group" => Started = {} /\ calls.total = 0
    /\ pc \notin {"group", "failed"} => Ready
    /\ pc \notin {"review", "failing"} => DOMAIN running = {}
    /\ pc = "reported" => AllCollected /\ PoolDone
    /\ pc = "failed" => calls.total = 0 \/ PoolDone
    /\ calls.total > 0 => Ready

(* What the client's two counters count.                                   *)
Counts ==
    /\ calls \in [total : Nat, succeeded : Nat]
    /\ calls.total <= Cardinality(Asked) + Cardinality(Shared)
    /\ raised = {} => calls.total = calls.succeeded + Cardinality(DOMAIN running)

CallsInv == OncePlaced /\ Course /\ Counts

(* A set of naturals has a least element.                                  *)
LEMMA LeastNat ==
    ASSUME NEW T \in SUBSET Nat, T # {}
    PROVE  \E m \in T : \A n \in T : m <= n
<1> DEFINE R == OpToRel(<, Nat)
<1>1. IsWellFoundedOn(R, Nat)
  BY NatLessThanWellFounded
<1> HIDE DEF R
<1>2. PICK m \in T : \A n \in T : ~(<<n, m>> \in R)
  BY <1>1, WFMin
<1>3. ASSUME NEW n \in T PROVE m <= n
  <2>1. ~(n < m)
    BY <1>2 DEF R, OpToRel
  <2> QED BY <2>1
<1> QED BY <1>3

(* A chunk of components is never empty.                                   *)
LEMMA ChunkNotEmpty ==
    ASSUME setup \in Setups, NEW S \in SUBSET Reviewable, S # {}
    PROVE  Chunk(S) # {}
<1>1. S \in SUBSET Nat
  <2>1. Reviewable \subseteq Nat \ {0}
    BY PositionsFinite
  <2> QED BY <2>1
<1>2. PICK p \in S : \A q \in S : p <= q
  BY <1>1, LeastNat
<1>3. {q \in S : q < p} = {}
  <2>1. ASSUME NEW q \in S PROVE ~(q < p)
    <3>1. q \in Nat /\ p \in Nat /\ p <= q
      BY <1>1, <1>2
    <3> QED BY <3>1
  <2> QED BY <2>1
<1>4. Cardinality({q \in S : q < p}) = 0
  <2>1. Cardinality({}) = 0
    BY FS_EmptySet
  <2> QED BY <1>3, <2>1
<1>5. p \in Chunk(S)
  BY <1>4, ReviewConstants DEF Chunk
<1> QED BY <1>5

-----------------------------------------------------------------------------
(* Where a batch is.                                                       *)
LEMMA SubmitPlaces ==
    ASSUME Inv, OncePlaced, NEW b \in SUBSET ungrouped, b # {}, Submit(b)
    PROVE  OncePlaced'
<1>1. b \notin Batches
  BY DEF Inv
<1>2. Range(waiting') = Range(waiting) \cup {b}
  BY RangeOfAppend DEF Submit, Inv
<1>3. UNCHANGED <<running, done, raised>>
  BY DEF Submit
<1>4. Batches' = Batches \cup {b} /\ Started' = Started
  BY <1>2, <1>3 DEF Batches, Started
<1>5. Started \subseteq Batches /\ Range(waiting) \subseteq Batches
  BY DEF Started, Batches
<1>6. \A i, j \in DOMAIN waiting' : waiting'[i] = waiting'[j] => i = j
  <2>1. /\ DOMAIN waiting' = 1 .. Len(waiting) + 1 /\ DOMAIN waiting = 1 .. Len(waiting)
        /\ Len(waiting) \in Nat /\ waiting'[Len(waiting) + 1] = b
        /\ \A i \in 1 .. Len(waiting) : waiting'[i] = waiting[i]
    BY DEF Submit, Inv
  <2>2. \A i \in 1 .. Len(waiting) : waiting[i] # b
    BY <1>1, <1>5, <2>1 DEF Range
  <2>3. \A i, j \in 1 .. Len(waiting) : waiting[i] = waiting[j] => i = j
    BY <2>1 DEF OncePlaced
  <2>4. \A i \in 1 .. Len(waiting) + 1 : i \in 1 .. Len(waiting) \/ i = Len(waiting) + 1
    BY <2>1
  <2> HIDE DEF Submit
  <2> QED BY <2>1, <2>2, <2>3, <2>4
<1>7. Range(waiting') \cap Started' = {}
  BY <1>1, <1>2, <1>4, <1>5 DEF OncePlaced
<1> QED
  BY <1>3, <1>4, <1>6, <1>7 DEF OncePlaced

(* The batch that a thread takes waited, and waits no more.                *)
LEMMA TakePlaces ==
    ASSUME Inv, OncePlaced, Take
    PROVE  /\ OncePlaced' /\ Head(waiting) \in Batches \ Started
           /\ Started' = Started \cup {Head(waiting)}
           /\ DOMAIN running' = DOMAIN running \cup {Head(waiting)}
<1> DEFINE h == Head(waiting)
<1>1. /\ Range(waiting) = Range(waiting') \cup {h}
      /\ waiting # <<>> /\ waiting' = Tail(waiting) /\ waiting \in Seq(SUBSET Reviewable)
  BY HeadAndTail DEF Take, Inv
<1>2. DOMAIN running' = DOMAIN running \cup {h} /\ UNCHANGED <<done, raised>>
  <2>1. \E v : running' = With(running, h, v)
    BY DEF Take
  <2>2. DOMAIN running' = DOMAIN running \cup {h}
    BY <2>1 DEF With
  <2> QED BY <2>2 DEF Take
<1>3. Batches' = Batches /\ Started' = Started \cup {h}
  BY <1>1, <1>2 DEF Batches, Started
<1>4. h \notin Started /\ h \in Batches
  BY <1>1 DEF OncePlaced, Batches
<1>5. /\ \A i \in DOMAIN waiting' : i + 1 \in DOMAIN waiting /\ waiting'[i] = waiting[i + 1] /\ i + 1 # 1
      /\ 1 \in DOMAIN waiting /\ waiting[1] = h
      /\ \A i \in DOMAIN waiting' : i \in Nat
  <2>1. /\ waiting \in Seq(SUBSET Reviewable) /\ Len(waiting) \in Nat /\ Len(waiting) # 0
        /\ DOMAIN waiting = 1 .. Len(waiting)
    BY <1>1
  <2>2. /\ DOMAIN waiting' = 1 .. Len(waiting) - 1
        /\ \A i \in 1 .. Len(waiting) - 1 : waiting'[i] = waiting[i + 1]
    BY <1>1, <2>1
  <2>3. h = waiting[1]
    BY <1>1
  <2> HIDE DEF h
  <2> QED BY <2>1, <2>2, <2>3
<1>6. \A i, j \in DOMAIN waiting' : waiting'[i] = waiting'[j] => i = j
  <2> SUFFICES ASSUME NEW i \in DOMAIN waiting', NEW j \in DOMAIN waiting', waiting'[i] = waiting'[j]
               PROVE  i = j
    OBVIOUS
  <2>1. i + 1 = j + 1
    BY <1>5 DEF OncePlaced
  <2> QED BY <1>5, <2>1
<1>7. h \notin Range(waiting')
  <2>1. \A i \in DOMAIN waiting' : waiting'[i] # h
    BY <1>5 DEF OncePlaced
  <2> QED BY <2>1 DEF Range
<1> HIDE DEF h
<1>8. {} \notin Batches' /\ Range(waiting') \cap Started' = {}
  BY <1>1, <1>3, <1>4, <1>7 DEF OncePlaced
<1>9. DOMAIN running' \cap (DOMAIN done' \cup raised') = {} /\ DOMAIN done' \cap raised' = {}
  BY <1>2, <1>4 DEF OncePlaced, Started
<1>10. OncePlaced'
  BY <1>6, <1>8, <1>9 DEF OncePlaced
<1> QED BY <1>2, <1>3, <1>4, <1>10 DEF h

(* A batch whose future ends, either way, is in no thread any more.        *)
LEMMA EndPlaces ==
    ASSUME Inv, OncePlaced, NEW b \in DOMAIN running, UNCHANGED waiting, Batches' = Batches,
           DOMAIN running' = DOMAIN running \ {b},
           \/ DOMAIN done' = DOMAIN done \cup {b} /\ raised' = raised
           \/ DOMAIN done' = DOMAIN done /\ raised' = raised \cup {b}
    PROVE  OncePlaced' /\ Started' = Started
<1>1. Started' = Started
  BY DEF Started
<1> QED BY <1>1 DEF OncePlaced

(* The threads. *)
LEMMA ReturnPlaces ==
    ASSUME NEW b \in DOMAIN running, NEW results, Return(b, results)
    PROVE  /\ DOMAIN running' = DOMAIN running \ {b}
           /\ \A x \in DOMAIN running' : running'[x] = running[x]
           /\ DOMAIN done' = DOMAIN done \cup {b}
           /\ UNCHANGED <<pc, setup, client, waiting, raised, collected>>
<1>1. DOMAIN running' = DOMAIN running \ {b} /\ \A x \in DOMAIN running' : running'[x] = running[x]
  BY Zenon DEF Return, Without
<1>2. DOMAIN done' = DOMAIN done \cup {b}
  BY Zenon DEF Return, With
<1> QED BY <1>1, <1>2 DEF Return, inputs

LEMMA RaisePlaces ==
    ASSUME NEW b \in DOMAIN running, CallRaises(b)
    PROVE  /\ DOMAIN running' = DOMAIN running \ {b} /\ raised' = raised \cup {b}
           /\ \A x \in DOMAIN running' : running'[x] = running[x]
           /\ UNCHANGED <<pc, setup, client, waiting, done, collected>>
<1>1. DOMAIN running' = DOMAIN running \ {b} /\ \A x \in DOMAIN running' : running'[x] = running[x]
  BY Zenon DEF CallRaises, Without
<1> QED BY <1>1 DEF CallRaises, inputs

LEMMA AskPlaces ==
    ASSUME NEW b \in DOMAIN running, NEW p, NEW got, AskNext(b, p, got)
    PROVE  /\ DOMAIN running' = DOMAIN running /\ running'[b].at = p
           /\ \A x \in DOMAIN running \ {b} : running'[x] = running[x]
           /\ UNCHANGED <<pc, setup, client, waiting, done, raised, collected>>
BY DEF AskNext, inputs

-----------------------------------------------------------------------------
(* How often the client is called.                                         *)
LEMMA CallsFinite ==
    ASSUME Inv
    PROVE  /\ IsFiniteSet(Reviewable) /\ IsFiniteSet(Asked) /\ Asked \subseteq Reviewable
           /\ IsFiniteSet(Shared) /\ IsFiniteSet(DOMAIN running)
<1>1. IsFiniteSet(Reviewable)
  BY PositionsFinite DEF Inv
<1>2. Started \subseteq SUBSET Reviewable
  BY DEF Inv, Started, Batches
<1>3. Asked \subseteq Reviewable
  BY <1>2 DEF Asked, AskedIn
<1>4. IsFiniteSet(SUBSET Reviewable)
  BY <1>1, FS_SUBSET
<1>5. Shared \subseteq SUBSET Reviewable /\ DOMAIN running \subseteq SUBSET Reviewable
  BY <1>2 DEF Shared, Started
<1> QED BY <1>1, <1>3, <1>4, <1>5, FS_Subset

(* The same after a step.                                                  *)
LEMMA CallsFiniteNext ==
    ASSUME Inv, Inv', Reviewable' = Reviewable
    PROVE  IsFiniteSet(Asked') /\ IsFiniteSet(Shared')
<1>1. IsFiniteSet(Reviewable')
  BY PositionsFinite DEF Inv
<1>2. Started' \subseteq SUBSET Reviewable'
  BY DEF Inv, Started, Batches
<1>3. Asked' \subseteq Reviewable'
  BY <1>2 DEF Asked, AskedIn
<1>4. IsFiniteSet(SUBSET Reviewable')
  BY <1>1, FS_SUBSET
<1>5. Shared' \subseteq SUBSET Reviewable'
  BY <1>2 DEF Shared
<1> QED BY <1>1, <1>3, <1>4, <1>5, FS_Subset

(* A set that has an element more has at least one more.                   *)
LEMMA OneMore ==
    ASSUME NEW A, NEW B, IsFiniteSet(B), A \subseteq B
    PROVE  /\ Cardinality(A) \in Nat /\ Cardinality(B) \in Nat /\ Cardinality(A) <= Cardinality(B)
           /\ \A x \in B \ A : Cardinality(A) + 1 <= Cardinality(B)
<1>1. IsFiniteSet(A) /\ Cardinality(A) <= Cardinality(B)
  BY FS_Subset
<1>2. Cardinality(A) \in Nat /\ Cardinality(B) \in Nat
  BY <1>1, FS_CardinalityType
<1>3. ASSUME NEW x \in B \ A
      PROVE  Cardinality(A) + 1 <= Cardinality(B)
  <2>1. Cardinality(A \cup {x}) = Cardinality(A) + 1
    BY <1>1, FS_AddElement
  <2>2. A \cup {x} \in SUBSET B
    OBVIOUS
  <2>3. Cardinality(A \cup {x}) <= Cardinality(B)
    BY <2>2, FS_Subset
  <2> QED BY <2>1, <2>3
<1> QED BY <1>1, <1>2, <1>3

(* No two batches share a component, and a component is a number.          *)
LEMMA AskedOnce ==
    ASSUME Inv, OncePlaced, NEW b \in Batches, NEW p \in b
    PROVE  /\ p \in Nat /\ p # 0
           /\ p \in Asked <=> b \in Started /\ (b \in DOMAIN running => p <= running[b].at)
<1>1. p \in Nat /\ p # 0
  <2>1. Reviewable \subseteq Nat \ {0}
    BY PositionsFinite DEF Inv
  <2> QED BY <2>1 DEF Inv
<1>2. Started \subseteq Batches
  BY DEF Started, Batches
<1>3. \A c \in Started : p \in c => c = b
  BY <1>2 DEF Inv
<1>4. p \in Asked <=> \E c \in Started : p \in AskedIn(c)
  BY DEF Asked
<1>5. \A c : p \in AskedIn(c) => p \in c
  BY DEF AskedIn
<1>6. p \in Asked <=> b \in Started /\ p \in AskedIn(b)
  BY <1>3, <1>4, <1>5
<1> QED BY <1>1, <1>6 DEF AskedIn

(* A thread takes a batch: one call more, about something new.             *)
LEMMA TakeCounts ==
    ASSUME Inv, CallsInv, Take, Inv', OncePlaced'
    PROVE  Counts'
<1>0. PICK h : h = Head(waiting)
  OBVIOUS
<1>1. /\ h \in Batches \ Started /\ Started' = Started \cup {h}
      /\ DOMAIN running' = DOMAIN running \cup {h} /\ Batches' = Batches
  BY <1>0, TakePlaces, TakeKeeps DEF CallsInv
<1>2. PICK p \in h \cup {0} :
         /\ IF Cardinality(h) = 1 THEN p \in h ELSE p = 0
         /\ running' = With(running, h, [at |-> p, got |-> {}])
  BY <1>0 DEF Take
<1>3. calls.total' = calls.total + 1 /\ calls.succeeded' = calls.succeeded /\ calls' \in [total : Nat, succeeded : Nat]
  BY DEF Take, Count, CallsInv, Counts
<1>4. running'[h].at = p /\ \A x \in DOMAIN running : running'[x] = running[x]
  <2>1. h \notin DOMAIN running
    BY <1>1 DEF Started
  <2> DEFINE v == [at |-> p, got |-> {}]
  <2>2. v.at = p
    OBVIOUS
  <2> HIDE DEF v
  <2>3. running'[h] = v /\ \A x \in DOMAIN running \ {h} : running'[x] = running[x]
    BY <1>2, Zenon DEF With, v
  <2> QED BY <2>1, <2>2, <2>3
<1>5. Asked \subseteq Asked' /\ Shared \subseteq Shared'
  <2>1. \A b \in Started : AskedIn(b)' = AskedIn(b)
    BY <1>1, <1>4 DEF AskedIn, Started
  <2> QED BY <1>1, <2>1 DEF Asked, Shared
<1>6. Reviewable' = Reviewable
  BY DEF Take, inputs, Reviewable
<1>7. Cardinality(Asked) + Cardinality(Shared) + 1 <= Cardinality(Asked') + Cardinality(Shared')
  <2>1. /\ Cardinality(Asked) \in Nat /\ Cardinality(Asked') \in Nat
        /\ Cardinality(Shared) \in Nat /\ Cardinality(Shared') \in Nat
        /\ Cardinality(Asked) <= Cardinality(Asked') /\ Cardinality(Shared) <= Cardinality(Shared')
        /\ \A x \in Asked' \ Asked : Cardinality(Asked) + 1 <= Cardinality(Asked')
        /\ \A x \in Shared' \ Shared : Cardinality(Shared) + 1 <= Cardinality(Shared')
    <3>1. IsFiniteSet(Asked') /\ IsFiniteSet(Shared')
      BY <1>6, CallsFiniteNext
    <3> QED BY <1>5, <3>1, OneMore
  <2>2. CASE p \in h
    <3>1. p \notin Asked
      BY <1>1, <2>2, AskedOnce DEF CallsInv
    <3>2. p \in AskedIn(h)'
      <4>1. p \in Nat
        BY <1>1, <2>2, AskedOnce DEF CallsInv
      <4> QED BY <1>1, <1>4, <2>2, <4>1 DEF AskedIn
    <3>3. p \in Asked'
      BY <1>1, <3>2 DEF Asked
    <3> QED BY <2>1, <3>1, <3>3
  <2>3. CASE p \notin h
    <3>1. h # {} /\ IsFiniteSet(h) /\ Cardinality(h) # 1
      BY <1>1, <1>2, <2>3, PositionsFinite, ZenonT(30) DEF Inv, CallsInv, OncePlaced
    <3>2. Cardinality(h) \in Nat /\ Cardinality(h) # 0
      BY <3>1, FS_EmptySet, FS_CardinalityType
    <3>3. Cardinality(h) > 1
      BY <3>1, <3>2
    <3>4. h \in Shared' \ Shared
      BY <1>1, <3>3 DEF Shared
    <3> QED BY <2>1, <3>4
  <2> QED BY <2>2, <2>3
<1>8. raised' = {} => calls.total' = calls.succeeded' + Cardinality(DOMAIN running')
  <2>1. Cardinality(DOMAIN running') = Cardinality(DOMAIN running) + 1 /\ Cardinality(DOMAIN running) \in Nat
    BY <1>1, CallsFinite, FS_AddElement, FS_CardinalityType DEF Started
  <2>2. raised' = raised
    BY DEF Take
  <2> QED BY <1>3, <2>1, <2>2 DEF CallsInv, Counts
<1>9. calls.total' <= Cardinality(Asked') + Cardinality(Shared')
  <2>1. calls.total \in Nat /\ calls.total <= Cardinality(Asked) + Cardinality(Shared)
    BY DEF CallsInv, Counts
  <2>2. /\ Cardinality(Asked) \in Nat /\ Cardinality(Asked') \in Nat
        /\ Cardinality(Shared) \in Nat /\ Cardinality(Shared') \in Nat
    <3>1. IsFiniteSet(Asked') /\ IsFiniteSet(Shared') /\ IsFiniteSet(Asked) /\ IsFiniteSet(Shared)
      BY <1>6, CallsFinite, CallsFiniteNext
    <3> QED BY <3>1, FS_CardinalityType
  <2> QED BY <1>3, <1>7, <2>1, <2>2
<1> QED BY <1>3, <1>8, <1>9 DEF Counts

(* A thread asks about its next component: one call more, about something  *)
(* new, after one that succeeded.                                          *)
LEMMA AskCounts ==
    ASSUME Inv, CallsInv, Inv', NEW b \in DOMAIN running, NEW p \in b, NEW got,
           AskNext(b, p, got), Count(1, 1), ~(p <= running[b].at)
    PROVE  Counts'
<1>1. /\ DOMAIN running' = DOMAIN running /\ running'[b].at = p
      /\ \A x \in DOMAIN running \ {b} : running'[x] = running[x]
      /\ UNCHANGED <<setup, done, raised>>
  BY AskPlaces
<1>2. Started' = Started /\ Shared' = Shared /\ Reviewable' = Reviewable
  BY <1>1 DEF Started, Shared, Reviewable
<1>3. /\ calls.total' = calls.total + 1 /\ calls.succeeded' = calls.succeeded + 1
      /\ calls' \in [total : Nat, succeeded : Nat]
  BY DEF Count, CallsInv, Counts
<1>4. b \in Batches /\ b \in Started
  BY DEF Batches, Started
<1>5. b \subseteq Nat
  BY <1>4, PositionsFinite DEF Inv
<1>6. running[b].at \in Nat
  BY <1>5 DEF Inv, Progress
<1>7. Asked \subseteq Asked'
  <2>1. \A c \in Started \ {b} : AskedIn(c)' = AskedIn(c)
    BY <1>1 DEF AskedIn, Started
  <2>2. ASSUME NEW q \in AskedIn(b)
        PROVE  q \in AskedIn(b)'
    <3>1. q \in b /\ q <= running[b].at
      BY <2>2 DEF AskedIn
    <3>2. q \in Nat /\ p \in Nat
      BY <1>5, <3>1
    <3>3. q <= p
      BY <1>6, <3>1, <3>2
    <3> QED BY <1>1, <3>1, <3>3 DEF AskedIn
  <2> QED BY <1>2, <2>1, <2>2 DEF Asked
<1>8. p \in Asked' \ Asked
  <2>1. p \notin Asked
    BY <1>4, AskedOnce DEF CallsInv
  <2>2. p \in Nat
    BY <1>5
  <2>3. p \in AskedIn(b)'
    BY <1>1, <2>2 DEF AskedIn
  <2> QED BY <1>2, <1>4, <2>1, <2>3 DEF Asked
<1>9. /\ Cardinality(Asked) \in Nat /\ Cardinality(Asked') \in Nat
      /\ Cardinality(Shared) \in Nat /\ Cardinality(Asked) + 1 <= Cardinality(Asked')
  <2>1. IsFiniteSet(Asked') /\ IsFiniteSet(Shared)
    BY <1>2, CallsFinite, CallsFiniteNext
  <2> QED BY <1>7, <1>8, <2>1, OneMore, FS_CardinalityType
<1>10. calls.total' <= Cardinality(Asked') + Cardinality(Shared')
  <2>1. calls.total \in Nat /\ calls.total <= Cardinality(Asked) + Cardinality(Shared)
    BY DEF CallsInv, Counts
  <2> QED BY <1>2, <1>3, <1>9, <2>1
<1>11. raised' = {} => calls.total' = calls.succeeded' + Cardinality(DOMAIN running')
  <2>1. Cardinality(DOMAIN running) \in Nat
    BY CallsFinite, FS_CardinalityType
  <2>2. /\ calls.total \in Nat /\ calls.succeeded \in Nat
        /\ raised = {} => calls.total = calls.succeeded + Cardinality(DOMAIN running)
    BY DEF CallsInv, Counts
  <2> QED BY <1>1, <1>3, <2>1, <2>2
<1> QED BY <1>3, <1>10, <1>11 DEF Counts

(* A future ends: no new call, and what the last one came to.              *)
LEMMA EndCounts ==
    ASSUME Inv, CallsInv, Inv', NEW b \in DOMAIN running, NEW n \in {0, 1}, Count(0, n),
           UNCHANGED setup, Started' = Started, DOMAIN running' = DOMAIN running \ {b},
           \A x \in DOMAIN running' : running'[x] = running[x],
           raised' = {} => n = 1 /\ raised = {}
    PROVE  Counts'
<1>1. Shared' = Shared /\ Reviewable' = Reviewable
  BY DEF Shared, Reviewable
<1>2. /\ calls.total' = calls.total /\ calls.succeeded' = calls.succeeded + n
      /\ calls' \in [total : Nat, succeeded : Nat]
  BY DEF Count, CallsInv, Counts
<1>3. Asked \subseteq Asked'
  <2>1. \A c \in Started \ {b} : AskedIn(c)' = AskedIn(c)
    BY DEF AskedIn, Started
  <2>2. AskedIn(b) \subseteq AskedIn(b)'
    BY DEF AskedIn
  <2> QED BY <2>1, <2>2 DEF Asked
<1>4. calls.total' <= Cardinality(Asked') + Cardinality(Shared')
  <2>1. IsFiniteSet(Asked') /\ IsFiniteSet(Shared)
    BY <1>1, CallsFinite, CallsFiniteNext
  <2>2. /\ Cardinality(Asked) \in Nat /\ Cardinality(Asked') \in Nat
        /\ Cardinality(Shared) \in Nat /\ Cardinality(Asked) <= Cardinality(Asked')
    BY <1>3, <2>1, OneMore, FS_CardinalityType
  <2>3. calls.total \in Nat /\ calls.total <= Cardinality(Asked) + Cardinality(Shared)
    BY DEF CallsInv, Counts
  <2> QED BY <1>1, <1>2, <2>2, <2>3
<1>5. raised' = {} => calls.total' = calls.succeeded' + Cardinality(DOMAIN running')
  <2>1. Cardinality(DOMAIN running) \in Nat /\ Cardinality(DOMAIN running') = Cardinality(DOMAIN running) - 1
    BY CallsFinite, FS_CardinalityType, FS_RemoveElement
  <2>2. /\ calls.total \in Nat /\ calls.succeeded \in Nat
        /\ raised = {} => calls.total = calls.succeeded + Cardinality(DOMAIN running)
    BY DEF CallsInv, Counts
  <2> QED BY <1>2, <2>1, <2>2
<1> QED BY <1>2, <1>4, <1>5 DEF Counts

(* What a reply or a failure of a call comes to.                           *)
LEMMA ThreadCalls ==
    ASSUME Inv, CallsInv, Inv', NEW b \in DOMAIN running, Thread(b)
    PROVE  OncePlaced' /\ Counts' /\ UNCHANGED <<pc, client>>
<1>1. Batches' = Batches
  BY ThreadKeeps
<1>2. ASSUME NEW results, Return(b, results), Count(0, 1)
      PROVE  OncePlaced' /\ Counts' /\ UNCHANGED <<pc, client>>
  <2>1. /\ DOMAIN running' = DOMAIN running \ {b} /\ DOMAIN done' = DOMAIN done \cup {b}
        /\ \A x \in DOMAIN running' : running'[x] = running[x]
        /\ UNCHANGED <<pc, setup, client, waiting, raised>>
    BY <1>2, ReturnPlaces
  <2>2. OncePlaced' /\ Started' = Started
    BY <1>1, <2>1, EndPlaces DEF CallsInv
  <2>3. Counts'
    BY <1>2, <2>1, <2>2, EndCounts
  <2> QED BY <2>1, <2>2, <2>3
<1>3. ASSUME NEW p \in b, NEW got, AskNext(b, p, got), Count(1, 1), ~(p <= running[b].at)
      PROVE  OncePlaced' /\ Counts' /\ UNCHANGED <<pc, client>>
  <2>1. /\ DOMAIN running' = DOMAIN running
        /\ UNCHANGED <<pc, setup, client, waiting, done, raised>>
    BY <1>3, AskPlaces
  <2>2. OncePlaced'
    BY <1>1, <2>1 DEF CallsInv, OncePlaced, Started
  <2>3. Counts'
    BY <1>3, AskCounts
  <2> QED BY <2>1, <2>2, <2>3
<1>4. CASE BatchAnswered(b)
  BY <1>2, <1>4 DEF BatchAnswered
<1>5. b \in Batches
  BY DEF Batches
<1>6. CASE BatchUnusable(b)
  <2>1. PICK p \in b : IsFirst(p, b) /\ AskNext(b, p, {})
    BY <1>6 DEF BatchUnusable
  <2>2. Count(1, 1) /\ running[b].at = 0
    BY <1>6 DEF BatchUnusable
  <2>3. p \in Nat /\ p # 0
    BY <1>5, AskedOnce DEF CallsInv
  <2>4. ~(p <= running[b].at)
    BY <2>2, <2>3
  <2> QED BY <1>3, <2>1, <2>2, <2>4
<1>7. CASE CheckAnswered(b)
  <2> DEFINE got == running[b].got \cup {running[b].at}
  <2>1. \/ Return(b, got) /\ Count(0, 1)
        \/ \E q \in b : /\ IsFirst(q, Later(b, running[b].at))
                        /\ AskNext(b, q, got) /\ Count(1, 1)
    BY <1>7 DEF CheckAnswered
  <2> HIDE DEF got
  <2>2. CASE Return(b, got) /\ Count(0, 1)
    BY <1>2, <2>2
  <2>3. CASE \E q \in b : /\ IsFirst(q, Later(b, running[b].at))
                          /\ AskNext(b, q, got) /\ Count(1, 1)
    <3>1. PICK q \in b : IsFirst(q, Later(b, running[b].at)) /\ AskNext(b, q, got) /\ Count(1, 1)
      BY <2>3
    <3>2. running[b].at < q /\ q \in Nat
      BY <1>5, <3>1, AskedOnce DEF IsFirst, Later, CallsInv
    <3>3. running[b].at \in Nat
      BY <1>5, AskedOnce DEF Inv, Progress, CallsInv
    <3>4. ~(q <= running[b].at)
      BY <3>2, <3>3
    <3> QED BY <1>3, <3>1, <3>4
  <2> QED BY <2>1, <2>2, <2>3 DEF got
<1>8. CASE CallRaises(b)
  <2>1. /\ DOMAIN running' = DOMAIN running \ {b} /\ raised' = raised \cup {b}
        /\ \A x \in DOMAIN running' : running'[x] = running[x]
        /\ UNCHANGED <<pc, setup, client, waiting, done>>
    BY <1>8, RaisePlaces
  <2>2. OncePlaced' /\ Started' = Started
    BY <1>1, <2>1, EndPlaces DEF CallsInv
  <2>3. PICK n \in {0, 1} : Count(0, n)
    BY <1>8 DEF CallRaises
  <2>4. Counts'
    BY <2>1, <2>2, <2>3, EndCounts
  <2> QED BY <2>1, <2>2, <2>4
<1> QED BY <1>4, <1>6, <1>7, <1>8 DEF Thread

(* A step that leaves the pool and the counters as they are.               *)
LEMMA PoolAtRest ==
    ASSUME OncePlaced, Counts, UNCHANGED <<pool, calls>>
    PROVE  OncePlaced' /\ Counts' /\ Started' = Started
<1>1. UNCHANGED <<waiting, running, done, raised, calls>>
  BY DEF pool
<1>2. Batches' = Batches /\ Started' = Started
  BY <1>1 DEF Batches, Started
<1>3. Shared' = Shared /\ Asked' = Asked
  BY <1>1, <1>2 DEF Shared, Asked, AskedIn
<1> QED BY <1>1, <1>2, <1>3 DEF OncePlaced, Counts

LEMMA SubmitCalls ==
    ASSUME Inv, CallsInv, NEW b \in SUBSET ungrouped, b # {}, Submit(b)
    PROVE  CallsInv'
<1>1. OncePlaced'
  BY SubmitPlaces DEF CallsInv
<1>2. UNCHANGED <<pc, client, running, done, raised, calls>>
  BY DEF Submit, inputs
<1>3. Started' = Started /\ Shared' = Shared /\ Asked' = Asked /\ (Ready <=> Ready')
  BY <1>2 DEF Started, Shared, Asked, AskedIn, Ready
<1>4. Counts'
  BY <1>2, <1>3 DEF CallsInv, Counts
<1>5. pc = "group" /\ pc' = "group"
  BY DEF Submit
<1>6. Course'
  BY <1>2, <1>3, <1>5 DEF CallsInv, Course
<1> QED BY <1>1, <1>4, <1>6 DEF CallsInv

(* The main thread. *)
LEMMA MainCalls ==
    ASSUME Inv, CallsInv, Main
    PROVE  CallsInv'
<1>1. ASSUME NEW t \in ReviewTypes, GroupSmall(t) PROVE CallsInv'
  <2>1. SmallLeft(t) # {} /\ SmallLeft(t) \in SUBSET Reviewable
    BY <1>1 DEF GroupSmall, IsNextType, SmallLeft, Small
  <2>2. Chunk(SmallLeft(t)) # {}
    BY <2>1, ChunkNotEmpty DEF Inv
  <2>3. Chunk(SmallLeft(t)) \in SUBSET ungrouped
    BY DEF Chunk, SmallLeft
  <2> QED BY <1>1, <2>2, <2>3, SubmitCalls DEF GroupSmall
<1>2. ASSUME NEW p \in ungrouped, GroupLarge(p) PROVE CallsInv'
  <2>1. {p} \in SUBSET ungrouped /\ {p} # {}
    OBVIOUS
  <2> QED BY <1>2, <2>1, SubmitCalls DEF GroupLarge
<1>3. ASSUME UNCHANGED <<inputs, pool, calls>>, Course' PROVE CallsInv'
  BY <1>3, PoolAtRest DEF CallsInv
<1>4. ASSUME UNCHANGED <<inputs, pool, calls>>
      PROVE  /\ Started' = Started /\ (Ready <=> Ready') /\ (PoolDone <=> PoolDone')
             /\ UNCHANGED <<running, done, raised>>
  <2>1. Started' = Started
    BY <1>4, PoolAtRest DEF CallsInv
  <2> QED BY <1>4, <2>1 DEF Ready, PoolDone, inputs, pool
<1>5. Course
  BY DEF CallsInv
<1>6. CASE NoClient
  <2>1. pc = "group" /\ pc' = "failed" /\ UNCHANGED <<inputs, pool, calls>>
    BY <1>6 DEF NoClient
  <2>2. calls'.total = 0 /\ DOMAIN running' = {}
    BY <1>4, <1>5, <2>1 DEF Course, Started
  <2>3. Course'
    BY <2>1, <2>2 DEF Course
  <2> QED BY <1>3, <2>1, <2>3
<1>7. CASE StartPool
  <2>1. pc = "group" /\ pc' = "review" /\ Ready /\ UNCHANGED <<inputs, pool, calls>>
    BY <1>7 DEF StartPool
  <2>2. Course'
    BY <1>4, <1>5, <2>1 DEF Course
  <2> QED BY <1>3, <2>1, <2>2
<1>8. CASE Fail
  <2>1. pc = "failing" /\ pc' = "failed" /\ PoolDone /\ UNCHANGED <<inputs, pool, calls>>
    BY <1>8 DEF Fail
  <2>2. DOMAIN running' = {}
    BY <1>4, <2>1 DEF PoolDone
  <2>3. Course'
    BY <1>4, <1>5, <2>1, <2>2 DEF Course
  <2> QED BY <1>3, <2>1, <2>3
<1>9. CASE PrintReport
  <2>1. /\ pc = "review" /\ pc' = "reported" /\ PoolDone /\ AllCollected
        /\ UNCHANGED <<inputs, pool, collected, calls>>
    BY <1>9 DEF PrintReport
  <2>2. DOMAIN running' = {}
    BY <1>4, <2>1 DEF PoolDone
  <2>3. AllCollected'
    BY <1>4, <2>1 DEF AllCollected
  <2>4. Course'
    BY <1>4, <1>5, <2>1, <2>2, <2>3 DEF Course
  <2> QED BY <1>3, <2>1, <2>4
<1>10. ASSUME NEW b \in Batches, Collect(b) \/ CollectRaised(b) PROVE CallsInv'
  <2>1. pc = "review" /\ pc' \in {"review", "failing"} /\ UNCHANGED <<inputs, pool, calls>>
    BY <1>10 DEF Collect, CollectRaised
  <2>2. Course'
    BY <1>4, <1>5, <2>1 DEF Course
  <2> QED BY <1>3, <2>1, <2>2
<1> QED BY <1>1, <1>2, <1>6, <1>7, <1>8, <1>9, <1>10 DEF Main

(* The threads work only while the pool is open.                           *)
LEMMA PoolCalls ==
    ASSUME Inv, CallsInv, Inv', Take \/ \E b \in DOMAIN running : Thread(b)
    PROVE  CallsInv'
<1>1. OncePlaced' /\ Counts' /\ UNCHANGED <<pc, client>> /\ pc \in {"review", "failing"}
  <2>1. CASE Take
    <3>1. OncePlaced'
      BY <2>1, TakePlaces DEF CallsInv
    <3> QED BY <2>1, <3>1, TakeCounts DEF Take, inputs
  <2>2. CASE \E b \in DOMAIN running : Thread(b)
    BY <2>2, ThreadCalls DEF CallsInv, Course
  <2> QED BY <2>1, <2>2
<1>2. Ready' <=> Ready
  BY <1>1 DEF Ready
<1>3. Course'
  BY <1>1, <1>2 DEF CallsInv, Course
<1> QED BY <1>1, <1>3 DEF CallsInv

(* The calls are counted in every state.                                   *)
THEOREM CallsCounted == Spec => [](Inv /\ CallsInv)
<1>1. Init => CallsInv
  <2> SUFFICES ASSUME Init PROVE CallsInv
    OBVIOUS
  <2>1. DOMAIN running = {} /\ DOMAIN done = {} /\ raised = {} /\ waiting = <<>>
    BY DEF Init
  <2>2. Started = {} /\ Batches = {}
    BY <2>1, RangeOfEmpty DEF Started, Batches
  <2>3. Asked = {} /\ Shared = {}
    BY <2>2 DEF Asked, Shared
  <2>4. Cardinality({}) = 0
    BY FS_EmptySet
  <2>5. calls = [total |-> 0, succeeded |-> 0] /\ pc = "group"
    BY DEF Init
  <2>6. Counts
    BY <2>1, <2>3, <2>4, <2>5 DEF Counts
  <2>7. OncePlaced
    BY <2>1, <2>2 DEF OncePlaced
  <2>8. Course
    BY <2>1, <2>2, <2>5 DEF Course
  <2> QED BY <2>6, <2>7, <2>8 DEF CallsInv
<1>2. Inv /\ Inv' /\ CallsInv /\ [Next]_vars => CallsInv'
  <2> SUFFICES ASSUME Inv, Inv', CallsInv, [Next]_vars PROVE CallsInv'
    OBVIOUS
  <2>1. CASE UNCHANGED vars
    <3>1. UNCHANGED <<pc, inputs, pool, calls, collected, waiting, running, done, raised>>
      BY <2>1 DEF vars, pool
    <3>2. OncePlaced' /\ Counts' /\ Started' = Started
      BY <3>1, PoolAtRest DEF CallsInv
    <3>3. (Ready <=> Ready') /\ (PoolDone <=> PoolDone') /\ (AllCollected <=> AllCollected')
      BY <3>1 DEF Ready, PoolDone, AllCollected, inputs
    <3>4. Course'
      BY <3>1, <3>2, <3>3 DEF CallsInv, Course
    <3> QED BY <3>2, <3>4 DEF CallsInv
  <2>2. CASE Next
    BY <2>2, MainCalls, PoolCalls DEF Next
  <2> QED BY <2>1, <2>2
<1> QED BY <1>1, <1>2, BatchesPartition, PTL DEF Spec

(***************************************************************************)
(* No prompt leaves before the client is found ready, every component is   *)
(* asked about at most once and once more with its batch, and when the     *)
(* command ends the counters are those of all calls.                       *)
(***************************************************************************)
THEOREM CallsAreAccounted == Spec => []CallsAccounted
<1>1. ASSUME Inv, CallsInv
      PROVE  CallsAccounted
  <2>1. Course /\ Counts /\ OncePlaced
    BY <1>1 DEF CallsInv
  <2>2. calls.total > 0 =>
            /\ client.provider = "openai" => client.url # "http" /\ (client.key \/ client.url # "public")
            /\ client.provider # "openai" => client.library /\ client.key
    BY <2>1 DEF Course, Ready
  <2>3. calls.total \in Nat /\ calls.succeeded \in Nat
    BY <2>1 DEF Counts
  <2>4. ASSUME PoolDone
        PROVE  calls.total <= Cardinality(Reviewable)
                                + Cardinality({b \in DOMAIN done \cup raised : Cardinality(b) > 1})
    <3>1. DOMAIN running = {}
      BY <2>4 DEF PoolDone
    <3>2. Shared = {b \in DOMAIN done \cup raised : Cardinality(b) > 1}
      BY <3>1 DEF Shared, Started
    <3>3. IsFiniteSet(Reviewable) /\ Asked \subseteq Reviewable /\ IsFiniteSet(Shared)
      BY <1>1, CallsFinite
    <3>4. /\ Cardinality(Asked) \in Nat /\ Cardinality(Reviewable) \in Nat
          /\ Cardinality(Asked) <= Cardinality(Reviewable) /\ Cardinality(Shared) \in Nat
      BY <3>3, OneMore, FS_CardinalityType
    <3>5. calls.total <= Cardinality(Asked) + Cardinality(Shared)
      BY <2>1 DEF Counts
    <3>6. calls.total <= Cardinality(Reviewable) + Cardinality(Shared)
      BY <2>3, <3>4, <3>5
    <3> QED BY <3>2, <3>6
  <2>5. ASSUME calls.total = 0
        PROVE  calls.total <= Cardinality(Reviewable)
                                + Cardinality({b \in DOMAIN done \cup raised : Cardinality(b) > 1})
    <3> DEFINE B == {b \in DOMAIN done \cup raised : Cardinality(b) > 1}
    <3>1. IsFiniteSet(Reviewable) /\ IsFiniteSet(Shared) /\ B \subseteq Shared
      BY <1>1, CallsFinite DEF Shared, Started
    <3>2. Cardinality(Reviewable) \in Nat /\ Cardinality(B) \in Nat
      BY <3>1, OneMore, FS_CardinalityType
    <3> QED BY <2>5, <3>2
  <2>6. pc = "reported" => PoolDone /\ raised = {} /\ DOMAIN running = {}
    <3> SUFFICES ASSUME pc = "reported" PROVE PoolDone /\ raised = {} /\ DOMAIN running = {}
      OBVIOUS
    <3>1. PoolDone /\ AllCollected
      BY <2>1 DEF Course
    <3>2. Range(collected) \subseteq DOMAIN done
      BY <1>1 DEF Inv, Range
    <3>3. raised = {}
      BY <2>1, <3>1, <3>2 DEF AllCollected, OncePlaced
    <3> QED BY <3>1, <3>3 DEF PoolDone
  <2>7. pc = "reported" => calls.succeeded = calls.total
    <3>1. Cardinality({}) = 0
      BY FS_EmptySet
    <3> QED BY <2>1, <2>3, <2>6, <3>1 DEF Counts
  <2>8. pc \in {"reported", "failed"} => calls.total = 0 \/ PoolDone
    BY <2>1, <2>6 DEF Course
  <2> QED BY <2>2, <2>4, <2>5, <2>7, <2>8 DEF CallsAccounted
<1> QED BY <1>1, CallsCounted, PTL

-----------------------------------------------------------------------------
(* The order of the report.  Every component has a place in the setup and  *)
(* a place among the collected batches, so that Before orders them all.    *)

(* A finite set of numbers up to n has a greatest element.                 *)
LEMMA Greatest ==
    ASSUME NEW n \in Nat, NEW T \in SUBSET (1 .. n), T # {}
    PROVE  Max(T) \in T /\ \A q \in T : q <= Max(T)
<1> DEFINE U == {n - q : q \in T}
<1>1. U \in SUBSET Nat /\ U # {}
  <2>1. ASSUME NEW q \in T PROVE n - q \in Nat
    <3>1. q \in 1 .. n
      OBVIOUS
    <3> QED BY <3>1
  <2> QED BY <2>1
<1> HIDE DEF U
<1>2. PICK u \in U : \A v \in U : u <= v
  BY <1>1, LeastNat
<1> USE DEF U
<1>3. PICK m \in T : u = n - m
  BY <1>2
<1>4. ASSUME NEW q \in T PROVE m >= q
  <2>1. n - m <= n - q
    BY <1>2, <1>3
  <2> QED BY <2>1
<1>5. Max(T) \in T /\ \A q \in T : Max(T) >= q
  BY <1>3, <1>4 DEF Max
<1>6. ASSUME NEW q \in T PROVE q <= Max(T)
  BY <1>5
<1> QED BY <1>5, <1>6

(* The keys of the sort.                                                   *)
LEMMA Keys ==
    ASSUME Inv, NEW p \in Answered
    PROVE  /\ p \in Reviewable /\ p \in Nat
           /\ Order(p) \in Nat /\ BatchIndex(p) \in Nat
           /\ p <= Order(p) /\ Order(p) \in DOMAIN setup
           /\ setup[Order(p)].name = setup[p].name
<1>1. PICK b \in Range(collected) : p \in b
  BY DEF Answered
<1>2. b \in DOMAIN done
  BY <1>1 DEF Range, Inv
<1>3. p \in Reviewable
  BY <1>1, <1>2 DEF Inv, Batches
<1>4. DOMAIN setup = 1 .. Len(setup) /\ Len(setup) \in Nat
  BY ReviewConstants DEF Inv
<1>5. p \in DOMAIN setup
  BY <1>3 DEF Reviewable
<1> DEFINE T == {q \in DOMAIN setup : setup[q].name = setup[p].name}
<1>6. T \in SUBSET (1 .. Len(setup)) /\ p \in T
  BY <1>4, <1>5
<1>7. Max(T) \in T /\ p <= Max(T)
  <2> HIDE DEF T
  <2> QED BY <1>4, <1>6, Greatest
<1>8. Order(p) = Max(T)
  BY DEF Order
<1>9. BatchIndex(p) \in Nat
  <2>1. \E i \in 1 .. Len(collected) : p \in collected[i]
    BY <1>1 DEF Range, Inv
  <2>2. BatchIndex(p) \in 1 .. Len(collected) /\ Len(collected) \in Nat
    BY <2>1 DEF BatchIndex, Inv
  <2> QED BY <2>2
<1>10. p <= Order(p) /\ Order(p) \in DOMAIN setup /\ setup[Order(p)].name = setup[p].name
  BY <1>7, <1>8
<1>11. p \in Nat /\ Order(p) \in Nat
  BY <1>4, <1>5, <1>7, <1>8
<1> QED BY <1>3, <1>9, <1>10, <1>11

(* Before is a strict total order of the answered components.              *)
LEMMA BeforeOrders ==
    ASSUME Inv
    PROVE  /\ \A p \in Answered : ~Before(p, p)
           /\ \A p, q \in Answered : p = q \/ Before(p, q) \/ Before(q, p)
           /\ \A p, q, r \in Answered : Before(p, q) /\ Before(q, r) => Before(p, r)
<1>1. \A p \in Answered : p \in Nat /\ Order(p) \in Nat /\ BatchIndex(p) \in Nat
  BY Keys
<1>2. ASSUME NEW p \in Answered PROVE ~Before(p, p)
  BY <1>1 DEF Before
<1>3. ASSUME NEW p \in Answered, NEW q \in Answered
      PROVE  p = q \/ Before(p, q) \/ Before(q, p)
  BY <1>1 DEF Before
<1>4. ASSUME NEW p \in Answered, NEW q \in Answered, NEW r \in Answered, Before(p, q), Before(q, r)
      PROVE  Before(p, r)
  BY <1>1, <1>4 DEF Before
<1> QED BY <1>2, <1>3, <1>4

(* Every component has its own place.                                      *)
LEMMA RanksDiffer ==
    ASSUME Inv
    PROVE  /\ IsFiniteSet(Answered) /\ Cardinality(Answered) \in Nat
           /\ \A p \in Answered : Rank(p) \in 1 .. Cardinality(Answered)
           /\ \A p, q \in Answered : Before(p, q) => Rank(p) < Rank(q)
<1> DEFINE Ahead(p) == {q \in Answered : Before(q, p)}
<1>1. IsFiniteSet(Answered)
  <2>1. Answered \subseteq Reviewable
    BY Keys
  <2>2. IsFiniteSet(Reviewable)
    BY CallsFinite
  <2> QED BY <2>1, <2>2, FS_Subset
<1>2. Cardinality(Answered) \in Nat
  BY <1>1, FS_CardinalityType
<1>3. \A p : Rank(p) = Cardinality(Ahead(p)) + 1
  BY DEF Rank
<1>4. ASSUME NEW p \in Answered
      PROVE  Rank(p) \in 1 .. Cardinality(Answered)
  <2>1. Ahead(p) \subseteq Answered /\ p \in Answered \ Ahead(p)
    BY BeforeOrders
  <2> HIDE DEF Ahead
  <2>2. Cardinality(Ahead(p)) \in Nat /\ Cardinality(Ahead(p)) + 1 <= Cardinality(Answered)
    BY <1>1, <2>1, OneMore
  <2> QED BY <1>2, <1>3, <2>2
<1>5. ASSUME NEW p \in Answered, NEW q \in Answered, Before(p, q)
      PROVE  Rank(p) < Rank(q)
  <2>1. Ahead(p) \subseteq Ahead(q) /\ p \in Ahead(q) \ Ahead(p) /\ Ahead(q) \subseteq Answered
    BY <1>5, BeforeOrders
  <2> HIDE DEF Ahead
  <2>2. IsFiniteSet(Ahead(q))
    BY <1>1, <2>1, FS_Subset
  <2>3. /\ Cardinality(Ahead(p)) \in Nat /\ Cardinality(Ahead(q)) \in Nat
        /\ Cardinality(Ahead(p)) + 1 <= Cardinality(Ahead(q))
    BY <2>1, <2>2, OneMore
  <2> QED BY <1>3, <2>3
<1> QED BY <1>1, <1>2, <1>4, <1>5

(* The report is the answered components in that order.                    *)
LEMMA ReportSorted ==
    ASSUME Inv
    PROVE  /\ Range(Report) = Answered /\ Len(Report) = Cardinality(Answered)
           /\ DOMAIN Report = 1 .. Cardinality(Answered)
           /\ \A i \in DOMAIN Report : Report[i] \in Answered /\ Rank(Report[i]) = i
<1> DEFINE n == Cardinality(Answered)
           r == [p \in Answered |-> Rank(p)]
<1>1. /\ IsFiniteSet(Answered) /\ n \in Nat
      /\ \A p \in Answered : Rank(p) \in 1 .. n
      /\ \A p, q \in Answered : Before(p, q) => Rank(p) < Rank(q)
  BY RanksDiffer
<1>2. ASSUME NEW p \in Answered, NEW q \in Answered, Rank(p) = Rank(q)
      PROVE  p = q
  <2>1. Rank(p) \in Nat /\ ~(Rank(p) < Rank(q)) /\ ~(Rank(q) < Rank(p))
    BY <1>1, <1>2
  <2> QED BY <1>1, <2>1, BeforeOrders
<1>3. r \in Surjection(Answered, 1 .. n)
  <2>1. r \in [Answered -> 1 .. n] /\ \A p, q \in Answered : r[p] = r[q] => p = q
    BY <1>1, <1>2
  <2>2. r \in Injection(Answered, 1 .. n)
    <3> HIDE DEF r, n
    <3> QED BY <2>1 DEF Injection, IsInjective
  <2>3. IsFiniteSet(1 .. n) /\ Cardinality(1 .. n) = n
    BY <1>1, FS_Interval
  <2> HIDE DEF r, n
  <2>4. Cardinality(Answered) = Cardinality(1 .. n)
    BY <2>3 DEF n
  <2> QED BY <2>2, <2>3, <2>4, FS_Injection
<1>4. ASSUME NEW i \in 1 .. n PROVE \E p \in Answered : Rank(p) = i
  BY <1>3 DEF Surjection
<1>5. Report = [i \in 1 .. n |-> CHOOSE p \in Answered : Rank(p) = i]
  BY DEF Report
<1>6. ASSUME NEW i \in 1 .. n PROVE Report[i] \in Answered /\ Rank(Report[i]) = i
  <2>1. Report[i] = CHOOSE p \in Answered : Rank(p) = i
    BY <1>5
  <2> QED BY <1>4, <2>1
<1>7. DOMAIN Report = 1 .. n /\ Len(Report) = n
  <2>1. DOMAIN Report = 1 .. n
    BY <1>5
  <2>2. Report \in [1 .. n -> Answered]
    BY <1>5, <1>6
  <2> HIDE DEF n
  <2> QED BY <1>1, <2>1, <2>2
<1>8. Range(Report) = Answered
  <2>1. ASSUME NEW p \in Answered PROVE \E i \in DOMAIN Report : Report[i] = p
    <3>1. Rank(p) \in 1 .. n
      BY <1>1
    <3> QED BY <1>2, <1>6, <1>7, <3>1
  <2> QED BY <1>6, <1>7, <2>1 DEF Range
<1> QED BY <1>6, <1>7, <1>8

(***************************************************************************)
(* The report lists every component with a rubric once, in the order of    *)
(* the setup, whatever the order of the answers; one is printed ahead of a *)
(* component that stands before it only where they share a name, or where  *)
(* the other's name is used again behind it (review.py:177).               *)
(***************************************************************************)
THEOREM ReportOrdered == Spec => []ReportInSetupOrder
<1>1. ASSUME Inv, CallsInv, pc = "reported"
      PROVE  Answered = Reviewable
  <2>1. AllCollected /\ PoolDone
    BY <1>1 DEF CallsInv, Course
  <2>2. ungrouped = {}
    BY <1>1 DEF Inv
  <2>3. Batches = Range(collected)
    BY <2>1, RangeOfEmpty DEF PoolDone, AllCollected, Batches
  <2> QED BY <1>1, <2>2, <2>3 DEF Inv, Answered
<1>2. ASSUME Inv, NEW i \in DOMAIN Report, NEW j \in DOMAIN Report, i < j,
             ~(Report[i] < Report[j])
      PROVE  \E q \in DOMAIN setup : q >= Report[i] /\ setup[q].name = setup[Report[j]].name
  <2> DEFINE p == Report[i]
             r == Report[j]
  <2>1. p \in Answered /\ r \in Answered /\ Rank(p) = i /\ Rank(r) = j
    BY <1>2, ReportSorted
  <2>2. i \in Nat /\ j \in Nat /\ ~(p < r)
    BY <1>2, ReportSorted, RanksDiffer
  <2> HIDE DEF p, r
  <2>3. /\ p \in Nat /\ Order(p) \in Nat /\ p <= Order(p)
        /\ Order(r) \in Nat /\ Order(r) \in DOMAIN setup /\ setup[Order(r)].name = setup[r].name
    BY <1>2, <2>1, Keys
  <2>4. ~(Order(r) < Order(p))
    <3> SUFFICES ASSUME Order(r) < Order(p) PROVE FALSE
      OBVIOUS
    <3>1. Before(r, p)
      BY DEF Before
    <3>2. Rank(r) < Rank(p)
      BY <1>2, <2>1, <3>1, RanksDiffer
    <3> QED BY <1>2, <2>1, <2>2, <3>2
  <2>5. Order(r) >= p
    BY <2>3, <2>4
  <2> QED BY <2>3, <2>5 DEF p, r
<1>3. Inv /\ CallsInv => ReportInSetupOrder
  <2> SUFFICES ASSUME Inv, CallsInv, pc = "reported"
               PROVE  /\ Range(Report) = Reviewable /\ Len(Report) = Cardinality(Reviewable)
                      /\ \A i, j \in DOMAIN Report :
                            i < j =>
                              \/ Report[i] < Report[j]
                              \/ \E q \in DOMAIN setup :
                                    q >= Report[i] /\ setup[q].name = setup[Report[j]].name
    BY DEF ReportInSetupOrder
  <2> QED BY <1>1, <1>2, ReportSorted
<1> QED BY <1>3, CallsCounted, PTL

=============================================================================
