---------------------------- MODULE OfflineProofs ----------------------------
(***************************************************************************)
(* Theorems about jobs that can be killed anywhere and are run again: what *)
(* the scripts of PaidCalls buy, the model files that the commands of      *)
(* ModelFiles leave, what a run of a pipeline of PipelineRun says and      *)
(* leaves, and the checkpoint that TrainLoop packages; what Importers      *)
(* import, and what the data stages of TrainData leave to train on.        *)
(***************************************************************************)
EXTENDS PaidCalls, ModelFiles, PipelineRun, TrainLoop, TrainData, Importers,
        FiniteSetTheorems, SequenceTheorems, WellFoundedInduction, TLAPS

-----------------------------------------------------------------------------
(* PaidCalls: the invariant *)

\* Where each script may be.
Stages ==
  [v3 |-> {"idle", "next", "send", "answered", "kept", "drafted"},
   v5 |-> {"idle", "next", "buy", "send", "answered", "kept", "use"},
   v7 |-> {"idle", "next", "buy", "send", "answered", "kept", "use"},
   words |-> {"idle", "next", "send", "answered", "kept", "use"}]

Outcomes == {"none", "good", "unusable", "no_json", "error"}

\* A slice's numbered calls, for v3; the slices, for the others.
Todos == IF script = "v3" THEN Seq(Slices \X (1..Quota)) ELSE Seq(Slices)

PaidTypes ==
  /\ script \in {"v3", "v5", "v7", "words"}
  /\ DOMAIN ledger \subseteq Calls /\ IsFiniteSet(DOMAIN ledger)
  /\ paid \in [Calls -> Nat]
  /\ responses \in SUBSET [call : Calls, answer : Outcomes]
  /\ run \in [at : Stages[script], call : Calls, todo : Todos, made : Nat, answer : Outcomes]

\* The call a process is at is in the ledger before it is paid for.
CallInHand ==
  /\ run.at \in {"send", "answered", "kept", "drafted"} => run.call \in DOMAIN ledger
  /\ run.at = "send" => paid[run.call] = 0
  /\ run.at \in {"kept", "drafted"} => Kept(run.call) /\ run.answer # "error"

\* schedule() counts files and takes the next number: no number was left out,
\* and what is still to do comes after what is recorded, round by round.
CallsOf(s) == {c \in DOMAIN ledger : c[1] = s}
Behind(c, i) == c \in DOMAIN ledger \/ \E j \in 1..(i - 1) : run.todo[j] = c

RoundsPaid ==
  script = "v3" =>
    /\ \A s \in Slices : CallsOf(s) = {s} \X (1..Used(s))
    /\ \A i \in 1..Len(run.todo) :
         /\ ~Behind(run.todo[i], i)
         /\ \A p \in 1..(run.todo[i][2] - 1) : Behind(<<run.todo[i][1], p>>, i)

\* The one ledger of words gives its next number.
Numbered ==
  script = "words" => \A c \in DOMAIN ledger : c[2] <= Cardinality(DOMAIN ledger)

PaidInv == PaidTypes /\ CallInHand /\ RoundsPaid /\ Numbered /\ MoneyWellSpent

-----------------------------------------------------------------------------
(* PaidCalls: lemmas *)

\* The idle process.
LEMMA IdleTypes ==
  /\ Idle = [at |-> "idle", call |-> Generate(1), todo |-> <<>>, made |-> 0, answer |-> "none"]
  /\ Generate(1) \in Calls
  /\ \A s \in Slices : Generate(s) \in Calls /\ Review(s) \in Calls
<1>1. 1 \in Slices /\ 1 \in Parts /\ 2 \in Parts
  BY PaidAssumption DEF Slices, Parts
<1> QED
  BY <1>1 DEF Idle, Generate, Review, Calls

\* A step that buys nothing: the ledger, what was paid and what was kept stay.
LEMMA NothingBought ==
  ASSUME PaidInv, UNCHANGED <<script, ledger, paid, responses>>,
         run' \in [at : Stages[script], call : Calls, todo : Todos, made : Nat, answer : Outcomes],
         run'.at \notin {"send", "answered", "kept", "drafted"}
           \/ (run.at = "kept" /\ run'.at = "drafted" /\ run'.call = run.call /\ run'.answer = run.answer),
         script = "v3" => run'.todo = run.todo \/ run'.todo = <<>>
  PROVE  PaidInv'
<1>1. PaidTypes'
  BY DEF PaidInv, PaidTypes, Todos
<1>2. CallInHand'
  BY DEF PaidInv, CallInHand, Kept
<1>3. RoundsPaid'
  <2> SUFFICES ASSUME script = "v3" PROVE RoundsPaid'
    BY DEF RoundsPaid
  <2>1. CASE run'.todo = run.todo
    <3>1. \A c, i : Behind(c, i)' <=> Behind(c, i)
      BY <2>1 DEF Behind
    <3>2. \A s : CallsOf(s)' = CallsOf(s) /\ Used(s)' = Used(s)
      BY DEF CallsOf, Used
    <3>3. run.todo = run'.todo
      BY <2>1
    <3> QED
      BY <3>1, <3>2, <3>3 DEF PaidInv, RoundsPaid
  <2>2. CASE run'.todo = <<>>
    <3>1. Len(run'.todo) = 0
      BY <2>2
    <3>2. 1..Len(run'.todo) = {}
      BY <3>1
    <3> QED
      BY <3>2 DEF PaidInv, RoundsPaid, CallsOf, Used
  <2> QED
    BY <2>1, <2>2
<1>4. Numbered' /\ MoneyWellSpent'
  BY DEF PaidInv, Numbered, MoneyWellSpent, PaidOnce, AnswersKept, Kept
<1> QED
  BY <1>1, <1>2, <1>3, <1>4 DEF PaidInv

\* A step that records how the call in hand ended, or that it did: Failed,
\* V3Rejects, V3Drafted, Bought, WordsRecorded.
LEMMA CallRecorded ==
  ASSUME PaidInv, NEW status, ledger' = Record(run.call, status),
         UNCHANGED <<script, paid, responses>>,
         run.at \in {"answered", "kept", "drafted"},
         status \in {"complete", "rejected", "draft_for_review", "ok"} => Kept(run.call),
         run' \in [at : Stages[script], call : Calls, todo : Todos, made : Nat, answer : Outcomes],
         run'.at \in {"idle", "next", "use"},
         script = "v3" => run'.todo = run.todo \/ run'.todo = <<>>
  PROVE  PaidInv'
<1>1. run.call \in DOMAIN ledger
  BY DEF PaidInv, CallInHand
<1>2. DOMAIN ledger' = DOMAIN ledger
  BY <1>1 DEF Record
<1>3. PaidTypes' /\ CallInHand'
  <2>1. PaidTypes'
    BY <1>2 DEF PaidInv, PaidTypes, Todos
  <2>2. CallInHand'
    BY DEF CallInHand
  <2> QED
    BY <2>1, <2>2
<1>4. RoundsPaid'
  <2> SUFFICES ASSUME script = "v3" PROVE RoundsPaid'
    BY DEF RoundsPaid
  <2>1. \A s : CallsOf(s)' = CallsOf(s) /\ Used(s)' = Used(s)
    BY <1>2 DEF CallsOf, Used
  <2>2. CASE run'.todo = run.todo
    <3>1. \A c, i : Behind(c, i)' <=> Behind(c, i)
      BY <1>2, <2>2 DEF Behind
    <3>2. run.todo = run'.todo
      BY <2>2
    <3> QED
      BY <2>1, <3>1, <3>2 DEF PaidInv, RoundsPaid
  <2>3. CASE run'.todo = <<>>
    <3>1. 1..Len(run'.todo) = {}
      BY <2>3
    <3> QED
      BY <2>1, <3>1 DEF PaidInv, RoundsPaid
  <2> QED
    BY <2>2, <2>3
<1>5. Numbered'
  BY <1>2 DEF PaidInv, Numbered
<1>6. PaidOnce'
  BY <1>2 DEF PaidInv, MoneyWellSpent, PaidOnce
<1>7. AnswersKept'
  <2>1. \A c \in DOMAIN ledger : ledger'[c] = IF c = run.call THEN status ELSE ledger[c]
    BY DEF Record
  <2>2. \A c : Kept(c)' <=> Kept(c)
    BY DEF Kept
  <2> QED
    <3> SUFFICES ASSUME NEW c \in DOMAIN ledger,
                        ledger'[c] \in {"complete", "rejected", "draft_for_review", "ok"}
                 PROVE  Kept(c)
      BY <1>2, <2>2 DEF AnswersKept
    <3>1. CASE c = run.call
      BY <2>1, <3>1
    <3>2. CASE c # run.call
      BY <2>1, <3>2 DEF PaidInv, MoneyWellSpent, AnswersKept
    <3> QED
      BY <3>1, <3>2
<1> QED
  BY <1>3, <1>4, <1>5, <1>6, <1>7 DEF PaidInv, MoneyWellSpent

\* A step that begins a new call: its file is written, then it is sent.
LEMMA CallBegun ==
  ASSUME PaidInv, NEW call \in Calls, call \notin DOMAIN ledger,
         NEW status \in {"pending", "sent"}, ledger' = Record(call, status),
         UNCHANGED <<script, paid, responses>>,
         run' \in [at : Stages[script], call : Calls, todo : Todos, made : Nat, answer : Outcomes],
         run'.at = "send", run'.call = call
  PROVE  /\ (PaidTypes /\ CallInHand /\ MoneyWellSpent)'
         /\ DOMAIN ledger' = DOMAIN ledger \union {call}
         /\ IsFiniteSet(DOMAIN ledger)
         /\ Cardinality(DOMAIN ledger) \in Nat
         /\ Cardinality(DOMAIN ledger') = Cardinality(DOMAIN ledger) + 1
<1>1. DOMAIN ledger' = DOMAIN ledger \union {call} /\ IsFiniteSet(DOMAIN ledger)
  BY DEF Record, PaidInv, PaidTypes
<1>2. /\ IsFiniteSet(DOMAIN ledger')
      /\ Cardinality(DOMAIN ledger) \in Nat
      /\ Cardinality(DOMAIN ledger') = Cardinality(DOMAIN ledger) + 1
  BY <1>1, FS_AddElement, FS_CardinalityType
<1>3. PaidTypes'
  BY <1>1, <1>2 DEF PaidInv, PaidTypes, Todos
<1>4. paid[call] = 0
  BY DEF PaidInv, PaidTypes, MoneyWellSpent, PaidOnce
<1>5. CallInHand'
  BY <1>1, <1>4 DEF CallInHand
<1>6. PaidOnce'
  BY <1>1 DEF PaidInv, MoneyWellSpent, PaidOnce
<1>7. AnswersKept'
  <2>1. \A c \in DOMAIN ledger' : ledger'[c] = IF c = call THEN status ELSE ledger[c]
    BY <1>1 DEF Record
  <2>2. \A c : Kept(c)' <=> Kept(c)
    BY DEF Kept
  <2> QED
    <3> SUFFICES ASSUME NEW c \in DOMAIN ledger',
                        ledger'[c] \in {"complete", "rejected", "draft_for_review", "ok"}
                 PROVE  Kept(c)
      BY <2>2 DEF AnswersKept
    <3>1. c # call
      BY <2>1
    <3> QED
      BY <1>1, <2>1, <3>1 DEF PaidInv, MoneyWellSpent, AnswersKept
<1> QED
  BY <1>1, <1>2, <1>3, <1>5, <1>6, <1>7 DEF MoneyWellSpent

\* What the ledger of v3 has counted.
LEMMA UsedTypes ==
  ASSUME PaidTypes, NEW s
  PROVE  IsFiniteSet(CallsOf(s)) /\ Used(s) \in Nat /\ Used(s) = Cardinality(CallsOf(s))
<1>1. CallsOf(s) \in SUBSET (DOMAIN ledger) /\ Used(s) = Cardinality(CallsOf(s))
  BY DEF CallsOf, Used
<1>2. IsFiniteSet(CallsOf(s))
  BY <1>1, FS_Subset DEF PaidTypes
<1> QED
  BY <1>1, <1>2, FS_CardinalityType

\* schedule() takes calls that are not in the ledger, each once and none
\* before the calls of its slice that come first.
LEMMA ScheduleRight ==
  ASSUME PaidInv, script = "v3", NEW todo \in Schedule
  PROVE  /\ todo \in Seq(Slices \X (1..Quota))
         /\ \A i \in 1..Len(todo) :
              /\ todo[i] \notin DOMAIN ledger
              /\ \A j \in 1..(i - 1) : todo[j] # todo[i]
              /\ \A p \in 1..(todo[i][2] - 1) :
                   <<todo[i][1], p>> \in DOMAIN ledger \/ \E j \in 1..(i - 1) : todo[j] = <<todo[i][1], p>>
<1>1. PICK n \in 0..PerRun : todo \in [1..n -> Unpaid]
  BY DEF Schedule
<1>2. n \in Nat /\ Len(todo) = n /\ DOMAIN todo = 1..n /\ todo \in Seq(Unpaid)
  BY <1>1, PaidAssumption, SeqDef
<1>3. todo \in Seq(Slices \X (1..Quota))
  BY <1>2, SeqMonotonic DEF Unpaid
<1>4. \A s \in Slices : Used(s) \in Nat /\ CallsOf(s) = {s} \X (1..Used(s))
  BY UsedTypes DEF PaidInv, RoundsPaid
<1>5. /\ \A i \in 1..n : \A j \in 1..(i - 1) : InTurn(todo[j], todo[i])
      /\ \A c \in Unpaid :
           \/ \E i \in 1..n : todo[i] = c
           \/ \A i \in 1..n : InTurn(todo[i], c)
  BY <1>2 DEF Schedule
<1>6. ASSUME NEW i \in 1..n
      PROVE  /\ todo[i] \notin DOMAIN ledger
             /\ \A j \in 1..(i - 1) : todo[j] # todo[i]
             /\ \A p \in 1..(todo[i][2] - 1) :
                  <<todo[i][1], p>> \in DOMAIN ledger \/ \E j \in 1..(i - 1) : todo[j] = <<todo[i][1], p>>
  <2>1. PICK s \in Slices, q \in 1..Quota : todo[i] = <<s, q>> /\ q > Used(s)
    BY <1>1 DEF Unpaid
  <2>2. s \in Nat /\ q \in Nat /\ Quota \in Nat /\ Used(s) \in Nat
    BY <1>4, <2>1, PaidAssumption DEF Slices
  <2>3. todo[i] \notin DOMAIN ledger
    <3>1. todo[i] \notin CallsOf(s)
      BY <1>4, <2>1, <2>2
    <3> QED
      BY <2>1, <3>1 DEF CallsOf
  <2>4. ASSUME NEW j \in 1..(i - 1), todo[j] = todo[i] PROVE FALSE
    <3>1. InTurn(todo[i], todo[i])
      BY <1>2, <1>5, <2>4
    <3> QED
      BY <2>1, <2>2, <3>1 DEF InTurn
  <2>5. ASSUME NEW p \in 1..(q - 1)
        PROVE  <<s, p>> \in DOMAIN ledger \/ \E j \in 1..(i - 1) : todo[j] = <<s, p>>
    <3>1. CASE p <= Used(s)
      <4>1. <<s, p>> \in CallsOf(s)
        BY <1>4, <2>2, <3>1
      <4> QED
        BY <4>1 DEF CallsOf
    <3>2. CASE p > Used(s)
      <4>1. <<s, p>> \in Unpaid
        BY <2>1, <2>2, <3>2 DEF Unpaid
      <4>2. ~InTurn(todo[i], <<s, p>>)
        BY <2>1, <2>2 DEF InTurn
      <4>3. PICK j \in 1..n : todo[j] = <<s, p>>
        BY <1>5, <4>1, <4>2
      <4>4. j # i
        BY <2>1, <2>2, <4>3
      <4>5. ~(i < j)
        <5>1. i < j => i \in 1..(j - 1)
          BY <1>2
        <5> QED
          BY <1>5, <4>2, <4>3, <5>1
      <4>6. j \in 1..(i - 1)
        BY <1>2, <4>4, <4>5
      <4> QED
        BY <4>3, <4>6
    <3> QED
      BY <2>2, <3>1, <3>2
  <2> QED
    BY <2>1, <2>3, <2>4, <2>5
<1> QED
  BY <1>2, <1>3, <1>6

\* The plan of the rounds: every number that is not paid for, in its turn.
LEMMA V3StartStep == ASSUME PaidInv, V3Start PROVE PaidInv'
<1>1. PICK todo \in Schedule : run' = [Idle EXCEPT !.at = "next", !.todo = todo]
  BY DEF V3Start
<1>2. /\ script = "v3" /\ UNCHANGED <<script, ledger, paid, responses>>
      /\ run'.todo = todo /\ run'.at = "next"
  BY <1>1, IdleTypes DEF V3Start
<1>3. run' \in [at : Stages[script], call : Calls, todo : Todos, made : Nat, answer : Outcomes]
  <2>1. todo \in Todos
    BY <1>2, ScheduleRight DEF Todos
  <2>2. run' = [at |-> "next", call |-> Generate(1), todo |-> todo, made |-> 0, answer |-> "none"]
    BY <1>1, IdleTypes
  <2> QED
    BY <1>2, <2>1, <2>2, IdleTypes DEF Stages, Outcomes
<1>4. PaidTypes' /\ CallInHand' /\ Numbered' /\ MoneyWellSpent'
  <2>1. PaidTypes'
    BY <1>2, <1>3 DEF PaidInv, PaidTypes, Todos
  <2>2. CallInHand' /\ Numbered'
    BY <1>2 DEF CallInHand, Numbered
  <2>3. MoneyWellSpent'
    BY <1>2 DEF PaidInv, MoneyWellSpent, PaidOnce, AnswersKept, Kept
  <2> QED
    BY <2>1, <2>2, <2>3
<1>5. RoundsPaid'
  <2>1. \A s : CallsOf(s)' = CallsOf(s) /\ Used(s)' = Used(s)
    BY <1>2 DEF CallsOf, Used
  <2>2. \A c, i : Behind(c, i)' <=> c \in DOMAIN ledger \/ \E j \in 1..(i - 1) : todo[j] = c
    BY <1>2 DEF Behind
  <2>3. todo = run'.todo
    BY <1>2
  <2>4. \A i \in 1..Len(todo) :
          /\ ~Behind(todo[i], i)'
          /\ \A p \in 1..(todo[i][2] - 1) : Behind(<<todo[i][1], p>>, i)'
    <3> SUFFICES ASSUME NEW i \in 1..Len(todo)
                 PROVE  /\ ~Behind(todo[i], i)'
                        /\ \A p \in 1..(todo[i][2] - 1) : Behind(<<todo[i][1], p>>, i)'
      OBVIOUS
    <3>1. /\ todo[i] \notin DOMAIN ledger
          /\ \A j \in 1..(i - 1) : todo[j] # todo[i]
          /\ \A p \in 1..(todo[i][2] - 1) :
               <<todo[i][1], p>> \in DOMAIN ledger \/ \E j \in 1..(i - 1) : todo[j] = <<todo[i][1], p>>
      BY <1>2, ScheduleRight
    <3>2. ~Behind(todo[i], i)'
      BY <2>2, <3>1
    <3>3. ASSUME NEW p \in 1..(todo[i][2] - 1) PROVE Behind(<<todo[i][1], p>>, i)'
      BY <2>2, <3>1
    <3> QED
      BY <3>2, <3>3
  <2> QED
    BY <1>2, <2>1, <2>3, <2>4 DEF PaidInv, RoundsPaid
<1> QED
  BY <1>4, <1>5 DEF PaidInv

\* Numbers up to the next one.
LEMMA NextNumber == \A u \in Nat : 1..(u + 1) = (1..u) \union {u + 1}
  OBVIOUS

\* The next call enters the ledger, or the plan is done.
LEMMA V3NextStep == ASSUME PaidInv, V3Next PROVE PaidInv'
<1>1. script = "v3" /\ run.at = "next" /\ UNCHANGED <<script, paid, responses>>
  BY DEF V3Next
<1>2. run.todo \in Seq(Slices \X (1..Quota))
  BY <1>1 DEF PaidInv, PaidTypes, Todos
<1>3. CASE run.todo = <<>>
  <2>1. UNCHANGED <<script, ledger, paid, responses>> /\ run' = Idle
    BY <1>1, <1>3 DEF V3Next
  <2>2. run' \in [at : Stages[script], call : Calls, todo : Todos, made : Nat, answer : Outcomes]
    BY <1>1, <2>1, IdleTypes, EmptySeq DEF Stages, Todos, Outcomes
  <2>3. run'.at = "idle" /\ run'.todo = <<>>
    BY <2>1, IdleTypes
  <2>4. run'.at \notin {"send", "answered", "kept", "drafted"} /\ (script = "v3" => run'.todo = <<>>)
    BY <2>3
  <2> QED
    BY <2>1, <2>2, <2>4, NothingBought, Zenon
<1>4. CASE run.todo # <<>>
  <2> DEFINE call == Head(run.todo)
  <2>1. PICK todo : todo = run.todo
    OBVIOUS
  <2>2. /\ todo \in Seq(Slices \X (1..Quota)) /\ todo # <<>>
        /\ Len(todo) \in Nat \ {0} /\ Tail(todo) \in Seq(Slices \X (1..Quota)) /\ Len(Tail(todo)) = Len(todo) - 1
        /\ \A i \in 1..Len(Tail(todo)) : Tail(todo)[i] = todo[i + 1]
    BY <1>2, <1>4, <2>1, EmptySeq, HeadTailProperties
  <2>3. PICK s \in Slices, q \in 1..Quota : todo[1] = <<s, q>>
    BY <2>2, ElementOfSeq
  <2>4. run' = [run EXCEPT !.at = "send", !.call = todo[1], !.todo = Tail(todo)] /\ ledger' = Record(todo[1], "pending")
    BY <1>4, <2>1, <2>2 DEF V3Next
  <2>5. todo[1] \in Calls
    BY <2>3, PaidAssumption DEF Calls, Parts
  <2>6. /\ run' \in [at : Stages[script], call : Calls, todo : Todos, made : Nat, answer : Outcomes]
        /\ run'.at = "send" /\ run'.call = todo[1] /\ run'.todo = Tail(todo)
    BY <1>1, <2>2, <2>4, <2>5 DEF PaidInv, PaidTypes, Stages, Todos
  <2>7. /\ \A i \in 1..Len(todo) :
             /\ todo[i] \notin DOMAIN ledger
             /\ \A j \in 1..(i - 1) : todo[j] # todo[i]
             /\ \A p \in 1..(todo[i][2] - 1) :
                  <<todo[i][1], p>> \in DOMAIN ledger \/ \E j \in 1..(i - 1) : todo[j] = <<todo[i][1], p>>
        /\ \A x \in Slices : CallsOf(x) = {x} \X (1..Used(x))
    <3>1. /\ \A x \in Slices : CallsOf(x) = {x} \X (1..Used(x))
          /\ \A i \in 1..Len(run.todo) :
               /\ ~Behind(run.todo[i], i)
               /\ \A p \in 1..(run.todo[i][2] - 1) : Behind(<<run.todo[i][1], p>>, i)
      BY <1>1 DEF PaidInv, RoundsPaid
    <3>2. \A c, i : Behind(c, i) <=> c \in DOMAIN ledger \/ \E j \in 1..(i - 1) : todo[j] = c
      BY <2>1 DEF Behind
    <3> QED
      BY <2>1, <3>1, <3>2
  <2>8. todo[1] \notin DOMAIN ledger
    BY <2>2, <2>7
  <2>9. /\ (PaidTypes /\ CallInHand /\ MoneyWellSpent)'
        /\ DOMAIN ledger' = DOMAIN ledger \union {todo[1]}
    BY <1>1, <2>4, <2>5, <2>6, <2>8, CallBegun
  <2>10. \A x \in Slices : CallsOf(x)' = {x} \X (1..Used(x)')
    <3>1. PICK used : used = Used(s)
      OBVIOUS
    <3>2. used \in Nat /\ q \in Nat /\ IsFiniteSet(CallsOf(s)) /\ used = Cardinality(CallsOf(s)) /\ CallsOf(s) = {s} \X (1..used)
      BY <2>7, <3>1, UsedTypes, PaidAssumption DEF PaidInv
    <3>3. q = used + 1
      <4>1. ~(q <= used)
        <5>1. q <= used => <<s, q>> \in CallsOf(s)
          BY <3>2
        <5> QED
          BY <2>3, <2>8, <5>1 DEF CallsOf
      <4>2. q - 1 <= used
        <5>1. CASE q = 1
          BY <3>2, <5>1
        <5>2. CASE q # 1
          <6>1. q - 1 \in 1..(q - 1) /\ 1 \in 1..Len(todo)
            BY <2>2, <3>2, <5>2
          <6>2. <<s, q - 1>> \in DOMAIN ledger
            BY <2>3, <2>7, <6>1
          <6>3. <<s, q - 1>> \in CallsOf(s)
            BY <6>2 DEF CallsOf
          <6> QED
            BY <3>2, <6>3
        <5> QED
          BY <5>1, <5>2
      <4> QED
        BY <3>2, <4>1, <4>2
    <3>4. \A x : CallsOf(x)' = IF x = s THEN CallsOf(x) \union {<<s, q>>} ELSE CallsOf(x)
      BY <2>3, <2>9 DEF CallsOf
    <3>5. \A x : Used(x)' = Cardinality(CallsOf(x)')
      BY DEF Used, CallsOf
    <3>6. Used(s)' = used + 1
      <4>1. <<s, q>> \notin CallsOf(s)
        BY <2>3, <2>8 DEF CallsOf
      <4>2. Cardinality(CallsOf(s) \union {<<s, q>>}) = used + 1
        BY <3>2, <4>1, FS_AddElement
      <4> QED
        BY <3>4, <3>5, <4>2
    <3>7. {s} \X (1..(used + 1)) = ({s} \X (1..used)) \union {<<s, q>>}
      <4>1. 1..(used + 1) = (1..used) \union {q}
        BY <3>2, <3>3, NextNumber
      <4>2. \A S, T : {s} \X (S \union T) = ({s} \X S) \union ({s} \X T)
        OBVIOUS
      <4>3. {s} \X {q} = {<<s, q>>}
        OBVIOUS
      <4> QED
        BY <4>1, <4>2, <4>3
    <3>8. \A x : x # s => CallsOf(x)' = CallsOf(x) /\ Used(x)' = Used(x)
      BY <3>4, <3>5 DEF Used, CallsOf
    <3>9. CallsOf(s)' = {s} \X (1..Used(s)')
      BY <3>2, <3>4, <3>6, <3>7
    <3> QED
      BY <2>7, <3>8, <3>9
  <2>11. \A c : \A i \in 1..Len(Tail(todo)) : Behind(c, i)' <=> c \in DOMAIN ledger \/ \E j \in 1..i : todo[j] = c
    <3>1. \A c : \A i \in 1..Len(Tail(todo)) :
            Behind(c, i)' <=> c \in DOMAIN ledger \/ c = todo[1] \/ \E j \in 1..(i - 1) : Tail(todo)[j] = c
      BY <2>6, <2>9 DEF Behind
    <3>2. ASSUME NEW c, NEW i \in 1..Len(Tail(todo))
          PROVE  (c = todo[1] \/ \E j \in 1..(i - 1) : Tail(todo)[j] = c) <=> \E j \in 1..i : todo[j] = c
      <4>1. \A j \in 1..(i - 1) : Tail(todo)[j] = todo[j + 1] /\ j + 1 \in 1..i
        BY <2>2
      <4>2. ASSUME NEW j \in 1..i, j # 1 PROVE j - 1 \in 1..(i - 1) /\ Tail(todo)[j - 1] = todo[j]
        <5>1. j - 1 \in 1..(i - 1) /\ j - 1 \in 1..Len(Tail(todo)) /\ (j - 1) + 1 = j
          BY <2>2, <4>2
        <5> QED
          BY <2>2, <5>1
      <4>3. 1 \in 1..i
        BY <2>2
      <4> QED
        BY <4>1, <4>2, <4>3
    <3> QED
      BY <3>1, <3>2
  <2>12. \A i \in 1..Len(Tail(todo)) :
           /\ ~Behind(Tail(todo)[i], i)'
           /\ \A p \in 1..(Tail(todo)[i][2] - 1) : Behind(<<Tail(todo)[i][1], p>>, i)'
    <3> SUFFICES ASSUME NEW i \in 1..Len(Tail(todo))
                 PROVE  /\ ~Behind(Tail(todo)[i], i)'
                        /\ \A p \in 1..(Tail(todo)[i][2] - 1) : Behind(<<Tail(todo)[i][1], p>>, i)'
      OBVIOUS
    <3>1. Tail(todo)[i] = todo[i + 1] /\ i + 1 \in 1..Len(todo) /\ (i + 1) - 1 = i
      BY <2>2
    <3>2. /\ todo[i + 1] \notin DOMAIN ledger
          /\ \A j \in 1..i : todo[j] # todo[i + 1]
          /\ \A p \in 1..(todo[i + 1][2] - 1) :
               <<todo[i + 1][1], p>> \in DOMAIN ledger \/ \E j \in 1..i : todo[j] = <<todo[i + 1][1], p>>
      BY <2>7, <3>1
    <3>3. ~Behind(todo[i + 1], i)'
      BY <2>11, <3>2
    <3>4. ASSUME NEW p \in 1..(todo[i + 1][2] - 1) PROVE Behind(<<todo[i + 1][1], p>>, i)'
      BY <2>11, <3>2
    <3> QED
      BY <3>1, <3>3, <3>4
  <2>13. Tail(todo) = run'.todo
    BY <2>6
  <2>14. RoundsPaid'
    BY <2>10, <2>12, <2>13 DEF RoundsPaid
  <2>15. Numbered'
    BY <1>1 DEF Numbered
  <2> QED
    BY <2>9, <2>14, <2>15 DEF PaidInv
<1> QED
  BY <1>3, <1>4

\* What a run of the other scripts has to do.
LEMMA RemainingTypes == \A todo \in Remaining : todo \in Seq(Slices)
<1> SUFFICES ASSUME NEW todo \in Remaining PROVE todo \in Seq(Slices)
  OBVIOUS
<1>1. N \in Int /\ 1 \in Int /\ Slices = 1..N /\ Slices \ done \in SUBSET Slices
  BY PaidAssumption DEF Slices
<1>2. IsFiniteSet(Slices)
  BY <1>1, FS_Interval
<1>3. IsFiniteSet(Slices \ done)
  BY <1>1, <1>2, FS_Subset
<1>4. Cardinality(Slices \ done) \in Nat
  BY <1>3, FS_CardinalityType
<1>5. todo \in [1..Cardinality(Slices \ done) -> Slices]
  BY DEF Remaining
<1>6. [1..Cardinality(Slices \ done) -> Slices] \in {[1..n -> Slices] : n \in Nat}
  BY <1>4
<1> QED
  BY <1>5, <1>6, SeqDef, Zenon

\* PairStart and WordsStart read the plan; nothing is bought.
LEMMA PlanRead ==
  ASSUME PaidInv, script # "v3", NEW todo \in Remaining,
         run' = [Idle EXCEPT !.at = "next", !.todo = todo],
         UNCHANGED <<script, ledger, paid, responses>>
  PROVE  PaidInv'
<1>1. run' = [at |-> "next", call |-> Generate(1), todo |-> todo, made |-> 0, answer |-> "none"]
  BY IdleTypes
<1>2. todo \in Todos
  BY RemainingTypes DEF Todos
<1>3. "next" \in Stages[script]
  BY DEF PaidInv, PaidTypes, Stages
<1>4. run' \in [at : Stages[script], call : Calls, todo : Todos, made : Nat, answer : Outcomes]
  BY <1>1, <1>2, <1>3, IdleTypes DEF Outcomes
<1>5. run'.at \notin {"send", "answered", "kept", "drafted"}
  BY <1>1
<1> QED
  BY <1>4, <1>5, NothingBought

\* The process ends, or is killed: what is on disk stays as it is.
LEMMA ProcessGone ==
  ASSUME PaidInv, run' = Idle, UNCHANGED <<script, ledger, paid, responses>>
  PROVE  PaidInv'
<1>1. /\ run'.at \notin {"send", "answered", "kept", "drafted"}
      /\ run'.todo = <<>>
  BY IdleTypes
<1>2. "idle" \in Stages[script]
  BY DEF PaidInv, PaidTypes, Stages
<1>3. <<>> \in Todos
  BY EmptySeq DEF Todos
<1>4. run' \in [at : Stages[script], call : Calls, todo : Todos, made : Nat, answer : Outcomes]
  BY <1>2, <1>3, IdleTypes DEF Outcomes
<1> QED
  BY <1>1, <1>4, NothingBought

\* The process goes on without buying anything.
LEMMA ProcessMoves ==
  ASSUME PaidInv, script # "v3", NEW at \in Stages[script], NEW call \in Calls, NEW todo \in Seq(Slices),
         NEW number \in Nat, NEW answer \in Outcomes,
         run' = [at |-> at, call |-> call, todo |-> todo, made |-> number, answer |-> answer],
         at \notin {"send", "answered", "kept", "drafted"},
         UNCHANGED <<script, ledger, paid, responses>>
  PROVE  PaidInv'
<1>1. run'.at \notin {"send", "answered", "kept", "drafted"}
  OBVIOUS
<1>2. run' \in [at : Stages[script], call : Calls, todo : Todos, made : Nat, answer : Outcomes]
  BY DEF Todos
<1> QED
  BY <1>1, <1>2, NothingBought

\* The run of a script other than v3.
LEMMA OtherRun ==
  ASSUME PaidInv, script # "v3"
  PROVE  /\ run = [at |-> run.at, call |-> run.call, todo |-> run.todo, made |-> run.made, answer |-> run.answer]
         /\ run.call \in Calls /\ run.todo \in Seq(Slices) /\ run.made \in Nat /\ run.answer \in Outcomes
         /\ run.at \in Stages[script]
         /\ run.todo # <<>> => Head(run.todo) \in Slices /\ Tail(run.todo) \in Seq(Slices)
<1>1. run \in [at : Stages[script], call : Calls, todo : Todos, made : Nat, answer : Outcomes]
  BY DEF PaidInv, PaidTypes
<1>2. run.todo \in Seq(Slices)
  BY <1>1 DEF Todos
<1> QED
  BY <1>1, <1>2, HeadTailProperties

\* v5 and v7: taking the next slice, reading an answer, ending a slice.
LEMMA PairMoves ==
  ASSUME PaidInv, PairNext \/ ReviewNext \/ Reviewed PROVE PaidInv'
<1>1. script \in {"v5", "v7"} /\ UNCHANGED <<script, ledger, paid, responses>>
  BY DEF PairNext, ReviewNext, Reviewed
<1>2. {"next", "buy", "use"} \subseteq Stages[script]
  BY <1>1 DEF Stages
<1>3. CASE PairNext
  <2>1. CASE run' = Idle
    BY <1>1, <2>1, ProcessGone
  <2>2. CASE run' # Idle
    <3>1. run.todo # <<>> /\ run' = [run EXCEPT !.at = "buy", !.call = Generate(Head(run.todo)), !.todo = Tail(run.todo)]
      BY <1>3, <2>2 DEF PairNext
    <3>2. run' = [at |-> "buy", call |-> Generate(Head(run.todo)), todo |-> Tail(run.todo),
                  made |-> run.made, answer |-> run.answer]
      BY <1>1, <3>1, OtherRun
    <3>3. Generate(Head(run.todo)) \in Calls
      BY <1>1, <3>1, OtherRun, IdleTypes
    <3>4. "buy" \notin {"send", "answered", "kept", "drafted"} /\ "buy" \in Stages[script]
      BY <1>2
    <3> QED
      BY <1>1, <3>1, <3>2, <3>3, <3>4, OtherRun, ProcessMoves
  <2> QED
    BY <2>1, <2>2
<1>4. CASE ReviewNext
  <2>1. run' = [at |-> "buy", call |-> Review(run.call[1]), todo |-> run.todo, made |-> run.made, answer |-> run.answer]
    BY <1>1, <1>4, OtherRun DEF ReviewNext
  <2>2. run.call[1] \in Slices
    BY <1>1, OtherRun DEF Calls
  <2>3. Review(run.call[1]) \in Calls
    BY <2>2, IdleTypes
  <2>4. "buy" \notin {"send", "answered", "kept", "drafted"} /\ "buy" \in Stages[script]
    BY <1>2
  <2> QED
    BY <1>1, <2>1, <2>3, <2>4, OtherRun, ProcessMoves
<1>5. CASE Reviewed
  <2>1. run' = [at |-> "next", call |-> run.call, todo |-> run.todo, made |-> run.made + 1, answer |-> run.answer]
    BY <1>1, <1>5, OtherRun DEF Reviewed
  <2>2. "next" \notin {"send", "answered", "kept", "drafted"} /\ "next" \in Stages[script]
    BY <1>2
  <2>3. run.made + 1 \in Nat
    BY <1>1, OtherRun
  <2> QED
    BY <1>1, <2>1, <2>2, <2>3, OtherRun, ProcessMoves
<1> QED
  BY <1>3, <1>4, <1>5

\* paid() of v5 and v7: what is recorded is read or refused, and a new call
\* is one that has no file.
LEMMA BuyStep == ASSUME PaidInv, Buy PROVE PaidInv'
<1>1. UNCHANGED <<script, paid, responses>> /\ run.at = "buy"
  BY DEF Buy
<1>2. script \in {"v5", "v7"} /\ {"use", "send"} \subseteq Stages[script]
  BY <1>1 DEF PaidInv, PaidTypes, Stages
<1>3. CASE ledger' = ledger /\ run' = Idle
  BY <1>1, <1>3, ProcessGone
<1>4. CASE /\ ledger' = ledger
           /\ run.call \in DOMAIN ledger /\ ledger[run.call] = "complete"
           /\ run' = [run EXCEPT !.at = "use", !.answer = AnswerOf(run.call)]
  <2>1. AnswerOf(run.call) \in Outcomes
    <3>1. Kept(run.call)
      BY <1>4 DEF PaidInv, MoneyWellSpent, AnswersKept
    <3>2. (CHOOSE r \in responses : r.call = run.call) \in responses
      BY <3>1 DEF Kept
    <3> QED
      BY <3>2 DEF AnswerOf, PaidInv, PaidTypes
  <2>2. run' = [at |-> "use", call |-> run.call, todo |-> run.todo, made |-> run.made, answer |-> AnswerOf(run.call)]
    BY <1>2, <1>4, OtherRun
  <2>3. "use" \notin {"send", "answered", "kept", "drafted"} /\ "use" \in Stages[script]
    BY <1>2
  <2> QED
    BY <1>1, <1>2, <1>4, <2>1, <2>2, <2>3, OtherRun, ProcessMoves
<1>5. CASE /\ run.call \notin DOMAIN ledger /\ ledger' = Record(run.call, "pending")
           /\ run' = [run EXCEPT !.at = "send"]
  <2>1. run' = [at |-> "send", call |-> run.call, todo |-> run.todo, made |-> run.made, answer |-> run.answer]
    BY <1>2, <1>5, OtherRun
  <2>2. run' \in [at : Stages[script], call : Calls, todo : Todos, made : Nat, answer : Outcomes]
    BY <1>2, <2>1, OtherRun DEF Todos
  <2>3. run.call \in Calls /\ run'.at = "send" /\ run'.call = run.call /\ "pending" \in {"pending", "sent"}
    BY <1>2, <2>1, OtherRun
  <2>4. (PaidTypes /\ CallInHand /\ MoneyWellSpent)'
    BY <1>1, <1>5, <2>2, <2>3, CallBegun
  <2>5. RoundsPaid' /\ Numbered'
    BY <1>1, <1>2 DEF RoundsPaid, Numbered
  <2> QED
    BY <2>4, <2>5 DEF PaidInv
<1> QED
  BY <1>3, <1>4, <1>5 DEF Buy

\* words: the ledger's next number is new.
LEMMA WordsNextStep == ASSUME PaidInv, WordsNext PROVE PaidInv'
<1>1. script = "words" /\ UNCHANGED <<script, paid, responses>> /\ {"send"} \subseteq Stages[script]
  BY DEF WordsNext, Stages
<1>2. CASE run' = Idle /\ ledger' = ledger
  BY <1>1, <1>2, ProcessGone
<1>3. CASE ~(run' = Idle /\ ledger' = ledger)
  <2>1. PICK used : used = Cardinality(DOMAIN ledger)
    OBVIOUS
  <2>2. PICK call : call = <<Head(run.todo), used + 1>>
    OBVIOUS
  <2>3. /\ run.todo # <<>> /\ ~(used >= Limit)
        /\ run' = [run EXCEPT !.at = "send", !.call = call, !.todo = Tail(@), !.made = @ + 1]
        /\ ledger' = Record(call, "sent")
    BY <1>3, <2>1, <2>2 DEF WordsNext
  <2>4. IsFiniteSet(DOMAIN ledger) /\ used \in Nat /\ Limit \in Nat /\ Quota \in Nat
    BY <2>1, FS_CardinalityType, PaidAssumption DEF PaidInv, PaidTypes
  <2>5. call \in Calls
    <3>1. used + 1 \in Parts
      BY <2>3, <2>4 DEF Parts
    <3>2. Head(run.todo) \in Slices
      BY <1>1, <2>3, OtherRun
    <3> QED
      BY <2>2, <3>1, <3>2 DEF Calls
  <2>6. call \notin DOMAIN ledger
    BY <1>1, <2>1, <2>2, <2>4 DEF PaidInv, Numbered
  <2>7. run' = [at |-> "send", call |-> call, todo |-> Tail(run.todo), made |-> run.made + 1, answer |-> run.answer]
    BY <1>1, <2>3, OtherRun
  <2>8. run' \in [at : Stages[script], call : Calls, todo : Todos, made : Nat, answer : Outcomes]
    <3>1. run.made + 1 \in Nat /\ Tail(run.todo) \in Todos /\ run.answer \in Outcomes
      BY <1>1, <2>3, OtherRun DEF Todos
    <3> QED
      BY <1>1, <2>5, <2>7, <3>1
  <2>9. run'.at = "send" /\ run'.call = call /\ "sent" \in {"pending", "sent"}
    BY <2>7
  <2>10. /\ (PaidTypes /\ CallInHand /\ MoneyWellSpent)'
         /\ DOMAIN ledger' = DOMAIN ledger \union {call}
         /\ Cardinality(DOMAIN ledger') = used + 1
    BY <1>1, <2>1, <2>3, <2>5, <2>6, <2>8, <2>9, CallBegun
  <2>11. RoundsPaid'
    BY <1>1 DEF RoundsPaid
  <2>12. Numbered'
    <3>1. ASSUME NEW c \in DOMAIN ledger' PROVE c[2] <= used + 1
      <4>1. CASE c = call
        BY <2>2, <2>4, <4>1
      <4>2. CASE c # call
        <5>1. c \in DOMAIN ledger /\ c[2] <= used /\ c[2] \in Nat
          BY <1>1, <2>1, <2>4, <2>10, <3>1, <4>2 DEF PaidInv, Numbered, PaidTypes, Calls, Parts
        <5> QED
          BY <2>4, <5>1
      <4> QED
        BY <4>1, <4>2
    <3> QED
      BY <2>10, <3>1 DEF Numbered
  <2> QED
    BY <2>10, <2>11, <2>12 DEF PaidInv
<1> QED
  BY <1>2, <1>3

\* A step that only moves the process keeps what its run knows.
LEMMA OnlyAt ==
  ASSUME PaidInv, NEW at \in Stages[script], run' = [run EXCEPT !.at = at], script' = script
  PROVE  /\ run' \in [at : Stages[script], call : Calls, todo : Todos, made : Nat, answer : Outcomes]
         /\ run'.at = at /\ run'.todo = run.todo /\ run'.call = run.call /\ run'.answer = run.answer
<1>1. run \in [at : Stages[script], call : Calls, todo : Todos, made : Nat, answer : Outcomes]
  BY DEF PaidInv, PaidTypes
<1> QED
  BY <1>1

\* The idle run.
LEMMA IdleRun ==
  ASSUME PaidInv, run' = Idle
  PROVE  /\ run' \in [at : Stages[script], call : Calls, todo : Todos, made : Nat, answer : Outcomes]
         /\ run'.at = "idle" /\ run'.todo = <<>>
<1>1. "idle" \in Stages[script]
  BY DEF PaidInv, PaidTypes, Stages
<1>2. <<>> \in Todos
  BY EmptySeq DEF Todos
<1> QED
  BY <1>1, <1>2, IdleTypes DEF Outcomes

\* How a call ended is written once it has ended, with its answer kept if
\* there was one.
LEMMA OutcomeWritten ==
  ASSUME PaidInv, Failed \/ V3Rejects \/ V3Drafted \/ Bought \/ WordsRecorded PROVE PaidInv'
<1>1. UNCHANGED <<script, paid, responses>>
  BY DEF Failed, V3Rejects, V3Drafted, Bought, WordsRecorded
<1>2. run.at \in {"kept", "drafted"} => Kept(run.call)
  BY DEF PaidInv, CallInHand
<1>3. CASE Failed \/ V3Rejects
  <2>1. /\ run' = Idle /\ run.at \in {"answered", "kept"}
        /\ \/ ledger' = Record(run.call, "api_error")
           \/ ledger' = Record(run.call, "failed")
           \/ run.at = "kept" /\ ledger' = Record(run.call, "rejected")
    BY <1>3 DEF Failed, V3Rejects
  <2>2. /\ run' \in [at : Stages[script], call : Calls, todo : Todos, made : Nat, answer : Outcomes]
        /\ run'.at \in {"idle", "next", "use"} /\ run'.todo = <<>>
    BY <2>1, IdleRun
  <2>3. CASE ledger' = Record(run.call, "api_error")
    BY <1>1, <2>1, <2>2, <2>3, CallRecorded
  <2>4. CASE ledger' = Record(run.call, "failed")
    BY <1>1, <2>1, <2>2, <2>4, CallRecorded
  <2>5. CASE run.at = "kept" /\ ledger' = Record(run.call, "rejected")
    BY <1>1, <1>2, <2>1, <2>2, <2>5, CallRecorded
  <2> QED
    BY <2>1, <2>3, <2>4, <2>5
<1>4. CASE V3Drafted
  <2>1. run' = [run EXCEPT !.at = "next"] /\ run.at = "drafted" /\ ledger' = Record(run.call, "draft_for_review")
    BY <1>4 DEF V3Drafted
  <2>2. "next" \in Stages[script]
    BY DEF PaidInv, PaidTypes, Stages
  <2> QED
    BY <1>1, <1>2, <2>1, <2>2, OnlyAt, CallRecorded
<1>5. CASE Bought
  <2>1. run' = [run EXCEPT !.at = "use"] /\ run.at = "kept" /\ ledger' = Record(run.call, "complete")
    BY <1>5 DEF Bought
  <2>2. "use" \in Stages[script]
    BY <1>5 DEF Bought, Stages
  <2> QED
    BY <1>1, <1>2, <2>1, <2>2, OnlyAt, CallRecorded
<1>6. CASE WordsRecorded
  <2>1. /\ run' = [run EXCEPT !.at = "use"] /\ run.at \in {"answered", "kept"}
        /\ \/ ledger' = Record(run.call, "error")
           \/ run.at = "kept" /\ ledger' = Record(run.call, "ok")
    BY <1>6 DEF WordsRecorded
  <2>2. "use" \in Stages[script]
    BY <1>6 DEF WordsRecorded, Stages
  <2>3. CASE ledger' = Record(run.call, "error")
    BY <1>1, <2>1, <2>2, <2>3, OnlyAt, CallRecorded
  <2>4. CASE run.at = "kept" /\ ledger' = Record(run.call, "ok")
    BY <1>1, <1>2, <2>1, <2>2, <2>4, OnlyAt, CallRecorded
  <2> QED
    BY <2>1, <2>3, <2>4
<1> QED
  BY <1>3, <1>4, <1>5, <1>6

\* A request is sent once for a call in the ledger.
LEMMA SendStep == ASSUME PaidInv, Send PROVE PaidInv'
<1>1. /\ run.at = "send" /\ UNCHANGED <<script, ledger, responses>>
      /\ paid' = [paid EXCEPT ![run.call] = @ + 1]
  BY DEF Send
<1>2. PICK answer \in Outcomes : run' = [run EXCEPT !.at = "answered", !.answer = answer]
  BY DEF Send, Outcomes
<1>3. run.call \in Calls /\ run.call \in DOMAIN ledger /\ paid[run.call] = 0 /\ paid \in [Calls -> Nat]
  BY <1>1 DEF PaidInv, PaidTypes, CallInHand
<1>4. /\ run' \in [at : Stages[script], call : Calls, todo : Todos, made : Nat, answer : Outcomes]
      /\ run'.at = "answered" /\ run'.call = run.call /\ run'.todo = run.todo
  <2>1. "answered" \in Stages[script]
    BY DEF PaidInv, PaidTypes, Stages
  <2> QED
    BY <1>2, <2>1 DEF PaidInv, PaidTypes
<1>5. paid' \in [Calls -> Nat] /\ \A c \in Calls : paid'[c] = IF c = run.call THEN 1 ELSE paid[c]
  BY <1>1, <1>3
<1>6. PaidTypes'
  BY <1>1, <1>4, <1>5 DEF PaidInv, PaidTypes, Todos
<1>7. CallInHand'
  BY <1>1, <1>3, <1>4 DEF CallInHand
<1>8. RoundsPaid'
  <2>1. \A s : CallsOf(s)' = CallsOf(s) /\ Used(s)' = Used(s)
    BY <1>1 DEF CallsOf, Used
  <2>2. \A c, i : Behind(c, i)' <=> Behind(c, i)
    BY <1>1, <1>4 DEF Behind
  <2>3. run.todo = run'.todo /\ script' = script
    BY <1>1, <1>4
  <2> QED
    BY <2>1, <2>2, <2>3 DEF PaidInv, RoundsPaid
<1>9. Numbered'
  BY <1>1 DEF PaidInv, Numbered
<1>10. PaidOnce'
  BY <1>1, <1>3, <1>5 DEF PaidInv, MoneyWellSpent, PaidOnce
<1>11. AnswersKept'
  BY <1>1 DEF PaidInv, MoneyWellSpent, AnswersKept, Kept
<1> QED
  BY <1>6, <1>7, <1>8, <1>9, <1>10, <1>11 DEF PaidInv, MoneyWellSpent

\* An answer is kept before anything is made of it.
LEMMA KeepAnswerStep == ASSUME PaidInv, KeepAnswer PROVE PaidInv'
<1>1. /\ run.at = "answered" /\ run.answer # "error" /\ UNCHANGED <<script, ledger, paid>>
      /\ responses' = responses \union {[call |-> run.call, answer |-> run.answer]}
      /\ run' = [run EXCEPT !.at = "kept"]
  BY DEF KeepAnswer
<1>2. "kept" \in Stages[script]
  BY DEF PaidInv, PaidTypes, Stages
<1>3. /\ run' \in [at : Stages[script], call : Calls, todo : Todos, made : Nat, answer : Outcomes]
      /\ run'.at = "kept" /\ run'.todo = run.todo /\ run'.call = run.call /\ run'.answer = run.answer
  BY <1>1, <1>2, OnlyAt
<1>4. run.call \in Calls /\ run.answer \in Outcomes /\ run.call \in DOMAIN ledger
  BY <1>1 DEF PaidInv, PaidTypes, CallInHand
<1>5. PaidTypes'
  <2>1. responses' \in SUBSET [call : Calls, answer : Outcomes]
    BY <1>1, <1>4 DEF PaidInv, PaidTypes
  <2> QED
    BY <1>1, <1>3, <2>1 DEF PaidInv, PaidTypes, Todos
<1>6. \A c : Kept(c) => Kept(c)'
  BY <1>1, <1>3 DEF Kept
<1>7. CallInHand'
  <2>1. run.call = run'.call
    BY <1>3
  <2>2. \E r \in responses' : r.call = run'.call
    BY <1>1, <2>1
  <2> QED
    BY <1>1, <1>3, <1>4, <2>2 DEF CallInHand, Kept
<1>8. RoundsPaid'
  <2>1. \A s : CallsOf(s)' = CallsOf(s) /\ Used(s)' = Used(s)
    BY <1>1 DEF CallsOf, Used
  <2>2. \A c, i : Behind(c, i)' <=> Behind(c, i)
    BY <1>1, <1>3 DEF Behind
  <2>3. run.todo = run'.todo /\ script' = script
    BY <1>1, <1>3
  <2> QED
    BY <2>1, <2>2, <2>3 DEF PaidInv, RoundsPaid
<1>9. Numbered' /\ PaidOnce'
  BY <1>1 DEF PaidInv, Numbered, MoneyWellSpent, PaidOnce
<1>10. AnswersKept'
  BY <1>1, <1>6 DEF PaidInv, MoneyWellSpent, AnswersKept
<1> QED
  BY <1>5, <1>7, <1>8, <1>9, <1>10 DEF PaidInv, MoneyWellSpent

\* The draft, the start of a run, the end of an episode.
LEMMA PaidMoves ==
  ASSUME PaidInv, V3Drafts \/ PairStart \/ WordsStart \/ WordsAppended \/ Raises \/ Killed PROVE PaidInv'
<1>1. UNCHANGED <<script, ledger, paid, responses>>
  BY DEF V3Drafts, PairStart, WordsStart, WordsAppended, Raises, Killed
<1>2. CASE Raises \/ Killed
  BY <1>1, <1>2, ProcessGone DEF Raises, Killed
<1>3. CASE PairStart \/ WordsStart
  <2>1. script # "v3"
    BY <1>3 DEF PairStart, WordsStart
  <2>2. PICK todo \in Remaining : run' = [Idle EXCEPT !.at = "next", !.todo = todo]
    BY <1>3 DEF PairStart, WordsStart
  <2> QED
    BY <1>1, <2>1, <2>2, PlanRead
<1>4. CASE V3Drafts
  <2>1. run' = [run EXCEPT !.at = "drafted"] /\ run.at = "kept" /\ "drafted" \in Stages[script]
    BY <1>4 DEF V3Drafts, Stages
  <2>2. /\ run' \in [at : Stages[script], call : Calls, todo : Todos, made : Nat, answer : Outcomes]
        /\ run'.at = "drafted" /\ run'.todo = run.todo /\ run'.call = run.call /\ run'.answer = run.answer
    BY <1>1, <2>1, OnlyAt
  <2> QED
    BY <1>1, <2>1, <2>2, NothingBought
<1>5. CASE WordsAppended
  <2>1. run' = [run EXCEPT !.at = "next"] /\ "next" \in Stages[script]
    BY <1>5 DEF WordsAppended, Stages
  <2>2. /\ run' \in [at : Stages[script], call : Calls, todo : Todos, made : Nat, answer : Outcomes]
        /\ run'.at = "next" /\ run'.todo = run.todo
    BY <1>1, <2>1, OnlyAt
  <2>3. run'.at \notin {"send", "answered", "kept", "drafted"}
    BY <2>2
  <2> QED
    BY <1>1, <2>2, <2>3, NothingBought
<1> QED
  BY <1>2, <1>3, <1>4, <1>5

\* Nothing is bought at first.
LEMMA PaidStarts == PaidInit => PaidInv
<1> SUFFICES ASSUME PaidInit PROVE PaidInv
  OBVIOUS
<1>1. /\ script \in {"v3", "v5", "v7", "words"} /\ DOMAIN ledger = {} /\ paid = [c \in Calls |-> 0]
      /\ responses = {} /\ run = Idle
  BY DEF PaidInit
<1>2. IsFiniteSet(DOMAIN ledger) /\ \A S : S \subseteq DOMAIN ledger => Cardinality(S) = 0
  <2>1. \A S : S \subseteq DOMAIN ledger => S = {}
    BY <1>1
  <2> QED
    BY <1>1, <2>1, FS_EmptySet
<1>3. PaidTypes
  <2>1. "idle" \in Stages[script] /\ <<>> \in Todos
    BY <1>1, EmptySeq DEF Stages, Todos
  <2> QED
    BY <1>1, <1>2, <2>1, IdleTypes DEF PaidTypes, Outcomes
<1>4. CallInHand
  BY <1>1, IdleTypes DEF CallInHand
<1>5. RoundsPaid
  <2>1. \A s : CallsOf(s) = {} /\ Used(s) = 0
    <3>1. \A s : CallsOf(s) \subseteq DOMAIN ledger /\ Used(s) = Cardinality(CallsOf(s))
      BY DEF CallsOf, Used
    <3> QED
      BY <1>1, <1>2, <3>1
  <2>2. \A s : {s} \X (1..0) = {}
    OBVIOUS
  <2>3. 1..Len(run.todo) = {}
    BY <1>1, IdleTypes
  <2> QED
    BY <2>1, <2>2, <2>3 DEF RoundsPaid
<1>6. Numbered /\ MoneyWellSpent
  BY <1>1 DEF Numbered, MoneyWellSpent, PaidOnce, AnswersKept
<1> QED
  BY <1>3, <1>4, <1>5, <1>6 DEF PaidInv

\* No step breaks it.
LEMMA PaidStep == ASSUME PaidInv, [PaidNext]_paidVars PROVE PaidInv'
<1>1. CASE UNCHANGED paidVars
  <2>1. UNCHANGED <<script, ledger, paid, responses>> /\ run' = run
    BY <1>1 DEF paidVars
  <2>2. PaidTypes' /\ CallInHand' /\ Numbered' /\ MoneyWellSpent'
    <3>1. PaidTypes'
      BY <2>1 DEF PaidInv, PaidTypes, Todos
    <3>2. CallInHand'
      BY <2>1 DEF PaidInv, CallInHand, Kept
    <3>3. Numbered' /\ MoneyWellSpent'
      BY <2>1 DEF PaidInv, Numbered, MoneyWellSpent, PaidOnce, AnswersKept, Kept
    <3> QED
      BY <3>1, <3>2, <3>3
  <2>3. RoundsPaid'
    <3>1. \A s : CallsOf(s)' = CallsOf(s) /\ Used(s)' = Used(s)
      BY <2>1 DEF CallsOf, Used
    <3>2. \A c, i : Behind(c, i)' <=> Behind(c, i)
      BY <2>1 DEF Behind
    <3> QED
      BY <2>1, <3>1, <3>2 DEF PaidInv, RoundsPaid
  <2> QED
    BY <2>2, <2>3 DEF PaidInv
<1>2. CASE PaidNext
  BY <1>2, V3StartStep, V3NextStep, PairMoves, BuyStep, WordsNextStep, OutcomeWritten, SendStep,
     KeepAnswerStep, PaidMoves DEF PaidNext
<1> QED
  BY <1>1, <1>2

(* What holds of the four scripts' ledgers and of the process that writes
   them, killed or not. *)
THEOREM PaidCorrect == PaidSpec => []PaidInv
  BY PaidStarts, PaidStep, PTL DEF PaidSpec

(* For any plan, quotas and limits, and however often a script is killed and
   run again: no call is paid for twice, none that is not in the ledger, and
   what the ledger says has an answer has it. *)
THEOREM MoneyIsWellSpent == PaidSpec => []MoneyWellSpent
<1>1. PaidInv => MoneyWellSpent
  BY DEF PaidInv
<1> QED
  BY <1>1, PaidCorrect, PTL


-----------------------------------------------------------------------------
(* ModelFiles: the invariant *)

FilesTypes ==
  /\ pin \in 1..MaxRevision
  /\ made \in 0..MaxExports
  /\ file \in [Files -> Int]
  /\ record \in [1..MaxExports -> [revision : 0..MaxRevision, files : SUBSET Files]]
  /\ DOMAIN job = {"kind", "at", "revision", "export", "todo"}
  /\ job.at \in {"none", "fetch", "delete", "write", "convert"}
  /\ job.at = "none" => job = NoJob

\* A fetch has put every file in its place, or has it yet to see.
FetchRight ==
  job.at = "fetch" =>
    /\ job.revision \in 1..pin /\ job.todo \in Seq(TorchFiles)
    /\ \A f \in TorchFiles : file[Torch(f)] = job.revision \/ f \in NamesIn(job.todo)

\* The newest export writes, in its own directory and over nothing of another.
ExportRight ==
  job.at \in {"delete", "write"} =>
    /\ job.kind \in {"onnx", "npu"} /\ job.revision \in 1..MaxRevision
    /\ job.export = made /\ made # 0
    /\ job.todo \in Seq({x \in Files : x[1] = job.kind /\ x # RecordOf(job.kind)})
    /\ job.kind = "onnx" =>
         \A x \in {Graph, Data} : x \in NamesIn(job.todo) \/ (job.at = "write" /\ file[x] = made)
    /\ job.at = "write" =>
         /\ \A x \in Files : x[1] = job.kind => file[x] \in {Absent, made}
         /\ file[RecordOf(job.kind)] = Absent

TorchPinned == \A f \in TorchFiles \ Generated : file[Torch(f)] \in 0..pin

\* What the record of onnx/ vouches for is there as its export wrote it, or gone.
OnnxRight ==
  LET n == file[RecordOf("onnx")]
  IN n \notin {Absent, Cut} =>
       /\ n \in 1..made
       /\ job.at \in {"delete", "write"} => n # made
       /\ {Graph, Data} \subseteq record[n].files
       /\ file[Graph] \in {Absent, n} /\ file[Data] \in {Absent, n}

\* The tables and graphs of npu/, compiled ones included, are of one export.
NpuFiles == {x \in Files : x[1] = "npu" /\ x # RecordOf("npu")}
OneExport ==
  \A x, y \in NpuFiles : {file[x], file[y]} \intersect {Absent, Cut} = {} => file[x] = file[y]

FilesInv ==
  FilesTypes /\ FetchRight /\ ExportRight /\ TorchPinned /\ OnnxRight /\ OneExport

-----------------------------------------------------------------------------
(* ModelFiles: lemmas *)

\* Which files there are, in which directory, and that their names differ.
LEMMA FilesThere ==
  /\ \A f : f \in TorchFiles <=> Torch(f) \in Files
  /\ \A f, g : Torch(f) = Torch(g) <=> f = g
  /\ \A b \in Buckets : Hidden(b) \in Files /\ Rknn(b) \in Files
  /\ \A b : Rknn(b) \in Files <=> b \in Buckets
  /\ {Graph, Data, Tables, RecordOf("onnx"), RecordOf("npu")} \subseteq Files
  /\ Absent = 0 /\ Cut = -1
  BY DEF Files, Torch, Graph, Data, Tables, Hidden, Rknn, RecordOf, Absent, Cut

\* The directory each is in.
LEMMA Directories ==
  /\ \A f : Torch(f)[1] = "torch"
  /\ \A b : Hidden(b)[1] = "npu" /\ Rknn(b)[1] = "npu"
  /\ Graph[1] = "onnx" /\ Data[1] = "onnx" /\ Tables[1] = "npu"
  /\ \A d : RecordOf(d)[1] = d
  BY DEF Torch, Graph, Data, Tables, Hidden, Rknn, RecordOf

\* No file of a model is its record.
LEMMA RecordsApart ==
  /\ \A b : Hidden(b) # RecordOf("npu") /\ Rknn(b) # RecordOf("npu")
  /\ Graph # RecordOf("onnx") /\ Data # RecordOf("onnx") /\ Tables # RecordOf("npu")
  /\ Graph # Data /\ RecordOf("onnx") # RecordOf("npu")
  BY DEF Graph, Data, Tables, Hidden, Rknn, RecordOf

\* What is in a sequence is its head or in its tail.
LEMMA HeadOrTail ==
  ASSUME NEW S, NEW s \in Seq(S), s # <<>>
  PROVE  /\ Head(s) \in S /\ Tail(s) \in Seq(S)
         /\ \A x : x \in NamesIn(s) <=> x = Head(s) \/ x \in NamesIn(Tail(s))
<1>1. Len(s) \in Nat \ {0} /\ Head(s) = s[1] /\ Head(s) \in S /\ Tail(s) \in Seq(S)
      /\ Len(Tail(s)) = Len(s) - 1 /\ \A i \in 1..(Len(s) - 1) : Tail(s)[i] = s[i + 1]
  BY HeadTailProperties, EmptySeq, LenProperties
<1>2. ASSUME NEW x, x \in NamesIn(s), x # Head(s) PROVE x \in NamesIn(Tail(s))
  <2>1. PICK i \in 1..Len(s) : s[i] = x
    BY <1>2 DEF NamesIn
  <2>2. i # 1 /\ i - 1 \in 1..(Len(s) - 1) /\ (i - 1) + 1 = i
    BY <1>1, <1>2, <2>1
  <2> QED
    BY <1>1, <2>1, <2>2 DEF NamesIn
<1>3. ASSUME NEW x, x \in NamesIn(Tail(s)) PROVE x \in NamesIn(s)
  <2>1. PICK i \in 1..(Len(s) - 1) : Tail(s)[i] = x
    BY <1>1, <1>3 DEF NamesIn
  <2>2. i + 1 \in 1..Len(s) /\ s[i + 1] = x
    BY <1>1, <2>1
  <2> QED
    BY <2>2 DEF NamesIn
<1>4. Head(s) \in NamesIn(s)
  BY <1>1 DEF NamesIn
<1> QED
  BY <1>1, <1>2, <1>3, <1>4

\* Nothing is in the empty one.
LEMMA NothingIn == NamesIn(<<>>) = {}
  BY DEF NamesIn

\* The invariant tells of the files whatever the command says: all is well
\* when a command starts or ends, or moves on without touching a file.
LEMMA IdleIsRight ==
  ASSUME FilesInv, job' = NoJob, UNCHANGED <<pin, file, made, record>>
  PROVE  FilesInv'
<1>1. job'.at = "none" /\ DOMAIN job' = {"kind", "at", "revision", "export", "todo"}
  BY DEF NoJob
<1>2. FilesTypes'
  BY <1>1 DEF FilesInv, FilesTypes
<1>3. FetchRight' /\ ExportRight'
  BY <1>1 DEF FetchRight, ExportRight
<1>4. TorchPinned' /\ OneExport'
  BY DEF FilesInv, TorchPinned, OneExport
<1>5. OnnxRight'
  BY <1>1 DEF FilesInv, OnnxRight
<1> QED
  BY <1>2, <1>3, <1>4, <1>5 DEF FilesInv

\* A command that goes to its next file is otherwise where it was.
LEMMA NextFile ==
  ASSUME FilesTypes, NEW t, job' = [job EXCEPT !.todo = t]
  PROVE  /\ DOMAIN job' = {"kind", "at", "revision", "export", "todo"}
         /\ job'.todo = t /\ job'.at = job.at /\ job'.kind = job.kind
         /\ job'.revision = job.revision /\ job'.export = job.export
  BY DEF FilesTypes

\* A file put in its place keeps the files what they are.
LEMMA FilePut ==
  ASSUME FilesTypes, NEW x, NEW v \in Int, file' = [file EXCEPT ![x] = v]
  PROVE  /\ file' \in [Files -> Int]
         /\ x \in Files => file'[x] = v
         /\ \A y \in Files : y # x => file'[y] = file[y]
  BY DEF FilesTypes

\* The manifest may move on at any moment.
LEMMA RepinStep == ASSUME FilesInv, Repin PROVE FilesInv'
<1>1. pin' = pin + 1 /\ pin < MaxRevision /\ pin \in 1..MaxRevision
      /\ UNCHANGED <<file, made, record, job>>
  BY DEF Repin, FilesInv, FilesTypes
<1>2. FilesTypes'
  BY <1>1, FilesAssumption DEF FilesInv, FilesTypes
<1>3. FetchRight'
  BY <1>1, FilesAssumption DEF FilesInv, FetchRight
<1>4. TorchPinned'
  <2> SUFFICES ASSUME NEW f \in TorchFiles \ Generated PROVE file[Torch(f)] \in 0..(pin + 1)
    BY <1>1 DEF TorchPinned
  <2>1. file[Torch(f)] \in 0..pin
    BY DEF FilesInv, TorchPinned
  <2> QED
    BY <1>1, <2>1, FilesAssumption
<1>5. ExportRight' /\ OnnxRight' /\ OneExport'
  BY <1>1 DEF FilesInv, ExportRight, OnnxRight, OneExport
<1> QED
  BY <1>2, <1>3, <1>4, <1>5 DEF FilesInv

\* A sequence over some of a set is one over it.
LEMMA Widened == ASSUME NEW S, NEW T, S \subseteq T, NEW s \in Seq(S) PROVE s \in Seq(T)
<1>1. Len(s) \in Nat /\ s \in [1..Len(s) -> S]
  BY LenProperties
<1>2. s \in [1..Len(s) -> T]
  BY <1>1
<1> QED
  BY <1>1, <1>2, SeqDef

\* The order of a set names all of it.
LEMMA Ordered ==
  ASSUME NEW S, IsFiniteSet(S), NEW s \in InOrder(S)
  PROVE  s \in Seq(S) /\ NamesIn(s) = S
<1>1. Cardinality(S) \in Nat
  BY FS_CardinalityType
<1>2. s \in [1..Cardinality(S) -> S] /\ NamesIn(s) = S
  BY DEF InOrder
<1> QED
  BY <1>1, <1>2, SeqDef

\* Two sequences name what each names.
LEMMA NamesOfBoth ==
  ASSUME NEW S, NEW s \in Seq(S), NEW t \in Seq(S)
  PROVE  s \o t \in Seq(S) /\ NamesIn(s \o t) = NamesIn(s) \union NamesIn(t)
<1>1. s \o t \in Seq(S) /\ Len(s \o t) = Len(s) + Len(t) /\ Len(s) \in Nat /\ Len(t) \in Nat
      /\ \A i \in 1..(Len(s) + Len(t)) : (s \o t)[i] = IF i <= Len(s) THEN s[i] ELSE t[i - Len(s)]
  BY ConcatProperties, LenProperties
<1>2. ASSUME NEW x, x \in NamesIn(s) PROVE x \in NamesIn(s \o t)
  <2>1. PICK i \in 1..Len(s) : s[i] = x
    BY <1>2 DEF NamesIn
  <2>2. i \in 1..(Len(s) + Len(t)) /\ (s \o t)[i] = x
    BY <1>1, <2>1
  <2> QED
    BY <1>1, <2>2 DEF NamesIn
<1>3. ASSUME NEW x, x \in NamesIn(t) PROVE x \in NamesIn(s \o t)
  <2>1. PICK i \in 1..Len(t) : t[i] = x
    BY <1>3 DEF NamesIn
  <2>2. Len(s) + i \in 1..(Len(s) + Len(t)) /\ ~(Len(s) + i <= Len(s)) /\ (Len(s) + i) - Len(s) = i
    BY <1>1, <2>1
  <2>3. (s \o t)[Len(s) + i] = x
    BY <1>1, <2>1, <2>2
  <2> QED
    BY <1>1, <2>2, <2>3 DEF NamesIn
<1>4. ASSUME NEW x, x \in NamesIn(s \o t) PROVE x \in NamesIn(s) \union NamesIn(t)
  <2>1. PICK i \in 1..(Len(s) + Len(t)) : (s \o t)[i] = x
    BY <1>1, <1>4 DEF NamesIn
  <2>2. CASE i <= Len(s)
    <3>1. i \in 1..Len(s) /\ s[i] = x
      BY <1>1, <2>1, <2>2
    <3> QED
      BY <3>1 DEF NamesIn
  <2>3. CASE ~(i <= Len(s))
    <3>1. i - Len(s) \in 1..Len(t)
      BY <1>1, <2>1, <2>3
    <3>2. t[i - Len(s)] = x
      BY <1>1, <2>1, <2>3
    <3> QED
      BY <3>1, <3>2 DEF NamesIn
  <2> QED
    BY <2>2, <2>3
<1> QED
  BY <1>1, <1>2, <1>3, <1>4

\* A fetch sees every file of the manifest.
LEMMA FetchStartStep == ASSUME FilesInv, FetchStart PROVE FilesInv'
<1>1. PICK g \in InOrder(Generated), o \in InOrder(TorchFiles \ Generated) :
        job' = [NoJob EXCEPT !.kind = "fetch", !.at = "fetch", !.revision = pin, !.todo = g \o o]
  BY DEF FetchStart
<1>2. UNCHANGED <<pin, file, made, record>> /\ pin \in 1..MaxRevision
  BY DEF FetchStart, FilesInv, FilesTypes
<1>3. DOMAIN job' = {"kind", "at", "revision", "export", "todo"}
      /\ job'.at = "fetch" /\ job'.revision = pin /\ job'.todo = g \o o
  BY <1>1 DEF NoJob
<1>4. g \o o \in Seq(TorchFiles) /\ NamesIn(g \o o) = TorchFiles
  <2>1. Generated \subseteq TorchFiles /\ IsFiniteSet(Generated) /\ IsFiniteSet(TorchFiles \ Generated)
    BY FilesAssumption, FS_Subset
  <2>2. g \in Seq(Generated) /\ NamesIn(g) = Generated
        /\ o \in Seq(TorchFiles \ Generated) /\ NamesIn(o) = TorchFiles \ Generated
    BY <2>1, Ordered
  <2>3. g \in Seq(TorchFiles)
    BY <2>1, <2>2, Widened
  <2>4. o \in Seq(TorchFiles)
    <3>1. TorchFiles \ Generated \subseteq TorchFiles
      OBVIOUS
    <3> QED
      BY <2>2, <3>1, Widened
  <2>5. g \o o \in Seq(TorchFiles) /\ NamesIn(g \o o) = NamesIn(g) \union NamesIn(o)
    BY <2>3, <2>4, NamesOfBoth
  <2> QED
    BY <2>1, <2>2, <2>5
<1>5. FilesTypes'
  BY <1>2, <1>3 DEF FilesInv, FilesTypes
<1>6. FetchRight'
  BY <1>2, <1>3, <1>4 DEF FetchRight
<1>7. ExportRight' /\ OnnxRight'
  BY <1>2, <1>3 DEF FilesInv, ExportRight, OnnxRight
<1>8. TorchPinned' /\ OneExport'
  BY <1>2 DEF FilesInv, TorchPinned, OneExport
<1> QED
  BY <1>5, <1>6, <1>7, <1>8 DEF FilesInv

\* A step of the fetch that leaves its head at the revision asked for.
LEMMA Fetched ==
  ASSUME FilesInv, job.at = "fetch", job.todo # <<>>, UNCHANGED <<pin, made, record>>,
         job' = [job EXCEPT !.todo = Tail(@)],
         file' = [file EXCEPT ![Torch(Head(job.todo))] = job.revision]
  PROVE  FilesInv'
<1> DEFINE h == Head(job.todo)
<1>1. job.revision \in 1..pin /\ pin \in 1..MaxRevision /\ job.todo \in Seq(TorchFiles) /\ FilesTypes
      /\ \A f \in TorchFiles : file[Torch(f)] = job.revision \/ f \in NamesIn(job.todo)
  BY DEF FilesInv, FetchRight, FilesTypes
<1>2. h \in TorchFiles /\ Tail(job.todo) \in Seq(TorchFiles)
      /\ \A f : f \in NamesIn(job.todo) <=> f = h \/ f \in NamesIn(Tail(job.todo))
  BY <1>1, HeadOrTail
<1>3. DOMAIN job' = {"kind", "at", "revision", "export", "todo"}
      /\ job'.at = "fetch" /\ job'.revision = job.revision /\ job'.todo = Tail(job.todo)
  <2>1. job' = [job EXCEPT !.todo = Tail(job.todo)]
    OBVIOUS
  <2> QED
    BY <1>1, <2>1, NextFile
<1>4. job.revision \in Int /\ Torch(h) \in Files
  BY <1>1, <1>2, FilesThere, FilesAssumption
<1>5. file' \in [Files -> Int] /\ file'[Torch(h)] = job.revision
      /\ \A y \in Files : y # Torch(h) => file'[y] = file[y]
  BY <1>1, <1>4, FilePut
<1>6. \A f \in TorchFiles : file'[Torch(f)] = IF f = h THEN job.revision ELSE file[Torch(f)]
  BY <1>5, FilesThere
<1>7. \A y \in Files : y[1] # "torch" => file'[y] = file[y]
  BY <1>5, Directories
<1>8. FilesTypes'
  BY <1>3, <1>5 DEF FilesInv, FilesTypes
<1>9. FetchRight'
  BY <1>1, <1>2, <1>3, <1>6 DEF FetchRight
<1>10. ExportRight'
  BY <1>3 DEF ExportRight
<1>11. TorchPinned'
  <2> SUFFICES ASSUME NEW f \in TorchFiles \ Generated PROVE file'[Torch(f)] \in 0..pin
    BY DEF TorchPinned
  <2>1. file[Torch(f)] \in 0..pin /\ job.revision \in 0..pin
    BY <1>1, FilesAssumption DEF FilesInv, TorchPinned
  <2> QED
    BY <1>6, <2>1
<1>12. OnnxRight'
  <2>1. file'[Graph] = file[Graph] /\ file'[Data] = file[Data] /\ file'[RecordOf("onnx")] = file[RecordOf("onnx")]
    BY <1>7, FilesThere, Directories
  <2> QED
    BY <1>3, <2>1 DEF FilesInv, OnnxRight
<1>13. OneExport'
  BY <1>7 DEF FilesInv, OneExport, NpuFiles
<1> QED
  BY <1>8, <1>9, <1>10, <1>11, <1>12, <1>13 DEF FilesInv

\* A generated file is written, there or not.
LEMMA GenerateFileStep == ASSUME FilesInv, GenerateFile PROVE FilesInv'
  BY Fetched DEF GenerateFile

\* What comes is put into its place if it is what was asked for, and no other
\* way; what is there already is as good as put there again.
LEMMA FetchStep == ASSUME FilesInv, Fetch PROVE FilesInv'
<1>1. PICK got \in {job.revision, Cut} :
        LET x == Torch(Head(job.todo))
        IN IF file[x] = job.revision THEN job' = [job EXCEPT !.todo = Tail(@)] /\ UNCHANGED file
           ELSE IF got # job.revision THEN job' = NoJob /\ UNCHANGED file
           ELSE job' = [job EXCEPT !.todo = Tail(@)] /\ file' = [file EXCEPT ![x] = got]
  BY DEF Fetch
<1>2. job.at = "fetch" /\ job.todo # <<>> /\ UNCHANGED <<pin, made, record>>
  BY DEF Fetch
<1>3. CASE file[Torch(Head(job.todo))] = job.revision
  <2>1. job' = [job EXCEPT !.todo = Tail(@)] /\ file' = file
    BY <1>1, <1>3
  <2>2. file' = [file EXCEPT ![Torch(Head(job.todo))] = job.revision]
    BY <1>3, <2>1 DEF FilesInv, FilesTypes
  <2> QED
    BY <1>2, <2>1, <2>2, Fetched
<1>4. CASE file[Torch(Head(job.todo))] # job.revision /\ got # job.revision
  BY <1>1, <1>2, <1>4, IdleIsRight
<1>5. CASE file[Torch(Head(job.todo))] # job.revision /\ got = job.revision
  BY <1>1, <1>2, <1>5, Fetched
<1> QED
  BY <1>3, <1>4, <1>5

\* The files an export writes lie in its directory, and are not its record.
Written(d) == {x \in Files : x[1] = d /\ x # RecordOf(d)}

\* An export sets out for its whole directory.
LEMMA ExportStartStep ==
  ASSUME FilesInv, NEW d \in {"onnx", "npu"}, NEW force \in BOOLEAN, ExportStart(d, force)
  PROVE  FilesInv'
<1>1. PICK buckets \in BucketSets :
        job' = [kind |-> d, at |-> "delete", revision |-> pin, export |-> made + 1,
                todo |-> IF d = "onnx" THEN <<Data, Graph, Graph>>
                         ELSE <<Tables>> \o [i \in 1..Len(buckets) |-> Hidden(buckets[i])]]
  BY DEF ExportStart
<1>2. UNCHANGED <<pin, file, record>> /\ made' = made + 1 /\ made < MaxExports /\ job.at = "none"
      /\ pin \in 1..MaxRevision /\ made \in 0..MaxExports
  BY DEF ExportStart, FilesInv, FilesTypes, NoJob
<1>3. DOMAIN job' = {"kind", "at", "revision", "export", "todo"}
      /\ job'.kind = d /\ job'.at = "delete" /\ job'.revision = pin /\ job'.export = made + 1
  BY <1>1
<1>4. job'.todo \in Seq(Written(d)) /\ (d = "onnx" => Graph \in NamesIn(job'.todo) /\ Data \in NamesIn(job'.todo))
  <2>1. CASE d = "onnx"
    <3>1. job'.todo = <<Data, Graph, Graph>>
      BY <1>1, <2>1
    <3>2. Data \in Written(d) /\ Graph \in Written(d)
      BY <2>1, FilesThere, Directories, RecordsApart DEF Written
    <3>3. <<Data, Graph, Graph>> \in Seq(Written(d))
      BY <3>2
    <3>4. Data \in NamesIn(<<Data, Graph, Graph>>) /\ Graph \in NamesIn(<<Data, Graph, Graph>>)
      <4>1. Len(<<Data, Graph, Graph>>) = 3 /\ 1 \in 1..3 /\ 2 \in 1..3
            /\ <<Data, Graph, Graph>>[1] = Data /\ <<Data, Graph, Graph>>[2] = Graph
        OBVIOUS
      <4> QED
        BY <4>1 DEF NamesIn
    <3> QED
      BY <3>1, <3>3, <3>4
  <2>2. CASE d = "npu"
    <3> DEFINE h == [i \in 1..Len(buckets) |-> Hidden(buckets[i])]
    <3>1. job'.todo = <<Tables>> \o h
      BY <1>1, <2>2
    <3>2. buckets \in Seq(STRING) /\ Len(buckets) \in Nat
      BY FilesAssumption, LenProperties
    <3>3. \A i \in 1..Len(buckets) : buckets[i] \in Buckets
      BY DEF Buckets, NamesIn
    <3>4. \A i \in 1..Len(buckets) : Hidden(buckets[i]) \in Written(d)
      BY <2>2, <3>3, FilesThere, Directories, RecordsApart DEF Written
    <3>5. h \in [1..Len(buckets) -> Written(d)]
      BY <3>4
    <3>6. h \in Seq(Written(d))
      BY <3>2, <3>5, SeqDef
    <3>7. <<Tables>> \in Seq(Written(d))
      <4>1. Tables \in Written(d)
        BY <2>2, FilesThere, Directories, RecordsApart DEF Written
      <4> QED
        BY <4>1
    <3>8. <<Tables>> \o h \in Seq(Written(d))
      BY <3>6, <3>7, ConcatProperties
    <3> QED
      BY <2>2, <3>1, <3>8
  <2> QED
    BY <2>1, <2>2
<1>5. FilesTypes'
  BY <1>2, <1>3, FilesAssumption DEF FilesInv, FilesTypes
<1>6. FetchRight'
  BY <1>3 DEF FetchRight
<1>7. ExportRight'
  <2>1. made + 1 # 0
    BY <1>2, FilesAssumption
  <2> QED
    BY <1>2, <1>3, <1>4, <2>1 DEF ExportRight, Written
<1>8. OnnxRight'
  <2> SUFFICES ASSUME file[RecordOf("onnx")] \notin {Absent, Cut}
               PROVE  /\ file[RecordOf("onnx")] \in 1..(made + 1) /\ file[RecordOf("onnx")] # made + 1
                      /\ {Graph, Data} \subseteq record[file[RecordOf("onnx")]].files
                      /\ file[Graph] \in {Absent, file[RecordOf("onnx")]}
                      /\ file[Data] \in {Absent, file[RecordOf("onnx")]}
    BY <1>2, <1>3 DEF OnnxRight
  <2>1. file[RecordOf("onnx")] \in 1..made /\ {Graph, Data} \subseteq record[file[RecordOf("onnx")]].files
        /\ file[Graph] \in {Absent, file[RecordOf("onnx")]} /\ file[Data] \in {Absent, file[RecordOf("onnx")]}
    BY DEF FilesInv, OnnxRight
  <2> QED
    BY <1>2, <2>1, FilesAssumption
<1>9. TorchPinned' /\ OneExport'
  BY <1>2 DEF FilesInv, TorchPinned, OneExport
<1> QED
  BY <1>5, <1>6, <1>7, <1>8, <1>9 DEF FilesInv

\* What an export's step may rely on.
LEMMA Exporting ==
  ASSUME FilesInv, job.at \in {"delete", "write"}
  PROVE  /\ job.kind \in {"onnx", "npu"} /\ job.export = made /\ made \in 1..MaxExports
         /\ job.todo \in Seq(Written(job.kind)) /\ RecordOf(job.kind) \in Files
         /\ record \in [1..MaxExports -> [revision : 0..MaxRevision, files : SUBSET Files]]
<1>1. made \in 0..MaxExports /\ made # 0 /\ job.kind \in {"onnx", "npu"} /\ job.export = made
      /\ job.todo \in Seq(Written(job.kind))
      /\ record \in [1..MaxExports -> [revision : 0..MaxRevision, files : SUBSET Files]]
  BY DEF FilesInv, FilesTypes, ExportRight, Written
<1> QED
  BY <1>1, FilesThere, FilesAssumption

\* The directory is emptied, in any order, the record with the rest.
LEMMA ExportDeleteStep == ASSUME FilesInv, ExportDelete PROVE FilesInv'
<1>1. job.at = "delete" /\ UNCHANGED <<pin, made, record>> /\ FilesTypes
  BY DEF ExportDelete, FilesInv
<1>2. ASSUME NEW x \in Stale(job.kind), file' = [file EXCEPT ![x] = Absent], UNCHANGED job
      PROVE  FilesInv'
  <2>1. x \in Files /\ x[1] = job.kind /\ job.kind \in {"onnx", "npu"}
    BY <1>1, <1>2, Exporting DEF Stale, Present
  <2>2. file' \in [Files -> Int] /\ file'[x] = Absent /\ \A y \in Files : y # x => file'[y] = file[y]
    <3>1. Absent \in Int
      BY DEF Absent
    <3> QED
      BY <1>1, <1>2, <2>1, <3>1, FilePut
  <2>3. FilesTypes'
    BY <1>1, <1>2, <2>2 DEF FilesTypes
  <2>4. FetchRight' /\ ExportRight'
    BY <1>1, <1>2 DEF FilesInv, FetchRight, ExportRight
  <2>5. TorchPinned'
    BY <1>1, <2>1, <2>2, FilesThere, Directories DEF FilesInv, TorchPinned
  <2>6. OnnxRight'
    <3> SUFFICES ASSUME file'[RecordOf("onnx")] \notin {Absent, Cut}
                 PROVE  LET n == file'[RecordOf("onnx")]
                        IN /\ n \in 1..made /\ n # made /\ {Graph, Data} \subseteq record[n].files
                           /\ file'[Graph] \in {Absent, n} /\ file'[Data] \in {Absent, n}
      BY <1>1 DEF OnnxRight
    <3>1. file'[RecordOf("onnx")] = file[RecordOf("onnx")]
      BY <2>2, FilesThere
    <3>2. LET n == file[RecordOf("onnx")]
          IN /\ n \in 1..made /\ n # made /\ {Graph, Data} \subseteq record[n].files
             /\ file[Graph] \in {Absent, n} /\ file[Data] \in {Absent, n}
      BY <1>1, <3>1 DEF FilesInv, OnnxRight
    <3>3. file'[Graph] \in {Absent, file[Graph]} /\ file'[Data] \in {Absent, file[Data]}
      BY <2>2, FilesThere
    <3> QED
      BY <3>1, <3>2, <3>3
  <2>7. OneExport'
    <3>1. \A y \in Files : file'[y] = Absent \/ file'[y] = file[y]
      BY <2>2
    <3>2. \A y, z \in NpuFiles : {file[y], file[z]} \intersect {Absent, Cut} = {} => file[y] = file[z]
      BY DEF FilesInv, OneExport
    <3> SUFFICES ASSUME NEW y \in NpuFiles, NEW z \in NpuFiles,
                        {file'[y], file'[z]} \intersect {Absent, Cut} = {}
                 PROVE  file'[y] = file'[z]
      BY DEF OneExport, NpuFiles
    <3>3. file'[y] = file[y] /\ file'[z] = file[z]
      BY <3>1 DEF NpuFiles
    <3> QED
      BY <3>2, <3>3
  <2> QED
    BY <2>3, <2>4, <2>5, <2>6, <2>7 DEF FilesInv
<1>3. ASSUME Stale(job.kind) = {}, job' = [job EXCEPT !.at = "write"], UNCHANGED file
      PROVE  FilesInv'
  <2>1. DOMAIN job' = {"kind", "at", "revision", "export", "todo"} /\ job'.at = "write"
        /\ job'.kind = job.kind /\ job'.revision = job.revision /\ job'.export = job.export
        /\ job'.todo = job.todo
    BY <1>1, <1>3 DEF FilesTypes
  <2>2. \A x \in Files : x[1] = job.kind => file[x] = Absent
    BY <1>3 DEF Stale, Present
  <2>3. FilesTypes' /\ FetchRight'
    BY <1>1, <1>3, <2>1 DEF FilesTypes, FetchRight
  <2>4. ExportRight'
    <3>1. file[RecordOf(job.kind)] = Absent
      BY <1>1, <2>2, Exporting, Directories
    <3> QED
      BY <1>1, <1>3, <2>1, <2>2, <3>1 DEF FilesInv, ExportRight
  <2>5. TorchPinned' /\ OneExport'
    BY <1>1, <1>3 DEF FilesInv, TorchPinned, OneExport
  <2>6. OnnxRight'
    BY <1>1, <1>3, <2>1 DEF FilesInv, OnnxRight
  <2> QED
    BY <2>3, <2>4, <2>5, <2>6 DEF FilesInv
<1> QED
  BY <1>2, <1>3 DEF ExportDelete

\* The next file of the export, in its directory.
LEMMA ExportWriteStep == ASSUME FilesInv, ExportWrite PROVE FilesInv'
<1> DEFINE x == Head(job.todo)
<1>1. job.at = "write" /\ job.todo # <<>> /\ UNCHANGED <<pin, made, record>> /\ FilesTypes
      /\ file' = [file EXCEPT ![x] = job.export]
  BY DEF ExportWrite, FilesInv
<1>2. job' = [job EXCEPT !.todo = Tail(job.todo)]
  BY DEF ExportWrite
<1>3. DOMAIN job' = {"kind", "at", "revision", "export", "todo"} /\ job'.at = "write"
      /\ job'.kind = job.kind /\ job'.revision = job.revision /\ job'.export = job.export
      /\ job'.todo = Tail(job.todo)
  BY <1>1, <1>2, NextFile
<1>4. job.kind \in {"onnx", "npu"} /\ job.export = made /\ made \in 1..MaxExports
      /\ job.todo \in Seq(Written(job.kind))
  BY <1>1, Exporting
<1>5. x \in Written(job.kind) /\ Tail(job.todo) \in Seq(Written(job.kind))
      /\ \A y : y \in NamesIn(job.todo) <=> y = x \/ y \in NamesIn(Tail(job.todo))
  BY <1>1, <1>4, HeadOrTail
<1>6. x \in Files /\ x[1] = job.kind /\ x # RecordOf(job.kind) /\ made \in Int /\ made # Absent
  BY <1>4, <1>5, FilesAssumption DEF Written, Absent
<1>7. file' \in [Files -> Int] /\ file'[x] = made /\ \A y \in Files : y # x => file'[y] = file[y]
  BY <1>1, <1>4, <1>6, FilePut
<1>8. \A y \in Files : y[1] = job.kind => file[y] \in {Absent, made}
  BY <1>1 DEF FilesInv, ExportRight
<1>9. FilesTypes' /\ FetchRight'
  BY <1>1, <1>3, <1>7 DEF FilesTypes, FetchRight
<1>10. ExportRight'
  <2>1. \A y \in Files : y[1] = job.kind => file'[y] \in {Absent, made}
    BY <1>7, <1>8
  <2>2. file'[RecordOf(job.kind)] = Absent
    BY <1>1, <1>4, <1>6, <1>7, FilesThere DEF FilesInv, ExportRight
  <2>3. ASSUME job.kind = "onnx", NEW y \in {Graph, Data}
        PROVE  y \in NamesIn(Tail(job.todo)) \/ file'[y] = made
    <3>1. y \in NamesIn(job.todo) \/ file[y] = made
      BY <1>1, <2>3 DEF FilesInv, ExportRight
    <3>2. y \in Files
      BY FilesThere
    <3> QED
      BY <1>5, <1>7, <3>1, <3>2
  <2>4. job.revision \in 1..MaxRevision /\ made # 0 /\ job.export = made
    BY <1>1 DEF FilesInv, ExportRight
  <2> QED
    BY <1>1, <1>3, <1>4, <1>5, <2>1, <2>2, <2>3, <2>4 DEF ExportRight, Written
<1>11. TorchPinned'
  BY <1>1, <1>4, <1>6, <1>7, FilesThere, Directories DEF FilesInv, TorchPinned
<1>12. OnnxRight'
  <2>1. CASE job.kind = "onnx"
    <3>1. file'[RecordOf("onnx")] = Absent
      BY <1>1, <1>6, <1>7, <2>1, FilesThere DEF FilesInv, ExportRight
    <3> QED
      BY <3>1 DEF OnnxRight
  <2>2. CASE job.kind = "npu"
    <3>1. file'[RecordOf("onnx")] = file[RecordOf("onnx")] /\ file'[Graph] = file[Graph]
          /\ file'[Data] = file[Data]
      BY <1>6, <1>7, <2>2, FilesThere, Directories
    <3> QED
      BY <1>1, <1>3, <3>1 DEF FilesInv, OnnxRight
  <2> QED
    BY <1>4, <2>1, <2>2
<1>13. OneExport'
  <2>1. CASE job.kind = "onnx"
    <3>1. \A y \in NpuFiles : file'[y] = file[y]
      BY <1>6, <1>7, <2>1 DEF NpuFiles
    <3> QED
      BY <3>1 DEF FilesInv, OneExport, NpuFiles
  <2>2. CASE job.kind = "npu"
    <3>1. \A y \in NpuFiles : file'[y] \in {Absent, made}
      BY <1>7, <1>8, <2>2 DEF NpuFiles
    <3> QED
      BY <3>1 DEF OneExport, NpuFiles
  <2> QED
    BY <1>4, <2>1, <2>2
<1> QED
  BY <1>9, <1>10, <1>11, <1>12, <1>13 DEF FilesInv

\* The record vouches for what its own export wrote.
LEMMA ExportRecordStep == ASSUME FilesInv, ExportRecord PROVE FilesInv'
<1> DEFINE x == RecordOf(job.kind)
<1> DEFINE said == [revision |-> job.revision, files |-> Present(job.kind) \ {x}]
<1>1. job.at = "write" /\ job.todo = <<>> /\ UNCHANGED <<pin, made>> /\ FilesTypes /\ job' = NoJob
      /\ record' = [record EXCEPT ![job.export] = said] /\ file' = [file EXCEPT ![x] = job.export]
  BY DEF ExportRecord, FilesInv
<1>2. job'.at = "none" /\ DOMAIN job' = {"kind", "at", "revision", "export", "todo"}
  BY <1>1 DEF NoJob
<1>3. job.kind \in {"onnx", "npu"} /\ job.export = made /\ made \in 1..MaxExports /\ x \in Files
      /\ record \in [1..MaxExports -> [revision : 0..MaxRevision, files : SUBSET Files]]
  BY <1>1, Exporting
<1>4. made \in Int /\ made \in 1..made /\ x[1] = job.kind
  BY <1>3, FilesAssumption, Directories
<1>5. file' \in [Files -> Int] /\ file'[x] = made /\ \A y \in Files : y # x => file'[y] = file[y]
  BY <1>1, <1>3, <1>4, FilePut
<1>6. said \in [revision : 0..MaxRevision, files : SUBSET Files]
  <2>1. job.revision \in 1..MaxRevision
    BY <1>1 DEF FilesInv, ExportRight
  <2>2. job.revision \in 0..MaxRevision
    BY <2>1, FilesAssumption
  <2>3. Present(job.kind) \ {x} \in SUBSET Files
    BY DEF Present
  <2> QED
    BY <2>2, <2>3
<1>7. record' \in [1..MaxExports -> [revision : 0..MaxRevision, files : SUBSET Files]]
      /\ record'[made] = said /\ \A n \in 1..MaxExports : n # made => record'[n] = record[n]
  BY <1>1, <1>3, <1>6
<1>8. FilesTypes'
  BY <1>1, <1>2, <1>5, <1>7 DEF FilesTypes, NoJob
<1>9. FetchRight' /\ ExportRight'
  BY <1>2 DEF FetchRight, ExportRight
<1>10. TorchPinned'
  BY <1>1, <1>3, <1>4, <1>5, FilesThere, Directories DEF FilesInv, TorchPinned
<1>11. OnnxRight'
  <2>1. CASE job.kind = "onnx"
    <3>1. \A y \in {Graph, Data} : y \in Files /\ y[1] = "onnx" /\ y # x /\ file[y] = made
      BY <1>1, <2>1, FilesThere, Directories, RecordsApart, NothingIn DEF FilesInv, ExportRight
    <3>2. made # Absent
      BY <1>3 DEF Absent
    <3>3. {Graph, Data} \subseteq said.files
      BY <2>1, <3>1, <3>2 DEF Present
    <3>4. file'[Graph] = made /\ file'[Data] = made
      BY <1>5, <3>1
    <3>5. {Graph, Data} \subseteq record'[made].files
      BY <1>7, <3>3
    <3> QED
      BY <1>1, <1>2, <1>4, <1>5, <2>1, <3>4, <3>5 DEF OnnxRight
  <2>2. CASE job.kind = "npu"
    <3>1. file'[RecordOf("onnx")] = file[RecordOf("onnx")] /\ file'[Graph] = file[Graph]
          /\ file'[Data] = file[Data]
      BY <1>4, <1>5, <2>2, FilesThere, Directories
    <3> SUFFICES ASSUME file[RecordOf("onnx")] \notin {Absent, Cut}
                 PROVE  LET n == file[RecordOf("onnx")]
                        IN /\ n \in 1..made /\ {Graph, Data} \subseteq record'[n].files
                           /\ file[Graph] \in {Absent, n} /\ file[Data] \in {Absent, n}
      BY <1>1, <1>2, <3>1 DEF OnnxRight
    <3>2. LET n == file[RecordOf("onnx")]
          IN /\ n \in 1..made /\ n # made /\ {Graph, Data} \subseteq record[n].files
             /\ file[Graph] \in {Absent, n} /\ file[Data] \in {Absent, n}
      BY <1>1 DEF FilesInv, OnnxRight
    <3>3. file[RecordOf("onnx")] \in 1..MaxExports
      BY <1>3, <3>2, FilesAssumption
    <3> QED
      BY <1>7, <3>2, <3>3
  <2> QED
    BY <1>3, <2>1, <2>2
<1>12. OneExport'
  <2>1. \A y \in NpuFiles : file'[y] = file[y]
    BY <1>3, <1>4, <1>5 DEF NpuFiles
  <2> QED
    BY <2>1 DEF FilesInv, OneExport, NpuFiles
<1> QED
  BY <1>8, <1>9, <1>10, <1>11, <1>12 DEF FilesInv

\* The board sets out for the graphs it finds.
LEMMA ConvertStartStep ==
  ASSUME FilesInv, NEW force \in BOOLEAN, ConvertStart(force) PROVE FilesInv'
<1>1. UNCHANGED <<pin, file, made, record>>
      /\ \E t : job' = [NoJob EXCEPT !.kind = "convert", !.at = "convert", !.todo = t]
  BY DEF ConvertStart
<1>2. DOMAIN job' = {"kind", "at", "revision", "export", "todo"} /\ job'.at = "convert"
  BY <1>1 DEF NoJob
<1>3. FilesTypes'
  BY <1>1, <1>2 DEF FilesInv, FilesTypes
<1>4. FetchRight' /\ ExportRight'
  BY <1>2 DEF FetchRight, ExportRight
<1>5. TorchPinned' /\ OneExport'
  BY <1>1 DEF FilesInv, TorchPinned, OneExport
<1>6. OnnxRight'
  BY <1>1, <1>2 DEF FilesInv, OnnxRight
<1> QED
  BY <1>3, <1>4, <1>5, <1>6 DEF FilesInv

\* A compiled graph is of the export its graph is of.
LEMMA ConvertStep == ASSUME FilesInv, Convert PROVE FilesInv'
<1> DEFINE b == Head(job.todo)
<1>1. job.at = "convert" /\ UNCHANGED <<pin, made, record>> /\ FilesTypes
      /\ file' = [file EXCEPT ![Rknn(b)] = file[Hidden(b)]]
  BY DEF Convert, FilesInv
<1>2. DOMAIN job' = {"kind", "at", "revision", "export", "todo"} /\ job'.at = "convert"
  <2>1. job' = [job EXCEPT !.todo = Tail(job.todo)]
    BY DEF Convert
  <2> QED
    BY <1>1, <2>1, NextFile
<1>3. FetchRight' /\ ExportRight'
  BY <1>2 DEF FetchRight, ExportRight
<1>4. CASE b \in Buckets
  <2>1. Hidden(b) \in NpuFiles /\ Rknn(b) \in NpuFiles /\ Rknn(b)[1] = "npu"
    BY <1>4, FilesThere, Directories, RecordsApart DEF NpuFiles
  <2>2. file[Hidden(b)] \in Int
    BY <1>1, <2>1 DEF FilesTypes, NpuFiles
  <2>3. file' \in [Files -> Int] /\ file'[Rknn(b)] = file[Hidden(b)]
        /\ \A y \in Files : y # Rknn(b) => file'[y] = file[y]
    BY <1>1, <2>1, <2>2, FilePut DEF NpuFiles
  <2>4. FilesTypes'
    BY <1>1, <1>2, <2>3 DEF FilesTypes
  <2>5. TorchPinned'
    BY <1>1, <2>1, <2>3, FilesThere, Directories DEF FilesInv, TorchPinned
  <2>6. OnnxRight'
    <3>1. file'[RecordOf("onnx")] = file[RecordOf("onnx")] /\ file'[Graph] = file[Graph]
          /\ file'[Data] = file[Data]
      BY <2>1, <2>3, FilesThere, Directories
    <3> QED
      BY <1>1, <1>2, <3>1 DEF FilesInv, OnnxRight
  <2>7. OneExport'
    <3> SUFFICES ASSUME NEW y \in NpuFiles, NEW z \in NpuFiles,
                        {file'[y], file'[z]} \intersect {Absent, Cut} = {}
                 PROVE  file'[y] = file'[z]
      BY DEF OneExport, NpuFiles
    <3>1. PICK u \in NpuFiles : file'[y] = file[u]
      BY <2>1, <2>3 DEF NpuFiles
    <3>2. PICK w \in NpuFiles : file'[z] = file[w]
      BY <2>1, <2>3 DEF NpuFiles
    <3>3. file[u] = file[w]
      BY <3>1, <3>2 DEF FilesInv, OneExport
    <3> QED
      BY <3>1, <3>2, <3>3
  <2> QED
    BY <1>3, <2>4, <2>5, <2>6, <2>7 DEF FilesInv
<1>5. CASE b \notin Buckets
  <2>1. Rknn(b) \notin Files
    BY <1>5, FilesThere
  <2>2. file' = file
    BY <1>1, <2>1 DEF FilesTypes
  <2>3. FilesTypes'
    BY <1>1, <1>2, <2>2 DEF FilesTypes
  <2>4. TorchPinned' /\ OneExport'
    BY <1>1, <2>2 DEF FilesInv, TorchPinned, OneExport
  <2>5. OnnxRight'
    BY <1>1, <1>2, <2>2 DEF FilesInv, OnnxRight
  <2> QED
    BY <1>3, <2>3, <2>4, <2>5 DEF FilesInv
<1> QED
  BY <1>4, <1>5

\* A file that is cut short is no torch file that is fetched, and none that a
\* record of onnx/ vouches for.
LEMMA CutShort ==
  ASSUME FilesInv, job' = NoJob, UNCHANGED <<pin, made, record>>,
         NEW x, file' = [file EXCEPT ![x] = Cut],
         \A f \in TorchFiles \ Generated : x # Torch(f),
         x[1] = "onnx" => job.at = "write" /\ job.kind = "onnx"
  PROVE  FilesInv'
<1>1. FilesTypes /\ Cut \in Int /\ Cut # Absent
  BY DEF FilesInv, Cut, Absent
<1>2. file' \in [Files -> Int] /\ \A y \in Files : file'[y] = IF y = x THEN Cut ELSE file[y]
  BY <1>1, FilePut
<1>3. job'.at = "none" /\ DOMAIN job' = {"kind", "at", "revision", "export", "todo"}
  BY DEF NoJob
<1>4. FilesTypes'
  BY <1>1, <1>2, <1>3 DEF FilesTypes, NoJob
<1>5. FetchRight' /\ ExportRight'
  BY <1>3 DEF FetchRight, ExportRight
<1>6. TorchPinned'
  BY <1>2, FilesThere DEF FilesInv, TorchPinned
<1>7. OnnxRight'
  <2>1. CASE x[1] = "onnx"
    <3>1. file[RecordOf("onnx")] = Absent
      BY <2>1 DEF FilesInv, ExportRight
    <3>2. file'[RecordOf("onnx")] \in {Absent, Cut}
      BY <1>2, <3>1, FilesThere
    <3> QED
      BY <3>2 DEF OnnxRight
  <2>2. CASE x[1] # "onnx"
    <3>1. file'[RecordOf("onnx")] = file[RecordOf("onnx")] /\ file'[Graph] = file[Graph]
          /\ file'[Data] = file[Data]
      BY <1>2, <2>2, FilesThere, Directories
    <3> QED
      BY <1>3, <3>1 DEF FilesInv, OnnxRight
  <2> QED
    BY <2>1, <2>2
<1>8. OneExport'
  <2> SUFFICES ASSUME NEW y \in NpuFiles, NEW z \in NpuFiles,
                      {file'[y], file'[z]} \intersect {Absent, Cut} = {}
               PROVE  file'[y] = file'[z]
    BY DEF OneExport, NpuFiles
  <2>1. file'[y] = file[y] /\ file'[z] = file[z]
    BY <1>2 DEF NpuFiles
  <2> QED
    BY <2>1 DEF FilesInv, OneExport
<1> QED
  BY <1>4, <1>5, <1>6, <1>7, <1>8 DEF FilesInv

\* A command is killed between two files, or within one.
LEMMA JobKilledStep == ASSUME FilesInv, JobKilled PROVE FilesInv'
<1>1. job' = NoJob /\ UNCHANGED <<pin, made, record>>
  BY DEF JobKilled
<1>2. CASE UNCHANGED file
  BY <1>1, <1>2, IdleIsRight
<1>3. ASSUME NEW x \in Writing, file' = [file EXCEPT ![x] = Cut], job.todo # <<>> \/ job.at = "write"
      PROVE  FilesInv'
  <2>1. CASE job.at = "fetch"
    <3>1. PICK f \in Generated : x = Torch(f)
      BY <1>3, <2>1 DEF Writing
    <3>2. x[1] = "torch" /\ \A g \in TorchFiles \ Generated : x # Torch(g)
      BY <3>1, FilesThere, Directories
    <3> QED
      BY <1>1, <1>3, <3>2, CutShort
  <2>2. CASE job.at = "write"
    <3>1. x = IF job.todo = <<>> THEN RecordOf(job.kind) ELSE Head(job.todo)
      BY <1>3, <2>2 DEF Writing
    <3>2. job.kind \in {"onnx", "npu"} /\ job.todo \in Seq(Written(job.kind))
      BY <2>2, Exporting
    <3>3. x[1] = job.kind
      BY <3>1, <3>2, HeadOrTail, Directories DEF Written
    <3>4. \A f \in TorchFiles \ Generated : x # Torch(f)
      BY <3>2, <3>3, Directories
    <3> QED
      BY <1>1, <1>3, <2>2, <3>3, <3>4, CutShort
  <2>3. CASE job.at = "convert"
    <3>1. x = Rknn(job.todo[1])
      BY <1>3, <2>3 DEF Writing
    <3>2. x[1] = "npu" /\ \A f \in TorchFiles \ Generated : x # Torch(f)
      BY <3>1, Directories
    <3> QED
      BY <1>1, <1>3, <3>2, CutShort
  <2>4. CASE job.at \notin {"fetch", "write", "convert"}
    BY <1>3, <2>4 DEF Writing
  <2> QED
    BY <2>1, <2>2, <2>3, <2>4
<1> QED
  BY <1>2, <1>3 DEF JobKilled

-----------------------------------------------------------------------------
(* ModelFiles: the theorems *)

\* Nothing is there at first.
LEMMA FilesStart == FilesInit => FilesInv
<1> SUFFICES ASSUME FilesInit PROVE FilesInv
  OBVIOUS
<1>1. pin = 1 /\ made = 0 /\ job.at = "none" /\ job = NoJob /\ file = [x \in Files |-> 0]
      /\ record = [n \in 1..MaxExports |-> [revision |-> 0, files |-> {}]]
  BY DEF FilesInit, NoJob, NoRecord, Absent
<1>2. \A x \in Files : file[x] = 0
  BY <1>1
<1>3. FilesTypes
  <2>1. record \in [1..MaxExports -> [revision : 0..MaxRevision, files : SUBSET Files]]
    BY <1>1, FilesAssumption
  <2>2. DOMAIN job = {"kind", "at", "revision", "export", "todo"}
    BY <1>1 DEF NoJob
  <2> QED
    BY <1>1, <2>1, <2>2, FilesAssumption DEF FilesTypes
<1>4. FetchRight /\ ExportRight
  BY <1>1 DEF FetchRight, ExportRight
<1>5. TorchPinned
  BY <1>1, <1>2, FilesThere DEF TorchPinned
<1>6. OnnxRight /\ OneExport
  BY <1>2, FilesThere DEF OnnxRight, OneExport, NpuFiles
<1> QED
  BY <1>3, <1>4, <1>5, <1>6 DEF FilesInv

\* No step breaks it.
LEMMA FilesStep == ASSUME FilesInv, [FilesNext]_filesVars PROVE FilesInv'
<1>1. CASE UNCHANGED filesVars
  BY <1>1 DEF filesVars, FilesInv, FilesTypes, FetchRight, ExportRight, TorchPinned, OnnxRight, OneExport
<1>2. CASE FetchEnds \/ ConvertEnds
  BY <1>2, IdleIsRight DEF FetchEnds, ConvertEnds
<1>3. CASE FilesNext
  BY <1>2, <1>3, RepinStep, FetchStartStep, GenerateFileStep, FetchStep, ExportStartStep,
     ExportDeleteStep, ExportWriteStep, ExportRecordStep, ConvertStartStep, ConvertStep,
     JobKilledStep DEF FilesNext
<1> QED
  BY <1>1, <1>3

\* What the engine then loads.
LEMMA LoadsOneModel == FilesInv => FilesOfOneModel
<1> SUFFICES ASSUME FilesInv PROVE FilesOfOneModel
  OBVIOUS
<1>1. TorchSound
  BY NothingIn DEF FilesInv, FetchRight, TorchPinned, TorchSound
<1>2. ASSUME OnnxLoads
      PROVE  /\ file[Graph] = file[RecordOf("onnx")] /\ file[Data] = file[Graph]
             /\ record[file[Graph]].revision = pin
  <2>1. file[Graph] # Absent /\ file[RecordOf("onnx")] \notin {Absent, Cut}
        /\ record[file[RecordOf("onnx")]].revision = pin
        /\ \A x \in record[file[RecordOf("onnx")]].files : file[x] # Absent
    BY <1>2 DEF OnnxLoads, OnnxPresent
  <2>2. {Graph, Data} \subseteq record[file[RecordOf("onnx")]].files
        /\ file[Graph] \in {Absent, file[RecordOf("onnx")]}
        /\ file[Data] \in {Absent, file[RecordOf("onnx")]}
    BY <2>1 DEF FilesInv, OnnxRight
  <2> QED
    BY <2>1, <2>2
<1>3. ASSUME RknnLoads, NEW b \in Compiled PROVE file[Rknn(b)] = file[Tables]
  <2>1. b \in Buckets /\ {file[Rknn(b)], file[Tables]} \intersect {Absent, Cut} = {}
    BY <1>3 DEF RknnLoads, Compiled
  <2>2. Rknn(b) \in NpuFiles /\ Tables \in NpuFiles
    BY <2>1, FilesThere, Directories, RecordsApart DEF NpuFiles
  <2> QED
    BY <2>1, <2>2 DEF FilesInv, OneExport
<1> QED
  BY <1>1, <1>2, <1>3 DEF FilesOfOneModel, ExportsWhole

(* What holds of a model directory under every command, whole or broken off. *)
THEOREM FilesCorrect == FilesSpec => []FilesInv
  BY FilesStart, FilesStep, PTL DEF FilesSpec

(* For any manifest, any buckets and any number of exports: whatever commands
   were run and wherever they were killed, an engine loads the graph of one
   export with its own weights and of the pinned revision, or the compiled
   graphs and tables of one export, and no fetched file is half there. *)
THEOREM OneModelsFiles == FilesSpec => []FilesOfOneModel
  BY FilesCorrect, LoadsOneModel, PTL

-----------------------------------------------------------------------------
(* PipelineRun: the invariant *)

\* The steps this attempt is through with, and the one that has just ended.
Finished(i) == i \in DOMAIN pipe /\ IF stepAt = 0 THEN runRc = "complete" ELSE i < stepAt
Past(i) == Finished(i) \/ (within = "ended" /\ i = stepAt)

WrittenBefore(f, i) == \E w \in DOMAIN pipe : w < i /\ f \in pipe[w].writes
Own == [oldest |-> attempt, whole |-> TRUE]

RunPlace ==
  /\ pipe \in Pipelines /\ attempt \in Nat /\ stepAt \in 0 .. Len(pipe)
  /\ within \in {"idle", "parsing", "running", "writing", "gating", "ended"} /\ (within = "idle" <=> stepAt = 0)
  /\ stepAt # 0 => attempt # 0 /\ runRc = "none"
  /\ runRc = "complete" => attempt # 0
  /\ within = "writing" => Step.stage # "eval"
  /\ DOMAIN onDisk = UNION {pipe[i].writes : i \in DOMAIN pipe} /\ DOMAIN gates = Sets

\* A file is there only if whatever reads it comes after something that writes it.
FilesInOrder ==
  /\ \A f \in DOMAIN onDisk : onDisk[f] # Missing => \A r \in DOMAIN pipe : f \in pipe[r].reads => WrittenBefore(f, r)
  /\ \A i \in DOMAIN pipe : Past(i) => \A f \in pipe[i].reads \intersect DOMAIN onDisk : WrittenBefore(f, i)

\* What this attempt is through with is its own, but for what is written again.
FilesOwn ==
  /\ \A i \in DOMAIN pipe : Past(i) =>
       \A f \in pipe[i].writes : onDisk[f] = Own \/ (within = "writing" /\ f \in Step.writes)
  /\ within = "writing" /\ AllThere => \A f \in Step.writes : onDisk[f] = [oldest |-> attempt, whole |-> FALSE]

\* The manifest has the finished steps of this attempt, or nothing of it yet.
LogRight ==
  /\ stepRc \in Nat /\ runLog.of \in 0 .. attempt /\ runLog.steps \in Seq(Nat) /\ runLog = [of |-> runLog.of, steps |-> runLog.steps]
  /\ stepAt = 1 => runLog.of < attempt
  /\ stepAt > 1 \/ runRc = "complete" =>
       /\ runLog.of = attempt /\ Len(runLog.steps) = IF stepAt = 0 THEN Len(pipe) ELSE stepAt - 1
       /\ \A i \in DOMAIN pipe : Finished(i) => runLog.steps[i] = 0 \/ pipe[i].continues

\* Every set asked so far has its gate, of this attempt, and a failed one has
\* made the step fail.
Gated(i, s) == "baseline" \in pipe[i].flags /\ s \in DOMAIN Earlier
Judged(s, failed) == gates[s].of = attempt /\ (gates[s].passed \/ failed)
Asked == Len(Step.sets) - Len(setsLeft)

SetsJudged ==
  /\ setsLeft \in Seq(STRING) /\ Len(setsLeft) <= Len(Step.sets)
  /\ \A m \in 1 .. Len(setsLeft) : setsLeft[m] = Step.sets[Asked + m]
  /\ \A j \in 1 .. Asked : Gated(stepAt, Step.sets[j]) => Judged(Step.sets[j], stepRc # 0)

GatesRight ==
  /\ \A i \in DOMAIN pipe : Finished(i) =>
       \A j \in DOMAIN pipe[i].sets : Gated(i, pipe[i].sets[j]) => Judged(pipe[i].sets[j], pipe[i].continues)
  /\ within \in {"running", "gating", "ended"} /\ Step.stage = "eval" => SetsJudged
  /\ within = "ended" /\ Step.stage = "eval" => setsLeft = <<>>
  /\ within = "gating" => Step.stage = "eval" /\ setsLeft # <<>> /\ AllThere

RunInv == RunPlace /\ FilesInOrder /\ FilesOwn /\ LogRight /\ GatesRight

\* What the pipelines are like, of the one that runs.
LEMMA PipeFacts ==
  ASSUME RunPlace
  PROVE  /\ Len(pipe) \in Nat /\ Len(pipe) >= 1 /\ DOMAIN pipe = 1 .. Len(pipe)
         /\ \A i \in DOMAIN pipe :
              /\ pipe[i] \in StageSteps
              /\ pipe[i].stage \in Lazy => pipe[i].reads \intersect pipe[i].writes = {}
              /\ pipe[i].stage = "eval" => pipe[i].writes = {}
              /\ pipe[i].stage # "eval" => pipe[i].sets = <<>>
              /\ pipe[i].writes \subseteq DOMAIN onDisk
              /\ pipe[i].sets \in Seq(STRING) /\ \A j \in DOMAIN pipe[i].sets : pipe[i].sets[j] \in DOMAIN gates
         /\ \A i \in DOMAIN pipe : \A j \in DOMAIN pipe \ {i} :
              \A a \in DOMAIN pipe[i].sets, b \in DOMAIN pipe[j].sets : pipe[i].sets[a] # pipe[j].sets[b]
         /\ stepAt # 0 => stepAt \in DOMAIN pipe
<1>1. pipe \in Seq(StageSteps) /\ pipe # <<>> /\ pipe \in Pipelines
  BY RunAssumption DEF RunPlace
<1>2. Len(pipe) \in Nat /\ Len(pipe) >= 1 /\ DOMAIN pipe = 1 .. Len(pipe)
  BY <1>1
<1>3. \A i \in DOMAIN pipe : pipe[i] \in StageSteps
  BY <1>1
<1>4. \A i \in DOMAIN pipe :
        /\ pipe[i].stage \in Lazy => pipe[i].reads \intersect pipe[i].writes = {}
        /\ pipe[i].stage = "eval" => pipe[i].writes = {}
        /\ pipe[i].stage # "eval" => pipe[i].sets = <<>>
  BY <1>1, RunAssumption
<1>5. \A i \in DOMAIN pipe : \A j \in DOMAIN pipe \ {i} :
        \A a \in DOMAIN pipe[i].sets, b \in DOMAIN pipe[j].sets : pipe[i].sets[a] # pipe[j].sets[b]
  BY <1>1, RunAssumption
<1>6. \A i \in DOMAIN pipe : pipe[i].writes \subseteq DOMAIN onDisk
  BY DEF RunPlace
<1>7. \A i \in DOMAIN pipe : pipe[i].sets \in Seq(STRING)
  BY <1>3 DEF StageSteps
<1>8. \A i \in DOMAIN pipe : \A j \in DOMAIN pipe[i].sets : pipe[i].sets[j] \in DOMAIN gates
  BY DEF RunPlace, Sets
<1>9. stepAt # 0 => stepAt \in DOMAIN pipe
  BY <1>2 DEF RunPlace
<1> QED
  BY <1>2, <1>3, <1>4, <1>5, <1>6, <1>7, <1>8, <1>9

\* An attempt that begins or is left is through with nothing.
LEMMA NothingPast ==
  ASSUME RunInv, UNCHANGED <<pipe, onDisk>>, \A i \in DOMAIN pipe : ~Past(i)', within' # "writing"
  PROVE  FilesInOrder' /\ FilesOwn'
<1>1. \A f \in DOMAIN onDisk : onDisk[f] # Missing =>
        \A r \in DOMAIN pipe : f \in pipe[r].reads => \E w \in DOMAIN pipe : w < r /\ f \in pipe[w].writes
  BY DEF RunInv, FilesInOrder, WrittenBefore
<1> QED
  BY <1>1 DEF FilesInOrder, FilesOwn, WrittenBefore

\* A step within an attempt that leaves the files alone.
LEMMA SamePast ==
  ASSUME RunInv, UNCHANGED <<pipe, onDisk, attempt>>, \A i \in DOMAIN pipe : Past(i)' => Past(i),
         within # "writing", within' # "writing"
  PROVE  FilesInOrder' /\ FilesOwn'
<1>1. /\ \A f \in DOMAIN onDisk : onDisk[f] # Missing =>
           \A r \in DOMAIN pipe : f \in pipe[r].reads => \E w \in DOMAIN pipe : w < r /\ f \in pipe[w].writes
      /\ \A i \in DOMAIN pipe : Past(i) =>
           \A f \in pipe[i].reads \intersect DOMAIN onDisk : \E w \in DOMAIN pipe : w < i /\ f \in pipe[w].writes
  BY DEF RunInv, FilesInOrder, WrittenBefore
<1>2. \A i \in DOMAIN pipe : Past(i) => \A f \in pipe[i].writes : onDisk[f] = [oldest |-> attempt, whole |-> TRUE]
  BY DEF RunInv, FilesOwn, Own
<1>3. FilesInOrder'
  BY <1>1 DEF FilesInOrder, WrittenBefore
<1>4. FilesOwn'
  BY <1>2 DEF FilesOwn, Own
<1> QED
  BY <1>3, <1>4

\* Past and finished, in the words of a step.
LEMMA NextPast ==
  ASSUME NEW i \in DOMAIN pipe, UNCHANGED pipe
  PROVE  /\ Finished(i)' <=> IF stepAt' = 0 THEN runRc' = "complete" ELSE i < stepAt'
         /\ Past(i)' <=> (Finished(i)' \/ (within' = "ended" /\ i = stepAt'))
         /\ Finished(i) <=> IF stepAt = 0 THEN runRc = "complete" ELSE i < stepAt
         /\ Past(i) <=> (Finished(i) \/ (within = "ended" /\ i = stepAt))
  BY DEF Past, Finished

\* What a step reads, once all is there, this attempt has made.
LEMMA ReadsOwn ==
  ASSUME RunInv, stepAt # 0, AllThere, within # "writing"
  PROVE  /\ \A f \in Step.reads \intersect DOMAIN onDisk : WrittenBefore(f, stepAt) /\ onDisk[f] = Own
         /\ OldestRead = attempt
<1> USE DEF RunInv
<1>1. stepAt \in DOMAIN pipe /\ stepAt \in Nat /\ DOMAIN pipe \subseteq Nat /\ attempt \in Nat
  BY PipeFacts DEF RunPlace
<1>2. ASSUME NEW f \in Step.reads \intersect DOMAIN onDisk PROVE WrittenBefore(f, stepAt) /\ onDisk[f] = Own
  <2>1. WrittenBefore(f, stepAt)
    BY <1>1, <1>2 DEF AllThere, FilesInOrder, Step
  <2>2. PICK w \in DOMAIN pipe : w < stepAt /\ f \in pipe[w].writes
    BY <2>1 DEF WrittenBefore
  <2>3. Past(w)
    BY <2>2, <1>1 DEF Past, Finished
  <2>4. onDisk[f] = Own
    BY <2>2, <2>3 DEF FilesOwn
  <2> QED
    BY <2>1, <2>4
<1>3. \A f \in Step.reads \intersect DOMAIN onDisk : onDisk[f].oldest = attempt
  BY <1>2 DEF Own
<1>4. {attempt} \union {onDisk[f].oldest : f \in Step.reads \intersect DOMAIN onDisk} = {attempt}
  BY <1>3
<1>5. (CHOOSE a \in {attempt} : \A b \in {attempt} : a <= b) = attempt
  BY <1>1
<1>6. OldestRead = attempt
  BY <1>4, <1>5 DEF OldestRead
<1> QED
  BY <1>2, <1>6

\* Nothing finished, nothing to say of manifest and gates.
LEMMA NothingToTell ==
  ASSUME RunInv, UNCHANGED <<pipe, runLog, gates>>, \A i \in DOMAIN pipe : ~Finished(i)',
         stepRc' \in Nat, attempt' \in Nat, attempt' >= attempt, stepAt' = 1 => attempt' > attempt,
         stepAt' \in {0, 1}, runRc' # "complete", within' \in {"idle", "parsing"}
  PROVE  LogRight' /\ GatesRight'
<1>1. runLog.of \in 0 .. attempt /\ attempt \in Nat /\ runLog.steps \in Seq(Nat) /\ runLog = [of |-> runLog.of, steps |-> runLog.steps]
  BY DEF RunInv, LogRight, RunPlace
<1>2. LogRight'
  BY <1>1 DEF LogRight
<1>3. GatesRight'
  BY DEF GatesRight
<1> QED
  BY <1>2, <1>3

\* A new attempt: nothing of it is finished, and its manifest is not written yet.
LEMMA StartRunStep == ASSUME RunInv, StartRun PROVE RunInv'
<1> USE DEF RunInv
<1>1. /\ stepAt = 0 /\ attempt' = attempt + 1 /\ stepAt' = 1 /\ within' = "parsing" /\ runRc' = "none"
      /\ UNCHANGED <<pipe, stepRc, setsLeft, rightNow, onDisk, gates, runLog>>
  BY DEF StartRun, fileVars
<1>2. RunPlace'
  BY <1>1, PipeFacts DEF RunPlace, Sets, Step
<1>3. DOMAIN pipe \subseteq Nat \ {0} /\ \A i \in DOMAIN pipe : ~Past(i)' /\ ~Finished(i)'
  BY <1>1, NextPast, PipeFacts
<1>4. FilesInOrder' /\ FilesOwn'
  BY <1>1, <1>3, NothingPast
<1>5. LogRight' /\ GatesRight'
  BY <1>1, <1>3, NothingToTell DEF RunPlace, LogRight
<1> QED
  BY <1>2, <1>4, <1>5

\* An attempt that leaves before its end finishes nothing.
LEMMA LeaveStep ==
  ASSUME RunInv, NEW rc \in {"exit", "raised", "killed"}, Leave(rc), UNCHANGED fileVars PROVE RunInv'
<1> USE DEF RunInv
<1>1. /\ stepAt' = 0 /\ within' = "idle" /\ runRc' = rc /\ stepRc' = 0 /\ rc # "complete"
      /\ UNCHANGED <<pipe, attempt, onDisk, gates, runLog>>
  BY DEF Leave, fileVars
<1>2. RunPlace'
  BY <1>1, PipeFacts DEF RunPlace, Sets, Step
<1>3. \A i \in DOMAIN pipe : ~Past(i)' /\ ~Finished(i)'
  BY <1>1, NextPast
<1>4. FilesInOrder' /\ FilesOwn'
  BY <1>1, <1>3, NothingPast
<1>5. LogRight' /\ GatesRight'
  BY <1>1, <1>3, NothingToTell DEF RunPlace
<1> QED
  BY <1>2, <1>4, <1>5

\* Steps of a stage that change neither the manifest nor what it would say.
LEMMA SameLog ==
  ASSUME RunInv, UNCHANGED <<pipe, attempt, stepAt, runLog, runRc>>, stepRc' \in Nat
  PROVE  LogRight'
<1>1. \A i \in DOMAIN pipe : Finished(i)' <=> Finished(i)
  BY NextPast
<1> QED
  BY <1>1 DEF RunInv, LogRight

\* The gates of what is finished stay as they are.
LEMMA SameGates ==
  ASSUME RunInv, UNCHANGED <<pipe, attempt, stepAt, runRc, gates>>
  PROVE  \A i \in DOMAIN pipe : Finished(i)' =>
           \A j \in DOMAIN pipe[i].sets : Gated(i, pipe[i].sets[j])' => Judged(pipe[i].sets[j], pipe[i].continues)'
<1>1. \A i \in DOMAIN pipe : Finished(i)' <=> Finished(i)
  BY NextPast
<1> QED
  BY <1>1 DEF RunInv, GatesRight, Gated, Judged

\* A step begins with every set still to ask.
LEMMA ParseGoes ==
  ASSUME RunInv, within = "parsing", within' = "running", setsLeft' = Step.sets, stepRc' = 0,
         UNCHANGED <<pipe, attempt, stepAt, rightNow, runLog, runRc, fileVars>>
  PROVE  RunInv'
<1> USE DEF RunInv
<1>1. UNCHANGED <<onDisk, gates>> /\ stepAt # 0 /\ stepAt \in DOMAIN pipe
  BY PipeFacts DEF fileVars, RunPlace
<1>2. RunPlace'
  BY <1>1 DEF RunPlace, Sets, Step
<1>3. \A i \in DOMAIN pipe : Past(i)' => Past(i)
  BY <1>1, NextPast
<1>4. FilesInOrder' /\ FilesOwn'
  BY <1>1, <1>3, SamePast
<1>5. LogRight'
  BY <1>1, SameLog
<1>6. Step.sets \in Seq(STRING) /\ Step' = Step
  BY <1>1, PipeFacts DEF Step
<1>7. /\ Len(Step.sets) \in Nat /\ Asked' = 0
      /\ \A m \in 1 .. Len(Step.sets) : m = 0 + m
  BY <1>6 DEF Asked
<1>8. SetsJudged'
  BY <1>6, <1>7 DEF SetsJudged
<1>9. GatesRight'
  BY <1>1, <1>6, <1>8, SameGates DEF GatesRight
<1> QED
  BY <1>2, <1>4, <1>5, <1>9

\* _step_argv(): the files a step needs are there, or the step fails.
LEMMA ParseStepStep == ASSUME RunInv, ParseStep PROVE RunInv'
<1>1. CASE Usable(Step)
  BY <1>1, ParseGoes DEF ParseStep
<1>2. CASE ~Usable(Step)
  BY <1>2, LeaveStep DEF ParseStep
<1> QED
  BY <1>1, <1>2

\* A stage that opens its output first makes it its own, and not whole.
LEMMA OpenOutputStep == ASSUME RunInv, OpenOutput PROVE RunInv'
<1> USE DEF RunInv
<1>1. /\ within = "running" /\ within' = "writing" /\ Step.stage # "eval" /\ (AllThere \/ Step.stage \in Lazy)
      /\ UNCHANGED <<pipe, attempt, stepAt, stepRc, setsLeft, rightNow, gates, runLog, runRc>>
      /\ Step' = Step
  BY DEF OpenOutput, Step
<1>2. PICK oldest : oldest = OldestRead
  OBVIOUS
<1>3. onDisk' = [f \in DOMAIN onDisk |-> IF f \in Step.writes THEN [oldest |-> oldest, whole |-> FALSE] ELSE onDisk[f]]
  BY <1>2 DEF OpenOutput
<1>4. stepAt # 0 /\ stepAt \in DOMAIN pipe /\ attempt # 0 /\ DOMAIN onDisk' = DOMAIN onDisk
      /\ Step = pipe[stepAt] /\ DOMAIN pipe \subseteq Nat
  BY <1>1, <1>3, PipeFacts DEF RunPlace, Step
<1>5. RunPlace'
  BY <1>1, <1>4 DEF RunPlace, Sets, Step
<1>6. \A i \in DOMAIN pipe : Past(i)' <=> i < stepAt
  BY <1>1, <1>4, NextPast
<1>7. \A i \in DOMAIN pipe : Past(i) <=> i < stepAt
  BY <1>1, <1>4, NextPast
<1>8. \A f \in Step.reads \intersect DOMAIN onDisk : AllThere => WrittenBefore(f, stepAt)
  BY <1>1, <1>4, ReadsOwn
<1>9. ASSUME NEW f \in DOMAIN onDisk, onDisk'[f] # Missing, NEW r \in DOMAIN pipe, f \in pipe[r].reads
      PROVE  WrittenBefore(f, r)
  <2>1. CASE f \notin Step.writes
    BY <1>3, <1>9, <2>1 DEF FilesInOrder
  <2>2. CASE f \in Step.writes /\ r > stepAt
    BY <1>4, <2>2 DEF WrittenBefore
  <2>3. CASE r < stepAt
    BY <1>7, <1>9, <2>3 DEF FilesInOrder
  <2>4. CASE f \in Step.writes /\ r = stepAt
    <3>1. Step.stage \notin Lazy
      BY <1>4, <1>9, <2>4, PipeFacts
    <3> QED
      BY <1>1, <1>4, <1>8, <1>9, <2>4, <3>1
  <2> QED
    BY <1>4, <2>1, <2>2, <2>3, <2>4
<1>10. FilesInOrder'
  <2>1. \A f, i : WrittenBefore(f, i)' <=> WrittenBefore(f, i)
    BY <1>1 DEF WrittenBefore
  <2> QED
    BY <1>1, <1>4, <1>6, <1>7, <1>9, <2>1 DEF FilesInOrder
<1>11. \A i \in DOMAIN pipe : i < stepAt => \A f \in pipe[i].writes : onDisk'[f] = Own \/ f \in Step.writes
  <2>1. \A i \in DOMAIN pipe : pipe[i].writes \subseteq DOMAIN onDisk
    BY PipeFacts
  <2> QED
    BY <1>1, <1>3, <1>7, <2>1 DEF FilesOwn
<1>12. ASSUME AllThere' PROVE AllThere
  <2>1. CASE Step.stage \in Lazy
    <3>1. Step.reads \intersect Step.writes = {}
      BY <1>4, <2>1, PipeFacts
    <3> QED
      BY <1>1, <1>3, <1>12, <3>1 DEF AllThere
  <2> QED
    BY <1>1, <2>1
<1>13. AllThere' => oldest = attempt
  BY <1>1, <1>2, <1>4, <1>12, ReadsOwn
<1>14. \A f \in Step.writes : onDisk'[f] = [oldest |-> oldest, whole |-> FALSE]
  BY <1>3, <1>4, PipeFacts
<1>15. FilesOwn'
  <2>1. Own' = Own
    BY <1>1 DEF Own
  <2> QED
    BY <1>1, <1>6, <1>11, <1>13, <1>14, <2>1 DEF FilesOwn
<1>16. LogRight'
  BY <1>1, SameLog DEF LogRight
<1>17. GatesRight'
  BY <1>1, SameGates DEF GatesRight
<1> QED
  BY <1>5, <1>10, <1>15, <1>16, <1>17

\* A stage returns: what it writes is whole, and of this attempt only.
LEMMA StageReturnsStep == ASSUME RunInv, StageReturns PROVE RunInv'
<1> USE DEF RunInv
<1>1. /\ within = "writing" /\ within' = "ended" /\ AllThere /\ stepRc' \in Nat
      /\ UNCHANGED <<pipe, attempt, stepAt, setsLeft, rightNow, gates, runLog, runRc>>
      /\ Step' = Step
      /\ onDisk' = [f \in DOMAIN onDisk |-> IF f \in Step.writes THEN [oldest |-> onDisk[f].oldest, whole |-> TRUE] ELSE onDisk[f]]
  BY DEF StageReturns, Step, Codes
<1>2. /\ stepAt # 0 /\ stepAt \in DOMAIN pipe /\ attempt # 0 /\ DOMAIN onDisk' = DOMAIN onDisk
      /\ Step = pipe[stepAt] /\ DOMAIN pipe \subseteq Nat /\ Step.stage # "eval"
      /\ \A i \in DOMAIN pipe : pipe[i].writes \subseteq DOMAIN onDisk
  BY <1>1, PipeFacts DEF RunPlace, Step
<1>3. RunPlace'
  BY <1>1, <1>2 DEF RunPlace, Sets
<1>4. \A i \in DOMAIN pipe : Past(i)' <=> i < stepAt \/ i = stepAt
  BY <1>1, <1>2, NextPast
<1>5. \A i \in DOMAIN pipe : Past(i) <=> i < stepAt
  BY <1>1, <1>2, NextPast
<1>6. \A f \in Step.writes : onDisk[f] = [oldest |-> attempt, whole |-> FALSE] /\ onDisk[f] # Missing
  <2>1. \A f \in Step.writes : onDisk[f] = [oldest |-> attempt, whole |-> FALSE]
    BY <1>1 DEF FilesOwn
  <2>2. Missing.oldest = 0
    BY DEF Missing
  <2>3. \A f \in Step.writes : onDisk[f].oldest = attempt
    BY <2>1
  <2> QED
    BY <1>2, <2>1, <2>2, <2>3
<1>7. \A f \in Step.writes : onDisk'[f] = Own
  <2>1. \A f \in Step.writes : onDisk'[f] = [oldest |-> onDisk[f].oldest, whole |-> TRUE]
    BY <1>1, <1>2
  <2> QED
    BY <1>6, <2>1 DEF Own
<1>8. \A f \in Step.reads \intersect DOMAIN onDisk : WrittenBefore(f, stepAt)
  BY <1>1, <1>2 DEF AllThere, FilesInOrder
<1>9. \A f, i : WrittenBefore(f, i)' <=> WrittenBefore(f, i)
  BY <1>1 DEF WrittenBefore
<1>10. \A f \in DOMAIN onDisk : onDisk'[f] # Missing => onDisk[f] # Missing
  BY <1>1, <1>6
<1>11. FilesInOrder'
  BY <1>1, <1>2, <1>4, <1>5, <1>8, <1>9, <1>10 DEF FilesInOrder
<1>12. \A i \in DOMAIN pipe : i < stepAt => \A f \in pipe[i].writes : onDisk'[f] = Own
  BY <1>1, <1>2, <1>5, <1>7 DEF FilesOwn
<1>13. Own' = Own
  BY <1>1 DEF Own
<1>14. FilesOwn'
  BY <1>1, <1>2, <1>4, <1>7, <1>12, <1>13 DEF FilesOwn
<1>15. LogRight'
  BY <1>1, SameLog
<1>16. GatesRight'
  BY <1>1, <1>2, SameGates DEF GatesRight
<1> QED
  BY <1>3, <1>11, <1>14, <1>15, <1>16

\* A stage that raises or is killed leaves the pipeline, and what it has opened.
LEMMA StageLeavesStep == ASSUME RunInv, StageRaises \/ Kill PROVE RunInv'
<1>1. CASE StageRaises
  BY <1>1, LeaveStep DEF StageRaises
<1>2. CASE Kill
  BY <1>2, LeaveStep DEF Kill
<1> QED
  BY <1>1, <1>2

\* An evaluation set is scored, and comes to its gate if it has one.
LEMMA ScoreSetStep == ASSUME RunInv, ScoreSet PROVE RunInv'
<1> USE DEF RunInv
<1>1. /\ within = "running" /\ Step.stage = "eval" /\ AllThere /\ setsLeft # <<>>
      /\ within' = (IF Gated(stepAt, Head(setsLeft)) THEN "gating" ELSE "running")
      /\ setsLeft' = (IF within' = "gating" THEN setsLeft ELSE Tail(setsLeft))
      /\ UNCHANGED <<pipe, attempt, stepAt, stepRc, onDisk, gates, runLog, runRc>>
      /\ Step' = Step /\ Step = pipe[stepAt]
  BY DEF ScoreSet, fileVars, Step, Gated
<1>2. stepAt # 0 /\ stepAt \in DOMAIN pipe
  BY <1>1, PipeFacts DEF RunPlace
<1>3. RunPlace'
  BY <1>1, <1>2 DEF RunPlace, Sets
<1>4. \A i \in DOMAIN pipe : Past(i)' => Past(i)
  BY <1>1, <1>2, NextPast
<1>5. FilesInOrder' /\ FilesOwn'
  BY <1>1, <1>4, SamePast
<1>6. LogRight'
  BY <1>1, SameLog DEF LogRight
<1>7. /\ setsLeft \in Seq(STRING) /\ Len(setsLeft) <= Len(Step.sets) /\ Len(Step.sets) \in Nat
      /\ \A m \in 1 .. Len(setsLeft) : setsLeft[m] = Step.sets[Asked + m]
      /\ \A j \in 1 .. Asked : Gated(stepAt, Step.sets[j]) => Judged(Step.sets[j], stepRc # 0)
  BY <1>1, <1>2, PipeFacts DEF GatesRight, SetsJudged, Step
<1>8. AllThere' <=> AllThere
  BY <1>1 DEF AllThere
<1>9. \A s : /\ Gated(stepAt, s)' <=> Gated(stepAt, s)
             /\ Judged(s, stepRc # 0)' <=> Judged(s, stepRc # 0)
  BY <1>1 DEF Gated, Judged
<1>10. \A i \in DOMAIN pipe : Finished(i)' =>
        \A j \in DOMAIN pipe[i].sets : Gated(i, pipe[i].sets[j])' => Judged(pipe[i].sets[j], pipe[i].continues)'
  BY <1>1, SameGates
<1>11. within' \in {"gating", "running"} /\ Step'.stage = "eval" /\ pipe' = pipe
  BY <1>1
<1>12. ASSUME within' = "gating" PROVE GatesRight'
  <2>1. setsLeft' = setsLeft /\ Asked' = Asked
    BY <1>1, <1>12 DEF Asked
  <2>2. SetsJudged'
    BY <1>1, <1>7, <1>9, <2>1 DEF SetsJudged
  <2> QED
    <3>1. setsLeft' # <<>> /\ AllThere'
      BY <1>1, <1>8, <2>1
    <3> QED
      BY <1>12, <1>10, <1>11, <2>2, <3>1 DEF GatesRight
<1>13. ASSUME within' = "running" PROVE GatesRight'
  <2>1. ~Gated(stepAt, Head(setsLeft)) /\ setsLeft' = Tail(setsLeft)
    BY <1>1, <1>13
  <2>2. /\ setsLeft' \in Seq(STRING) /\ Len(setsLeft') = Len(setsLeft) - 1 /\ Len(setsLeft) >= 1
        /\ Len(setsLeft) \in Nat /\ Head(setsLeft) = setsLeft[1]
        /\ \A m \in 1 .. Len(setsLeft') : setsLeft'[m] = setsLeft[m + 1]
    BY <1>1, <1>7, <2>1
  <2>3. Step' = Step
    BY <1>1
  <2>4. Asked' = Asked + 1 /\ Asked \in Nat
    BY <1>7, <2>3, <2>2 DEF Asked
  <2>5. \A m \in 1 .. Len(setsLeft') : setsLeft'[m] = Step.sets[(Asked + 1) + m]
    BY <1>7, <2>2, <2>4
  <2>6. Step.sets[Asked + 1] = Head(setsLeft)
    BY <1>7, <2>2
  <2>7. \A j \in 1 .. (Asked + 1) : Gated(stepAt, Step.sets[j]) => Judged(Step.sets[j], stepRc # 0)
    BY <1>7, <2>1, <2>4, <2>6
  <2>8. Len(setsLeft') <= Len(Step.sets)
    BY <1>7, <2>2
  <2>9. SetsJudged'
    BY <1>1, <1>9, <2>3, <2>2, <2>4, <2>5, <2>7, <2>8 DEF SetsJudged
  <2> QED
    BY <1>13, <1>10, <1>11, <2>9 DEF GatesRight
<1>14. GatesRight'
  BY <1>12, <1>13, <1>11
<1> QED
  BY <1>3, <1>5, <1>6, <1>14

\* The gate of a set: asked in this attempt, and no other step's.
LEMMA GateSetStep == ASSUME RunInv, GateSet PROVE RunInv'
<1> USE DEF RunInv
<1>1. PICK passed \in BOOLEAN : passed = SlicesHold(Earlier[Head(setsLeft)], rightNow)
  BY DEF SlicesHold
<1>2. PICK set : set = Head(setsLeft)
  OBVIOUS
<1>3. PICK oldest : oldest = OldestRead
  OBVIOUS
<1>4. /\ within = "gating" /\ within' = "running" /\ setsLeft' = Tail(setsLeft)
      /\ gates' = [gates EXCEPT ![set] = [of |-> oldest, passed |-> passed, right |-> rightNow]]
      /\ stepRc' = IF stepRc # 0 \/ passed THEN stepRc ELSE 4
      /\ UNCHANGED <<pipe, attempt, stepAt, rightNow, onDisk, runLog, runRc>>
      /\ Step' = Step /\ Step = pipe[stepAt]
  BY <1>1, <1>2, <1>3 DEF GateSet, Step
<1>5. /\ stepAt # 0 /\ stepAt \in DOMAIN pipe /\ Step.stage = "eval" /\ setsLeft # <<>> /\ AllThere /\ oldest = attempt
      /\ DOMAIN pipe \subseteq Nat
  <2>1. stepAt # 0 /\ Step.stage = "eval" /\ setsLeft # <<>> /\ AllThere
    BY <1>4 DEF RunPlace, GatesRight
  <2>2. stepAt \in DOMAIN pipe /\ DOMAIN pipe \subseteq Nat
    BY <2>1, PipeFacts
  <2>3. OldestRead = attempt
    BY <1>4, <2>1, ReadsOwn
  <2> QED
    BY <1>3, <2>1, <2>2, <2>3
<1>6. RunPlace'
  BY <1>4, <1>5 DEF RunPlace, Sets
<1>7. \A i \in DOMAIN pipe : Past(i)' => Past(i)
  BY <1>4, <1>5, NextPast
<1>8. FilesInOrder' /\ FilesOwn'
  BY <1>4, <1>7, SamePast
<1>9. LogRight'
  BY <1>4, SameLog DEF LogRight
<1>10. /\ setsLeft \in Seq(STRING) /\ Len(setsLeft) <= Len(Step.sets) /\ Len(Step.sets) \in Nat
       /\ \A m \in 1 .. Len(setsLeft) : setsLeft[m] = Step.sets[Asked + m]
       /\ \A j \in 1 .. Asked : Gated(stepAt, Step.sets[j]) => Judged(Step.sets[j], stepRc # 0)
       /\ \A j \in DOMAIN Step.sets : Step.sets[j] \in DOMAIN gates
       /\ DOMAIN Step.sets = 1 .. Len(Step.sets)
  BY <1>4, <1>5, PipeFacts DEF GatesRight, SetsJudged
<1>11. /\ setsLeft' \in Seq(STRING) /\ Len(setsLeft') = Len(setsLeft) - 1 /\ Len(setsLeft) >= 1
       /\ Len(setsLeft) \in Nat /\ set = setsLeft[1]
       /\ \A m \in 1 .. Len(setsLeft') : setsLeft'[m] = setsLeft[m + 1]
  BY <1>2, <1>4, <1>5, <1>10
<1>12. Asked' = Asked + 1 /\ Asked \in Nat
  BY <1>4, <1>10, <1>11 DEF Asked
<1>13. \A m \in 1 .. Len(setsLeft') : setsLeft'[m] = Step.sets[(Asked + 1) + m]
  BY <1>10, <1>11, <1>12
<1>14. Step.sets[Asked + 1] = set /\ Asked + 1 \in DOMAIN Step.sets
  BY <1>10, <1>11, <1>12 DEF Asked
<1>15. gates'[set].of = attempt /\ gates'[set].passed = passed /\ \A s \in DOMAIN gates : s # set => gates'[s] = gates[s]
  BY <1>4, <1>5, <1>10, <1>14
<1>16. stepRc \in Nat /\ (stepRc # 0 => stepRc' # 0) /\ (~passed => stepRc' # 0)
  BY <1>1, <1>4 DEF LogRight
<1>17. ASSUME NEW j \in 1 .. (Asked + 1), Gated(stepAt, Step.sets[j])
       PROVE  gates'[Step.sets[j]].of = attempt /\ (gates'[Step.sets[j]].passed \/ stepRc' # 0)
  <2>1. CASE Step.sets[j] = set
    BY <1>1, <1>15, <1>16, <2>1
  <2>2. CASE Step.sets[j] # set
    <3>1. j \in 1 .. Asked /\ j \in DOMAIN Step.sets
      BY <1>10, <1>12, <1>14, <1>17, <2>2 DEF Asked
    <3> QED
      BY <1>10, <1>15, <1>16, <1>17, <2>2, <3>1 DEF Judged
  <2> QED
    BY <2>1, <2>2
<1>18. ASSUME NEW i \in DOMAIN pipe, Finished(i)', NEW j \in DOMAIN pipe[i].sets, Gated(i, pipe[i].sets[j])
       PROVE  gates'[pipe[i].sets[j]].of = attempt /\ (gates'[pipe[i].sets[j]].passed \/ pipe[i].continues)
  <2>1. Finished(i) /\ i # stepAt
    BY <1>4, <1>5, <1>18, NextPast
  <2>2. pipe[i].sets[j] # set /\ pipe[i].sets[j] \in DOMAIN gates
    BY <1>4, <1>5, <1>14, <1>18, <2>1, PipeFacts
  <2> QED
    BY <1>15, <1>18, <2>1, <2>2 DEF GatesRight, Judged
<1>19. SetsJudged'
  <2>1. Len(setsLeft') <= Len(Step.sets)
    BY <1>10, <1>11
  <2>2. \A s : Gated(stepAt, s)' <=> Gated(stepAt, s)
    BY <1>4 DEF Gated
  <2>3. \A j \in 1 .. Asked' : Gated(stepAt, Step.sets[j])' => Judged(Step.sets[j], stepRc # 0)'
    BY <1>4, <1>12, <1>17, <2>2 DEF Judged
  <2> QED
    BY <1>4, <1>11, <1>12, <1>13, <2>1, <2>3 DEF SetsJudged
<1>20. \A i \in DOMAIN pipe : Finished(i)' =>
        \A j \in DOMAIN pipe[i].sets : Gated(i, pipe[i].sets[j])' => Judged(pipe[i].sets[j], pipe[i].continues)'
  BY <1>4, <1>18 DEF Gated, Judged
<1>21. GatesRight'
  BY <1>4, <1>19, <1>20 DEF GatesRight
<1> QED
  BY <1>6, <1>8, <1>9, <1>21

\* An evaluation has asked every set it was given.
LEMMA EvalReturnsStep == ASSUME RunInv, EvalReturns PROVE RunInv'
<1> USE DEF RunInv
<1>1. /\ within = "running" /\ Step.stage = "eval" /\ AllThere /\ setsLeft = <<>> /\ within' = "ended"
      /\ UNCHANGED <<pipe, attempt, stepAt, stepRc, setsLeft, onDisk, gates, runLog, runRc>>
      /\ Step' = Step /\ Step = pipe[stepAt]
  BY DEF EvalReturns, fileVars, Step
<1>2. stepAt # 0 /\ stepAt \in DOMAIN pipe /\ DOMAIN pipe \subseteq Nat /\ Step.writes = {}
  BY <1>1, PipeFacts DEF RunPlace
<1>3. RunPlace'
  BY <1>1, <1>2 DEF RunPlace, Sets
<1>4. \A i \in DOMAIN pipe : (Past(i)' <=> i < stepAt \/ i = stepAt) /\ (Past(i) <=> i < stepAt)
  BY <1>1, <1>2, NextPast
<1>5. \A f \in Step.reads \intersect DOMAIN onDisk : WrittenBefore(f, stepAt)
  BY <1>1, <1>2, ReadsOwn
<1>6. \A f, i : WrittenBefore(f, i)' <=> WrittenBefore(f, i)
  BY <1>1 DEF WrittenBefore
<1>7. FilesInOrder'
  BY <1>1, <1>4, <1>5, <1>6 DEF FilesInOrder
<1>8. Own' = Own
  BY <1>1 DEF Own
<1>9. FilesOwn'
  BY <1>1, <1>2, <1>4, <1>8 DEF FilesOwn
<1>10. LogRight'
  BY <1>1, SameLog DEF LogRight
<1>11. SetsJudged'
  <2>1. Asked' = Asked
    BY <1>1 DEF Asked
  <2>2. \A s : (Gated(stepAt, s)' <=> Gated(stepAt, s)) /\ (Judged(s, stepRc # 0)' <=> Judged(s, stepRc # 0))
    BY <1>1 DEF Gated, Judged
  <2>3. SetsJudged
    BY <1>1 DEF GatesRight
  <2> QED
    BY <1>1, <2>1, <2>2, <2>3 DEF SetsJudged
<1>12. \A i \in DOMAIN pipe : Finished(i)' =>
        \A j \in DOMAIN pipe[i].sets : Gated(i, pipe[i].sets[j])' => Judged(pipe[i].sets[j], pipe[i].continues)'
  BY <1>1, SameGates
<1>13. GatesRight'
  BY <1>1, <1>11, <1>12 DEF GatesRight
<1> QED
  BY <1>3, <1>7, <1>9, <1>10, <1>13

\* What a step returned goes to the manifest, and the next one begins if it may.
LEMMA RecordStepStep == ASSUME RunInv, RecordStep PROVE RunInv'
<1> USE DEF RunInv
<1> DEFINE before == IF runLog.of = attempt THEN runLog.steps ELSE <<>>
<1>1. /\ within = "ended" /\ setsLeft' = <<>> /\ stepRc' = 0
      /\ UNCHANGED <<pipe, attempt, onDisk, gates>>
      /\ runLog' = [of |-> attempt, steps |-> Append(before, stepRc)]
      /\ Step = pipe[stepAt]
  BY DEF RecordStep, fileVars, Step
<1>2. \/ stepAt' = 0 /\ within' = "idle" /\ runRc' = "failed"
      \/ stepAt = Len(pipe) /\ stepAt' = 0 /\ within' = "idle" /\ runRc' = "complete" /\ (stepRc = 0 \/ Step.continues)
      \/ /\ stepAt # Len(pipe) /\ stepAt' = stepAt + 1 /\ within' = "parsing" /\ runRc' = runRc
         /\ (stepRc = 0 \/ Step.continues)
  BY DEF RecordStep
<1>3. /\ stepAt # 0 /\ stepAt \in DOMAIN pipe /\ DOMAIN pipe = 1 .. Len(pipe) /\ Len(pipe) \in Nat
      /\ stepAt \in Nat /\ runRc = "none" /\ attempt \in Nat
  BY <1>1, PipeFacts DEF RunPlace
<1>4. RunPlace'
  BY <1>1, <1>2, <1>3 DEF RunPlace, Sets
<1>5. \A i \in DOMAIN pipe : Past(i) <=> i <= stepAt
  BY <1>1, <1>3, NextPast
<1>6. \A i \in DOMAIN pipe :
        /\ Past(i)' <=> Finished(i)'
        /\ Finished(i)' => i <= stepAt /\ runRc' # "failed"
  BY <1>1, <1>2, <1>3, NextPast
<1>7. FilesInOrder' /\ FilesOwn'
  BY <1>1, <1>2, <1>5, <1>6, SamePast
<1>8. before \in Seq(Nat) /\ stepRc \in Nat /\ Len(before) = stepAt - 1
  BY <1>3 DEF LogRight
<1>9. /\ runLog'.of = attempt /\ runLog'.steps = Append(before, stepRc) /\ runLog'.steps \in Seq(Nat)
      /\ Len(runLog'.steps) = stepAt /\ runLog'.steps[stepAt] = stepRc
      /\ \A i \in 1 .. (stepAt - 1) : runLog'.steps[i] = before[i]
  BY <1>1, <1>3, <1>8
<1>10. \A i \in DOMAIN pipe : i < stepAt => before[i] = 0 \/ pipe[i].continues
  <2>1. \A i \in DOMAIN pipe : Finished(i) <=> i < stepAt
    BY <1>1, <1>3, NextPast
  <2> QED
    BY <1>3, <2>1 DEF LogRight
<1>11. \A i \in DOMAIN pipe : Finished(i)' => runLog'.steps[i] = 0 \/ pipe[i].continues
  <2>1. \A i \in DOMAIN pipe : Finished(i)' => i \in 1 .. (stepAt - 1) \/ (i = stepAt /\ (stepRc = 0 \/ Step.continues))
    BY <1>2, <1>3, <1>6
  <2> QED
    BY <1>1, <1>9, <1>10, <2>1
<1>12. LogRight'
  <2>1. stepAt' # 1 /\ (stepAt' > 1 \/ runRc' = "complete" => stepAt = IF stepAt' = 0 THEN Len(pipe) ELSE stepAt' - 1)
    BY <1>2, <1>3
  <2>2. runLog' = [of |-> runLog'.of, steps |-> runLog'.steps]
    BY <1>1
  <2>3. stepRc' \in Nat /\ runLog'.of \in 0 .. attempt' /\ runLog'.steps \in Seq(Nat)
    BY <1>1, <1>3, <1>9
  <2>4. stepAt' > 1 \/ runRc' = "complete" =>
          /\ runLog'.of = attempt' /\ Len(runLog'.steps) = IF stepAt' = 0 THEN Len(pipe') ELSE stepAt' - 1
          /\ \A i \in DOMAIN pipe' : Finished(i)' => runLog'.steps[i] = 0 \/ pipe'[i].continues
    BY <1>1, <1>9, <1>11, <2>1
  <2> QED
    BY <2>1, <2>2, <2>3, <2>4 DEF LogRight
<1>13. ASSUME NEW i \in DOMAIN pipe, Finished(i)', NEW j \in DOMAIN pipe[i].sets, Gated(i, pipe[i].sets[j])
       PROVE  Judged(pipe[i].sets[j], pipe[i].continues)
  <2>1. CASE i < stepAt
    <3>1. Finished(i)
      BY <1>1, <1>3, <2>1, NextPast
    <3> QED
      BY <1>13, <3>1 DEF GatesRight
  <2>2. CASE i = stepAt
    <3>1. Step.stage = "eval"
      <4>1. Step.stage # "eval" => Step.sets = <<>>
        BY <1>1, <1>3, PipeFacts
      <4> QED
        BY <1>1, <1>13, <2>2, <4>1
    <3>2. SetsJudged /\ setsLeft = <<>>
      BY <1>1, <3>1 DEF GatesRight
    <3>3. Step.sets \in Seq(STRING)
      BY <1>1, <1>3, PipeFacts
    <3>4. j \in 1 .. Asked
      BY <1>1, <1>13, <2>2, <3>2, <3>3 DEF Asked
    <3>5. Judged(Step.sets[j], stepRc # 0)
      BY <1>1, <1>13, <2>2, <3>2, <3>4 DEF SetsJudged
    <3>6. stepRc # 0 => Step.continues
      BY <1>2, <1>6, <1>13
    <3> QED
      BY <1>1, <2>2, <3>5, <3>6 DEF Judged
  <2> QED
    BY <1>3, <1>6, <1>13, <2>1, <2>2
<1>14. GatesRight'
  <2>1. \A s, c : Judged(s, c)' <=> Judged(s, c)
    BY <1>1 DEF Judged
  <2>2. \A i \in DOMAIN pipe : Finished(i)' =>
          \A j \in DOMAIN pipe[i].sets : Gated(i, pipe[i].sets[j])' => Judged(pipe[i].sets[j], pipe[i].continues)'
    BY <1>1, <1>13 DEF Gated, Judged
  <2>3. within' \in {"idle", "parsing"}
    BY <1>2
  <2> QED
    BY <1>1, <2>2, <2>3 DEF GatesRight
<1> QED
  BY <1>4, <1>7, <1>12, <1>14

\* Before the first attempt.
LEMMA RunBegins == RunInit => RunInv
<1> SUFFICES ASSUME RunInit PROVE RunInv
  OBVIOUS
<1>1. /\ pipe \in Pipelines /\ attempt = 0 /\ stepAt = 0 /\ within = "idle" /\ stepRc = 0 /\ runRc = "none"
      /\ DOMAIN onDisk = UNION {pipe[i].writes : i \in DOMAIN pipe} /\ \A f \in DOMAIN onDisk : onDisk[f] = Missing
      /\ DOMAIN gates = Sets /\ runLog = [of |-> 0, steps |-> <<>>]
  BY DEF RunInit
<1>2. RunPlace
  <2>1. Len(pipe) \in Nat
    BY <1>1, RunAssumption
  <2> QED
    BY <1>1, <2>1 DEF RunPlace
<1>3. \A i \in DOMAIN pipe : ~Past(i) /\ ~Finished(i)
  BY <1>1 DEF Past, Finished
<1>4. FilesInOrder /\ FilesOwn
  BY <1>1, <1>3 DEF FilesInOrder, FilesOwn
<1>5. LogRight /\ GatesRight
  BY <1>1, <1>3 DEF LogRight, GatesRight
<1> QED
  BY <1>2, <1>4, <1>5 DEF RunInv

\* Every step of the runner keeps the invariant.
LEMMA RunSteps == ASSUME RunInv, [RunNext]_runVars PROVE RunInv'
<1>1. CASE UNCHANGED runVars
  <2> USE <1>1 DEF RunInv, runVars
  <2>1. RunPlace'
    BY DEF RunPlace, Step, Sets
  <2>2. FilesInOrder'
    BY DEF FilesInOrder, Past, Finished, WrittenBefore
  <2>3. FilesOwn'
    BY DEF FilesOwn, Past, Finished, Own, Step, AllThere
  <2>4. LogRight'
    BY DEF LogRight, Finished
  <2>5. GatesRight'
    BY DEF GatesRight, SetsJudged, Gated, Judged, Asked, Finished, Step, AllThere
  <2> QED
    BY <2>1, <2>2, <2>3, <2>4, <2>5
<1>2. CASE RunNext
  BY <1>2, StartRunStep, ParseStepStep, OpenOutputStep, StageReturnsStep, StageLeavesStep, ScoreSetStep,
     GateSetStep, EvalReturnsStep, RecordStepStep DEF RunNext
<1> QED
  BY <1>1, <1>2

(* The inductive invariant of a run: what is there is there in the order of the
   steps, what this attempt is through with is its own, the manifest has its
   steps, and every gate it asked is of this attempt. *)
THEOREM RunCorrect == RunSpec => []RunInv
  BY RunBegins, RunSteps, PTL DEF RunSpec

(* For any pipeline whose lazy stages do not read what they write, killed and
   run again as often as you like: a run that completed has all its steps in
   the manifest, and everything it made and every gate it asked is of its last
   attempt. *)
THEOREM RunTellsTruth == RunSpec => []RunMeansIt
<1>1. ASSUME RunInv PROVE RunMeansIt
  <2> USE <1>1 DEF RunInv
  <2> SUFFICES ASSUME runRc = "complete" PROVE RunMeansIt
    BY DEF RunMeansIt, RunTells, NothingStale
  <2>1. stepAt = 0 /\ within = "idle" /\ \A i \in DOMAIN pipe : Finished(i) /\ Past(i)
    BY DEF RunPlace, Past, Finished
  <2>2. RunTells
    BY <2>1 DEF LogRight, RunTells
  <2>3. \A f \in DOMAIN onDisk : onDisk[f] = [oldest |-> attempt, whole |-> TRUE]
    <3>1. \A i \in DOMAIN pipe : \A f \in pipe[i].writes : onDisk[f] = Own
      BY <2>1 DEF FilesOwn
    <3> QED
      BY <3>1 DEF RunPlace, Own
  <2>4. \A i \in DOMAIN pipe : \A j \in DOMAIN pipe[i].sets : Gated(i, pipe[i].sets[j]) => Judged(pipe[i].sets[j], pipe[i].continues)
    BY <2>1 DEF GatesRight
  <2>5. NothingStale
    BY <2>3, <2>4 DEF NothingStale, Gated, Judged
  <2> QED
    BY <2>2, <2>5 DEF RunMeansIt
<1> QED
  BY <1>1, RunCorrect, PTL

-----------------------------------------------------------------------------
(* PipelineRun: the gate *)

\* The ways in which at least k of the questions are broken.
WaysOf(changed, k) == {b \in SUBSET changed : Cardinality(b) >= k}

\* With one question more there are the ways without it and those with it.
LEMMA OneMoreQuestion ==
  ASSUME NEW C, IsFiniteSet(C), NEW q, q \notin C, NEW k \in Int
  PROVE  /\ Cardinality(WaysOf(C \union {q}, k)) = Cardinality(WaysOf(C, k)) + Cardinality(WaysOf(C, k - 1))
         /\ Cardinality(WaysOf(C, k)) \in Nat /\ Cardinality(WaysOf(C, k - 1)) \in Nat
         /\ Cardinality(WaysOf(C, k)) <= Cardinality(WaysOf(C, k - 1))
<1> DEFINE V == WaysOf(C, k)
           U == WaysOf(C, k - 1)
           W == {b \union {q} : b \in U}
           f == [b \in U |-> b \union {q}]
<1>1. \A b \in SUBSET C : IsFiniteSet(b) /\ Cardinality(b) \in Nat /\ Cardinality(b \union {q}) = Cardinality(b) + 1
  BY FS_Subset, FS_CardinalityType, FS_AddElement
<1>2. IsFiniteSet(SUBSET C)
  BY FS_SUBSET
<1>3. V \subseteq U /\ U \subseteq SUBSET C
  <2>1. \A n \in Nat : n >= k => n >= k - 1
    OBVIOUS
  <2> QED
    BY <1>1, <2>1 DEF WaysOf
<1>4. IsFiniteSet(V) /\ IsFiniteSet(U) /\ Cardinality(V) \in Nat /\ Cardinality(U) \in Nat /\ Cardinality(V) <= Cardinality(U)
  <2> HIDE DEF V, U
  <2>1. IsFiniteSet(U)
    BY <1>2, <1>3, FS_Subset
  <2> QED
    BY <1>3, <2>1, FS_Subset, FS_CardinalityType
<1>5. WaysOf(C \union {q}, k) = V \union W
  <2>1. ASSUME NEW b \in WaysOf(C \union {q}, k), q \in b PROVE b \in W
    <3>1. b = (b \ {q}) \union {q} /\ b \ {q} \in SUBSET C /\ Cardinality(b) >= k
      BY <2>1 DEF WaysOf
    <3>2. PICK n \in Nat : n = Cardinality(b \ {q}) /\ Cardinality(b) = n + 1
      BY <1>1, <3>1
    <3>3. b \ {q} \in U
      BY <3>1, <3>2 DEF WaysOf
    <3> QED
      BY <3>1, <3>3
  <2>2. ASSUME NEW b \in WaysOf(C \union {q}, k), q \notin b PROVE b \in V
    BY <2>2 DEF WaysOf
  <2>3. V \subseteq WaysOf(C \union {q}, k)
    BY DEF WaysOf
  <2>4. ASSUME NEW b \in U PROVE b \union {q} \in WaysOf(C \union {q}, k)
    <3>1. PICK n \in Nat : n = Cardinality(b) /\ n >= k - 1 /\ Cardinality(b \union {q}) = n + 1
      BY <1>1 DEF WaysOf
    <3> QED
      BY <3>1 DEF WaysOf
  <2> HIDE DEF U, V
  <2> QED
    BY <2>1, <2>2, <2>3, <2>4
<1>6. f \in Surjection(U, W) /\ f \in Injection(U, W)
  <2>1. \A b \in U : q \notin b
    BY <1>3
  <2>2. \A a, b \in U : a \union {q} = b \union {q} => a = b
    <3>1. SUFFICES ASSUME NEW a \in U, NEW b \in U, a \union {q} = b \union {q} PROVE a = b
      OBVIOUS
    <3>2. a = (a \union {q}) \ {q} /\ b = (b \union {q}) \ {q}
      BY <2>1
    <3> QED
      BY <3>1, <3>2
  <2> HIDE DEF U
  <2> QED
    BY <2>2 DEF Surjection, Injection, IsInjective
<1>7. IsFiniteSet(W) /\ Cardinality(W) = Cardinality(U)
  <2> HIDE DEF U, W, f
  <2> QED
    BY <1>4, <1>6, FS_Surjection
<1>8. V \cap W = {}
  <2>1. \A b \in V : q \notin b
    BY <1>3
  <2> HIDE DEF V, U
  <2> QED
    BY <2>1
<1>9. Cardinality(V \union W) = Cardinality(V) + Cardinality(W)
  <2> HIDE DEF V, W
  <2>1. Cardinality(V \cap W) = 0
    BY <1>8, FS_EmptySet
  <2>2. Cardinality(V \union W) = Cardinality(V) + Cardinality(W) - Cardinality(V \cap W)
    BY <1>4, <1>7, FS_Union
  <2>3. Cardinality(W) \in Nat
    BY <1>4, <1>7
  <2> QED
    BY <1>4, <2>1, <2>2, <2>3
<1> QED
  BY <1>4, <1>5, <1>7, <1>9

\* All ways, and twice as many with one question more.
LEMMA TwiceAsMany ==
  ASSUME NEW C, IsFiniteSet(C), NEW q, q \notin C
  PROVE  Cardinality(SUBSET (C \union {q})) = 2 * Cardinality(SUBSET C) /\ Cardinality(SUBSET C) \in Nat
<1>1. \A D : \A k \in {0, -1} : IsFiniteSet(D) => WaysOf(D, k) = SUBSET D
  <2>1. SUFFICES ASSUME NEW D, NEW k \in {0, -1}, IsFiniteSet(D), NEW b \in SUBSET D PROVE Cardinality(b) >= k
    BY DEF WaysOf
  <2>2. Cardinality(b) \in Nat
    BY <2>1, FS_Subset, FS_CardinalityType
  <2> QED
    BY <2>2
<1>2. IsFiniteSet(C \union {q})
  BY FS_AddElement
<1>3. /\ WaysOf(C \union {q}, 0) = SUBSET (C \union {q}) /\ WaysOf(C, 0) = SUBSET C /\ WaysOf(C, 0 - 1) = SUBSET C
  <2>1. 0 - 1 = -1
    OBVIOUS
  <2> QED
    BY <1>1, <1>2, <2>1
<1>4. /\ Cardinality(WaysOf(C \union {q}, 0)) = Cardinality(WaysOf(C, 0)) + Cardinality(WaysOf(C, 0 - 1))
      /\ Cardinality(WaysOf(C, 0)) \in Nat
  BY OneMoreQuestion
<1>5. \A m \in Nat : m + m = 2 * m
  OBVIOUS
<1> QED
  BY <1>3, <1>4, <1>5

\* What could be chance still can with one question fixed that was the same.
LEMMA FixedByChance ==
  ASSUME NEW C, IsFiniteSet(C), NEW q, q \notin C, NEW k \in Int, ByChance(C, k)
  PROVE  ByChance(C \union {q}, k)
<1>1. PICK v, u, w \in Nat :
        /\ v = Cardinality(WaysOf(C, k)) /\ u = Cardinality(WaysOf(C, k - 1)) /\ v <= u
        /\ w = Cardinality(SUBSET C) /\ Cardinality(SUBSET (C \union {q})) = 2 * w
        /\ Cardinality(WaysOf(C \union {q}, k)) = v + u
  <2>1. PICK v, u \in Nat :
          /\ v = Cardinality(WaysOf(C, k)) /\ u = Cardinality(WaysOf(C, k - 1)) /\ v <= u
          /\ Cardinality(WaysOf(C \union {q}, k)) = v + u
    BY OneMoreQuestion
  <2>2. PICK w \in Nat : w = Cardinality(SUBSET C) /\ Cardinality(SUBSET (C \union {q})) = 2 * w
    BY TwiceAsMany
  <2> QED
    BY <2>1, <2>2
<1>2. 100 * v >= Alpha * w
  BY <1>1 DEF ByChance, WaysOf
<1>3. 100 * (v + u) >= Alpha * (2 * w)
  <2>1. PICK p \in Int : p = Alpha * w /\ Alpha * (2 * w) = 2 * p
    BY GateAssumption
  <2> QED
    BY <1>1, <1>2, <2>1
<1> QED
  BY <1>1, <1>3 DEF ByChance, WaysOf

\* Or with one question the same that was broken.
LEMMA LessBroken ==
  ASSUME NEW C, IsFiniteSet(C), NEW q, q \notin C, NEW k \in Int, ByChance(C \union {q}, k)
  PROVE  ByChance(C, k - 1)
<1>1. PICK v, u, w \in Nat :
        /\ v = Cardinality(WaysOf(C, k)) /\ u = Cardinality(WaysOf(C, k - 1)) /\ v <= u
        /\ w = Cardinality(SUBSET C) /\ Cardinality(SUBSET (C \union {q})) = 2 * w
        /\ Cardinality(WaysOf(C \union {q}, k)) = v + u
  <2>1. PICK v, u \in Nat :
          /\ v = Cardinality(WaysOf(C, k)) /\ u = Cardinality(WaysOf(C, k - 1)) /\ v <= u
          /\ Cardinality(WaysOf(C \union {q}, k)) = v + u
    BY OneMoreQuestion
  <2>2. PICK w \in Nat : w = Cardinality(SUBSET C) /\ Cardinality(SUBSET (C \union {q})) = 2 * w
    BY TwiceAsMany
  <2> QED
    BY <2>1, <2>2
<1>2. 100 * (v + u) >= Alpha * (2 * w)
  BY <1>1 DEF ByChance, WaysOf
<1>3. 100 * u >= Alpha * w
  <2>1. PICK p \in Int : p = Alpha * w /\ Alpha * (2 * w) = 2 * p
    BY GateAssumption
  <2> QED
    BY <1>1, <1>2, <2>1
<1> QED
  BY <1>1, <1>3 DEF ByChance, WaysOf

\* A slice that holds still does with one more question right.
LEMMA SliceStays ==
  ASSUME NEW slice, IsFiniteSet(slice), NEW before, NEW now, NEW q, SliceHolds(slice, before, now)
  PROVE  SliceHolds(slice, before, now \union {q})
<1> DEFINE after == now \union {q}
           broke(r) == (before \ r) \intersect slice
           fixed(r) == (r \ before) \intersect slice
           dropped(r) == 100 * (Cardinality(before \intersect slice) - Cardinality(r \intersect slice)) > Tolerance * Cardinality(slice)
<1>1. \A r : SliceHolds(slice, before, r) <=> ~dropped(r) \/ ByChance(broke(r) \union fixed(r), Cardinality(broke(r)))
  BY DEF SliceHolds
<1>2. CASE q \notin slice \/ q \in now
  <2>1. broke(after) = broke(now) /\ fixed(after) = fixed(now) /\ after \intersect slice = now \intersect slice
    BY <1>2
  <2>2. dropped(after) <=> dropped(now)
    BY <2>1
  <2> HIDE DEF broke, fixed, dropped
  <2> QED
    BY <1>1, <2>1, <2>2
<1>3. CASE q \in slice /\ q \notin now
  <2>1. dropped(after) => dropped(now)
    <3>1. now \intersect slice \subseteq after \intersect slice
      OBVIOUS
    <3>2. IsFiniteSet(before \intersect slice) /\ IsFiniteSet(now \intersect slice) /\ IsFiniteSet(after \intersect slice)
      BY FS_Intersection
    <3>3. PICK b, n, a, t \in Int :
            /\ b = Cardinality(before \intersect slice) /\ n = Cardinality(now \intersect slice) /\ n <= a
            /\ a = Cardinality(after \intersect slice) /\ t = Tolerance * Cardinality(slice)
      <4>1. Tolerance * Cardinality(slice) \in Int
        BY GateAssumption, FS_CardinalityType
      <4>2. Cardinality(now \intersect slice) <= Cardinality(after \intersect slice)
        BY <3>1, <3>2, FS_Subset
      <4>3. /\ Cardinality(before \intersect slice) \in Int /\ Cardinality(now \intersect slice) \in Int
            /\ Cardinality(after \intersect slice) \in Int
        BY <3>2, FS_CardinalityType
      <4> HIDE DEF after
      <4> QED
        BY <4>1, <4>2, <4>3
    <3>4. 100 * (b - a) > t => 100 * (b - n) > t
      BY <3>3
    <3> HIDE DEF after
    <3> QED
      BY <3>3, <3>4
  <2>2. /\ IsFiniteSet(broke(now)) /\ IsFiniteSet(fixed(now)) /\ IsFiniteSet(broke(after))
        /\ IsFiniteSet(broke(now) \union fixed(now)) /\ IsFiniteSet(broke(after) \union fixed(after))
    <3>1. /\ broke(now) \subseteq slice /\ fixed(now) \subseteq slice /\ broke(after) \subseteq slice
          /\ broke(now) \union fixed(now) \subseteq slice /\ broke(after) \union fixed(after) \subseteq slice
      OBVIOUS
    <3> HIDE DEF broke, fixed
    <3> QED
      BY <3>1, FS_Subset
  <2>3. Cardinality(broke(now)) \in Int /\ Cardinality(broke(after)) \in Int
    <3> HIDE DEF broke, fixed
    <3> QED
      BY <2>2, FS_CardinalityType
  <2>4. SUFFICES ASSUME ByChance(broke(now) \union fixed(now), Cardinality(broke(now)))
                 PROVE  ByChance(broke(after) \union fixed(after), Cardinality(broke(after)))
    <3> HIDE DEF broke, fixed, dropped
    <3> QED
      BY <1>1, <2>1
  <2>5. CASE q \notin before
    <3>1. /\ broke(after) = broke(now) /\ broke(after) \union fixed(after) = (broke(now) \union fixed(now)) \union {q}
          /\ q \notin broke(now) \union fixed(now)
      BY <1>3, <2>5
    <3> HIDE DEF broke, fixed
    <3> QED
      BY <2>2, <2>3, <2>4, <3>1, FixedByChance
  <2>6. CASE q \in before
    <3>1. /\ broke(now) = broke(after) \union {q} /\ q \notin broke(after)
          /\ broke(now) \union fixed(now) = (broke(after) \union fixed(after)) \union {q}
          /\ q \notin broke(after) \union fixed(after)
      BY <1>3, <2>6
    <3> HIDE DEF broke, fixed
    <3>2. PICK k \in Int : k = Cardinality(broke(now)) /\ Cardinality(broke(after)) = k - 1
      <4>1. PICK B : B = broke(after)
        OBVIOUS
      <4>2. IsFiniteSet(B) /\ q \notin B /\ broke(now) = B \union {q} /\ Cardinality(B) \in Int
        BY <2>2, <2>3, <3>1, <4>1
      <4>3. Cardinality(B \union {q}) = Cardinality(B) + 1
        BY ONLY <4>2, FS_AddElement
      <4>4. \A n \in Int : n + 1 \in Int /\ n = (n + 1) - 1
        OBVIOUS
      <4> QED
        BY <4>1, <4>2, <4>3, <4>4
    <3>3. PICK C : C = broke(after) \union fixed(after)
      OBVIOUS
    <3>4. IsFiniteSet(C) /\ q \notin C /\ ByChance(C \union {q}, k)
      BY <2>2, <2>4, <3>1, <3>2, <3>3
    <3>5. ByChance(C, k - 1)
      BY <3>4, LessBroken
    <3> QED
      BY <3>2, <3>3, <3>5
  <2> QED
    BY <2>5, <2>6
<1> QED
  BY <1>2, <1>3

\* A gate that passed was passed by what its file says was right.
GatesJudged == \A s \in DOMAIN gates : gates[s].passed => SlicesHold(Earlier[s], gates[s].right)

\* No gate that passed would fail with one more question right, for any slices,
\* tolerance and level of the sign test.
THEOREM GatesMonotone == RunSpec => []GateMonotone
<1>1. RunInit => GatesJudged
  BY DEF RunInit, GatesJudged
<1>2. GatesJudged /\ [RunNext]_runVars => GatesJudged'
  <2>1. SUFFICES ASSUME GatesJudged, [RunNext]_runVars PROVE GatesJudged'
    OBVIOUS
  <2>2. CASE GateSet
    <3>1. PICK r : /\ gates' = [gates EXCEPT ![Head(setsLeft)] = r]
                   /\ r = [of |-> OldestRead, passed |-> SlicesHold(Earlier[Head(setsLeft)], rightNow), right |-> rightNow]
      BY <2>2 DEF GateSet
    <3>2. DOMAIN gates' = DOMAIN gates /\ \A s \in DOMAIN gates : gates'[s] = IF s = Head(setsLeft) THEN r ELSE gates[s]
      BY <3>1
    <3>3. SUFFICES ASSUME NEW s \in DOMAIN gates, gates'[s].passed PROVE SlicesHold(Earlier[s], gates'[s].right)
      BY <3>2 DEF GatesJudged, SlicesHold, SliceHolds, ByChance
    <3> QED
      BY <2>1, <3>1, <3>2, <3>3 DEF GatesJudged
  <2>3. CASE UNCHANGED gates
    BY <2>1, <2>3 DEF GatesJudged, SlicesHold, SliceHolds, ByChance
  <2> QED
    BY <2>1, <2>2, <2>3 DEF RunNext, runVars, fileVars, StartRun, ParseStep, OpenOutput, StageReturns, StageRaises,
       Kill, ScoreSet, EvalReturns, RecordStep, Leave
<1>3. GatesJudged => GateMonotone
  <2>1. SUFFICES ASSUME NEW before, NEW now, NEW q, SlicesHold(before, now) PROVE SlicesHold(before, now \union {q})
    BY DEF GatesJudged, GateMonotone
  <2> QED
    BY <2>1, SliceStays, GateAssumption DEF SlicesHold
<1> QED
  BY <1>1, <1>2, <1>3, PTL DEF RunSpec

-----------------------------------------------------------------------------
(* TrainLoop: the schedule *)

\* Ceil is the least number of groups of b that hold a.
LEMMA CeilIs ==
  ASSUME NEW a \in Nat, NEW b \in Nat \ {0}
  PROVE  /\ Ceil(a, b) \in Nat /\ a <= b * Ceil(a, b) /\ b * Ceil(a, b) < a + b
<1> DEFINE n == a + b - 1
<1>1. n \in Nat /\ b > 0 /\ b \in Int
  OBVIOUS
<1>2. n = b * (n \div b) + (n % b) /\ n \div b \in Nat /\ n % b \in 0 .. (b - 1)
  BY <1>1
<1> QED
  BY <1>1, <1>2 DEF Ceil

\* No other number of groups will do.
LEMMA CeilOnly ==
  ASSUME NEW a \in Nat, NEW b \in Nat \ {0}, NEW q \in Nat, a <= b * q, b * q < a + b
  PROVE  q = Ceil(a, b)
<1>1. PICK c \in Nat : c = Ceil(a, b) /\ a <= b * c /\ b * c < a + b
  BY CeilIs
<1>2. ~(q < c)
  <2>1. SUFFICES ASSUME q + 1 <= c PROVE FALSE
    BY <1>1
  <2>2. b * (q + 1) <= b * c /\ b * (q + 1) = b * q + b
    BY <1>1, <2>1
  <2> QED
    BY <1>1, <2>2
<1>3. ~(c < q)
  <2>1. SUFFICES ASSUME c + 1 <= q PROVE FALSE
    BY <1>1
  <2>2. b * (c + 1) <= b * q /\ b * (c + 1) = b * c + b
    BY <1>1, <2>1
  <2> QED
    BY <1>1, <2>2
<1> QED
  BY <1>1, <1>2, <1>3

\* Groups of groups: a last, smaller batch and a last, smaller update make one.
LEMMA CeilCeil ==
  ASSUME NEW n \in Nat, NEW b \in Nat \ {0}, NEW a \in Nat \ {0}
  PROVE  Ceil(Ceil(n, b), a) = Ceil(n, b * a)
<1>1. PICK g \in Nat : g = Ceil(n, b) /\ n <= b * g /\ b * g < n + b
  BY CeilIs
<1>2. PICK s \in Nat : s = Ceil(g, a) /\ g <= a * s /\ a * s < g + a
  BY CeilIs
<1>3. b * a \in Nat \ {0} /\ (b * a) * s = b * (a * s)
  OBVIOUS
<1>4. b * g <= b * (a * s)
  BY <1>2
<1>5. b * (a * s) <= b * (g + a - 1) /\ b * (g + a - 1) = b * g + b * a - b
  BY <1>2
<1>6. n <= (b * a) * s /\ (b * a) * s < n + b * a
  BY <1>1, <1>3, <1>4, <1>5
<1> QED
  BY <1>1, <1>2, <1>3, <1>6, CeilOnly

\* Updates made within an epoch, after so many of g batches.
Made(b, g, a) == IF b = g THEN Ceil(g, a) ELSE b \div a

\* One batch more makes one update more where the loop makes one.
LEMMA MadeGrows ==
  ASSUME NEW a \in Nat \ {0}, NEW g \in Nat, NEW b \in 0 .. g
  PROVE  /\ Made(b, g, a) \in Nat /\ Made(b, g, a) <= Ceil(g, a) /\ Made(0, g, a) = 0
         /\ b < g => Made(b + 1, g, a) =
              IF (b + 1) % a = 0 \/ b + 1 = g THEN Made(b, g, a) + 1 ELSE Made(b, g, a)
<1>1. /\ b = a * (b \div a) + (b % a) /\ b \div a \in Nat /\ b % a \in 0 .. (a - 1)
      /\ b + 1 = a * ((b + 1) \div a) + ((b + 1) % a) /\ (b + 1) \div a \in Nat /\ (b + 1) % a \in 0 .. (a - 1)
  OBVIOUS
<1>2. PICK q \in Nat : q = b \div a
  BY <1>1
<1>3. PICK r \in Nat : r = (b + 1) \div a
  BY <1>1
<1>4. PICK c \in Nat : c = Ceil(g, a) /\ g <= a * c /\ a * c < g + a
  BY CeilIs
<1>5. a * q <= b /\ b < a * q + a /\ a * r <= b + 1 /\ b + 1 < a * r + a
  BY <1>1, <1>2, <1>3
<1>6. q <= r /\ r <= q + 1
  <2>1. ~(r < q)
    <3>1. SUFFICES ASSUME r + 1 <= q PROVE FALSE
      OBVIOUS
    <3>2. a * (r + 1) <= a * q /\ a * (r + 1) = a * r + a
      BY <3>1
    <3> QED
      BY <1>5, <3>2
  <2>2. ~(r > q + 1)
    <3>1. SUFFICES ASSUME q + 2 <= r PROVE FALSE
      OBVIOUS
    <3>2. a * (q + 2) <= a * r /\ a * (q + 2) = a * q + a + a
      BY <3>1
    <3> QED
      BY <1>5, <3>2
  <2> QED
    BY <2>1, <2>2
<1>7. (b + 1) % a = 0 => r = q + 1
  <2>1. SUFFICES ASSUME (b + 1) % a = 0, r = q PROVE FALSE
    BY <1>6
  <2> QED
    BY <1>1, <1>2, <1>3, <1>5, <2>1
<1>8. (b + 1) % a # 0 => r = q
  <2>1. SUFFICES ASSUME (b + 1) % a # 0, r = q + 1 PROVE FALSE
    BY <1>6
  <2>2. a * r = a * q + a
    BY <2>1
  <2> QED
    BY <1>1, <1>2, <1>3, <1>5, <2>1, <2>2
<1>9. b + 1 = g => c = q + 1
  <2>1. SUFFICES ASSUME b + 1 = g PROVE q + 1 = Ceil(g, a)
    BY <1>4
  <2>2. a * (q + 1) = a * q + a
    OBVIOUS
  <2>3. g <= a * (q + 1) /\ a * (q + 1) < g + a
    BY <1>5, <2>1, <2>2
  <2> QED
    BY <2>3, CeilOnly
<1>10. b < g => q <= c
  <2>1. SUFFICES ASSUME b < g, c + 1 <= q PROVE FALSE
    BY <1>4
  <2>2. a * (c + 1) <= a * q /\ a * (c + 1) = a * c + a
    BY <1>4, <2>1
  <2> QED
    BY <1>4, <1>5, <2>1, <2>2
<1>11. Made(0, g, a) = 0
  <2>1. Ceil(0, a) = 0
    <3>1. 0 <= a * 0 /\ a * 0 < 0 + a
      OBVIOUS
    <3> QED
      BY <3>1, CeilOnly
  <2>2. 0 \div a = 0
    OBVIOUS
  <2> QED
    BY <2>1, <2>2 DEF Made
<1>12. b < g => /\ Made(b, g, a) = q
                /\ Made(b + 1, g, a) = IF b + 1 = g THEN c ELSE r
  BY <1>2, <1>3, <1>4 DEF Made
<1>13. b = g => Made(b, g, a) = c
  BY <1>4 DEF Made
<1> QED
  BY <1>4, <1>2, <1>7, <1>8, <1>9, <1>10, <1>11, <1>12, <1>13

-----------------------------------------------------------------------------
(* TrainLoop: the invariant *)

TrainPlace ==
  /\ recipe \in [items : 0 .. MaxItems, batch : BatchSizes, accum : Accums, warmup : Warmups]
  /\ trainAt \in {"idle", "batch", "save", "save_config", "calibrate", "package"}
  /\ epoch \in Nat /\ batchNo \in Nat /\ updates \in Nat /\ runs \in Nat

\* Every update so far is one the schedule counts on, each at its place.
UpdatesCounted ==
  /\ updates <= StepsPerEpoch * Epochs
  /\ trainAt = "batch" =>
       /\ epoch \in 1 .. Epochs /\ batchNo \in 0 .. Groups
       /\ updates = StepsPerEpoch * (epoch - 1) + Made(batchNo, Groups, recipe.accum)
  /\ trainAt \in {"save", "save_config"} => epoch \in 1 .. Epochs /\ updates = StepsPerEpoch * epoch
  /\ trainAt = "calibrate" => updates = StepsPerEpoch * Epochs

\* The best so far is one of the epochs of this run, and none of them did better.
BestSoFar ==
  /\ scoreOf \in Seq(Scores)
  /\ trainAt = "batch" => Len(scoreOf) = epoch - 1
  /\ trainAt \in {"save", "save_config"} => Len(scoreOf) = epoch
  /\ trainAt \in {"calibrate", "package"} => scoreOf # <<>>
  /\ IF scoreOf = <<>> THEN best.epoch = 0
     ELSE best.epoch \in DOMAIN scoreOf /\ best.score = scoreOf[best.epoch]
  /\ scoreOf # <<>> /\ scoreOf[1] # NaN =>
       best.score # NaN /\ \A e \in DOMAIN scoreOf : scoreOf[e] # NaN => best.score <= scoreOf[e]

\* What is saved is the best, and what is packaged is of one epoch.
SavedIsBest ==
  /\ checkpoint = [weights |-> checkpoint.weights, config |-> checkpoint.config, fitted |-> checkpoint.fitted]
  /\ trainAt \in {"batch", "calibrate", "package"} /\ best.epoch # 0 =>
       checkpoint.weights = <<runs, best.epoch>> /\ checkpoint.config = <<runs, best.epoch>>
  /\ trainAt \in {"save", "save_config"} => best.epoch = epoch
  /\ trainAt = "save_config" => checkpoint.weights = <<runs, epoch>>
  /\ trainAt = "package" => checkpoint.fitted = checkpoint.weights
  /\ packaged.weights = packaged.config /\ packaged.fitted = packaged.weights

TrainInv == TrainPlace /\ UpdatesCounted /\ BestSoFar /\ SavedIsBest

\* The plan's numbers are numbers.
LEMMA RecipeFacts ==
  ASSUME TrainPlace
  PROVE  /\ recipe.items \in Nat /\ recipe.batch \in Nat \ {0} /\ recipe.accum \in Nat \ {0} /\ recipe.warmup \in 0 .. 100
         /\ Groups \in Nat /\ StepsPerEpoch \in Nat /\ StepsPerEpoch = Ceil(Groups, recipe.accum)
         /\ Epochs \in Nat \ {0}
<1>1. recipe.items \in Nat /\ recipe.batch \in Nat \ {0} /\ recipe.accum \in Nat \ {0} /\ recipe.warmup \in 0 .. 100
  <2>1. recipe.items \in 0 .. MaxItems /\ recipe.batch \in BatchSizes /\ recipe.accum \in Accums /\ recipe.warmup \in Warmups
    BY DEF TrainPlace
  <2>2. recipe.items \in Nat
    BY <2>1, TrainAssumption
  <2>3. recipe.batch \in Nat \ {0} /\ recipe.accum \in Nat \ {0}
    BY <2>1, TrainAssumption
  <2>4. recipe.warmup \in 0 .. 100
    BY <2>1, TrainAssumption
  <2> QED
    BY <2>2, <2>3, <2>4
<1>2. recipe.batch * recipe.accum \in Nat \ {0}
  BY <1>1
<1>3. Groups \in Nat /\ StepsPerEpoch \in Nat
  BY <1>1, <1>2, CeilIs DEF Groups, StepsPerEpoch
<1>4. StepsPerEpoch = Ceil(Groups, recipe.accum)
  BY <1>1, CeilCeil DEF Groups, StepsPerEpoch
<1> QED
  BY <1>1, <1>3, <1>4, TrainAssumption

\* The plan is the recipe's.
LEMMA SamePlan == ASSUME recipe' = recipe PROVE Groups' = Groups /\ StepsPerEpoch' = StepsPerEpoch
  BY DEF Groups, StepsPerEpoch

\* Before the first run.
LEMMA TrainBegins == TrainInit => TrainInv
<1> SUFFICES ASSUME TrainInit PROVE TrainInv
  OBVIOUS
<1>1. TrainPlace
  BY TrainAssumption DEF TrainInit, TrainPlace
<1>2. UpdatesCounted
  <2>1. StepsPerEpoch * Epochs \in Nat
    BY <1>1, RecipeFacts
  <2> QED
    BY <2>1 DEF TrainInit, UpdatesCounted
<1>3. BestSoFar
  BY DEF TrainInit, BestSoFar, None0
<1>4. SavedIsBest
  BY DEF TrainInit, SavedIsBest, None0, NoFiles
<1> QED
  BY <1>1, <1>2, <1>3, <1>4 DEF TrainInv

\* A run starts its count of updates and its best epoch anew.
LEMMA RunStartsStep == ASSUME TrainInv, RunStarts PROVE TrainInv'
<1> USE DEF TrainInv
<1>1. /\ runs' = runs + 1 /\ trainAt' = "batch" /\ epoch' = 1 /\ batchNo' = 0 /\ updates' = 0
      /\ scoreOf' = <<>> /\ best' = None0 /\ UNCHANGED <<recipe, checkpoint, packaged>>
  BY DEF RunStarts
<1>2. TrainPlace'
  BY <1>1 DEF TrainPlace
<1>3. UpdatesCounted'
  <2>1. /\ Groups \in Nat /\ StepsPerEpoch \in Nat /\ Epochs \in Nat \ {0} /\ recipe.accum \in Nat \ {0}
        /\ Groups' = Groups /\ StepsPerEpoch' = StepsPerEpoch
    BY <1>1, RecipeFacts, SamePlan
  <2>2. Made(0, Groups, recipe.accum) = 0 /\ StepsPerEpoch * 0 = 0 /\ StepsPerEpoch * Epochs \in Nat
    <3>1. 0 \in 0 .. Groups
      BY <2>1
    <3>2. Made(0, Groups, recipe.accum) = 0
      BY <2>1, <3>1, MadeGrows
    <3> QED
      BY <2>1, <3>2
  <2> QED
    BY <1>1, <2>1, <2>2 DEF UpdatesCounted
<1>4. BestSoFar' /\ SavedIsBest'
  BY <1>1 DEF BestSoFar, SavedIsBest, None0
<1> QED
  BY <1>2, <1>3, <1>4

\* A batch: an update where the accumulation is full or the epoch ends.
LEMMA BatchStep == ASSUME TrainInv, Batch PROVE TrainInv'
<1> USE DEF TrainInv
<1>1. /\ trainAt = "batch" /\ batchNo < Groups /\ batchNo' = batchNo + 1
      /\ updates' = IF batchNo' % recipe.accum = 0 \/ batchNo' = Groups THEN updates + 1 ELSE updates
      /\ UNCHANGED <<trainAt, epoch, scoreOf, best, recipe, checkpoint, packaged, runs>>
  BY DEF Batch, loopVars
<1>2. TrainPlace'
  BY <1>1 DEF TrainPlace
<1>3. UpdatesCounted'
  <2>1. /\ Groups \in Nat /\ StepsPerEpoch \in Nat /\ StepsPerEpoch = Ceil(Groups, recipe.accum) /\ Epochs \in Nat \ {0}
        /\ recipe.accum \in Nat \ {0} /\ Groups' = Groups /\ StepsPerEpoch' = StepsPerEpoch
    BY <1>1, RecipeFacts, SamePlan
  <2>2. /\ epoch \in 1 .. Epochs /\ batchNo \in 0 .. Groups
        /\ updates = StepsPerEpoch * (epoch - 1) + Made(batchNo, Groups, recipe.accum)
    BY <1>1 DEF UpdatesCounted
  <2>3. /\ Made(batchNo, Groups, recipe.accum) \in Nat
        /\ Made(batchNo', Groups, recipe.accum) =
             IF batchNo' % recipe.accum = 0 \/ batchNo' = Groups THEN Made(batchNo, Groups, recipe.accum) + 1
             ELSE Made(batchNo, Groups, recipe.accum)
    BY <1>1, <2>1, <2>2, MadeGrows
  <2>4. StepsPerEpoch * (epoch - 1) \in Nat
    BY <2>1, <2>2
  <2>5. updates' = StepsPerEpoch * (epoch - 1) + Made(batchNo', Groups, recipe.accum)
    BY <1>1, <2>2, <2>3, <2>4
  <2>6. Made(batchNo', Groups, recipe.accum) \in Nat /\ Made(batchNo', Groups, recipe.accum) <= StepsPerEpoch
    <3>1. batchNo' \in 0 .. Groups
      BY <1>1, <2>1, <2>2
    <3> QED
      BY <2>1, <3>1, MadeGrows
  <2>7. StepsPerEpoch * (epoch - 1) + StepsPerEpoch <= StepsPerEpoch * Epochs
    <3>1. StepsPerEpoch * (epoch - 1) + StepsPerEpoch = StepsPerEpoch * epoch
      BY <2>1, <2>2
    <3>2. StepsPerEpoch * epoch <= StepsPerEpoch * Epochs
      BY <2>1, <2>2
    <3> QED
      BY <3>1, <3>2
  <2>8. updates' <= StepsPerEpoch * Epochs
    <3>1. StepsPerEpoch * Epochs \in Nat
      BY <2>1
    <3> QED
      BY <2>4, <2>5, <2>6, <2>7, <2>1, <3>1
  <2> QED
    BY <1>1, <2>1, <2>2, <2>5, <2>8 DEF UpdatesCounted
<1>4. BestSoFar' /\ SavedIsBest'
  BY <1>1 DEF BestSoFar, SavedIsBest
<1> QED
  BY <1>2, <1>3, <1>4

\* The epoch is scored, and is the best if none before it was at least as good.
LEMMA EpochEndsStep == ASSUME TrainInv, EpochEnds PROVE TrainInv'
<1> USE DEF TrainInv
<1>1. PICK score \in Scores :
        /\ scoreOf' = Append(scoreOf, score)
        /\ IF Better(score)
           THEN /\ trainAt' = "save" /\ best' = [score |-> score, epoch |-> epoch]
                /\ UNCHANGED <<epoch, batchNo>>
           ELSE /\ epoch' = epoch + 1 /\ batchNo' = 0
                /\ trainAt' = (IF epoch = Epochs THEN "calibrate" ELSE "batch") /\ UNCHANGED best
  BY DEF EpochEnds
<1>2. trainAt = "batch" /\ batchNo = Groups /\ UNCHANGED <<updates, recipe, checkpoint, packaged, runs>>
  BY DEF EpochEnds, loopVars
<1>3. /\ Groups \in Nat /\ StepsPerEpoch \in Nat /\ StepsPerEpoch = Ceil(Groups, recipe.accum) /\ Epochs \in Nat \ {0}
      /\ recipe.accum \in Nat \ {0} /\ Groups' = Groups /\ StepsPerEpoch' = StepsPerEpoch
  BY <1>2, RecipeFacts, SamePlan
<1>4. epoch \in 1 .. Epochs /\ updates = StepsPerEpoch * epoch /\ updates <= StepsPerEpoch * Epochs
  <2>1. Made(batchNo, Groups, recipe.accum) = StepsPerEpoch
    BY <1>2, <1>3 DEF Made
  <2>2. epoch \in 1 .. Epochs /\ updates = StepsPerEpoch * (epoch - 1) + StepsPerEpoch /\ updates <= StepsPerEpoch * Epochs
    BY <1>2, <2>1 DEF UpdatesCounted
  <2>3. StepsPerEpoch * (epoch - 1) + StepsPerEpoch = StepsPerEpoch * epoch
    BY <1>3, <2>2
  <2> QED
    BY <2>2, <2>3
<1>5. /\ scoreOf \in Seq(Scores) /\ Len(scoreOf) = epoch - 1 /\ epoch \in Nat
      /\ scoreOf' \in Seq(Scores) /\ Len(scoreOf') = epoch /\ scoreOf'[epoch] = score
      /\ DOMAIN scoreOf = 1 .. (epoch - 1) /\ DOMAIN scoreOf' = 1 .. epoch
      /\ \A e \in 1 .. (epoch - 1) : scoreOf'[e] = scoreOf[e]
      /\ scoreOf' # <<>> /\ (scoreOf = <<>> <=> epoch = 1)
  BY <1>1, <1>2, <1>4 DEF BestSoFar
<1>6. \A s \in Scores : s # NaN => s \in Int
  BY TrainAssumption
<1>7. /\ scoreOf # <<>> => best.epoch \in 1 .. (epoch - 1) /\ best.score = scoreOf[best.epoch]
      /\ scoreOf = <<>> => best.epoch = 0
      /\ scoreOf # <<>> /\ scoreOf[1] # NaN =>
           best.score # NaN /\ \A e \in 1 .. (epoch - 1) : scoreOf[e] # NaN => best.score <= scoreOf[e]
  BY <1>5 DEF BestSoFar
<1>8. ASSUME Better(score) PROVE TrainInv'
  <2>1. /\ trainAt' = "save" /\ best'.score = score /\ best'.epoch = epoch /\ epoch' = epoch /\ batchNo' = batchNo
    BY <1>1, <1>8
  <2>2. TrainPlace'
    BY <1>2, <2>1 DEF TrainPlace
  <2>3. UpdatesCounted'
    BY <1>2, <1>3, <1>4, <2>1 DEF UpdatesCounted
  <2>4. scoreOf'[1] # NaN => score # NaN /\ \A e \in 1 .. epoch : scoreOf'[e] # NaN => score <= scoreOf'[e]
    <3>1. CASE epoch = 1
      BY <1>5, <1>6, <3>1
    <3>2. CASE epoch # 1 /\ scoreOf'[1] # NaN
      <4>1. scoreOf # <<>> /\ scoreOf[1] # NaN /\ best.epoch # 0
        BY <1>4, <1>5, <1>7, <3>2
      <4>2. best.score \in Int /\ score \in Int /\ score < best.score
        BY <1>5, <1>6, <1>7, <1>8, <4>1 DEF Better
      <4>3. \A e \in 1 .. (epoch - 1) : scoreOf[e] # NaN => scoreOf[e] \in Int /\ best.score <= scoreOf[e]
        BY <1>5, <1>6, <1>7, <4>1
      <4>4. \A e \in 1 .. epoch : e = epoch \/ e \in 1 .. (epoch - 1)
        BY <1>4
      <4>5. score # NaN
        BY <1>8, <4>1 DEF Better
      <4> QED
        BY <1>5, <4>2, <4>3, <4>4, <4>5
    <3> QED
      BY <3>1, <3>2
  <2>5. BestSoFar'
    BY <1>4, <1>5, <2>1, <2>4 DEF BestSoFar
  <2>6. SavedIsBest'
    BY <1>2, <2>1 DEF SavedIsBest
  <2> QED
    BY <2>2, <2>3, <2>5, <2>6
<1>9. ASSUME ~Better(score) PROVE TrainInv'
  <2>1. /\ trainAt' = (IF epoch = Epochs THEN "calibrate" ELSE "batch") /\ best' = best
        /\ epoch' = epoch + 1 /\ batchNo' = 0
    BY <1>1, <1>9
  <2>2. TrainPlace'
    BY <1>2, <2>1 DEF TrainPlace
  <2>3. UpdatesCounted'
    <3>1. Made(0, Groups, recipe.accum) = 0
      <4>1. 0 \in 0 .. Groups
        BY <1>3
      <4> QED
        BY <1>3, <4>1, MadeGrows
    <3>2. epoch' - 1 = epoch /\ (epoch # Epochs => epoch' \in 1 .. Epochs)
      BY <1>3, <1>4, <2>1
    <3>3. updates = StepsPerEpoch * (epoch' - 1) + 0
      BY <1>3, <1>4, <3>2
    <3> QED
      BY <1>2, <1>3, <1>4, <2>1, <3>1, <3>2, <3>3 DEF UpdatesCounted
  <2>4. best.epoch # 0 /\ scoreOf # <<>>
    BY <1>7, <1>9 DEF Better
  <2>5. scoreOf'[1] # NaN => best.score # NaN /\ \A e \in 1 .. epoch : scoreOf'[e] # NaN => best.score <= scoreOf'[e]
    <3>1. SUFFICES ASSUME scoreOf'[1] # NaN
                   PROVE  best.score # NaN /\ \A e \in 1 .. epoch : scoreOf'[e] # NaN => best.score <= scoreOf'[e]
      OBVIOUS
    <3>2. epoch # 1 /\ scoreOf[1] # NaN
      BY <1>4, <1>5, <2>4, <3>1
    <3>3. best.score # NaN /\ \A e \in 1 .. (epoch - 1) : scoreOf[e] # NaN => best.score <= scoreOf[e]
      BY <1>7, <2>4, <3>2
    <3>4. best.score \in Int
      BY <1>5, <1>6, <1>7, <2>4, <3>3
    <3>5. score # NaN => best.score <= score
      BY <1>6, <1>9, <2>4, <3>3, <3>4 DEF Better
    <3>6. \A e \in 1 .. epoch : e = epoch \/ e \in 1 .. (epoch - 1)
      BY <1>4
    <3> QED
      BY <1>5, <3>3, <3>5, <3>6
  <2>6. BestSoFar'
    BY <1>4, <1>5, <1>7, <2>1, <2>4, <2>5 DEF BestSoFar
  <2>7. SavedIsBest'
    BY <1>2, <2>1 DEF SavedIsBest
  <2> QED
    BY <2>2, <2>3, <2>6, <2>7
<1> QED
  BY <1>8, <1>9

\* The weights of the best epoch replace those saved before.
LEMMA SaveWeightsStep == ASSUME TrainInv, SaveWeights PROVE TrainInv'
<1> USE DEF TrainInv
<1>1. /\ trainAt = "save" /\ trainAt' = "save_config"
      /\ checkpoint' = [checkpoint EXCEPT !.weights = <<runs, epoch>>]
      /\ UNCHANGED <<recipe, epoch, batchNo, updates, scoreOf, best, packaged, runs>>
  BY DEF SaveWeights
<1>2. TrainPlace'
  BY <1>1 DEF TrainPlace
<1>3. UpdatesCounted'
  BY <1>1, SamePlan DEF UpdatesCounted
<1>4. BestSoFar'
  BY <1>1 DEF BestSoFar
<1>5. SavedIsBest'
  BY <1>1 DEF SavedIsBest
<1> QED
  BY <1>2, <1>3, <1>4, <1>5

\* Then their config; the run ends with its last epoch.
LEMMA SaveConfigStep == ASSUME TrainInv, SaveConfig PROVE TrainInv'
<1> USE DEF TrainInv
<1>1. /\ trainAt = "save_config" /\ trainAt' = (IF epoch = Epochs THEN "calibrate" ELSE "batch")
      /\ checkpoint' = [checkpoint EXCEPT !.config = <<runs, epoch>>, !.fitted = <<>>]
      /\ epoch' = epoch + 1 /\ batchNo' = 0
      /\ UNCHANGED <<recipe, updates, scoreOf, best, packaged, runs>>
  BY DEF SaveConfig
<1>2. TrainPlace'
  BY <1>1 DEF TrainPlace
<1>3. /\ Groups \in Nat /\ StepsPerEpoch \in Nat /\ Epochs \in Nat \ {0} /\ recipe.accum \in Nat \ {0}
      /\ Groups' = Groups /\ StepsPerEpoch' = StepsPerEpoch
  BY <1>1, RecipeFacts, SamePlan
<1>4. epoch \in 1 .. Epochs /\ updates = StepsPerEpoch * epoch /\ updates <= StepsPerEpoch * Epochs
  BY <1>1 DEF UpdatesCounted
<1>5. UpdatesCounted'
  <2>1. Made(0, Groups, recipe.accum) = 0
    <3>1. 0 \in 0 .. Groups
      BY <1>3
    <3> QED
      BY <1>3, <3>1, MadeGrows
  <2>2. epoch' - 1 = epoch /\ (epoch # Epochs => epoch' \in 1 .. Epochs)
    BY <1>1, <1>3, <1>4
  <2>3. updates = StepsPerEpoch * (epoch' - 1) + 0
    BY <1>3, <1>4, <2>2
  <2> QED
    BY <1>1, <1>3, <1>4, <2>1, <2>2, <2>3 DEF UpdatesCounted
<1>6. BestSoFar'
  <2>1. scoreOf \in Seq(Scores) /\ Len(scoreOf) = epoch /\ scoreOf # <<>>
    BY <1>1, <1>4 DEF BestSoFar
  <2>2. Len(scoreOf) = epoch' - 1
    BY <1>1, <1>4, <2>1
  <2> QED
    BY <1>1, <2>1, <2>2 DEF BestSoFar
<1>7. SavedIsBest'
  BY <1>1 DEF SavedIsBest
<1> QED
  BY <1>2, <1>5, <1>6, <1>7

\* What comes after training reads what is saved, and a kill stops all of it.
LEMMA HandOnSteps == ASSUME TrainInv, Calibrate \/ Package \/ PipelineKilled PROVE TrainInv'
<1> USE DEF TrainInv
<1>1. UNCHANGED <<recipe, epoch, batchNo, updates, scoreOf, best, runs>>
  BY DEF Calibrate, Package, PipelineKilled
<1>2. \/ /\ trainAt = "calibrate" /\ trainAt' = "package" /\ packaged' = packaged
         /\ checkpoint' = [checkpoint EXCEPT !.fitted = checkpoint.weights]
      \/ trainAt = "package" /\ trainAt' = "idle" /\ packaged' = checkpoint /\ checkpoint' = checkpoint
      \/ trainAt' = "idle" /\ packaged' = packaged /\ checkpoint' = checkpoint
  BY DEF Calibrate, Package, PipelineKilled
<1>3. TrainPlace'
  BY <1>1, <1>2 DEF TrainPlace
<1>4. UpdatesCounted'
  BY <1>1, <1>2, SamePlan DEF UpdatesCounted
<1>5. BestSoFar'
  BY <1>1, <1>2 DEF BestSoFar
<1>6. trainAt = "package" => best.epoch # 0 /\ checkpoint.weights = checkpoint.config
  <2>1. trainAt = "package" => scoreOf # <<>> /\ best.epoch \in DOMAIN scoreOf /\ scoreOf \in Seq(Scores)
    BY DEF BestSoFar
  <2>2. trainAt = "package" => best.epoch # 0
    BY <2>1
  <2> QED
    BY <2>2 DEF SavedIsBest
<1>7. SavedIsBest'
  BY <1>1, <1>2, <1>6 DEF SavedIsBest
<1> QED
  BY <1>3, <1>4, <1>5, <1>7

\* Every step of training keeps the invariant.
LEMMA TrainSteps == ASSUME TrainInv, [TrainNext]_trainVars PROVE TrainInv'
<1>1. CASE UNCHANGED trainVars
  BY <1>1, SamePlan DEF trainVars, TrainInv, TrainPlace, UpdatesCounted, BestSoFar, SavedIsBest
<1>2. CASE TrainNext
  BY <1>2, RunStartsStep, BatchStep, EpochEndsStep, SaveWeightsStep, SaveConfigStep, HandOnSteps DEF TrainNext
<1> QED
  BY <1>1, <1>2

(* The inductive invariant of training: every update has its place in the
   schedule, the best so far is the best, and what is saved is of it. *)
THEOREM TrainCorrect == TrainSpec => []TrainInv
  BY TrainBegins, TrainSteps, PTL DEF TrainSpec

\* What the schedule says of a step it counts on.
LEMMA RateRight ==
  ASSUME TrainPlace, NEW step \in Nat, step < StepsPerEpoch * Epochs
  PROVE  0 < Scale(step)[1] /\ Scale(step)[1] <= Scale(step)[2]
<1>1. StepsPerEpoch * Epochs \in Nat /\ recipe.warmup \in 0 .. 100
  BY RecipeFacts
<1>2. PICK t \in Nat : t = TotalSteps /\ t = StepsPerEpoch * Epochs /\ step < t
  BY <1>1 DEF TotalSteps, AtLeast1
<1>3. PICK w : w = WarmupSteps
  OBVIOUS
<1>4. w \in Nat /\ w <= t
  <2>1. recipe.warmup * t \in Nat /\ recipe.warmup * t <= 100 * t
    BY <1>1, <1>2
  <2>2. w = (recipe.warmup * t) \div 100
    BY <1>2, <1>3 DEF WarmupSteps
  <2> QED
    BY <1>2, <2>1, <2>2
<1>5. CASE step < w
  <2>1. Scale(step) = <<step + 1, w>>
    BY <1>3, <1>4, <1>5 DEF Scale, AtLeast1
  <2> QED
    BY <1>4, <1>5, <2>1
<1>6. CASE ~(step < w)
  <2>1. t > step /\ t - w >= 1
    BY <1>2, <1>4, <1>6
  <2>2. Scale(step) = <<t - step, t - w>>
    BY <1>2, <1>3, <1>4, <1>6, <2>1 DEF Scale, AtLeast1
  <2> QED
    BY <1>2, <1>4, <1>6, <2>1, <2>2
<1> QED
  BY <1>5, <1>6

(* For any number of items, batches, epochs and any scores, killed and run
   again: every update is made at a rate above 0 and not above the full one,
   and what is packaged is the best epoch of one run, with its temperatures. *)
THEOREM TrainsAsPlanned == TrainSpec => []TrainingSound
<1>1. ASSUME TrainInv PROVE TrainingSound
  <2> USE <1>1 DEF TrainInv
  <2>1. UpdatesScheduled
    <3>1. updates > 0 => updates - 1 \in Nat /\ updates - 1 < StepsPerEpoch * Epochs
      <4>1. StepsPerEpoch * Epochs \in Nat /\ updates \in Nat
        BY RecipeFacts DEF TrainPlace
      <4> QED
        BY <4>1 DEF UpdatesCounted
    <3> QED
      BY <3>1, RateRight DEF UpdatesScheduled, UpdatesCounted
  <2>2. packaged.weights = packaged.config /\ packaged.fitted = packaged.weights
    BY DEF SavedIsBest
  <2>3. trainAt = "package" => checkpoint.weights = <<runs, best.epoch>> /\ scoreOf # <<>> /\ best.score = scoreOf[best.epoch]
    <3>1. trainAt = "package" => scoreOf # <<>> /\ scoreOf \in Seq(Scores) /\ best.epoch \in DOMAIN scoreOf
      BY DEF BestSoFar
    <3>2. trainAt = "package" => best.epoch # 0
      BY <3>1
    <3> QED
      BY <3>1, <3>2 DEF SavedIsBest, BestSoFar
  <2>4. PackagesTheBest
    BY <2>2, <2>3 DEF PackagesTheBest, BestSoFar
  <2> QED
    BY <2>1, <2>4 DEF TrainingSound
<1> QED
  BY <1>1, TrainCorrect, PTL

-----------------------------------------------------------------------------
(* Induction.  An induction theorem with an operator for its parameter cannot
   be instantiated; these speak of sets. *)

\* Every set of numbers that is not empty has a least one.
LEMMA LeastNumber == ASSUME NEW T, T \subseteq Nat, T # {} PROVE \E x \in T : \A y \in T : x <= y
<1>1. PICK R : R = OpToRel(<, Nat)
  OBVIOUS
<1>2. IsWellFoundedOn(R, Nat)
  BY <1>1, NatLessThanWellFounded
<1>3. PICK x \in T : \A y \in T : ~ (<<y, x>> \in R)
  BY <1>2, WFMin
<1>4. \A y \in T : y < x => <<y, x>> \in R
  BY <1>1 DEF OpToRel
<1>5. ASSUME NEW y \in T PROVE x <= y
  <2>1. ~(y < x)
    BY <1>3, <1>4
  <2> QED
    BY <2>1
<1> QED
  BY <1>5

\* A set with 0 and with the successor of all it has holds every number.
LEMMA AllNumbers == ASSUME NEW S, 0 \in S, \A n \in Nat : n \in S => n + 1 \in S PROVE Nat \subseteq S
<1> DEFINE T == {n \in Nat : n \notin S}
<1>1. SUFFICES ASSUME T # {} PROVE FALSE
  OBVIOUS
<1>2. PICK x \in T : \A y \in T : x <= y
  BY <1>1, LeastNumber
<1>3. x # 0 /\ x - 1 \in Nat /\ x - 1 \notin T
  BY <1>2
<1> QED
  BY <1>2, <1>3

-----------------------------------------------------------------------------
(* TrainData: the groups of a split *)

\* The groups divide the records among them.
Divides(groups, n) ==
  /\ \A g \in groups : g \subseteq 1..n
  /\ \A k \in 1..n : \E g \in groups : k \in g
  /\ \A g, h \in groups : g \intersect h # {} => g = h

Together(groups, i, j) == \A g \in groups : i \in g <=> j \in g

\* The first record with the key of record i.
LEMMA FirstIs ==
  ASSUME NEW key, NEW i \in Nat \ {0}
  PROVE  FirstOf(key, i) \in 1..i /\ key[FirstOf(key, i)] = key[i] /\ \A k \in 1..(FirstOf(key, i) - 1) : key[k] # key[i]
<1> DEFINE T == {j \in 1..i : key[j] = key[i]}
<1>1. PICK x \in T : \A y \in T : x <= y
  <2>1. i \in T /\ T \subseteq Nat
    OBVIOUS
  <2> HIDE DEF T
  <2> QED
    BY <2>1, LeastNumber
<1>2. \A k \in 1..(x - 1) : key[k] # key[i]
  BY <1>1
<1> QED
  BY <1>1, <1>2 DEF FirstOf

\* Two groups become one.
LEMMA MergedIs ==
  ASSUME NEW n \in Nat, NEW groups, Divides(groups, n), NEW i \in 1..n, NEW j \in 1..n
  PROVE  /\ Divides(Merged(groups, i, j), n) /\ Together(Merged(groups, i, j), i, j)
         /\ \A a, b \in 1..n : Together(groups, a, b) => Together(Merged(groups, i, j), a, b)
<1> DEFINE both == {g \in groups : i \in g \/ j \in g}
           new == UNION both
           after == (groups \ both) \union {new}
<1>1. Merged(groups, i, j) = after
  <2>1. \A g : {i, j} \intersect g # {} <=> i \in g \/ j \in g
    OBVIOUS
  <2> QED
    BY <2>1 DEF Merged
<1>2. i \in new /\ j \in new /\ new \subseteq 1..n
  BY DEF Divides
<1>3. \A g \in groups \ both : g \intersect new = {}
  BY DEF Divides
<1>4. Divides(after, n)
  <2>1. \A g \in after : g \subseteq 1..n
    BY <1>2 DEF Divides
  <2>2. ASSUME NEW k \in 1..n PROVE \E g \in after : k \in g
    <3>1. PICK g \in groups : k \in g
      BY DEF Divides
    <3>2. g \in both => k \in new
      BY <3>1
    <3>3. new \in after /\ (g \notin both => g \in after)
      OBVIOUS
    <3> HIDE DEF after, new, both
    <3> QED
      BY <3>1, <3>2, <3>3
  <2>3. ASSUME NEW g \in after, NEW h \in after, g \intersect h # {} PROVE g = h
    <3>1. CASE g \in groups \ both /\ h \in groups \ both
      BY <2>3, <3>1 DEF Divides
    <3>2. CASE g = new \/ h = new
      <4>1. \A k \in groups \ both : k \intersect new = {} /\ new \intersect k = {}
        BY <1>3
      <4> HIDE DEF new, both
      <4> QED
        BY <2>3, <3>2, <4>1
    <3> QED
      BY <3>1, <3>2
  <2> QED
    BY <2>1, <2>2, <2>3 DEF Divides
<1>5. Together(after, i, j)
  BY <1>2 DEF Together
<1>6. ASSUME NEW a \in 1..n, NEW b \in 1..n, Together(groups, a, b) PROVE Together(after, a, b)
  <2>1. a \in new <=> b \in new
    BY <1>6 DEF Together
  <2> QED
    BY <1>6, <2>1 DEF Together
<1> HIDE DEF after
<1> QED
  BY <1>1, <1>4, <1>5, <1>6

\* What groups[i] of GroupsUpTo() is.
Families(records) == [i \in 1..Len(records) |-> Family(records[i])]
States(records) == [i \in 1..Len(records) |-> records[i].state]
Joining(records, groups, i) ==
  IF i = 0 THEN {{k} : k \in 1..Len(records)}
  ELSE Merged(Merged(groups[i - 1], i, FirstOf(Families(records), i)), i, FirstOf(States(records), i))

\* The recursion of GroupsUpTo() has a solution.
LEMMA GroupsAre ==
  ASSUME NEW records, Len(records) \in Nat
  PROVE  GroupsUpTo(records) = [i \in 0..Len(records) |-> Joining(records, GroupsUpTo(records), i)]
<1> DEFINE Good(f, m) == f = [i \in 0..m |-> Joining(records, f, i)]
           S == {m \in Nat : \E f : Good(f, m)}
<1>1. 0 \in S
  <2>1. Good([i \in 0..0 |-> {{k} : k \in 1..Len(records)}], 0)
    BY DEF Joining
  <2> QED
    BY <2>1
<1>2. ASSUME NEW m \in Nat, m \in S PROVE m + 1 \in S
  <2>1. PICK f : Good(f, m)
    BY <1>2
  <2> DEFINE g == [i \in 0..(m + 1) |-> IF i = m + 1 THEN Joining(records, f, m + 1) ELSE f[i]]
  <2>2. Good(g, m + 1)
    <3>1. ASSUME NEW i \in 0..(m + 1) PROVE g[i] = Joining(records, g, i)
      <4>1. i # 0 => g[i - 1] = f[i - 1]
        OBVIOUS
      <4>2. Joining(records, g, i) = Joining(records, f, i)
        BY <4>1 DEF Joining
      <4>3. CASE i = m + 1
        BY <4>2, <4>3
      <4>4. CASE i # m + 1
        BY <2>1, <4>2, <4>4
      <4> QED
        BY <4>3, <4>4
    <3> HIDE DEF g
    <3>2. DOMAIN g = 0..(m + 1) /\ g = [i \in DOMAIN g |-> g[i]]
      BY DEF g
    <3> QED
      BY <3>1, <3>2
  <2> HIDE DEF g
  <2>3. \E h : Good(h, m + 1)
    BY <2>2
  <2> QED
    BY <2>3
<1>3. \E f : Good(f, Len(records))
  <2> HIDE DEF S
  <2>1. Nat \subseteq S
    BY <1>1, <1>2, AllNumbers
  <2> QED
    BY <2>1 DEF S
<1> QED
  BY <1>3 DEF GroupsUpTo, Joining, Families, States

\* Records of one family, or of one state, are in one group.
LEMMA GroupsJoin ==
  ASSUME NEW records, Len(records) \in Nat
  PROVE  /\ Divides(SplitGroups(records), Len(records))
         /\ \A a, b \in 1..Len(records) :
              Family(records[a]) = Family(records[b]) \/ records[a].state = records[b].state =>
                Together(SplitGroups(records), a, b)
<1>1. PICK n \in Nat : n = Len(records)
  OBVIOUS
<1>2. PICK G : G = GroupsUpTo(records) /\ \A i \in 0..n : G[i] = Joining(records, G, i)
  BY <1>1, GroupsAre
<1>3. PICK fam : fam = Families(records)
  OBVIOUS
<1>4. PICK st : st = States(records)
  OBVIOUS
<1> DEFINE Joined(i) == \A a, b \in 1..i : fam[a] = fam[b] \/ st[a] = st[b] => Together(G[i], a, b)
           S == {i \in Nat : i <= n => Divides(G[i], n) /\ Joined(i)}
<1>5. 0 \in S
  <2>1. G[0] = {{k} : k \in 1..n}
    <3>1. G[0] = Joining(records, G, 0)
      BY <1>2
    <3>2. Joining(records, G, 0) = {{k} : k \in 1..n}
      BY <1>1 DEF Joining
    <3> QED
      BY <3>1, <3>2
  <2>2. Divides(G[0], n)
    <3>1. ASSUME NEW g \in G[0] PROVE g \subseteq 1..n
      <4>1. PICK k \in 1..n : g = {k}
        BY <2>1
      <4> QED
        BY <4>1
    <3>2. ASSUME NEW k \in 1..n PROVE \E g \in G[0] : k \in g
      <4>1. {k} \in G[0]
        BY <2>1
      <4> QED
        BY <4>1
    <3>3. ASSUME NEW g \in G[0], NEW h \in G[0], g \intersect h # {} PROVE g = h
      <4>1. PICK x \in 1..n, y \in 1..n : g = {x} /\ h = {y}
        BY <2>1
      <4> QED
        BY <3>3, <4>1
    <3> QED
      BY <3>1, <3>2, <3>3 DEF Divides
  <2>3. Joined(0)
    OBVIOUS
  <2> HIDE DEF Joined
  <2> QED
    BY <2>2, <2>3
<1>6. ASSUME NEW m \in Nat, m \in S PROVE m + 1 \in S
  <2>1. SUFFICES ASSUME m + 1 <= n PROVE Divides(G[m + 1], n) /\ Joined(m + 1)
    OBVIOUS
  <2>2. PICK i \in 1..n : i = m + 1
    BY <2>1
  <2>3. PICK f \in 1..i : f = FirstOf(fam, i) /\ fam[f] = fam[i] /\ \A k \in 1..(f - 1) : fam[k] # fam[i]
    BY FirstIs
  <2>4. PICK s \in 1..i : s = FirstOf(st, i) /\ st[s] = st[i] /\ \A k \in 1..(s - 1) : st[k] # st[i]
    BY FirstIs
  <2>5. PICK mid : mid = Merged(G[m], i, f)
    OBVIOUS
  <2>6. G[i] = Merged(mid, i, s)
    <3>1. G[i] = Joining(records, G, i) /\ i # 0 /\ i - 1 = m
      BY <1>2, <2>2
    <3> QED
      BY <1>3, <1>4, <2>3, <2>4, <2>5, <3>1 DEF Joining
  <2>7. Divides(G[m], n) /\ Joined(m)
    BY <1>6, <2>1
  <2>8. f \in 1..n /\ s \in 1..n
    OBVIOUS
  <2>9. /\ Divides(mid, n) /\ Together(mid, i, f)
        /\ \A a, b \in 1..n : Together(G[m], a, b) => Together(mid, a, b)
    BY <2>5, <2>7, <2>8, MergedIs
  <2>10. /\ Divides(G[i], n) /\ Together(G[i], i, s)
         /\ \A a, b \in 1..n : Together(mid, a, b) => Together(G[i], a, b)
    BY <2>6, <2>8, <2>9, MergedIs
  <2>11. ASSUME NEW a \in 1..m, fam[a] = fam[i] \/ st[a] = st[i] PROVE Together(G[i], a, i)
    <3>1. a \in 1..n /\ m <= n
      BY <2>1
    <3>2. CASE fam[a] = fam[i]
      <4>1. f \in 1..m
        BY <2>2, <2>3, <3>2
      <4>2. Together(G[m], a, f)
        BY <2>3, <2>7, <3>2, <4>1
      <4>3. Together(G[i], a, f) /\ Together(G[i], i, f)
        BY <2>8, <2>9, <2>10, <3>1, <4>2
      <4> QED
        BY <4>3 DEF Together
    <3>3. CASE st[a] = st[i]
      <4>1. s \in 1..m
        BY <2>2, <2>4, <3>3
      <4>2. Together(G[m], a, s)
        BY <2>4, <2>7, <3>3, <4>1
      <4>3. Together(G[i], a, s) /\ Together(G[i], i, s)
        BY <2>8, <2>9, <2>10, <3>1, <4>2
      <4> QED
        BY <4>3 DEF Together
    <3> QED
      BY <2>11, <3>2, <3>3
  <2>12. ASSUME NEW a \in 1..m, NEW b \in 1..m, fam[a] = fam[b] \/ st[a] = st[b] PROVE Together(G[i], a, b)
    <3>1. a \in 1..n /\ b \in 1..n
      BY <2>1
    <3>2. Together(G[m], a, b)
      BY <2>7, <2>12
    <3> QED
      BY <2>9, <2>10, <3>1, <3>2
  <2>13. ASSUME NEW a \in 1..i, NEW b \in 1..i, fam[a] = fam[b] \/ st[a] = st[b] PROVE Together(G[i], a, b)
    <3>1. CASE a = i /\ b = i
      BY <3>1 DEF Together
    <3>2. CASE a # i /\ b = i
      <4>1. a \in 1..m
        BY <2>2, <3>2
      <4> QED
        BY <2>11, <2>13, <3>2, <4>1
    <3>3. CASE a = i /\ b # i
      <4>1. b \in 1..m /\ (fam[b] = fam[i] \/ st[b] = st[i])
        BY <2>2, <2>13, <3>3
      <4>2. Together(G[i], b, i)
        BY <2>11, <4>1
      <4> QED
        BY <3>3, <4>2 DEF Together
    <3>4. CASE a # i /\ b # i
      <4>1. a \in 1..m /\ b \in 1..m
        BY <2>2, <3>4
      <4> QED
        BY <2>12, <2>13, <4>1
    <3> QED
      BY <3>1, <3>2, <3>3, <3>4
  <2> QED
    BY <2>2, <2>10, <2>13
<1>7. Divides(G[n], n) /\ Joined(n)
  <2> HIDE DEF S
  <2>1. Nat \subseteq S
    BY <1>5, <1>6, AllNumbers
  <2> QED
    BY <2>1 DEF S
<1>8. \A a \in 1..n : fam[a] = Family(records[a]) /\ st[a] = records[a].state
  BY <1>1, <1>3, <1>4 DEF Families, States
<1> QED
  BY <1>1, <1>2, <1>7, <1>8 DEF SplitGroups

-----------------------------------------------------------------------------
(* TrainData: the records *)

\* The strings and, since the provers do not know one for a string, the
\* suffixes of what is derived.
Transforms == {"noexit", "sub", "asr"}
Words == STRING \union Transforms

Records ==
  [id : Seq(Words), parent : Seq(Words), state : DOMAIN Heard, options : SUBSET STRING,
   gold : SUBSET STRING, target : SUBSET STRING]

\* Every option with gold or mass is an option of the question.
Fits == {r \in Records : r.gold \union r.target \subseteq r.options}

\* What is generated fits.
LEMMA OriginalsFit == Originals \subseteq Fits
<1>1. ASSUME NEW s \in Seq(STRING) PROVE s \in Seq(Words)
  BY DEF Words
<1>2. ASSUME NEW r \in Originals PROVE r \in Fits
  <2>1. r \in DataRecords /\ r.gold \union r.target \subseteq r.options
    BY DataAssumption
  <2>2. r.id \in Seq(Words) /\ r.parent \in Seq(Words)
    BY <1>1, <2>1 DEF DataRecords
  <2>3. r \in Records
    BY <2>1, <2>2 DEF DataRecords, Records
  <2> QED
    BY <2>1, <2>3 DEF Fits
<1> QED
  BY <1>2

\* A teacher's mass is on options of the question.
LEMMA BlendedFits ==
  ASSUME NEW r \in Fits, NEW mass \in SUBSET r.options
  PROVE  Blended(r, mass) \in Fits
<1>1. r \in Records /\ r.gold \subseteq r.options /\ r.target \subseteq r.options /\ r.options \subseteq STRING
  BY DEF Fits, Records
<1>2. PICK b : b = [r EXCEPT !.target = r.gold \union mass]
  OBVIOUS
<1>3. b \in Records
  BY <1>1, <1>2 DEF Records
<1>4. b.gold = r.gold /\ b.target = r.gold \union mass /\ b.options = r.options
  BY <1>1, <1>2 DEF Records
<1> QED
  BY <1>1, <1>2, <1>3, <1>4 DEF Fits, Blended

\* What is derived asks the same.
LEMMA DeriveIs ==
  ASSUME NEW r \in Fits, NEW suffix \in Transforms
  PROVE  /\ Derive(r, suffix) \in Fits
         /\ Derive(r, suffix).options = r.options /\ Derive(r, suffix).gold = r.gold
         /\ Derive(r, suffix).target = r.target
<1>1. r \in Records /\ r.id \in Seq(Words) /\ r.gold \union r.target \subseteq r.options
  BY DEF Fits, Records
<1>2. PICK id \in Seq(Words) : id = Append(r.id, suffix)
  <2>1. Append(r.id, suffix) \in Seq(Words)
    BY <1>1, AppendProperties DEF Words
  <2> QED
    BY <2>1
<1>3. PICK a : a = [r EXCEPT !.id = id]
  OBVIOUS
<1>4. a \in Records /\ a.options = r.options /\ a.gold = r.gold /\ a.target = r.target
  BY <1>1, <1>2, <1>3 DEF Records
<1>5. PICK d : d = [a EXCEPT !.parent = r.id]
  OBVIOUS
<1>6. d \in Records /\ d.options = r.options /\ d.gold = r.gold /\ d.target = r.target
  BY <1>1, <1>4, <1>5 DEF Records
<1>7. Derive(r, suffix) = [[r EXCEPT !.id = Append(r.id, suffix)] EXCEPT !.parent = r.id]
  BY <1>1 DEF Derive, Records
<1> QED
  BY <1>1, <1>2, <1>3, <1>5, <1>6, <1>7 DEF Fits

\* The exit is an option that stays.
LEMMA ExitInjectionFits == ASSUME NEW r \in Fits, NEW d \in ExitInjection(r) PROVE d \in Fits
<1>1. PICK b : b = Derive(r, "noexit")
  OBVIOUS
<1>2. b \in Fits /\ b.options = r.options
  BY <1>1, DeriveIs DEF Transforms
<1>3. PICK golds \in GoldNames(r) :
        /\ Exit \notin golds /\ Exit \in r.options
        /\ d = [b EXCEPT !.options = @ \ golds, !.gold = {Exit}, !.target = {}]
  BY <1>1 DEF ExitInjection
<1>4. PICK c1 : c1 = [b EXCEPT !.options = b.options \ golds]
  OBVIOUS
<1>5. c1 \in Records /\ c1.options = r.options \ golds
  BY <1>2, <1>4 DEF Records, Fits
<1>6. PICK c2 : c2 = [c1 EXCEPT !.gold = {Exit}]
  OBVIOUS
<1>7. c2 \in Records /\ c2.options = r.options \ golds /\ c2.gold = {Exit}
  BY <1>5, <1>6, DataAssumption DEF Records
<1>8. d = [c2 EXCEPT !.target = {}]
  <2>1. [b EXCEPT !.options = @ \ golds, !.gold = {Exit}, !.target = {}] =
          [[[b EXCEPT !.options = b.options \ golds] EXCEPT !.gold = {Exit}] EXCEPT !.target = {}]
    BY <1>2 DEF Records, Fits
  <2> QED
    BY <1>3, <1>4, <1>6, <2>1
<1>9. d \in Records /\ d.options = r.options \ golds /\ d.gold = {Exit} /\ d.target = {}
  BY <1>7, <1>8 DEF Records
<1> QED
  BY <1>3, <1>9 DEF Fits

\* What is cut from the options is cut from the target, and no gold is cut.
LEMMA OptionSubsetFits == ASSUME NEW r \in Fits, NEW d \in OptionSubset(r) PROVE d \in Fits
<1>1. PICK b : b = Derive(r, "sub")
  OBVIOUS
<1>2. b \in Fits /\ b.options = r.options /\ b.gold = r.gold /\ b.target = r.target
  BY <1>1, DeriveIs DEF Transforms
<1>3. PICK golds, others, kept :
        /\ golds \in GoldNames(r) /\ others \in SUBSET r.options
        /\ kept = golds \union others \union ({Exit} \intersect r.options)
        /\ d = [b EXCEPT !.options = kept, !.target = @ \intersect kept]
  <2> DEFINE Besides(golds) == {o \in SUBSET (r.options \ (golds \union {Exit})) :
                                 Cardinality(o) = Keep /\ Cardinality(r.options \ (golds \union {Exit})) > Keep}
             Shorter(golds, others) ==
               LET kept == golds \union others \union ({Exit} \intersect r.options)
               IN  [Derive(r, "sub") EXCEPT !.options = kept, !.target = @ \intersect kept]
  <2>1. d \in UNION {{Shorter(golds, others) : others \in Besides(golds)} : golds \in GoldNames(r)}
    BY DEF OptionSubset
  <2> HIDE DEF Shorter
  <2>2. PICK golds \in GoldNames(r) : \E others \in Besides(golds) : d = Shorter(golds, others)
    BY <2>1
  <2>3. PICK others \in SUBSET r.options : d = Shorter(golds, others)
    BY <2>2
  <2> QED
    BY <1>1, <2>3 DEF Shorter
<1>4. r.gold \subseteq r.options /\ r.target \subseteq r.options /\ r.options \subseteq STRING
  BY DEF Fits, Records
<1>5. golds \subseteq r.options /\ r.gold \subseteq golds
  BY <1>3, <1>4 DEF GoldNames
<1>6. kept \subseteq r.options /\ r.gold \subseteq kept
  BY <1>3, <1>5
<1>7. PICK c : c = [b EXCEPT !.options = kept]
  OBVIOUS
<1>8. c \in Records /\ c.options = kept /\ c.gold = r.gold /\ c.target = r.target
  BY <1>2, <1>4, <1>6, <1>7 DEF Records, Fits
<1>9. d = [c EXCEPT !.target = b.target \intersect kept]
  <2>1. [b EXCEPT !.options = kept, !.target = @ \intersect kept] =
          [[b EXCEPT !.options = kept] EXCEPT !.target = b.target \intersect kept]
    BY <1>2 DEF Records, Fits
  <2> QED
    BY <1>3, <1>7, <2>1
<1>10. d \in Records /\ d.options = kept /\ d.gold = r.gold /\ d.target = r.target \intersect kept
  BY <1>2, <1>4, <1>8, <1>9 DEF Records
<1> QED
  BY <1>6, <1>10 DEF Fits

\* A misheard utterance is one of those known.
LEMMA CharConfusionFits == ASSUME NEW r \in Fits, NEW d \in CharConfusion(r) PROVE d \in Fits
<1>1. PICK b : b = Derive(r, "asr")
  OBVIOUS
<1>2. b \in Fits
  BY <1>1, DeriveIs DEF Transforms
<1>3. PICK s \in Heard[r.state] : d = [b EXCEPT !.state = s]
  BY <1>1 DEF CharConfusion
<1>4. s \in DOMAIN Heard
  BY <1>3, DataAssumption DEF Fits, Records
<1>5. d \in Records /\ d.options = b.options /\ d.gold = b.gold /\ d.target = b.target
  BY <1>2, <1>3, <1>4 DEF Records, Fits
<1> QED
  BY <1>2, <1>5 DEF Fits

-----------------------------------------------------------------------------
(* TrainData: the stages *)

Trainable(r) == Labelled(r) /\ ~Locked(r)

DataInv ==
  /\ source \in Seq(Fits) /\ written \in Seq(Fits)
  /\ dataStage \in {"assemble", "split", "done"} => \A i \in 1..Len(written) : Trainable(written[i])
  /\ dataStage # "done" => DOMAIN splitOf = {}
  /\ dataStage = "done" =>
       /\ DOMAIN splitOf = 1..Len(written)
       /\ \A i, j \in 1..Len(written) :
            Family(written[i]) = Family(written[j]) \/ written[i].state = written[j].state => splitOf[i] = splitOf[j]

\* What one transform gives: a record or none.
LEMMA MaybeIs ==
  ASSUME NEW records, records \subseteq Fits, NEW a \in {<<>>} \union {<<d>> : d \in records}
  PROVE  a \in Seq(Fits)
<1>1. CASE a = <<>>
  BY <1>1
<1>2. CASE \E d \in records : a = <<d>>
  <2>1. PICK d \in Fits : a = <<d>>
    BY <1>2
  <2> QED
    BY <2>1
<1> QED
  BY <1>1, <1>2

\* Nothing has been read yet, and all there is was generated.
LEMMA DataBegins == DataInit => DataInv
<1>1. SUFFICES ASSUME DataInit PROVE DataInv
  OBVIOUS
<1>2. PICK n \in 1..MaxSource : source \in [1..n -> Originals]
  BY <1>1 DEF DataInit
<1>3. source \in Seq(Fits)
  <2>1. n \in Nat /\ source \in [1..n -> Fits]
    BY <1>2, DataAssumption, OriginalsFit
  <2> QED
    BY <2>1, SeqDef
<1>4. written = <<>> /\ splitOf = <<>> /\ dataStage = "label"
  BY <1>1 DEF DataInit
<1>5. written \in Seq(Fits) /\ DOMAIN splitOf = {}
  BY <1>4
<1> QED
  BY <1>3, <1>4, <1>5 DEF DataInv

\* What a stage reads is its first record.
LEMMA ReadIs ==
  ASSUME DataInv, Read
  PROVE  Head(source) \in Fits /\ source' \in Seq(Fits)
<1>1. source \in Seq(Fits) /\ source # <<>> /\ source' = Tail(source)
  BY DEF DataInv, Read
<1> QED
  BY <1>1, HeadTailProperties

\* label_records() writes the record, blended or as it was.
LEMMA LabelKeeps == DataInv /\ Label => DataInv'
<1>1. SUFFICES ASSUME DataInv, Label PROVE DataInv'
  OBVIOUS
<1>2. PICK r : r = Head(source)
  OBVIOUS
<1>3. r \in Fits /\ source' \in Seq(Fits) /\ written \in Seq(Fits)
  BY <1>1, <1>2, ReadIs DEF Label, DataInv
<1>4. PICK w \in Fits : written' = Append(written, w)
  <2>1. CASE written' = Append(written, r)
    BY <1>3, <2>1
  <2>2. CASE \E mass \in {a \intersect r.options : a \in Answers} \ {{}} : written' = Append(written, Blended(r, mass))
    <3>1. PICK mass \in SUBSET r.options : written' = Append(written, Blended(r, mass))
      BY <2>2
    <3>2. Blended(r, mass) \in Fits
      BY <1>3, BlendedFits
    <3> QED
      BY <3>1, <3>2
  <2> QED
    BY <1>1, <1>2, <2>1, <2>2 DEF Label
<1>5. written' \in Seq(Fits)
  BY <1>3, <1>4, AppendProperties
<1>6. dataStage = "label" /\ UNCHANGED <<dataStage, lock, splitOf>>
  BY <1>1 DEF Label
<1>7. DOMAIN splitOf = {}
  BY <1>1, <1>6 DEF DataInv
<1> QED
  BY <1>3, <1>5, <1>6, <1>7 DEF DataInv

\* augment_records() writes the record and what is derived from it.
LEMMA AugmentKeeps == DataInv /\ Augment => DataInv'
<1>1. SUFFICES ASSUME DataInv, Augment PROVE DataInv'
  OBVIOUS
<1>2. PICK r : r = Head(source)
  OBVIOUS
<1>3. r \in Fits /\ source' \in Seq(Fits) /\ written \in Seq(Fits)
  BY <1>1, <1>2, ReadIs DEF Augment, DataInv
<1>4. PICK a \in {<<>>} \union {<<d>> : d \in IF Labelled(r) THEN ExitInjection(r) ELSE {}},
           b \in {<<>>} \union {<<d>> : d \in IF Labelled(r) THEN OptionSubset(r) ELSE {}},
           c \in {<<>>} \union {<<d>> : d \in CharConfusion(r)} :
        written' = written \o <<r>> \o a \o b \o c
  BY <1>1, <1>2 DEF Augment
<1>5. a \in Seq(Fits) /\ b \in Seq(Fits) /\ c \in Seq(Fits)
  <2>1. ExitInjection(r) \subseteq Fits /\ OptionSubset(r) \subseteq Fits /\ CharConfusion(r) \subseteq Fits
    BY <1>3, ExitInjectionFits, OptionSubsetFits, CharConfusionFits
  <2>2. /\ (IF Labelled(r) THEN ExitInjection(r) ELSE {}) \subseteq Fits
        /\ (IF Labelled(r) THEN OptionSubset(r) ELSE {}) \subseteq Fits
    BY <2>1
  <2> QED
    BY <2>1, <2>2, MaybeIs
<1>6. written' \in Seq(Fits)
  <2>1. written \o <<r>> \in Seq(Fits)
    BY <1>3, ConcatProperties
  <2>2. written \o <<r>> \o a \in Seq(Fits)
    BY <1>5, <2>1, ConcatProperties
  <2>3. written \o <<r>> \o a \o b \in Seq(Fits)
    BY <1>5, <2>2, ConcatProperties
  <2> QED
    BY <1>4, <1>5, <2>3, ConcatProperties
<1>7. dataStage = "augment" /\ UNCHANGED <<dataStage, lock, splitOf>>
  BY <1>1 DEF Augment
<1>8. DOMAIN splitOf = {}
  BY <1>1, <1>7 DEF DataInv
<1> QED
  BY <1>3, <1>6, <1>7, <1>8 DEF DataInv

\* What a stage wrote is read by the next, or is what assemble keeps.
LEMMA StageEndsKeeps == DataInv /\ StageEnds => DataInv'
<1>1. SUFFICES ASSUME DataInv, StageEnds PROVE DataInv'
  OBVIOUS
<1>2. /\ dataStage \in {"label", "augment", "assemble"} /\ dataStage' \in {"augment", "assemble", "split"}
      /\ UNCHANGED <<lock, splitOf>>
  BY <1>1 DEF StageEnds
<1>3. source \in Seq(Fits) /\ written \in Seq(Fits) /\ DOMAIN splitOf = {}
  BY <1>1, <1>2 DEF DataInv
<1>4. CASE dataStage = "assemble"
  <2>1. dataStage' = "split" /\ UNCHANGED <<source, written>>
    BY <1>1, <1>4 DEF StageEnds
  <2>2. \A i \in 1..Len(written) : Trainable(written[i])
    BY <1>1, <1>4 DEF DataInv
  <2>3. \A i \in 1..Len(written') : Trainable(written[i])'
    BY <1>2, <2>1, <2>2 DEF Trainable, Locked
  <2> QED
    BY <1>2, <1>3, <2>1, <2>3 DEF DataInv
<1>5. CASE dataStage # "assemble"
  <2>1. source' = written /\ written' = <<>> /\ dataStage' \in {"augment", "assemble"}
    BY <1>1, <1>5 DEF StageEnds
  <2>2. written' \in Seq(Fits) /\ Len(written') = 0
    BY <2>1
  <2> QED
    BY <1>2, <1>3, <2>1, <2>2 DEF DataInv
<1> QED
  BY <1>4, <1>5

\* assemble() keeps what has a label and is not locked.
LEMMA AssembleKeeps == DataInv /\ Assemble => DataInv'
<1>1. SUFFICES ASSUME DataInv, Assemble PROVE DataInv'
  OBVIOUS
<1>2. PICK r : r = Head(source)
  OBVIOUS
<1>3. r \in Fits /\ source' \in Seq(Fits) /\ written \in Seq(Fits)
  BY <1>1, <1>2, ReadIs DEF Assemble, DataInv
<1>4. dataStage = "assemble" /\ UNCHANGED <<dataStage, lock, splitOf>>
  BY <1>1 DEF Assemble
<1>5. DOMAIN splitOf = {} /\ \A i \in 1..Len(written) : Trainable(written[i])
  BY <1>1, <1>4 DEF DataInv
<1>6. CASE Trainable(r) /\ written' = Append(written, r)
  <2>1. /\ written' \in Seq(Fits) /\ Len(written') = Len(written) + 1
        /\ \A i \in 1..Len(written) : written'[i] = written[i]
        /\ written'[Len(written) + 1] = r
    BY <1>3, <1>6, AppendProperties
  <2>2. Len(written) \in Nat
    BY <1>3
  <2>3. ASSUME NEW i \in 1..Len(written') PROVE Trainable(written'[i])
    <3>1. CASE i = Len(written) + 1
      BY <1>6, <2>1, <3>1
    <3>2. CASE i # Len(written) + 1
      <4>1. i \in 1..Len(written)
        BY <2>1, <2>2, <3>2
      <4> QED
        BY <1>5, <2>1, <4>1
    <3> QED
      BY <3>1, <3>2
  <2>4. \A i \in 1..Len(written') : Trainable(written[i])'
    BY <1>4, <2>3 DEF Trainable, Locked
  <2> QED
    BY <1>3, <1>4, <1>5, <2>1, <2>4 DEF DataInv
<1>7. CASE written' = written
  <2>1. \A i \in 1..Len(written') : Trainable(written[i])'
    BY <1>4, <1>5, <1>7 DEF Trainable, Locked
  <2> QED
    BY <1>3, <1>4, <1>5, <1>7, <2>1 DEF DataInv
<1> QED
  BY <1>1, <1>2, <1>6, <1>7 DEF Assemble, Trainable

\* _split_of() gives a split to a group, and a group has its families and
\* states whole.
LEMMA SplitKeeps == DataInv /\ Split => DataInv'
<1>1. SUFFICES ASSUME DataInv, Split PROVE DataInv'
  OBVIOUS
<1>2. dataStage = "split" /\ dataStage' = "done" /\ UNCHANGED <<source, written, lock>>
  BY <1>1 DEF Split
<1>3. source \in Seq(Fits) /\ written \in Seq(Fits) /\ \A i \in 1..Len(written) : Trainable(written[i])
  BY <1>1, <1>2 DEF DataInv
<1>4. PICK n \in Nat : n = Len(written)
  BY <1>3
<1>5. PICK groups : groups = SplitGroups(written)
  OBVIOUS
<1>6. /\ Divides(groups, n)
      /\ \A a, b \in 1..n : Family(written[a]) = Family(written[b]) \/ written[a].state = written[b].state =>
                              Together(groups, a, b)
  BY <1>4, <1>5, GroupsJoin
<1>7. PICK drawn : splitOf' = [i \in 1..n |-> drawn[CHOOSE g \in groups : i \in g]]
  BY <1>1, <1>4, <1>5 DEF Split
<1>8. ASSUME NEW a \in 1..n, NEW b \in 1..n, Together(groups, a, b) PROVE splitOf'[a] = splitOf'[b]
  <2>1. PICK g \in groups : a \in g
    BY <1>6 DEF Divides
  <2>2. b \in g
    BY <1>8, <2>1 DEF Together
  <2>3. \A h \in groups : (a \in h => h = g) /\ (b \in h => h = g)
    BY <1>6, <2>1, <2>2 DEF Divides
  <2>4. (CHOOSE h \in groups : a \in h) = g /\ (CHOOSE h \in groups : b \in h) = g
    BY <2>1, <2>2, <2>3
  <2> QED
    BY <1>7, <2>4
<1>9. \A i \in 1..Len(written') : Trainable(written[i])'
  BY <1>2, <1>3 DEF Trainable, Locked
<1>10. DOMAIN splitOf' = 1..Len(written')
  BY <1>2, <1>4, <1>7
<1>11. \A i, j \in 1..Len(written') :
         Family(written'[i]) = Family(written'[j]) \/ written'[i].state = written'[j].state => splitOf'[i] = splitOf'[j]
  BY <1>2, <1>4, <1>6, <1>8
<1> QED
  BY <1>2, <1>3, <1>9, <1>10, <1>11 DEF DataInv, Family

\* The data stages: what each has to read and what it has written keep their
\* labels within their options, what assemble keeps has a label and is not
\* locked, and what shares a family or a state shares a split.
THEOREM DataCorrect == DataSpec => []DataInv
<1>1. DataInit => DataInv
  BY DataBegins
<1>2. DataInv /\ [DataNext]_dataVars => DataInv'
  <2>1. CASE UNCHANGED dataVars
    BY <2>1 DEF DataInv, dataVars, Trainable, Locked
  <2> QED
    BY <2>1, LabelKeeps, AugmentKeeps, StageEndsKeeps, AssembleKeeps, SplitKeeps DEF DataNext
<1> QED
  BY <1>1, <1>2, PTL DEF DataSpec

\* What is trained on is never measured and no label drifts from its question,
\* whatever the teacher says and however often the records are augmented.
THEOREM DataIsSound == DataSpec => []DataSound
<1>1. DataInv => DataSound
  <2>1. SUFFICES ASSUME DataInv, DOMAIN splitOf # {} PROVE DataSound
    BY DEF DataSound, SplitsApart, LabelsFit
  <2>2. /\ DOMAIN splitOf = 1..Len(written) /\ dataStage = "done"
        /\ \A i, j \in 1..Len(written) :
             Family(written[i]) = Family(written[j]) \/ written[i].state = written[j].state => splitOf[i] = splitOf[j]
    BY <2>1 DEF DataInv
  <2>3. \A i \in 1..Len(written) : written[i] \in Fits /\ Trainable(written[i])
    BY <2>1, <2>2 DEF DataInv
  <2>4. SplitsApart
    BY <2>2, <2>3 DEF SplitsApart, Trainable, Locked, Family
  <2>5. LabelsFit
    BY <2>2, <2>3 DEF LabelsFit, Trainable, Fits
  <2> QED
    BY <2>4, <2>5 DEF DataSound
<1> QED
  BY <1>1, DataCorrect, PTL

-----------------------------------------------------------------------------
(* Importers: sequences of anything *)

IsSequence(s) == s \in Seq(ToSet(s))

\* What is a sequence over some set is one of its own elements.
LEMMA SequenceIs ==
  ASSUME NEW S, NEW s \in Seq(S)
  PROVE  IsSequence(s) /\ Len(s) \in Nat /\ DOMAIN s = 1..Len(s) /\ \A i \in 1..Len(s) : s[i] \in S
<1>1. PICK n \in Nat : n = Len(s) /\ DOMAIN s = 1..n /\ s \in [1..n -> S]
  OBVIOUS
<1>2. s \in [1..n -> ToSet(s)]
  BY <1>1 DEF ToSet
<1>3. s \in Seq(ToSet(s))
  BY <1>1, <1>2, SeqDef
<1> QED
  BY <1>1, <1>3 DEF IsSequence

\* One element more.
LEMMA AppendedIs ==
  ASSUME NEW s, IsSequence(s), NEW e
  PROVE  /\ IsSequence(Append(s, e)) /\ Len(s) \in Nat /\ Len(Append(s, e)) = Len(s) + 1
         /\ \A i \in 1..Len(s) : Append(s, e)[i] = s[i]
         /\ Append(s, e)[Len(s) + 1] = e
         /\ DOMAIN s = 1..Len(s) /\ DOMAIN Append(s, e) = 1..(Len(s) + 1)
<1> DEFINE S == ToSet(s) \union {e}
<1>1. s \in Seq(S)
  <2>1. s \in Seq(ToSet(s)) /\ ToSet(s) \subseteq S
    BY DEF IsSequence
  <2> HIDE DEF S
  <2> QED
    BY <2>1
<1>2. e \in S
  OBVIOUS
<1> HIDE DEF S
<1>3. /\ Append(s, e) \in Seq(S) /\ Len(Append(s, e)) = Len(s) + 1
      /\ \A i \in 1..Len(s) : Append(s, e)[i] = s[i]
      /\ Append(s, e)[Len(s) + 1] = e
  BY <1>1, <1>2, AppendProperties
<1>4. Len(s) \in Nat /\ DOMAIN s = 1..Len(s) /\ DOMAIN Append(s, e) = 1..Len(Append(s, e)) /\ IsSequence(Append(s, e))
  BY <1>1, <1>3, SequenceIs
<1> QED
  BY <1>3, <1>4

\* One element less.
LEMMA RestIs ==
  ASSUME NEW s, IsSequence(s), s # <<>>
  PROVE  /\ IsSequence(Tail(s)) /\ Len(s) \in Nat \ {0} /\ Len(Tail(s)) = Len(s) - 1 /\ Head(s) = s[1]
         /\ \A i \in 1..(Len(s) - 1) : Tail(s)[i] = s[i + 1]
         /\ DOMAIN s = 1..Len(s) /\ DOMAIN Tail(s) = 1..(Len(s) - 1)
<1>1. s \in Seq(ToSet(s))
  BY DEF IsSequence
<1>2. /\ Tail(s) \in Seq(ToSet(s)) /\ Len(Tail(s)) = Len(s) - 1
      /\ \A i \in 1..Len(Tail(s)) : Tail(s)[i] = s[i + 1]
  BY <1>1, HeadTailProperties
<1>3. IsSequence(Tail(s)) /\ Len(s) \in Nat /\ DOMAIN s = 1..Len(s) /\ DOMAIN Tail(s) = 1..Len(Tail(s))
  BY <1>1, <1>2, SequenceIs
<1>4. Len(s) # 0 /\ Head(s) = s[1]
  BY <1>1
<1> QED
  BY <1>2, <1>3, <1>4

-----------------------------------------------------------------------------
(* Importers: the invariant *)

Adapter == generators[1].adapter
TwoPasses == {"scenic", "massive"}

\* An adapter that drops duplicates runs once, and only some read twice.
GenPlace ==
  /\ IsSequence(generators) /\ generators # <<>>
  /\ \A k \in 1..Len(generators) : IsSequence(generators[k].rows)
  /\ \A j, k \in 1..Len(generators) :
       generators[j].adapter = generators[k].adapter => j = k \/ generators[j].adapter \in Unchecked
  /\ IsSequence(rowsLeft) /\ IsSequence(pool) /\ IsSequence(genFile)
  /\ passing \in {1, 2} /\ (passing = 2 => Adapter \in TwoPasses)
  /\ tally \in [looked : Nat, skipped : Nat, kept : Nat]

\* What was looked at and is neither skipped nor kept is in the pool, or was
\* taken from it and is still to be yielded.
InHand == IF Adapter \notin TwoPasses THEN 0 ELSE IF passing = 1 THEN Len(pool) ELSE Len(rowsLeft)
RowsCounted == tally.looked = tally.skipped + tally.kept + InHand

\* Nothing in the file is of an adapter that has yet to run.
FileOfEarlier ==
  \A i \in 1..Len(genFile), k \in 2..Len(generators) :
    generators[k].adapter \notin Unchecked => genFile[i].from # generators[k].adapter

\* A key in the file is a key seen; MASSIVE sees the texts of its pool, all of
\* them different, and yields them afterwards.
KeysSeen ==
  /\ Adapter \in {"zhihao", "scenic", "authored"} =>
       \A i \in 1..Len(genFile) : genFile[i].from = Adapter => genFile[i].key \in seenKeys
  /\ Adapter = "massive" /\ passing = 1 =>
       /\ \A i \in 1..Len(genFile) : genFile[i].from # "massive"
       /\ \A k \in 1..Len(pool) : MassiveUsable(pool[k]) /\ pool[k].text \in seenKeys
       /\ \A j, k \in 1..Len(pool) : pool[j].text = pool[k].text => j = k
  /\ Adapter = "massive" /\ passing = 2 =>
       /\ \A k \in 1..Len(rowsLeft) : MassiveUsable(rowsLeft[k])
       /\ \A j, k \in 1..Len(rowsLeft) : rowsLeft[j].text = rowsLeft[k].text => j = k
       /\ \A i \in 1..Len(genFile), k \in 1..Len(rowsLeft) :
            genFile[i].from = "massive" => genFile[i].key # rowsLeft[k].text

GenInv == GenPlace /\ RowsCounted /\ FileOfEarlier /\ KeysSeen /\ ImportedOnce /\ GoldOffered

\* The importer is the first of the generators.
LEMMA ImporterIs == GenPlace => Importer = generators[1] /\ Importer.adapter = Adapter
BY RestIs DEF GenPlace, Importer, Adapter

\* Nothing has been read, and the first of the generators runs.
LEMMA GenBegins == GenInit => GenInv
<1>1. SUFFICES ASSUME GenInit PROVE GenInv
  OBVIOUS
<1>2. /\ generators \in Configs /\ rowsLeft = generators[1].rows /\ passing = 1 /\ pool = <<>> /\ seenKeys = {}
      /\ tally = [looked |-> 0, skipped |-> 0, kept |-> 0] /\ genFile = <<>>
  BY <1>1 DEF GenInit
<1>3. /\ generators # <<>> /\ IsSequence(generators) /\ \A k \in DOMAIN generators : IsSequence(generators[k].rows)
      /\ \A j, k \in DOMAIN generators :
           generators[j].adapter = generators[k].adapter => j = k \/ generators[j].adapter \in Unchecked
  BY <1>2, ImportAssumption DEF IsSequence
<1>4. DOMAIN generators = 1..Len(generators) /\ 1 \in DOMAIN generators
  BY <1>3, RestIs
<1>5. IsSequence(pool) /\ IsSequence(genFile) /\ Len(pool) = 0 /\ Len(genFile) = 0 /\ DOMAIN genFile = {}
  <2>1. <<>> \in Seq({}) /\ Len(<<>>) = 0
    OBVIOUS
  <2>2. IsSequence(<<>>) /\ DOMAIN <<>> = 1..0
    BY <2>1, SequenceIs
  <2> QED
    BY <1>2, <2>1, <2>2
<1>6. GenPlace
  BY <1>2, <1>3, <1>4, <1>5 DEF GenPlace
<1>7. RowsCounted
  BY <1>2, <1>5 DEF RowsCounted, InHand
<1>8. FileOfEarlier /\ KeysSeen /\ ImportedOnce /\ GoldOffered
  BY <1>2, <1>5 DEF FileOfEarlier, KeysSeen, ImportedOnce, GoldOffered
<1> QED
  BY <1>6, <1>7, <1>8 DEF GenInv

\* Nothing changes but what was seen.
LEMMA StopKeeps ==
  ASSUME GenInv, UNCHANGED <<generators, rowsLeft, passing, pool, tally, genFile>>, seenKeys \subseteq seenKeys'
  PROVE  GenInv'
<1>1. UNCHANGED <<Adapter, InHand>>
  BY DEF Adapter, InHand
<1>2. GenPlace' /\ RowsCounted' /\ FileOfEarlier'
  BY <1>1 DEF GenInv, GenPlace, RowsCounted, FileOfEarlier
<1>3. KeysSeen'
  BY <1>1 DEF GenInv, KeysSeen
<1>4. ImportedOnce' /\ GoldOffered'
  BY DEF GenInv, ImportedOnce, GoldOffered
<1> QED
  BY <1>2, <1>3, <1>4 DEF GenInv

\* A row is done with.
LEMMA RowDone ==
  ASSUME GenInv, rowsLeft # <<>>, OnlyRows
  PROVE  /\ IsSequence(rowsLeft') /\ Len(rowsLeft) \in Nat \ {0} /\ Len(rowsLeft') = Len(rowsLeft) - 1
         /\ Row = rowsLeft[1] /\ \A k \in 1..Len(rowsLeft') : k + 1 \in 1..Len(rowsLeft) /\ rowsLeft'[k] = rowsLeft[k + 1]
         /\ UNCHANGED <<generators, passing, Adapter>>
<1>1. IsSequence(rowsLeft)
  BY DEF GenInv, GenPlace
<1>2. rowsLeft' = Tail(rowsLeft) /\ UNCHANGED <<generators, passing>>
  BY DEF OnlyRows
<1>3. UNCHANGED Adapter
  BY <1>2 DEF Adapter
<1> QED
  BY <1>1, <1>2, <1>3, RestIs DEF Row

\* The rows that are left are different still.
LEMMA FewerRows ==
  ASSUME GenInv, rowsLeft # <<>>, OnlyRows, genFile' = genFile, pool' = pool, seenKeys \subseteq seenKeys'
  PROVE  KeysSeen'
<1>1. KeysSeen
  BY DEF GenInv
<1>2. /\ Len(rowsLeft) \in Nat \ {0} /\ Len(rowsLeft') = Len(rowsLeft) - 1
      /\ \A k \in 1..Len(rowsLeft') : k + 1 \in 1..Len(rowsLeft) /\ rowsLeft'[k] = rowsLeft[k + 1]
      /\ UNCHANGED <<generators, passing, Adapter>>
  BY RowDone
<1>3. Adapter' \in {"zhihao", "scenic", "authored"} =>
        \A i \in 1..Len(genFile') : genFile'[i].from = Adapter' => genFile'[i].key \in seenKeys'
  BY <1>1, <1>2 DEF KeysSeen
<1>4. Adapter' = "massive" /\ passing' = 1 =>
        /\ \A i \in 1..Len(genFile') : genFile'[i].from # "massive"
        /\ \A k \in 1..Len(pool') : MassiveUsable(pool'[k]) /\ pool'[k].text \in seenKeys'
        /\ \A j, k \in 1..Len(pool') : pool'[j].text = pool'[k].text => j = k
  BY <1>1, <1>2 DEF KeysSeen
<1>5. ASSUME Adapter' = "massive", passing' = 2
      PROVE  /\ \A k \in 1..Len(rowsLeft') : MassiveUsable(rowsLeft'[k])
             /\ \A j, k \in 1..Len(rowsLeft') : rowsLeft'[j].text = rowsLeft'[k].text => j = k
             /\ \A i \in 1..Len(genFile'), k \in 1..Len(rowsLeft') :
                  genFile'[i].from = "massive" => genFile'[i].key # rowsLeft'[k].text
  <2>1. /\ \A k \in 1..Len(rowsLeft) : MassiveUsable(rowsLeft[k])
        /\ \A j, k \in 1..Len(rowsLeft) : rowsLeft[j].text = rowsLeft[k].text => j = k
        /\ \A i \in 1..Len(genFile), k \in 1..Len(rowsLeft) :
             genFile[i].from = "massive" => genFile[i].key # rowsLeft[k].text
    BY <1>1, <1>2, <1>5 DEF KeysSeen
  <2>2. \A k \in 1..Len(rowsLeft') : MassiveUsable(rowsLeft'[k])
    BY <1>2, <2>1
  <2>3. ASSUME NEW j \in 1..Len(rowsLeft'), NEW k \in 1..Len(rowsLeft'), rowsLeft'[j].text = rowsLeft'[k].text
        PROVE  j = k
    <3>1. PICK a \in 1..Len(rowsLeft), b \in 1..Len(rowsLeft) : a = j + 1 /\ b = k + 1
      BY <1>2
    <3>2. rowsLeft[a].text = rowsLeft[b].text
      BY <1>2, <2>3, <3>1
    <3> QED
      BY <2>1, <3>1, <3>2
  <2> QED
    BY <1>2, <2>1, <2>2, <2>3
<1>6. \A r : MassiveUsable(r)' <=> MassiveUsable(r)
  BY DEF MassiveUsable
<1> QED
  BY <1>3, <1>4, <1>5, <1>6 DEF KeysSeen

\* A row that is skipped is counted.
LEMMA SkipKeeps ==
  ASSUME GenInv, rowsLeft # <<>>, OnlyRows, Looked(1, 0), UNCHANGED <<pool, genFile>>, seenKeys \subseteq seenKeys'
  PROVE  GenInv'
<1>1. /\ IsSequence(rowsLeft') /\ Len(rowsLeft) \in Nat \ {0} /\ Len(rowsLeft') = Len(rowsLeft) - 1
      /\ UNCHANGED <<generators, passing, Adapter>>
  BY RowDone
<1>2. /\ tally' \in [looked : Nat, skipped : Nat, kept : Nat]
      /\ tally'.looked = tally.looked + (IF passing = 1 THEN 1 ELSE 0)
      /\ tally'.skipped = tally.skipped + 1 /\ tally'.kept = tally.kept
      /\ tally \in [looked : Nat, skipped : Nat, kept : Nat]
  BY DEF Looked, GenInv, GenPlace
<1>3. GenPlace'
  BY <1>1, <1>2 DEF GenInv, GenPlace
<1>4. RowsCounted'
  <2>1. tally.looked = tally.skipped + tally.kept + InHand /\ passing \in {1, 2} /\ (passing = 2 => Adapter \in TwoPasses)
    BY DEF GenInv, RowsCounted, GenPlace
  <2>2. CASE passing = 1
    <3>1. InHand' = InHand /\ InHand \in Nat
      <4>1. Len(pool) \in Nat
        BY SequenceIs DEF GenInv, GenPlace, IsSequence
      <4> QED
        BY <1>1, <2>2, <4>1 DEF InHand
    <3> QED
      BY <1>2, <2>1, <2>2, <3>1 DEF RowsCounted
  <2>3. CASE passing = 2
    <3>1. InHand = Len(rowsLeft) /\ InHand' = Len(rowsLeft')
      BY <1>1, <2>1, <2>3 DEF InHand
    <3> QED
      BY <1>1, <1>2, <2>1, <2>3, <3>1 DEF RowsCounted
  <2> QED
    BY <2>1, <2>2, <2>3
<1>5. FileOfEarlier' /\ ImportedOnce' /\ GoldOffered'
  BY <1>1 DEF GenInv, FileOfEarlier, ImportedOnce, GoldOffered
<1>6. KeysSeen'
  BY FewerRows
<1> QED
  BY <1>3, <1>4, <1>5, <1>6 DEF GenInv

\* A row that is not even looked at is not counted.
LEMMA IgnoreKeeps ==
  ASSUME GenInv, rowsLeft # <<>>, passing = 1, OnlyRows, UNCHANGED <<pool, seenKeys, tally, genFile>>
  PROVE  GenInv'
<1>1. IsSequence(rowsLeft') /\ UNCHANGED <<generators, passing, Adapter>>
  BY RowDone
<1>2. GenPlace'
  BY <1>1 DEF GenInv, GenPlace
<1>3. RowsCounted'
  BY <1>1 DEF GenInv, RowsCounted, InHand
<1>4. FileOfEarlier' /\ ImportedOnce' /\ GoldOffered'
  BY <1>1 DEF GenInv, FileOfEarlier, ImportedOnce, GoldOffered
<1>5. KeysSeen'
  BY FewerRows
<1> QED
  BY <1>2, <1>3, <1>4, <1>5 DEF GenInv

\* A record is written: it is of the adapter that runs.
LEMMA WriteKeeps ==
  ASSUME GenInv, UNCHANGED <<generators, Adapter>>, NEW rec, genFile' = Append(genFile, rec), rec.from = Adapter,
         Adapter \notin Unchecked =>
           /\ \A i \in 1..Len(genFile) : genFile[i].from = Adapter => genFile[i].key # rec.key
           /\ rec.gold \subseteq rec.options
           /\ rec.intent = "control" => rec.gold # {}
           /\ rec.intent = "unrelated" => rec.gold = {}
  PROVE  /\ IsSequence(genFile') /\ FileOfEarlier' /\ ImportedOnce' /\ GoldOffered'
         /\ Len(genFile) \in Nat /\ Len(genFile') = Len(genFile) + 1 /\ genFile'[Len(genFile) + 1] = rec
         /\ \A i \in 1..Len(genFile) : genFile'[i] = genFile[i]
<1>1. PICK n \in Nat : n = Len(genFile)
  BY AppendedIs DEF GenInv, GenPlace
<1>2. /\ IsSequence(genFile') /\ Len(genFile') = n + 1 /\ DOMAIN genFile = 1..n /\ DOMAIN genFile' = 1..(n + 1)
      /\ \A i \in 1..n : genFile'[i] = genFile[i]
      /\ genFile'[n + 1] = rec
  BY <1>1, AppendedIs DEF GenInv, GenPlace
<1>3. \A i \in 1..(n + 1) : i \in 1..n \/ i = n + 1
  OBVIOUS
<1>4. FileOfEarlier'
  <2>1. ASSUME NEW k \in 2..Len(generators), generators[k].adapter \notin Unchecked PROVE rec.from # generators[k].adapter
    <3>1. 1 \in 1..Len(generators) /\ k \in 1..Len(generators)
      BY RestIs DEF GenInv, GenPlace
    <3> QED
      BY <2>1, <3>1 DEF GenInv, GenPlace, Adapter
  <2>2. \A i \in 1..n, k \in 2..Len(generators) :
          generators[k].adapter \notin Unchecked => genFile[i].from # generators[k].adapter
    BY <1>1 DEF GenInv, FileOfEarlier
  <2> QED
    BY <1>2, <1>3, <2>1, <2>2 DEF FileOfEarlier
<1>5. ImportedOnce'
  <2>1. \A i, j \in 1..n :
          genFile[i].from = genFile[j].from /\ genFile[i].from \notin Unchecked /\ genFile[i].key = genFile[j].key => i = j
    BY <1>2 DEF GenInv, ImportedOnce
  <2>2. \A i \in 1..n : genFile[i].from = rec.from /\ rec.from \notin Unchecked => genFile[i].key # rec.key
    BY <1>1
  <2>3. ASSUME NEW i \in 1..(n + 1), NEW j \in 1..(n + 1), genFile'[i].from = genFile'[j].from,
               genFile'[i].from \notin Unchecked, genFile'[i].key = genFile'[j].key
        PROVE  i = j
    <3>1. CASE i \in 1..n /\ j \in 1..n
      BY <1>2, <2>1, <2>3, <3>1
    <3>2. CASE i \in 1..n /\ j = n + 1
      BY <1>2, <2>2, <2>3, <3>2
    <3>3. CASE i = n + 1 /\ j \in 1..n
      BY <1>2, <2>2, <2>3, <3>3
    <3> QED
      BY <1>3, <3>1, <3>2, <3>3
  <2> QED
    BY <1>2, <2>3 DEF ImportedOnce
<1>6. GoldOffered'
  <2>1. \A i \in 1..n : genFile[i].from \notin Unchecked =>
          /\ genFile[i].gold \subseteq genFile[i].options
          /\ genFile[i].intent = "control" => genFile[i].gold # {}
          /\ genFile[i].intent = "unrelated" => genFile[i].gold = {}
    BY <1>2 DEF GenInv, GoldOffered
  <2> QED
    BY <1>2, <1>3, <2>1 DEF GoldOffered
<1> QED
  BY <1>1, <1>2, <1>4, <1>5, <1>6

\* One less in hand and one more kept.
LEMMA OneKept ==
  ASSUME NEW t \in [looked : Nat, skipped : Nat, kept : Nat], NEW u \in [looked : Nat, skipped : Nat, kept : Nat],
         NEW n \in Nat, t.looked = t.skipped + t.kept + (n + 1),
         u.looked = t.looked, u.skipped = t.skipped, u.kept = t.kept + 1
  PROVE  u.looked = u.skipped + u.kept + n
OBVIOUS

\* One more looked at and in hand.
LEMMA OneLooked ==
  ASSUME NEW t \in [looked : Nat, skipped : Nat, kept : Nat], NEW u \in [looked : Nat, skipped : Nat, kept : Nat],
         NEW n \in Nat, t.looked = t.skipped + t.kept + n,
         u.looked = t.looked + 1, u.skipped = t.skipped, u.kept = t.kept
  PROVE  u.looked = u.skipped + u.kept + (n + 1)
OBVIOUS

\* A row of an adapter that checks is yielded.
LEMMA YieldKeeps ==
  ASSUME GenInv, rowsLeft # <<>>, OnlyRows, Looked(0, 1), UNCHANGED pool, seenKeys \subseteq seenKeys',
         NEW rec, genFile' = Append(genFile, rec), rec.from = Adapter, Adapter \notin Unchecked,
         Adapter \in TwoPasses => passing = 2,
         Adapter # "massive" => Adapter \in {"zhihao", "scenic", "authored"} /\ rec.key \notin seenKeys /\ rec.key \in seenKeys',
         Adapter = "massive" => rec.key = Row.text,
         rec.gold \subseteq rec.options, rec.intent = "control" => rec.gold # {}, rec.intent = "unrelated" => rec.gold = {}
  PROVE  GenInv'
<1>1. /\ IsSequence(rowsLeft') /\ Len(rowsLeft) \in Nat \ {0} /\ Len(rowsLeft') = Len(rowsLeft) - 1
      /\ Row = rowsLeft[1] /\ \A k \in 1..Len(rowsLeft') : k + 1 \in 1..Len(rowsLeft) /\ rowsLeft'[k] = rowsLeft[k + 1]
      /\ UNCHANGED <<generators, passing, Adapter>>
  BY RowDone
<1>2. /\ tally' \in [looked : Nat, skipped : Nat, kept : Nat]
      /\ tally'.looked = tally.looked + (IF passing = 1 THEN 1 ELSE 0)
      /\ tally'.skipped = tally.skipped /\ tally'.kept = tally.kept + 1
      /\ tally \in [looked : Nat, skipped : Nat, kept : Nat]
  BY DEF Looked, GenInv, GenPlace
<1>3. KeysSeen /\ passing \in {1, 2} /\ (passing = 2 => Adapter \in TwoPasses)
  BY DEF GenInv, GenPlace
<1>4. \A i \in 1..Len(genFile) : genFile[i].from = Adapter => genFile[i].key # rec.key
  <2>1. CASE Adapter = "massive"
    <3>1. passing = 2 /\ 1 \in 1..Len(rowsLeft)
      BY <1>1, <2>1 DEF TwoPasses
    <3> QED
      BY <1>1, <1>3, <2>1, <3>1 DEF KeysSeen
  <2>2. CASE Adapter # "massive"
    BY <1>3, <2>2 DEF KeysSeen
  <2> QED
    BY <2>1, <2>2
<1>5. /\ IsSequence(genFile') /\ FileOfEarlier' /\ ImportedOnce' /\ GoldOffered'
      /\ Len(genFile) \in Nat /\ Len(genFile') = Len(genFile) + 1 /\ genFile'[Len(genFile) + 1] = rec
      /\ \A i \in 1..Len(genFile) : genFile'[i] = genFile[i]
  BY <1>1, <1>4, WriteKeeps
<1>6. \A i \in 1..Len(genFile') : i \in 1..Len(genFile) \/ i = Len(genFile) + 1
  BY <1>5
<1>7. GenPlace'
  BY <1>1, <1>2, <1>5 DEF GenInv, GenPlace
<1>8. RowsCounted'
  <2>1. tally.looked = tally.skipped + tally.kept + InHand
    BY DEF GenInv, RowsCounted
  <2>2. CASE passing = 1
    <3>1. Adapter \notin TwoPasses
      BY <2>2
    <3>2. InHand' = 0 /\ InHand = 0
      BY <1>1, <3>1 DEF InHand
    <3> QED
      BY <1>2, <2>1, <2>2, <3>2 DEF RowsCounted
  <2>3. CASE passing = 2
    <3>1. InHand = Len(rowsLeft) /\ InHand' = Len(rowsLeft')
      BY <1>1, <1>3, <2>3 DEF InHand
    <3>2. /\ tally'.looked = tally.looked /\ tally'.skipped = tally.skipped /\ tally'.kept = tally.kept + 1
          /\ tally.looked \in Nat /\ tally.skipped \in Nat /\ tally.kept \in Nat
      BY <1>2, <2>3
    <3>3. PICK n \in Nat : Len(rowsLeft) = n + 1 /\ Len(rowsLeft') = n
      BY <1>1
    <3>4. tally'.looked = tally'.skipped + tally'.kept + n
      BY <1>2, <2>1, <3>1, <3>2, <3>3, OneKept
    <3>5. InHand' = n
      BY <3>1, <3>3
    <3> QED
      BY <3>4, <3>5 DEF RowsCounted
  <2> QED
    BY <1>3, <2>2, <2>3
<1>9. KeysSeen'
  <2>1. CASE Adapter # "massive"
    <3>1. \A i \in 1..Len(genFile') : genFile'[i].from = Adapter => genFile'[i].key \in seenKeys'
      BY <1>3, <1>5, <1>6, <2>1 DEF KeysSeen
    <3> QED
      BY <1>1, <2>1, <3>1 DEF KeysSeen
  <2>2. CASE Adapter = "massive"
    <3>1. passing = 2
      BY <2>2 DEF TwoPasses
    <3>2. 1 \in 1..Len(rowsLeft)
      BY <1>1
    <3>3. /\ \A k \in 1..Len(rowsLeft) : MassiveUsable(rowsLeft[k])
          /\ \A j, k \in 1..Len(rowsLeft) : rowsLeft[j].text = rowsLeft[k].text => j = k
          /\ \A i \in 1..Len(genFile), k \in 1..Len(rowsLeft) :
               genFile[i].from = "massive" => genFile[i].key # rowsLeft[k].text
      BY <1>3, <2>2, <3>1 DEF KeysSeen
    <3>4. \A k \in 1..Len(rowsLeft') : MassiveUsable(rowsLeft'[k])
      BY <1>1, <3>3
    <3>5. ASSUME NEW j \in 1..Len(rowsLeft'), NEW k \in 1..Len(rowsLeft'), rowsLeft'[j].text = rowsLeft'[k].text
          PROVE  j = k
      <4>1. PICK a \in 1..Len(rowsLeft), b \in 1..Len(rowsLeft) : a = j + 1 /\ b = k + 1
        BY <1>1
      <4>2. rowsLeft[a].text = rowsLeft[b].text
        BY <1>1, <3>5, <4>1
      <4> QED
        BY <3>3, <4>1, <4>2
    <3>6. ASSUME NEW i \in 1..Len(genFile'), NEW k \in 1..Len(rowsLeft'), genFile'[i].from = "massive"
          PROVE  genFile'[i].key # rowsLeft'[k].text
      <4>1. PICK b \in 1..Len(rowsLeft) : b = k + 1 /\ rowsLeft'[k] = rowsLeft[b]
        BY <1>1
      <4>2. CASE i \in 1..Len(genFile)
        BY <1>5, <3>3, <3>6, <4>1, <4>2
      <4>3. CASE i = Len(genFile) + 1
        <5>1. genFile'[i].key = rowsLeft[1].text /\ b # 1
          BY <1>1, <1>5, <2>2, <4>1, <4>3
        <5> QED
          BY <3>2, <3>3, <4>1, <5>1
      <4> QED
        BY <1>6, <4>2, <4>3
    <3>7. \A r : MassiveUsable(r)' <=> MassiveUsable(r)
      BY DEF MassiveUsable
    <3>8. Adapter' = "massive" /\ passing' = 2
      BY <1>1, <2>2, <3>1
    <3> QED
      BY <3>4, <3>5, <3>6, <3>7, <3>8 DEF KeysSeen
  <2> QED
    BY <2>1, <2>2
<1> QED
  BY <1>5, <1>7, <1>8, <1>9 DEF GenInv

\* A row is kept for the second pass.
LEMMA PoolKeeps ==
  ASSUME GenInv, rowsLeft # <<>>, OnlyRows, Looked(0, 0), passing = 1, Adapter \in TwoPasses, UNCHANGED genFile,
         seenKeys \subseteq seenKeys', NEW row, pool' = Append(pool, row),
         Adapter = "massive" => MassiveUsable(row) /\ row.text \notin seenKeys /\ row.text \in seenKeys'
  PROVE  GenInv'
<1>1. /\ IsSequence(rowsLeft') /\ UNCHANGED <<generators, passing, Adapter>>
  BY RowDone
<1>2. /\ tally' \in [looked : Nat, skipped : Nat, kept : Nat]
      /\ tally'.looked = tally.looked + 1 /\ tally'.skipped = tally.skipped /\ tally'.kept = tally.kept
      /\ tally \in [looked : Nat, skipped : Nat, kept : Nat]
  BY DEF Looked, GenInv, GenPlace
<1>3. PICK n \in Nat : n = Len(pool)
  BY AppendedIs DEF GenInv, GenPlace
<1>4. /\ IsSequence(pool') /\ Len(pool') = n + 1 /\ pool'[n + 1] = row /\ \A k \in 1..n : pool'[k] = pool[k]
  BY <1>3, AppendedIs DEF GenInv, GenPlace
<1>5. GenPlace'
  BY <1>1, <1>2, <1>4 DEF GenInv, GenPlace
<1>6. RowsCounted'
  <2>1. InHand = n /\ InHand' = n + 1
    BY <1>1, <1>3, <1>4 DEF InHand
  <2>2. tally.looked = tally.skipped + tally.kept + n
    BY <2>1 DEF GenInv, RowsCounted
  <2>3. tally'.looked = tally'.skipped + tally'.kept + (n + 1)
    BY <1>2, <2>2, OneLooked
  <2> QED
    BY <2>1, <2>3 DEF RowsCounted
<1>7. FileOfEarlier' /\ ImportedOnce' /\ GoldOffered'
  BY <1>1 DEF GenInv, FileOfEarlier, ImportedOnce, GoldOffered
<1>8. KeysSeen'
  <2>1. CASE Adapter # "massive"
    <3>1. KeysSeen
      BY DEF GenInv
    <3> QED
      BY <1>1, <2>1, <3>1 DEF KeysSeen
  <2>2. CASE Adapter = "massive"
    <3>1. /\ \A i \in 1..Len(genFile) : genFile[i].from # "massive"
          /\ \A k \in 1..n : MassiveUsable(pool[k]) /\ pool[k].text \in seenKeys
          /\ \A j, k \in 1..n : pool[j].text = pool[k].text => j = k
      BY <1>3, <2>2 DEF GenInv, KeysSeen
    <3>2. \A k \in 1..(n + 1) : k \in 1..n \/ k = n + 1
      OBVIOUS
    <3>3. \A k \in 1..(n + 1) : MassiveUsable(pool'[k]) /\ pool'[k].text \in seenKeys'
      BY <1>4, <2>2, <3>1, <3>2
    <3>4. \A j, k \in 1..(n + 1) : pool'[j].text = pool'[k].text => j = k
      BY <1>4, <2>2, <3>1, <3>2
    <3>5. \A r : MassiveUsable(r)' <=> MassiveUsable(r)
      BY DEF MassiveUsable
    <3>6. Adapter' = "massive" /\ passing' = 1
      BY <1>1, <2>2
    <3> QED
      BY <1>4, <3>1, <3>3, <3>4, <3>5, <3>6 DEF KeysSeen
  <2> QED
    BY <2>1, <2>2
<1> QED
  BY <1>5, <1>6, <1>7, <1>8 DEF GenInv

\* An adapter that checks nothing writes a record or none.
LEMMA UncheckedKeeps ==
  ASSUME GenInv, Adapter \in Unchecked, IsSequence(rowsLeft'),
         UNCHANGED <<generators, passing, pool, seenKeys, tally>>,
         NEW rec, rec.from = Adapter, genFile' = genFile \/ genFile' = Append(genFile, rec)
  PROVE  GenInv'
<1>1. UNCHANGED Adapter /\ Adapter \notin TwoPasses \union {"zhihao", "authored"}
  BY DEF Adapter, Unchecked, TwoPasses
<1>2. IsSequence(genFile') /\ FileOfEarlier' /\ ImportedOnce' /\ GoldOffered'
  <2>1. CASE genFile' = genFile
    BY <2>1 DEF GenInv, GenPlace, FileOfEarlier, ImportedOnce, GoldOffered
  <2>2. CASE genFile' = Append(genFile, rec)
    BY <1>1, <2>2, WriteKeeps
  <2> QED
    BY <2>1, <2>2
<1>3. GenPlace'
  BY <1>1, <1>2 DEF GenInv, GenPlace
<1>4. RowsCounted'
  BY <1>1 DEF GenInv, RowsCounted, InHand
<1>5. KeysSeen'
  BY <1>1 DEF KeysSeen, TwoPasses
<1> QED
  BY <1>2, <1>3, <1>4, <1>5 DEF GenInv

\* import_zhihao_smarthome(), a row.
LEMMA ZhihaoKeeps == GenInv /\ ZhihaoRow => GenInv'
<1>1. SUFFICES ASSUME GenInv, ZhihaoRow PROVE GenInv'
  OBVIOUS
<1>2. rowsLeft # <<>> /\ Adapter = "zhihao"
  BY <1>1, ImporterIs DEF ZhihaoRow, GenInv
<1>3. CASE SkipRow
  BY <1>1, <1>2, <1>3, SkipKeeps DEF SkipRow
<1>4. ASSUME CalledOptions(Row) # {}, ZhihaoRecord.key \notin seenKeys, Yield(ZhihaoRecord),
             seenKeys' = seenKeys \union {ZhihaoRecord.key}
      PROVE  GenInv'
  <2>1. PICK rec : rec = ZhihaoRecord
    OBVIOUS
  <2>2. /\ rec.from = "zhihao" /\ rec.gold # {} /\ rec.intent = "control"
        /\ rec.key \notin seenKeys /\ rec.key \in seenKeys' /\ seenKeys \subseteq seenKeys'
    BY <1>4, <2>1 DEF ZhihaoRecord
  <2>3. CASE rec.gold \subseteq rec.options
    <3>1. Looked(0, 1) /\ OnlyRows /\ genFile' = Append(genFile, rec) /\ UNCHANGED pool
      BY <1>4, <2>1, <2>3 DEF Yield
    <3> QED
      BY <1>1, <1>2, <2>2, <2>3, <3>1, YieldKeeps DEF Unchecked, TwoPasses
  <2>4. CASE ~(rec.gold \subseteq rec.options)
    <3>1. UNCHANGED <<generators, rowsLeft, passing, pool, tally, genFile>>
      BY <1>4, <2>1, <2>4 DEF Yield
    <3> QED
      BY <1>1, <2>2, <3>1, StopKeeps
  <2> QED
    BY <2>3, <2>4
<1> QED
  BY <1>1, <1>3, <1>4 DEF ZhihaoRow

\* import_scenic(), its first pass.
LEMMA ScenicReadKeeps == GenInv /\ ScenicRead => GenInv'
<1>1. SUFFICES ASSUME GenInv, ScenicRead PROVE GenInv'
  OBVIOUS
<1>2. rowsLeft # <<>> /\ Adapter = "scenic" /\ passing = 1
  BY <1>1, ImporterIs DEF ScenicRead, GenInv
<1>3. CASE SkipRow
  BY <1>1, <1>2, <1>3, SkipKeeps DEF SkipRow
<1>4. CASE ~SkipRow
  <2>1. /\ Looked(0, 0) /\ OnlyRows /\ UNCHANGED <<seenKeys, genFile>>
        /\ pool' = Append(pool, [Row EXCEPT !.segments = Parsed(@)])
    BY <1>1, <1>4 DEF ScenicRead
  <2> QED
    BY <1>1, <1>2, <2>1, PoolKeeps DEF TwoPasses
<1> QED
  BY <1>3, <1>4

\* import_scenic(), its second pass.
LEMMA ScenicYieldKeeps == GenInv /\ ScenicYield => GenInv'
<1>1. SUFFICES ASSUME GenInv, ScenicYield PROVE GenInv'
  OBVIOUS
<1>2. rowsLeft # <<>> /\ Adapter = "scenic" /\ passing = 2
  BY <1>1, ImporterIs DEF ScenicYield, GenInv
<1>3. CASE SkipRow
  BY <1>1, <1>2, <1>3, SkipKeeps DEF SkipRow
<1>4. CASE ~SkipRow
  <2>1. PICK home : home = ScenicHome(pool)
    OBVIOUS
  <2>2. Row.text \notin seenKeys /\ seenKeys' = seenKeys \union {Row.text}
    BY <1>1, <1>4 DEF ScenicYield
  <2>3. CASE ScenicGold(Row.segments, home) = {}
    <3>1. Looked(1, 0) /\ OnlyRows /\ UNCHANGED <<pool, genFile>>
      BY <1>1, <1>4, <2>1, <2>3 DEF ScenicYield
    <3> QED
      BY <1>1, <1>2, <2>2, <3>1, SkipKeeps
  <2>4. CASE ScenicGold(Row.segments, home) # {}
    <3>1. PICK others : Yield(ScenicRecord(home, others))
      BY <1>1, <1>4, <2>1, <2>4 DEF ScenicYield
    <3>2. PICK rec : rec = ScenicRecord(home, others)
      OBVIOUS
    <3>3. rec.from = "scenic" /\ rec.gold # {} /\ rec.intent # "unrelated" /\ rec.key = Row.text
      BY <2>4, <3>2 DEF ScenicRecord
    <3>4. CASE rec.gold \subseteq rec.options
      <4>1. Looked(0, 1) /\ OnlyRows /\ genFile' = Append(genFile, rec) /\ UNCHANGED pool
        BY <3>1, <3>2, <3>4 DEF Yield
      <4> QED
        BY <1>1, <1>2, <2>2, <3>3, <3>4, <4>1, YieldKeeps DEF Unchecked, TwoPasses
    <3>5. CASE ~(rec.gold \subseteq rec.options)
      <4>1. UNCHANGED <<generators, rowsLeft, passing, pool, tally, genFile>>
        BY <3>1, <3>2, <3>5 DEF Yield
      <4> QED
        BY <1>1, <2>2, <4>1, StopKeeps
    <3> QED
      BY <3>4, <3>5
  <2> QED
    BY <2>3, <2>4
<1> QED
  BY <1>3, <1>4

\* import_massive_zh(), what is read.
LEMMA MassiveReadKeeps == GenInv /\ MassiveRead => GenInv'
<1>1. SUFFICES ASSUME GenInv, MassiveRead PROVE GenInv'
  OBVIOUS
<1>2. rowsLeft # <<>> /\ Adapter = "massive" /\ passing = 1
  BY <1>1, ImporterIs DEF MassiveRead, GenInv
<1>3. CASE SkipRow
  BY <1>1, <1>2, <1>3, SkipKeeps DEF SkipRow
<1>4. CASE OnlyRows /\ UNCHANGED <<pool, seenKeys, tally, genFile, genAt>>
  BY <1>1, <1>2, <1>4, IgnoreKeeps
<1>5. ASSUME Row.text \notin seenKeys, seenKeys' = seenKeys \union {Row.text}, MassiveUsable(Row),
             Looked(0, 0), OnlyRows, pool' = Append(pool, Row), UNCHANGED genFile
      PROVE  GenInv'
  <2>1. PICK row : row = Row
    OBVIOUS
  <2>2. /\ pool' = Append(pool, row) /\ MassiveUsable(row) /\ row.text \notin seenKeys /\ row.text \in seenKeys'
        /\ seenKeys \subseteq seenKeys' /\ Adapter \in TwoPasses
    BY <1>2, <1>5, <2>1 DEF TwoPasses
  <2> QED
    BY <1>1, <1>2, <1>5, <2>2, PoolKeeps
<1>6. ASSUME seenKeys' = seenKeys \union {Row.text}, Looked(1, 0), OnlyRows, UNCHANGED <<pool, genFile, genAt>> PROVE GenInv'
  BY <1>1, <1>2, <1>6, SkipKeeps
<1> QED
  BY <1>1, <1>3, <1>4, <1>5, <1>6 DEF MassiveRead

\* import_massive_zh(), what was chosen.
LEMMA MassiveYieldKeeps == GenInv /\ MassiveYield => GenInv'
<1>1. SUFFICES ASSUME GenInv, MassiveYield PROVE GenInv'
  OBVIOUS
<1>2. rowsLeft # <<>> /\ Adapter = "massive" /\ passing = 2 /\ Yield(MassiveRecord(Row)) /\ UNCHANGED seenKeys
  BY <1>1, ImporterIs DEF MassiveYield, GenInv
<1>3. PICK row, rec : row = Row /\ rec = MassiveRecord(row)
  OBVIOUS
<1>4. MassiveUsable(row)
  <2>1. row = rowsLeft[1] /\ 1 \in 1..Len(rowsLeft)
    BY <1>1, <1>2, <1>3, RestIs DEF GenInv, GenPlace, Row
  <2> QED
    BY <1>1, <1>2, <2>1 DEF GenInv, KeysSeen
<1>5. /\ rec.from = "massive" /\ rec.key = Row.text
      /\ rec.intent = "control" => rec.gold # {}
      /\ rec.intent = "unrelated" => rec.gold = {}
  BY <1>3, <1>4, ImportAssumption DEF MassiveRecord, MassiveUsable
<1>6. CASE rec.gold \subseteq rec.options
  <2>1. Looked(0, 1) /\ OnlyRows /\ genFile' = Append(genFile, rec) /\ UNCHANGED pool
    BY <1>2, <1>3, <1>6 DEF Yield
  <2> QED
    BY <1>1, <1>2, <1>5, <1>6, <2>1, YieldKeeps DEF Unchecked, TwoPasses
<1>7. CASE ~(rec.gold \subseteq rec.options)
  <2>1. UNCHANGED <<generators, rowsLeft, passing, pool, tally, genFile>>
    BY <1>2, <1>3, <1>7 DEF Yield
  <2> QED
    BY <1>1, <1>2, <2>1, StopKeeps
<1> QED
  BY <1>6, <1>7

\* _import_authored_cases(), a line.
LEMMA AuthoredKeeps == GenInv /\ AuthoredRow => GenInv'
<1>1. SUFFICES ASSUME GenInv, AuthoredRow PROVE GenInv'
  OBVIOUS
<1>2. rowsLeft # <<>> /\ Adapter = "authored"
  BY <1>1, ImporterIs DEF AuthoredRow, GenInv
<1>3. CASE SkipRow
  BY <1>1, <1>2, <1>3, SkipKeeps DEF SkipRow
<1>4. CASE UNCHANGED <<generators, rowsLeft, passing, pool, seenKeys, tally, genFile>>
  BY <1>1, <1>4, StopKeeps
<1>5. ASSUME CaseFine, <<Row.home, Row.text>> \notin seenKeys, Yield(CaseRecord("authored")),
             seenKeys' = seenKeys \union {<<Row.home, Row.text>>}
      PROVE  GenInv'
  <2>1. PICK rec : rec = CaseRecord("authored")
    OBVIOUS
  <2>2. /\ rec.from = "authored" /\ rec.key \notin seenKeys /\ rec.key \in seenKeys' /\ seenKeys \subseteq seenKeys'
        /\ rec.intent = "control" => rec.gold # {}
        /\ rec.intent = "unrelated" => rec.gold = {}
    BY <1>5, <2>1 DEF CaseRecord, CaseFine
  <2>3. CASE rec.gold \subseteq rec.options
    <3>1. Looked(0, 1) /\ OnlyRows /\ genFile' = Append(genFile, rec) /\ UNCHANGED pool
      BY <1>5, <2>1, <2>3 DEF Yield
    <3> QED
      BY <1>1, <1>2, <2>2, <2>3, <3>1, YieldKeeps DEF Unchecked, TwoPasses
  <2>4. CASE ~(rec.gold \subseteq rec.options)
    <3>1. UNCHANGED <<generators, rowsLeft, passing, pool, tally, genFile>>
      BY <1>5, <2>1, <2>4 DEF Yield
    <3> QED
      BY <1>1, <2>2, <3>1, StopKeeps
  <2> QED
    BY <2>3, <2>4
<1> QED
  BY <1>1, <1>3, <1>4, <1>5 DEF AuthoredRow, CaseFine

\* _import_evals_cases(), a case.
LEMMA CaseKeeps == GenInv /\ CaseRow => GenInv'
<1>1. SUFFICES ASSUME GenInv, CaseRow PROVE GenInv'
  OBVIOUS
<1>2. rowsLeft # <<>> /\ Adapter = "cases" /\ Adapter \in Unchecked
  BY <1>1, ImporterIs DEF CaseRow, GenInv, Unchecked
<1>3. CASE UNCHANGED <<generators, rowsLeft, passing, pool, seenKeys, tally, genFile>>
  BY <1>1, <1>3, StopKeeps
<1>4. ASSUME OnlyRows, UNCHANGED <<pool, seenKeys, tally>>, genFile' = genFile \/ genFile' = Append(genFile, CaseRecord("cases"))
      PROVE  GenInv'
  <2>1. PICK rec : rec = CaseRecord("cases")
    OBVIOUS
  <2>2. rec.from = Adapter
    BY <1>2, <2>1 DEF CaseRecord
  <2>3. IsSequence(rowsLeft') /\ UNCHANGED <<generators, passing>>
    BY <1>1, <1>2, <1>4, RowDone
  <2> QED
    BY <1>1, <1>2, <1>4, <2>1, <2>2, <2>3, UncheckedKeeps
<1> QED
  BY <1>1, <1>3, <1>4 DEF CaseRow

\* _import_records(), a record.
LEMMA RecordKeeps == GenInv /\ RecordRow => GenInv'
<1>1. SUFFICES ASSUME GenInv, RecordRow PROVE GenInv'
  OBVIOUS
<1>2. rowsLeft # <<>> /\ Adapter = "records" /\ Adapter \in Unchecked
  BY <1>1, ImporterIs DEF RecordRow, GenInv, Unchecked
<1>3. PICK rec : rec = CaseRecord("records")
  OBVIOUS
<1>4. rec.from = Adapter /\ (genFile' = genFile \/ genFile' = Append(genFile, rec))
  BY <1>1, <1>2, <1>3 DEF CaseRecord, RecordRow
<1>5. OnlyRows /\ UNCHANGED <<pool, seenKeys, tally>>
  BY <1>1 DEF RecordRow
<1>6. IsSequence(rowsLeft') /\ UNCHANGED <<generators, passing>>
  BY <1>1, <1>2, <1>5, RowDone
<1> QED
  BY <1>1, <1>2, <1>4, <1>5, <1>6, UncheckedKeeps

\* _llm(), a case of an answer or a call that is over.
LEMMA ModelKeeps == GenInv /\ ModelCall => GenInv'
<1>1. SUFFICES ASSUME GenInv, ModelCall PROVE GenInv'
  OBVIOUS
<1>2. rowsLeft # <<>> /\ Adapter = "llm" /\ Adapter \in Unchecked /\ UNCHANGED <<pool, seenKeys, tally>>
  BY <1>1, ImporterIs DEF ModelCall, GenInv, Unchecked
<1>3. PICK rec : rec = ModelRecord(Head(Row.answer))
  OBVIOUS
<1>4. rec.from = Adapter
  BY <1>2, <1>3 DEF ModelRecord
<1>5. CASE rowsLeft' = [rowsLeft EXCEPT ![1].answer = Tail(@)] /\ UNCHANGED <<generators, passing>>
  <2>1. genFile' = genFile \/ genFile' = Append(genFile, rec)
    BY <1>1, <1>3 DEF ModelCall
  <2>2. IsSequence(rowsLeft')
    <3>1. PICK n \in Nat : DOMAIN rowsLeft = 1..n
      BY <1>1, <1>2, RestIs DEF GenInv, GenPlace
    <3>2. DOMAIN rowsLeft' = 1..n /\ rowsLeft' = [k \in 1..n |-> rowsLeft'[k]]
      BY <1>5, <3>1
    <3>3. rowsLeft' \in [1..n -> ToSet(rowsLeft')]
      BY <3>2 DEF ToSet
    <3> QED
      BY <3>3, SeqDef DEF IsSequence
  <2> QED
    BY <1>1, <1>2, <1>4, <1>5, <2>1, <2>2, UncheckedKeeps
<1>6. CASE OnlyRows /\ UNCHANGED genFile
  <2>1. IsSequence(rowsLeft') /\ UNCHANGED <<generators, passing>>
    BY <1>1, <1>2, <1>6, RowDone
  <2> QED
    BY <1>1, <1>2, <1>4, <1>6, <2>1, UncheckedKeeps
<1>7. CASE UNCHANGED <<generators, rowsLeft, passing, genFile>>
  BY <1>1, <1>2, <1>7, StopKeeps
<1> QED
  BY <1>1, <1>5, <1>6, <1>7 DEF ModelCall

\* The second pass of import_scenic() reads the pool, that of
\* import_massive_zh() what is sampled of it.
LEMMA SecondPassKeeps == GenInv /\ SecondPass => GenInv'
<1>1. SUFFICES ASSUME GenInv, SecondPass PROVE GenInv'
  OBVIOUS
<1>2. /\ passing = 1 /\ passing' = 2 /\ Adapter \in TwoPasses /\ UNCHANGED <<generators, pool, seenKeys, genFile>>
      /\ IsSequence(pool) /\ UNCHANGED Adapter
  BY <1>1, ImporterIs DEF SecondPass, GenInv, GenPlace, TwoPasses, Adapter
<1>3. PICK n \in Nat : n = Len(pool) /\ DOMAIN pool = 1..n
  BY <1>2, AppendedIs
<1>4. /\ FileOfEarlier' /\ ImportedOnce' /\ GoldOffered'
      /\ tally \in [looked : Nat, skipped : Nat, kept : Nat] /\ tally.looked = tally.skipped + tally.kept + n
  <2>1. InHand = n
    BY <1>2, <1>3 DEF InHand
  <2> QED
    BY <1>1, <1>2, <2>1 DEF GenInv, GenPlace, RowsCounted, FileOfEarlier, ImportedOnce, GoldOffered
<1>5. CASE Adapter = "scenic"
  <2>1. rowsLeft' = pool /\ UNCHANGED tally
    BY <1>1, <1>5, ImporterIs DEF SecondPass, GenInv
  <2>2. GenPlace'
    BY <1>1, <1>2, <2>1 DEF GenInv, GenPlace
  <2>3. RowsCounted'
    <3>1. InHand' = n
      BY <1>2, <1>3, <2>1 DEF InHand
    <3> QED
      BY <1>4, <2>1, <3>1 DEF RowsCounted
  <2>4. KeysSeen'
    BY <1>1, <1>2, <1>5 DEF GenInv, KeysSeen
  <2> QED
    BY <1>4, <2>2, <2>3, <2>4 DEF GenInv
<1>6. CASE Adapter = "massive"
  <2>1. PICK taken \in SUBSET (1..n) : \E order \in YieldOrders(taken) :
          /\ rowsLeft' = [i \in 1..Cardinality(taken) |-> pool[order[i]]]
          /\ tally' = [tally EXCEPT !.skipped = @ + Len(pool) - Cardinality(taken)]
    BY <1>1, <1>3, <1>6, ImporterIs DEF SecondPass, GenInv, Samples
  <2>2. PICK m \in Nat : m = Cardinality(taken) /\ m <= n
    <3>1. IsFiniteSet(1..n) /\ Cardinality(1..n) = n
      BY FS_Interval
    <3>2. IsFiniteSet(taken) /\ Cardinality(taken) <= n
      BY <3>1, FS_Subset
    <3>3. Cardinality(taken) \in Nat
      BY <3>2, FS_CardinalityType
    <3> QED
      BY <3>2, <3>3
  <2>3. PICK order \in [1..m -> taken] :
          /\ \A i, j \in 1..m : i < j => order[i] # order[j]
          /\ rowsLeft' = [i \in 1..m |-> pool[order[i]]]
          /\ tally' = [tally EXCEPT !.skipped = @ + n - m]
    BY <1>3, <2>1, <2>2 DEF YieldOrders
  <2>4. /\ tally' \in [looked : Nat, skipped : Nat, kept : Nat]
        /\ tally'.looked = tally.looked /\ tally'.kept = tally.kept /\ tally'.skipped = tally.skipped + (n - m)
    <3>1. PICK s \in Nat : s = tally.skipped + n - m /\ s = tally.skipped + (n - m)
      <4>1. tally.skipped \in Nat
        BY <1>4
      <4> QED
        BY <2>2, <4>1
    <3>2. tally' = [tally EXCEPT !.skipped = s]
      BY <2>3, <3>1
    <3> QED
      BY <1>4, <3>1, <3>2
  <2>5. IsSequence(rowsLeft') /\ Len(rowsLeft') = m /\ \A i \in 1..m : rowsLeft'[i] = pool[order[i]] /\ order[i] \in 1..n
    <3>1. rowsLeft' \in [1..m -> ToSet(rowsLeft')]
      BY <2>3 DEF ToSet
    <3>2. rowsLeft' \in Seq(ToSet(rowsLeft')) /\ DOMAIN rowsLeft' = 1..m
      BY <3>1, SeqDef
    <3>3. Len(rowsLeft') = m
      BY <3>2, LenProperties
    <3> QED
      BY <2>3, <3>2, <3>3 DEF IsSequence
  <2>6. GenPlace'
    BY <1>1, <1>2, <2>4, <2>5 DEF GenInv, GenPlace
  <2>7. RowsCounted'
    <3>1. InHand' = m
      BY <1>2, <2>5 DEF InHand
    <3>2. tally'.looked = tally'.skipped + tally'.kept + m
      BY <1>4, <2>2, <2>4
    <3> QED
      BY <3>1, <3>2 DEF RowsCounted
  <2>8. KeysSeen'
    <3>1. /\ \A i \in 1..Len(genFile) : genFile[i].from # "massive"
          /\ \A k \in 1..n : MassiveUsable(pool[k])
          /\ \A j, k \in 1..n : pool[j].text = pool[k].text => j = k
      BY <1>1, <1>2, <1>3, <1>6 DEF GenInv, KeysSeen
    <3>2. \A i \in 1..m : MassiveUsable(rowsLeft'[i])
      BY <2>5, <3>1
    <3>3. ASSUME NEW i \in 1..m, NEW j \in 1..m, rowsLeft'[i].text = rowsLeft'[j].text PROVE i = j
      <4>1. order[i] = order[j]
        BY <2>5, <3>1, <3>3
      <4> QED
        BY <2>3, <4>1
    <3>4. \A r : MassiveUsable(r)' <=> MassiveUsable(r)
      BY DEF MassiveUsable
    <3>5. Adapter' = "massive" /\ passing' = 2
      BY <1>2, <1>6
    <3> QED
      BY <1>2, <2>5, <3>1, <3>2, <3>3, <3>4, <3>5 DEF KeysSeen
  <2> QED
    BY <1>4, <2>6, <2>7, <2>8 DEF GenInv
<1> QED
  BY <1>2, <1>5, <1>6 DEF TwoPasses

\* generate(), the next one of the list.
LEMMA NextGeneratorKeeps == GenInv /\ NextGenerator => GenInv'
<1>1. SUFFICES ASSUME GenInv, NextGenerator PROVE GenInv'
  OBVIOUS
<1>2. CASE UNCHANGED <<generators, rowsLeft, passing, pool, seenKeys, tally, genFile>>
  BY <1>1, <1>2, StopKeeps
<1>3. ASSUME Len(generators) # 1, generators' = Tail(generators), rowsLeft' = generators[2].rows, passing' = 1,
             pool' = <<>>, seenKeys' = {}, tally' = [looked |-> 0, skipped |-> 0, kept |-> 0], genFile' = genFile
      PROVE  GenInv'
  <2>1. PICK n \in Nat : Len(generators) = n + 2
    <3>1. Len(generators) \in Nat \ {0}
      BY <1>1, RestIs DEF GenInv, GenPlace
    <3>2. \A l \in Nat \ {0} : l # 1 => l - 2 \in Nat /\ l = (l - 2) + 2
      OBVIOUS
    <3>3. Len(generators) # 1
      BY <1>3
    <3> QED
      BY <3>1, <3>2, <3>3
  <2>2. /\ IsSequence(generators') /\ Len(generators') = n + 1
        /\ \A k \in 1..(n + 1) : generators'[k] = generators[k + 1] /\ k + 1 \in 1..(n + 2)
    BY <1>1, <1>3, <2>1, RestIs DEF GenInv, GenPlace
  <2>3. generators' # <<>>
    BY <2>2
  <2>4. Adapter' = generators[2].adapter /\ 2 \in 2..(n + 2) /\ 2 \in 1..(n + 2)
    BY <2>2 DEF Adapter
  <2>5. IsSequence(pool') /\ Len(pool') = 0
    <3>1. <<>> \in Seq({}) /\ Len(<<>>) = 0
      OBVIOUS
    <3> QED
      BY <1>3, <3>1, SequenceIs
  <2>6. GenPlace'
    <3>1. /\ \A k \in 1..(n + 2) : IsSequence(generators[k].rows)
          /\ \A j, k \in 1..(n + 2) :
               generators[j].adapter = generators[k].adapter => j = k \/ generators[j].adapter \in Unchecked
      BY <1>1, <2>1 DEF GenInv, GenPlace
    <3>2. \A k \in 1..(n + 1) : IsSequence(generators'[k].rows)
      BY <2>2, <3>1
    <3>3. ASSUME NEW j \in 1..(n + 1), NEW k \in 1..(n + 1), generators'[j].adapter = generators'[k].adapter
          PROVE  j = k \/ generators'[j].adapter \in Unchecked
      <4>1. PICK a \in 1..(n + 2), b \in 1..(n + 2) :
              a = j + 1 /\ b = k + 1 /\ generators'[j] = generators[a] /\ generators'[k] = generators[b]
        BY <2>2
      <4> QED
        BY <3>1, <3>3, <4>1
    <3>4. IsSequence(rowsLeft') /\ IsSequence(genFile')
      BY <1>1, <1>3, <2>4, <3>1 DEF GenInv, GenPlace
    <3>5. tally' \in [looked : Nat, skipped : Nat, kept : Nat]
      BY <1>3
    <3> QED
      BY <1>3, <2>2, <2>3, <2>5, <3>2, <3>3, <3>4, <3>5 DEF GenPlace
  <2>7. RowsCounted'
    <3>1. InHand' = 0
      BY <1>3, <2>5 DEF InHand
    <3> QED
      BY <1>3, <3>1 DEF RowsCounted
  <2>8. \A i \in 1..Len(genFile), k \in 2..(n + 2) :
          generators[k].adapter \notin Unchecked => genFile[i].from # generators[k].adapter
    BY <1>1, <2>1 DEF GenInv, FileOfEarlier
  <2>9. FileOfEarlier'
    <3>1. \A k \in 2..(n + 1) : k + 1 \in 2..(n + 2) /\ k \in 1..(n + 1)
      OBVIOUS
    <3> QED
      BY <1>3, <2>2, <2>8, <3>1 DEF FileOfEarlier
  <2>10. KeysSeen'
    <3>1. \A i \in 1..Len(genFile) : Adapter' \notin Unchecked => genFile[i].from # Adapter'
      BY <2>4, <2>8
    <3> QED
      BY <1>3, <2>5, <3>1 DEF KeysSeen, Unchecked
  <2>11. ImportedOnce' /\ GoldOffered'
    BY <1>1, <1>3 DEF GenInv, ImportedOnce, GoldOffered
  <2> QED
    BY <2>6, <2>7, <2>9, <2>10, <2>11 DEF GenInv
<1> QED
  BY <1>1, <1>2, <1>3 DEF NextGenerator

\* gen: the rows of the adapter that runs are accounted for at every moment,
\* nothing in the file is of an adapter yet to run, and whatever is written of
\* an adapter that checks has a key seen and an answer that is offered.
THEOREM GenCorrect == GenSpec => []GenInv
<1>1. GenInit => GenInv
  BY GenBegins
<1>2. GenInv /\ [GenNext]_genVars => GenInv'
  <2>1. CASE UNCHANGED genVars
    BY <2>1, StopKeeps DEF genVars
  <2> QED
    BY <2>1, ZhihaoKeeps, ScenicReadKeeps, ScenicYieldKeeps, MassiveReadKeeps, MassiveYieldKeeps, AuthoredKeeps,
       CaseKeeps, RecordKeeps, ModelKeeps, SecondPassKeeps, NextGeneratorKeeps DEF GenNext
<1> QED
  BY <1>1, <1>2, PTL DEF GenSpec

\* What is imported is right and nothing of it is lost silently, whatever the
\* rows are and wherever an importer stops.
THEOREM ImportsAreSound == GenSpec => []ImportedSound
<1>1. GenInv => ImportedSound
  <2>1. SUFFICES ASSUME GenInv PROVE RowsAccounted
    BY DEF GenInv, ImportedSound
  <2>2. SUFFICES ASSUME Exhausted PROVE tally.looked = tally.skipped + tally.kept
    BY DEF RowsAccounted
  <2>3. InHand = 0
    <3>1. rowsLeft = <<>> /\ (passing = 2 \/ Adapter \notin TwoPasses) /\ Len(<<>>) = 0
      BY <2>1, <2>2, ImporterIs DEF Exhausted, GenInv, TwoPasses
    <3> QED
      BY <2>1, <3>1 DEF InHand, GenInv, GenPlace
  <2>4. tally \in [looked : Nat, skipped : Nat, kept : Nat] /\ tally.looked = tally.skipped + tally.kept + InHand
    BY <2>1 DEF GenInv, GenPlace, RowsCounted
  <2> QED
    BY <2>3, <2>4
<1> QED
  BY <1>1, GenCorrect, PTL

=============================================================================
