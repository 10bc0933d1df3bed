------------------------------- MODULE NpuBench -------------------------------
(***************************************************************************)
(* laya/deploy/rk3588/laya_npu.py: how one decision is timed on the board  *)
(* under several schedules of its questions.                               *)
(*                                                                         *)
(* The main thread goes through a program for every record: it runs        *)
(* questions itself, hands questions to a pool of threads, waits for them, *)
(* and stops the clock.  A runtime is one graph loaded on one core and     *)
(* must not be entered by two threads; what a schedule dropped must not    *)
(* run into the time of the next record.                                   *)
(*                                                                         *)
(* Not here: statistics, convert (ModelFiles), the numbers of a tensor.    *)
(***************************************************************************)
EXTENDS Integers, Sequences, FiniteSets

CONSTANTS
  BenchRecords,    (* the records of the items file: what the model answers to
                      the first question, and the length of every question *)
  GateFirst, GateThen,   (* GATES[..]: the first question, and by its answer
                            the others, in order                          *)
  BenchBuckets,    (* --buckets                                           *)
  SetCounts,       (* --sets                                              *)
  HowMany          (* --n                                                 *)

\* The questions of the gate, and an order in which the first is before the
\* others and those of one answer are as they are asked.
Questions == {GateFirst} \union UNION {{GateThen[k][i] : i \in DOMAIN GateThen[k]} : k \in DOMAIN GateThen}

GateOrders ==
  {s \in [1 .. Cardinality(Questions) -> Questions] :
     /\ s[1] = GateFirst /\ \A q \in Questions : \E i \in DOMAIN s : s[i] = q
     /\ \A i, j \in DOMAIN s : s[i] = s[j] => i = j
     /\ \A k \in DOMAIN GateThen : \A a, b \in DOMAIN GateThen[k] : \A i, j \in DOMAIN s :
          a < b /\ s[i] = GateThen[k][a] /\ s[j] = GateThen[k][b] => i < j}

\* Records ask the first question; GATES calls for two others at most, none twice.
ASSUME BenchAssumption ==
  /\ SetCounts \subseteq 1 .. 3 /\ HowMany \in Nat \ {0}
  /\ BenchBuckets \subseteq Nat /\ BenchBuckets # {} /\ IsFiniteSet(BenchBuckets)
  /\ IsFiniteSet(Questions) /\ GateOrders # {}
  /\ \A k \in DOMAIN GateThen :
       /\ GateThen[k] \in Seq(Questions \ {GateFirst}) /\ Len(GateThen[k]) <= 2
       /\ \A i, j \in DOMAIN GateThen[k] : GateThen[k][i] = GateThen[k][j] => i = j
  /\ BenchRecords \in Seq({BenchRecords[i] : i \in DOMAIN BenchRecords})
  /\ \A i \in DOMAIN BenchRecords :
       LET r == BenchRecords[i]
       IN  /\ r = [answer |-> r.answer, len |-> r.len] /\ r.answer \in DOMAIN GateThen
           /\ r.len \in [DOMAIN r.len -> Nat] /\ GateFirst \in DOMAIN r.len /\ DOMAIN r.len \subseteq Questions

VARIABLES
  schedule,        (* which one is timed                                  *)
  sets,            (* --sets                                              *)
  recs,            (* the records selected                                *)
  recAt,           (* the record of the round                             *)
  mainStep,        (* where the main thread is in its program             *)
  queue,           (* of the pool: tasks nobody has taken                 *)
  running,         (* tasks in a runtime                                  *)
  ended,           (* questions of this record that have an answer        *)
  clock            (* "on" while the record is timed                      *)

benchVars == <<schedule, sets, recs, recAt, mainStep, queue, running, ended, clock>>

Schedules == {"run", "one_core", "per_question", "early_exit", "speculative",
              "staged", "on_sets"}
OnSets == {"staged", "on_sets"}

-----------------------------------------------------------------------------
(* Which records, which questions, which runtime *)

Longest(S) == CHOOSE b \in S : \A a \in S : a <= b
BucketOf(n) == CHOOSE b \in BenchBuckets : n <= b /\ \A a \in BenchBuckets : n <= a => b <= a
FitsBucket(r) == \A q \in DOMAIN r.len : r.len[q] <= Longest(BenchBuckets)

\* [x for x in s if x in S]
Among(s, S) ==
  LET places == {i \in DOMAIN s : s[i] \in S}
      nth(k) == CHOOSE i \in places : Cardinality({j \in places : j <= i}) = k
  IN  [k \in 1 .. Cardinality(places) |-> s[nth(k)]]

CutTo(s, n) == SubSeq(s, 1, IF Len(s) < n THEN Len(s) ELSE n)

OnlyFitting(r) ==
  [r EXCEPT !.len = [q \in {p \in DOMAIN r.len : r.len[p] <= Longest(BenchBuckets)} |-> r.len[q]]]

\* vals[:: max(1, len // n)][: n]
Spaced(vals, n) ==
  LET stride == IF Len(vals) \div n = 0 THEN 1 ELSE Len(vals) \div n
      places == CutTo(Among([i \in DOMAIN vals |-> i], {i \in DOMAIN vals : (i - 1) % stride = 0}), n)
  IN  [k \in DOMAIN places |-> vals[places[k]]]

\* bench takes the first that ask most, bench-sets and --all spread them out;
\* run takes every record, without the questions longer than the largest bucket.
Selected(how, all) ==
  LET fit == Among(BenchRecords, {BenchRecords[i] : i \in {k \in DOMAIN BenchRecords : FitsBucket(BenchRecords[k])}})
      full == Longest({Cardinality(DOMAIN fit[i].len) : i \in DOMAIN fit})
      fulls == Among(fit, {fit[i] : i \in {k \in DOMAIN fit : Cardinality(DOMAIN fit[k].len) = full}})
  IN  IF how = "run" THEN [i \in DOMAIN BenchRecords |-> OnlyFitting(BenchRecords[i])]
      ELSE IF how \in OnSets \/ all THEN Spaced(fit, HowMany)
      ELSE CutTo(fulls, HowMany)

Order == CHOOSE s \in GateOrders : TRUE

Has(r, qs) == Among(qs, DOMAIN r.len)
Needed(r) == Has(r, GateThen[r.answer])

\* bench gives each question a core of its own.
CoreOf(q) == (CHOOSE i \in DOMAIN Order : Order[i] = q) - 1
Task(q, place) == [q |-> q, place |-> place, by |-> "pool"]

\* The sets are loaded with every bucket, the cores with those they need.
Loaded ==
  IF schedule \in OnSets
  THEN (0 .. sets - 1) \X BenchBuckets
  ELSE IF schedule \in {"run", "one_core"} THEN {0} \X BenchBuckets
  ELSE UNION {{<<CoreOf(q), BucketOf(recs[i].len[q])>> : q \in DOMAIN recs[i].len}
                : i \in DOMAIN recs}

Runtime(r, task) == <<task.place, BucketOf(r.len[task.q])>>

-----------------------------------------------------------------------------
(* The program of a record *)

BenchStep(do, tasks, for) == [do |-> do, tasks |-> tasks, for |-> for]
AskedBy(tasks) == {tasks[i].q : i \in DOMAIN tasks}

RunAll(qs, place) ==
  LET tasks == [i \in DOMAIN qs |-> [Task(qs[i], place) EXCEPT !.by = "main"]]
  IN  BenchStep("run", tasks, AskedBy(tasks))
RunFirst(place) == RunAll(<<GateFirst>>, place)
Submit(tasks) == BenchStep("submit", tasks, {})
WaitFor(qs) == BenchStep("wait", <<>>, qs)
StopClock == BenchStep("stop", <<>>, {})

OnOwnCore(qs) == [i \in DOMAIN qs |-> Task(qs[i], CoreOf(qs[i]))]
SpreadOver(qs, n) == [i \in DOMAIN qs |-> Task(qs[i], (i - 1) % n)]

\* Mutant: the questions that are guessed start on set 0 as well.
GuessedFromZero(r, n) ==
  LET guess == Has(r, SubSeq(Order, 2, IF n < Len(Order) THEN n ELSE Len(Order)))
  IN  <<Task(GateFirst, 0)>> \o [i \in DOMAIN guess |-> Task(guess[i], i - 1)]

\* The first on set 0, the next questions of the gate on the sets after it.
Guessed(r, n) ==
  LET guess == Has(r, SubSeq(Order, 2, IF n < Len(Order) THEN n ELSE Len(Order)))
  IN  <<Task(GateFirst, 0)>> \o [i \in DOMAIN guess |-> Task(guess[i], i)]

ProgramOf(how, r, n) ==
  LET all == Has(r, Order)
      need == Needed(r)
      some(qs) == {qs[i] : i \in DOMAIN qs}
      guessed == AskedBy(Guessed(r, n))
  IN  CASE how \in {"run", "one_core"} -> <<RunAll(all, 0), StopClock>>
        [] how = "per_question" -> <<Submit(OnOwnCore(all)), WaitFor(some(all)), StopClock>>
        [] how = "early_exit" ->
             <<RunFirst(CoreOf(GateFirst)), Submit(OnOwnCore(need)), WaitFor(some(need)), StopClock>>
        [] how = "speculative" ->
             <<Submit(OnOwnCore(all)), WaitFor({GateFirst}), WaitFor(some(need)), StopClock, WaitFor(some(all))>>
        [] how = "staged" ->
             <<RunFirst(0), Submit(SpreadOver(need, n)), WaitFor(some(need)), StopClock>>
        [] how = "on_sets" ->
             <<Submit(Guessed(r, n)), WaitFor({GateFirst}), WaitFor(some(need) \intersect guessed),
               RunAll(Among(need, some(need) \ guessed), 0), StopClock, WaitFor(guessed)>>

Workers == CASE schedule \in OnSets -> sets
             [] schedule = "early_exit" -> 2
             [] OTHER -> 3

BenchInit ==
  /\ schedule \in Schedules
  /\ sets \in SetCounts
  /\ \E all \in BOOLEAN : recs = Selected(schedule, all)
  /\ recAt = 0 /\ mainStep = 1 /\ queue = <<>> /\ running = {} /\ ended = {}
  /\ clock = "off"

\* What the main thread goes through for the record it is at.
Program == IF recAt = 0 THEN <<>> ELSE ProgramOf(schedule, recs[recAt], sets)
Through == mainStep > Len(Program)

-----------------------------------------------------------------------------
(* Steps of the main thread *)

\* for rec in recs: the next one.
NextRecord ==
  /\ Through /\ recAt < Len(recs)
  /\ recAt' = recAt + 1 /\ mainStep' = 1
  /\ ended' = {} /\ clock' = "on"
  /\ UNCHANGED <<schedule, sets, recs, queue, running>>

At(do) == ~Through /\ Program[mainStep].do = do
GoesOn == mainStep' = mainStep + 1

\* The main thread enters a runtime itself and comes back with the answer; it
\* takes the questions one after another.
RunHere ==
  /\ At("run") /\ \A t \in running : t.by = "pool"
  /\ LET tasks == Program[mainStep].tasks
     IN  \E i \in DOMAIN tasks :
           /\ tasks[i].q \notin ended /\ \A j \in 1 .. (i - 1) : tasks[j].q \in ended
           /\ running' = running \union {tasks[i]}
  /\ UNCHANGED <<schedule, sets, recs, recAt, mainStep, queue, ended, clock>>

HandOver ==
  /\ At("submit") /\ GoesOn
  /\ queue' = queue \o Program[mainStep].tasks
  /\ UNCHANGED <<schedule, sets, recs, recAt, running, ended, clock>>

\* f.result(), and the answers of its own questions.
Waited ==
  /\ At("wait") \/ At("run")
  /\ Program[mainStep].for \subseteq ended /\ GoesOn
  /\ UNCHANGED <<schedule, sets, recs, recAt, queue, running, ended, clock>>

Stopped ==
  /\ At("stop") /\ GoesOn
  /\ clock' = "off"
  /\ UNCHANGED <<schedule, sets, recs, recAt, queue, running, ended>>

-----------------------------------------------------------------------------
(* The threads of the pool *)

\* A free thread takes the next task; the main thread is none of the pool.
TakeTask ==
  /\ queue # <<>>
  /\ Cardinality({t \in running : t.by = "pool"}) < Workers
  /\ running' = running \union {Head(queue)}
  /\ queue' = Tail(queue)
  /\ UNCHANGED <<schedule, sets, recs, recAt, mainStep, ended, clock>>

EndTask ==
  \E task \in running :
    /\ running' = running \ {task}
    /\ ended' = ended \union {task.q}
    /\ UNCHANGED <<schedule, sets, recs, recAt, mainStep, queue, clock>>

BenchNext ==
  \/ NextRecord \/ RunHere \/ HandOver \/ Waited \/ Stopped \/ TakeTask \/ EndTask

BenchSpec == BenchInit /\ [][BenchNext]_benchVars

-----------------------------------------------------------------------------
(* Properties *)

\* No two threads are in one runtime, and every runtime entered is loaded.
RuntimesApart ==
  /\ \A s, t \in running : s # t => Runtime(recs[recAt], s) # Runtime(recs[recAt], t)
  /\ \A t \in running : Runtime(recs[recAt], t) \in Loaded

\* When the clock stops, all that the first answer calls for is answered, and
\* between two records nothing of the last one is left to be done.
OneDecisionTimed ==
  /\ recAt > 0 /\ clock = "off" =>
       \A q \in DOMAIN recs[recAt].len :
         q = GateFirst \/ (\E i \in DOMAIN Needed(recs[recAt]) : Needed(recs[recAt])[i] = q) => q \in ended
  /\ Through => running = {} /\ queue = <<>>

\* laya_npu.py bench and bench-sets: the latency of a schedule is that of one
\* whole decision, alone on runtimes no two threads share.
BenchHonest == RuntimesApart /\ OneDecisionTimed
=============================================================================
