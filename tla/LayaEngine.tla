------------------------------ MODULE LayaEngine ------------------------------
(***************************************************************************)
(* eidolon_models_laya/engine.py and the RknnBackend of backends.py: how   *)
(* one worker thread answers the questions of one request after the other  *)
(* on the cores of an NPU.                                                 *)
(*                                                                         *)
(* A question may depend on others (ask_if): it is asked only if their     *)
(* answers are among the allowed ones, here always "yes".  Staged, the     *)
(* worker submits what is ready, waits for it, and goes on.  Speculative,  *)
(* it submits every question at once and waits only for those the earlier  *)
(* answers call for; the rest of the batch still runs, holding the batch   *)
(* lock, while the worker returns and takes the next request.              *)
(*                                                                         *)
(* LayaService runs this component: it decides when a request is taken.    *)
(***************************************************************************)
EXTENDS Integers, Sequences, FiniteSets, SequencesExt

CONSTANTS
  Reqs,            (* requests, numbered in order of arrival              *)
  Cores,           (* NPU cores in the order of the placement             *)
  Placement,       (* the buckets each core has loaded                    *)
  Plans,           (* what each request may ask, see below                *)
  Faults           (* what may go wrong, see FaultKinds                   *)

(* "npu_fails": infer() raises.  "npu_hangs": it never returns. *)
FaultKinds == {"npu_fails", "npu_hangs"}

(* A plan has, for every question numbered in the order of the request:
   len, its length in tokens; askIf, the questions it depends on; and the set
   `long` of questions whose options exceed the head budget.  The engine cuts
   a sequence to the largest bucket. *)
Buckets == UNION {Placement[c] : c \in Cores}
AllPlans == UNION {Plans[r] : r \in Reqs}

ASSUME EngineAssumption ==
  /\ Reqs \subseteq Nat \ {0} /\ Cores \subseteq Nat
  /\ Buckets \subseteq Nat
  /\ Faults \subseteq FaultKinds
  /\ \A r \in Reqs : Plans[r] # {}
  /\ \A p \in AllPlans :
       /\ p.len \in Seq(Nat)
       /\ p.askIf \in [DOMAIN p.len -> SUBSET DOMAIN p.len]
       /\ p.long \subseteq DOMAIN p.len
       /\ \A q \in DOMAIN p.len : \E b \in Buckets : p.len[q] <= b

VARIABLES
  speculative,     (* DecisionEngine.speculative                          *)
  plan,            (* what each request asks                              *)
  \* the worker thread, in predict()
  job,             (* the request it is at                                *)
  stage,           (* what it does next                                   *)
  todo, answers, skipped, need,      (* the local variables; todo is `pending` *)
  result,          (* what predict() returned or raised, per request      *)
  \* the backend
  locked, left,    (* _lock, and the items of its batch not finished      *)
  threads,         (* runs of the pool: a core and the items it has not computed *)
  futures          (* per request and question                            *)

engineVars == <<plan, job, stage, todo, answers, skipped, need, result,
                locked, left, threads, futures>>
backendVars == <<locked, left, threads, futures>>

NoRequest == 0
Empty == [q \in {} |-> "yes"]
Answer == {"yes", "no"}
Pending == [is |-> "none", answers |-> Empty, skipped |-> {}]

EngineInit ==
  /\ speculative \in BOOLEAN
  /\ plan = [r \in Reqs |-> CHOOSE p \in Plans[r] : TRUE]
  /\ job = NoRequest
  /\ stage = "idle"
  /\ todo = {} /\ answers = Empty /\ skipped = {} /\ need = {}
  /\ result = [r \in Reqs |-> Pending]
  /\ locked = FALSE /\ left = 0
  /\ threads = {}
  /\ futures = [r \in Reqs |-> Empty]

-----------------------------------------------------------------------------
(* check_ask_if() *)

Asks(p) == DOMAIN p.len

\* The questions q depends on, directly or not.
Ancestors(p, q) ==
  LET closed(S) == p.askIf[q] \subseteq S /\ \A d \in S : p.askIf[d] \subseteq S
  IN  {d \in Asks(p) : \A S \in SUBSET Asks(p) : closed(S) => d \in S}

\* Mutant: only questions that ask for themselves are found.
SelfAskingPlans == {p \in AllPlans : \E q \in Asks(p) : q \in p.askIf[q]}

\* What visit() rejects: a question that is met again on its own path.
CyclicPlans == {p \in AllPlans : \E q \in Asks(p) : q \in Ancestors(p, q)}

-----------------------------------------------------------------------------
(* RknnBackend.schedule() *)

Bucket(n) == CHOOSE b \in Buckets : n <= b /\ \A a \in Buckets : n <= a => b <= a

\* Longest first, and items of one length in the order of the batch.
Longer(len, p, q) == len[p] > len[q] \/ (len[p] = len[q] /\ p < q)

\* Of the cores that have the bucket of q, the one with the least to do when
\* the items longer than q are placed; the first of several.
LeastLoaded(place, batch, len, q) ==
  LET load == [c \in Cores |-> MapThenSumSet(LAMBDA p : Bucket(len[p]),
                                             {p \in batch : Longer(len, p, q) /\ place[p] = c})]
      here == place[q]
  IN  \A c \in Cores : Bucket(len[q]) \in Placement[c] =>
        load[here] < load[c] \/ (load[here] = load[c] /\ here <= c)

\* There is exactly one such placement of a batch.
Schedule(place, batch, len) ==
  \A q \in batch : Bucket(len[q]) \in Placement[place[q]] /\ LeastLoaded(place, batch, len, q)

\* A core runs the items of smaller buckets sooner; the sort is stable.
Sooner(len, p, q) ==
  LET a == Bucket(len[p])
      b == Bucket(len[q])
  IN  a < b \/ (a = b /\ Longer(len, p, q))

-----------------------------------------------------------------------------
(* RknnBackend.submit() and the run() of each core *)

\* A run on every core with items.
Runs(r, place, batch) ==
  {[core |-> c, req |-> r, items |-> {q \in batch : place[q] = c}, at |-> "infer"] :
     c \in {place[q] : q \in batch}}

Starts(r, batch) ==
  /\ locked' = TRUE
  /\ left' = Cardinality(batch)
  /\ \E place \in [batch -> Cores] :
       /\ Schedule(place, batch, plan[r].len)
       /\ threads' = threads \union Runs(r, place, batch)
  /\ futures' = [futures EXCEPT ![r] =
       [q \in DOMAIN @ \union batch |-> IF q \in batch THEN "running" ELSE @[q]]]

\* Mutant: submit() starts a batch whatever still runs.
SubmitUnlocked(r, batch) == Starts(r, batch)

\* Acquire the lock, share the items out, start the runs.
Submit(r, batch) == ~locked /\ Starts(r, batch)

Becomes(t, u) == threads' = (threads \ {t}) \union {u}

\* The next item is computed and its future resolved.
Infer(t) ==
  /\ t.at = "infer"
  /\ \E q \in t.items, outcome \in Answer \union (IF "npu_fails" \in Faults THEN {"failed"} ELSE {}) :
       /\ \A p \in t.items \ {q} : ~Sooner(plan[t.req].len, p, q)
       /\ futures' = [futures EXCEPT ![t.req][q] = outcome]
       /\ Becomes(t, [t EXCEPT !.items = @ \ {q}, !.at = "finished"])
  /\ UNCHANGED <<plan, job, stage, todo, answers, skipped, need, result, locked, left>>

\* infer() does not come back.
Hang(t) ==
  /\ t.at = "infer"
  /\ "npu_hangs" \in Faults
  /\ Becomes(t, [t EXCEPT !.at = "hung"])
  /\ UNCHANGED <<plan, job, stage, todo, answers, skipped, need, result, locked, left, futures>>

\* finished(): the last item of the batch frees the lock.
Finished(t) ==
  /\ t.at = "finished"
  /\ left' = left - 1
  /\ locked' = (left > 1)
  /\ IF t.items = {}
     THEN threads' = threads \ {t}
     ELSE Becomes(t, [t EXCEPT !.at = "infer"])
  /\ UNCHANGED <<plan, job, stage, todo, answers, skipped, need, result, futures>>

CoreStep == \E t \in threads : Infer(t) \/ Hang(t) \/ Finished(t)

-----------------------------------------------------------------------------
(* DecisionEngine.predict(), on the worker thread *)

Speculates(p) == speculative /\ \E q \in Asks(p) : p.askIf[q] # {}

\* predict() is over; the executor resolves the future of the request.
Returns(r, how) ==
  /\ result' = [result EXCEPT ![r] = how]
  /\ job' = NoRequest
  /\ stage' = "idle"
  /\ todo' = {} /\ answers' = Empty /\ skipped' = {} /\ need' = {}

Raises(r, what) == Returns(r, [is |-> what, answers |-> Empty, skipped |-> {}])

\* The checks of predict(), and all of _prepare() if it speculates.
Rejects(p) == p \in CyclicPlans \/ (Speculates(p) /\ p.long # {})

\* The worker takes a request.
Begin(r) ==
  /\ stage = "idle"
  /\ IF Rejects(plan[r])
     THEN Raises(r, "invalid")
     ELSE /\ job' = r
          /\ todo' = Asks(plan[r])
          /\ stage' = IF Speculates(plan[r]) THEN "submit_all" ELSE "round"
          /\ UNCHANGED <<result, answers, skipped, need>>
  /\ UNCHANGED backendVars

\* _predict_speculative() starts every question.
SubmitAll ==
  /\ stage = "submit_all"
  /\ Submit(job, Asks(plan[job]))
  /\ stage' = "round"
  /\ UNCHANGED <<plan, job, todo, answers, skipped, need, result>>

Ready == {q \in todo : plan[job].askIf[q] \subseteq DOMAIN answers \union skipped}

\* A question it depends on was skipped, or answered otherwise.
UncalledFor(q) == \E d \in plan[job].askIf[q] : d \in skipped \/ answers[d] # "yes"

\* One turn of the loop: skip what is not called for, ask for the rest.
\* Staged, _prepare() looks only at what is asked.
Round ==
  /\ stage = "round"
  /\ todo # {}
  /\ LET skip == {q \in Ready : UncalledFor(q)}
         ask == Ready \ skip
         p == plan[job]
     IN  IF ~Speculates(p) /\ ask \intersect p.long # {}
         THEN Raises(job, "invalid")
         ELSE /\ todo' = todo \ Ready
              /\ skipped' = skipped \union skip
              /\ need' = ask
              /\ stage' = CASE ask = {} -> "round"
                            [] Speculates(p) -> "await"
                            [] OTHER -> "submit"
              /\ UNCHANGED <<job, answers, result>>
  /\ UNCHANGED <<plan, backendVars>>

\* forward() submits the questions of this turn.
SubmitRound ==
  /\ stage = "submit"
  /\ Submit(job, need)
  /\ stage' = "await"
  /\ UNCHANGED <<plan, job, todo, answers, skipped, need, result>>

Resolved(q) == futures[job][q] \in Answer

\* Mutant: the speculative worker waits for the whole batch, and takes all of it.
AwaitBatch ==
  /\ stage = "await"
  /\ \A q \in DOMAIN futures[job] : Resolved(q)
  /\ answers' = futures[job]
  /\ stage' = "round"
  /\ UNCHANGED <<plan, job, todo, skipped, need, result, backendVars>>

\* Every future it waits for has an answer.
Await ==
  /\ stage = "await"
  /\ \A q \in need : Resolved(q)
  /\ answers' = [q \in DOMAIN answers \union need |->
                   IF q \in need THEN futures[job][q] ELSE answers[q]]
  /\ stage' = "round"
  /\ UNCHANGED <<plan, job, todo, skipped, need, result, backendVars>>

\* Futures are read in order: the first failed one raises, whatever the later
\* ones are doing.
AwaitFails ==
  /\ stage = "await"
  /\ \E q \in need :
       /\ futures[job][q] = "failed"
       /\ \A p \in need : p < q => Resolved(p)
  /\ Raises(job, "failed")
  /\ UNCHANGED <<plan, backendVars>>

Return ==
  /\ stage = "round"
  /\ todo = {}
  /\ Returns(job, [is |-> "answers", answers |-> answers, skipped |-> skipped])
  /\ UNCHANGED <<plan, backendVars>>

WorkerStep == SubmitAll \/ Round \/ SubmitRound \/ Await \/ AwaitFails \/ Return

-----------------------------------------------------------------------------
(* An NPU context is used by one thread at a time ("one synchronous context;
   the backend serializes calls per NPU core", rknn_runtime.py): although a
   batch runs on after predict() returned, no second run ever starts on a
   core that is busy, and every item runs on a core that has its bucket. *)
CoresSerial ==
  /\ \A t, u \in threads : t.core = u.core => t = u
  /\ \A t \in threads : \A q \in t.items :
       Bucket(plan[t.req].len[q]) \in Placement[t.core]

\* The questions a request needs, given what the model says.
CalledFor(r) ==
  {q \in Asks(plan[r]) : \A d \in Ancestors(plan[r], q) :
     d \in DOMAIN futures[r] /\ futures[r][d] = "yes"}

(* Staged or speculative, a request gets the answers of exactly the questions
   whose conditions hold all the way up, each with its own result, and the
   others are reported as skipped.  It fails only if a question that was
   called for failed, not because one that was started for nothing did; and
   staged, it is refused for too many options only if the question was called
   for (predict(), _predict_speculative()). *)
AsksExactly ==
  \A r \in Reqs :
    /\ result[r].is = "answers" =>
         /\ DOMAIN result[r].answers = CalledFor(r)
         /\ \A q \in CalledFor(r) : result[r].answers[q] = futures[r][q]
         /\ result[r].skipped = Asks(plan[r]) \ CalledFor(r)
    /\ result[r].is = "failed" => \E q \in CalledFor(r) : futures[r][q] = "failed"
    /\ result[r].is = "invalid" /\ ~Speculates(plan[r]) =>
         plan[r] \in CyclicPlans \/ CalledFor(r) \intersect plan[r].long # {}

=============================================================================
