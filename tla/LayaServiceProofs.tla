--------------------------- MODULE LayaServiceProofs ---------------------------
(***************************************************************************)
(* Theorems about LayaService and LayaEngine for any number of requests,   *)
(* any questions that depend on each other in any way, any cores and       *)
(* buckets, any limit of waiting work and any faults of the NPU.           *)
(*                                                                         *)
(* The invariant has a part for each owner: the pool, the worker thread,   *)
(* the requests that are over, and the service.  What carries from one to  *)
(* the next is that a future, once resolved, stays as it is.               *)
(*                                                                         *)
(* After them, what one call of predict() decides (LayaSequence,           *)
(* LayaAnswers, LayaParticipation): for any definitions of questions,      *)
(* texts of any length, any limits, checkpoint and backend.                *)
(***************************************************************************)
EXTENDS LayaService, LayaParticipation, FiniteSetTheorems, WellFoundedInduction, TLAPS

-----------------------------------------------------------------------------
AnswerMaps == UNION {[S -> Answer] : S \in SUBSET Nat}
FutureMaps == UNION {[S -> Answer \union {"running", "failed"}] : S \in SUBSET Nat}
Results == [is : {"none", "answers", "invalid", "failed"}, answers : AnswerMaps, skipped : SUBSET Nat]
RunSet == [core : Cores, req : Reqs, items : SUBSET Nat, at : {"infer", "finished", "hung"}]
Statuses == {"none", "waiting", "busy", "ok", "invalid_question", "internal", "deadline"}

EngineTypes ==
  /\ speculative \in BOOLEAN
  /\ plan \in [Reqs -> AllPlans]
  /\ job \in Reqs \union {NoRequest}
  /\ stage \in {"idle", "submit_all", "round", "submit", "await"}
  /\ todo \in SUBSET Nat
  /\ answers \in AnswerMaps
  /\ skipped \in SUBSET Nat
  /\ need \in SUBSET Nat
  /\ result \in [Reqs -> Results]
  /\ locked \in BOOLEAN
  /\ left \in Nat
  /\ threads \in SUBSET RunSet
  /\ futures \in [Reqs -> FutureMaps]

ServiceTypes ==
  /\ reply \in [Reqs -> Statuses]
  /\ pending \in Nat
  /\ queue \in Seq(Reqs)
  /\ completed \in SUBSET Reqs

Types == EngineTypes /\ ServiceTypes

Accepted == {r \in Reqs : reply[r] \notin {"none", "busy"}}

-----------------------------------------------------------------------------
(* The pool: the runs of one batch, on a core each. *)

Uncomputed == UNION {t.items : t \in threads}
Computed == {t \in threads : t.at = "finished"}

OneRunPerCore == \A t, u \in threads : t.core = u.core => t = u

ItemsWaitForTheirCore ==
  \A t \in threads :
    /\ t.at # "finished" => t.items # {}
    /\ \A q \in t.items :
         /\ q \in DOMAIN futures[t.req] /\ futures[t.req][q] = "running"
         /\ Bucket(plan[t.req].len[q]) \in Placement[t.core]

OneBatch ==
  \A t, u \in threads : t.req = u.req /\ (t # u => t.items \intersect u.items = {})

LockHeld ==
  /\ IsFiniteSet(Uncomputed) /\ IsFiniteSet(Computed)
  /\ left = Cardinality(Uncomputed) + Cardinality(Computed)
  /\ locked <=> threads # {}

PoolRight == OneRunPerCore /\ ItemsWaitForTheirCore /\ OneBatch /\ LockHeld

-----------------------------------------------------------------------------
(* The worker thread. *)

\* All that q depends on was answered "yes".
Called(p, q, given) == \A d \in Ancestors(p, q) : d \in DOMAIN given /\ given[d] = "yes"

\* Something q depends on was answered otherwise.
Uncalled(p, q, given) == \E d \in Ancestors(p, q) : d \in DOMAIN given /\ given[d] # "yes"

\* What the answers given so far settle, of questions with futures f.
Settled(p, f, given, without) ==
  /\ DOMAIN given \subseteq Asks(p)
  /\ without \subseteq Asks(p) \ DOMAIN given
  /\ \A q \in DOMAIN given : Called(p, q, given)
  /\ \A q \in without : Uncalled(p, q, given)
  /\ \A q \in DOMAIN given : q \in DOMAIN f /\ f[q] = given[q]

\* Asked for in this turn, and not answered yet.
Awaited == IF stage \in {"submit", "await"} THEN need ELSE {}

WorkerIdle ==
  /\ job = NoRequest <=> stage = "idle"
  /\ stage = "idle" => answers = Empty /\ skipped = {} /\ need = {}

WorkerSettles ==
  job # NoRequest =>
    /\ Settled(plan[job], futures[job], answers, skipped)
    /\ Awaited \intersect (DOMAIN answers \union skipped) = {}
    /\ \A q \in Awaited : Called(plan[job], q, answers)
    /\ Awaited \subseteq Asks(plan[job])
    /\ todo = Asks(plan[job]) \ (DOMAIN answers \union skipped \union Awaited)

WorkerStarts ==
  job # NoRequest =>
    /\ job \in Accepted /\ result[job].is = "none"
    /\ plan[job] \notin CyclicPlans
    /\ stage = "submit_all" => Speculates(plan[job]) /\ answers = Empty /\ skipped = {} /\ futures[job] = Empty
    /\ stage = "submit" => ~Speculates(plan[job]) /\ need # {}
    /\ Speculates(plan[job]) /\ stage # "submit_all" => DOMAIN futures[job] = Asks(plan[job])
    /\ ~Speculates(plan[job]) =>
         DOMAIN futures[job] = DOMAIN answers \union (IF stage = "await" THEN need ELSE {})

WorkerRight == WorkerIdle /\ WorkerSettles /\ WorkerStarts

-----------------------------------------------------------------------------
(* The requests that are over, and those not begun. *)

\* A request with plan p and futures f that is over: what it was told.
Decided(p, f, told, speculatively) ==
  LET staged == ~(speculatively /\ \E q \in Asks(p) : p.askIf[q] # {})
      called == {q \in Asks(p) : Called(p, q, f)}
  IN  /\ told.is = "answers" =>
           /\ Settled(p, f, told.answers, told.skipped)
           /\ Asks(p) = DOMAIN told.answers \union told.skipped
      /\ told.is = "failed" => \E q \in called : q \in DOMAIN f /\ f[q] = "failed"
      /\ told.is = "invalid" /\ staged => p \in CyclicPlans \/ called \intersect p.long # {}

DecisionsRight ==
  \A r \in Reqs :
    /\ Decided(plan[r], futures[r], result[r], speculative)
    /\ Over(r) => r \in Accepted
    /\ ~Over(r) /\ r # job => futures[r] = Empty

-----------------------------------------------------------------------------
(* The service. *)

QueueRight ==
  /\ \A i \in 1..Len(queue) : queue[i] \in Accepted /\ ~Over(queue[i]) /\ queue[i] # job
  /\ \A i, j \in 1..Len(queue) : queue[i] = queue[j] => i = j

Holds(r) == r \in Accepted /\ IF plan[r].participation THEN r \notin completed ELSE reply[r] = "waiting"
Held == {r \in Reqs : Holds(r)}

PlacesCounted ==
  /\ IsFiniteSet(Held)
  /\ Cardinality(Held) = pending
  /\ pending <= MaxPending

RepliesRight ==
  /\ \A r \in completed : plan[r].participation /\ Over(r)
  /\ \A r \in Reqs : reply[r] = "deadline" => plan[r].participation
  /\ \A r \in Reqs : reply[r] \in {"ok", "invalid_question", "internal"} => Over(r)

ServiceRight == QueueRight /\ PlacesCounted /\ RepliesRight

LayaInv == Types /\ PoolRight /\ WorkerRight /\ DecisionsRight /\ ServiceRight

-----------------------------------------------------------------------------
(* Lemmas about plans and futures *)

\* What the assumptions say of one plan: its questions are finitely many.
LEMMA PlanFacts ==
  ASSUME NEW p \in AllPlans
  PROVE  /\ Asks(p) \in SUBSET Nat /\ IsFiniteSet(Asks(p))
         /\ p.askIf \in [Asks(p) -> SUBSET Asks(p)]
         /\ p.long \subseteq Asks(p)
         /\ p.participation \in BOOLEAN
         /\ p.participation => p.long = {} /\ p \notin CyclicPlans
<1>1. p.len \in Seq(Nat)
  BY EngineAssumption
<1>2. Asks(p) = 1..Len(p.len)
  BY <1>1 DEF Asks
<1>3. Len(p.len) \in Nat
  BY <1>1
<1>4. Asks(p) \in SUBSET Nat /\ IsFiniteSet(Asks(p))
  BY <1>2, <1>3, FS_Interval
<1>5. p.askIf \in [Asks(p) -> SUBSET Asks(p)] /\ p.long \subseteq Asks(p)
  BY EngineAssumption DEF Asks
<1> QED
  BY <1>4, <1>5, ServiceAssumption

\* The ancestors of a question are what it asks for and the ancestors of that.
LEMMA AncestorsStep ==
  ASSUME NEW p \in AllPlans, NEW q \in Asks(p)
  PROVE  /\ p.askIf[q] \subseteq Ancestors(p, q)
         /\ \A d \in p.askIf[q] : Ancestors(p, d) \subseteq Ancestors(p, q)
         /\ \A e \in Ancestors(p, q) : e \in p.askIf[q] \/ \E d \in p.askIf[q] : e \in Ancestors(p, d)
<1>1. p.askIf \in [Asks(p) -> SUBSET Asks(p)]
  BY PlanFacts
<1>2. p.askIf[q] \subseteq Asks(p)
  BY <1>1
<1> DEFINE Closed(x, S) == p.askIf[x] \subseteq S /\ \A d \in S : p.askIf[d] \subseteq S
<1>3. \A x, e \in Asks(p) : e \in Ancestors(p, x) <=> \A S \in SUBSET Asks(p) : Closed(x, S) => e \in S
  BY DEF Ancestors
<1>4. \A x \in Asks(p) : Ancestors(p, x) \subseteq Asks(p)
  BY DEF Ancestors
<1> HIDE DEF Ancestors
<1>5. p.askIf[q] \subseteq Ancestors(p, q)
  BY <1>2, <1>3
<1>6. \A d \in p.askIf[q] : \A S \in SUBSET Asks(p) : Closed(q, S) => Closed(d, S)
  OBVIOUS
<1>7. \A d \in p.askIf[q] : Ancestors(p, d) \subseteq Ancestors(p, q)
  BY <1>2, <1>3, <1>4, <1>6
<1>8. \A e \in Ancestors(p, q) : e \in p.askIf[q] \/ \E d \in p.askIf[q] : e \in Ancestors(p, d)
  <2> DEFINE T == p.askIf[q] \union {e \in Asks(p) : \E d \in p.askIf[q] : e \in Ancestors(p, d)}
  <2>1. T \in SUBSET Asks(p)
    BY <1>2
  <2>2. \A d \in Asks(p) : p.askIf[d] \subseteq Ancestors(p, d)
    <3> TAKE d \in Asks(p)
    <3>1. p.askIf[d] \subseteq Asks(p)
      BY <1>1
    <3> QED
      BY <3>1, <1>3
  <2>3. \A d, e \in Asks(p) : e \in Ancestors(p, d) => p.askIf[e] \subseteq Ancestors(p, d)
    <3> TAKE d, e \in Asks(p)
    <3> HAVE e \in Ancestors(p, d)
    <3>1. \A S \in SUBSET Asks(p) : Closed(d, S) => e \in S
      BY <1>3
    <3>2. \A S \in SUBSET Asks(p) : Closed(d, S) => p.askIf[e] \subseteq S
      BY <3>1
    <3>3. p.askIf[e] \subseteq Asks(p)
      BY <1>1
    <3> QED
      BY <3>2, <3>3, <1>3
  <2>4. \A e \in T : p.askIf[e] \subseteq T
    BY <1>1, <1>2, <1>4, <2>2, <2>3
  <2>5. Closed(q, T)
    BY <2>4
  <2>6. \A e \in Asks(p) : e \in Ancestors(p, q) => e \in T
    <3> HIDE DEF T, Closed
    <3> QED
      BY <2>1, <2>5, <1>3
  <2> QED
    BY <2>6, <1>4
<1> QED
  BY <1>5, <1>7, <1>8

\* Ancestors are questions of the plan.
LEMMA AncestorsAsked ==
  ASSUME NEW p, NEW q
  PROVE  Ancestors(p, q) \subseteq Asks(p)
BY DEF Ancestors

\* Futures only get resolved.
Grows(f, g) ==
  \A q \in DOMAIN f : f[q] \in {"yes", "no", "failed"} => q \in DOMAIN g /\ g[q] = f[q]

\* What the answers settle stays settled when more futures are resolved.
LEMMA SettledStays ==
  ASSUME NEW p, NEW f, NEW g, NEW given \in AnswerMaps, NEW without,
         Settled(p, f, given, without), Grows(f, g)
  PROVE  Settled(p, g, given, without)
<1>1. \A q \in DOMAIN given : given[q] \in {"yes", "no"}
  BY DEF AnswerMaps, Answer
<1>2. \A q \in DOMAIN given : q \in DOMAIN g /\ g[q] = given[q]
  BY <1>1 DEF Settled, Grows
<1> QED
  BY <1>2 DEF Settled

\* What a request was told stays right when more futures are resolved.
LEMMA DecidedStays ==
  ASSUME NEW p, NEW f, NEW g, NEW told \in Results, NEW speculatively,
         Decided(p, f, told, speculatively), Grows(f, g)
  PROVE  Decided(p, g, told, speculatively)
<1>1. \A q : Called(p, q, f) => Called(p, q, g)
  BY DEF Called, Grows
<1>2. told.is = "answers" => Settled(p, g, told.answers, told.skipped)
  BY SettledStays DEF Decided, Results
<1>3. \A q \in DOMAIN f : f[q] = "failed" => q \in DOMAIN g /\ g[q] = "failed"
  BY DEF Grows
<1> QED
  BY <1>1, <1>2, <1>3 DEF Decided

-----------------------------------------------------------------------------
(* The pool *)

\* A batch that is started is spread over the cores once, and on a free pool.
LEMMA StartsRight ==
  ASSUME LayaInv, ~locked, job \in Reqs,
         NEW batch \in SUBSET Asks(plan[job]), batch # {},
         \A q \in batch : q \notin DOMAIN futures[job] \/ futures[job][q] = "running",
         Starts(job, batch), plan' = plan
  PROVE  /\ PoolRight'
         /\ locked' \in BOOLEAN /\ left' \in Nat
         /\ threads' \in SUBSET RunSet /\ futures' \in [Reqs -> FutureMaps]
         /\ \A r \in Reqs : Grows(futures[r], futures'[r])
         /\ \A r \in Reqs : r # job => futures'[r] = futures[r]
         /\ DOMAIN futures'[job] = DOMAIN futures[job] \union batch
<1>1. EngineTypes /\ threads = {}
  BY DEF LayaInv, Types, PoolRight, LockHeld
<1>2. /\ Asks(plan[job]) \in SUBSET Nat /\ IsFiniteSet(batch) /\ batch \in SUBSET Nat
  BY <1>1, PlanFacts, FS_Subset DEF EngineTypes
<1>3. PICK place \in [batch -> Cores] :
        /\ Schedule(place, batch, plan[job].len)
        /\ threads' = threads \union Runs(job, place, batch)
  BY DEF Starts
<1>4. threads' = Runs(job, place, batch)
  BY <1>1, <1>3
<1> DEFINE Run(c) == [core |-> c, req |-> job, items |-> {q \in batch : place[q] = c}, at |-> "infer"]
<1>20. threads' = {Run(c) : c \in {place[q] : q \in batch}}
  BY <1>4 DEF Runs
<1>6. \A c : /\ Run(c).core = c /\ Run(c).req = job /\ Run(c).at = "infer"
             /\ Run(c).items = {q \in batch : place[q] = c}
  OBVIOUS
<1> HIDE DEF Run
<1>5. /\ \A t \in threads' : t = Run(t.core) /\ t.core \in {place[q] : q \in batch}
      /\ \A q \in batch : Run(place[q]) \in threads'
  BY <1>20, <1>6
<1>18. \A t \in threads' : /\ t.core \in {place[q] : q \in batch} /\ t.req = job /\ t.at = "infer"
                           /\ t.items = {q \in batch : place[q] = t.core}
  BY <1>5, <1>6
<1>19. \A q \in batch : \E t \in threads' : q \in t.items
  <2> TAKE q \in batch
  <2>1. Run(place[q]).items = {p \in batch : place[p] = place[q]}
    BY <1>6
  <2>2. q \in Run(place[q]).items
    BY <2>1
  <2> QED
    BY <2>2, <1>5
<1>7. /\ locked' = TRUE /\ left' = Cardinality(batch)
      /\ futures' = [futures EXCEPT ![job] =
           [q \in DOMAIN futures[job] \union batch |-> IF q \in batch THEN "running" ELSE futures[job][q]]]
  BY DEF Starts
<1>8. futures[job] \in FutureMaps /\ futures \in [Reqs -> FutureMaps]
  BY <1>1 DEF EngineTypes
<1>9. /\ futures'[job] = [q \in DOMAIN futures[job] \union batch |-> IF q \in batch THEN "running" ELSE futures[job][q]]
      /\ \A r \in Reqs : r # job => futures'[r] = futures[r]
  BY <1>7, <1>8
<1>10. futures'[job] \in FutureMaps
  <2>1. PICK S \in SUBSET Nat : futures[job] \in [S -> Answer \union {"running", "failed"}]
    BY <1>8 DEF FutureMaps
  <2>2. S \union batch \in SUBSET Nat
    BY <1>2
  <2>3. futures'[job] \in [S \union batch -> Answer \union {"running", "failed"}]
    BY <1>9, <2>1
  <2> QED
    BY <2>2, <2>3 DEF FutureMaps
<1>11. futures' \in [Reqs -> FutureMaps]
  BY <1>7, <1>8, <1>9, <1>10
<1>12. \A r \in Reqs : Grows(futures[r], futures'[r])
  BY <1>9 DEF Grows
<1>13. threads' \in SUBSET RunSet
  BY <1>2, <1>5, <1>18, <1>3 DEF RunSet, Run
<1>14. OneRunPerCore'
  BY <1>5 DEF OneRunPerCore
<1>15. ItemsWaitForTheirCore'
  <2> SUFFICES ASSUME NEW t \in threads'
               PROVE  /\ t.at # "finished" => t.items # {}
                      /\ \A q \in t.items :
                           /\ q \in DOMAIN futures'[t.req] /\ futures'[t.req][q] = "running"
                           /\ Bucket(plan[t.req].len[q]) \in Placement[t.core]
    BY DEF ItemsWaitForTheirCore
  <2>1. t.items # {}
    BY <1>18
  <2>2. ASSUME NEW q \in t.items
        PROVE  /\ q \in DOMAIN futures'[t.req] /\ futures'[t.req][q] = "running"
               /\ Bucket(plan[t.req].len[q]) \in Placement[t.core]
    <3>1. q \in batch /\ place[q] = t.core /\ t.req = job
      BY <1>18
    <3> QED
      BY <3>1, <1>3, <1>9 DEF Schedule
  <2> QED
    BY <2>1, <2>2
<1>16. OneBatch'
  BY <1>5, <1>18 DEF OneBatch
<1>17. LockHeld'
  <2>1. Uncomputed' = batch
    BY <1>18, <1>19 DEF Uncomputed
  <2>2. Computed' = {}
    BY <1>18 DEF Computed
  <2>3. Cardinality(batch) \in Nat /\ Cardinality({}) = 0 /\ IsFiniteSet({})
    BY <1>2, FS_CardinalityType, FS_EmptySet
  <2>4. threads' # {}
    BY <1>19
  <2> QED
    BY <2>1, <2>2, <2>3, <2>4, <1>2, <1>7 DEF LockHeld
<1> QED
  BY <1>2, <1>7, <1>9, <1>11, <1>12, <1>13, <1>14, <1>15, <1>16, <1>17, FS_CardinalityType DEF PoolRight

\* What a step of one run leaves as it is.
LEMMA InferRight ==
  ASSUME LayaInv, NEW t \in threads, Infer(t)
  PROVE  /\ PoolRight'
         /\ threads' \in SUBSET RunSet /\ futures' \in [Reqs -> FutureMaps]
         /\ \A r \in Reqs : Grows(futures[r], futures'[r])
         /\ \A r \in Reqs : DOMAIN futures'[r] = DOMAIN futures[r]
         /\ \A r \in Reqs : futures[r] = Empty => futures'[r] = Empty
<1>1. EngineTypes /\ PoolRight
  BY DEF LayaInv, Types
<1>2. PICK q \in t.items, outcome \in {"yes", "no", "failed"} :
        /\ futures' = [futures EXCEPT ![t.req][q] = outcome]
        /\ threads' = (threads \ {t}) \union {[t EXCEPT !.items = @ \ {q}, !.at = "finished"]}
  BY DEF Infer, Becomes, Answer
<1>3. /\ t.at = "infer" /\ locked' = locked /\ left' = left /\ plan' = plan
  BY DEF Infer
<1>4. t \in RunSet /\ threads \in SUBSET RunSet
  BY <1>1 DEF EngineTypes
<1> DEFINE u == [t EXCEPT !.items = @ \ {q}, !.at = "finished"]
<1>5. u \in RunSet /\ u.core = t.core /\ u.req = t.req /\ u.items = t.items \ {q} /\ u.at = "finished"
  BY <1>4 DEF RunSet
<1>6. threads' = (threads \ {t}) \union {u}
  BY <1>2
<1> HIDE DEF u
<1>7. q \in DOMAIN futures[t.req] /\ futures[t.req][q] = "running" /\ t.req \in Reqs
  BY <1>1, <1>4 DEF PoolRight, ItemsWaitForTheirCore, RunSet
<1>8. futures[t.req] \in FutureMaps /\ futures \in [Reqs -> FutureMaps]
  BY <1>1, <1>7 DEF EngineTypes
<1>9. PICK S \in SUBSET Nat : futures[t.req] \in [S -> Answer \union {"running", "failed"}]
  BY <1>8 DEF FutureMaps
<1>10. /\ futures'[t.req] = [futures[t.req] EXCEPT ![q] = outcome]
       /\ \A r \in Reqs : r # t.req => futures'[r] = futures[r]
       /\ futures' \in [Reqs -> {futures'[r] : r \in Reqs}]
  BY <1>2, <1>7, <1>8
<1>11. /\ futures'[t.req] \in [S -> Answer \union {"running", "failed"}]
       /\ futures'[t.req][q] = outcome
       /\ \A p \in S : p # q => futures'[t.req][p] = futures[t.req][p]
  BY <1>7, <1>9, <1>10 DEF Answer
<1>12. futures' \in [Reqs -> FutureMaps]
  BY <1>8, <1>10, <1>11 DEF FutureMaps
<1>13. \A r \in Reqs : DOMAIN futures'[r] = DOMAIN futures[r]
  BY <1>9, <1>10, <1>11
<1>21. \A r \in Reqs : futures[r] = Empty => futures'[r] = Empty
  BY <1>7, <1>10 DEF Empty
<1>14. \A r \in Reqs : Grows(futures[r], futures'[r])
  BY <1>7, <1>9, <1>10, <1>11 DEF Grows
<1>15. \A v \in threads : v # t => v.core # t.core /\ v.req = t.req /\ v.items \intersect t.items = {}
  BY <1>1 DEF PoolRight, OneRunPerCore, OneBatch
<1>16. OneRunPerCore'
  BY <1>1, <1>5, <1>6, <1>15 DEF PoolRight, OneRunPerCore
<1>17. ItemsWaitForTheirCore'
  <2> SUFFICES ASSUME NEW v \in threads'
               PROVE  /\ v.at # "finished" => v.items # {}
                      /\ \A p \in v.items :
                           /\ p \in DOMAIN futures'[v.req] /\ futures'[v.req][p] = "running"
                           /\ Bucket(plan[v.req].len[p]) \in Placement[v.core]
    BY <1>3 DEF ItemsWaitForTheirCore
  <2>1. PICK w \in threads : /\ v.at # "finished" => w = v
                             /\ w.core = v.core /\ w.req = v.req
                             /\ v.items \subseteq w.items \ {q}
    <3>1. CASE v = u
      BY <3>1, <1>5
    <3>2. CASE v \in threads /\ v # t
      <4>1. q \notin v.items
        BY <3>2, <1>15
      <4> QED
        BY <3>2, <4>1
    <3> QED
      BY <3>1, <3>2, <1>6
  <2>2. w.req = t.req
    BY <2>1, <1>1 DEF PoolRight, OneBatch
  <2>3. /\ w.at # "finished" => w.items # {}
        /\ \A p \in w.items :
             /\ p \in DOMAIN futures[w.req] /\ futures[w.req][p] = "running"
             /\ Bucket(plan[w.req].len[p]) \in Placement[w.core]
    BY <1>1 DEF PoolRight, ItemsWaitForTheirCore
  <2>4. \A p \in v.items : p \in S /\ p # q
    BY <2>1, <2>2, <2>3, <1>9
  <2>6. \A p \in v.items : futures[t.req][p] = "running"
    BY <2>1, <2>2, <2>3
  <2>7. \A p \in S \ {q} : futures'[t.req][p] = futures[t.req][p] /\ p \in DOMAIN futures'[t.req]
    BY <1>11
  <2>5. \A p \in v.items : p \in DOMAIN futures'[t.req] /\ futures'[t.req][p] = "running"
    BY <2>4, <2>6, <2>7
  <2> QED
    BY <2>1, <2>2, <2>3, <2>5
<1>18. OneBatch'
  BY <1>1, <1>5, <1>6, <1>15 DEF PoolRight, OneBatch
<1>19. LockHeld'
  <2>1. Uncomputed' = Uncomputed \ {q} /\ q \in Uncomputed
    BY <1>5, <1>6, <1>15, <1>2 DEF Uncomputed
  <2>2. u \notin threads
    BY <1>3, <1>5, <1>15
  <2>3. Computed' = Computed \union {u} /\ u \notin Computed
    BY <1>3, <1>5, <1>6, <2>2 DEF Computed
  <2>4. LockHeld
    BY <1>1 DEF PoolRight
  <2>5. /\ IsFiniteSet(Uncomputed') /\ Cardinality(Uncomputed') = Cardinality(Uncomputed) - 1
    BY <2>1, <2>4, FS_RemoveElement DEF LockHeld
  <2>6. /\ IsFiniteSet(Computed') /\ Cardinality(Computed') = Cardinality(Computed) + 1
    BY <2>3, <2>4, FS_AddElement DEF LockHeld
  <2>7. Cardinality(Uncomputed) \in Nat /\ Cardinality(Computed) \in Nat
    BY <2>4, FS_CardinalityType DEF LockHeld
  <2>8. threads' # {} /\ threads # {}
    BY <1>6
  <2>9. left' = Cardinality(Uncomputed') + Cardinality(Computed')
    BY <2>4, <2>5, <2>6, <2>7, <1>3 DEF LockHeld
  <2>10. locked' <=> threads' # {}
    BY <2>4, <2>8, <1>3 DEF LockHeld
  <2> QED
    BY <2>5, <2>6, <2>9, <2>10 DEF LockHeld
<1>20. threads' \in SUBSET RunSet
  BY <1>4, <1>5, <1>6
<1> QED
  BY <1>12, <1>13, <1>14, <1>16, <1>17, <1>18, <1>19, <1>20, <1>21 DEF PoolRight

\* An inference that does not come back keeps its core, its items and the lock.
LEMMA HangRight ==
  ASSUME LayaInv, NEW t \in threads, Hang(t)
  PROVE  PoolRight' /\ threads' \in SUBSET RunSet
<1>1. EngineTypes /\ PoolRight
  BY DEF LayaInv, Types
<1> DEFINE u == [t EXCEPT !.at = "hung"]
<1>2. /\ t.at = "infer" /\ threads' = (threads \ {t}) \union {u}
      /\ locked' = locked /\ left' = left /\ plan' = plan /\ futures' = futures
  BY DEF Hang, Becomes
<1>3. t \in RunSet /\ threads \in SUBSET RunSet
  BY <1>1 DEF EngineTypes
<1>4. u \in RunSet /\ u.core = t.core /\ u.req = t.req /\ u.items = t.items /\ u.at = "hung"
  BY <1>3 DEF RunSet
<1> HIDE DEF u
<1>5. \A v \in threads' : \E w \in threads : /\ w.core = v.core /\ w.req = v.req /\ w.items = v.items
                                             /\ (v = w /\ w # t) \/ (v = u /\ w = t)
  BY <1>2, <1>4
<1>6. OneRunPerCore'
  BY <1>1, <1>5 DEF PoolRight, OneRunPerCore
<1>7. t.items # {}
  BY <1>1, <1>2 DEF PoolRight, ItemsWaitForTheirCore
<1>8. ItemsWaitForTheirCore'
  <2>1. \A v \in threads' : v.at # "finished" => v.items # {}
    BY <1>1, <1>2, <1>4, <1>7 DEF PoolRight, ItemsWaitForTheirCore
  <2>2. \A v \in threads' : \A q \in v.items :
           /\ q \in DOMAIN futures[v.req] /\ futures[v.req][q] = "running"
           /\ Bucket(plan[v.req].len[q]) \in Placement[v.core]
    BY <1>1, <1>5 DEF PoolRight, ItemsWaitForTheirCore
  <2>3. plan' = plan /\ futures' = futures
    BY <1>2
  <2> QED
    BY <2>1, <2>2, <2>3 DEF ItemsWaitForTheirCore
<1>9. OneBatch'
  BY <1>1, <1>2, <1>5 DEF PoolRight, OneBatch
<1>10. Uncomputed' = Uncomputed
  BY <1>2, <1>4, <1>5 DEF Uncomputed
<1>11. Computed' = Computed
  BY <1>2, <1>4 DEF Computed
<1>12. threads' # {} /\ threads # {}
  BY <1>2
<1>13. LockHeld'
  BY <1>1, <1>2, <1>10, <1>11, <1>12 DEF PoolRight, LockHeld
<1> QED
  BY <1>2, <1>3, <1>4, <1>6, <1>8, <1>9, <1>13 DEF PoolRight

\* The lock is free again exactly when the last run is over.
LEMMA FinishedRight ==
  ASSUME LayaInv, NEW t \in threads, Finished(t)
  PROVE  PoolRight' /\ threads' \in SUBSET RunSet /\ locked' \in BOOLEAN /\ left' \in Nat
<1>1. EngineTypes /\ PoolRight
  BY DEF LayaInv, Types
<1> DEFINE u == [t EXCEPT !.at = "infer"]
<1>2. /\ t.at = "finished" /\ left' = left - 1 /\ locked' = (left > 1)
      /\ threads' = (threads \ {t}) \union (IF t.items = {} THEN {} ELSE {u})
      /\ plan' = plan /\ futures' = futures
  BY DEF Finished, Becomes
<1>3. t \in RunSet /\ threads \in SUBSET RunSet
  BY <1>1 DEF EngineTypes
<1>4. u \in RunSet /\ u.core = t.core /\ u.req = t.req /\ u.items = t.items /\ u.at = "infer"
  BY <1>3 DEF RunSet
<1> HIDE DEF u
<1>5. \A v \in threads' : \E w \in threads : /\ w.core = v.core /\ w.req = v.req /\ w.items = v.items
                                             /\ (v = w /\ w # t) \/ (v = u /\ w = t)
  BY <1>2, <1>4
<1>6. OneRunPerCore'
  BY <1>1, <1>5 DEF PoolRight, OneRunPerCore
<1>7. ItemsWaitForTheirCore'
  <2>1. \A v \in threads' : v.at # "finished" => v.items # {}
    BY <1>1, <1>2, <1>4 DEF PoolRight, ItemsWaitForTheirCore
  <2>2. \A v \in threads' : \A q \in v.items :
           /\ q \in DOMAIN futures[v.req] /\ futures[v.req][q] = "running"
           /\ Bucket(plan[v.req].len[q]) \in Placement[v.core]
    BY <1>1, <1>5 DEF PoolRight, ItemsWaitForTheirCore
  <2>3. plan' = plan /\ futures' = futures
    BY <1>2
  <2> QED
    BY <2>1, <2>2, <2>3 DEF ItemsWaitForTheirCore
<1>8. OneBatch'
  BY <1>1, <1>2, <1>5 DEF PoolRight, OneBatch
<1>9. LockHeld
  BY <1>1 DEF PoolRight
<1>10. Uncomputed' = Uncomputed
  BY <1>2, <1>4 DEF Uncomputed
<1>11. Computed' = Computed \ {t} /\ t \in Computed
  BY <1>2, <1>4 DEF Computed
<1>12. /\ IsFiniteSet(Computed') /\ Cardinality(Computed') = Cardinality(Computed) - 1
       /\ Cardinality(Computed') \in Nat /\ Cardinality(Uncomputed) \in Nat /\ Cardinality(Computed) \in Nat
  BY <1>9, <1>11, FS_RemoveElement, FS_CardinalityType DEF LockHeld
<1>13. left' = Cardinality(Uncomputed) + Cardinality(Computed') /\ left' \in Nat /\ locked' = (left' > 0)
  BY <1>2, <1>9, <1>12 DEF LockHeld
<1>14. left' > 0 <=> Uncomputed # {} \/ Computed' # {}
  BY <1>9, <1>12, <1>13, FS_EmptySet DEF LockHeld
<1>15. threads' # {} <=> Uncomputed # {} \/ Computed' # {}
  <2>1. threads' # {} => Uncomputed' # {} \/ Computed' # {}
    BY <1>7 DEF ItemsWaitForTheirCore, Uncomputed, Computed
  <2>2. Uncomputed' # {} \/ Computed' # {} => threads' # {}
    BY DEF Uncomputed, Computed
  <2> QED
    BY <2>1, <2>2, <1>10
<1>16. LockHeld'
  BY <1>9, <1>10, <1>12, <1>13, <1>14, <1>15 DEF LockHeld
<1> QED
  BY <1>2, <1>3, <1>4, <1>6, <1>7, <1>8, <1>13, <1>16 DEF PoolRight

\* What a service step leaves of the pool.
LEMMA PoolKept ==
  ASSUME LayaInv, UNCHANGED backendVars,
         \A r \in Reqs : futures[r] # Empty => plan'[r] = plan[r]
  PROVE  PoolRight'
<1>1. EngineTypes /\ PoolRight
  BY DEF LayaInv, Types
<1>2. threads' = threads /\ futures' = futures /\ locked' = locked /\ left' = left
  BY DEF backendVars
<1>3. \A t \in threads : t.req \in Reqs
  BY <1>1 DEF EngineTypes, RunSet
<1>4. \A t \in threads : t.items # {} => futures[t.req] # Empty
  BY <1>1 DEF PoolRight, ItemsWaitForTheirCore, Empty
<1>5. \A t \in threads : t.items # {} => plan'[t.req] = plan[t.req]
  BY <1>3, <1>4
<1>6. ItemsWaitForTheirCore'
  <2>1. \A t \in threads : t.at # "finished" => t.items # {}
    BY <1>1 DEF PoolRight, ItemsWaitForTheirCore
  <2>2. \A t \in threads : \A q \in t.items :
           /\ q \in DOMAIN futures[t.req] /\ futures[t.req][q] = "running"
           /\ Bucket(plan[t.req].len[q]) \in Placement[t.core]
    BY <1>1 DEF PoolRight, ItemsWaitForTheirCore
  <2>3. \A t \in threads : \A q \in t.items : plan'[t.req] = plan[t.req]
    BY <1>5
  <2> QED
    BY <2>1, <2>2, <2>3, <1>2 DEF ItemsWaitForTheirCore
<1> QED
  BY <1>1, <1>2, <1>6 DEF PoolRight, OneRunPerCore, OneBatch, LockHeld, Uncomputed, Computed

-----------------------------------------------------------------------------
(* The frames *)

\* What an engine step has to leave for the service's part of the invariant.
LEMMA ServiceKept ==
  ASSUME LayaInv, UNCHANGED serviceVars, UNCHANGED plan, job' \in {job, NoRequest},
         \A r \in Reqs : Over(r) => Over(r)',
         \A r \in Reqs : r # job => result'[r] = result[r]
  PROVE  ServiceRight'
<1>1. ServiceRight /\ Types
  BY DEF LayaInv
<1>2. reply' = reply /\ pending' = pending /\ queue' = queue /\ completed' = completed /\ plan' = plan
  BY DEF serviceVars
<1>3. queue \in Seq(Reqs) /\ completed \in SUBSET Reqs
  BY <1>1 DEF Types, ServiceTypes
<1>4. \A i \in 1..Len(queue) : queue[i] \in Reqs /\ queue[i] # NoRequest
  BY <1>3, EngineAssumption DEF NoRequest
<1>5. Accepted' = Accepted
  BY <1>2 DEF Accepted
<1>6. QueueRight'
  BY <1>1, <1>2, <1>4, <1>5 DEF ServiceRight, QueueRight, Over
<1>7. Held' = Held
  BY <1>2, <1>5 DEF Held, Holds
<1>8. PlacesCounted'
  BY <1>1, <1>2, <1>7 DEF ServiceRight, PlacesCounted
<1>9. RepliesRight'
  BY <1>1, <1>2, <1>3 DEF ServiceRight, RepliesRight
<1> QED
  BY <1>6, <1>8, <1>9 DEF ServiceRight

\* What any step has to leave for the decisions already made.
LEMMA DecisionsKept ==
  ASSUME LayaInv, UNCHANGED speculative, Types',
         \A r \in Reqs : r \in Accepted => plan'[r] = plan[r] /\ r \in Accepted',
         \A r \in Reqs : Grows(futures[r], futures'[r]),
         \A r \in Reqs : ~Over(r)' /\ r # job' => futures'[r] = Empty,
         \A r \in Reqs :
           \/ result'[r] = result[r]
           \/ /\ r \in Accepted
              /\ Decided(plan[r], futures'[r], result'[r], speculative)
  PROVE  DecisionsRight'
<1>1. DecisionsRight /\ EngineTypes /\ EngineTypes'
  BY DEF LayaInv, Types
<1>2. SUFFICES ASSUME NEW r \in Reqs
               PROVE  /\ Decided(plan'[r], futures'[r], result'[r], speculative')
                      /\ Over(r)' => r \in Accepted'
  BY DEF DecisionsRight
<1>3. speculative' = speculative
  OBVIOUS
<1>4. CASE r \in Accepted /\ Decided(plan[r], futures'[r], result'[r], speculative)
  BY <1>3, <1>4
<1>5. CASE result'[r] = result[r] /\ Over(r)
  <2>1. r \in Accepted /\ Decided(plan[r], futures[r], result[r], speculative)
    BY <1>1, <1>5 DEF DecisionsRight
  <2>2. result[r] \in Results
    BY <1>1 DEF EngineTypes
  <2>3. Decided(plan[r], futures'[r], result[r], speculative)
    BY <2>1, <2>2, DecidedStays
  <2> QED
    BY <2>1, <2>3, <1>3, <1>5
<1>6. CASE result'[r] = result[r] /\ ~Over(r)
  <2>1. result'[r].is = "none"
    BY <1>6 DEF Over
  <2> QED
    BY <2>1 DEF Over, Decided
<1> QED
  BY <1>4, <1>5, <1>6

\* What a step of another part has to leave for the worker.
LEMMA WorkerKept ==
  ASSUME LayaInv, UNCHANGED <<speculative, job, stage, todo, answers, skipped, need>>,
         job # NoRequest =>
           /\ plan'[job] = plan[job] /\ result'[job] = result[job] /\ job \in Accepted'
           /\ Grows(futures[job], futures'[job]) /\ DOMAIN futures'[job] = DOMAIN futures[job]
           /\ futures[job] = Empty => futures'[job] = Empty
  PROVE  WorkerRight'
<1>1. WorkerRight /\ EngineTypes
  BY DEF LayaInv, Types
<1>2. /\ speculative' = speculative /\ job' = job /\ stage' = stage /\ todo' = todo
      /\ answers' = answers /\ skipped' = skipped /\ need' = need
  OBVIOUS
<1>3. Awaited' = Awaited
  BY <1>2 DEF Awaited
<1>4. \A p : Speculates(p)' = Speculates(p)
  BY <1>2 DEF Speculates
<1>5. WorkerIdle'
  BY <1>1, <1>2 DEF WorkerRight, WorkerIdle
<1>6. ASSUME job # NoRequest
      PROVE  WorkerSettles' /\ WorkerStarts'
  <2>1. /\ plan'[job'] = plan[job] /\ result'[job'] = result[job] /\ job \in Accepted'
        /\ Grows(futures[job], futures'[job]) /\ DOMAIN futures'[job'] = DOMAIN futures[job]
        /\ futures[job] = Empty => futures'[job'] = Empty
    BY <1>2, <1>6
  <2>2. Settled(plan[job], futures[job], answers, skipped) /\ answers \in AnswerMaps
    BY <1>1, <1>6 DEF WorkerRight, WorkerSettles, EngineTypes
  <2>3. Settled(plan'[job'], futures'[job'], answers', skipped')
    BY <1>2, <2>1, <2>2, SettledStays
  <2>4. WorkerSettles'
    BY <1>1, <1>2, <1>3, <1>6, <2>1, <2>3 DEF WorkerRight, WorkerSettles
  <2>5. WorkerStarts'
    BY <1>1, <1>2, <1>4, <1>6, <2>1 DEF WorkerRight, WorkerStarts
  <2> QED
    BY <2>4, <2>5
<1>7. job = NoRequest => WorkerSettles' /\ WorkerStarts'
  BY <1>2 DEF WorkerSettles, WorkerStarts
<1> QED
  BY <1>5, <1>6, <1>7 DEF WorkerRight

-----------------------------------------------------------------------------
(* The worker thread *)

\* Whether a question is called for is known when all it asks for is settled.
LEMMA ReadyQuestion ==
  ASSUME NEW p \in AllPlans, NEW f, NEW given, NEW without, Settled(p, f, given, without),
         NEW q \in Asks(p), p.askIf[q] \subseteq DOMAIN given \union without
  PROVE  /\ (\E d \in p.askIf[q] : d \in without \/ given[d] # "yes") => Uncalled(p, q, given)
         /\ (\A d \in p.askIf[q] : d \notin without /\ given[d] = "yes") => Called(p, q, given)
<1>1. /\ p.askIf[q] \subseteq Ancestors(p, q)
      /\ \A d \in p.askIf[q] : Ancestors(p, d) \subseteq Ancestors(p, q)
      /\ \A e \in Ancestors(p, q) : e \in p.askIf[q] \/ \E d \in p.askIf[q] : e \in Ancestors(p, d)
  BY AncestorsStep
<1>2. ASSUME NEW d \in p.askIf[q], d \in without
      PROVE  Uncalled(p, q, given)
  <2>1. Uncalled(p, d, given)
    BY <1>2 DEF Settled
  <2> QED
    BY <2>1, <1>1 DEF Uncalled
<1>3. ASSUME NEW d \in p.askIf[q], d \notin without, given[d] # "yes"
      PROVE  Uncalled(p, q, given)
  BY <1>1, <1>3 DEF Uncalled
<1>4. ASSUME \A d \in p.askIf[q] : d \notin without /\ given[d] = "yes"
      PROVE  Called(p, q, given)
  <2>1. \A d \in p.askIf[q] : d \in DOMAIN given /\ given[d] = "yes"
    BY <1>4
  <2>2. \A d \in p.askIf[q] : Called(p, d, given)
    BY <2>1 DEF Settled
  <2> QED
    BY <2>1, <2>2, <1>1 DEF Called
<1> QED
  BY <1>2, <1>3, <1>4

\* What was called for or not remains so when more answers come in.
LEMMA CalledStays ==
  ASSUME NEW p, NEW q, NEW given, NEW more, DOMAIN given \subseteq DOMAIN more,
         \A d \in DOMAIN given : more[d] = given[d]
  PROVE  /\ Called(p, q, given) => Called(p, q, more)
         /\ Uncalled(p, q, given) => Uncalled(p, q, more)
BY DEF Called, Uncalled

\* What the invariant says of the request the worker is at.
LEMMA JobFacts ==
  ASSUME LayaInv, stage # "idle"
  PROVE  /\ job \in Reqs /\ job # NoRequest /\ job \in Accepted /\ ~Over(job)
         /\ plan[job] \in AllPlans /\ Asks(plan[job]) \in SUBSET Nat
         /\ futures[job] \in FutureMaps
         /\ Settled(plan[job], futures[job], answers, skipped)
<1>1. job # NoRequest /\ EngineTypes /\ WorkerSettles /\ WorkerStarts
  BY DEF LayaInv, WorkerRight, WorkerIdle, Types
<1>2. job \in Reqs
  BY <1>1 DEF EngineTypes
<1>3. plan[job] \in AllPlans
  BY <1>1, <1>2 DEF EngineTypes
<1>4. Asks(plan[job]) \in SUBSET Nat
  BY <1>3, PlanFacts
<1> QED
  BY <1>1, <1>2, <1>3, <1>4 DEF EngineTypes, WorkerSettles, WorkerStarts, Over

\* The speculative worker starts every question, on a pool that is free.
LEMMA SubmitAllStep ==
  ASSUME LayaInv, SubmitAll, UNCHANGED <<speculative, serviceVars>>
  PROVE  LayaInv' /\ \A r \in Reqs : Grows(futures[r], futures'[r])
<1> USE DEF SubmitAll, Submit
<1>1. /\ stage = "submit_all" /\ stage' = "round" /\ ~locked /\ Starts(job, Asks(plan[job]))
      /\ UNCHANGED <<speculative, serviceVars>> /\ UNCHANGED plan
      /\ job' = job /\ todo' = todo /\ answers' = answers /\ skipped' = skipped /\ need' = need /\ result' = result
  OBVIOUS
<1> HIDE DEF SubmitAll, Submit
<1>2. /\ job \in Reqs /\ job # NoRequest /\ job \in Accepted /\ ~Over(job)
      /\ plan[job] \in AllPlans /\ Asks(plan[job]) \in SUBSET Nat
  BY <1>1, JobFacts
<1>3. /\ Speculates(plan[job]) /\ answers = Empty /\ skipped = {} /\ futures[job] = Empty
      /\ plan[job] \notin CyclicPlans /\ WorkerSettles /\ Types
  BY <1>1, <1>2 DEF LayaInv, WorkerRight, WorkerStarts
<1>4. Asks(plan[job]) # {}
  BY <1>3 DEF Speculates
<1>5. DOMAIN Empty = {}
  BY DEF Empty
<1>6. /\ PoolRight'
      /\ locked' \in BOOLEAN /\ left' \in Nat
      /\ threads' \in SUBSET RunSet /\ futures' \in [Reqs -> FutureMaps]
      /\ \A r \in Reqs : Grows(futures[r], futures'[r])
      /\ \A r \in Reqs : r # job => futures'[r] = futures[r]
      /\ DOMAIN futures'[job] = DOMAIN futures[job] \union Asks(plan[job])
  BY <1>1, <1>2, <1>3, <1>4, <1>5, StartsRight
<1>7. Types'
  BY <1>1, <1>3, <1>6 DEF Types, EngineTypes, ServiceTypes, serviceVars
<1>8. ServiceRight'
  BY <1>1, ServiceKept DEF Over
<1>9. DecisionsRight'
  BY <1>1, <1>6, <1>7, DecisionsKept DEF LayaInv, DecisionsRight, Over, Accepted, serviceVars
<1>10. WorkerIdle'
  BY <1>1, <1>2 DEF WorkerIdle
<1>11. WorkerSettles'
  BY <1>1, <1>2, <1>3, <1>5 DEF WorkerSettles, Awaited, Settled
<1>12. WorkerStarts'
  BY <1>1, <1>2, <1>3, <1>5, <1>6 DEF WorkerStarts, Speculates, Over, Accepted, serviceVars
<1> QED
  BY <1>6, <1>7, <1>8, <1>9, <1>10, <1>11, <1>12 DEF LayaInv, WorkerRight

\* The staged worker starts the questions of one turn.
LEMMA SubmitRoundStep ==
  ASSUME LayaInv, SubmitRound, UNCHANGED <<speculative, serviceVars>>
  PROVE  LayaInv' /\ \A r \in Reqs : Grows(futures[r], futures'[r])
<1> USE DEF SubmitRound, Submit
<1>1. /\ stage = "submit" /\ stage' = "await" /\ ~locked /\ Starts(job, need)
      /\ UNCHANGED <<speculative, serviceVars>> /\ UNCHANGED plan
      /\ job' = job /\ todo' = todo /\ answers' = answers /\ skipped' = skipped /\ need' = need /\ result' = result
  OBVIOUS
<1> HIDE DEF SubmitRound, Submit
<1>2. /\ job \in Reqs /\ job # NoRequest /\ job \in Accepted /\ ~Over(job)
      /\ plan[job] \in AllPlans /\ Asks(plan[job]) \in SUBSET Nat
      /\ Settled(plan[job], futures[job], answers, skipped)
  BY <1>1, JobFacts
<1>3. /\ ~Speculates(plan[job]) /\ DOMAIN futures[job] = DOMAIN answers /\ need # {}
      /\ plan[job] \notin CyclicPlans /\ WorkerSettles /\ Types
  BY <1>1, <1>2 DEF LayaInv, WorkerRight, WorkerStarts
<1>4. need \in SUBSET Asks(plan[job]) /\ need \intersect DOMAIN answers = {} /\ Awaited = need /\ Awaited' = need
  BY <1>1, <1>2, <1>3 DEF WorkerSettles, Awaited
<1>5. /\ PoolRight'
      /\ locked' \in BOOLEAN /\ left' \in Nat
      /\ threads' \in SUBSET RunSet /\ futures' \in [Reqs -> FutureMaps]
      /\ \A r \in Reqs : Grows(futures[r], futures'[r])
      /\ \A r \in Reqs : r # job => futures'[r] = futures[r]
      /\ DOMAIN futures'[job] = DOMAIN futures[job] \union need
  BY <1>1, <1>2, <1>3, <1>4, StartsRight
<1>6. Types'
  BY <1>1, <1>3, <1>5 DEF Types, EngineTypes, ServiceTypes, serviceVars
<1>7. ServiceRight'
  BY <1>1, ServiceKept DEF Over
<1>8. DecisionsRight'
  BY <1>1, <1>5, <1>6, DecisionsKept DEF LayaInv, DecisionsRight, Over, Accepted, serviceVars
<1>9. WorkerIdle'
  BY <1>1, <1>2 DEF WorkerIdle
<1>10. WorkerSettles'
  <2>1. Settled(plan[job], futures'[job], answers, skipped)
    BY <1>2, <1>3, <1>5, SettledStays DEF Types, EngineTypes
  <2> QED
    BY <1>1, <1>2, <1>3, <1>4, <2>1 DEF WorkerSettles
<1>11. WorkerStarts'
  BY <1>1, <1>2, <1>3, <1>5 DEF WorkerStarts, Speculates, Over, Accepted, serviceVars
<1> QED
  BY <1>5, <1>6, <1>7, <1>8, <1>9, <1>10, <1>11 DEF LayaInv, WorkerRight

\* When predict() is over, and what it says is right, all else is as it was.
LEMMA ReturnsStep ==
  ASSUME LayaInv, stage # "idle", NEW how \in Results, how.is # "none", Returns(job, how),
         Decided(plan[job], futures[job], how, speculative),
         UNCHANGED <<speculative, serviceVars>>, UNCHANGED plan, UNCHANGED backendVars
  PROVE  LayaInv'
<1>1. /\ result' = [result EXCEPT ![job] = how] /\ job' = NoRequest /\ stage' = "idle"
      /\ todo' = {} /\ answers' = Empty /\ skipped' = {} /\ need' = {}
      /\ plan' = plan /\ speculative' = speculative
      /\ threads' = threads /\ futures' = futures /\ locked' = locked /\ left' = left
      /\ reply' = reply /\ pending' = pending /\ queue' = queue /\ completed' = completed
  BY DEF Returns, backendVars, serviceVars
<1>2. job \in Reqs /\ job # NoRequest /\ job \in Accepted /\ ~Over(job) /\ Types
  BY JobFacts DEF LayaInv
<1>3. result \in [Reqs -> Results]
  BY <1>2 DEF Types, EngineTypes
<1>4. /\ result' \in [Reqs -> Results] /\ result'[job] = how
      /\ \A r \in Reqs : r # job => result'[r] = result[r]
  BY <1>1, <1>2, <1>3
<1>5. Empty \in AnswerMaps
  BY DEF AnswerMaps, Empty, Answer
<1>6. Types'
  BY <1>1, <1>2, <1>4, <1>5 DEF Types, EngineTypes, ServiceTypes
<1>7. PoolRight'
  BY <1>1, PoolKept DEF backendVars
<1>8. \A r \in Reqs : Over(r) => Over(r)'
  BY <1>1, <1>4 DEF Over
<1>9. ServiceRight'
  BY <1>1, <1>4, <1>8, ServiceKept DEF serviceVars
<1>10. WorkerRight'
  BY <1>1 DEF WorkerRight, WorkerIdle, WorkerSettles, WorkerStarts
<1>11. \A r \in Reqs : Grows(futures[r], futures'[r])
  BY <1>1 DEF Grows
<1>12. \A r \in Reqs : ~Over(r)' /\ r # job' => futures'[r] = Empty
  <2>1. \A r \in Reqs : ~Over(r) /\ r # job => futures[r] = Empty
    BY DEF LayaInv, DecisionsRight
  <2>2. \A r \in Reqs : r = job => Over(r)'
    BY <1>4 DEF Over
  <2> QED
    BY <2>1, <2>2, <1>1, <1>8
<1>13. DecisionsRight'
  <2>1. \A r \in Reqs : r \in Accepted => plan'[r] = plan[r] /\ r \in Accepted'
    BY <1>1 DEF Accepted
  <2>2. \A r \in Reqs :
           \/ result'[r] = result[r]
           \/ r \in Accepted /\ Decided(plan[r], futures'[r], result'[r], speculative)
    BY <1>1, <1>2, <1>4
  <2> QED
    BY <2>1, <2>2, <1>1, <1>6, <1>11, <1>12, DecisionsKept
<1> QED
  BY <1>6, <1>7, <1>9, <1>10, <1>13 DEF LayaInv

\* What predict() raises carries nothing else.
LEMMA RaisedIsResult ==
  ASSUME NEW what \in {"invalid", "failed"}
  PROVE  [is |-> what, answers |-> Empty, skipped |-> {}] \in Results
<1>1. Empty \in AnswerMaps
  BY DEF AnswerMaps, Empty, Answer
<1> QED
  BY <1>1 DEF Results

\* predict() returns when every question is settled.
LEMMA ReturnStep ==
  ASSUME LayaInv, Return, UNCHANGED <<speculative, serviceVars>>
  PROVE  LayaInv'
<1> DEFINE how == [is |-> "answers", answers |-> answers, skipped |-> skipped]
<1>1. stage = "round" /\ todo = {} /\ Returns(job, how) /\ UNCHANGED plan /\ UNCHANGED backendVars
  BY DEF Return
<1>2. /\ job \in Reqs /\ job # NoRequest /\ Settled(plan[job], futures[job], answers, skipped)
      /\ WorkerSettles /\ EngineTypes
  BY <1>1, JobFacts DEF LayaInv, WorkerRight, Types
<1>3. Asks(plan[job]) = DOMAIN answers \union skipped
  BY <1>1, <1>2 DEF WorkerSettles, Awaited, Settled
<1>4. how \in Results
  BY <1>2 DEF Results, EngineTypes
<1>5. Decided(plan[job], futures[job], how, speculative)
  BY <1>2, <1>3 DEF Decided
<1> HIDE DEF how
<1>6. how.is # "none"
  BY DEF how
<1> QED
  BY <1>1, <1>4, <1>5, <1>6, ReturnsStep

\* predict() raises what a question it waits for raised.
LEMMA AwaitFailsStep ==
  ASSUME LayaInv, AwaitFails, UNCHANGED <<speculative, serviceVars>>
  PROVE  LayaInv'
<1> DEFINE how == [is |-> "failed", answers |-> Empty, skipped |-> {}]
<1>1. stage = "await" /\ Returns(job, how) /\ UNCHANGED plan /\ UNCHANGED backendVars
  BY DEF AwaitFails, Raises
<1>2. /\ job \in Reqs /\ job # NoRequest /\ Settled(plan[job], futures[job], answers, skipped)
      /\ WorkerSettles /\ WorkerStarts
  BY <1>1, JobFacts DEF LayaInv, WorkerRight
<1>3. PICK q \in need : futures[job][q] = "failed"
  BY DEF AwaitFails
<1>4. q \in Asks(plan[job]) /\ Called(plan[job], q, answers)
  BY <1>1, <1>2 DEF WorkerSettles, Awaited
<1>5. q \in DOMAIN futures[job]
  BY <1>1, <1>2, <1>4 DEF WorkerStarts
<1>6. Called(plan[job], q, futures[job])
  BY <1>2, <1>4 DEF Settled, Called
<1>7. Decided(plan[job], futures[job], how, speculative)
  BY <1>3, <1>4, <1>5, <1>6 DEF Decided
<1>8. how \in Results
  BY RaisedIsResult
<1> HIDE DEF how
<1>9. how.is # "none"
  BY DEF how
<1> QED
  BY <1>1, <1>7, <1>8, <1>9, ReturnsStep

\* What a worker step that ends nothing leaves as it is.
LEMMA WorkerMoves ==
  ASSUME LayaInv, stage # "idle", stage' # "idle", UNCHANGED <<speculative, serviceVars>>, UNCHANGED <<plan, job, result>>,
         UNCHANGED backendVars, Types', WorkerSettles', WorkerStarts'
  PROVE  LayaInv'
<1>1. job \in Reqs /\ job # NoRequest
  BY JobFacts
<1>2. PoolRight'
  BY PoolKept
<1>3. ServiceRight'
  BY ServiceKept DEF Over
<1>4. /\ \A r \in Reqs : Grows(futures[r], futures'[r])
      /\ futures' = futures
  BY DEF Grows, backendVars
<1>5. DecisionsRight'
  BY <1>4, DecisionsKept DEF LayaInv, DecisionsRight, Over, Accepted, serviceVars
<1>6. WorkerIdle'
  BY <1>1 DEF WorkerIdle
<1> QED
  BY <1>2, <1>3, <1>5, <1>6 DEF LayaInv, WorkerRight

\* The answers of one turn come in.
LEMMA AwaitStep ==
  ASSUME LayaInv, Await, UNCHANGED <<speculative, serviceVars>>
  PROVE  LayaInv'
<1>1. /\ stage = "await" /\ stage' = "round"
      /\ \A q \in need : futures[job][q] \in Answer
      /\ answers' = [q \in DOMAIN answers \union need |-> IF q \in need THEN futures[job][q] ELSE answers[q]]
      /\ plan' = plan /\ job' = job /\ todo' = todo /\ skipped' = skipped /\ need' = need /\ result' = result
      /\ UNCHANGED backendVars
  BY DEF Await, Resolved
<1>2. /\ job \in Reqs /\ job # NoRequest /\ job \in Accepted /\ ~Over(job)
      /\ Asks(plan[job]) \in SUBSET Nat
      /\ Settled(plan[job], futures[job], answers, skipped)
      /\ WorkerSettles /\ WorkerStarts /\ Types
  BY <1>1, JobFacts DEF LayaInv, WorkerRight
<1>3. /\ need \in SUBSET Asks(plan[job]) /\ need \intersect (DOMAIN answers \union skipped) = {}
      /\ \A q \in need : Called(plan[job], q, answers)
      /\ todo = Asks(plan[job]) \ (DOMAIN answers \union skipped \union need)
      /\ need \subseteq DOMAIN futures[job]
  BY <1>1, <1>2 DEF WorkerSettles, WorkerStarts, Awaited
<1>4. /\ DOMAIN answers' = DOMAIN answers \union need
      /\ \A q \in DOMAIN answers : answers'[q] = answers[q]
      /\ \A q \in need : answers'[q] = futures[job][q]
  BY <1>1, <1>3
<1>5. answers' \in AnswerMaps
  <2>3. answers \in AnswerMaps
    BY <1>2 DEF Types, EngineTypes
  <2>1. PICK S \in SUBSET Nat : answers \in [S -> Answer]
    BY <2>3 DEF AnswerMaps
  <2>4. S \union need \in SUBSET Nat
    BY <1>2, <1>3
  <2>5. DOMAIN answers = S /\ \A q \in S : answers[q] \in Answer
    BY <2>1
  <2>2. answers' \in [S \union need -> Answer] /\ S \union need \in SUBSET Nat
    BY <2>4, <2>5, <1>1
  <2> QED
    BY <2>2 DEF AnswerMaps
<1>6. Types'
  BY <1>1, <1>2, <1>5 DEF Types, EngineTypes, ServiceTypes, backendVars, serviceVars
<1>7. \A q : /\ Called(plan[job], q, answers) => Called(plan[job], q, answers')
             /\ Uncalled(plan[job], q, answers) => Uncalled(plan[job], q, answers')
  BY <1>4, CalledStays
<1>8. Settled(plan[job], futures[job], answers', skipped)
  BY <1>2, <1>3, <1>4, <1>7 DEF Settled
<1>9. futures' = futures /\ Awaited' = {}
  BY <1>1 DEF backendVars, Awaited
<1>10. WorkerSettles'
  BY <1>1, <1>3, <1>4, <1>8, <1>9 DEF WorkerSettles
<1>11. WorkerStarts'
  BY <1>1, <1>2, <1>4, <1>9 DEF WorkerStarts, Speculates, Over, Accepted, serviceVars
<1> QED
  BY <1>1, <1>6, <1>10, <1>11, WorkerMoves

\* One turn of the loop settles what is ready, or rejects what does not fit.
LEMMA RoundStep ==
  ASSUME LayaInv, Round, UNCHANGED <<speculative, serviceVars>>
  PROVE  LayaInv'
<1> DEFINE p == plan[job]
           skip == {q \in Ready : UncalledFor(q)}
           ask == Ready \ skip
           how == [is |-> "invalid", answers |-> Empty, skipped |-> {}]
<1>1. stage = "round" /\ UNCHANGED plan /\ UNCHANGED backendVars
  BY DEF Round
<1>2. \/ ~Speculates(p) /\ ask \intersect p.long # {} /\ Returns(job, how)
      \/ /\ todo' = todo \ Ready /\ skipped' = skipped \union skip /\ need' = ask
         /\ stage' = CASE ask = {} -> "round"
                       [] Speculates(p) -> "await"
                       [] OTHER -> "submit"
         /\ UNCHANGED <<job, answers, result>>
  BY DEF Round, Raises
<1>3. /\ job \in Reqs /\ job # NoRequest /\ job \in Accepted /\ ~Over(job)
      /\ p \in AllPlans /\ Asks(p) \in SUBSET Nat
      /\ Settled(p, futures[job], answers, skipped)
      /\ WorkerSettles /\ WorkerStarts /\ Types
  BY <1>1, JobFacts DEF LayaInv, WorkerRight
<1>4. todo = Asks(p) \ (DOMAIN answers \union skipped)
  BY <1>1, <1>3 DEF WorkerSettles, Awaited
<1>5. \A q \in Ready : q \in Asks(p) /\ p.askIf[q] \subseteq DOMAIN answers \union skipped
                       /\ q \notin DOMAIN answers \union skipped
  BY <1>4 DEF Ready
<1>6. \A q \in skip : Uncalled(p, q, answers)
  BY <1>3, <1>5, ReadyQuestion DEF UncalledFor
<1>7. \A q \in ask : Called(p, q, answers)
  BY <1>3, <1>5, ReadyQuestion DEF UncalledFor
<1>8. skip \subseteq Ready /\ ask \subseteq Ready /\ Ready = skip \union ask /\ skip \intersect ask = {}
  OBVIOUS
<1> HIDE DEF p, skip, ask, how
<1>9. ASSUME ~Speculates(p), ask \intersect p.long # {}, Returns(job, how)
      PROVE  LayaInv'
  <2>1. PICK q \in ask : q \in p.long
    BY <1>9
  <2>2. Called(p, q, futures[job])
    BY <1>3, <1>7 DEF Settled, Called
  <2>3. how.is = "invalid" /\ how.is # "none" /\ how \in Results
    BY RaisedIsResult DEF how
  <2>4. Decided(p, futures[job], how, speculative)
    BY <2>1, <2>2, <2>3, <1>5, <1>8, <1>9 DEF Decided
  <2> QED
    BY <2>3, <2>4, <1>1, <1>9, ReturnsStep DEF p
<1>10. ASSUME todo' = todo \ Ready, skipped' = skipped \union skip, need' = ask,
              stage' = CASE ask = {} -> "round"
                         [] Speculates(p) -> "await"
                         [] OTHER -> "submit",
              UNCHANGED <<job, answers, result>>
       PROVE  LayaInv'
  <2>1. /\ stage' \in {"round", "submit", "await"}
        /\ stage' = "round" => ask = {}
        /\ stage' = "submit" => ~Speculates(p) /\ ask # {}
        /\ stage' = "await" => Speculates(p)
    BY <1>10
  <2>2. Awaited' = ask
    BY <2>1, <1>10 DEF Awaited
  <2>3. ask \in SUBSET Nat /\ skip \in SUBSET Nat
    BY <1>3, <1>5, <1>8
  <2>4. Types'
    BY <2>1, <2>3, <1>1, <1>3, <1>10 DEF Types, EngineTypes, ServiceTypes, backendVars, serviceVars
  <2>5. Settled(p, futures[job], answers, skipped')
    BY <1>3, <1>5, <1>6, <1>8, <1>10 DEF Settled
  <2>6. plan' = plan /\ futures' = futures /\ job' = job /\ answers' = answers /\ result' = result
    BY <1>1, <1>10 DEF backendVars
  <2>7. todo' = Asks(p) \ (DOMAIN answers \union skipped' \union ask)
    BY <1>4, <1>8, <1>10
  <2>8. ask \subseteq Asks(p) /\ ask \intersect (DOMAIN answers \union skipped') = {}
    BY <1>5, <1>8, <1>10
  <2>9. WorkerSettles'
    BY <2>2, <2>5, <2>6, <2>7, <2>8, <1>7 DEF WorkerSettles, p
  <2>10. DOMAIN futures[job] = IF Speculates(p) THEN Asks(p) ELSE DOMAIN answers
    BY <1>1, <1>3 DEF WorkerStarts, p
  <2>11. WorkerStarts'
    BY <2>1, <2>6, <2>10, <1>3, <1>10 DEF WorkerStarts, Speculates, Over, Accepted, serviceVars, p
  <2>12. stage # "idle" /\ stage' # "idle"
    BY <2>1, <1>1
  <2> QED
    BY <2>4, <2>6, <2>9, <2>11, <2>12, <1>1, WorkerMoves
<1> QED
  BY <1>2, <1>9, <1>10

-----------------------------------------------------------------------------
(* The service *)

\* The executor's thread takes a request, and may reject it at once.
LEMMA TakeWorkStep ==
  ASSUME LayaInv, TakeWork
  PROVE  LayaInv'
<1> DEFINE r == Head(queue)
           how == [is |-> "invalid", answers |-> Empty, skipped |-> {}]
<1>1. /\ queue # <<>> /\ queue' = Tail(queue) /\ stage = "idle"
      /\ speculative' = speculative /\ plan' = plan /\ reply' = reply
      /\ pending' = pending /\ completed' = completed /\ UNCHANGED backendVars
  BY DEF TakeWork, Begin
<1>2. \/ Rejects(plan[r]) /\ Returns(r, how)
      \/ /\ ~Rejects(plan[r]) /\ job' = r /\ todo' = Asks(plan[r])
         /\ stage' = IF Speculates(plan[r]) THEN "submit_all" ELSE "round"
         /\ UNCHANGED <<result, answers, skipped, need>>
  BY DEF TakeWork, Begin, Raises
<1>3. Types /\ WorkerRight /\ DecisionsRight /\ ServiceRight /\ job = NoRequest
  BY <1>1 DEF LayaInv, WorkerRight, WorkerIdle
<1>4. queue \in Seq(Reqs) /\ Len(queue) \in Nat \ {0} /\ r = queue[1] /\ r \in Reqs
  BY <1>1, <1>3 DEF Types, ServiceTypes
<1>5. /\ Tail(queue) \in Seq(Reqs) /\ Len(Tail(queue)) = Len(queue) - 1
      /\ \A i \in 1..Len(Tail(queue)) : i + 1 \in 1..Len(queue) /\ Tail(queue)[i] = queue[i + 1]
  BY <1>1, <1>4
<1>6. QueueRight
  BY <1>3 DEF ServiceRight
<1>7. r \in Accepted /\ ~Over(r) /\ r # NoRequest
  BY <1>4, <1>6, EngineAssumption DEF QueueRight, NoRequest
<1>8. \A i \in 1..Len(Tail(queue)) : /\ Tail(queue)[i] \in Accepted /\ ~Over(Tail(queue)[i])
                                     /\ Tail(queue)[i] # r /\ Tail(queue)[i] # NoRequest
  <2> TAKE i \in 1..Len(Tail(queue))
  <2>1. i + 1 \in 1..Len(queue) /\ i + 1 # 1 /\ 1 \in 1..Len(queue) /\ Tail(queue)[i] = queue[i + 1]
    BY <1>4, <1>5
  <2>2. queue[i + 1] \in Accepted /\ ~Over(queue[i + 1]) /\ queue[i + 1] # job /\ queue[i + 1] # queue[1]
    BY <2>1, <1>6 DEF QueueRight
  <2> QED
    BY <2>1, <2>2, <1>3, <1>4
<1>9. \A i, j \in 1..Len(Tail(queue)) : Tail(queue)[i] = Tail(queue)[j] => i = j
  BY <1>5, <1>6 DEF QueueRight
<1>10. futures[r] = Empty /\ plan[r] \in AllPlans
  BY <1>3, <1>4, <1>7 DEF DecisionsRight, Types, EngineTypes
<1>11. Asks(plan[r]) \in SUBSET Nat
  BY <1>10, PlanFacts
<1>12. answers = Empty /\ skipped = {} /\ need = {}
  BY <1>1, <1>3 DEF WorkerRight, WorkerIdle
<1>13. DOMAIN Empty = {} /\ Empty \in AnswerMaps
  BY DEF Empty, AnswerMaps, Answer
<1> HIDE DEF r, how
<1>14. PoolRight'
  BY <1>1, PoolKept
<1>15. Accepted' = Accepted /\ Held' = Held
  BY <1>1 DEF Accepted, Held, Holds
<1>16. PlacesCounted'
  BY <1>1, <1>3, <1>15 DEF ServiceRight, PlacesCounted
<1>17. /\ \A s \in Reqs : Grows(futures[s], futures'[s])
       /\ futures' = futures
  BY <1>1 DEF Grows, backendVars
<1>18. result \in [Reqs -> Results]
  BY <1>3 DEF Types, EngineTypes
<1>19. RepliesRight /\ completed \in SUBSET Reqs
  BY <1>3 DEF ServiceRight, Types, ServiceTypes
<1>20. CASE Rejects(plan[r]) /\ Returns(r, how)
  <2>1. /\ result' = [result EXCEPT ![r] = how] /\ job' = NoRequest /\ stage' = "idle"
        /\ todo' = {} /\ answers' = Empty /\ skipped' = {} /\ need' = {}
    BY <1>20 DEF Returns
  <2>2. how \in Results /\ how.is = "invalid"
    BY RaisedIsResult DEF how
  <2>3. /\ result' \in [Reqs -> Results] /\ result'[r] = how
        /\ \A s \in Reqs : s # r => result'[s] = result[s]
    BY <2>1, <2>2, <1>4, <1>18
  <2>4. Types'
    BY <2>1, <2>3, <1>1, <1>3, <1>5, <1>13 DEF Types, EngineTypes, ServiceTypes, backendVars
  <2>5. QueueRight'
    BY <1>1, <1>8, <1>9, <1>15, <2>1, <2>3, <1>5 DEF QueueRight, Over, Accepted
  <2>6. RepliesRight'
    BY <1>1, <1>19, <2>2, <2>3 DEF RepliesRight, Over
  <2>7. WorkerRight'
    BY <2>1 DEF WorkerRight, WorkerIdle, WorkerSettles, WorkerStarts
  <2>8. Decided(plan[r], futures[r], how, speculative)
    BY <1>20, <2>2 DEF Decided, Rejects, Speculates
  <2>9. \A s \in Reqs : ~Over(s)' /\ s # job' => futures'[s] = Empty
    <3> TAKE s \in Reqs
    <3> HAVE ~Over(s)' /\ s # job'
    <3>1. s # r /\ ~Over(s)
      BY <2>2, <2>3 DEF Over
    <3> QED
      BY <3>1, <1>3, <1>4, <1>17, EngineAssumption DEF DecisionsRight, NoRequest
  <2>10. DecisionsRight'
    <3>1. \A s \in Reqs :
           \/ result'[s] = result[s]
           \/ s \in Accepted /\ Decided(plan[s], futures'[s], result'[s], speculative)
      BY <1>7, <1>17, <2>3, <2>8
    <3> QED
      BY <1>1, <1>15, <1>17, <2>4, <2>9, <3>1, DecisionsKept
  <2> QED
    BY <1>14, <1>16, <2>4, <2>5, <2>6, <2>7, <2>10 DEF LayaInv, ServiceRight
<1>21. CASE /\ ~Rejects(plan[r]) /\ job' = r /\ todo' = Asks(plan[r])
            /\ stage' = IF Speculates(plan[r]) THEN "submit_all" ELSE "round"
            /\ UNCHANGED <<result, answers, skipped, need>>
  <2>1. /\ result' = result /\ answers' = answers /\ skipped' = skipped /\ need' = need
        /\ stage' \in {"submit_all", "round"} /\ job' = r /\ todo' = Asks(plan[r])
        /\ stage' = "submit_all" <=> Speculates(plan[r])
    BY <1>21
  <2>2. Types'
    BY <2>1, <1>1, <1>3, <1>4, <1>5, <1>11 DEF Types, EngineTypes, ServiceTypes, backendVars
  <2>3. QueueRight'
    BY <1>1, <1>8, <1>9, <1>15, <2>1, <1>5 DEF QueueRight, Over
  <2>4. RepliesRight'
    BY <1>1, <1>19, <2>1 DEF RepliesRight, Over
  <2>5. WorkerIdle'
    BY <2>1, <1>7 DEF WorkerIdle
  <2>6. WorkerSettles'
    BY <2>1, <1>1, <1>12, <1>13, <1>17 DEF WorkerSettles, Awaited, Settled
  <2>7. WorkerStarts'
    <3>1. plan[r] \notin CyclicPlans
      BY <1>21 DEF Rejects
    <3>2. result[r].is = "none"
      BY <1>7 DEF Over
    <3> QED
      BY <2>1, <3>1, <3>2, <1>1, <1>7, <1>10, <1>12, <1>13, <1>15, <1>17 DEF WorkerStarts, Speculates
  <2>8. \A s \in Reqs : ~Over(s)' /\ s # job' => futures'[s] = Empty
    BY <1>3, <1>17, <2>1, EngineAssumption DEF DecisionsRight, Over, NoRequest
  <2>9. DecisionsRight'
    BY <1>1, <1>15, <1>17, <2>1, <2>2, <2>8, DecisionsKept
  <2> QED
    BY <1>14, <1>16, <2>2, <2>3, <2>4, <2>5, <2>6, <2>7, <2>9 DEF LayaInv, ServiceRight, WorkerRight
<1> QED
  BY <1>2, <1>20, <1>21 DEF how, r

\* What a run of the pool does leaves the worker and the service as they are.
LEMMA CoreStepKeeps ==
  ASSUME LayaInv, NEW t \in threads, Infer(t) \/ Hang(t) \/ Finished(t), UNCHANGED <<speculative, serviceVars>>
  PROVE  LayaInv'
<1>1. /\ UNCHANGED <<speculative, serviceVars>> /\ plan' = plan
      /\ job' = job /\ stage' = stage /\ todo' = todo /\ answers' = answers /\ skipped' = skipped
      /\ need' = need /\ result' = result
  BY DEF Infer, Hang, Finished
<1>2. Types /\ DecisionsRight
  BY DEF LayaInv
<1>3. /\ PoolRight' /\ threads' \in SUBSET RunSet /\ futures' \in [Reqs -> FutureMaps]
      /\ locked' \in BOOLEAN /\ left' \in Nat
      /\ \A r \in Reqs : /\ Grows(futures[r], futures'[r]) /\ DOMAIN futures'[r] = DOMAIN futures[r]
                         /\ futures[r] = Empty => futures'[r] = Empty
  <2>1. CASE Infer(t)
    <3>1. locked' = locked /\ left' = left
      BY <2>1 DEF Infer
    <3> QED
      BY <2>1, <3>1, <1>2, InferRight DEF Types, EngineTypes
  <2>2. CASE Hang(t)
    <3>1. locked' = locked /\ left' = left /\ futures' = futures
      BY <2>2 DEF Hang
    <3> QED
      BY <2>2, <3>1, <1>2, HangRight DEF Types, EngineTypes, Grows
  <2>3. CASE Finished(t)
    <3>1. futures' = futures
      BY <2>3 DEF Finished
    <3> QED
      BY <2>3, <3>1, <1>2, FinishedRight DEF Types, EngineTypes, Grows
  <2> QED
    BY <2>1, <2>2, <2>3
<1>4. Types'
  BY <1>1, <1>2, <1>3 DEF Types, EngineTypes, ServiceTypes, serviceVars
<1>5. Accepted' = Accepted
  BY <1>1 DEF Accepted, serviceVars
<1>6. WorkerRight'
  <2>1. job # NoRequest => job \in Reqs /\ job \in Accepted
    BY <1>2 DEF LayaInv, WorkerRight, WorkerStarts, Types, EngineTypes
  <2> QED
    BY <1>1, <1>3, <1>5, <2>1, WorkerKept
<1>7. ServiceRight'
  BY <1>1, ServiceKept DEF Over
<1>8. DecisionsRight'
  BY <1>1, <1>2, <1>3, <1>4, <1>5, DecisionsKept DEF DecisionsRight, Over
<1> QED
  BY <1>3, <1>4, <1>6, <1>7, <1>8 DEF LayaInv

\* What a handler does leaves the pool and the worker as they are.
LEMMA HandlerStep ==
  ASSUME LayaInv, UNCHANGED <<speculative, engineVars>>, ServiceTypes', ServiceRight', Accepted' = Accepted
  PROVE  LayaInv'
<1>1. /\ speculative' = speculative /\ plan' = plan
      /\ job' = job /\ stage' = stage /\ todo' = todo /\ answers' = answers /\ skipped' = skipped
      /\ need' = need /\ result' = result
      /\ locked' = locked /\ left' = left /\ threads' = threads /\ futures' = futures
  BY DEF engineVars
<1>2. Types /\ DecisionsRight
  BY DEF LayaInv
<1>3. Types'
  BY <1>1, <1>2 DEF Types, EngineTypes
<1>4. PoolRight'
  BY <1>1, PoolKept DEF backendVars
<1>5. \A r \in Reqs : /\ Grows(futures[r], futures'[r]) /\ DOMAIN futures'[r] = DOMAIN futures[r]
                      /\ futures[r] = Empty => futures'[r] = Empty
  BY <1>1 DEF Grows
<1>6. WorkerRight'
  <2>1. job # NoRequest => job \in Reqs /\ job \in Accepted
    BY <1>2 DEF LayaInv, WorkerRight, WorkerStarts, Types, EngineTypes
  <2> QED
    BY <1>1, <1>5, <2>1, WorkerKept
<1>7. DecisionsRight'
  BY <1>1, <1>2, <1>3, <1>5, DecisionsKept DEF DecisionsRight, Over
<1> QED
  BY <1>3, <1>4, <1>6, <1>7 DEF LayaInv

\* A request that is refused for the number of those before it.
LEMMA BusyStep ==
  ASSUME LayaInv, NEW r \in Reqs, Busy(r)
  PROVE  LayaInv'
<1>1. /\ reply[r] = "none" /\ reply' = [reply EXCEPT ![r] = "busy"]
      /\ pending' = pending /\ queue' = queue /\ completed' = completed
      /\ UNCHANGED <<speculative, engineVars>> /\ plan' = plan /\ result' = result /\ job' = job
  BY DEF Busy, IsNext, Answers, engineVars
<1>2. ServiceTypes /\ ServiceRight
  BY DEF LayaInv, Types
<1>3. /\ reply \in [Reqs -> Statuses] /\ reply' \in [Reqs -> Statuses]
      /\ reply'[r] = "busy" /\ \A s \in Reqs : s # r => reply'[s] = reply[s]
  BY <1>1, <1>2 DEF ServiceTypes, Statuses
<1>4. ServiceTypes'
  BY <1>1, <1>2, <1>3 DEF ServiceTypes
<1>5. Accepted' = Accepted
  BY <1>1, <1>3 DEF Accepted
<1>6. Held' = Held
  BY <1>1, <1>3, <1>5 DEF Held, Holds, Accepted
<1>7. QueueRight' /\ PlacesCounted' /\ RepliesRight'
  BY <1>1, <1>2, <1>3, <1>5, <1>6 DEF ServiceRight, QueueRight, PlacesCounted, RepliesRight, Over
<1> QED
  BY <1>1, <1>4, <1>5, <1>7, HandlerStep DEF ServiceRight

\* A participation caller is told that the time is over; its work goes on.
LEMMA DeadlineStep ==
  ASSUME LayaInv, NEW r \in Reqs, Deadline(r)
  PROVE  LayaInv'
<1>1. /\ reply[r] = "waiting" /\ reply' = [reply EXCEPT ![r] = "deadline"] /\ plan[r].participation
      /\ pending' = pending /\ queue' = queue /\ completed' = completed
      /\ UNCHANGED <<speculative, engineVars>> /\ plan' = plan /\ result' = result /\ job' = job
  BY DEF Deadline, Answers, engineVars
<1>2. ServiceTypes /\ ServiceRight
  BY DEF LayaInv, Types
<1>3. /\ reply \in [Reqs -> Statuses] /\ reply' \in [Reqs -> Statuses]
      /\ reply'[r] = "deadline" /\ \A s \in Reqs : s # r => reply'[s] = reply[s]
  BY <1>1, <1>2 DEF ServiceTypes, Statuses
<1>4. ServiceTypes'
  BY <1>1, <1>2, <1>3 DEF ServiceTypes
<1>5. Accepted' = Accepted
  BY <1>1, <1>3 DEF Accepted
<1>6. Held' = Held
  BY <1>1, <1>3, <1>5 DEF Held, Holds
<1>7. QueueRight' /\ PlacesCounted' /\ RepliesRight'
  BY <1>1, <1>2, <1>3, <1>5, <1>6 DEF ServiceRight, QueueRight, PlacesCounted, RepliesRight, Over
<1> QED
  BY <1>1, <1>4, <1>5, <1>7, HandlerStep DEF ServiceRight

\* A participation handler answers after its place was given back.
LEMMA RespondParticipationStep ==
  ASSUME LayaInv, NEW r \in Reqs, RespondParticipation(r)
  PROVE  LayaInv'
<1>1. PICK status \in {"ok", "internal"} :
      /\ reply[r] = "waiting" /\ reply' = [reply EXCEPT ![r] = status] /\ r \in completed
      /\ pending' = pending /\ queue' = queue /\ completed' = completed
      /\ UNCHANGED <<speculative, engineVars>> /\ plan' = plan /\ result' = result /\ job' = job
  BY DEF RespondParticipation, Answers, engineVars
<1>2. ServiceTypes /\ ServiceRight
  BY DEF LayaInv, Types
<1>3. /\ reply \in [Reqs -> Statuses] /\ reply' \in [Reqs -> Statuses]
      /\ reply'[r] = status /\ \A s \in Reqs : s # r => reply'[s] = reply[s]
  BY <1>1, <1>2 DEF ServiceTypes, Statuses
<1>4. ServiceTypes'
  BY <1>1, <1>2, <1>3 DEF ServiceTypes
<1>5. Accepted' = Accepted
  BY <1>1, <1>3 DEF Accepted
<1>6. plan[r].participation /\ Over(r)
  BY <1>1, <1>2 DEF ServiceRight, RepliesRight
<1>7. Held' = Held
  BY <1>1, <1>3, <1>5, <1>6 DEF Held, Holds
<1>8. QueueRight' /\ PlacesCounted' /\ RepliesRight'
  BY <1>1, <1>2, <1>3, <1>5, <1>6, <1>7 DEF ServiceRight, QueueRight, PlacesCounted, RepliesRight, Over
<1> QED
  BY <1>1, <1>4, <1>5, <1>8, HandlerStep DEF ServiceRight

\* A place that is given back was held.
LEMMA PlaceFreed ==
  ASSUME PlacesCounted, pending \in Nat, NEW r \in Held, Held' = Held \ {r}, pending' = pending - 1
  PROVE  PlacesCounted' /\ pending' \in Nat
<1>1. IsFiniteSet(Held') /\ Cardinality(Held') = pending - 1 /\ Cardinality(Held') \in Nat
  BY FS_RemoveElement, FS_CardinalityType DEF PlacesCounted
<1> QED
  BY <1>1, ServiceAssumption DEF PlacesCounted

\* A systemone handler gives its place back and answers in one step.
LEMMA RespondSystemoneStep ==
  ASSUME LayaInv, NEW r \in Reqs, RespondSystemone(r)
  PROVE  LayaInv'
<1>1. ServiceTypes /\ ServiceRight /\ EngineTypes
  BY DEF LayaInv, Types
<1>2. /\ ~plan[r].participation /\ reply[r] = "waiting" /\ Over(r) /\ pending' = pending - 1
      /\ queue' = queue /\ completed' = completed
      /\ UNCHANGED <<speculative, engineVars>> /\ plan' = plan /\ result' = result /\ job' = job
  BY DEF RespondSystemone, engineVars
<1>3. result[r].is \in {"answers", "invalid", "failed"}
  BY <1>1, <1>2 DEF EngineTypes, Results, Over
<1>4. PICK status \in {"ok", "invalid_question", "internal"} : reply' = [reply EXCEPT ![r] = status]
  <2>1. CASE result[r].is = "answers"
    BY <2>1 DEF RespondSystemone, Answers
  <2>2. CASE result[r].is = "invalid"
    BY <2>2 DEF RespondSystemone, Answers
  <2>3. CASE result[r].is = "failed"
    BY <2>3 DEF RespondSystemone, Answers
  <2> QED
    BY <1>3, <2>1, <2>2, <2>3
<1>5. /\ reply \in [Reqs -> Statuses] /\ reply' \in [Reqs -> Statuses]
      /\ reply'[r] = status /\ \A s \in Reqs : s # r => reply'[s] = reply[s]
  BY <1>1, <1>4 DEF ServiceTypes, Statuses
<1>6. Accepted' = Accepted /\ r \in Accepted
  BY <1>2, <1>5 DEF Accepted
<1>7. Held' = Held \ {r} /\ r \in Held
  BY <1>2, <1>5, <1>6 DEF Held, Holds
<1>8. PlacesCounted' /\ pending' \in Nat
  BY <1>1, <1>2, <1>7, PlaceFreed DEF ServiceRight, ServiceTypes
<1>9. ServiceTypes'
  BY <1>1, <1>2, <1>5, <1>8 DEF ServiceTypes
<1>10. QueueRight' /\ RepliesRight'
  BY <1>1, <1>2, <1>5, <1>6 DEF ServiceRight, QueueRight, RepliesRight, Over
<1> QED
  BY <1>2, <1>6, <1>8, <1>9, <1>10, HandlerStep DEF ServiceRight

\* The callback of a participation request gives its place back, once.
LEMMA CompletedStep ==
  ASSUME LayaInv, NEW r \in Reqs, Completed(r)
  PROVE  LayaInv'
<1>1. ServiceTypes /\ ServiceRight /\ DecisionsRight
  BY DEF LayaInv, Types
<1>2. /\ plan[r].participation /\ Over(r) /\ r \notin completed /\ completed' = completed \union {r}
      /\ pending' = pending - 1 /\ queue' = queue /\ reply' = reply
      /\ UNCHANGED <<speculative, engineVars>> /\ plan' = plan /\ result' = result /\ job' = job
  BY DEF Completed, engineVars
<1>3. r \in Accepted /\ Accepted' = Accepted
  BY <1>1, <1>2 DEF DecisionsRight, Accepted
<1>4. Held' = Held \ {r} /\ r \in Held
  BY <1>2, <1>3 DEF Held, Holds
<1>5. PlacesCounted' /\ pending' \in Nat
  BY <1>1, <1>2, <1>4, PlaceFreed DEF ServiceRight, ServiceTypes
<1>6. ServiceTypes'
  BY <1>1, <1>2, <1>5 DEF ServiceTypes
<1>7. QueueRight' /\ RepliesRight'
  BY <1>1, <1>2, <1>3 DEF ServiceRight, QueueRight, RepliesRight, Over
<1> QED
  BY <1>2, <1>3, <1>5, <1>6, <1>7, HandlerStep DEF ServiceRight

\* A request that is let in takes a place and the end of the queue.
LEMMA AcceptStep ==
  ASSUME LayaInv, NEW r \in Reqs, Accept(r)
  PROVE  LayaInv'
<1>1. Types /\ ServiceRight /\ DecisionsRight /\ WorkerRight
  BY DEF LayaInv
<1>2. PICK p \in Plans[r] : plan' = [plan EXCEPT ![r] = p]
  BY DEF Accept
<1>3. /\ reply[r] = "none" /\ pending < MaxPending /\ pending' = pending + 1
      /\ reply' = [reply EXCEPT ![r] = "waiting"] /\ queue' = Append(queue, r) /\ completed' = completed
      /\ speculative' = speculative /\ job' = job /\ stage' = stage /\ todo' = todo /\ answers' = answers
      /\ skipped' = skipped /\ need' = need /\ result' = result
      /\ locked' = locked /\ left' = left /\ threads' = threads /\ futures' = futures
  BY DEF Accept, IsNext, Answers, backendVars
<1>4. /\ reply \in [Reqs -> Statuses] /\ reply' \in [Reqs -> Statuses]
      /\ reply'[r] = "waiting" /\ \A s \in Reqs : s # r => reply'[s] = reply[s]
  BY <1>1, <1>3 DEF Types, ServiceTypes, Statuses
<1>5. /\ plan' \in [Reqs -> AllPlans] /\ plan'[r] = p
      /\ \A s \in Reqs : s # r => plan'[s] = plan[s]
  BY <1>1, <1>2 DEF Types, EngineTypes, AllPlans
<1>6. Accepted' = Accepted \union {r} /\ r \notin Accepted
  BY <1>3, <1>4 DEF Accepted
<1>7. ~Over(r) /\ r # job /\ futures[r] = Empty /\ r \notin completed
  <2>1. ~Over(r)
    BY <1>1, <1>6 DEF DecisionsRight
  <2>2. r # job
    BY <1>1, <1>6, EngineAssumption DEF WorkerRight, WorkerStarts, NoRequest
  <2>3. r \notin completed
    BY <1>1, <2>1 DEF ServiceRight, RepliesRight
  <2> QED
    BY <1>1, <2>1, <2>2, <2>3 DEF DecisionsRight
<1>8. pending \in Nat /\ pending' \in Nat /\ MaxPending \in Nat
  BY <1>1, <1>3, ServiceAssumption DEF Types, ServiceTypes
<1>9. queue \in Seq(Reqs) /\ completed \in SUBSET Reqs
  BY <1>1 DEF Types, ServiceTypes
<1>10. /\ queue' \in Seq(Reqs) /\ Len(queue') = Len(queue) + 1 /\ queue'[Len(queue) + 1] = r
       /\ \A i \in 1..Len(queue) : queue'[i] = queue[i] /\ queue[i] \in Reqs
       /\ \A i \in 1..Len(queue') : i \in 1..Len(queue) \/ i = Len(queue) + 1
  BY <1>3, <1>9
<1>11. Types'
  BY <1>1, <1>3, <1>4, <1>5, <1>8, <1>10 DEF Types, EngineTypes, ServiceTypes
<1>12. PoolRight'
  <2>1. \A s \in Reqs : futures[s] # Empty => plan'[s] = plan[s]
    BY <1>5, <1>7
  <2> QED
    BY <2>1, <1>3, PoolKept DEF backendVars
<1>13. \A s \in Reqs : /\ Grows(futures[s], futures'[s]) /\ DOMAIN futures'[s] = DOMAIN futures[s]
                       /\ futures[s] = Empty => futures'[s] = Empty
  BY <1>3 DEF Grows
<1>14. WorkerRight'
  <2>1. job # NoRequest => job \in Reqs /\ job \in Accepted' /\ plan'[job] = plan[job]
    BY <1>1, <1>5, <1>6, <1>7 DEF WorkerRight, WorkerStarts, Types, EngineTypes
  <2> QED
    BY <1>3, <1>13, <2>1, WorkerKept
<1>15. DecisionsRight'
  <2>1. \A s \in Reqs : s \in Accepted => plan'[s] = plan[s] /\ s \in Accepted'
    BY <1>5, <1>6
  <2>2. \A s \in Reqs : ~Over(s)' /\ s # job' => futures'[s] = Empty
    BY <1>1, <1>3 DEF DecisionsRight, Over
  <2> QED
    BY <1>3, <1>11, <1>13, <2>1, <2>2, DecisionsKept
<1>16. Held' = Held \union {r} /\ r \notin Held
  <2>1. \A s \in Reqs : s # r => (Holds(s)' <=> Holds(s))
    BY <1>3, <1>4, <1>5, <1>6 DEF Holds
  <2>2. Holds(r)' /\ ~Holds(r)
    BY <1>3, <1>4, <1>6, <1>7 DEF Holds
  <2> QED
    BY <2>1, <2>2 DEF Held
<1>17. PlacesCounted'
  <2>1. PlacesCounted
    BY <1>1 DEF ServiceRight
  <2>2. IsFiniteSet(Held') /\ Cardinality(Held') = Cardinality(Held) + 1
    BY <2>1, <1>16, FS_AddElement DEF PlacesCounted
  <2> QED
    BY <2>1, <2>2, <1>3, <1>8 DEF PlacesCounted
<1>18. QueueRight'
  <2>1. QueueRight
    BY <1>1 DEF ServiceRight
  <2>2. \A i \in 1..Len(queue) : queue'[i] \in Accepted /\ ~Over(queue'[i]) /\ queue'[i] # job /\ queue'[i] # r
    BY <2>1, <1>6, <1>10 DEF QueueRight
  <2>3. \A i \in 1..Len(queue') : queue'[i] \in Accepted' /\ queue'[i] # job' /\ result'[queue'[i]].is = "none"
    BY <2>2, <1>3, <1>6, <1>7, <1>10 DEF Over
  <2>4. \A i, j \in 1..Len(queue') : queue'[i] = queue'[j] => i = j
    BY <2>1, <2>2, <1>10 DEF QueueRight
  <2> QED
    BY <2>3, <2>4 DEF QueueRight, Over
<1>19. RepliesRight'
  BY <1>1, <1>3, <1>4, <1>5, <1>7, <1>9 DEF ServiceRight, RepliesRight, Over
<1> QED
  BY <1>11, <1>12, <1>14, <1>15, <1>17, <1>18, <1>19 DEF LayaInv, ServiceRight

-----------------------------------------------------------------------------
(* The theorems *)

\* Nothing runs and nobody is there when the service starts.
LEMMA InitRight == Init => LayaInv
<1> SUFFICES ASSUME Init
             PROVE  LayaInv
  OBVIOUS
<1>1. DOMAIN Empty = {} /\ Empty \in AnswerMaps /\ Empty \in FutureMaps
  <2>1. Empty \in [{} -> Answer] /\ Empty \in [{} -> Answer \union {"running", "failed"}] /\ DOMAIN Empty = {}
    BY DEF Empty
  <2>2. {} \in SUBSET Nat
    OBVIOUS
  <2> QED
    BY <2>1, <2>2 DEF AnswerMaps, FutureMaps
<1> USE DEF Init, EngineInit
<1>2. Pending \in Results /\ Pending.is = "none"
  BY <1>1 DEF Pending, Results
<1>3. plan \in [Reqs -> AllPlans]
  <2>1. \A r \in Reqs : (CHOOSE p \in Plans[r] : TRUE) \in Plans[r]
    BY EngineAssumption
  <2> QED
    BY <2>1 DEF AllPlans
<1>4. queue \in Seq(Reqs) /\ Len(queue) = 0
  OBVIOUS
<1>5. Types
  BY <1>1, <1>2, <1>3, <1>4 DEF Types, EngineTypes, ServiceTypes, Statuses, RunSet, NoRequest
<1>6. PoolRight
  <2>1. Uncomputed = {} /\ Computed = {}
    BY DEF Uncomputed, Computed
  <2>2. IsFiniteSet({}) /\ Cardinality({}) = 0
    BY FS_EmptySet
  <2> QED
    BY <2>1, <2>2 DEF PoolRight, OneRunPerCore, ItemsWaitForTheirCore, OneBatch, LockHeld
<1>7. WorkerRight
  BY DEF WorkerRight, WorkerIdle, WorkerSettles, WorkerStarts
<1>8. DecisionsRight
  BY <1>2 DEF DecisionsRight, Decided, Over
<1>9. ServiceRight
  <2>1. Held = {} /\ IsFiniteSet({}) /\ Cardinality({}) = 0
    BY FS_EmptySet DEF Held, Holds, Accepted
  <2> QED
    BY <2>1, <1>4, ServiceAssumption DEF ServiceRight, QueueRight, PlacesCounted, RepliesRight
<1> QED
  BY <1>5, <1>6, <1>7, <1>8, <1>9 DEF LayaInv

\* Every step keeps the invariant.
LEMMA NextRight == LayaInv /\ [Next]_vars => LayaInv'
<1> SUFFICES ASSUME LayaInv, [Next]_vars
             PROVE  LayaInv'
  OBVIOUS
<1>1. ASSUME NEW r \in Reqs, Accept(r) \/ Busy(r)
      PROVE  LayaInv'
  BY <1>1, AcceptStep, BusyStep
<1>2. ASSUME NEW r \in Reqs, Handler(r) \/ Deadline(r)
      PROVE  LayaInv'
  BY <1>2, RespondSystemoneStep, CompletedStep, RespondParticipationStep, DeadlineStep DEF Handler
<1>3. ASSUME Engine
      PROVE  LayaInv'
  <2>1. UNCHANGED <<speculative, serviceVars>>
    BY <1>3 DEF Engine
  <2>2. ASSUME WorkerStep
        PROVE  LayaInv'
    BY <2>1, <2>2, SubmitAllStep, RoundStep, SubmitRoundStep, AwaitStep, AwaitFailsStep, ReturnStep DEF WorkerStep
  <2>3. ASSUME NEW t \in threads, Infer(t) \/ Hang(t) \/ Finished(t)
        PROVE  LayaInv'
    BY <2>1, <2>3, CoreStepKeeps
  <2> QED
    BY <1>3, <2>2, <2>3 DEF Engine, CoreStep
<1>4. ASSUME UNCHANGED vars
      PROVE  LayaInv'
  <2>1. UNCHANGED <<speculative, engineVars>> /\ UNCHANGED serviceVars
    BY <1>4 DEF vars
  <2>2. ServiceTypes' /\ Accepted' = Accepted
    BY <2>1 DEF LayaInv, Types, ServiceTypes, serviceVars, Accepted
  <2>3. ServiceRight'
    BY <2>1, ServiceKept DEF engineVars, Over
  <2> QED
    BY <2>1, <2>2, <2>3, HandlerStep
<1> QED
  BY <1>1, <1>2, <1>3, <1>4, TakeWorkStep DEF Next, Arrive

\* The invariant holds of every behaviour of the service: the batch in the
\* pool, what the worker thread knows of its request, what each finished
\* request was told, and the places of the waiting ones.
THEOREM LayaCorrect == Spec => []LayaInv
BY InitRight, NextRight, PTL DEF Spec

\* No core of the NPU is ever run by two threads, and each runs only items
\* whose bucket it has loaded: schedule() and the batch lock of submit().
THEOREM CoresShared == Spec => []CoresSerial
<1>1. LayaInv => CoresSerial
  BY DEF LayaInv, PoolRight, OneRunPerCore, ItemsWaitForTheirCore, CoresSerial
<1> QED
  BY <1>1, LayaCorrect, PTL

\* Staged or speculative, predict() answers exactly the questions that are
\* called for, each from its own future, skips the others, and fails or
\* rejects only for a question that was called for.
THEOREM AnswersExact == Spec => []AsksExactly
<1>1. ASSUME LayaInv, NEW r \in Reqs
      PROVE  /\ result[r].is = "answers" =>
                  /\ DOMAIN result[r].answers = CalledFor(r)
                  /\ \A q \in CalledFor(r) : result[r].answers[q] = futures[r][q]
                  /\ result[r].skipped = Asks(plan[r]) \ CalledFor(r)
             /\ result[r].is = "failed" => \E q \in CalledFor(r) : futures[r][q] = "failed"
             /\ result[r].is = "invalid" /\ ~Speculates(plan[r]) =>
                  plan[r] \in CyclicPlans \/ CalledFor(r) \intersect plan[r].long # {}
  <2> DEFINE given == result[r].answers
             without == result[r].skipped
  <2>1. Decided(plan[r], futures[r], result[r], speculative)
    BY <1>1 DEF LayaInv, DecisionsRight
  <2>2. CalledFor(r) = {q \in Asks(plan[r]) : Called(plan[r], q, futures[r])}
    BY DEF CalledFor, Called
  <2>3. ASSUME result[r].is = "answers"
        PROVE  /\ DOMAIN given = CalledFor(r)
               /\ \A q \in CalledFor(r) : given[q] = futures[r][q]
               /\ without = Asks(plan[r]) \ CalledFor(r)
    <3> HIDE DEF given, without
    <3>1. Settled(plan[r], futures[r], given, without) /\ Asks(plan[r]) = DOMAIN given \union without
      BY <2>1, <2>3 DEF Decided, given, without
    <3>2. \A q \in DOMAIN given : q \in CalledFor(r) /\ given[q] = futures[r][q]
      BY <2>2, <3>1 DEF Settled, Called
    <3>3. \A q \in without : q \notin CalledFor(r)
      BY <2>2, <3>1 DEF Settled, Called, Uncalled
    <3>4. CalledFor(r) \subseteq Asks(plan[r])
      BY <2>2
    <3> QED
      BY <3>1, <3>2, <3>3, <3>4
  <2> QED
    BY <2>1, <2>2, <2>3 DEF Decided, Speculates
<1>2. LayaInv => AsksExactly
  BY <1>1 DEF AsksExactly
<1> QED
  BY <1>2, LayaCorrect, PTL

\* No more than max_pending requests wait or run, whoever has given up on
\* them, and the counter of the handlers is the number of those whose place
\* was not given back.
THEOREM PlacesGivenBack == Spec => []BacklogBounded
<1>1. ASSUME LayaInv
      PROVE  BacklogBounded
  <2> DEFINE accepted == {r \in Reqs : reply[r] \notin {"none", "busy"}}
             held == {r \in accepted : IF plan[r].participation THEN r \notin completed ELSE reply[r] = "waiting"}
  <2>1. held = Held
    BY DEF Held, Holds, Accepted
  <2>2. ServiceRight /\ Types
    BY <1>1 DEF LayaInv
  <2>3. ASSUME NEW r \in accepted, ~Over(r)
        PROVE  r \in held
    <3>1. reply[r] \in Statuses
      BY <2>2 DEF Types, ServiceTypes
    <3> QED
      BY <2>2, <2>3, <3>1 DEF ServiceRight, RepliesRight, Statuses
  <2> QED
    BY <2>1, <2>2, <2>3 DEF BacklogBounded, ServiceRight, PlacesCounted, Over
<1> QED
  BY <1>1, LayaCorrect, PTL

\* A future is resolved at most once, and what it says never changes, also
\* when nobody waits for it any more: set_result() of an item never meets a
\* future that is done, and a worker may read it whenever it likes.
THEOREM FuturesFinal == Spec => [][\A r \in Reqs : Grows(futures[r], futures'[r])]_vars
<1>1. ASSUME LayaInv, Next
      PROVE  \A r \in Reqs : Grows(futures[r], futures'[r])
  <2>1. futures' = futures => \A r \in Reqs : Grows(futures[r], futures'[r])
    BY DEF Grows
  <2>2. ASSUME Engine
        PROVE  \A r \in Reqs : Grows(futures[r], futures'[r])
    <3>1. ASSUME NEW t \in threads, Infer(t) \/ Hang(t) \/ Finished(t)
          PROVE  \A r \in Reqs : Grows(futures[r], futures'[r])
      BY <1>1, <2>1, <3>1, InferRight DEF Hang, Finished
    <3>2. Round \/ Await \/ AwaitFails \/ Return => futures' = futures
      BY DEF Round, Await, AwaitFails, Return, backendVars
    <3> QED
      BY <1>1, <2>1, <2>2, <3>1, <3>2, SubmitAllStep, SubmitRoundStep DEF Engine, CoreStep, WorkerStep
  <2>3. TakeWork => futures' = futures
    BY DEF TakeWork, Begin, backendVars
  <2>4. ASSUME NEW r \in Reqs, Accept(r) \/ Busy(r) \/ Handler(r) \/ Deadline(r)
        PROVE  futures' = futures
    BY <2>4 DEF Accept, Busy, Handler, RespondSystemone, Completed, RespondParticipation, Deadline,
                engineVars, backendVars
  <2> QED
    BY <1>1, <2>1, <2>2, <2>3, <2>4 DEF Next, Arrive
<1> QED
  BY <1>1, LayaCorrect, PTL DEF Spec

\* predict() ends once for every request: what a request was told never
\* changes, whatever its batch still computes.
THEOREM DecisionsFinal == Spec => [][\A r \in Reqs : Over(r) => result'[r] = result[r]]_vars
<1>1. ASSUME LayaInv, Next
      PROVE  \A r \in Reqs : Over(r) => result'[r] = result[r]
  <2>1. result \in [Reqs -> Results]
    BY <1>1 DEF LayaInv, Types, EngineTypes
  <2>2. ASSUME NEW s, NEW how, ~Over(s), Returns(s, how)
        PROVE  \A r \in Reqs : Over(r) => result'[r] = result[r]
    BY <2>1, <2>2 DEF Returns
  <2>3. ASSUME Engine
        PROVE  \A r \in Reqs : Over(r) => result'[r] = result[r]
    <3>1. stage # "idle" => ~Over(job)
      BY <1>1, JobFacts
    <3>2. SubmitAll \/ SubmitRound \/ Await => result' = result
      BY DEF SubmitAll, SubmitRound, Await
    <3>3. Round => stage # "idle" /\ (result' = result \/ Raises(job, "invalid"))
      BY DEF Round
    <3>4. AwaitFails => stage # "idle" /\ Raises(job, "failed")
      BY DEF AwaitFails
    <3>5. Return => stage # "idle" /\ Returns(job, [is |-> "answers", answers |-> answers, skipped |-> skipped])
      BY DEF Return
    <3>6. \A t \in threads : Infer(t) \/ Hang(t) \/ Finished(t) => result' = result
      BY DEF Infer, Hang, Finished
    <3> QED
      BY <2>2, <2>3, <3>1, <3>2, <3>3, <3>4, <3>5, <3>6 DEF Engine, CoreStep, WorkerStep, Raises
  <2>4. ASSUME TakeWork
        PROVE  \A r \in Reqs : Over(r) => result'[r] = result[r]
    <3>1. queue \in Seq(Reqs) /\ queue # <<>>
      BY <1>1, <2>4 DEF LayaInv, Types, ServiceTypes, TakeWork
    <3>2. Head(queue) = queue[1] /\ 1 \in 1..Len(queue)
      BY <3>1
    <3>3. ~Over(Head(queue))
      BY <1>1, <3>2 DEF LayaInv, ServiceRight, QueueRight
    <3>4. result' = result \/ Raises(Head(queue), "invalid")
      BY <2>4 DEF TakeWork, Begin
    <3> QED
      BY <2>2, <3>3, <3>4 DEF Raises
  <2>5. ASSUME NEW r \in Reqs, Accept(r) \/ Busy(r) \/ Handler(r) \/ Deadline(r)
        PROVE  result' = result
    BY <2>5 DEF Accept, Busy, Handler, RespondSystemone, Completed, RespondParticipation, Deadline, engineVars
  <2> QED
    BY <1>1, <2>3, <2>4, <2>5 DEF Next, Arrive
<1> QED
  BY <1>1, LayaCorrect, PTL DEF Spec

-----------------------------------------------------------------------------
(* Decisions: the first, the least and the greatest *)

\* A set of numbers has a least.
LEMMA LeastOf == ASSUME NEW T, T \subseteq Nat, T # {} PROVE \E x \in T : \A y \in T : x <= y
<1>1. PICK R : R = OpToRel(<, Nat)
  OBVIOUS
<1>2. IsWellFoundedOn(R, Nat)
  BY <1>1, NatLessThanWellFounded
<1>3. PICK x \in T : \A y \in T : ~ (<<y, x>> \in R)
  BY <1>2, WFMin
<1>4. \A y \in T : y < x => <<y, x>> \in R
  BY <1>1 DEF OpToRel
<1>5. ASSUME NEW y \in T PROVE x <= y
  <2>1. ~ (y < x)
    BY <1>3, <1>4
  <2>2. QED BY <2>1
<1>6. QED BY <1>5

\* What holds of none or one, and of one more than it holds of, holds up to n.
LEMMA UpTo ==
  ASSUME NEW n \in Nat, NEW lo \in 0 .. n, NEW S, lo \in S, \A k \in lo .. n - 1 : k \in S => k + 1 \in S
  PROVE  lo .. n \subseteq S
<1> DEFINE T == {k \in lo .. n : k \notin S}
<1>1. SUFFICES ASSUME T # {} PROVE FALSE
  OBVIOUS
<1>2. T \subseteq Nat
  OBVIOUS
<1>3. PICK x \in T : \A y \in T : x <= y
  BY <1>1, <1>2, LeastOf
<1>4. x \in lo .. n /\ x # lo /\ x \notin S
  OBVIOUS
<1>5. x - 1 \in lo .. n - 1 /\ x - 1 + 1 = x
  BY <1>4
<1>6. x - 1 \in T
  <2>1. x - 1 \in lo .. n /\ x - 1 \notin S
    BY <1>4, <1>5
  <2>2. QED BY <2>1
<1>7. QED BY <1>3, <1>4, <1>6

\* b is where a value of f up to k is greatest, and the first such place.
FirstGreatest(f, k, b) == b \in 1 .. k /\ \A a \in 1 .. k : f[a] < f[b] \/ (f[a] = f[b] /\ b <= a)

\* Of n values there is one that is greatest and comes first.
LEMMA GreatestFirst ==
  ASSUME NEW n \in Nat \ {0}, NEW f, \A i \in 1 .. n : f[i] \in Int
  PROVE  \E b \in 1 .. n : FirstGreatest(f, n, b)
<1> DEFINE S == {k \in 1 .. n : \E b \in 1 .. n : FirstGreatest(f, k, b)}
<1>1. 1 \in S
  <2>1. \A a \in 1 .. 1 : a = 1
    OBVIOUS
  <2>2. FirstGreatest(f, 1, 1) /\ 1 \in 1 .. n
    BY <2>1 DEF FirstGreatest
  <2>3. QED BY <2>2
<1>2. ASSUME NEW k \in 1 .. n - 1, k \in S PROVE k + 1 \in S
  <2>1. PICK b \in 1 .. n : FirstGreatest(f, k, b)
    BY <1>2
  <2>2. b \in 1 .. k /\ k + 1 \in 1 .. n /\ f[k + 1] \in Int /\ f[b] \in Int
    BY <2>1 DEF FirstGreatest
  <2>3. \A a \in 1 .. k + 1 : a \in 1 .. k \/ a = k + 1
    OBVIOUS
  <2>4. CASE f[b] < f[k + 1]
    <3>1. \A a \in 1 .. k : f[a] < f[k + 1]
      <4>1. \A a \in 1 .. k : f[a] \in Int /\ f[a] <= f[b]
        <5>1. \A a \in 1 .. k : f[a] \in Int
          OBVIOUS
        <5>2. QED BY <5>1, <2>1, <2>2 DEF FirstGreatest
      <4>2. QED BY <4>1, <2>2, <2>4
    <3>2. FirstGreatest(f, k + 1, k + 1)
      BY <2>2, <2>3, <3>1 DEF FirstGreatest
    <3>3. QED BY <2>2, <3>2
  <2>5. CASE ~ (f[b] < f[k + 1])
    <3>1. f[k + 1] < f[b] \/ (f[k + 1] = f[b] /\ b <= k + 1)
      BY <2>2, <2>5
    <3>2. FirstGreatest(f, k + 1, b)
      BY <2>1, <2>2, <2>3, <3>1 DEF FirstGreatest
    <3>3. QED BY <2>2, <3>2
  <2>6. QED BY <2>4, <2>5
<1>3. n \in S
  <2> HIDE DEF S
  <2>1. n \in Nat /\ 1 \in 0 .. n /\ n \in 1 .. n
    OBVIOUS
  <2>2. 1 .. n \subseteq S
    BY <1>1, <1>2, <2>1, UpTo
  <2>3. QED BY <2>1, <2>2
<1>4. QED BY <1>3

\* argmax of a row of numbers.
LEMMA ArgMaxIs ==
  ASSUME NEW n \in Nat \ {0}, NEW z, DOMAIN z = 1 .. n, \A i \in 1 .. n : z[i] \in Int
  PROVE  ArgMax(z) \in 1 .. n /\ \A j \in 1 .. n : z[j] <= z[ArgMax(z)] /\ (j < ArgMax(z) => z[j] < z[ArgMax(z)])
<1>1. \E b \in 1 .. n : FirstGreatest(z, n, b)
  BY GreatestFirst
<1>2. \E b \in DOMAIN z : \A j \in DOMAIN z : z[j] < z[b] \/ (z[j] = z[b] /\ b <= j)
  BY <1>1 DEF FirstGreatest
<1> DEFINE b == ArgMax(z)
<1>3. b \in 1 .. n /\ \A j \in 1 .. n : z[j] < z[b] \/ (z[j] = z[b] /\ b <= j)
  BY <1>2 DEF ArgMax
<1> HIDE DEF b
<1>4. ASSUME NEW j \in 1 .. n PROVE z[j] <= z[b] /\ (j < b => z[j] < z[b])
  <2>1. z[j] \in Int /\ z[b] \in Int /\ j \in Int /\ b \in Int
    BY <1>3
  <2>2. z[j] < z[b] \/ (z[j] = z[b] /\ b <= j)
    BY <1>3
  <2>3. QED BY <2>1, <2>2
<1>5. b \in 1 .. n /\ \A j \in 1 .. n : z[j] <= z[b] /\ (j < b => z[j] < z[b])
  BY <1>3, <1>4
<1>6. QED BY <1>5 DEF b

\* max() and min() of finitely many numbers.
LEMMA GreatestIs ==
  ASSUME NEW U, U \subseteq Nat, IsFiniteSet(U), U # {}
  PROVE  Max(U) \in U /\ \A a \in U : a <= Max(U)
<1>1. PICK n \in Nat : ExistsBijection(1 .. n, U)
  BY FS_NatBijection
<1>2. PICK f \in Bijection(1 .. n, U) : TRUE
  BY <1>1 DEF ExistsBijection
<1>3. f \in [1 .. n -> U] /\ \A u \in U : \E i \in 1 .. n : f[i] = u
  BY <1>2 DEF Bijection, Surjection
<1>4. n \in Nat \ {0}
  <2>1. PICK u \in U : TRUE
    OBVIOUS
  <2>2. PICK i \in 1 .. n : f[i] = u
    BY <1>3
  <2>3. QED BY <2>2
<1>5. \A i \in 1 .. n : f[i] \in Int
  <2>1. \A i \in 1 .. n : f[i] \in U
    BY <1>3
  <2>2. \A u \in U : u \in Int
    <3>1. \A u \in Nat : u \in Int
      OBVIOUS
    <3>2. QED BY <3>1
  <2>3. QED BY <2>1, <2>2
<1>6. PICK b \in 1 .. n : FirstGreatest(f, n, b)
  BY <1>4, <1>5, GreatestFirst
<1>7. f[b] \in U /\ \A a \in U : f[b] >= a
  <2>1. ASSUME NEW a \in U PROVE f[b] >= a
    <3>1. PICK i \in 1 .. n : f[i] = a
      BY <1>3
    <3>2. f[i] \in Int /\ f[b] \in Int
      BY <1>5
    <3>3. QED BY <1>6, <3>1, <3>2 DEF FirstGreatest
  <2>2. QED BY <1>3, <2>1
<1>8. Max(U) \in U /\ \A a \in U : Max(U) >= a
  BY <1>7 DEF Max
<1>9. QED BY <1>8

\* And min().
LEMMA SmallestIs ==
  ASSUME NEW U, U \subseteq Nat, U # {}
  PROVE  Min(U) \in U /\ \A a \in U : Min(U) <= a
<1>1. \E x \in U : \A y \in U : x <= y
  BY LeastOf
<1>2. QED BY <1>1 DEF Min

-----------------------------------------------------------------------------
(* Decisions: how many tokens several texts have *)

\* There are m numbers from 1 to m.
LEMMA CountTo == \A m \in Nat : IsFiniteSet(1 .. m) /\ Cardinality(1 .. m) = m
<1> SUFFICES ASSUME NEW m \in Nat PROVE IsFiniteSet(1 .. m) /\ Cardinality(1 .. m) = m
  OBVIOUS
<1>1. IsFiniteSet(1 .. m) /\ Cardinality(1 .. m) = IF 1 > m THEN 0 ELSE m - 1 + 1
  BY FS_Interval
<1>2. QED BY <1>1

CellsTo(s, k) == UNION {{i} \X (1 .. s[i]) : i \in 1 .. k}

\* The first k of n texts have the tokens of the first k - 1 and their own.
LEMMA CellsAdd ==
  ASSUME NEW n \in Nat, NEW s, \A i \in 1 .. n : s[i] \in Nat, NEW k \in 1 .. n, IsFiniteSet(CellsTo(s, k - 1))
  PROVE  IsFiniteSet(CellsTo(s, k)) /\ Cardinality(CellsTo(s, k)) = Cardinality(CellsTo(s, k - 1)) + s[k]
<1> DEFINE A == CellsTo(s, k - 1)
           B == {k} \X (1 .. s[k])
<1>1. CellsTo(s, k) = A \union B
  <2>1. 1 .. k = (1 .. k - 1) \union {k}
    OBVIOUS
  <2>2. QED BY <2>1 DEF CellsTo
<1>2. A \intersect B = {}
  <2>1. \A i \in 1 .. k - 1 : i # k
    OBVIOUS
  <2>2. QED BY <2>1 DEF CellsTo
<1>3. s[k] \in Nat
  OBVIOUS
<1>4. IsFiniteSet(1 .. s[k]) /\ Cardinality(1 .. s[k]) = s[k]
  BY <1>3, CountTo
<1>5. IsFiniteSet({k}) /\ Cardinality({k}) = 1
  BY FS_Singleton
<1>6. IsFiniteSet(B) /\ Cardinality(B) = s[k]
  <2>1. IsFiniteSet(B) /\ Cardinality(B) = Cardinality({k}) * Cardinality(1 .. s[k])
    BY <1>4, <1>5, FS_Product
  <2>2. QED BY <1>3, <1>4, <1>5, <2>1
<1>7. IsFiniteSet(A)
  OBVIOUS
<1>8. Cardinality(A) \in Nat
  BY <1>7, FS_CardinalityType
<1> HIDE DEF A, B
<1>9. /\ IsFiniteSet(A \union B)
      /\ Cardinality(A \union B) = Cardinality(A) + Cardinality(B) - Cardinality(A \intersect B)
  BY <1>6, <1>7, FS_Union
<1>10. Cardinality(A \intersect B) = 0
  BY <1>2, FS_EmptySet
<1>11. Cardinality(A \union B) = Cardinality(A) + s[k]
  BY <1>3, <1>6, <1>8, <1>9, <1>10
<1>12. QED BY <1>1, <1>9, <1>11 DEF A

\* The tokens of the first texts are finitely many, and those of none are none.
LEMMA CellsFinite ==
  ASSUME NEW n \in Nat, NEW s, \A i \in 1 .. n : s[i] \in Nat
  PROVE  /\ \A k \in 0 .. n : IsFiniteSet(CellsTo(s, k)) /\ Cardinality(CellsTo(s, k)) \in Nat
         /\ Cardinality(CellsTo(s, 0)) = 0
         /\ \A k \in 1 .. n : Cardinality(CellsTo(s, k)) = Cardinality(CellsTo(s, k - 1)) + s[k]
<1> DEFINE S == {k \in 0 .. n : IsFiniteSet(CellsTo(s, k))}
<1>1. CellsTo(s, 0) = {}
  <2>1. 1 .. 0 = {}
    OBVIOUS
  <2>2. QED BY <2>1 DEF CellsTo
<1>2. IsFiniteSet(CellsTo(s, 0)) /\ Cardinality(CellsTo(s, 0)) = 0
  BY <1>1, FS_EmptySet
<1>3. 0 \in S
  BY <1>2
<1>4. ASSUME NEW k \in 0 .. n - 1, k \in S PROVE k + 1 \in S
  <2>1. k + 1 \in 1 .. n /\ k + 1 - 1 = k
    OBVIOUS
  <2>2. IsFiniteSet(CellsTo(s, k + 1 - 1))
    BY <1>4, <2>1
  <2>3. IsFiniteSet(CellsTo(s, k + 1))
    BY <2>1, <2>2, CellsAdd
  <2>4. QED BY <2>1, <2>3
<1>5. \A k \in 0 .. n : IsFiniteSet(CellsTo(s, k))
  <2> HIDE DEF S
  <2>1. 0 \in 0 .. n
    OBVIOUS
  <2>2. 0 .. n \subseteq S
    BY <1>3, <1>4, <2>1, UpTo
  <2>3. QED BY <2>2 DEF S
<1>6. \A k \in 0 .. n : Cardinality(CellsTo(s, k)) \in Nat
  BY <1>5, FS_CardinalityType
<1>7. ASSUME NEW k \in 1 .. n PROVE Cardinality(CellsTo(s, k)) = Cardinality(CellsTo(s, k - 1)) + s[k]
  <2>1. k - 1 \in 0 .. n
    OBVIOUS
  <2>2. IsFiniteSet(CellsTo(s, k - 1))
    BY <1>5, <2>1
  <2>3. QED BY <2>2, CellsAdd
<1>8. QED BY <1>2, <1>5, <1>6, <1>7

\* Total() of the texts up to the k-th.
LEMMA TotalIs ==
  ASSUME NEW n \in Nat, NEW s \in [1 .. n -> Nat]
  PROVE  /\ Total(s) \in Nat /\ Total(s) = Total(SubSeq(s, 1, n))
         /\ Total(SubSeq(s, 1, 0)) = 0
         /\ \A k \in 0 .. n : Total(SubSeq(s, 1, k)) \in Nat
         /\ \A k \in 1 .. n : Total(SubSeq(s, 1, k)) = Total(SubSeq(s, 1, k - 1)) + s[k]
<1>1. \A i \in 1 .. n : s[i] \in Nat
  OBVIOUS
<1>2. ASSUME NEW k \in 0 .. n PROVE Total(SubSeq(s, 1, k)) = Cardinality(CellsTo(s, k))
  <2> DEFINE t == SubSeq(s, 1, k)
  <2>1. DOMAIN t = 1 .. k /\ \A i \in 1 .. k : t[i] = s[i]
    <3>1. s \in Seq(Nat) /\ Len(s) = n
      OBVIOUS
    <3>2. Len(t) = k
      BY <3>1
    <3>3. \A i \in 1 .. k : t[i] = s[i]
      BY <3>1
    <3>4. t \in Seq(Nat)
      <4>1. \A i \in 1 .. k : i \in 1 .. n
        OBVIOUS
      <4>2. QED BY <3>1, <4>1
    <3>5. QED BY <3>2, <3>3, <3>4
  <2> HIDE DEF t
  <2>2. UNION {{i} \X (1 .. t[i]) : i \in DOMAIN t} = CellsTo(s, k)
    BY <2>1 DEF CellsTo
  <2>3. QED BY <2>2 DEF Total, t
<1>3. Total(s) = Cardinality(CellsTo(s, n))
  BY DEF Total, CellsTo
<1>4. /\ \A k \in 0 .. n : Cardinality(CellsTo(s, k)) \in Nat
      /\ Cardinality(CellsTo(s, 0)) = 0
      /\ \A k \in 1 .. n : Cardinality(CellsTo(s, k)) = Cardinality(CellsTo(s, k - 1)) + s[k]
  BY <1>1, CellsFinite
<1>5. 0 \in 0 .. n /\ n \in 0 .. n /\ \A k \in 1 .. n : k \in 0 .. n /\ k - 1 \in 0 .. n
  OBVIOUS
<1>6. QED BY <1>2, <1>3, <1>4, <1>5

-----------------------------------------------------------------------------
(* Decisions: what build_sequence() leaves of a question *)

\* Every option keeps its marker at least.
LEMMA CutIs ==
  ASSUME NEW n \in Nat, NEW options \in [1 .. n -> Nat], NEW headMax \in Nat
  PROVE  /\ CutOptions(headMax, options) \in [1 .. n -> Nat]
         /\ \A i \in 1 .. n : CutOptions(headMax, options)[i] >= 1
<1> DEFINE whole == [i \in DOMAIN options |-> 1 + Least(options[i], 48)]
           per == Most(4, (headMax - 16) \div Most(1, Len(options)))
           cut == CutOptions(headMax, options)
<1>1. \A m \in Nat : 1 + Least(m, 48) \in Nat /\ 1 + Least(m, 48) >= 1
  BY DEF Least
<1>2. per \in Nat /\ per >= 4
  <2>1. Len(options) = n /\ Most(1, n) \in Nat /\ Most(1, n) > 0
    BY DEF Most
  <2>2. \A a \in Int, b \in Nat : b > 0 => a \div b \in Int
    OBVIOUS
  <2>3. headMax - 16 \in Int
    OBVIOUS
  <2>4. (headMax - 16) \div Most(1, Len(options)) \in Int
    BY <2>1, <2>2, <2>3
  <2>5. \A a \in Int : Most(4, a) \in Nat /\ Most(4, a) >= 4
    BY DEF Most
  <2>6. QED BY <2>4, <2>5
<1>3. DOMAIN whole = 1 .. n /\ \A i \in 1 .. n : whole[i] \in Nat /\ whole[i] >= 1
  BY <1>1
<1>4. cut = whole \/ cut = [i \in DOMAIN options |-> Least(whole[i], per)]
  BY DEF CutOptions
<1> HIDE DEF whole, per, cut
<1>5. \A a, b \in Nat : a >= 1 /\ b >= 4 => Least(a, b) \in Nat /\ Least(a, b) >= 1
  BY DEF Least
<1>6. CASE cut = [i \in DOMAIN options |-> Least(whole[i], per)]
  <2>1. \A i \in 1 .. n : Least(whole[i], per) \in Nat /\ Least(whole[i], per) >= 1
    BY <1>2, <1>3, <1>5
  <2>2. QED BY <1>6, <2>1 DEF cut
<1>7. CASE cut = whole
  <2>1. whole = [i \in 1 .. n |-> whole[i]]
    BY DEF whole
  <2>2. QED BY <1>3, <1>7, <2>1 DEF cut
<1>8. QED BY <1>4, <1>6, <1>7

\* Markers ascend from one option to the next, and the n first of them are inside.
MarkersOf(opts, kept) == [i \in DOMAIN opts |-> 2 + kept + Total(SubSeq(opts, 1, i - 1))]

\* The next marker comes after the text of the option before, so no two are at one place.
LEMMA MarkersIs ==
  ASSUME NEW n \in Nat, NEW opts \in [1 .. n -> Nat], \A i \in 1 .. n : opts[i] >= 1, NEW kept \in Nat
  PROVE  /\ MarkersOf(opts, kept) \in [1 .. n -> Nat]
         /\ \A k \in 2 .. n : MarkersOf(opts, kept)[k] = MarkersOf(opts, kept)[k - 1] + opts[k - 1]
         /\ \A j, k \in 1 .. n : j < k => MarkersOf(opts, kept)[j] < MarkersOf(opts, kept)[k]
<1> DEFINE T(k) == Total(SubSeq(opts, 1, k))
           places == MarkersOf(opts, kept)
<1>1. /\ \A k \in 0 .. n : T(k) \in Nat
      /\ \A k \in 1 .. n : T(k) = T(k - 1) + opts[k]
  BY TotalIs
<1>2. DOMAIN places = 1 .. n /\ \A i \in 1 .. n : places[i] = 2 + kept + T(i - 1)
  BY DEF MarkersOf
<1> HIDE DEF T
<1>3. \A i \in 1 .. n : i - 1 \in 0 .. n /\ places[i] \in Nat
  <2>1. \A i \in 1 .. n : i - 1 \in 0 .. n
    OBVIOUS
  <2>2. \A i \in 1 .. n : T(i - 1) \in Nat
    BY <1>1, <2>1
  <2>3. ASSUME NEW i \in 1 .. n PROVE places[i] \in Nat
    <3>1. T(i - 1) \in Nat
      BY <2>2
    <3>2. 2 + kept + T(i - 1) \in Nat
      BY <3>1
    <3>3. QED BY <1>2, <3>2
  <2>4. QED BY <2>1, <2>3
<1>4. places \in [1 .. n -> Nat]
  <2>1. places = [i \in 1 .. n |-> places[i]]
    BY DEF MarkersOf
  <2> HIDE DEF places
  <2>2. QED BY <1>3, <2>1
<1>5. ASSUME NEW k \in 2 .. n PROVE places[k] = places[k - 1] + opts[k - 1]
  <2>1. k \in 1 .. n /\ k - 1 \in 1 .. n /\ k - 1 - 1 \in 0 .. n
    OBVIOUS
  <2>2. places[k] = 2 + kept + T(k - 1) /\ places[k - 1] = 2 + kept + T(k - 1 - 1)
    BY <1>2, <2>1
  <2>3. T(k - 1) = T(k - 1 - 1) + opts[k - 1] /\ T(k - 1 - 1) \in Nat /\ opts[k - 1] \in Nat
    BY <1>1, <2>1
  <2> DEFINE upTo == T(k - 1)
             before == T(k - 1 - 1)
             length == opts[k - 1]
  <2>4. upTo = before + length /\ before \in Nat /\ length \in Nat
    BY <2>3
  <2>5. places[k] = 2 + kept + upTo /\ places[k - 1] = 2 + kept + before
    BY <2>2
  <2> HIDE DEF places, upTo, before, length
  <2>6. 2 + kept + upTo = (2 + kept + before) + length
    BY <2>4
  <2>7. places[k] = places[k - 1] + length
    BY <2>5, <2>6
  <2>8. QED BY <2>7 DEF length
<1> HIDE DEF places
<1>6. ASSUME NEW j \in 1 .. n, NEW k \in 1 .. n, j < k PROVE places[j] < places[k]
  <2> DEFINE S == {x \in j + 1 .. n : places[j] < places[x]}
  <2>1. j + 1 \in S
    <3>1. j + 1 \in 2 .. n /\ j + 1 - 1 = j /\ j + 1 \in 1 .. n /\ j + 1 \in j + 1 .. n
      BY <1>6
    <3>2. places[j + 1] = places[j] + opts[j] /\ opts[j] \in Nat /\ opts[j] >= 1 /\ places[j] \in Nat
      BY <1>3, <1>5, <3>1
    <3>3. places[j] < places[j + 1]
      BY <3>2
    <3>4. QED BY <3>1, <3>3
  <2>2. ASSUME NEW x \in j + 1 .. n - 1, x \in S PROVE x + 1 \in S
    <3>1. x + 1 \in 2 .. n /\ x + 1 - 1 = x /\ x \in 1 .. n /\ x + 1 \in j + 1 .. n
      OBVIOUS
    <3>2. places[x + 1] = places[x] + opts[x] /\ opts[x] \in Nat /\ opts[x] >= 1 /\ places[x] \in Nat /\ places[j] \in Nat
      BY <1>3, <1>5, <3>1
    <3>3. places[j] < places[x]
      BY <2>2
    <3>4. places[j] < places[x + 1]
      BY <3>2, <3>3
    <3>5. QED BY <3>1, <3>4
  <2>3. j + 1 \in 0 .. n /\ k \in j + 1 .. n
    BY <1>6
  <2> HIDE DEF S
  <2>4. j + 1 .. n \subseteq S
    BY <2>1, <2>2, <2>3, UpTo
  <2>5. k \in S
    BY <2>3, <2>4
  <2>6. QED BY <2>5 DEF S
<1>7. QED BY <1>4, <1>5, <1>6 DEF places

\* What can be said of s, made of n options and a state for an input of maxLen tokens.
BuiltRight(s, n, maxLen, state) ==
  /\ s.options \in [1 .. n -> Nat]
  /\ \E m \in 0 .. n : s.markers \in [1 .. m -> Nat]
  /\ \A k \in DOMAIN s.markers : k > 1 => s.markers[k] = s.markers[k - 1] + 1 + s.options[k - 1]
  /\ \A j, k \in DOMAIN s.markers : j < k => s.markers[j] < s.markers[k]
  /\ s.ids \in Nat /\ s.ids <= maxLen
  /\ ~s.truncated /\ state > 0 => s.state = state /\ s.lost = 0

\* build_sequence() of any sizes: what is not reported as truncated is whole.
LEMMA BuiltIs ==
  ASSUME NEW maxLen \in Nat, NEW headMax \in Nat, NEW head \in Nat, NEW n \in Nat,
         NEW options \in [1 .. n -> Nat], NEW state \in Nat
  PROVE  BuiltRight(BuildSequence(maxLen, headMax, head, options, state), n, maxLen, state)
<1> DEFINE opts == CutOptions(headMax, options)
           kept == Least(head, Most(8, headMax - Total(opts)))
           length == 3 + kept + Total(opts)
           read == Least(state, Room(maxLen, length))
           places == MarkersOf(opts, kept)
           inside == Cardinality({i \in DOMAIN opts : places[i] < maxLen})
           s == BuildSequence(maxLen, headMax, head, options, state)
<1>1. s = [head |-> kept,
      options |-> [i \in DOMAIN opts |-> opts[i] - 1],
      markers |-> SubSeq(places, 1, inside),
      state |-> read,
      ids |-> Least(length + read + 1, maxLen),
      lost |-> Most(0, length + read + 1 - maxLen),
      truncated |-> state > Room(maxLen, length)]
  BY DEF BuildSequence, MarkersOf
<1>2. opts \in [1 .. n -> Nat] /\ \A i \in 1 .. n : opts[i] >= 1
  BY CutIs
<1> HIDE DEF opts
<1>3. Total(opts) \in Nat
  BY <1>2, TotalIs
<1>4. kept \in Nat
  <2>1. \A t \in Nat : Most(8, headMax - t) \in Nat
    BY DEF Most
  <2>2. \A m \in Nat : Least(head, m) \in Nat
    BY DEF Least
  <2>3. QED BY <1>3, <2>1, <2>2
<1> HIDE DEF kept
<1>5. length \in Nat
  BY <1>3, <1>4
<1> HIDE DEF length
<1>6. Room(maxLen, length) \in Nat /\ (Room(maxLen, length) = 0 \/ Room(maxLen, length) = maxLen - length - 1)
  BY <1>5 DEF Room, Most
<1>7. read \in Nat /\ (state <= Room(maxLen, length) => read = state)
  BY <1>6 DEF Least
<1>8. s.ids \in Nat /\ s.ids <= maxLen
  <2>1. \A m \in Nat : Least(m, maxLen) \in Nat /\ Least(m, maxLen) <= maxLen
    BY DEF Least
  <2> HIDE DEF read
  <2>2. length + read + 1 \in Nat
    BY <1>5, <1>7
  <2>3. s.ids = Least(length + read + 1, maxLen)
    BY <1>1
  <2>4. QED BY <2>1, <2>2, <2>3
<1>9. ~s.truncated /\ state > 0 => s.state = state /\ s.lost = 0
  <2> SUFFICES ASSUME ~s.truncated, state > 0 PROVE s.state = state /\ s.lost = 0
    OBVIOUS
  <2>1. s.truncated = (state > Room(maxLen, length)) /\ s.state = read /\ s.lost = Most(0, length + read + 1 - maxLen)
    BY <1>1
  <2>2. state <= Room(maxLen, length)
    <3>1. ~ (state > Room(maxLen, length))
      BY <2>1
    <3>2. QED BY <1>6, <3>1
  <2>3. read = state
    BY <1>7, <2>2
  <2>4. Room(maxLen, length) = maxLen - length - 1
    BY <1>6, <2>2
  <2>5. length + state + 1 - maxLen <= 0
    BY <1>5, <2>2, <2>4
  <2>6. Most(0, length + state + 1 - maxLen) = 0
    BY <2>5, <1>5 DEF Most
  <2> HIDE DEF read, s
  <2>7. QED BY <2>1, <2>3, <2>6
<1>10. s.options \in [1 .. n -> Nat] /\ \A i \in 1 .. n : s.options[i] = opts[i] - 1
  <2>1. s.options = [i \in 1 .. n |-> opts[i] - 1]
    BY <1>1, <1>2
  <2>2. \A i \in 1 .. n : opts[i] - 1 \in Nat
    BY <1>2
  <2> HIDE DEF s
  <2>3. QED BY <2>1, <2>2
<1>11. /\ places \in [1 .. n -> Nat]
       /\ \A k \in 2 .. n : places[k] = places[k - 1] + opts[k - 1]
       /\ \A j, k \in 1 .. n : j < k => places[j] < places[k]
  BY <1>2, <1>4, MarkersIs
<1> HIDE DEF places
<1>12. inside \in 0 .. n
  <2> DEFINE U == {i \in DOMAIN opts : places[i] < maxLen}
  <2>1. U \subseteq 1 .. n
    BY <1>2
  <2>2. IsFiniteSet(1 .. n) /\ Cardinality(1 .. n) = n
    BY CountTo
  <2> HIDE DEF U
  <2>3. IsFiniteSet(U) /\ Cardinality(U) <= n
    <3>1. U \in SUBSET (1 .. n)
      BY <2>1
    <3>2. IsFiniteSet(U) /\ Cardinality(U) <= Cardinality(1 .. n)
      BY <2>2, <3>1, FS_Subset
    <3>3. QED BY <2>2, <3>2
  <2>4. Cardinality(U) \in Nat
    BY <2>3, FS_CardinalityType
  <2>5. Cardinality(U) \in 0 .. n
    BY <2>3, <2>4
  <2>6. QED BY <2>5 DEF U
<1> HIDE DEF inside
<1>13. s.markers \in [1 .. inside -> Nat] /\ \A k \in 1 .. inside : s.markers[k] = places[k]
  <2> DEFINE marks == SubSeq(places, 1, inside)
  <2>1. places \in Seq(Nat) /\ Len(places) = n
    BY <1>11
  <2>2. Len(marks) = inside
    BY <1>12, <2>1
  <2>3. \A k \in 1 .. inside : marks[k] = places[k]
    BY <1>12, <2>1
  <2>4. marks \in Seq(Nat)
    <3>1. \A k \in 1 .. inside : k \in 1 .. n
      BY <1>12
    <3>2. QED BY <1>12, <2>1, <3>1
  <2> HIDE DEF marks
  <2>5. marks \in [1 .. inside -> Nat]
    BY <2>2, <2>4
  <2> HIDE DEF s
  <2>6. s.markers = marks
    BY <1>1 DEF marks
  <2>7. QED BY <2>3, <2>5, <2>6
<1> HIDE DEF s
<1>14. \A k \in 1 .. inside : k \in 1 .. n
  BY <1>12
<1>15. ASSUME NEW k \in DOMAIN s.markers, k > 1 PROVE s.markers[k] = s.markers[k - 1] + 1 + s.options[k - 1]
  <2>1. k \in 1 .. inside /\ k - 1 \in 1 .. inside /\ k \in 2 .. n /\ k - 1 \in 1 .. n
    <3>1. k \in 1 .. inside
      BY <1>13
    <3>2. QED BY <1>12, <1>15, <3>1
  <2>2. places[k] = places[k - 1] + opts[k - 1] /\ s.options[k - 1] = opts[k - 1] - 1
    BY <1>10, <1>11, <2>1
  <2>3. places[k - 1] \in Nat /\ opts[k - 1] \in Nat
    BY <1>2, <1>11, <2>1
  <2>4. s.markers[k] = places[k] /\ s.markers[k - 1] = places[k - 1]
    BY <1>13, <2>1
  <2>5. \A a, o \in Nat : a + o = a + 1 + (o - 1)
    OBVIOUS
  <2>6. places[k - 1] + opts[k - 1] = places[k - 1] + 1 + (opts[k - 1] - 1)
    BY <2>3, <2>5
  <2>7. QED BY <2>2, <2>4, <2>6
<1>16. ASSUME NEW j \in DOMAIN s.markers, NEW k \in DOMAIN s.markers, j < k PROVE s.markers[j] < s.markers[k]
  <2>1. j \in 1 .. inside /\ k \in 1 .. inside
    BY <1>13
  <2>2. places[j] < places[k]
    BY <1>11, <1>14, <1>16, <2>1
  <2>3. QED BY <1>13, <2>1, <2>2
<1>17. BuiltRight(s, n, maxLen, state)
  BY <1>8, <1>9, <1>10, <1>12, <1>13, <1>15, <1>16 DEF BuiltRight
<1>18. QED BY <1>17 DEF s

\* Neither the head nor an option of s is cut.
Uncut(s, head, options) == s.head = head /\ s.options = options

\* What check_capacity() lets through is not cut: neither the head nor an option.
LEMMA BuiltWhole ==
  ASSUME NEW maxLen \in Nat, HeadMax \in Nat, NEW head \in Nat, NEW n \in Nat,
         NEW options \in [1 .. n -> Nat], NEW state \in Nat, OptionsWhole(options, head)
  PROVE  Uncut(BuildSequence(maxLen, HeadMax, head, options, state), head, options)
<1> DEFINE whole == [i \in 1 .. n |-> options[i] + 1]
           opts == CutOptions(HeadMax, options)
           kept == Least(head, Most(8, HeadMax - Total(opts)))
           s == BuildSequence(maxLen, HeadMax, head, options, state)
<1>0. /\ \A i \in 1 .. n : options[i] <= 48
      /\ HeadMax - Total([i \in DOMAIN options |-> options[i] + 1]) >= Most(16, head)
  BY DEF OptionsWhole
<1>1. whole \in [1 .. n -> Nat] /\ Total(whole) \in Nat
  <2>1. whole \in [1 .. n -> Nat]
    OBVIOUS
  <2> HIDE DEF whole
  <2>2. QED BY <2>1, TotalIs
<1>2. HeadMax - Total(whole) >= 16 /\ HeadMax - Total(whole) >= head
  <2>1. [i \in DOMAIN options |-> options[i] + 1] = whole
    OBVIOUS
  <2>2. HeadMax - Total(whole) >= Most(16, head)
    BY <1>0, <2>1
  <2> HIDE DEF whole
  <2>3. \A t \in Nat : HeadMax - t >= Most(16, head) => HeadMax - t >= 16 /\ HeadMax - t >= head
    BY DEF Most
  <2>4. QED BY <1>1, <2>2, <2>3
<1>3. opts = whole
  <2>1. [i \in DOMAIN options |-> 1 + Least(options[i], 48)] = whole
    <3>1. \A i \in 1 .. n : 1 + Least(options[i], 48) = options[i] + 1
      BY <1>0 DEF Least
    <3>2. QED BY <3>1
  <2>2. ~ (HeadMax - Total(whole) < 16)
    <3> HIDE DEF whole
    <3>1. \A t \in Nat : HeadMax - t >= 16 => ~ (HeadMax - t < 16)
      OBVIOUS
    <3>2. QED BY <1>1, <1>2, <3>1
  <2> HIDE DEF whole
  <2>3. QED BY <2>1, <2>2 DEF CutOptions
<1>4. s.head = kept /\ s.options = [i \in DOMAIN opts |-> opts[i] - 1]
  BY DEF BuildSequence
<1> HIDE DEF opts, s
<1>5. kept = head
  <2>1. \A t \in Nat : HeadMax - t >= head /\ HeadMax - t >= 16 => Least(head, Most(8, HeadMax - t)) = head
    BY DEF Least, Most
  <2> HIDE DEF whole
  <2>2. QED BY <1>1, <1>2, <1>3, <2>1
<1> HIDE DEF kept
<1>6. [i \in DOMAIN opts |-> opts[i] - 1] = options
  <2>1. \A i \in 1 .. n : whole[i] - 1 = options[i]
    OBVIOUS
  <2>2. DOMAIN whole = 1 .. n /\ options = [i \in 1 .. n |-> options[i]]
    OBVIOUS
  <2> HIDE DEF whole
  <2>3. QED BY <1>3, <2>1, <2>2
<1>7. QED BY <1>4, <1>5, <1>6 DEF s, Uncut

-----------------------------------------------------------------------------
(* Decisions: the options of a question *)

\* A set of numbers has one of every rank.
LEMMA NthOf ==
  ASSUME NEW n \in Nat, NEW K, K \subseteq 1 .. n
  PROVE  /\ Cardinality(K) \in Nat /\ (K # {} => Cardinality(K) # 0)
         /\ \A k \in 1 .. Cardinality(K) : \E i \in K : Cardinality({j \in K : j <= i}) = k
<1> DEFINE R(x) == Cardinality({j \in K : j <= x})
<1>1. IsFiniteSet(K)
  <2>1. IsFiniteSet(1 .. n) /\ K \in SUBSET (1 .. n)
    BY CountTo
  <2>2. QED BY <2>1, FS_Subset
<1>2. Cardinality(K) \in Nat /\ (K # {} => Cardinality(K) # 0)
  BY <1>1, FS_CardinalityType, FS_EmptySet
<1>3. ASSUME NEW x PROVE IsFiniteSet({j \in K : j <= x}) /\ R(x) \in Nat
  <2>1. {j \in K : j <= x} \in SUBSET K
    OBVIOUS
  <2>2. IsFiniteSet({j \in K : j <= x})
    BY <1>1, <2>1, FS_Subset
  <2>3. QED BY <2>2, FS_CardinalityType
<1>4. R(0) = 0
  <2>1. \A j \in K : ~ (j <= 0)
    <3>1. \A j \in 1 .. n : ~ (j <= 0)
      OBVIOUS
    <3>2. QED BY <3>1
  <2>3. {j \in K : j <= 0} = {}
    BY <2>1
  <2>4. QED BY <2>3, FS_EmptySet
<1>5. R(n) = Cardinality(K)
  <2>0. \A j \in K : j <= n
    <3>1. \A j \in 1 .. n : j <= n
      OBVIOUS
    <3>2. QED BY <3>1
  <2>1. {j \in K : j <= n} = K
    BY <2>0
  <2>2. QED BY <2>1
<1>6. ASSUME NEW x \in 1 .. n PROVE IF x \in K THEN R(x) = R(x - 1) + 1 ELSE R(x) = R(x - 1)
  <2> DEFINE U == {j \in K : j <= x - 1}
  <2>1. x \notin U /\ x \in Int
    OBVIOUS
  <2>2. \A j \in 1 .. n : j <= x <=> j <= x - 1 \/ j = x
    OBVIOUS
  <2>3. CASE x \in K
    <3>1. {j \in K : j <= x} = U \union {x}
      BY <2>2, <2>3
    <3>2. IsFiniteSet(U)
      BY <1>3
    <3> HIDE DEF U
    <3>3. Cardinality(U \union {x}) = Cardinality(U) + 1
      BY <2>1, <3>2, FS_AddElement
    <3>4. QED BY <2>3, <3>1, <3>3 DEF U
  <2>4. CASE x \notin K
    <3>1. {j \in K : j <= x} = U
      BY <2>2, <2>4
    <3>2. QED BY <2>4, <3>1
  <2>5. QED BY <2>3, <2>4
<1> HIDE DEF R
<1>7. ASSUME NEW k \in 1 .. Cardinality(K) PROVE \E i \in K : R(i) = k
  <2> DEFINE T == {x \in 0 .. n : R(x) >= k}
  <2>1. k \in Nat /\ k >= 1 /\ k <= Cardinality(K)
    BY <1>2
  <2>2. n \in T
    <3>1. n \in 0 .. n /\ Cardinality(K) >= k
      BY <1>2, <2>1
    <3>2. QED BY <1>5, <3>1
  <2>3. T \subseteq Nat
    OBVIOUS
  <2>4. PICK x \in T : \A y \in T : x <= y
    <3> HIDE DEF T
    <3>1. QED BY <2>2, <2>3, LeastOf
  <2>5. x \in 0 .. n /\ R(x) >= k /\ R(x) \in Nat
    BY <1>3
  <2>6. x # 0
    BY <1>4, <2>1, <2>5
  <2>7. x \in 1 .. n /\ x - 1 \in 0 .. n /\ ~ (x <= x - 1)
    BY <2>5, <2>6
  <2>8. R(x - 1) \in Nat /\ ~ (R(x - 1) >= k)
    BY <1>3, <2>4, <2>7
  <2>9. x \in K /\ R(x) = R(x - 1) + 1
    BY <1>6, <2>5, <2>7, <2>8
  <2>10. R(x) = k
    BY <2>1, <2>5, <2>8, <2>9
  <2>11. QED BY <2>9, <2>10
<1>8. QED BY <1>2, <1>7 DEF R

\* The options are so many, each with a number of tokens; an answer's labels are their keys.
RenderedAs(d, n) ==
  /\ DOMAIN RenderOptions(d) = 1 .. n /\ Len(RenderOptions(d)) = n
  /\ \A i \in 1 .. n : RenderOptions(d)[i].size \in Nat /\ Labels(d)[i] = RenderOptions(d)[i].key
  /\ d.type = "choice" => n # 0

\* The entries of a dictionary, each once.
LEMMA FirstOfIs ==
  ASSUME NEW n \in Nat, NEW entries, DOMAIN entries = 1 .. n, \A i \in 1 .. n : entries[i].size \in Nat
  PROVE  \E m \in Nat : /\ DOMAIN FirstOf(entries) = 1 .. m /\ (n # 0 => m # 0)
                        /\ \A k \in 1 .. m : FirstOf(entries)[k].size \in Nat
<1> DEFINE first == {i \in DOMAIN entries : \A j \in 1 .. (i - 1) : entries[j].key # entries[i].key}
           nth(k) == CHOOSE i \in first : Cardinality({j \in first : j <= i}) = k
<1>1. first \subseteq 1 .. n
  OBVIOUS
<1>2. n # 0 => first # {}
  <2> SUFFICES ASSUME n # 0 PROVE 1 \in first
    OBVIOUS
  <2>1. 1 \in DOMAIN entries /\ 1 .. (1 - 1) = {}
    OBVIOUS
  <2>2. QED BY <2>1
<1>3. FirstOf(entries) = [k \in 1 .. Cardinality(first) |-> entries[nth(k)]]
  BY DEF FirstOf
<1> HIDE DEF first
<1>4. /\ Cardinality(first) \in Nat /\ (first # {} => Cardinality(first) # 0)
      /\ \A k \in 1 .. Cardinality(first) : \E i \in first : Cardinality({j \in first : j <= i}) = k
  BY <1>1, NthOf
<1>5. ASSUME NEW k \in 1 .. Cardinality(first) PROVE FirstOf(entries)[k].size \in Nat
  <2>1. nth(k) \in first
    BY <1>4
  <2> HIDE DEF nth
  <2>2. FirstOf(entries)[k] = entries[nth(k)]
    BY <1>3
  <2>3. QED BY <1>1, <2>1, <2>2
<1>6. DOMAIN FirstOf(entries) = 1 .. Cardinality(first)
  BY <1>3
<1>7. QED BY <1>2, <1>4, <1>5, <1>6

\* One side of a noul question.
LEMMA SideOfIs ==
  ASSUME NEW d, DefinitionOk(d), NEW side
  PROVE  SideOf(d, side).key = side /\ SideOf(d, side).size \in Nat
<1> DEFINE given == {i \in DOMAIN d.labels : Lower(d.labels[i].key) = side}
           last == CHOOSE i \in given : \A j \in given : j <= i
<1>1. SideOf(d, side) = [key |-> side, size |-> IF given = {} \/ d.labels[last].size = 0 THEN 8 ELSE d.labels[last].size]
  BY DEF SideOf
<1>2. ASSUME given # {} PROVE d.labels[last].size \in Nat
  <2>1. DOMAIN d.labels = 1 .. Len(d.labels) /\ Len(d.labels) \in Nat
    BY DEF DefinitionOk
  <2>2. given \subseteq 1 .. Len(d.labels) /\ given \in SUBSET (1 .. Len(d.labels))
    BY <2>1
  <2>3. given \subseteq Nat
    BY <2>1, <2>2
  <2>4. IsFiniteSet(1 .. Len(d.labels))
    BY <2>1, CountTo
  <2>5. given \subseteq DOMAIN d.labels
    OBVIOUS
  <2> HIDE DEF given
  <2>6. IsFiniteSet(given)
    BY <2>2, <2>4, FS_Subset
  <2>7. \E i \in given : \A j \in given : j <= i
    BY <1>2, <2>3, <2>6, GreatestIs
  <2>8. last \in given
    BY <2>7
  <2> HIDE DEF last
  <2>9. QED BY <2>5, <2>8 DEF DefinitionOk
<1> HIDE DEF given, last
<1>3. QED BY <1>1, <1>2

\* Every question that may be asked has options and as many labels.
LEMMA RenderIs ==
  ASSUME NEW d, DefinitionOk(d), CheckQuestion(d)
  PROVE  \E n \in Nat : RenderedAs(d, n)
<1> DEFINE options == RenderOptions(d)
           len == Len(d.labels)
<1>1. /\ DOMAIN d.labels = 1 .. len /\ len \in Nat
      /\ \A i \in 1 .. len : d.labels[i] = [key |-> d.labels[i].key, size |-> d.labels[i].size] /\ d.labels[i].size \in Nat
  <2>1. DOMAIN d.labels = 1 .. len /\ len \in Nat
    BY DEF DefinitionOk
  <2> HIDE DEF len
  <2>2. \A i \in DOMAIN d.labels : d.labels[i] = [key |-> d.labels[i].key, size |-> d.labels[i].size] /\ d.labels[i].size \in Nat
    BY DEF DefinitionOk
  <2>3. QED BY <2>1, <2>2
<1>2. CASE d.type = "choice"
  <2>1. options = FirstOf(d.labels)
    BY <1>2 DEF RenderOptions
  <2>2. len # 0
    <3>1. d.labels # <<>> /\ d.labels \in Seq({d.labels[i] : i \in DOMAIN d.labels})
      BY <1>2 DEF CheckQuestion, DefinitionOk
    <3>2. QED BY <3>1
  <2> HIDE DEF options, len
  <2>3. PICK n \in Nat : DOMAIN options = 1 .. n /\ n # 0 /\ \A k \in 1 .. n : options[k].size \in Nat
    BY <1>1, <2>1, <2>2, FirstOfIs
  <2>4. Len(options) = n
    <3>1. options = [i \in 1 .. n |-> options[i]]
      BY <2>1, <2>3 DEF FirstOf
    <3>2. Len([i \in 1 .. n |-> options[i]]) = n
      OBVIOUS
    <3>3. QED BY <3>1, <3>2
  <2>5. \A i \in 1 .. n : Labels(d)[i] = options[i].key
    BY <1>2, <2>3 DEF Labels, options
  <2>6. RenderedAs(d, n)
    BY <2>3, <2>4, <2>5 DEF RenderedAs, options
  <2>7. QED BY <2>6
<1>3. CASE d.type = "score"
  <2>1. options = [i \in 1 .. len |-> [d.labels[i] EXCEPT !.key = i - 1]]
    BY <1>1, <1>3 DEF RenderOptions
  <2>2. \A i \in 1 .. len : [d.labels[i] EXCEPT !.key = i - 1].size = d.labels[i].size
    <3> SUFFICES ASSUME NEW i \in 1 .. len PROVE [d.labels[i] EXCEPT !.key = i - 1].size = d.labels[i].size
      OBVIOUS
    <3>1. d.labels[i] = [key |-> d.labels[i].key, size |-> d.labels[i].size]
      BY <1>1
    <3>2. DOMAIN [key |-> d.labels[i].key, size |-> d.labels[i].size] = {"key", "size"}
      OBVIOUS
    <3>3. DOMAIN d.labels[i] = {"key", "size"}
      BY <3>1, <3>2
    <3>4. QED BY <3>3
  <2> HIDE DEF options, len
  <2>3. DOMAIN options = 1 .. len /\ Len(options) = len /\ \A i \in 1 .. len : options[i].size \in Nat
    <3>1. DOMAIN options = 1 .. len /\ Len(options) = len
      BY <1>1, <2>1
    <3>2. \A i \in 1 .. len : options[i] = [d.labels[i] EXCEPT !.key = i - 1]
      BY <2>1
    <3>3. QED BY <1>1, <2>2, <3>1, <3>2
  <2>4. \A i \in 1 .. len : Labels(d)[i] = options[i].key
    BY <1>3, <2>3 DEF Labels, options
  <2>5. RenderedAs(d, len)
    BY <1>3, <2>3, <2>4 DEF RenderedAs, options
  <2>6. QED BY <1>1, <2>5
<1>4. CASE d.type = "noul"
  <2>1. options = <<SideOf(d, "false"), SideOf(d, "true")>>
    BY <1>4 DEF RenderOptions
  <2>2. Labels(d) = <<"false", "true">>
    BY <1>4 DEF Labels
  <2>3. /\ SideOf(d, "false").key = "false" /\ SideOf(d, "false").size \in Nat
        /\ SideOf(d, "true").key = "true" /\ SideOf(d, "true").size \in Nat
    BY SideOfIs
  <2> HIDE DEF options
  <2>4. DOMAIN options = 1 .. 2 /\ Len(options) = 2
    BY <2>1
  <2>5. \A i \in 1 .. 2 : i = 1 \/ i = 2
    OBVIOUS
  <2>6. options[1] = SideOf(d, "false") /\ options[2] = SideOf(d, "true") /\ Labels(d)[1] = "false" /\ Labels(d)[2] = "true"
    BY <2>1, <2>2
  <2>7. \A i \in 1 .. 2 : options[i].size \in Nat /\ Labels(d)[i] = options[i].key
    BY <2>3, <2>5, <2>6
  <2>8. RenderedAs(d, 2)
    BY <1>4, <2>4, <2>7 DEF RenderedAs, options
  <2>9. QED BY <2>8
<1>5. QED BY <1>2, <1>3, <1>4 DEF CheckQuestion, QuestionTypes

-----------------------------------------------------------------------------
(* LayaAnswers: one answer *)

\* max() of what n things have.
LEMMA GreatestAmong ==
  ASSUME NEW n \in Nat \ {0}, NEW f, \A i \in 1 .. n : f[i] \in Nat
  PROVE  /\ Max({f[i] : i \in 1 .. n}) \in Nat
         /\ \A i \in 1 .. n : f[i] <= Max({f[i2] : i2 \in 1 .. n})
<1> DEFINE U == {f[i] : i \in 1 .. n}
<1>1. \A i \in 1 .. n : f[i] \in Int
  OBVIOUS
<1>2. PICK b \in 1 .. n : FirstGreatest(f, n, b)
  BY <1>1, GreatestFirst
<1>3. f[b] \in U /\ \A u \in U : f[b] >= u
  <2>1. ASSUME NEW i \in 1 .. n PROVE f[b] >= f[i]
    <3>1. f[i] \in Nat /\ f[b] \in Nat
      OBVIOUS
    <3>2. f[i] < f[b] \/ f[i] = f[b]
      BY <1>2 DEF FirstGreatest
    <3>3. QED BY <3>1, <3>2
  <2>2. QED BY <2>1
<1>4. Max(U) \in U /\ \A u \in U : Max(U) >= u
  <2> HIDE DEF U
  <2>1. QED BY <1>3 DEF Max
<1>5. U \subseteq Nat
  OBVIOUS
<1>6. \A i \in 1 .. n : f[i] \in U
  OBVIOUS
<1> HIDE DEF U
<1>7. Max(U) \in Nat /\ \A i \in 1 .. n : f[i] <= Max(U)
  <2>1. Max(U) \in Nat
    BY <1>4, <1>5
  <2>2. ASSUME NEW i \in 1 .. n PROVE f[i] <= Max(U)
    <3>1. Max(U) >= f[i] /\ f[i] \in Nat
      BY <1>4, <1>6
    <3>2. QED BY <2>1, <3>1
  <2>3. QED BY <2>1, <2>2
<1>8. QED BY <1>7 DEF U

\* A question that was asked: so many options, a logit for each.
AskedRight(q, n) ==
  /\ DefinitionOk(q) /\ CheckQuestion(q) /\ RenderedAs(q, n)
  /\ q.logits \in [1 .. n -> Int]
  /\ q.head \in Nat /\ q.state \in Nat

ConfigOk(c) == c.byType \in [QuestionTypes -> Int] /\ c.byOptions \in [DOMAIN c.byOptions -> Int]

\* The answer x is that of question q.
OwnAnswer(q, c, x) ==
  LET options == RenderOptions(q)
  IN  /\ x.by = [k \in DOMAIN options |-> <<options[k].key, q.logits[k]>>]
      /\ q.type = "choice" => \E k \in DOMAIN options :
           /\ x.picked = options[k].key
           /\ \A j \in DOMAIN options : q.logits[j] <= q.logits[k] /\ (j < k => q.logits[j] < q.logits[k])
      /\ x.act = q.act
      /\ x.temperature = TemperatureFor(c, q.type, Len(options))

\* decode_answers(): a row that starts with the logits of a question gives its answer.
LEMMA DecodeIs ==
  ASSUME NEW q, NEW n \in Nat, AskedRight(q, n), NEW c, NEW markers, Len(markers) = n,
         NEW row \in Seq(Int), n <= Len(row), \A k \in 1 .. n : row[k] = q.logits[k]
  PROVE  OwnAnswer(q, c, DecodeAnswer(c, q, markers, row, q.act))
<1> DEFINE z == SubSeq(row, 1, n)
           options == RenderOptions(q)
           x == DecodeAnswer(c, q, markers, row, q.act)
<1>1. /\ DOMAIN options = 1 .. n /\ Len(options) = n /\ (q.type = "choice" => n # 0)
      /\ \A i \in 1 .. n : Labels(q)[i] = options[i].key
  BY DEF AskedRight, RenderedAs
<1>2. DOMAIN z = 1 .. n /\ \A k \in 1 .. n : z[k] = q.logits[k] /\ z[k] \in Int
  <2>1. Len(row) \in Nat /\ n <= Len(row)
    OBVIOUS
  <2>2. Len(z) = n
    BY <2>1
  <2>3. \A k \in 1 .. n : z[k] = row[k]
    BY <2>1
  <2>4. z \in Seq(Int)
    <3>1. \A k \in 1 .. n : k \in 1 .. Len(row)
      BY <2>1
    <3>2. QED BY <2>1, <3>1
  <2> HIDE DEF z
  <2>5. DOMAIN z = 1 .. n
    BY <2>2, <2>4
  <2>6. \A k \in 1 .. n : q.logits[k] \in Int
    BY DEF AskedRight
  <2>7. QED BY <2>3, <2>5, <2>6
<1>3. x = [picked |-> IF q.type = "choice" THEN Labels(q)[ArgMax(z)] ELSE "none",
           by |-> [i \in 1 .. n |-> <<Labels(q)[i], z[i]>>],
           temperature |-> TemperatureFor(c, q.type, n),
           act |-> q.act]
  BY DEF DecodeAnswer
<1> HIDE DEF z, options, x
<1>4. x.by = [k \in DOMAIN options |-> <<options[k].key, q.logits[k]>>]
  <2>1. \A k \in 1 .. n : <<Labels(q)[k], z[k]>> = <<options[k].key, q.logits[k]>>
    BY <1>1, <1>2
  <2>2. x.by = [i \in 1 .. n |-> <<Labels(q)[i], z[i]>>]
    BY <1>3
  <2>3. QED BY <1>1, <2>1, <2>2
<1>5. ASSUME q.type = "choice"
      PROVE  \E k \in DOMAIN options :
               /\ x.picked = options[k].key
               /\ \A j \in DOMAIN options : q.logits[j] <= q.logits[k] /\ (j < k => q.logits[j] < q.logits[k])
  <2>1. n \in Nat \ {0}
    BY <1>1, <1>5
  <2>2. ArgMax(z) \in 1 .. n /\ \A j \in 1 .. n : z[j] <= z[ArgMax(z)] /\ (j < ArgMax(z) => z[j] < z[ArgMax(z)])
    BY <1>2, <2>1, ArgMaxIs
  <2>3. x.picked = Labels(q)[ArgMax(z)]
    BY <1>3, <1>5
  <2>4. PICK k \in 1 .. n : k = ArgMax(z)
    BY <2>2
  <2>5. x.picked = options[k].key
    BY <1>1, <2>3, <2>4
  <2>6. \A j \in 1 .. n : q.logits[j] <= q.logits[k] /\ (j < k => q.logits[j] < q.logits[k])
    BY <1>2, <2>2, <2>4
  <2>7. QED BY <1>1, <2>5, <2>6
<1>6. x.act = q.act /\ x.temperature = TemperatureFor(c, q.type, Len(options))
  BY <1>1, <1>3
<1>7. QED BY <1>4, <1>5, <1>6 DEF OwnAnswer, options, x

\* Whatever a checkpoint's file says, a temperature is between 0.5 and 5.
LEMMA TemperatureIs ==
  ASSUME NEW c, ConfigOk(c), NEW type \in QuestionTypes, NEW k
  PROVE  TemperatureFor(c, type, k) \in 5 .. 50
<1>1. \A t \in Int : ClampTemperature(t) \in 5 .. 50
  BY DEF ClampTemperature, Least, Most, NotFinite
<1> DEFINE bucket == TempBucket(type, k)
           t == IF bucket \in DOMAIN c.byOptions THEN c.byOptions[bucket] ELSE c.byType[type]
<1>2. t \in Int
  <2> HIDE DEF bucket
  <2>1. QED BY DEF ConfigOk
<1> HIDE DEF t
<1>3. ClampTemperature(t) \in 5 .. 50
  BY <1>1, <1>2
<1>4. QED BY <1>3 DEF TemperatureFor, t

-----------------------------------------------------------------------------
(* LayaAnswers: a request *)

OptionsOf(i) == Len(RenderOptions(query.questions[i]))

\* What one question has become so far.
ItemRight(i) ==
  /\ BuiltRight(items[i], OptionsOf(i), EngineMaxLen(query.limits, query.npu), query.questions[i].state)
  /\ items[i].markers \in [1 .. OptionsOf(i) -> Nat]

RowRight(i, row) ==
  /\ row.act = query.questions[i].act
  /\ row.logits \in Seq(Int) /\ OptionsOf(i) <= Len(row.logits)
  /\ \A k \in 1 .. OptionsOf(i) : row.logits[k] = query.questions[i].logits[k]

QueryRight ==
  /\ query.questions \in Requested /\ query.config \in Configs /\ query.limits \in Limits
  /\ query.npu \in BOOLEAN

Running ==
  LET n == Len(query.questions)
  IN  /\ \A i \in 1 .. n : CheckQuestion(query.questions[i])
      /\ DOMAIN items = 1 .. n /\ \A i \in 1 .. n : ItemRight(i)
      /\ DOMAIN rows = 1 .. n /\ rows = [i \in 1 .. n |-> rows[i]]
      /\ \A i \in 1 .. n : rows[i] = NoRow \/ RowRight(i, rows[i])
      /\ DOMAIN decoded \subseteq 1 .. n
      /\ \A i \in DOMAIN decoded : OwnAnswer(query.questions[i], query.config, decoded[i])

AnswersInv ==
  /\ QueryRight
  /\ fate = "running" => Running
  /\ fate # "running" => items = <<>> /\ rows = <<>> /\ decoded = <<>>

\* What the assumptions say of a request.
LEMMA QueryFacts ==
  ASSUME QueryRight
  PROVE  LET qs == query.questions
             n == Len(qs)
         IN  /\ n \in Nat /\ DOMAIN qs = 1 .. n
             /\ \A i \in 1 .. n : /\ DefinitionOk(qs[i]) /\ qs[i].head \in Nat /\ qs[i].state \in Nat
                                  /\ CheckQuestion(qs[i]) => AskedRight(qs[i], OptionsOf(i)) /\ OptionsOf(i) \in Nat
             /\ ConfigOk(query.config)
             /\ query.limits.head \in Nat
             /\ EngineMaxLen(query.limits, query.npu) \in Nat
             /\ query.npu => EngineMaxLen(query.limits, query.npu) <= Max(SeqBuckets)
             /\ Max(SeqBuckets) \in SeqBuckets
<1> DEFINE qs == query.questions
           n == Len(qs)
<1>1. n \in Nat /\ DOMAIN qs = 1 .. n
  <2>1. qs \in Seq({qs[i] : i \in DOMAIN qs})
    BY AnswersAssumption DEF QueryRight
  <2> HIDE DEF qs
  <2>2. QED BY <2>1
<1>2. ASSUME NEW i \in 1 .. n
      PROVE  /\ DefinitionOk(qs[i]) /\ qs[i].head \in Nat /\ qs[i].state \in Nat
             /\ CheckQuestion(qs[i]) => AskedRight(qs[i], OptionsOf(i)) /\ OptionsOf(i) \in Nat
  <2>1. /\ DefinitionOk(qs[i]) /\ {qs[i].head, qs[i].state} \subseteq Nat
        /\ CheckQuestion(qs[i]) => qs[i].logits \in [DOMAIN RenderOptions(qs[i]) -> Int]
    BY <1>1, AnswersAssumption DEF QueryRight
  <2>2. ASSUME CheckQuestion(qs[i]) PROVE AskedRight(qs[i], OptionsOf(i)) /\ OptionsOf(i) \in Nat
    <3> DEFINE q == qs[i]
    <3>1. DefinitionOk(q) /\ CheckQuestion(q)
      BY <2>1, <2>2
    <3> HIDE DEF q
    <3>2. PICK m \in Nat : RenderedAs(q, m)
      BY <3>1, RenderIs
    <3>3. DOMAIN RenderOptions(q) = 1 .. m /\ Len(RenderOptions(q)) = m
      BY <3>2 DEF RenderedAs
    <3>4. OptionsOf(i) = m
      BY <3>3 DEF OptionsOf, q
    <3>5. q.logits \in [1 .. m -> Int] /\ q.head \in Nat /\ q.state \in Nat
      BY <2>1, <2>2, <3>3 DEF q
    <3>6. QED BY <3>1, <3>2, <3>4, <3>5 DEF AskedRight, q
  <2>3. QED BY <2>1, <2>2
<1>3. ConfigOk(query.config) /\ query.limits.head \in Nat
  BY AnswersAssumption DEF QueryRight, ConfigOk
<1>4. Max(SeqBuckets) \in SeqBuckets /\ Max(SeqBuckets) \in Nat
  <2>1. SeqBuckets # {} /\ SeqBuckets \subseteq Nat /\ IsFiniteSet(SeqBuckets)
    BY AnswersAssumption
  <2>2. QED BY <2>1, GreatestIs
<1>5. /\ EngineMaxLen(query.limits, query.npu) \in Nat
      /\ query.npu => EngineMaxLen(query.limits, query.npu) <= Max(SeqBuckets)
  <2> DEFINE l == query.limits
             own == IF l.settings = 0 THEN l.config ELSE l.settings
  <2>1. l.config \in Nat /\ l.settings \in Nat /\ query.npu \in BOOLEAN
    BY AnswersAssumption DEF QueryRight
  <2>2. own \in Nat
    BY <2>1
  <2> HIDE DEF l
  <2>3. EngineMaxLen(l, query.npu) = IF query.npu THEN Least(own, Max(SeqBuckets)) ELSE own
    BY DEF EngineMaxLen
  <2>4. \A a, b \in Nat : Least(a, b) \in Nat /\ Least(a, b) <= b
    BY DEF Least
  <2> HIDE DEF own
  <2>5. Least(own, Max(SeqBuckets)) \in Nat /\ Least(own, Max(SeqBuckets)) <= Max(SeqBuckets)
    BY <1>4, <2>2, <2>4
  <2>6. EngineMaxLen(l, query.npu) \in Nat /\ (query.npu => EngineMaxLen(l, query.npu) <= Max(SeqBuckets))
    BY <2>2, <2>3, <2>5
  <2>7. QED BY <2>6 DEF l
<1>6. QED BY <1>1, <1>2, <1>3, <1>4, <1>5

\* What _prepare() makes of a question that may be asked.
LEMMA SequenceIs ==
  ASSUME QueryRight, NEW i \in 1 .. Len(query.questions), CheckQuestion(query.questions[i])
  PROVE  BuiltRight(SequenceOf(query, query.questions[i]), OptionsOf(i), EngineMaxLen(query.limits, query.npu),
                    query.questions[i].state)
<1> DEFINE q == query.questions[i]
           n == OptionsOf(i)
           maxLen == EngineMaxLen(query.limits, query.npu)
<1>1. AskedRight(q, n) /\ n \in Nat /\ maxLen \in Nat /\ query.limits.head \in Nat
  BY QueryFacts
<1> HIDE DEF q, n, maxLen
<1>2. q.head \in Nat /\ q.state \in Nat
  BY <1>1 DEF AskedRight
<1>3. OptionTokens(q) \in [1 .. n -> Nat]
  <2>1. DOMAIN RenderOptions(q) = 1 .. n /\ \A k \in 1 .. n : RenderOptions(q)[k].size \in Nat
    BY <1>1 DEF AskedRight, RenderedAs
  <2>2. QED BY <2>1 DEF OptionTokens
<1>4. BuiltRight(BuildSequence(maxLen, query.limits.head, q.head, OptionTokens(q), q.state), n, maxLen, q.state)
  BY <1>1, <1>2, <1>3, BuiltIs
<1>5. SequenceOf(query, q) = BuildSequence(maxLen, query.limits.head, q.head, OptionTokens(q), q.state)
  BY DEF SequenceOf, maxLen
<1>6. QED BY <1>4, <1>5 DEF q, n, maxLen

\* Nothing has been done of a request at first.
LEMMA AnswersStart == ASSUME AnswersInit PROVE AnswersInv
<1>1. QueryRight /\ fate = "asked" /\ items = <<>> /\ rows = <<>> /\ decoded = <<>>
  BY DEF AnswersInit, QueryRight
<1>2. QED BY <1>1 DEF AnswersInv

\* _prepare(): every question is cut to size, or none is run.
LEMMA PrepareStep == ASSUME AnswersInv, Prepare PROVE AnswersInv'
<1> DEFINE qs == query.questions
           n == Len(qs)
           made == [i \in DOMAIN qs |-> SequenceOf(query, qs[i])]
<1>1. /\ QueryRight /\ query' = query /\ fate = "asked"
      /\ decoded' = decoded /\ decoded = <<>> /\ items = <<>> /\ rows = <<>>
  BY DEF AnswersInv, Prepare
<1>2. QueryRight'
  BY <1>1 DEF QueryRight
<1>3. n \in Nat /\ DOMAIN qs = 1 .. n
  BY <1>1, QueryFacts
<1>4. CASE fate' # "running"
  <2>1. items' = items /\ rows' = rows
    BY <1>4 DEF Prepare
  <2>2. QED BY <1>1, <1>2, <1>4, <2>1 DEF AnswersInv
<1>5. CASE fate' = "running"
  <2>1. /\ \A i \in 1 .. n : CheckQuestion(qs[i])
        /\ \A i \in 1 .. n : Len(made[i].markers) = Len(RenderOptions(qs[i]))
        /\ items' = made /\ rows' = [i \in 1 .. n |-> NoRow]
    BY <1>3, <1>5 DEF Prepare
  <2>2. ASSUME NEW i \in 1 .. n PROVE ItemRight(i)'
    <3>1. BuiltRight(made[i], OptionsOf(i), EngineMaxLen(query.limits, query.npu), qs[i].state)
      <4>1. CheckQuestion(query.questions[i])
        BY <2>1
      <4>2. made[i] = SequenceOf(query, qs[i])
        BY <1>3
      <4>3. BuiltRight(SequenceOf(query, query.questions[i]), OptionsOf(i), EngineMaxLen(query.limits, query.npu),
                    query.questions[i].state)
        BY <1>1, <4>1, SequenceIs
      <4>4. QED BY <4>2, <4>3
    <3>2. Len(made[i].markers) = OptionsOf(i)
      BY <2>1 DEF OptionsOf
    <3> HIDE DEF made
    <3>3. PICK m \in 0 .. OptionsOf(i) : made[i].markers \in [1 .. m -> Nat]
      BY <3>1 DEF BuiltRight
    <3>4. Len(made[i].markers) = m
      <4>1. OptionsOf(i) \in Nat
        BY <1>1, <2>1, QueryFacts
      <4>2. m \in Nat
        BY <4>1
      <4>3. QED BY <3>3, <4>2
    <3>5. made[i].markers \in [1 .. OptionsOf(i) -> Nat]
      BY <3>2, <3>3, <3>4
    <3>6. QED BY <1>1, <2>1, <3>1, <3>5 DEF ItemRight, OptionsOf
  <2>3. DOMAIN items' = 1 .. n
    BY <1>3, <2>1
  <2>4. DOMAIN rows' = 1 .. n /\ rows' = [i \in 1 .. n |-> rows'[i]] /\ \A i \in 1 .. n : rows'[i] = NoRow
    BY <2>1
  <2>5. DOMAIN decoded' = {}
    BY <1>1
  <2> HIDE DEF made
  <2>6. Running'
    BY <1>1, <2>1, <2>2, <2>3, <2>4, <2>5 DEF Running
  <2>7. QED BY <1>2, <1>5, <2>6 DEF AnswersInv
<1>6. QED BY <1>4, <1>5

\* The number at the marker of an option is the question's for that option.
LEMMA AtIs ==
  ASSUME QueryRight, Running, NEW i \in 1 .. Len(query.questions), NEW k \in 1 .. OptionsOf(i)
  PROVE  At(i, items[i].markers[k]) = query.questions[i].logits[k]
<1> DEFINE own == items[i].markers
           n == OptionsOf(i)
<1>1. own \in [1 .. n -> Nat] /\ BuiltRight(items[i], n, EngineMaxLen(query.limits, query.npu), query.questions[i].state)
  BY DEF Running, ItemRight
<1>2. \A a, b \in DOMAIN own : a < b => own[a] < own[b]
  BY <1>1 DEF BuiltRight
<1>3. AskedRight(query.questions[i], OptionsOf(i)) /\ OptionsOf(i) \in Nat
  <2>1. CheckQuestion(query.questions[i])
    BY DEF Running
  <2>2. QED BY <2>1, QueryFacts
<1>4. At(i, own[k]) = IF \E a \in DOMAIN own : own[a] = own[k]
                      THEN query.questions[i].logits[CHOOSE a \in DOMAIN own : own[a] = own[k]]
                      ELSE Meaningless
  BY DEF At
<1> HIDE DEF own
<1>5. \A a \in DOMAIN own : own[a] = own[k] => a = k
  <2> SUFFICES ASSUME NEW a \in DOMAIN own, own[a] = own[k] PROVE a = k
    OBVIOUS
  <2>1. a \in 1 .. n /\ k \in 1 .. n /\ n \in Nat /\ DOMAIN own = 1 .. n
    BY <1>1, <1>3
  <2>2. a \in Nat /\ k \in Nat /\ own[a] \in Nat /\ own[k] \in Nat
    BY <1>1, <2>1
  <2>3. ~ (own[a] < own[k]) /\ ~ (own[k] < own[a])
    BY <2>2
  <2>4. ~ (a < k) /\ ~ (k < a)
    BY <1>2, <2>1, <2>3
  <2>5. QED BY <2>2, <2>4
<1>6. k \in DOMAIN own /\ own[k] = own[k]
  BY <1>1
<1>7. (CHOOSE a \in DOMAIN own : own[a] = own[k]) = k
  BY <1>5, <1>6
<1>8. At(i, own[k]) = query.questions[i].logits[k]
  BY <1>4, <1>6, <1>7
<1>9. QED BY <1>8 DEF own

\* collate() keeps the markers of a question, and marks which they are.
LEMMA CollatedIs ==
  ASSUME QueryRight, Running, NEW i \in 1 .. Len(query.questions)
  PROVE  \E kmax \in Nat :
           /\ OptionsOf(i) \in Nat /\ OptionsOf(i) <= kmax /\ DOMAIN Collated(i) = 1 .. kmax
           /\ \A k \in 1 .. kmax : k <= OptionsOf(i) => Collated(i)[k].real = TRUE
           /\ \A k \in 1 .. kmax : ~ (k <= OptionsOf(i)) => Collated(i)[k].real = FALSE
           /\ \A k \in 1 .. OptionsOf(i) : k \in 1 .. kmax /\ Collated(i)[k].pos = items[i].markers[k]
<1> DEFINE n == Len(query.questions)
           f == [k \in 1 .. n |-> Len(items[k].markers)]
           kmax == Max({f[k] : k \in 1 .. n})
<1>1. n \in Nat \ {0} /\ DOMAIN items = 1 .. n
  <2>1. n \in Nat
    BY QueryFacts
  <2>2. QED BY <2>1 DEF Running
<1>2. \A k \in 1 .. n : f[k] = OptionsOf(k) /\ OptionsOf(k) \in Nat
  <2> SUFFICES ASSUME NEW k \in 1 .. n PROVE f[k] = OptionsOf(k) /\ OptionsOf(k) \in Nat
    OBVIOUS
  <2>1. OptionsOf(k) \in Nat
    <3>1. CheckQuestion(query.questions[k])
      BY DEF Running
    <3>2. QED BY <3>1, QueryFacts
  <2>2. items[k].markers \in [1 .. OptionsOf(k) -> Nat]
    BY DEF Running, ItemRight
  <2>3. Len(items[k].markers) = OptionsOf(k)
    BY <2>1, <2>2
  <2>4. QED BY <2>1, <2>3
<1>3. {f[k] : k \in 1 .. n} = {Len(items[k].markers) : k \in DOMAIN items}
  BY <1>1
<1>4. Collated(i) = [k \in 1 .. kmax |->
         IF k <= Len(items[i].markers) THEN [pos |-> items[i].markers[k], real |-> TRUE] ELSE [pos |-> 0, real |-> FALSE]]
  BY <1>3 DEF Collated
<1>5. Len(items[i].markers) = OptionsOf(i)
  BY <1>2
<1> HIDE DEF f, n
<1>6. kmax \in Nat /\ f[i] <= kmax
  <2>1. \A k \in 1 .. n : f[k] \in Nat
    BY <1>2
  <2>2. i \in 1 .. n
    BY DEF n
  <2>3. QED BY <1>1, <2>1, <2>2, GreatestAmong
<1> HIDE DEF kmax
<1>7. OptionsOf(i) \in Nat /\ OptionsOf(i) <= kmax
  <2>1. i \in 1 .. n
    BY DEF n
  <2>2. QED BY <1>2, <1>6, <2>1
<1>8. /\ DOMAIN Collated(i) = 1 .. kmax
      /\ \A k \in 1 .. kmax : k <= OptionsOf(i) => Collated(i)[k].real = TRUE
      /\ \A k \in 1 .. kmax : ~ (k <= OptionsOf(i)) => Collated(i)[k].real = FALSE
  BY <1>4, <1>5
<1>9. ASSUME NEW k \in 1 .. OptionsOf(i) PROVE k \in 1 .. kmax /\ Collated(i)[k].pos = items[i].markers[k]
  <2>1. k \in 1 .. kmax /\ k <= OptionsOf(i)
    BY <1>6, <1>7
  <2>2. QED BY <1>4, <1>5, <2>1
<1>10. QED BY <1>6, <1>7, <1>8, <1>9

\* A row of any width that has the numbers at the markers first, and masks after them.
LEMMA RowIs ==
  ASSUME QueryRight, Running, NEW i \in 1 .. Len(query.questions), NEW m \in Nat, OptionsOf(i) <= m,
         NEW row, DOMAIN row = 1 .. m, row = [k \in 1 .. m |-> row[k]],
         \A k \in 1 .. m : k <= OptionsOf(i) => row[k] = At(i, items[i].markers[k]),
         \A k \in 1 .. m : ~ (k <= OptionsOf(i)) => row[k] = Masked
  PROVE  RowRight(i, RowOf(row, i)) /\ RowOf(row, i) # NoRow
<1>1. AskedRight(query.questions[i], OptionsOf(i)) /\ OptionsOf(i) \in Nat
  <2>1. CheckQuestion(query.questions[i])
    BY DEF Running
  <2>2. QED BY <2>1, QueryFacts
<1>2. \A k \in 1 .. OptionsOf(i) : k \in 1 .. m /\ k <= OptionsOf(i)
  BY <1>1
<1>3. \A k \in 1 .. OptionsOf(i) : row[k] = query.questions[i].logits[k]
  BY <1>2, AtIs
<1>4. \A k \in 1 .. m : row[k] \in Int
  <2> SUFFICES ASSUME NEW k \in 1 .. m PROVE row[k] \in Int
    OBVIOUS
  <2>1. CASE k <= OptionsOf(i)
    <3>1. k \in 1 .. OptionsOf(i)
      BY <1>1, <2>1
    <3>2. query.questions[i].logits[k] \in Int
      BY <1>1, <3>1 DEF AskedRight
    <3>3. QED BY <1>3, <3>1, <3>2
  <2>2. CASE ~ (k <= OptionsOf(i))
    BY <2>2 DEF Masked
  <2>3. QED BY <2>1, <2>2
<1>5. row \in Seq(Int) /\ Len(row) = m
  BY <1>4
<1>6. RowOf(row, i).logits = row /\ RowOf(row, i).act = query.questions[i].act
  BY DEF RowOf
<1>7. RowOf(row, i) # NoRow
  <2>1. DOMAIN RowOf(row, i) = {"logits", "act"}
    BY DEF RowOf
  <2>2. DOMAIN NoRow = {}
    BY DEF NoRow
  <2>3. QED BY <2>1, <2>2
<1>8. QED BY <1>3, <1>5, <1>6, <1>7 DEF RowRight

\* The forward steps change the rows, and each to one that is right.
LEMMA RowsKept ==
  ASSUME AnswersInv, fate = "running", UNCHANGED <<query, items, decoded, fate>>,
         DOMAIN rows' = DOMAIN rows, rows' = [i \in DOMAIN rows |-> rows'[i]],
         \A i \in DOMAIN rows : rows'[i] = rows[i] \/ RowRight(i, rows'[i])
  PROVE  AnswersInv'
<1> DEFINE n == Len(query.questions)
<1>1. QueryRight /\ Running /\ n' = n
  BY DEF AnswersInv
<1>2. QueryRight'
  BY <1>1 DEF QueryRight
<1>3. DOMAIN rows = 1 .. n /\ \A i \in 1 .. n : rows[i] = NoRow \/ RowRight(i, rows[i])
  BY <1>1 DEF Running
<1>4. \A i \in 1 .. n : \A row : RowRight(i, row) => RowRight(i, row)'
  BY DEF RowRight, OptionsOf
<1>5. \A i \in 1 .. n : rows'[i] = NoRow \/ RowRight(i, rows[i])'
  <2> SUFFICES ASSUME NEW i \in 1 .. n PROVE rows'[i] = NoRow \/ RowRight(i, rows[i])'
    OBVIOUS
  <2>1. CASE RowRight(i, rows'[i])
    BY <2>1 DEF RowRight, OptionsOf
  <2>2. CASE rows'[i] = rows[i]
    <3>1. CASE rows[i] = NoRow
      BY <2>2, <3>1
    <3>2. CASE RowRight(i, rows[i])
      BY <2>2, <3>2 DEF RowRight, OptionsOf
    <3>3. QED BY <1>3, <3>1, <3>2
  <2>3. QED BY <1>3, <2>1, <2>2
<1>6. \A i \in 1 .. n : ItemRight(i)'
  BY <1>1 DEF Running, ItemRight, OptionsOf
<1>7. Running'
  BY <1>1, <1>3, <1>5, <1>6 DEF Running, NoRow
<1>8. QED BY <1>2, <1>7 DEF AnswersInv

\* A whole batch at once.
LEMMA ForwardDenseStep == ASSUME AnswersInv, ForwardDense PROVE AnswersInv'
<1>1. /\ fate = "running" /\ UNCHANGED <<query, items, decoded, fate>>
      /\ rows' = [i \in DOMAIN rows |->
                    RowOf([k \in DOMAIN Collated(i) |->
                             IF Collated(i)[k].real THEN At(i, Collated(i)[k].pos) ELSE Masked], i)]
  BY DEF ForwardDense
<1>2. QueryRight /\ Running /\ DOMAIN rows = 1 .. Len(query.questions)
  BY <1>1 DEF AnswersInv, Running
<1>3. ASSUME NEW i \in DOMAIN rows PROVE RowRight(i, rows'[i])
  <2> DEFINE row == [k \in DOMAIN Collated(i) |-> IF Collated(i)[k].real THEN At(i, Collated(i)[k].pos) ELSE Masked]
  <2>1. rows'[i] = RowOf(row, i)
    BY <1>1
  <2>2. PICK kmax \in Nat :
           /\ OptionsOf(i) \in Nat /\ OptionsOf(i) <= kmax /\ DOMAIN Collated(i) = 1 .. kmax
           /\ \A k \in 1 .. kmax : k <= OptionsOf(i) => Collated(i)[k].real = TRUE
           /\ \A k \in 1 .. kmax : ~ (k <= OptionsOf(i)) => Collated(i)[k].real = FALSE
           /\ \A k \in 1 .. OptionsOf(i) : k \in 1 .. kmax /\ Collated(i)[k].pos = items[i].markers[k]
    BY <1>2, CollatedIs
  <2>3. DOMAIN row = 1 .. kmax /\ row = [k \in 1 .. kmax |-> row[k]]
    BY <2>2
  <2>4. ASSUME NEW k \in 1 .. kmax, k <= OptionsOf(i) PROVE row[k] = At(i, items[i].markers[k])
    <3>1. k \in 1 .. OptionsOf(i)
      BY <2>2, <2>4
    <3>2. QED BY <2>2, <2>4, <3>1
  <2>5. \A k \in 1 .. kmax : ~ (k <= OptionsOf(i)) => row[k] = Masked
    BY <2>2
  <2> HIDE DEF row
  <2>6. RowRight(i, RowOf(row, i))
    BY <1>2, <2>2, <2>3, <2>4, <2>5, RowIs
  <2>7. QED BY <2>1, <2>6
<1>4. DOMAIN rows' = DOMAIN rows /\ rows' = [i \in DOMAIN rows |-> rows'[i]]
  BY <1>1
<1>5. QED BY <1>1, <1>3, <1>4, RowsKept

\* One question on the NPU.
LEMMA ForwardItemStep == ASSUME AnswersInv, NEW i \in DOMAIN rows, ForwardItem(i) PROVE AnswersInv'
<1> DEFINE own == {k \in DOMAIN Collated(i) : Collated(i)[k].real}
           row == [k \in own |-> At(i, Collated(i)[k].pos)]
<1>1. /\ fate = "running" /\ UNCHANGED <<query, items, decoded, fate>>
      /\ rows' = [rows EXCEPT ![i] = RowOf(row, i)]
  BY DEF ForwardItem
<1>2. QueryRight /\ Running /\ DOMAIN rows = 1 .. Len(query.questions)
  BY <1>1 DEF AnswersInv, Running
<1>3. PICK kmax \in Nat :
         /\ OptionsOf(i) \in Nat /\ OptionsOf(i) <= kmax /\ DOMAIN Collated(i) = 1 .. kmax
         /\ \A k \in 1 .. kmax : k <= OptionsOf(i) => Collated(i)[k].real = TRUE
         /\ \A k \in 1 .. kmax : ~ (k <= OptionsOf(i)) => Collated(i)[k].real = FALSE
         /\ \A k \in 1 .. OptionsOf(i) : k \in 1 .. kmax /\ Collated(i)[k].pos = items[i].markers[k]
  BY <1>2, CollatedIs
<1>4. own = 1 .. OptionsOf(i)
  <2>1. \A k \in 1 .. kmax : Collated(i)[k].real <=> k \in 1 .. OptionsOf(i)
    <3>1. \A k \in 1 .. kmax : k <= OptionsOf(i) <=> k \in 1 .. OptionsOf(i)
      BY <1>3
    <3>2. QED BY <1>3, <3>1
  <2>2. \A k \in 1 .. OptionsOf(i) : k \in 1 .. kmax
    BY <1>3
  <2>3. QED BY <1>3, <2>1, <2>2
<1> HIDE DEF own
<1>5. DOMAIN row = 1 .. OptionsOf(i) /\ row = [k \in 1 .. OptionsOf(i) |-> row[k]]
  BY <1>4
<1>6. \A k \in 1 .. OptionsOf(i) : row[k] = At(i, items[i].markers[k]) /\ k <= OptionsOf(i)
  BY <1>3, <1>4
<1> HIDE DEF row
<1>7. RowRight(i, RowOf(row, i))
  <2>1. OptionsOf(i) <= OptionsOf(i) /\ OptionsOf(i) \in Nat
    BY <1>3
  <2>2. QED BY <1>2, <1>5, <1>6, <2>1, RowIs
<1>8. \A j \in DOMAIN rows : rows'[j] = rows[j] \/ RowRight(j, rows'[j])
  BY <1>1, <1>7
<1>9. DOMAIN rows' = DOMAIN rows /\ rows' = [j \in DOMAIN rows |-> rows'[j]]
  BY <1>1
<1>10. QED BY <1>1, <1>8, <1>9, RowsKept

\* Those that are decoded together: each of them has its row.
LEMMA InOrderIs ==
  ASSUME NEW n \in Nat, NEW S, S \subseteq 1 .. n, NEW some \in InOrder(S)
  PROVE  \E m \in Nat \ {0} : some \in [1 .. m -> S]
<1>1. IsFiniteSet(S)
  <2>1. IsFiniteSet(1 .. n) /\ S \in SUBSET (1 .. n)
    BY CountTo
  <2>2. QED BY <2>1, FS_Subset
<1>2. Cardinality(S) \in Nat
  BY <1>1, FS_CardinalityType
<1>3. some \in UNION {[1 .. m -> S] : m \in 1 .. Cardinality(S)}
  BY DEF InOrder
<1>4. PICK m \in 1 .. Cardinality(S) : some \in [1 .. m -> S]
  BY <1>3
<1>5. m \in Nat \ {0}
  BY <1>2
<1>6. QED BY <1>4, <1>5

\* Padding leaves a question its own numbers.
LEMMA DecodedIs ==
  ASSUME QueryRight, Running, NEW m \in Nat \ {0}, NEW some \in [1 .. m -> {i \in DOMAIN rows : rows[i] # NoRow}],
         NEW r \in 1 .. m
  PROVE  OwnAnswer(query.questions[some[r]], query.config, Decoded(some)[r])
<1> DEFINE n == Len(query.questions)
           f == [a \in 1 .. m |-> Len(rows[some[a]].logits)]
           kmax == Max({f[a] : a \in 1 .. m})
           i == some[r]
           row == [k \in 1 .. kmax |-> IF k <= Len(rows[i].logits) THEN rows[i].logits[k] ELSE Masked]
<1>1. DOMAIN rows = 1 .. n /\ n \in Nat
  <2>1. n \in Nat
    BY QueryFacts
  <2>2. QED BY <2>1 DEF Running
<1>2. \A a \in 1 .. m : some[a] \in 1 .. n /\ RowRight(some[a], rows[some[a]])
  <2>1. \A a \in 1 .. m : some[a] \in 1 .. n /\ rows[some[a]] # NoRow
    BY <1>1
  <2>2. QED BY <2>1 DEF Running
<1>3. \A a \in 1 .. m : f[a] \in Nat
  BY <1>2 DEF RowRight
<1>4. {f[a] : a \in 1 .. m} = {Len(rows[j].logits) : j \in ToSet(some)}
  <2>1. DOMAIN some = 1 .. m
    OBVIOUS
  <2>2. ToSet(some) = {some[a] : a \in 1 .. m}
    BY <2>1 DEF ToSet
  <2>3. \A a \in 1 .. m : f[a] = Len(rows[some[a]].logits)
    OBVIOUS
  <2> HIDE DEF f
  <2>4. QED BY <2>2, <2>3
<1>5. Padded(some)[r] = row
  <2> DEFINE wide == Max({Len(rows[j].logits) : j \in ToSet(some)})
  <2>1. wide = kmax
    BY <1>4
  <2>2. Padded(some) = [a \in DOMAIN some |->
           [k \in 1 .. wide |-> IF k <= Len(rows[some[a]].logits) THEN rows[some[a]].logits[k] ELSE Masked]]
    BY DEF Padded
  <2>3. DOMAIN some = 1 .. m
    OBVIOUS
  <2> HIDE DEF wide, kmax
  <2>4. QED BY <2>1, <2>2, <2>3
<1>6. Decoded(some)[r] = DecodeAnswer(query.config, query.questions[i], items[i].markers, row, query.questions[i].act)
  <2>1. rows[i].act = query.questions[i].act
    BY <1>2 DEF RowRight
  <2>2. DOMAIN some = 1 .. m
    OBVIOUS
  <2>3. Decoded(some) = [a \in DOMAIN some |->
          DecodeAnswer(query.config, query.questions[some[a]], items[some[a]].markers, Padded(some)[a], rows[some[a]].act)]
    BY DEF Decoded
  <2> HIDE DEF row
  <2>4. QED BY <1>5, <2>1, <2>2, <2>3
<1>7. AskedRight(query.questions[i], OptionsOf(i)) /\ OptionsOf(i) \in Nat
  <2>1. i \in 1 .. n
    BY <1>2
  <2> HIDE DEF i
  <2>2. CheckQuestion(query.questions[i])
    BY <2>1 DEF Running
  <2>3. QED BY <2>1, <2>2, QueryFacts
<1>8. Len(items[i].markers) = OptionsOf(i)
  <2>1. items[i].markers \in [1 .. OptionsOf(i) -> Nat]
    BY <1>2 DEF Running, ItemRight
  <2> HIDE DEF i
  <2>2. QED BY <1>7, <2>1
<1>9. kmax \in Nat /\ f[r] <= kmax
  <2> HIDE DEF f
  <2>1. QED BY <1>3, GreatestAmong
<1>10. f[r] = Len(rows[i].logits)
  OBVIOUS
<1>11. RowRight(i, rows[i])
  BY <1>2
<1> HIDE DEF kmax, f, i
<1>12. /\ rows[i].logits \in Seq(Int) /\ Len(rows[i].logits) \in Nat /\ OptionsOf(i) <= Len(rows[i].logits)
       /\ \A k \in 1 .. OptionsOf(i) : rows[i].logits[k] = query.questions[i].logits[k]
  BY <1>11 DEF RowRight
<1>13. row \in Seq(Int) /\ Len(row) = kmax
  <2>1. \A k \in 1 .. kmax : row[k] \in Int
    <3> SUFFICES ASSUME NEW k \in 1 .. kmax PROVE row[k] \in Int
      OBVIOUS
    <3>1. CASE k <= Len(rows[i].logits)
      <4>1. k \in 1 .. Len(rows[i].logits)
        BY <1>9, <1>12, <3>1
      <4>2. rows[i].logits[k] \in Int
        BY <1>12, <4>1
      <4>3. QED BY <3>1, <4>2
    <3>2. CASE ~ (k <= Len(rows[i].logits))
      BY <3>2 DEF Masked
    <3>3. QED BY <3>1, <3>2
  <2>2. row = [k \in 1 .. kmax |-> row[k]]
    OBVIOUS
  <2> HIDE DEF row
  <2>3. QED BY <1>9, <2>1, <2>2
<1>14. OptionsOf(i) <= kmax
  BY <1>7, <1>9, <1>10, <1>12
<1>15. ASSUME NEW k \in 1 .. OptionsOf(i) PROVE row[k] = query.questions[i].logits[k]
  <2>1. k \in 1 .. kmax /\ k <= Len(rows[i].logits)
    BY <1>7, <1>9, <1>12, <1>14
  <2>2. row[k] = rows[i].logits[k]
    BY <2>1
  <2>3. QED BY <1>12, <2>2
<1> HIDE DEF row
<1>16. OwnAnswer(query.questions[i], query.config,
                 DecodeAnswer(query.config, query.questions[i], items[i].markers, row, query.questions[i].act))
  BY <1>7, <1>8, <1>13, <1>14, <1>15, DecodeIs
<1>17. QED BY <1>6, <1>16 DEF i

\* Any of those that have been run, together.
LEMMA DecodeStep == ASSUME AnswersInv, Decode PROVE AnswersInv'
<1> DEFINE n == Len(query.questions)
           ready == {i \in DOMAIN rows : rows[i] # NoRow /\ i \notin DOMAIN decoded}
           done == {i \in DOMAIN rows : rows[i] # NoRow}
<1>1. fate = "running" /\ UNCHANGED <<query, items, rows, fate>>
  BY DEF Decode
<1>2. QueryRight /\ Running /\ n \in Nat
  <2>1. QueryRight /\ Running
    BY <1>1 DEF AnswersInv
  <2>2. QED BY <2>1, QueryFacts
<1>3. DOMAIN rows = 1 .. n /\ ready \subseteq 1 .. n /\ ready \subseteq done
  BY <1>2 DEF Running
<1>4. PICK some \in InOrder(ready) :
         decoded' = [i \in DOMAIN decoded \union ToSet(some) |->
                       IF i \in ToSet(some) THEN Decoded(some)[CHOOSE r \in DOMAIN some : some[r] = i] ELSE decoded[i]]
  BY DEF Decode
<1> HIDE DEF ready
<1>5. PICK m \in Nat \ {0} : some \in [1 .. m -> ready]
  BY <1>2, <1>3, InOrderIs
<1>6. some \in [1 .. m -> done] /\ DOMAIN some = 1 .. m
  BY <1>3, <1>5
<1>7. ToSet(some) = {some[r] : r \in 1 .. m}
  BY <1>6 DEF ToSet
<1>8. \A i \in ToSet(some) : i \in 1 .. n
  BY <1>3, <1>5, <1>7
<1>9. ASSUME NEW i \in ToSet(some) PROVE OwnAnswer(query.questions[i], query.config, decoded'[i])
  <2> DEFINE r == CHOOSE x \in DOMAIN some : some[x] = i
  <2>1. r \in 1 .. m /\ some[r] = i
    BY <1>6, <1>7
  <2>2. decoded'[i] = Decoded(some)[r]
    BY <1>4
  <2> HIDE DEF r
  <2>3. OwnAnswer(query.questions[some[r]], query.config, Decoded(some)[r])
    BY <1>2, <1>6, <2>1, DecodedIs
  <2>4. QED BY <2>1, <2>2, <2>3
<1>10. DOMAIN decoded' = DOMAIN decoded \union ToSet(some)
  BY <1>4
<1>11. DOMAIN decoded' \subseteq 1 .. n
  BY <1>2, <1>8, <1>10 DEF Running
<1>12. ASSUME NEW i \in DOMAIN decoded' PROVE OwnAnswer(query.questions[i], query.config, decoded'[i])
  <2>1. CASE i \in ToSet(some)
    BY <1>9, <2>1
  <2>2. CASE i \notin ToSet(some)
    <3>1. i \in DOMAIN decoded /\ decoded'[i] = decoded[i]
      BY <1>4, <1>10, <2>2
    <3>2. QED BY <1>2, <3>1 DEF Running
  <2>3. QED BY <2>1, <2>2
<1>13. QueryRight' /\ \A i \in 1 .. n : ItemRight(i)'
  BY <1>1, <1>2 DEF QueryRight, Running, ItemRight, OptionsOf
<1>14. \A i \in 1 .. n : rows'[i] = NoRow \/ RowRight(i, rows[i])'
  BY <1>1, <1>2 DEF Running, RowRight, OptionsOf
<1>15. \A i \in DOMAIN decoded' : OwnAnswer(query.questions[i], query.config, decoded[i])'
  BY <1>1, <1>12 DEF OwnAnswer
<1>16. Running'
  BY <1>1, <1>2, <1>11, <1>13, <1>14, <1>15 DEF Running, NoRow
<1>17. QED BY <1>1, <1>13, <1>16 DEF AnswersInv

\* Every step of a request.
LEMMA AnswersStep == ASSUME AnswersInv, [AnswersNext]_answerVars PROVE AnswersInv'
<1>1. CASE UNCHANGED answerVars
  BY <1>1 DEF AnswersInv, QueryRight, Running, ItemRight, RowRight, OptionsOf, OwnAnswer, NoRow, answerVars
<1>2. CASE Prepare
  BY <1>2, PrepareStep
<1>3. CASE ForwardDense
  BY <1>3, ForwardDenseStep
<1>4. CASE Decode
  BY <1>4, DecodeStep
<1>5. CASE \E i \in DOMAIN rows : ForwardItem(i)
  BY <1>5, ForwardItemStep
<1>6. QED BY <1>1, <1>2, <1>3, <1>4, <1>5 DEF AnswersNext

\* What has been decoded is each question's own.
LEMMA AnswersInvSound == ASSUME AnswersInv PROVE AnswersSound
<1>1. QueryRight
  BY DEF AnswersInv
<1>2. CASE fate # "running"
  <2>1. DOMAIN items = {} /\ DOMAIN decoded = {}
    BY <1>2 DEF AnswersInv
  <2>2. QED BY <2>1 DEF AnswersSound, AnswersOwn, ScaledAsFitted, ReadBeforeAnswered
<1>3. CASE fate = "running"
  <2>1. Running
    BY <1>3 DEF AnswersInv
  <2>2. AnswersOwn
    BY <2>1 DEF Running, OwnAnswer, AnswersOwn
  <2>3. ScaledAsFitted
    <3> SUFFICES ASSUME NEW i \in DOMAIN decoded
                 PROVE  /\ decoded[i].temperature =
                             TemperatureFor(query.config, query.questions[i].type, Len(RenderOptions(query.questions[i])))
                        /\ decoded[i].temperature \in 5 .. 50
      BY DEF ScaledAsFitted
    <3>1. i \in 1 .. Len(query.questions) /\ OwnAnswer(query.questions[i], query.config, decoded[i])
      BY <2>1 DEF Running
    <3>2. decoded[i].temperature =
            TemperatureFor(query.config, query.questions[i].type, Len(RenderOptions(query.questions[i])))
      BY <3>1 DEF OwnAnswer
    <3>3. CheckQuestion(query.questions[i]) /\ ConfigOk(query.config)
      BY <1>1, <2>1, <3>1, QueryFacts DEF Running
    <3>4. query.questions[i].type \in QuestionTypes
      BY <3>3 DEF CheckQuestion
    <3>5. QED BY <3>2, <3>3, <3>4, TemperatureIs
  <2>4. ReadBeforeAnswered
    <3> DEFINE maxLen == EngineMaxLen(query.limits, query.npu)
    <3> SUFFICES ASSUME NEW i \in DOMAIN items
                 PROVE  LET s == items[i]
                            q == query.questions[i]
                        IN  /\ \A k \in DOMAIN s.markers : k > 1 => s.markers[k] = s.markers[k - 1] + 1 + s.options[k - 1]
                            /\ ~s.truncated /\ q.state > 0 => s.state = q.state /\ s.lost = 0
                            /\ s.ids <= EngineMaxLen(query.limits, query.npu)
                            /\ query.npu => BucketOf(s.ids) >= s.ids
      BY DEF ReadBeforeAnswered
    <3>1. BuiltRight(items[i], OptionsOf(i), maxLen, query.questions[i].state)
      BY <2>1 DEF Running, ItemRight
    <3>2. items[i].ids \in Nat /\ items[i].ids <= maxLen
      BY <3>1 DEF BuiltRight
    <3>3. ASSUME query.npu PROVE BucketOf(items[i].ids) >= items[i].ids
      <4> DEFINE U == {b \in SeqBuckets : items[i].ids <= b}
      <4>1. maxLen \in Nat /\ maxLen <= Max(SeqBuckets) /\ Max(SeqBuckets) \in SeqBuckets
        BY <1>1, <3>3, QueryFacts
      <4>2. SeqBuckets \subseteq Nat
        BY AnswersAssumption
      <4>3. Max(SeqBuckets) \in U
        <5> HIDE DEF maxLen
        <5>1. Max(SeqBuckets) \in Nat
          BY <4>1, <4>2
        <5>2. QED BY <3>2, <4>1, <5>1
      <4>4. Min(U) \in U
        <5>1. U \subseteq Nat
          BY <4>2
        <5> HIDE DEF U
        <5>2. QED BY <4>3, <5>1, SmallestIs
      <4>5. Min(U) \in Nat /\ items[i].ids <= Min(U)
        BY <4>2, <4>4
      <4>6. Min(U) >= items[i].ids
        <5> HIDE DEF U
        <5>1. QED BY <3>2, <4>5
      <4>7. QED BY <4>6 DEF BucketOf
    <3>4. QED BY <3>1, <3>3 DEF BuiltRight
  <2>5. QED BY <2>2, <2>3, <2>4 DEF AnswersSound
<1>4. QED BY <1>2, <1>3

\* Each question of a request gets its own answer, whatever it is batched with.
THEOREM AnswersAreOwn == AnswersSpec => []AnswersSound
<1>1. AnswersInit => AnswersInv
  BY AnswersStart
<1>2. AnswersInv /\ [AnswersNext]_answerVars => AnswersInv'
  BY AnswersStep
<1>3. AnswersInv => AnswersSound
  BY AnswersInvSound
<1>4. QED BY <1>1, <1>2, <1>3, PTL DEF AnswersSpec

-----------------------------------------------------------------------------
(* LayaParticipation: what the model reads *)

OptionSet == {Option(action, slot) : action \in {"respond", "clarify", "wait", "finish", "abstain"}, slot \in Nat}

\* The moves of a request are finitely many.
LEMMA MoveOptionsAre ==
  ASSUME NEW p, NEW r, r.candidates \in Nat
  PROVE  MoveOptions(p, r) \in Seq(OptionSet)
<1>1. \A action \in {"respond", "clarify"} : Speaking(r, action) \in Seq(OptionSet)
  <2> SUFFICES ASSUME NEW action \in {"respond", "clarify"} PROVE Speaking(r, action) \in Seq(OptionSet)
    OBVIOUS
  <2>1. \A i \in 1 .. r.candidates : Option(action, i) \in OptionSet
    BY DEF OptionSet
  <2>2. [i \in 1 .. r.candidates |-> Option(action, i)] \in Seq(OptionSet)
    BY <2>1
  <2>3. <<>> \in Seq(OptionSet)
    OBVIOUS
  <2>4. QED BY <2>2, <2>3 DEF Speaking
<1>2. \A action \in {"wait", "finish"} : Closing(r, action) \in Seq(OptionSet)
  <2> SUFFICES ASSUME NEW action \in {"wait", "finish"} PROVE Closing(r, action) \in Seq(OptionSet)
    OBVIOUS
  <2>1. Option(action, 0) \in OptionSet
    BY DEF OptionSet
  <2>2. <<Option(action, 0)>> \in Seq(OptionSet) /\ <<>> \in Seq(OptionSet)
    BY <2>1
  <2>3. QED BY <2>2 DEF Closing
<1>3. <<Option("abstain", 0)>> \in Seq(OptionSet)
  <2>1. Option("abstain", 0) \in OptionSet
    BY DEF OptionSet
  <2>2. QED BY <2>1
<1>4. (IF p = "move" THEN Speaking(r, "clarify") ELSE <<>>) \in Seq(OptionSet)
  BY <1>1
<1>5. \A s, t \in Seq(OptionSet) : s \o t \in Seq(OptionSet)
  OBVIOUS
<1>6. QED BY <1>1, <1>2, <1>3, <1>4, <1>5 DEF MoveOptions

\* A question has so many options, each with a number of tokens.
Sized(s) == \E n \in Nat : s \in [1 .. n -> Nat]

\* The questions of each predictor have options of known sizes.
LEMMA SizesAre ==
  ASSUME NEW p, NEW r, NEW sizes, r.candidates \in Nat, sizes.profile \in Nat
  PROVE  LET s == OptionSizes(p, r, sizes)
         IN  /\ DOMAIN s = (IF p = "laya" THEN 1 .. 3 ELSE 1 .. 1)
             /\ \A q \in DOMAIN s : Sized(s[q])
<1> DEFINE plain(n) == [i \in 1 .. n |-> 8]
           s == OptionSizes(p, r, sizes)
<1>1. \A n \in Nat : Sized(plain(n))
  <2> SUFFICES ASSUME NEW n \in Nat PROVE Sized(plain(n))
    OBVIOUS
  <2>1. plain(n) \in [1 .. n -> Nat]
    OBVIOUS
  <2> HIDE DEF plain
  <2>2. QED BY <2>1 DEF Sized
<1>2. CASE p = "laya"
  <2> DEFINE a == plain(4)
             b == [i \in 1 .. r.candidates |-> sizes.profile]
             c == plain(Cardinality(Reasons))
  <2>1. s = <<a, b, c>>
    BY <1>2 DEF OptionSizes
  <2>2. Cardinality(Reasons) \in Nat
    BY ParticipationAssumption, FS_CardinalityType
  <2>3. Sized(a) /\ Sized(c)
    <3> HIDE DEF plain
    <3>1. QED BY <1>1, <2>2
  <2>4. Sized(b)
    <3>1. b \in [1 .. r.candidates -> Nat]
      OBVIOUS
    <3> HIDE DEF b
    <3>2. QED BY <3>1 DEF Sized
  <2> HIDE DEF a, b, c, s
  <2>5. DOMAIN s = 1 .. 3 /\ s[1] = a /\ s[2] = b /\ s[3] = c
    BY <2>1
  <2>6. \A q \in 1 .. 3 : q = 1 \/ q = 2 \/ q = 3
    OBVIOUS
  <2>7. DOMAIN s = (IF p = "laya" THEN 1 .. 3 ELSE 1 .. 1) /\ \A q \in DOMAIN s : Sized(s[q])
    BY <1>2, <2>3, <2>4, <2>5, <2>6
  <2>8. QED BY <2>7 DEF s
<1>3. CASE p # "laya"
  <2> DEFINE moves == MoveOptions(p, r)
             profiles == [i \in DOMAIN moves |-> IF moves[i].slot > 0 THEN sizes.profile ELSE 8]
             a == IF p = "move" THEN profiles ELSE plain(Len(moves))
  <2>1. s = <<a>>
    BY <1>3 DEF OptionSizes
  <2>2. moves \in Seq(OptionSet)
    BY MoveOptionsAre
  <2> HIDE DEF moves
  <2>3. Len(moves) \in Nat /\ DOMAIN moves = 1 .. Len(moves)
    BY <2>2
  <2>4. Sized(profiles)
    <3>1. profiles \in [1 .. Len(moves) -> Nat]
      BY <2>3
    <3> HIDE DEF profiles
    <3>2. QED BY <2>3, <3>1 DEF Sized
  <2>5. Sized(plain(Len(moves)))
    <3> HIDE DEF plain
    <3>1. QED BY <1>1, <2>3
  <2> HIDE DEF profiles, plain
  <2>6. Sized(a)
    BY <2>4, <2>5
  <2> HIDE DEF a, s
  <2>7. DOMAIN s = 1 .. 1 /\ s[1] = a
    BY <2>1
  <2>8. \A q \in 1 .. 1 : q = 1
    OBVIOUS
  <2>9. DOMAIN s = (IF p = "laya" THEN 1 .. 3 ELSE 1 .. 1) /\ \A q \in DOMAIN s : Sized(s[q])
    BY <1>3, <2>6, <2>7, <2>8
  <2>10. QED BY <2>9 DEF s
<1>4. QED BY <1>2, <1>3

\* What a predictor goes on with is read whole.
LEMMA ReadWhole ==
  ASSUME CaseOk(case), WithinBudget(case.predictor, case.request, case.sizes),
         NEW q \in DOMAIN OptionSizes(case.predictor, case.request, case.sizes)
  PROVE  LET s == Sequences(case.predictor, case.request, case.sizes)[q]
             asked == OptionSizes(case.predictor, case.request, case.sizes)[q]
         IN  /\ s.state = case.sizes.state /\ s.lost = 0 /\ Len(s.markers) = Len(asked)
             /\ case.predictor # "laya" => s.head = case.sizes.head /\ s.options = asked
<1> DEFINE p == case.predictor
           r == case.request
           sizes == case.sizes
           options == OptionSizes(p, r, sizes)
           all == Sequences(p, r, sizes)
           s == all[q]
           asked == options[q]
<1>1. /\ r.candidates \in Nat /\ sizes.head \in Nat /\ sizes.profile \in Nat
      /\ sizes.state \in Nat /\ sizes.state > 0
  BY DEF CaseOk
<1>2. MaxLen \in Nat /\ HeadMax \in Nat
  BY ParticipationAssumption
<1>3. all = [x \in DOMAIN options |-> BuildSequence(MaxLen, HeadMax, sizes.head, options[x], sizes.state)]
  BY DEF Sequences
<1>4. /\ p # "laya" => OptionsWhole(options[1], sizes.head)
      /\ \A x \in DOMAIN all : ~all[x].truncated /\ Len(all[x].markers) = Len(all[x].options)
  BY DEF WithinBudget
<1>5. DOMAIN options = (IF p = "laya" THEN 1 .. 3 ELSE 1 .. 1) /\ \A x \in DOMAIN options : Sized(options[x])
  <2> HIDE DEF p, r, sizes
  <2>1. QED BY <1>1, SizesAre
<1> HIDE DEF p, r, sizes, options, all
<1>6. q \in DOMAIN options
  BY DEF options, p, r, sizes
<1>7. s = BuildSequence(MaxLen, HeadMax, sizes.head, asked, sizes.state) /\ DOMAIN all = DOMAIN options
  BY <1>3, <1>6
<1>8. ~s.truncated /\ Len(s.markers) = Len(s.options)
  BY <1>4, <1>6, <1>7
<1>9. PICK n \in Nat : asked \in [1 .. n -> Nat]
  BY <1>5, <1>6 DEF Sized
<1>10. p # "laya" => OptionsWhole(asked, sizes.head)
  <2>1. p # "laya" => q = 1
    <3>1. \A x \in 1 .. 1 : x = 1
      OBVIOUS
    <3>2. QED BY <1>5, <1>6, <3>1
  <2>2. QED BY <1>4, <2>1
<1> HIDE DEF asked, s
<1>11. BuiltRight(s, n, MaxLen, sizes.state)
  BY <1>1, <1>2, <1>7, <1>9, BuiltIs
<1>12. s.state = sizes.state /\ s.lost = 0
  BY <1>1, <1>8, <1>11 DEF BuiltRight
<1>13. Len(s.markers) = Len(asked)
  <2>1. s.options \in [1 .. n -> Nat]
    BY <1>11 DEF BuiltRight
  <2>2. Len(s.options) = n /\ Len(asked) = n
    BY <1>9, <2>1
  <2>3. QED BY <1>8, <2>2
<1>14. ASSUME p # "laya" PROVE s.head = sizes.head /\ s.options = asked
  <2>1. OptionsWhole(asked, sizes.head)
    BY <1>10, <1>14
  <2>2. Uncut(BuildSequence(MaxLen, HeadMax, sizes.head, asked, sizes.state), sizes.head, asked)
    BY <1>1, <1>2, <1>9, <2>1, BuiltWhole
  <2>3. QED BY <1>7, <2>2 DEF Uncut
<1>15. s.state = sizes.state /\ s.lost = 0 /\ Len(s.markers) = Len(asked)
  BY <1>12, <1>13
<1>16. QED BY <1>14, <1>15 DEF s, asked, all, options, p, r, sizes

-----------------------------------------------------------------------------
(* LayaParticipation: what is made of the answer *)

ChoiceOf(c) ==
  IF c.predictor = "laya" THEN LayaChoice(c.request, c.answer) ELSE MoveChoice(c.predictor, c.request, c.answer)

\* Not yet read, refused, or read and so answered.
ParticipationInv ==
  /\ CaseOk(case)
  /\ \/ choice = Unread /\ shown = <<>> /\ verdict = "none"
     \/ choice = Refusal /\ shown = <<>> /\ verdict \in {"none", Reason(case.request, Refusal)}
     \/ /\ WithinBudget(case.predictor, case.request, case.sizes)
        /\ shown = Sequences(case.predictor, case.request, case.sizes)
        /\ choice = ChoiceOf(case) /\ choice # Unread
        /\ verdict \in {"none", Reason(case.request, choice)}

\* What is decided of a choice that was answered.
LEMMA DecidedChoice ==
  ASSUME NEW c, CaseOk(c), Reason(c.request, ChoiceOf(c)) = "decided"
  PROVE  /\ c.answer.confidence = "enough"
         /\ c.answer.action \in c.request.allowed
         /\ ChoiceOf(c).action = c.answer.action
         /\ ChoiceOf(c).slot = (IF ChoiceOf(c).action \in {"wait", "finish"} THEN 0 ELSE c.answer.speaker)
         /\ ChoiceOf(c).slot <= c.request.candidates
         /\ ChoiceOf(c).action = "clarify" => c.predictor = "laya" /\ c.answer.about \in Tasks
<1> DEFINE x == ChoiceOf(c)
           a == c.answer
           r == c.request
<1>1. /\ x.action # "abstain" /\ x.confidence \notin {"nan", "zero", "low"}
      /\ Valid(r, x)
  BY DEF Reason
<1>2. /\ a.confidence \in {"missing", "nan", "low", "enough"} /\ a.speaker \in Nat /\ r.candidates \in Nat
  BY DEF CaseOk
<1>3. /\ x.action \in r.allowed /\ x.slot \in 0 .. r.candidates
      /\ x.action \in {"respond", "clarify"} <=> x.slot > 0
  BY <1>1 DEF Valid
<1>4. CASE c.predictor = "laya"
  <2>1. x = LayaChoice(r, a)
    BY <1>4 DEF ChoiceOf
  <2> HIDE DEF x, a, r
  <2>2. \A k : Choice("abstain", 0, k).action = "abstain"
    BY DEF Choice
  <2>3. /\ a.action \in {"respond", "clarify", "wait", "finish"} /\ a.confidence # "missing"
        /\ IF a.action \in {"wait", "finish"} THEN x = Choice(a.action, 0, a.confidence)
           ELSE x = Choice(a.action, a.speaker, a.confidence) /\ ~ (a.action = "clarify" /\ a.about \notin Tasks)
    BY <1>1, <2>1, <2>2 DEF LayaChoice
  <2>4. x.action = a.action /\ x.confidence = a.confidence
    BY <2>3 DEF Choice
  <2>5. x.slot = IF a.action \in {"wait", "finish"} THEN 0 ELSE a.speaker
    BY <2>3 DEF Choice
  <2>6. a.confidence = "enough"
    BY <1>1, <1>2, <2>3, <2>4
  <2>7. x.slot <= r.candidates
    BY <1>2, <1>3
  <2>8. x.action = "clarify" => c.predictor = "laya" /\ a.about \in Tasks
    BY <1>4, <2>3, <2>4
  <2>9. QED BY <1>3, <2>4, <2>5, <2>6, <2>7, <2>8 DEF x, a, r
<1>5. CASE c.predictor # "laya"
  <2>1. x = MoveChoice(c.predictor, r, a)
    BY <1>5 DEF ChoiceOf
  <2> HIDE DEF x, a, r
  <2>2. \A k : Choice("abstain", 0, k).action = "abstain"
    BY DEF Choice
  <2>3. /\ a.confidence # "missing" /\ a.action \notin {"abstain", "clarify"}
        /\ x = Choice(a.action, a.speaker, a.confidence)
    BY <1>1, <2>1, <2>2 DEF MoveChoice
  <2>4. x.action = a.action /\ x.confidence = a.confidence /\ x.slot = a.speaker
    BY <2>3 DEF Choice
  <2>5. a.confidence = "enough"
    BY <1>1, <1>2, <2>3, <2>4
  <2>6. x.action \in {"wait", "finish"} => x.slot = 0
    <3>1. x.action \in {"wait", "finish"} => x.action \notin {"respond", "clarify"}
      OBVIOUS
    <3>2. \A k \in 0 .. r.candidates : ~ (k > 0) => k = 0
      BY <1>2
    <3>3. QED BY <1>3, <3>1, <3>2
  <2>7. x.slot <= r.candidates
    BY <1>2, <1>3
  <2>8. QED BY <1>3, <2>3, <2>4, <2>5, <2>6, <2>7 DEF x, a, r
<1>6. QED BY <1>4, <1>5

\* No case is decided at first.
LEMMA ParticipationStart == ASSUME Asked(case) PROVE ParticipationInv
BY DEF Asked, ParticipationInv

\* predict(): the case is refused, or read and answered.
LEMMA PredictStep == ASSUME ParticipationInv, Predict PROVE ParticipationInv'
<1>1. choice = Unread /\ case' = case /\ verdict' = verdict
  BY DEF Predict
<1>2. Unread # Refusal
  BY DEF Unread, Refusal, Choice
<1>3. shown = <<>> /\ verdict = "none" /\ CaseOk(case)
  BY <1>1, <1>2 DEF ParticipationInv
<1>4. CASE choice' = Refusal /\ shown' = shown
  BY <1>1, <1>3, <1>4 DEF ParticipationInv
<1>5. CASE /\ WithinBudget(case.predictor, case.request, case.sizes)
           /\ shown' = Sequences(case.predictor, case.request, case.sizes)
           /\ choice' = ChoiceOf(case)
  <2>1. ChoiceOf(case) # Unread
    <3>1. case.answer.confidence # "zero"
      BY <1>3 DEF CaseOk
    <3>2. \A k : Choice("abstain", 0, k) # Unread
      <4> SUFFICES ASSUME NEW k PROVE Choice("abstain", 0, k) # Unread
        OBVIOUS
      <4>1. Choice("abstain", 0, k).action = "abstain" /\ Unread.action = "none"
        BY DEF Choice, Unread
      <4>2. QED BY <4>1
    <3>3. \A b, s, k : k # "zero" => Choice(b, s, k) # Unread
      <4> SUFFICES ASSUME NEW b, NEW s, NEW k, k # "zero" PROVE Choice(b, s, k) # Unread
        OBVIOUS
      <4>1. Choice(b, s, k).confidence = k /\ Unread.confidence = "zero"
        BY DEF Choice, Unread
      <4>2. QED BY <4>1
    <3>4. LayaChoice(case.request, case.answer) # Unread
      BY <3>1, <3>2, <3>3 DEF LayaChoice
    <3>5. MoveChoice(case.predictor, case.request, case.answer) # Unread
      BY <3>1, <3>2, <3>3 DEF MoveChoice
    <3>6. QED BY <3>4, <3>5 DEF ChoiceOf
  <2>2. QED BY <1>1, <1>3, <1>5, <2>1 DEF ParticipationInv
<1>6. QED BY <1>4, <1>5 DEF Predict, ChoiceOf

\* decide_explained(): the reason is that of the choice.
LEMMA DecideStep == ASSUME ParticipationInv, Decide PROVE ParticipationInv'
BY DEF ParticipationInv, Decide

\* Both of them.
LEMMA ParticipationSteps ==
  ASSUME ParticipationInv, [ParticipationNext]_participationVars PROVE ParticipationInv'
<1>1. CASE UNCHANGED participationVars
  BY <1>1 DEF ParticipationInv, participationVars
<1>2. QED BY <1>1, PredictStep, DecideStep DEF ParticipationNext

\* What is read is whole and what is decided was chosen.
LEMMA ParticipationInvSound == ASSUME ParticipationInv PROVE ParticipationSound
<1>1. CASE shown = <<>> /\ (verdict = "none" \/ verdict = Reason(case.request, Refusal))
  <2>1. Reason(case.request, Refusal) = "context_unsupported"
    BY DEF Reason, Refusal, Choice
  <2>2. DOMAIN shown = {} /\ verdict # "decided"
    BY <1>1, <2>1
  <2>3. QED BY <2>2 DEF ParticipationSound, ReadsWhole, DecidesWhatWasChosen
<1>2. CASE /\ WithinBudget(case.predictor, case.request, case.sizes) /\ CaseOk(case)
           /\ shown = Sequences(case.predictor, case.request, case.sizes)
           /\ choice = ChoiceOf(case)
           /\ verdict \in {"none", Reason(case.request, choice)}
  <2> DEFINE options == OptionSizes(case.predictor, case.request, case.sizes)
  <2>1. DOMAIN shown = DOMAIN options
    BY <1>2 DEF Sequences
  <2>2. ReadsWhole
    BY <1>2, <2>1, ReadWhole DEF ReadsWhole
  <2>3. ASSUME verdict = "decided" PROVE shown # <<>>
    <3>1. case.request.candidates \in Nat /\ case.sizes.profile \in Nat
      BY <1>2 DEF CaseOk
    <3>2. DOMAIN options = (IF case.predictor = "laya" THEN 1 .. 3 ELSE 1 .. 1)
      BY <3>1, SizesAre
    <3>3. 1 \in 1 .. 3 /\ 1 \in 1 .. 1
      OBVIOUS
    <3> HIDE DEF options
    <3>4. 1 \in DOMAIN shown
      BY <2>1, <3>2, <3>3
    <3>5. QED BY <3>4
  <2>4. DecidesWhatWasChosen
    <3> SUFFICES ASSUME verdict = "decided" PROVE DecidesWhatWasChosen
      BY DEF DecidesWhatWasChosen
    <3>1. Reason(case.request, ChoiceOf(case)) = "decided"
      BY <1>2
    <3>2. QED BY <1>2, <2>3, <3>1, DecidedChoice DEF DecidesWhatWasChosen
  <2>5. QED BY <2>2, <2>4 DEF ParticipationSound
<1>3. QED BY <1>1, <1>2 DEF ParticipationInv

\* What predict() decides is decided on what the caller sent and answers it, of
\* participation requests and of batches of questions: any requests, sizes and
\* limits, any checkpoint and backend, any answers of the model.
THEOREM DecisionsAreSound == AnswersSpec /\ ParticipationSpec => []DecisionsSound
<1>1. Asked(case) => ParticipationInv
  BY ParticipationStart
<1>2. ParticipationInv /\ [ParticipationNext]_participationVars => ParticipationInv'
  BY ParticipationSteps
<1>3. ParticipationInv => ParticipationSound
  BY ParticipationInvSound
<1>4. ParticipationSpec => []ParticipationSound
  BY <1>1, <1>2, <1>3, PTL DEF ParticipationSpec
<1>5. ParticipationSound /\ AnswersSound => DecisionsSound
  BY DEF DecisionsSound
<1>6. QED BY <1>4, <1>5, AnswersAreOwn, PTL

=============================================================================
