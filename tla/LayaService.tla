------------------------------ MODULE LayaService ------------------------------
(***************************************************************************)
(* eidolon_models_laya/service.py: the two POST handlers, the counter that *)
(* refuses what is too much, and the executor with one worker thread that  *)
(* runs predict() (LayaEngine).                                            *)
(*                                                                         *)
(* A step of a handler is what it does between two awaits.  A request that *)
(* is refused for what it says (401, 400, 413) touches no state and is     *)
(* left out.  A client that goes away changes nothing: its handler and its *)
(* work run on.                                                            *)
(***************************************************************************)
EXTENDS LayaEngine

CONSTANTS
  MaxPending       (* settings.max_pending                                *)

(* Which endpoint a request comes to is part of its plan: `participation` says
   so.  The predictors of that endpoint check the length of what they ask and
   their conditions are fixed. *)
ASSUME ServiceAssumption ==
  /\ MaxPending \in Nat \ {0}
  /\ \A p \in AllPlans :
       /\ p.participation \in BOOLEAN
       /\ p.participation => p.long = {} /\ p \notin CyclicPlans

VARIABLES
  reply,           (* "none", "waiting", or the status it was answered with *)
  pending,         (* state["pending"]                                    *)
  queue,           (* work the executor has not started                   *)
  completed        (* participation requests whose completed() has run    *)

serviceVars == <<reply, pending, queue, completed>>
vars == <<speculative, engineVars, serviceVars>>

Init ==
  /\ EngineInit
  /\ reply = [r \in Reqs |-> "none"]
  /\ pending = 0
  /\ queue = <<>>
  /\ completed = {}

\* Requests are named in the order they arrive.
IsNext(r) == reply[r] = "none" /\ \A s \in Reqs : s < r => reply[s] # "none"

Answers(r, status) == reply' = [reply EXCEPT ![r] = status]

-----------------------------------------------------------------------------
(* systemone() and participation_decide(), up to their await *)

Accept(r) ==
  /\ IsNext(r)
  /\ pending < MaxPending
  /\ pending' = pending + 1
  /\ \E p \in Plans[r] : plan' = [plan EXCEPT ![r] = p]
  /\ Answers(r, "waiting")
  /\ queue' = Append(queue, r)
  /\ UNCHANGED <<speculative, job, stage, todo, answers, skipped, need, result, backendVars, completed>>

Busy(r) ==
  /\ IsNext(r)
  /\ pending >= MaxPending
  /\ Answers(r, "busy")
  /\ UNCHANGED <<speculative, engineVars, pending, queue, completed>>

-----------------------------------------------------------------------------
(* The executor: its one thread takes the oldest work. *)

TakeWork ==
  /\ queue # <<>>
  /\ Begin(Head(queue))
  /\ queue' = Tail(queue)
  /\ UNCHANGED <<speculative, plan, reply, pending, completed>>

Over(r) == result[r].is # "none"

-----------------------------------------------------------------------------
(* After the await *)

\* systemone(): the finally clause and the reply are one step.
RespondSystemone(r) ==
  /\ ~plan[r].participation
  /\ reply[r] = "waiting"
  /\ Over(r)
  /\ pending' = pending - 1
  /\ Answers(r, CASE result[r].is = "answers" -> "ok"
                  [] result[r].is = "invalid" -> "invalid_question"
                  [] result[r].is = "failed" -> "internal")
  /\ UNCHANGED <<speculative, engineVars, queue, completed>>

\* completed(), the callback of the executor's future: whether or not anybody
\* still waits for it.
Completed(r) ==
  /\ plan[r].participation
  /\ Over(r)
  /\ r \notin completed
  /\ completed' = completed \union {r}
  /\ pending' = pending - 1
  /\ UNCHANGED <<speculative, engineVars, reply, queue>>

\* The handler, which waits for the same future, comes after its callback.
RespondParticipation(r) ==
  /\ reply[r] = "waiting"
  /\ r \in completed
  /\ Answers(r, IF result[r].is = "answers" THEN "ok" ELSE "internal")
  /\ UNCHANGED <<speculative, engineVars, pending, queue, completed>>

\* Mutant: the deadline handler also frees the place in the count.
DeadlineFrees(r) ==
  /\ plan[r].participation
  /\ reply[r] = "waiting"
  /\ Answers(r, "deadline")
  /\ pending' = IF r \in completed THEN pending ELSE pending - 1
  /\ completed' = completed \union {r}
  /\ UNCHANGED <<speculative, engineVars, queue>>

\* timeout_ms have passed; the work goes on, and so does its place in the
\* count.  The timer may also win against a result that is already there.
Deadline(r) ==
  /\ plan[r].participation
  /\ reply[r] = "waiting"
  /\ Answers(r, "deadline")
  /\ UNCHANGED <<speculative, engineVars, pending, queue, completed>>

-----------------------------------------------------------------------------
Arrive == \E r \in Reqs : Accept(r) \/ Busy(r)
Engine == (WorkerStep \/ CoreStep) /\ UNCHANGED <<speculative, serviceVars>>
Worker == WorkerStep /\ UNCHANGED <<speculative, serviceVars>>
Handler(r) == RespondSystemone(r) \/ Completed(r) \/ RespondParticipation(r)

Next ==
  \/ Arrive
  \/ TakeWork
  \/ Engine
  \/ \E r \in Reqs : Handler(r) \/ Deadline(r)

\* Threads run and inferences return unless they hang, the event loop runs
\* what is due, and timers fire.  Clients owe nothing.
Fairness ==
  /\ WF_vars(TakeWork)
  /\ WF_vars(Worker)
  /\ \A c \in Cores : WF_vars(/\ \E t \in threads : t.core = c /\ (Infer(t) \/ Finished(t))
                              /\ UNCHANGED <<speculative, serviceVars>>)
  /\ \A r \in Reqs : WF_vars(Handler(r)) /\ WF_vars(Deadline(r))

Spec == Init /\ [][Next]_vars
FairSpec == Spec /\ Fairness

-----------------------------------------------------------------------------
(* "Callers beyond max_pending get 503 immediately instead of joining an
   unbounded queue": the work the executor has or is at is never more than
   max_pending, also when participation callers give up at their deadline and
   ask again, and a place is given back once per accepted request. *)
BacklogBounded ==
  LET accepted == {r \in Reqs : reply[r] \notin {"none", "busy"}}
      unfinished == {r \in accepted : result[r].is = "none"}
      held == {r \in accepted : IF plan[r].participation
                                THEN r \notin completed ELSE reply[r] = "waiting"}
  IN  /\ unfinished \subseteq held
      /\ Cardinality(held) = pending
      /\ pending <= MaxPending

(* Requests are answered: every participation caller, whatever the NPU does,
   and every systemone caller unless a core hangs; in particular no request
   waits for ever for the lock of a batch that was started for nothing, and
   no set of conditions keeps the worker in its loop. *)
EveryoneAnswered ==
  \A r \in Reqs :
    reply[r] = "waiting" ~>
      \/ reply[r] # "waiting"
      \/ ~plan[r].participation /\ \E t \in threads : t.at = "hung"

=============================================================================
