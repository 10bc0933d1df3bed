------------------------------ MODULE PaidCalls ------------------------------
(***************************************************************************)
(* The training data bought from a paid API, by four scripts under         *)
(* laya/train/scenarios that each keep one file per call in calls/:        *)
(*   "v3"    ip-team-v3/generate_glm.py, a plan of numbered calls          *)
(*   "v5"    ip-team-v5/generate_glm.py, per slice a call that generates   *)
(*           and one that reviews, both through paid()                     *)
(*   "v7"    ip-team-v7/generate.py, which takes paid() from v5            *)
(*   "words" participation/glm_generate.py, batches of a plan of episodes, *)
(*           with one ledger for every use                                 *)
(*                                                                         *)
(* One process of one script runs at a time; it can be killed between any  *)
(* two of its writes, and is then run again.  A file written under another *)
(* name and renamed (atomic_json, atomic_text) is one write, and so is an  *)
(* appended line.                                                          *)
(***************************************************************************)
EXTENDS Integers, Sequences, FiniteSets

CONSTANTS
  N,             (* slices, or planned episodes, 1 .. N in plan order     *)
  Quota,         (* v3: paid calls per slice                              *)
  Limit,         (* v5, v7: max_paid_calls; words: CAP                    *)
  PerRun         (* --count, --batches, --calls                           *)

ASSUME PaidAssumption ==
  N \in Nat \ {0} /\ Quota \in 1..20 /\ Limit \in Nat \ {0} /\ PerRun \in 1..8

VARIABLES
  script,        (* which of the four, never changed                      *)
  ledger,        (* calls/: the status of every call that has a file      *)
  paid,          (* how often the API was asked for a call                *)
  responses,     (* responses/, raw/: what was kept of the answers        *)
  done,          (* drafts/ (calls), reviewed/ (slices) or the episodes   *)
                 (* in episodes.jsonl and rejected.jsonl                  *)
  run            (* the process: where it is, its call, what it has to do *)

paidVars == <<script, ledger, paid, responses, done, run>>

Slices == 1..N
Parts == 1..(Quota + Limit)
Calls == Slices \X Parts
Generate(slice) == <<slice, 1>>
Review(slice) == <<slice, 2>>

Idle == [at |-> "idle", call |-> Generate(1), todo |-> <<>>, made |-> 0, answer |-> "none"]

AnswerOf(call) == (CHOOSE r \in responses : r.call = call).answer
Kept(call) == \E r \in responses : r.call = call
Pending == \E c \in DOMAIN ledger : ledger[c] = "pending"
Record(call, status) == [c \in DOMAIN ledger \union {call} |-> IF c = call THEN status ELSE ledger[c]]

\* The slices, or episodes, not done yet, in plan order.
Remaining ==
  {todo \in [1..Cardinality(Slices \ done) -> Slices \ done] :
     \A i \in DOMAIN todo : \A j \in 1..(i - 1) : todo[j] < todo[i]}

PaidInit ==
  /\ script \in {"v3", "v5", "v7", "words"}
  /\ ledger = [c \in {} |-> "pending"]
  /\ paid = [c \in Calls |-> 0]
  /\ responses = {} /\ done = {} /\ run = Idle

-----------------------------------------------------------------------------
(* v3: schedule() takes the slices in turn, round after round, until their  *)
(* quotas or --count are reached; every file in calls/ counts.              *)

Used(slice) == Cardinality({c \in DOMAIN ledger : c[1] = slice})

\* A slice's calls that are not in calls/ yet, and the order of the rounds.
Unpaid == {c \in Slices \X (1..Quota) : c[2] > Used(c[1])}
InTurn(c, d) ==
  LET round(x) == x[2] - Used(x[1])
  IN round(c) < round(d) \/ (round(c) = round(d) /\ c[1] < d[1])

\* The first PerRun of them, in that order.
Schedule ==
  {todo \in UNION {[1..n -> Unpaid] : n \in 0..PerRun} :
     /\ \A i \in DOMAIN todo : \A j \in 1..(i - 1) : InTurn(todo[j], todo[i])
     /\ \A c \in Unpaid :
          \/ \E i \in DOMAIN todo : todo[i] = c
          \/ Len(todo) = PerRun /\ \A i \in DOMAIN todo : InTurn(todo[i], c)}

V3Start ==
  /\ script = "v3" /\ run.at = "idle"
  /\ ~Pending                 \* or "interrupted paid call; inspect before retrying"
  /\ \E todo \in Schedule : run' = [Idle EXCEPT !.at = "next", !.todo = todo]
  /\ UNCHANGED <<script, ledger, paid, responses, done>>

V3Next ==
  /\ script = "v3" /\ run.at = "next"
  /\ IF run.todo = <<>>
     THEN run' = Idle /\ UNCHANGED ledger
     ELSE /\ run' = [run EXCEPT !.at = "send", !.call = Head(run.todo), !.todo = Tail(run.todo)]
          /\ ledger' = Record(Head(run.todo), "pending")
  /\ UNCHANGED <<script, paid, responses, done>>

\* complete_with_meta(): the request is on its way, and paid for, before
\* anything is known of its answer: one to use, one that is JSON but not what
\* was asked for, one that is no JSON, or an error.
Send ==
  /\ run.at = "send"
  /\ paid' = [paid EXCEPT ![run.call] = @ + 1]
  /\ \E answer \in {"good", "unusable", "no_json", "error"} : run' = [run EXCEPT !.at = "answered", !.answer = answer]
  /\ UNCHANGED <<script, ledger, responses, done>>

KeepAnswer ==
  /\ run.at = "answered" /\ run.answer # "error"
  /\ responses' = responses \union {[call |-> run.call, answer |-> run.answer]}
  /\ run' = [run EXCEPT !.at = "kept"]
  /\ UNCHANGED <<script, ledger, paid, done>>

\* An API error ends the run, and is never retried.
Failed ==
  /\ script # "words" /\ run.at = "answered" /\ run.answer = "error"
  /\ ledger' = Record(run.call, IF script = "v3" THEN "api_error" ELSE "failed")
  /\ run' = Idle
  /\ UNCHANGED <<script, paid, responses, done>>

\* validate_batch() and validate_pipeline() end the run with a rejected draft.
V3Rejects ==
  /\ script = "v3" /\ run.at = "kept" /\ run.answer # "good"
  /\ ledger' = Record(run.call, "rejected")
  /\ run' = Idle
  /\ UNCHANGED <<script, paid, responses, done>>

V3Drafts ==
  /\ script = "v3" /\ run.at = "kept" /\ run.answer = "good"
  /\ done' = done \union {run.call}
  /\ run' = [run EXCEPT !.at = "drafted"]
  /\ UNCHANGED <<script, ledger, paid, responses>>

V3Drafted ==
  /\ run.at = "drafted"
  /\ ledger' = Record(run.call, "draft_for_review")
  /\ run' = [run EXCEPT !.at = "next"]
  /\ UNCHANGED <<script, paid, responses, done>>

-----------------------------------------------------------------------------
(* v5 and v7: a slice without a file in reviewed/ is generated, then        *)
(* reviewed.                                                                *)

Affordable == script = "v7" => Cardinality(DOMAIN ledger) <= Limit - 2

PairStart ==
  /\ script \in {"v5", "v7"} /\ run.at = "idle"
  /\ \E todo \in Remaining : run' = [Idle EXCEPT !.at = "next", !.todo = todo]
  /\ UNCHANGED <<script, ledger, paid, responses, done>>

\* The next slice, the end of the plan or of --count, or "budget insufficient".
PairNext ==
  /\ script \in {"v5", "v7"} /\ run.at = "next"
  /\ run' = IF run.todo = <<>> \/ run.made = PerRun \/ ~Affordable THEN Idle
            ELSE [run EXCEPT !.at = "buy", !.call = Generate(Head(run.todo)), !.todo = Tail(run.todo)]
  /\ UNCHANGED <<script, ledger, paid, responses, done>>

\* Mutant: a call that is pending or failed is sent again.
BuyAgain ==
  /\ run.at = "buy"
  /\ IF run.call \in DOMAIN ledger /\ ledger[run.call] = "complete"
       THEN /\ run' = [run EXCEPT !.at = "use", !.answer = AnswerOf(run.call)]
            /\ UNCHANGED ledger
       ELSE /\ run' = [run EXCEPT !.at = "send"]
            /\ ledger' = Record(run.call, "pending")
  /\ UNCHANGED <<script, paid, responses, done>>

\* paid(): what is complete is read again; anything else that was ever
\* recorded, any pending call and a full ledger raise.
Buy ==
  /\ run.at = "buy"
  /\ IF ~Pending /\ run.call \in DOMAIN ledger /\ ledger[run.call] = "complete"
       THEN /\ run' = [run EXCEPT !.at = "use", !.answer = AnswerOf(run.call)]
            /\ UNCHANGED ledger
     ELSE IF Pending \/ run.call \in DOMAIN ledger \/ Cardinality(DOMAIN ledger) >= Limit
       THEN run' = Idle /\ UNCHANGED ledger
     ELSE /\ run' = [run EXCEPT !.at = "send"]
          /\ ledger' = Record(run.call, "pending")
  /\ UNCHANGED <<script, paid, responses, done>>

Bought ==
  /\ script \in {"v5", "v7"} /\ run.at = "kept"
  /\ ledger' = Record(run.call, "complete")
  /\ run' = [run EXCEPT !.at = "use"]
  /\ UNCHANGED <<script, paid, responses, done>>

ReviewNext ==
  /\ script \in {"v5", "v7"} /\ run.at = "use"
  /\ run.call = Generate(run.call[1]) /\ run.answer = "good"
  /\ run' = [run EXCEPT !.at = "buy", !.call = Review(run.call[1])]
  /\ UNCHANGED <<script, ledger, paid, responses, done>>

\* v5 cannot go on without JSON, nor with a review that lacks its fields.
Stuck ==
  /\ script = "v5"
  /\ run.answer \in (IF run.call = Review(run.call[1]) THEN {"no_json", "unusable"} ELSE {"no_json"})

\* Written for good: a review, or scenes none of which is fit for one.
Reviewed ==
  /\ script \in {"v5", "v7"} /\ run.at = "use" /\ ~Stuck
  /\ run.call = Generate(run.call[1]) => run.answer # "good"
  /\ done' = done \union {run.call[1]}
  /\ run' = [run EXCEPT !.at = "next", !.made = @ + 1]
  /\ UNCHANGED <<script, ledger, paid, responses>>

Raises ==
  /\ run.at = "use" /\ Stuck
  /\ run' = Idle
  /\ UNCHANGED <<script, ledger, paid, responses, done>>

-----------------------------------------------------------------------------
(* words: a batch of one episode of the plan. *)

WordsStart ==
  /\ script = "words" /\ run.at = "idle"
  /\ \E todo \in Remaining : run' = [Idle EXCEPT !.at = "next", !.todo = todo]
  /\ UNCHANGED <<script, ledger, paid, responses, done>>

\* The ledger's name for a call is new each time.
WordsNext ==
  /\ script = "words" /\ run.at = "next"
  /\ LET used == Cardinality(DOMAIN ledger)
         call == <<Head(run.todo), used + 1>>
     IN IF run.todo = <<>> \/ run.made = PerRun \/ used >= Limit
        THEN run' = Idle /\ UNCHANGED ledger
        ELSE /\ run' = [run EXCEPT !.at = "send", !.call = call, !.todo = Tail(@), !.made = @ + 1]
             /\ ledger' = Record(call, "sent")
  /\ UNCHANGED <<script, paid, responses, done>>

WordsRecorded ==
  /\ script = "words"
  /\ run.at = (IF run.answer = "error" THEN "answered" ELSE "kept")
  /\ ledger' = Record(run.call, IF run.answer \in {"error", "no_json"} THEN "error" ELSE "ok")
  /\ run' = [run EXCEPT !.at = "use"]
  /\ UNCHANGED <<script, paid, responses, done>>

\* check(): to episodes.jsonl or, also after an error, to rejected.jsonl.
WordsAppended ==
  /\ script = "words" /\ run.at = "use"
  /\ done' = done \union {run.call[1]}
  /\ run' = [run EXCEPT !.at = "next"]
  /\ UNCHANGED <<script, ledger, paid, responses>>

-----------------------------------------------------------------------------
Killed ==
  /\ run.at # "idle"
  /\ run' = Idle
  /\ UNCHANGED <<script, ledger, paid, responses, done>>

PaidNext ==
  \/ V3Start \/ V3Next \/ V3Rejects \/ V3Drafts \/ V3Drafted
  \/ PairStart \/ PairNext \/ Buy \/ Bought \/ ReviewNext \/ Reviewed \/ Raises
  \/ WordsStart \/ WordsNext \/ WordsRecorded \/ WordsAppended
  \/ Send \/ KeepAnswer \/ Failed \/ Killed

PaidSpec == PaidInit /\ [][PaidNext]_paidVars

-----------------------------------------------------------------------------
(* No call is paid for twice, and none that is not in the ledger, however
   often the script is killed and run again. *)
PaidOnce == \A c \in Calls : paid[c] <= 1 /\ (paid[c] > 0 => c \in DOMAIN ledger)

(* A call whose file says how it ended still has the answer it ended with:
   the next run reads it instead of paying, and a draft can be traced. *)
AnswersKept ==
  \A c \in DOMAIN ledger : ledger[c] \in {"complete", "rejected", "draft_for_review", "ok"} => Kept(c)

(* What was paid for is not lost and not paid again: both of the above. *)
MoneyWellSpent == PaidOnce /\ AnswersKept

=============================================================================
