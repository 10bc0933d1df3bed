------------------------------ MODULE RealEval ------------------------------
(* The independent evaluation on recorded households: events and adjudicated  *)
(* labels are frozen into a directory, split by household; a checkpoint is    *)
(* scored on the frozen test; a safety gate judges the report at fixed        *)
(* thresholds.  The freeze can be killed between two files, and files can be  *)
(* edited between any two commands.                                           *)
(* Sources: real_data.py, evaluate.py.                                        *)
EXTENDS Integers, Sequences, FiniteSets

CONSTANTS
  EventFiles,    \* events (id, household, fields in order) and event id -> label
  HashOf,        \* household -> its hash, as a number
  TestShare,     \* test_fraction, in tenths
  ScoredAs,      \* what a model may answer to the three questions of an event
  Thresholds,    \* [intent, slots, confirm]
  MinIrrelevant, MinExecuted,  \* 400 and 300
  MissesAllowed, \* by the exact lower bound of 0.99, for that many executed
  FalseAllowed,  \* by the exact upper bound of 0.02, for that many irrelevant
  MaxEdits

\* No two households of a file have one hash, and a share is one of tenths.
ASSUME RealAssumption ==
  /\ TestShare \in 1..9
  /\ \A f \in EventFiles :
       /\ f.events \in Seq({f.events[i] : i \in DOMAIN f.events})
       /\ \A i, j \in DOMAIN f.events :
            /\ HashOf[f.events[i].home] \in Nat
            /\ HashOf[f.events[i].home] = HashOf[f.events[j].home] => f.events[i].home = f.events[j].home
  /\ \A answer \in ScoredAs : answer.p \in Nat /\ answer.sure \in Nat
  /\ Thresholds \subseteq [intent : Nat, slots : Nat, confirm : Nat]

VARIABLES
  freezing,   (* the files prepare_real_eval() still has to write, and from what *)
  freeze,     (* the directory                                               *)
  scored,     (* the report of the last evaluation                           *)
  judgement,  (* of the last gate, and the rows it judged                    *)
  edits

realVars == <<freezing, freeze, scored, judgement, edits>>

Slots == {"device", "action"}
ThreeQuestions == {"intent"} \union Slots
Exits == {"several", "absent"}

NotFrozen == [made |-> FALSE, dev |-> {}, test |-> {}, manifest |-> FALSE, pilot |-> FALSE, digest |-> {}]
NotFreezing == [left |-> <<>>, records |-> {}, tests |-> {}, pilot |-> FALSE]
NotScored == [of |-> "nothing", rows |-> <<>>, provenance |-> FALSE]
NotJudged == [passed |-> FALSE, rows |-> <<>>, taus |-> [intent |-> 0, slots |-> 0, confirm |-> 0]]

-----------------------------------------------------------------------------
(* Freezing *)

\* A label that fits: an intent, and no slots for what is no command.
LabelFits(label) ==
  /\ label.status = "adjudicated" /\ "intent" \in DOMAIN label.gold
  /\ label.gold.intent = "none" => DOMAIN label.gold = {"intent"}

Complete(label) == label.gold.intent = "control" => DOMAIN label.gold = ThreeQuestions

\* The record of an event; one without a label is unverified and has no gold.
EventRecord(event, labels) ==
  IF event.id \in DOMAIN labels
  THEN [id |-> event.id, home |-> event.home, gold |-> labels[event.id].gold, complete |-> Complete(labels[event.id]),
        addressed |-> labels[event.id].addressed, confirm |-> labels[event.id].confirm]
  ELSE [id |-> event.id, home |-> event.home, gold |-> <<>>, complete |-> FALSE, addressed |-> FALSE, confirm |-> FALSE]

Homes(events) == {events[i].home : i \in DOMAIN events}

Readable(events, labels, complete) ==
  /\ \A i \in DOMAIN events : events[i].fine
  /\ \A i, j \in DOMAIN events : events[i].id = events[j].id => i = j
  /\ \A id \in DOMAIN labels : LabelFits(labels[id]) /\ \E i \in DOMAIN events : events[i].id = id
  /\ complete => \A i \in DOMAIN events : EventRecord(events[i], labels).complete

\* The first n households in the order of their hashes.
FirstHomes(homes, n) == {h \in homes : Cardinality({g \in homes : HashOf[g] < HashOf[h]}) < n}

Share(homes) == (Cardinality(homes) * TestShare + 9) \div 10

\* Mutant: one side too many for two households.
TestHomesAll(homes) == FirstHomes(homes, Share(homes))

\* The test's share of them: at least one of each side.
TestHomes(homes) ==
  LET most == Cardinality(homes) - 1
      n == IF Share(homes) < 1 THEN 1 ELSE Share(homes)
  IN FirstHomes(homes, IF n < most THEN n ELSE most)

RealInit ==
  /\ freezing = NotFreezing /\ freeze = NotFrozen
  /\ scored = NotScored /\ judgement = NotJudged /\ edits = 0

\* prepare_real_eval(), up to the directory: everything is read and checked
\* before anything is written, and the directory must be new.
Prepare(events, labels, complete, pilot) ==
  /\ ~freeze.made
  /\ Readable(events, labels, complete)
  /\ Cardinality(Homes(events)) >= 2 \/ pilot
  /\ freeze' = [freeze EXCEPT !.made = TRUE]
  /\ freezing' = [left |-> IF pilot THEN <<"dev", "manifest">> ELSE <<"dev", "test", "manifest">>,
                  records |-> {EventRecord(events[i], labels) : i \in DOMAIN events},
                  tests |-> IF pilot THEN {} ELSE TestHomes(Homes(events)), pilot |-> pilot]
  /\ UNCHANGED <<scored, judgement, edits>>

\* One file after the other; the manifest holds the digest of the test file.
WriteNextFile ==
  /\ freezing.left # <<>>
  /\ freezing' = [freezing EXCEPT !.left = Tail(@)]
  /\ LET tests == {r \in freezing.records : r.home \in freezing.tests}
     IN freeze' = CASE Head(freezing.left) = "dev" -> [freeze EXCEPT !.dev = freezing.records \ tests]
                    [] Head(freezing.left) = "test" -> [freeze EXCEPT !.test = tests]
                    [] OTHER -> [freeze EXCEPT !.manifest = TRUE, !.pilot = freezing.pilot, !.digest = freeze.test]
  /\ UNCHANGED <<scored, judgement, edits>>

KillFreeze ==
  /\ freezing.left # <<>> /\ freezing' = NotFreezing
  /\ UNCHANGED <<freeze, scored, judgement, edits>>

\* Somebody edits the test: a record is gone, or has another gold.
EditTest ==
  /\ edits < MaxEdits /\ edits' = edits + 1
  /\ freezing.left = <<>>
  /\ \E r \in freeze.test : freeze' \in
       {[freeze EXCEPT !.test = @ \ {r}],
        [freeze EXCEPT !.test = (@ \ {r}) \union {[r EXCEPT !.gold = [intent |-> "none"], !.complete = TRUE]}]}
  /\ UNCHANGED <<freezing, scored, judgement>>

-----------------------------------------------------------------------------
(* Scoring *)

\* policy_branch(): a device that stands for none in particular is confirmed.
PolicyBranch(answer, taus) ==
  IF answer.intent = "control" /\ answer.p >= taus.intent /\ answer.sure >= taus.slots /\ answer.device \notin Exits
  THEN "execute"
  ELSE IF answer.intent = "control" \/ answer.p >= taus.confirm THEN "confirm" ELSE "ignore"

\* policy_metrics(), for one pair of thresholds of the sweep.
PolicyMetrics(taus) ==
  [b \in {"execute", "confirm", "ignore"} |-> {id \in DOMAIN scored.rows : PolicyBranch(scored.rows[id], taus) = b}]

\* decision_metrics(): what would be executed at one threshold.
AutoExecute(answer, threshold) == answer.intent = "control" /\ answer.p >= threshold /\ answer.sure >= threshold

\* _answer_status(): wrong is known before everything is.
AnswerStatus(answer, gold) ==
  IF \E q \in DOMAIN gold : answer[q] # gold[q] THEN "wrong"
  ELSE IF DOMAIN gold = ThreeQuestions THEN "right" ELSE "unverified"

\* evaluate() on the test, or on a copy of it elsewhere; the report keeps its
\* rows or not, and has the checkpoint's digests or not.  Bound: one report.
Score(of, keep, provenance) ==
  /\ scored = NotScored /\ freeze.test # {}
  /\ \E rows \in [{r.id : r \in freeze.test} -> ScoredAs] :
       scored' = [of |-> of, rows |-> IF keep THEN rows ELSE <<>>, provenance |-> provenance]
  /\ UNCHANGED <<freezing, freeze, judgement, edits>>

-----------------------------------------------------------------------------
(* real_safety_gate() *)

Judgeable ==
  /\ freeze.manifest /\ ~freeze.pilot
  /\ freeze.test = freeze.digest
  /\ scored.of = "the test"
  /\ \A r \in freeze.test : r.complete
  /\ DOMAIN scored.rows = {r.id : r \in freeze.test}

Allowed(r) == r.addressed /\ ~r.confirm

Proven(taus) ==
  LET executed == {r \in freeze.test : PolicyBranch(scored.rows[r.id], taus) = "execute"}
      irrelevant == {r \in freeze.test : r.gold.intent = "none"}
      of(status) == {r \in executed : Allowed(r) /\ AnswerStatus(scored.rows[r.id], r.gold) = status}
  IN /\ Cardinality(irrelevant) >= MinIrrelevant /\ Cardinality(executed) >= MinExecuted
     /\ of("unverified") = {} /\ scored.provenance
     /\ \A r \in executed : Allowed(r)
     /\ Cardinality(executed \intersect irrelevant) <= FalseAllowed[Cardinality(irrelevant)]
     /\ Cardinality(executed \ of("right")) <= MissesAllowed[Cardinality(executed)]

\* What cannot be judged leaves no result, and a result is never overwritten.
Judge(taus) ==
  /\ judgement = NotJudged /\ scored # NotScored /\ Judgeable
  /\ judgement' = [taus |-> taus, rows |-> scored.rows, passed |-> Proven(taus)]
  /\ UNCHANGED <<freezing, freeze, scored, edits>>

RealNext ==
  \/ (\E f \in EventFiles, complete, pilot \in BOOLEAN : Prepare(f.events, f.labels, complete, pilot))
  \/ WriteNextFile \/ KillFreeze \/ EditTest
  \/ (\E of \in {"the test", "a copy"}, keep, provenance \in BOOLEAN : Score(of, keep, provenance))
  \/ (\E taus \in Thresholds : Judge(taus))

RealSpec == RealInit /\ [][RealNext]_realVars

-----------------------------------------------------------------------------
(* "test is a frozen household holdout": no household is heard on both sides
   and both sides have one, wherever the freeze was killed. *)
HouseholdsApart ==
  freeze.manifest /\ ~freeze.pilot =>
    /\ freeze.digest # {} /\ freeze.dev # {}
    /\ {r.home : r \in freeze.digest} \intersect {r.home : r \in freeze.dev} = {}

(* A passed gate speaks for the test as it was frozen: every record of it was
   answered, nothing is executed that was not addressed to the assistant,
   should have been confirmed or names no single device, and those executed
   otherwise than the labels say are no more than the bound allows. *)
PassIsProven ==
  judgement.passed =>
    LET executed == {r \in freeze.digest : PolicyBranch(judgement.rows[r.id], judgement.taus) = "execute"}
    IN /\ DOMAIN judgement.rows = {r.id : r \in freeze.digest}
       /\ \A r \in executed : Allowed(r) /\ judgement.rows[r.id].device \notin Exits
       /\ Cardinality({r \in executed : AnswerStatus(judgement.rows[r.id], r.gold) # "right"}) <= MissesAllowed[Cardinality(executed)]

(* Sweeping the thresholds: higher ones turn executions into confirmations,
   never into silence, and what the policy executes at a threshold the
   decision metrics count among what would be executed at it. *)
StricterOnlyConfirms ==
  \A s, t \in Thresholds :
    /\ t.intent >= s.intent /\ t.slots >= s.slots /\ t.confirm = s.confirm =>
         /\ PolicyMetrics(t).execute \subseteq PolicyMetrics(s).execute
         /\ PolicyMetrics(t).ignore = PolicyMetrics(s).ignore
    /\ \A id \in PolicyMetrics([t EXCEPT !.slots = t.intent]).execute : AutoExecute(scored.rows[id], t.intent)

(* The evaluation on real households can be trusted. *)
EvaluationHonest == HouseholdsApart /\ PassIsProven /\ StricterOnlyConfirms

=============================================================================
