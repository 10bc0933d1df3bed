---------------------------- MODULE SmartHomeEval ----------------------------
(***************************************************************************)
(* laya/evals/smart-home: run_eval.py asks a service three questions about *)
(* every case and scores it beside a keyword baseline; make_report.py and  *)
(* compare_models.py read what the runs of several models left behind.     *)
(*                                                                         *)
(* A run writes predictions.jsonl and then summary.json, may be killed     *)
(* between them, and may be of fewer scenarios than another.  An utterance *)
(* is what the word lists find in it.                                      *)
(*                                                                         *)
(* Not here: wording and layout, latencies, percentages.  RealEval and     *)
(* PipelineRun are the two other evaluations; they share no file with this *)
(* one, and only the last property speaks of all three.                    *)
(***************************************************************************)
EXTENDS RealEval, PipelineRun

CONSTANTS
  Cases,           (* id -> [scenario, home, text, intent, devices, actions];
                      an empty set of devices or actions is "not given"   *)
  CaseHomes,       (* home -> sequence of [name, room, type, category]    *)
  Models,          (* labels in the order of MODELS; the first is the base *)
  Backends,        (* labels of the same model on other backends, with the base *)
  Says,            (* label -> id -> [intent, device, action] triples the
                      service may answer                                  *)
  ScenarioSets     (* --scenarios                                         *)

\* Every case has its home, every home an order of its devices, and there is a
\* base to compare with.
ASSUME EvalAssumption ==
  /\ IsFiniteSet(DOMAIN Cases)
  /\ \A id \in DOMAIN Cases : Cases[id].home \in DOMAIN CaseHomes
  /\ \A h \in DOMAIN CaseHomes : DOMAIN CaseHomes[h] \subseteq Nat
  /\ DOMAIN Models \subseteq Nat
  /\ Models # <<>> /\ Models[1] \in Backends

VARIABLES
  results,         (* label -> [preds, summary]: the two files            *)
  evalRun,         (* the run in progress: its label and its rows         *)
  whole,           (* labels whose two files are of one run               *)
  comparison       (* COMPARISON.md or REPORT.md, until the next run      *)

homeVars == <<results, evalRun, whole, comparison>>

NoFile == [is |-> "none"]
Multi == "several"
None == "none of them"
Dims == <<"intent", "device", "action">>
DimSet == {"intent", "device", "action"}

-----------------------------------------------------------------------------
(* rule_baseline() *)

\* A text has the types and rooms that are named, any type word at all, and
\* the kinds of words in it, "actions" in the order the rules try them.
TypeHit(text, d) == d.type \in text.types
RoomHit(text, d) == d.room \in text.rooms

EarliestOf(places) == CHOOSE i \in places : \A j \in places : i <= j

\* max(scored, key=...): the first of those named with their room, else the
\* first named.
BestNamed(text, home) ==
  LET named == {i \in DOMAIN home : TypeHit(text, home[i])}
      roomed == {i \in named : RoomHit(text, home[i])}
  IN  home[EarliestOf(IF roomed # {} THEN roomed ELSE named)].name

Categories(text, home) ==
  {home[i].category : i \in {j \in DOMAIN home :
     TypeHit(text, home[j]) /\ home[j].category # "sensor"}}

BaselineDevice(text, home) ==
  IF "multi" \in text.kinds \/ Cardinality(Categories(text, home)) >= 2 THEN Multi
  ELSE IF \E i \in DOMAIN home : TypeHit(text, home[i]) THEN BestNamed(text, home)
  ELSE IF text.types # {} THEN None ELSE "nothing"

RuleBaseline(text, home) ==
  LET device == BaselineDevice(text, home)
  IN  [intent |-> IF device # "nothing" /\ "query" \in text.kinds THEN "query"
                  ELSE IF device # "nothing" /\ "control" \in text.kinds THEN "control"
                  ELSE "neither",
       device |-> IF device = "nothing" THEN None ELSE device,
       action |-> IF text.actions = <<>> THEN "nothing" ELSE Head(text.actions)]

-----------------------------------------------------------------------------
(* score(), metrics() and the rows of main() *)

\* device_question(): a home's devices and the two special options.
DeviceOptions(home) == {home[i].name : i \in DOMAIN home} \union {Multi, None}

\* The questions a case is scored on.
Scored(c) ==
  {"intent"} \union (IF c.devices = {} THEN {} ELSE {"device"})
             \union (IF c.actions = {} THEN {} ELSE {"action"})

Gold(c, dim) == CASE dim = "intent" -> {c.intent}
                  [] dim = "device" -> c.devices
                  [] dim = "action" -> c.actions

Right(c, pred, d) == pred[d] \in Gold(c, d)

EndToEnd(c) == IF c.intent = "control" THEN {"e2e"} ELSE {}

\* What is not given counts as right in e2e_ok.
ScoreOf(c, pred) ==
  [d \in Scored(c) \union EndToEnd(c) |->
     IF d = "e2e" THEN \A k \in Scored(c) : Right(c, pred, k) ELSE Right(c, pred, d)]

Of(rows, key, which) == {id \in DOMAIN rows : key \in DOMAIN rows[id][which]}

\* rate(): how many have the key, and how many are right.
Rate(rows, key, which) ==
  [n |-> Cardinality(Of(rows, key, which)),
   right |-> Cardinality({id \in Of(rows, key, which) : rows[id][which][key]})]

\* control_detection: true, predicted and gold positives.
Detected(rows, pred) ==
  LET gold == {id \in DOMAIN rows : Cases[id].intent = "control"}
      said == {id \in DOMAIN rows : rows[id][pred].intent = "control"}
  IN  [tp |-> Cardinality(gold \intersect said), pp |-> Cardinality(said),
       gp |-> Cardinality(gold)]

Metrics(rows, which, pred) ==
  [rates |-> [k \in {"intent", "device", "action", "e2e"} |-> Rate(rows, k, which)],
   control |-> Detected(rows, pred)]

PredRow(id, pred) ==
  LET c == Cases[id]
      base == RuleBaseline(c.text, CaseHomes[c.home])
  IN  [pred |-> pred, score |-> ScoreOf(c, pred),
       basePred |-> base, baseScore |-> ScoreOf(c, base)]

OfScenario(rows, s) ==
  LET ids == {id \in DOMAIN rows : Cases[id].scenario = s}
  IN  [id \in ids |-> rows[id]]
Scenarios(rows) == {Cases[id].scenario : id \in DOMAIN rows}

Summary(rows) ==
  [is |-> "summary",
   model |-> Metrics(rows, "score", "pred"),
   baseline |-> Metrics(rows, "baseScore", "basePred"),
   byScenario |-> [s \in Scenarios(rows) |-> Metrics(OfScenario(rows, s), "score", "pred")]]

-----------------------------------------------------------------------------
(* run_eval.py *)

RunLabels == {Models[i] : i \in DOMAIN Models} \union Backends
Nobody == [at |-> "idle"]

HomeInit ==
  /\ results = [m \in RunLabels |-> [preds |-> NoFile, summary |-> NoFile]]
  /\ evalRun = Nobody /\ whole = {} /\ comparison = NoFile

LoadCases(only) == {id \in DOMAIN Cases : Cases[id].scenario \in only}

\* Every case of the scenarios chosen is asked, in one process and in memory.
AskCases ==
  /\ evalRun = Nobody
  /\ \E label \in RunLabels, only \in ScenarioSets :
       LET ids == LoadCases(only)
       IN  \E pred \in {f \in [ids -> UNION {Says[label][id] : id \in ids}] :
                          \A id \in ids : f[id] \in Says[label][id]} :
             evalRun' = [at |-> "asked", label |-> label,
                         rows |-> [id \in ids |-> PredRow(id, pred[id])]]
  /\ comparison' = NoFile
  /\ UNCHANGED <<results, whole>>

WritePredictions ==
  /\ evalRun.at = "asked"
  /\ results' = [results EXCEPT ![evalRun.label].preds = [is |-> "rows", rows |-> evalRun.rows]]
  /\ whole' = whole \ {evalRun.label}
  /\ evalRun' = [evalRun EXCEPT !.at = "predictions"]
  /\ UNCHANGED comparison

WriteSummary ==
  /\ evalRun.at = "predictions"
  /\ results' = [results EXCEPT ![evalRun.label].summary = Summary(evalRun.rows)]
  /\ whole' = whole \union {evalRun.label}
  /\ evalRun' = Nobody
  /\ UNCHANGED comparison

\* The service stops answering, or the process is killed.
EvalKilled ==
  /\ evalRun # Nobody
  /\ evalRun' = Nobody
  /\ UNCHANGED <<results, whole, comparison>>

-----------------------------------------------------------------------------
(* compare_models.py and make_report.py *)

RowsOf(m) == results[m].preds.rows
RunsThere == {i \in DOMAIN Models : results[Models[i]].preds # NoFile}
PresentRuns == {Models[i] : i \in RunsThere}
BaseRun == Models[EarliestOf(RunsThere)]
Base == RowsOf(BaseRun)

\* e2e_ok() of one answer per dimension, each of some model.
Combined(id, pick) ==
  \A k \in 1 .. 3 :
    LET gold == Gold(Cases[id], Dims[k])
    IN  gold # {} => RowsOf(pick[k])[id].pred[Dims[k]] \in gold

Controls == {id \in DOMAIN Base : Cases[id].intent = "control"}
Ok(m, id, d) == RowsOf(m)[id].score[d]
AnyOk(id, d) == \E m \in PresentRuns : Ok(m, id, d)
ScoredOn(d) == {id \in DOMAIN Base : d \in DOMAIN Base[id].score}

\* A file that is missing, a case of the base that another run has not got,
\* or nothing to divide by raises, and nothing is written.
Comparable ==
  /\ PresentRuns # {}
  /\ \A m \in PresentRuns : results[m].summary # NoFile /\ DOMAIN Base \subseteq DOMAIN RowsOf(m)
  /\ Controls # {}
  /\ \A d \in DimSet : ScoredOn(d) # {}

Compare ==
  /\ evalRun = Nobody /\ Comparable
  /\ comparison' =
       [is |-> "comparison",
        base |-> BaseRun,
        sound |-> PresentRuns \subseteq whole,
        cases |-> Cardinality(DOMAIN Base),
        summaries |-> [m \in PresentRuns |-> results[m].summary.model.rates],
        fixed |-> [m \in PresentRuns |-> [d \in DimSet |->
           Cardinality({id \in ScoredOn(d) : ~Base[id].score[d] /\ Ok(m, id, d)})]],
        broke |-> [m \in PresentRuns |-> [d \in DimSet |->
           Cardinality({id \in ScoredOn(d) : Base[id].score[d] /\ ~Ok(m, id, d)})]],
        combos |-> [pick \in [1 .. 3 -> PresentRuns] |->
           Cardinality({id \in Controls : Combined(id, pick)})],
        oracle |-> [d \in DimSet |->
           Cardinality({id \in ScoredOn(d) : AnyOk(id, d)})],
        hard |-> {id \in DOMAIN Base : \E d \in {"intent", "device"} :
           id \in ScoredOn(d) /\ ~AnyOk(id, d)}]
  /\ UNCHANGED <<results, evalRun, whole>>

\* make_report.py: the runs without another model's name, against the primary.
Plain == {m \in Backends : results[m].summary # NoFile}

Report ==
  /\ evalRun = Nobody /\ Models[1] \in Plain
  /\ \A m \in Plain : DOMAIN RowsOf(m) \subseteq DOMAIN RowsOf(Models[1])
  /\ comparison' =
       [is |-> "report",
        sound |-> Plain \subseteq whole,
        cases |-> [m \in Plain |-> Cardinality(DOMAIN RowsOf(m))],
        summaries |-> [m \in Plain |-> results[m].summary.model.rates],
        same |-> [m \in Plain |-> Cardinality({id \in DOMAIN RowsOf(m) :
           RowsOf(m)[id].pred = RowsOf(Models[1])[id].pred})]]
  /\ UNCHANGED <<results, evalRun, whole>>

HomeNext ==
  \/ AskCases \/ WritePredictions \/ WriteSummary \/ EvalKilled \/ Compare \/ Report

HomeSpec == HomeInit /\ [][HomeNext]_homeVars

-----------------------------------------------------------------------------
(* Properties *)

\* The baseline answers what is among the options of the case.
BaselineInOptions ==
  evalRun.at # "idle" => \A id \in DOMAIN evalRun.rows :
    evalRun.rows[id].basePred.device \in DeviceOptions(CaseHomes[Cases[id].home])

\* Two scripts with two definitions of a right answer agree: what a model
\* fixed and broke makes up its accuracy, the answers of one model put together
\* are its own end-to-end score, no combination beats what any model knows,
\* and no case that is called hard is solved by anybody.
ComparisonAddsUp ==
  comparison.is = "comparison" /\ comparison.sound =>
    \A m \in DOMAIN comparison.summaries :
      LET rates == comparison.summaries[m]
      IN  rates["intent"].n = comparison.cases =>
            /\ \A d \in DimSet :
                 rates[d].right = comparison.summaries[comparison.base][d].right
                                  + comparison.fixed[m][d] - comparison.broke[m][d]
            /\ comparison.combos[[k \in 1 .. 3 |-> m]] = rates["e2e"].right
            /\ \A d \in DimSet : rates[d].right <= comparison.oracle[d]

\* A backend that answers as the primary does has its accuracy.
ReportAgrees ==
  comparison.is = "report" /\ comparison.sound =>
    \A m \in DOMAIN comparison.same :
      /\ comparison.same[m] = comparison.cases[m]
      /\ comparison.cases[m] = comparison.cases[Models[1]]
      => comparison.summaries[m] = comparison.summaries[Models[1]]

\* The reports of the smart-home evaluation say one thing, whichever of the
\* scripts computed it.
HomeReportsAgree == BaselineInOptions /\ ComparisonAddsUp /\ ReportAgrees

(* A reported accuracy is of data that was not trained on and that nobody      *)
(* touched after it was frozen, all scripts that compute it agree, and a gate  *)
(* never fails for one more right answer.                                      *)
EvaluationsHonest == EvaluationHonest /\ HomeReportsAgree /\ GateMonotone

=============================================================================
