----------------------------- MODULE PipelineRun -----------------------------
(* run: the stages of a pipeline, one after the other, in the directory of a  *)
(* run, and the gate that compares a checkpoint with an earlier one.  A stage *)
(* may return an error code, raise, or be killed with the run; the pipeline   *)
(* is then run again with the same run id, from its first step, among the     *)
(* files that are there.  What a stage computes is TrainData and TrainLoop.   *)
(* Sources: cli.py, evaluate.py (gate), records.py, package.py.               *)
EXTENDS Integers, Sequences, FiniteSets

CONSTANTS
  Pipelines,  \* sequences of steps [stage, flags, reads, writes, sets, continues]
  EvalSlices, \* name -> the questions in it, of every evaluation set
  Earlier,    \* evaluation set -> what the baseline had right, where it exists
  Results,    \* what a checkpoint may have right
  MinSlice,   \* min_n of gate()
  Tolerance, Alpha,  \* in percent
  MaxAttempts

\* These open what they write before they read.
Lazy == {"gen", "label", "augment"}

\* A stage of the file: what it reads and writes of the run's own files.
StageSteps == [stage : STRING, flags : SUBSET STRING, reads : SUBSET STRING, writes : SUBSET STRING,
               sets : Seq(STRING), continues : BOOLEAN]

(* As the pipelines of train/pipelines are: a stage that opens its output first
   does not read it, evaluations leave the files to others, and each evaluation
   set is asked in one step. *)
ASSUME RunAssumption ==
  /\ MaxAttempts \in Nat /\ Pipelines \subseteq Seq(StageSteps) \ {<<>>}
  /\ \A p \in Pipelines : \A i \in DOMAIN p :
       /\ p[i].stage \in Lazy => p[i].reads \intersect p[i].writes = {}
       /\ p[i].stage = "eval" => p[i].writes = {}
       /\ p[i].stage # "eval" => p[i].sets = <<>>
       /\ \A j \in DOMAIN p \ {i}, a \in DOMAIN p[i].sets :
            \A b \in DOMAIN p[j].sets : p[i].sets[a] # p[j].sets[b]

\* Percentages, and slices one can count.
ASSUME GateAssumption ==
  /\ Tolerance \in Nat /\ Alpha \in Nat /\ MinSlice \in Nat
  /\ \A s \in DOMAIN EvalSlices : IsFiniteSet(EvalSlices[s])

VARIABLES
  pipe,
  attempt,    (* of runs with this run id                                    *)
  stepAt,     (* the step that runs, 0 for none                              *)
  within,     (* how far it is: parsing, running, writing, ended             *)
  stepRc,
  setsLeft,   (* the evaluation sets of the step, and the rows of the first  *)
  rightNow,
  onDisk,     (* file of the run -> [oldest, whole]: the oldest attempt any  *)
              (* of it comes from, and whether it is complete                *)
  gates,      (* evaluation set -> [of, passed, right], the gate file        *)
  runLog,     (* manifest.json: [of, steps]                                  *)
  runRc       (* of the last attempt                                         *)

runVars == <<pipe, attempt, stepAt, within, stepRc, setsLeft, rightNow, onDisk, gates, runLog, runRc>>
fileVars == <<onDisk, gates>>

Step == pipe[stepAt]
Missing == [oldest |-> 0, whole |-> FALSE]
Sets == UNION {{pipe[i].sets[j] : j \in DOMAIN pipe[i].sets} : i \in DOMAIN pipe}

-----------------------------------------------------------------------------
(* The command line of a stage *)

Required ==
  [gen |-> {"scenario", "out"}, label |-> {"input", "out"}, augment |-> {"scenario", "config", "input", "out"},
   assemble |-> {"config", "out"}, train |-> {"config", "dataset", "out"}, calibrate |-> {"checkpoint", "calib"},
   eval |-> {"checkpoint", "eval_set", "out"}, package |-> {"checkpoint", "name"}, export |-> {"model_dir"},
   items |-> {"checkpoint", "eval_set", "out"}, policy |-> {"report"}]

Optional ==
  [gen |-> {"config"},
   label |-> {"teacher", "teacher_kind", "teacher_name", "model", "samples", "sample_temperature", "alpha", "workers", "timeout"},
   augment |-> {}, assemble |-> {"run_dir"}, train |-> {"init", "device", "epochs", "batch_size"},
   calibrate |-> {"min_bucket", "device"}, eval |-> {"baseline", "tolerance", "alpha", "no_rows", "device", "logits"},
   package |-> {"models_root", "run_id", "notes"}, export |-> {"force"}, items |-> {"device"},
   policy |-> {"tau_intent", "tau_slots", "tau_confirm", "out"}]

\* _step_argv(): one flag for each key, and the run's directory for assemble.
Usable(step) ==
  LET flags == step.flags \union (IF step.stage = "assemble" THEN {"run_dir"} ELSE {})
  IN /\ step.stage \in DOMAIN Required
     /\ Required[step.stage] \subseteq flags /\ flags \subseteq Required[step.stage] \union Optional[step.stage]

\* label counts the records its teacher failed on.
Codes(stage) == IF stage = "label" THEN {0, 3} ELSE {0}

-----------------------------------------------------------------------------
(* gate() *)

\* _sign_test_p() is at least Alpha: of all the ways in which questions that
\* changed can be broken or fixed, so many break no fewer.
ByChance(changed, broke) ==
  100 * Cardinality({b \in SUBSET changed : Cardinality(b) >= broke}) >= Alpha * Cardinality(SUBSET changed)

SliceHolds(slice, before, now) ==
  LET dropped == 100 * (Cardinality(before \intersect slice) - Cardinality(now \intersect slice)) > Tolerance * Cardinality(slice)
      broke == (before \ now) \intersect slice
      fixed == (now \ before) \intersect slice
  IN ~dropped \/ ByChance(broke \union fixed, Cardinality(broke))

SlicesHold(before, now) ==
  \A s \in DOMAIN EvalSlices : Cardinality(EvalSlices[s]) >= MinSlice => SliceHolds(EvalSlices[s], before, now)

-----------------------------------------------------------------------------
RunInit ==
  /\ pipe \in Pipelines /\ attempt = 0 /\ stepAt = 0 /\ within = "idle" /\ stepRc = 0
  /\ setsLeft = <<>> /\ rightNow = {}
  /\ onDisk = [f \in UNION {pipe[i].writes : i \in DOMAIN pipe} |-> Missing]
  /\ gates = [s \in Sets |-> [of |-> 0, passed |-> FALSE, right |-> {}]]
  /\ runLog = [of |-> 0, steps |-> <<>>] /\ runRc = "none"

StartRun ==
  /\ stepAt = 0 /\ attempt < MaxAttempts
  /\ attempt' = attempt + 1 /\ stepAt' = 1 /\ within' = "parsing" /\ runRc' = "none"
  /\ UNCHANGED <<pipe, stepRc, setsLeft, rightNow, fileVars, runLog>>

\* What leaves cmd_run() as an exception is in no manifest.
Leave(rc) ==
  /\ stepAt' = 0 /\ within' = "idle" /\ runRc' = rc /\ setsLeft' = <<>> /\ rightNow' = {} /\ stepRc' = 0
  /\ UNCHANGED <<pipe, attempt, runLog>>

ParseStep ==
  /\ within = "parsing"
  /\ IF Usable(Step)
     THEN /\ within' = "running" /\ setsLeft' = Step.sets /\ stepRc' = 0
          /\ UNCHANGED <<pipe, attempt, stepAt, rightNow, runLog, runRc>>
     ELSE Leave("exit")
  /\ UNCHANGED fileVars

AllThere == \A f \in Step.reads \intersect DOMAIN onDisk : onDisk[f] # Missing

OldestRead ==
  LET ages == {attempt} \union {onDisk[f].oldest : f \in Step.reads \intersect DOMAIN onDisk}
  IN CHOOSE a \in ages : \A b \in ages : a <= b

\* The output is opened, and what it had is gone.
OpenOutput ==
  /\ within = "running" /\ Step.stage # "eval" /\ (AllThere \/ Step.stage \in Lazy)
  /\ within' = "writing"
  /\ onDisk' = [f \in DOMAIN onDisk |-> IF f \in Step.writes THEN [oldest |-> OldestRead, whole |-> FALSE] ELSE onDisk[f]]
  /\ UNCHANGED <<pipe, attempt, stepAt, stepRc, setsLeft, rightNow, gates, runLog, runRc>>

StageReturns ==
  /\ within = "writing" /\ AllThere
  /\ within' = "ended" /\ stepRc' \in Codes(Step.stage)
  /\ onDisk' = [f \in DOMAIN onDisk |-> IF f \in Step.writes THEN [oldest |-> onDisk[f].oldest, whole |-> TRUE] ELSE onDisk[f]]
  /\ UNCHANGED <<pipe, attempt, stepAt, setsLeft, rightNow, gates, runLog, runRc>>

\* Mutant: continue_on_error holds for what a stage raises, too.
StageRaisesCaught ==
  /\ within \in {"running", "writing"}
  /\ within' = "ended" /\ stepRc' = 1
  /\ UNCHANGED <<pipe, attempt, stepAt, setsLeft, rightNow, fileVars, runLog, runRc>>

StageRaises ==
  /\ within \in {"running", "writing"}
  /\ Leave("raised") /\ UNCHANGED fileVars

Kill == stepAt # 0 /\ Leave("killed") /\ UNCHANGED fileVars

\* eval, set by set: a report, and, where there is a baseline for it, a gate.
ScoreSet ==
  /\ within = "running" /\ Step.stage = "eval" /\ AllThere /\ setsLeft # <<>>
  /\ rightNow' \in Results
  /\ within' = (IF "baseline" \in Step.flags /\ Head(setsLeft) \in DOMAIN Earlier THEN "gating" ELSE "running")
  /\ setsLeft' = IF within' = "gating" THEN setsLeft ELSE Tail(setsLeft)
  /\ UNCHANGED <<pipe, attempt, stepAt, stepRc, fileVars, runLog, runRc>>

GateSet ==
  /\ within = "gating" /\ within' = "running"
  /\ LET passed == SlicesHold(Earlier[Head(setsLeft)], rightNow)
     IN /\ gates' = [gates EXCEPT ![Head(setsLeft)] = [of |-> OldestRead, passed |-> passed, right |-> rightNow]]
        /\ stepRc' = IF stepRc # 0 \/ passed THEN stepRc ELSE 4
  /\ setsLeft' = Tail(setsLeft)
  /\ UNCHANGED <<pipe, attempt, stepAt, rightNow, onDisk, runLog, runRc>>

EvalReturns ==
  /\ within = "running" /\ Step.stage = "eval" /\ AllThere /\ setsLeft = <<>>
  /\ within' = "ended"
  /\ UNCHANGED <<pipe, attempt, stepAt, stepRc, setsLeft, rightNow, fileVars, runLog, runRc>>

\* The manifest is written after every step.
RecordStep ==
  /\ within = "ended"
  /\ runLog' = [of |-> attempt, steps |-> Append(IF runLog.of = attempt THEN runLog.steps ELSE <<>>, stepRc)]
  /\ IF stepRc # 0 /\ ~Step.continues THEN stepAt' = 0 /\ within' = "idle" /\ runRc' = "failed"
     ELSE IF stepAt = Len(pipe) THEN stepAt' = 0 /\ within' = "idle" /\ runRc' = "complete"
     ELSE stepAt' = stepAt + 1 /\ within' = "parsing" /\ UNCHANGED runRc
  /\ setsLeft' = <<>> /\ rightNow' = {} /\ stepRc' = 0
  /\ UNCHANGED <<pipe, attempt, fileVars>>

RunNext ==
  \/ StartRun \/ ParseStep \/ OpenOutput \/ StageReturns \/ StageRaises \/ Kill
  \/ ScoreSet \/ GateSet \/ EvalReturns \/ RecordStep

RunSpec == RunInit /\ [][RunNext]_runVars

-----------------------------------------------------------------------------
(* A run that completed has a manifest of all its steps, in which only those
   that may fail did. *)
RunTells ==
  runRc = "complete" =>
    /\ runLog.of = attempt /\ Len(runLog.steps) = Len(pipe)
    /\ \A i \in DOMAIN pipe : runLog.steps[i] # 0 => pipe[i].continues

(* Whatever earlier attempts left in the directory, everything a completed run
   made, the packaged model at last, is whole and comes from this attempt alone,
   and so does the gate of every set that has a baseline. *)
NothingStale ==
  runRc = "complete" =>
    /\ \A f \in DOMAIN onDisk : onDisk[f] = [oldest |-> attempt, whole |-> TRUE]
    /\ \A i \in DOMAIN pipe : \A j \in DOMAIN pipe[i].sets :
         LET s == pipe[i].sets[j]
             gated == "baseline" \in pipe[i].flags /\ s \in DOMAIN Earlier
         IN gated => gates[s].of = attempt /\ (gates[s].passed \/ pipe[i].continues)

(* A completed run means what its manifest and its gates say: everything it made
   is of this attempt. *)
RunMeansIt == RunTells /\ NothingStale

(* Answering one more question right never makes a gate fail, although its
   sign test looks at the questions that changed and not at how many are right. *)
GateMonotone ==
  \A s \in DOMAIN gates :
    gates[s].passed => \A q \in UNION {EvalSlices[x] : x \in DOMAIN EvalSlices} : SlicesHold(Earlier[s], gates[s].right \union {q})

=============================================================================
