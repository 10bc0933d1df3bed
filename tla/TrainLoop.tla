------------------------------ MODULE TrainLoop ------------------------------
(***************************************************************************)
(* From data to a model directory: train() of eidolon_laya_train with its  *)
(* schedule and its choice of a checkpoint, calibrate, and package, as the *)
(* steps of one pipeline (cli.py, cmd_run).  The pipeline can be killed    *)
(* between any two writes; it is then run again from its first step, into  *)
(* the same directories.                                                   *)
(*                                                                         *)
(* A file of a checkpoint is known by the training run and the epoch that  *)
(* wrote it.  How well an epoch did is chosen; a lower score is better.    *)
(***************************************************************************)
EXTENDS Integers, Sequences, FiniteSets

CONSTANTS
  MaxItems, BatchSizes, Accums, Epochs, (* items, batch_size, grad_accum, epochs *)
  Warmups,       (* warmup, in percent                                    *)
  Scores,        (* the scores an epoch may have, among them NaN          *)
  NaN,
  MaxRuns        (* how often the pipeline is run                         *)

ASSUME TrainAssumption ==
  /\ MaxItems \in Nat /\ Epochs \in Nat \ {0} /\ MaxRuns \in Nat \ {0}
  /\ BatchSizes \subseteq Nat \ {0} /\ Accums \subseteq Nat \ {0} /\ Warmups \subseteq 0..100
  /\ NaN \in Scores /\ Scores \ {NaN} \subseteq Int

VARIABLES
  recipe,        (* [items, batch, accum, warmup], never changed          *)
  trainAt,       (* the step of the pipeline, and of train()              *)
  epoch, batchNo, updates, (* epoch, gi, step of train()                  *)
  scoreOf,       (* the history: the score of each epoch of this run      *)
  best,          (* [score, epoch] of the best so far, or None            *)
  checkpoint,    (* out_dir: [weights, config, fitted]                    *)
  packaged,      (* what the last package() copied, or NoFiles            *)
  runs           (* runs begun                                            *)

trainVars == <<recipe, trainAt, epoch, batchNo, updates, scoreOf, best, checkpoint, packaged, runs>>
loopVars == <<recipe, checkpoint, packaged, runs>>

NoFiles == [weights |-> <<>>, config |-> <<>>, fitted |-> <<>>]
None0 == [score |-> NaN, epoch |-> 0]

Ceil(a, b) == (a + b - 1) \div b
AtLeast1(n) == IF n < 1 THEN 1 ELSE n

-----------------------------------------------------------------------------
(* The schedule, fixed before the first epoch. *)

Groups == Ceil(recipe.items, recipe.batch)

\* Mutant: a last, smaller batch is not counted.
StepsPerEpochDown == recipe.items \div (recipe.batch * recipe.accum)

StepsPerEpoch == Ceil(recipe.items, recipe.batch * recipe.accum)

TotalSteps == AtLeast1(StepsPerEpoch * Epochs)
WarmupSteps == (recipe.warmup * TotalSteps) \div 100

\* lr_scale(), as a fraction.
Scale(step) ==
  IF step < WarmupSteps THEN <<step + 1, AtLeast1(WarmupSteps)>>
  ELSE <<IF TotalSteps > step THEN TotalSteps - step ELSE 0, AtLeast1(TotalSteps - WarmupSteps)>>

TrainInit ==
  /\ recipe \in [items : 0..MaxItems, batch : BatchSizes, accum : Accums, warmup : Warmups]
  /\ trainAt = "idle" /\ epoch = 0 /\ batchNo = 0 /\ updates = 0
  /\ scoreOf = <<>> /\ best = None0
  /\ checkpoint = NoFiles /\ packaged = NoFiles /\ runs = 0

RunStarts ==
  /\ trainAt = "idle" /\ runs < MaxRuns
  /\ runs' = runs + 1
  /\ trainAt' = "batch" /\ epoch' = 1 /\ batchNo' = 0 /\ updates' = 0
  /\ scoreOf' = <<>> /\ best' = None0
  /\ UNCHANGED <<recipe, checkpoint, packaged>>

\* A batch, and an update after every accum of them and after the last.
Batch ==
  /\ trainAt = "batch" /\ batchNo < Groups
  /\ batchNo' = batchNo + 1
  /\ updates' = IF batchNo' % recipe.accum = 0 \/ batchNo' = Groups THEN updates + 1 ELSE updates
  /\ UNCHANGED <<trainAt, epoch, scoreOf, best, loopVars>>

\* No number is below NaN, and NaN is below none.
Better(score) ==
  \/ best.epoch = 0
  \/ NaN \notin {score, best.score} /\ score < best.score

\* The epoch is evaluated; a better one is saved.
EpochEnds ==
  /\ trainAt = "batch" /\ batchNo = Groups
  /\ \E score \in Scores :
       /\ scoreOf' = Append(scoreOf, score)
       /\ IF Better(score)
          THEN /\ trainAt' = "save" /\ best' = [score |-> score, epoch |-> epoch]
               /\ UNCHANGED <<epoch, batchNo>>
          ELSE /\ epoch' = epoch + 1 /\ batchNo' = 0
               /\ trainAt' = (IF epoch = Epochs THEN "calibrate" ELSE "batch") /\ UNCHANGED best
  /\ UNCHANGED <<updates, loopVars>>

\* save_checkpoint(): the weights, and last the configuration, which sets the
\* temperatures back to 1.
SaveWeights ==
  /\ trainAt = "save"
  /\ trainAt' = "save_config"
  /\ checkpoint' = [checkpoint EXCEPT !.weights = <<runs, epoch>>]
  /\ UNCHANGED <<recipe, epoch, batchNo, updates, scoreOf, best, packaged, runs>>

SaveConfig ==
  /\ trainAt = "save_config"
  /\ checkpoint' = [checkpoint EXCEPT !.config = <<runs, epoch>>, !.fitted = <<>>]
  /\ epoch' = epoch + 1 /\ batchNo' = 0
  /\ trainAt' = IF epoch = Epochs THEN "calibrate" ELSE "batch"
  /\ UNCHANGED <<recipe, updates, scoreOf, best, packaged, runs>>

\* calibrate(): the temperatures that fit the weights, into the configuration.
Calibrate ==
  /\ trainAt = "calibrate"
  /\ checkpoint' = [checkpoint EXCEPT !.fitted = checkpoint.weights]
  /\ trainAt' = "package"
  /\ UNCHANGED <<recipe, epoch, batchNo, updates, scoreOf, best, packaged, runs>>

Package ==
  /\ trainAt = "package"
  /\ packaged' = checkpoint
  /\ trainAt' = "idle"
  /\ UNCHANGED <<recipe, epoch, batchNo, updates, scoreOf, best, checkpoint, runs>>

PipelineKilled ==
  /\ trainAt # "idle"
  /\ trainAt' = "idle"
  /\ UNCHANGED <<recipe, epoch, batchNo, updates, scoreOf, best, checkpoint, packaged, runs>>

TrainNext ==
  \/ RunStarts \/ Batch \/ EpochEnds \/ SaveWeights \/ SaveConfig
  \/ Calibrate \/ Package \/ PipelineKilled

TrainSpec == TrainInit /\ [][TrainNext]_trainVars

-----------------------------------------------------------------------------
(* The schedule foresees every update: each is made at a rate above 0 and not
   above the full one, and the last epoch ends with the last of them. *)
UpdatesScheduled ==
  /\ updates > 0 => LET rate == Scale(updates - 1) IN 0 < rate[1] /\ rate[1] <= rate[2]
  /\ trainAt = "calibrate" => updates = StepsPerEpoch * Epochs

(* What is packaged is one epoch, weights and configuration, with temperatures
   that were fitted to it; no epoch of its run did better, unless the first
   one's score was no number. *)
PackagesTheBest ==
  /\ packaged.weights = packaged.config /\ packaged.fitted = packaged.weights
  /\ trainAt = "package" =>
       LET kept == checkpoint.weights
       IN /\ kept[1] = runs
          /\ scoreOf[1] # NaN => \A e \in DOMAIN scoreOf : scoreOf[e] # NaN => scoreOf[kept[2]] <= scoreOf[e]

(* A run trains as planned and hands on its best: both of the above. *)
TrainingSound == UpdatesScheduled /\ PackagesTheBest

=============================================================================
