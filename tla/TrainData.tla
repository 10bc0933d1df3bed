------------------------------ MODULE TrainData ------------------------------
(***************************************************************************)
(* The data stages of eidolon_laya_train: label (soft targets from a       *)
(* teacher), augment (derived records) and assemble (train, val and calib, *)
(* without what the locked evaluation sets hold).                          *)
(*                                                                         *)
(* A record asks one choice question.  Its id is the sequence of its root  *)
(* and the suffixes of the transforms it went through; a target is the set *)
(* of options it gives mass to.  The teacher, the random choices of the    *)
(* transforms and the hashes of assemble are chosen.                       *)
(***************************************************************************)
EXTENDS Integers, Sequences, FiniteSets, SequencesExt

CONSTANTS
  Originals,     (* the generated records, of which some are given        *)
  Heard,         (* char_confusion: what an utterance may be taken for    *)
  Exit,          (* the exit option of the question                       *)
  Keep,          (* option_subset: how many other options are kept        *)
  Passes,        (* how often augment is run                              *)
  Locks,         (* the locked evaluation sets: [ids, states]             *)
  Answers,       (* the options a teacher may give mass to                *)
  MaxSource,     (* records generated                                     *)
  MaxDerived     (* records derived from them                             *)

\* A record: what it was derived from is empty for an original.
DataRecords ==
  [id : Seq(STRING), parent : Seq(STRING), state : DOMAIN Heard, options : SUBSET STRING,
   gold : SUBSET STRING, target : SUBSET STRING]

\* _checked(): what is imported has its answers among its options.
ASSUME DataAssumption ==
  /\ \A r \in Originals : r \in DataRecords /\ r.gold \union r.target \subseteq r.options
  /\ \A s \in DOMAIN Heard : Heard[s] \subseteq DOMAIN Heard
  /\ Exit \in STRING /\ MaxSource \in Nat

VARIABLES
  dataStage,     (* "label", "augment", "assemble", "split", "done"       *)
  pass,          (* runs of augment so far                                *)
  source,        (* the records the stage has yet to read                 *)
  written,       (* those it has written                                  *)
  lock,          (* the locked ids and states                             *)
  splitOf        (* the split of each kept record                         *)

dataVars == <<dataStage, pass, source, written, lock, splitOf>>

Labelled(r) == r.gold # {} \/ r.target # {}

\* gold, else the likeliest option of the target (any that has mass).
GoldNames(r) == IF r.gold # {} THEN {r.gold} ELSE {{o} : o \in r.target}

DataInit ==
  /\ dataStage = "label" /\ pass = 0
  /\ \E n \in 1..MaxSource : source \in {s \in [1..n -> Originals] : IsInjective(s)}
  /\ written = <<>> /\ lock \in Locks /\ splitOf = <<>>

Read == source # <<>> /\ source' = Tail(source)

-----------------------------------------------------------------------------
(* label_records(): a teacher that fails leaves the record as it was; what it
   says of no option of the question is dropped. *)

\* blend(): a gold label keeps its share beside the teacher's.
Blended(r, mass) == [r EXCEPT !.target = r.gold \union mass]

Label ==
  /\ dataStage = "label" /\ Read
  /\ LET r == Head(source)
     IN \/ \E mass \in {a \intersect r.options : a \in Answers} \ {{}} : written' = Append(written, Blended(r, mass))
        \/ written' = Append(written, r)
  /\ UNCHANGED <<dataStage, pass, lock, splitOf>>

-----------------------------------------------------------------------------
(* augment_records(): the record itself, then what the transforms derive. *)

Derive(r, suffix) == [r EXCEPT !.id = Append(@, suffix), !.parent = r.id]

\* The options it answered with are taken away: the exit is the answer now.
ExitInjection(r) ==
  {[Derive(r, "noexit") EXCEPT !.options = @ \ golds, !.gold = {Exit}, !.target = {}] :
     golds \in {g \in GoldNames(r) : Exit \notin g /\ Exit \in r.options}}

\* Fewer options: the answers, the exit and Keep of the others.
OptionSubset(r) ==
  UNION {{LET kept == golds \union others \union ({Exit} \cap r.options)
          IN [Derive(r, "sub") EXCEPT !.options = kept, !.target = @ \cap kept] :
            others \in {o \in SUBSET (r.options \ (golds \union {Exit})) :
                          Cardinality(o) = Keep /\ Cardinality(r.options \ (golds \union {Exit})) > Keep}} :
          golds \in GoldNames(r)}

CharConfusion(r) == {[Derive(r, "asr") EXCEPT !.state = s] : s \in Heard[r.state] \ {r.state}}

\* One derived record at most of each transform, each at its rate.
Augment ==
  /\ dataStage = "augment" /\ Read
  /\ LET r == Head(source)
         maybe(records) == {<<>>} \union {<<d>> : d \in records}
     IN \E a \in maybe(IF Labelled(r) THEN ExitInjection(r) ELSE {}),
           b \in maybe(IF Labelled(r) THEN OptionSubset(r) ELSE {}),
           c \in maybe(CharConfusion(r)) :
          /\ written' = written \o <<r>> \o a \o b \o c
          /\ Cardinality({d \in ToSet(written') \union ToSet(source') : d.parent # <<>>}) <= MaxDerived
  /\ UNCHANGED <<dataStage, pass, lock, splitOf>>

\* A stage ends: what it wrote is what the next one, or the next run of
\* augment, reads.
StageEnds ==
  /\ dataStage \in {"label", "augment", "assemble"} /\ source = <<>>
  /\ \/ dataStage = "assemble" /\ dataStage' = "split" /\ UNCHANGED <<source, written, pass>>
     \/ /\ dataStage # "assemble"
        /\ source' = written /\ written' = <<>>
        /\ \/ pass < Passes /\ dataStage' = "augment" /\ pass' = pass + 1
           \/ dataStage' = "assemble" /\ UNCHANGED pass
  /\ UNCHANGED <<lock, splitOf>>

-----------------------------------------------------------------------------
(* assemble() *)

Locked(r) == r.id \in lock.ids \/ r.state \in lock.states

\* Kept unless it has no label, is locked, is there already, or its weight or
\* the balance of the scenarios leaves it out.
Assemble ==
  /\ dataStage = "assemble" /\ Read
  /\ LET r == Head(source)
     IN \/ /\ Labelled(r) /\ ~Locked(r) /\ \A k \in ToSet(written) : k.id # r.id
           /\ written' = Append(written, r)
        \/ UNCHANGED written
  /\ UNCHANGED <<dataStage, pass, lock, splitOf>>

\* Mutant: a derived record belongs with its parent, kept or not.
FamilyOfParent(r) == IF r.parent = <<>> THEN r.id ELSE r.parent

\* The id up to the first "~".
Family(r) == r.id[1]

\* _split_groups(), the union-find as the partition it stands for: each record
\* joins the first of its family and the first of its state.
Merged(groups, i, j) ==
  LET both == {g \in groups : {i, j} \intersect g # {}} IN (groups \ both) \union {UNION both}

FirstOf(key, i) == CHOOSE j \in 1..i : key[j] = key[i] /\ \A k \in 1..(j - 1) : key[k] # key[i]

GroupsUpTo(records) ==
  LET n == Len(records)
      families == [i \in 1..n |-> Family(records[i])]
      states == [i \in 1..n |-> records[i].state]
      groups[i \in 0..n] ==
        IF i = 0 THEN {{k} : k \in 1..n}
        ELSE Merged(Merged(groups[i - 1], i, FirstOf(families, i)), i, FirstOf(states, i))
  IN groups

SplitGroups(records) == GroupsUpTo(records)[Len(records)]

\* A group's split is a hash of the least of its ids.
Split ==
  /\ dataStage = "split"
  /\ dataStage' = "done"
  /\ LET groups == SplitGroups(written)
     IN \E drawn \in [groups -> {"train", "val", "calib"}] :
          splitOf' = [i \in 1..Len(written) |-> drawn[CHOOSE g \in groups : i \in g]]
  /\ UNCHANGED <<pass, source, written, lock>>

DataNext == Label \/ Augment \/ StageEnds \/ Assemble \/ Split

DataSpec == DataInit /\ [][DataNext]_dataVars

-----------------------------------------------------------------------------
(* What is trained on is not what is measured: no record of one split shares
   its root, however often augmented, or its utterance with a record of
   another split, and none its utterance with a locked evaluation set. *)
SplitsApart ==
  \A i, j \in DOMAIN splitOf :
    /\ written[i].state \notin lock.states
    /\ splitOf[i] # splitOf[j] =>
         written[i].id[1] # written[j].id[1] /\ written[i].state # written[j].state

(* A label never drifts from its question: whatever was blended, injected or
   cut, every option with gold or mass is an option of the question, and the
   record has one. *)
LabelsFit ==
  \A i \in DOMAIN splitOf :
    LET r == written[i]
    IN Labelled(r) /\ r.gold \union r.target \subseteq r.options

(* What the data stages leave for training: both of the above. *)
DataSound == SplitsApart /\ LabelsFit

=============================================================================
