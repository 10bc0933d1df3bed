------------------------------- MODULE LayaAnswers -------------------------------
(***************************************************************************)
(* How the questions of one request become numbers and their numbers       *)
(* answers: _prepare(), _forward() and the decoding half of                *)
(* _predict_speculative() of engine.py, collate() of sequence.py, and what *)
(* the backends make of a batch.  Questions differ in their options and    *)
(* share one rectangular batch; the NPU answers each on its own and in any *)
(* order, and whichever are called for are decoded together.  Which those  *)
(* are is LayaEngine's matter, and any here.                               *)
(*                                                                         *)
(* The model is external: it has a number for every position of a          *)
(* question's sequence.  At the marker of an option it is the question's   *)
(* `logits` for that option, anywhere else it means nothing.               *)
(***************************************************************************)
EXTENDS LayaSequence, SequencesExt, FiniteSetsExt

CONSTANTS
  Requested,       (* requests: sequences of questions, each a definition *)
                   (* with its head, state, logits and act                *)
  Configs,         (* temperatures in a checkpoint's rl_agent_config.json *)
  Limits,          (* [settings, config, head]: max_len and head_max_len  *)
  SeqBuckets       (* sequence lengths the NPU has graphs for             *)

\* A question that may be asked has a logit for each of its options.
ASSUME AnswersAssumption ==
  /\ \A qs \in Requested : /\ qs \in Seq({qs[i] : i \in DOMAIN qs})
                           /\ \A i \in DOMAIN qs :
                                /\ DefinitionOk(qs[i]) /\ {qs[i].head, qs[i].state} \subseteq Nat
                                /\ CheckQuestion(qs[i]) => qs[i].logits \in [DOMAIN RenderOptions(qs[i]) -> Int]
  /\ \A c \in Configs : /\ c.byType \in [QuestionTypes -> Int]
                         /\ c.byOptions \in [DOMAIN c.byOptions -> Int]
  /\ SeqBuckets # {} /\ SeqBuckets \subseteq Nat \ {0} /\ IsFiniteSet(SeqBuckets)
  /\ \A l \in Limits : l.config \in Nat \ {0} /\ l.head \in Nat /\ l.settings \in Nat

VARIABLES
  query,           (* [questions, config, limits, npu], never changed     *)
  items,           (* what _prepare() made of the questions               *)
  rows,            (* the logits and act of those the backend has done    *)
  decoded,         (* question -> answer                                  *)
  fate             (* "asked", "running" or why predict() raised          *)

answerVars == <<query, items, rows, decoded, fate>>

NoRow == <<>>
Masked == -10000
Meaningless == 99

\* DecisionEngine.__init__(); 0 is a setting left out.
EngineMaxLen(l, npu) ==
  LET own == IF l.settings = 0 THEN l.config ELSE l.settings
  IN  IF npu THEN Least(own, Max(SeqBuckets)) ELSE own

AnswersInit ==
  /\ \E qs \in Requested, c \in Configs, l \in Limits, n \in BOOLEAN :
       query = [questions |-> qs, config |-> c, limits |-> l, npu |-> n]
  /\ items = <<>> /\ rows = <<>> /\ decoded = <<>> /\ fate = "asked"

-----------------------------------------------------------------------------
SequenceOf(b, q) ==
  BuildSequence(EngineMaxLen(b.limits, b.npu), b.limits.head, q.head, OptionTokens(q), q.state)

\* The NPU takes as many tokens as its graphs have; there is always one.
BucketOf(n) == Min({b \in SeqBuckets : n <= b})

\* predict() checks every question before the first is cut.
Prepare ==
  /\ fate = "asked"
  /\ LET qs == query.questions
         made == [i \in DOMAIN qs |-> SequenceOf(query, qs[i])]
     IN  \/ (\E i \in DOMAIN qs : ~CheckQuestion(qs[i])) /\ fate' = "refused" /\ UNCHANGED <<items, rows>>
         \/ /\ \A i \in DOMAIN qs : CheckQuestion(qs[i])
            /\ IF \E i \in DOMAIN qs : Len(made[i].markers) # Len(RenderOptions(qs[i]))
               THEN fate' = "options exceed head_max_len" /\ UNCHANGED <<items, rows>>
               ELSE fate' = "running" /\ items' = made /\ rows' = [i \in DOMAIN qs |-> NoRow]
  /\ UNCHANGED <<query, decoded>>

\* collate(): marker_pos and marker_mask of a row; a padded marker is at position 0.
Collated(i) ==
  LET kmax == Max({Len(items[k].markers) : k \in DOMAIN items})
      own == items[i].markers
  IN  [k \in 1..kmax |-> IF k <= Len(own) THEN [pos |-> own[k], real |-> TRUE] ELSE [pos |-> 0, real |-> FALSE]]

\* The model's number at a position of question i.
At(i, pos) ==
  IF \E k \in DOMAIN items[i].markers : items[i].markers[k] = pos
  THEN query.questions[i].logits[CHOOSE k \in DOMAIN items[i].markers : items[i].markers[k] = pos]
  ELSE Meaningless

RowOf(logits, i) == [logits |-> logits, act |-> query.questions[i].act]

\* TorchBackend and OnnxBackend: every row of the batch, wide as the widest.
ForwardDense ==
  /\ fate = "running" /\ ~query.npu /\ \A i \in DOMAIN rows : rows[i] = NoRow
  /\ rows' = [i \in DOMAIN rows |->
                LET marks == Collated(i)
                IN  RowOf([k \in DOMAIN marks |-> IF marks[k].real THEN At(i, marks[k].pos) ELSE Masked], i)]
  /\ UNCHANGED <<query, items, decoded, fate>>

\* One item of RknnBackend.submit(): its own markers, taken out of the batch by the mask.
ForwardItem(i) ==
  /\ fate = "running" /\ query.npu /\ rows[i] = NoRow
  /\ LET marks == Collated(i)
         own == {k \in DOMAIN marks : marks[k].real}
     IN  rows' = [rows EXCEPT ![i] = RowOf([k \in own |-> At(i, marks[k].pos)], i)]
  /\ UNCHANGED <<query, items, decoded, fate>>

\* Rows of one width again, for the questions that are decoded together.
Padded(need) ==
  LET kmax == Max({Len(rows[i].logits) : i \in ToSet(need)})
      cell(row, k) == IF k <= Len(row) THEN row[k] ELSE Masked
  IN  [r \in DOMAIN need |-> [k \in 1..kmax |-> cell(rows[need[r]].logits, k)]]

\* decode_answers() is given parallel lists, question by question.
Decoded(need) ==
  LET logits == Padded(need)
  IN  [r \in DOMAIN need |->
         DecodeAnswer(query.config, query.questions[need[r]], items[need[r]].markers, logits[r], rows[need[r]].act)]

\* Some of the questions, in the order of the request.
InOrder(S) ==
  {some \in UNION {[1..n -> S] : n \in 1..Cardinality(S)} : \A a, b \in DOMAIN some : a < b => some[a] < some[b]}

\* Those an earlier answer calls for; a staged pass decodes all that it ran.
Decode ==
  /\ fate = "running"
  /\ \E need \in InOrder({i \in DOMAIN rows : rows[i] # NoRow /\ i \notin DOMAIN decoded}) :
       /\ ~query.npu => ToSet(need) = DOMAIN rows
       /\ decoded' = [i \in DOMAIN decoded \union ToSet(need) |->
                        IF i \in ToSet(need) THEN Decoded(need)[CHOOSE r \in DOMAIN need : need[r] = i] ELSE decoded[i]]
  /\ UNCHANGED <<query, items, rows, fate>>

AnswersNext == Prepare \/ ForwardDense \/ Decode \/ \E i \in DOMAIN rows : ForwardItem(i)

AnswersSpec == AnswersInit /\ [][AnswersNext]_answerVars

-----------------------------------------------------------------------------
(* Whatever it was batched and decoded with, on whichever backend and in     *)
(* whatever order: a question's answer is its own.  Every option has the     *)
(* number the model gave it, a choice is of the greatest, the first of       *)
(* equals, and the act head's number belongs to the same question.           *)
AnswersOwn ==
  \A i \in DOMAIN decoded :
    LET q == query.questions[i]
        options == RenderOptions(q)
        x == decoded[i]
    IN  /\ x.by = [k \in DOMAIN options |-> <<options[k].key, q.logits[k]>>]
        /\ q.type = "choice" => \E k \in DOMAIN options :
             /\ x.picked = options[k].key
             /\ \A j \in DOMAIN options : q.logits[j] <= q.logits[k] /\ (j < k => q.logits[j] < q.logits[k])
        /\ x.act = q.act

(* A probability is scaled as it was fitted: for the type and the number of  *)
(* options the question has, not for how wide its batch is, and never   *)
(* beyond what the bounds allow, whatever the checkpoint's file says.        *)
ScaledAsFitted ==
  \A i \in DOMAIN decoded :
    LET n == Len(RenderOptions(query.questions[i]))
    IN  /\ decoded[i].temperature = TemperatureFor(query.config, query.questions[i].type, n)
        /\ decoded[i].temperature \in 5..50

(* What is answered was read: each option has a marker of its own in the     *)
(* input, none is where another one's text is; and unless the answer is      *)
(* reported as truncated the whole state is there and the input is closed as *)
(* it should be.  Only the texts of options and head may be shortened        *)
(* without a word.  An NPU graph is wide enough for every input.             *)
ReadBeforeAnswered ==
  \A i \in DOMAIN items :
    LET s == items[i]
        q == query.questions[i]
    IN  /\ \A k \in DOMAIN s.markers : k > 1 => s.markers[k] = s.markers[k - 1] + 1 + s.options[k - 1]
        /\ ~s.truncated /\ q.state > 0 => s.state = q.state /\ s.lost = 0
        /\ s.ids <= EngineMaxLen(query.limits, query.npu)
        /\ query.npu => BucketOf(s.ids) >= s.ids

AnswersSound == AnswersOwn /\ ScaledAsFitted /\ ReadBeforeAnswered

=============================================================================
