------------------------------ MODULE LayaSequence ------------------------------
(***************************************************************************)
(* sequence.py: from the definition of a question to what the decision     *)
(* model reads of it, and from the model's logits to an answer.            *)
(*                                                                         *)
(* A text is its number of tokens.  A definition is [type, ins, is,        *)
(* labels]: whether there are instructions, whether the criteria are a     *)
(* "dict", a "list", "none" or "other", and their entries in order, each   *)
(* [key, size], size being that of the option's text.                      *)
(***************************************************************************)
EXTENDS Integers, Sequences, FiniteSets

Least(a, b) == IF a < b THEN a ELSE b
Most(a, b) == IF a > b THEN a ELSE b

\* The tokens of several texts: so many of the first, of the second, ...
Total(s) == Cardinality(UNION {{i} \X (1..s[i]) : i \in DOMAIN s})

-----------------------------------------------------------------------------
(* check_question(), to_internal(), render_options() *)

QuestionTypes == {"choice", "score", "noul"}

\* What every definition is, and what it must be to be asked.
DefinitionOk(d) ==
  /\ d.labels \in Seq({d.labels[i] : i \in DOMAIN d.labels})
  /\ \A i \in DOMAIN d.labels : d.labels[i] = [key |-> d.labels[i].key, size |-> d.labels[i].size] /\ d.labels[i].size \in Nat

CheckQuestion(d) ==
  /\ d.type \in QuestionTypes /\ d.ins
  /\ \/ d.type = "choice" /\ d.is \in {"dict", "list"} /\ d.labels # <<>>
     \/ d.type = "score" /\ d.is = "list" /\ d.labels # <<>>
     \/ d.type = "noul" /\ d.is \in {"none", "dict"}

Lower(key) == IF key = "True" THEN "true" ELSE IF key = "False" THEN "false" ELSE key

\* {key: ...} of entries in order: a key stands where it came first.
FirstOf(entries) ==
  LET first == {i \in DOMAIN entries : \A j \in 1..(i - 1) : entries[j].key # entries[i].key}
      nth(n) == CHOOSE i \in first : Cardinality({j \in first : j <= i}) = n
  IN  [n \in 1..Cardinality(first) |-> entries[nth(n)]]

\* The size of what a noul question says of one side: what it was given last, or by default.
SideOf(d, side) ==
  LET given == {i \in DOMAIN d.labels : Lower(d.labels[i].key) = side}
      last == CHOOSE i \in given : \A j \in given : j <= i
  IN  [key |-> side, size |-> IF given = {} \/ d.labels[last].size = 0 THEN 8 ELSE d.labels[last].size]

\* The options in the order of their labels, always false before true.
RenderOptions(d) ==
  CASE d.type = "choice" -> FirstOf(d.labels)
    [] d.type = "score" -> [i \in DOMAIN d.labels |-> [d.labels[i] EXCEPT !.key = i - 1]]
    [] d.type = "noul" -> <<SideOf(d, "false"), SideOf(d, "true")>>

OptionTokens(d) == LET options == RenderOptions(d) IN [i \in DOMAIN options |-> options[i].size]

-----------------------------------------------------------------------------
(* build_sequence(): [CLS] head [SEP] [MASK] option ... [SEP] state [SEP] *)

\* Options get what they need up to 48 tokens or, when that leaves the head
\* fewer than 16, an equal share.
CutOptions(headMax, options) ==
  LET whole == [i \in DOMAIN options |-> 1 + Least(options[i], 48)]
      per == Most(4, (headMax - 16) \div Most(1, Len(options)))
  IN IF headMax - Total(whole) < 16 THEN [i \in DOMAIN options |-> Least(whole[i], per)] ELSE whole

Room(maxLen, length) == Most(0, maxLen - length - 1)

\* What is left of each part, where the markers are (counted from 0; they
\* ascend, so those inside are the first), and whether the state was cut.
BuildSequence(maxLen, headMax, head, options, state) ==
  LET opts == CutOptions(headMax, options)
      kept == Least(head, Most(8, headMax - Total(opts)))
      length == 3 + kept + Total(opts)
      read == Least(state, Room(maxLen, length))
      places == [i \in DOMAIN opts |-> 2 + kept + Total(SubSeq(opts, 1, i - 1))]
  IN [head |-> kept,
      options |-> [i \in DOMAIN opts |-> opts[i] - 1],
      markers |-> SubSeq(places, 1, Cardinality({i \in DOMAIN opts : places[i] < maxLen})),
      state |-> read,
      ids |-> Least(length + read + 1, maxLen),
      lost |-> Most(0, length + read + 1 - maxLen),
      truncated |-> state > Room(maxLen, length)]

-----------------------------------------------------------------------------
(* decode_answers().  Temperatures are in tenths.                            *)

NotFinite == 10000      \* nan, an infinity, or no number at all

ClampTemperature(t) == IF t = NotFinite THEN 10 ELSE Least(50, Most(5, t))

TempBucket(type, k) ==
  <<type, IF k <= 2 THEN "2" ELSE IF k <= 5 THEN "3-5" ELSE IF k <= 10 THEN "6-10" ELSE "11+">>

\* config is [byType, byOptions], both as they are in the checkpoint's file.
TemperatureFor(config, type, k) ==
  LET bucket == TempBucket(type, k)
  IN  ClampTemperature(IF bucket \in DOMAIN config.byOptions THEN config.byOptions[bucket] ELSE config.byType[type])

\* Scaling and softmax keep the order of the logits; argmax is the first greatest.
ArgMax(z) == CHOOSE i \in DOMAIN z : \A j \in DOMAIN z : z[j] < z[i] \/ (z[j] = z[i] /\ i <= j)

\* What the numbers of an answer are put next to: a noul answer is the second.
Labels(d) ==
  IF d.type = "noul" THEN <<"false", "true">>
  ELSE LET options == RenderOptions(d) IN [i \in DOMAIN options |-> options[i].key]

DecodeAnswer(config, d, markers, row, act) ==
  LET k == Len(markers)
      z == SubSeq(row, 1, k)
  IN  [picked |-> IF d.type = "choice" THEN Labels(d)[ArgMax(z)] ELSE "none",
       by |-> [i \in 1..k |-> <<Labels(d)[i], z[i]>>],
       temperature |-> TemperatureFor(config, d.type, k),
       act |-> act]

=============================================================================
