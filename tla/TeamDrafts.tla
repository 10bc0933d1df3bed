------------------------------ MODULE TeamDrafts ------------------------------
(***************************************************************************)
(* laya/train/scenarios/ip-team-v3: a slice of the plan becomes a request  *)
(* for a handful of short texts; generate_glm.py puts the answer into the  *)
(* steps that the slice fixes and checks the draft; episodes.py expands    *)
(* drafts and authored episodes into one record per decision.              *)
(*                                                                         *)
(* Members are numbered in cast order: a is 1.  A text is what it says,    *)
(* the members it refers to by placeholder, and whether its length and     *)
(* wording are as the checks demand (terms of the trade, bare letters,     *)
(* words that end a round).                                                *)
(***************************************************************************)
EXTENDS Integers, Sequences, FiniteSets, SequencesExt, FiniteSetsExt

CONSTANTS
  SliceSpecs,      (* slices: [id, candidates, pair, same, ensemble, decision] *)
  Authored,        (* episodes written by hand, see Draft                 *)
  KnownUsers       (* requests of earlier drafts                          *)

VARIABLES
  drafting,        (* how far the slice has come                          *)
  slice,           (* the slice that is worked on                         *)
  reply,           (* the model's answer: key -> text                     *)
  drafts,          (* what was made of it                                 *)
  placing          (* the members in the order they are listed            *)

draftVars == <<drafting, slice, reply, drafts, placing>>

Speaking == {"respond", "clarify"}
Still == {"wait", "finish"}
Refused == <<>>
NoMember == 0

Ids == {"named_unique", "speaker_handoff", "same_member", "user_override", "clarify", "wait_or_finish",
        "same_name", "counterfactual", "named_finish", "wait_after_peer", "finish_direct", "finish_after_peer"}

-----------------------------------------------------------------------------
(* load_plan(), prompt_for(): what is asked, and for which slices there is   *)
(* something to ask.                                                         *)

SpecLoads(s) == s.id \in Ids /\ s.candidates \in 2..4 /\ (s.id = "wait_or_finish" => s.decision \in Still)
HasPrompt(s) ==
  IF s.ensemble THEN s.id \notin {"clarify", "same_name", "counterfactual"}
  ELSE s.id \notin {"finish_direct", "finish_after_peer"}

MustName == {"named_unique", "same_member", "same_name", "named_finish", "wait_after_peer", "finish_after_peer"}
HeardIds == {"speaker_handoff", "same_member", "counterfactual", "named_finish", "wait_after_peer", "finish_after_peer"}
Roles == <<"role_a", "role_b", "role_c", "role_d">>

Keys(s) ==
  {Roles[m] : m \in 1..s.candidates} \union {"user"}
  \union (IF s.id \in HeardIds THEN {"heard_a"} ELSE {})
  \union (IF s.id = "counterfactual" THEN {"heard_b"} ELSE {})
  \union (IF s.id = "user_override" THEN {"old_speech"} ELSE {})

-----------------------------------------------------------------------------
(* materialize_flat() *)

StepOf(action, speaker, heard) ==
  [action |-> action, speaker |-> speaker, heard |-> heard, newUser |-> "none", allowed |-> Speaking \union Still]
NotHeard == [speaker |-> NoMember, says |-> "nothing"]
HeardFromFirst(text) == [speaker |-> 1, says |-> text.says]

\* The steps that a slice fixes, given its texts.
StepsOf(s, raw) ==
  LET first == StepOf("respond", 1, NotHeard)
      then(action, who) == StepOf(action, who, HeardFromFirst(raw["heard_a"]))
  IN  CASE s.id = "named_unique" -> <<first>>
        [] s.id = "speaker_handoff" -> IF s.ensemble THEN <<then("respond", 2)>> ELSE <<first, then("respond", 2)>>
        [] s.id = "same_member" -> <<first, then("respond", 1)>>
        [] s.id = "user_override" -> <<StepOf("respond", 2, NotHeard)>>
        [] s.id = "clarify" -> <<StepOf("clarify", 1, NotHeard)>>
        [] s.id = "same_name" -> <<StepOf("clarify", 3, NotHeard)>>
        [] s.id = "wait_or_finish" -> <<StepOf(s.decision, NoMember, NotHeard)>>
        [] s.id = "finish_direct" -> <<StepOf("finish", NoMember, NotHeard)>>
        [] s.id = "counterfactual" -> <<then("respond", 2)>>
        [] s.id = "wait_after_peer" -> <<first, then("wait", NoMember)>>
        [] s.id \in {"named_finish", "finish_after_peer"} -> <<first, then("finish", NoMember)>>

Draft(s, raw) ==
  [tag |-> s.id, cast |-> s.candidates, user |-> raw["user"], budget |-> 8, stress |-> 0,
   prelude |-> IF s.id = "user_override" THEN <<[author |-> 1, says |-> raw["old_speech"].says]>> ELSE <<>>,
   same |-> IF s.id = "same_name" THEN {1, 2} ELSE {},
   steps |-> StepsOf(s, raw)]

Materialized(s, raw) ==
  IF DOMAIN raw # Keys(s) \/ \E k \in DOMAIN raw : ~raw[k].fits \/ ~(raw[k].refs \subseteq 1..s.candidates)
  THEN Refused
  ELSE IF s.id = "counterfactual"
  THEN <<Draft(s, raw), [Draft(s, raw) EXCEPT !.steps = <<StepOf("respond", 3, HeardFromFirst(raw["heard_b"]))>>]>>
  ELSE <<Draft(s, raw)>>

-----------------------------------------------------------------------------
(* validate_episode(), validate_batch() *)

Follows(steps, i) ==
  i > 1 => /\ steps[i - 1].action \in Speaking
           /\ steps[i].heard.speaker = steps[i - 1].speaker

StepLegal(step, n) ==
  /\ step.action \in Speaking => step.speaker \in 1..n
  /\ step.action \in Still => step.speaker = NoMember
  /\ step.heard.speaker \in 0..n

Actions(steps) == [i \in DOMAIN steps |-> steps[i].action]

FitsSlice(d, s) ==
  LET st == d.steps
      does == Actions(st)
  IN  /\ s.id = "named_unique" => does = <<"respond">>
      /\ s.id \in {"named_finish", "finish_after_peer"} => does = <<"respond", "finish">>
      /\ s.id = "wait_after_peer" => does = <<"respond", "wait">>
      /\ s.id \in {"clarify", "same_name"} => "clarify" \in ToSet(does)
      /\ s.id = "wait_or_finish" => ToSet(does) \intersect Still # {}
      /\ s.id = "same_member" => Len(st) > 1 /\ does[1] = "respond" /\ does[2] = "respond" /\ st[1].speaker = st[2].speaker
      /\ s.id = "speaker_handoff" =>
           IF s.ensemble THEN does = <<"respond">> /\ st[1].speaker = 2 /\ st[1].heard.speaker = 1
           ELSE Len(st) > 1 /\ does[1] = "respond" /\ does[2] = "respond" /\ st[1].speaker # st[2].speaker

ValidDraft(d, s) ==
  /\ s.id \in MustName => d.user.refs # {}
  /\ s.id = "user_override" => d.prelude # <<>>
  /\ (d.same # {}) = s.same
  /\ Len(d.steps) \in 1..4
  /\ \A i \in DOMAIN d.steps : StepLegal(d.steps[i], d.cast) /\ Follows(d.steps, i)
  /\ FitsSlice(d, s)

\* The two branches of a pair: one decision each, one speaker, other words.
ValidPair(x, y) ==
  LET p == x.steps[1]
      q == y.steps[1]
  IN  /\ [x EXCEPT !.steps = <<>>] = [y EXCEPT !.steps = <<>>]
      /\ Len(x.steps) = 1 /\ Len(y.steps) = 1
      /\ p.heard.speaker # NoMember /\ p.heard.speaker = q.heard.speaker /\ p.heard.says # q.heard.says
      /\ <<p.action, p.speaker>> # <<q.action, q.speaker>>

ValidBatch(ds, s) ==
  /\ Len(ds) = IF s.pair THEN 2 ELSE 1
  /\ \A i \in DOMAIN ds : ValidDraft(ds[i], s)
  /\ s.pair => ValidPair(ds[1], ds[2])

-----------------------------------------------------------------------------
(* The model: as asked, or with one mistake.                                 *)

AnswerAsked(s) ==
  [k \in Keys(s) |-> [says |-> k, fits |-> TRUE, refs |-> IF k = "user" /\ s.id \in MustName THEN {1} ELSE {}]]

MistakenAnswers(s) ==
  LET good == AnswerAsked(s)
  IN  {[k \in DOMAIN good \ {gone} |-> good[k]] : gone \in DOMAIN good}
      \union {[good EXCEPT ![k].fits = FALSE] : k \in DOMAIN good}
      \union {[good EXCEPT ![k].refs = {s.candidates + 1}] : k \in DOMAIN good}
      \union {[good EXCEPT !["user"].refs = {}], [good EXCEPT !["user"].says = "an old request"]}
      \union {[good EXCEPT ![k].says = "heard_a"] : k \in DOMAIN good}

-----------------------------------------------------------------------------
(* generate() of episodes.py: the public record, message by message.         *)

Message(author, says) == [author |-> author, says |-> says]

\* _background(): a long talk before the request, the user first.
Background(d) ==
  [i \in 1..d.stress |-> Message(IF i = 1 THEN NoMember ELSE ((i - 2) % d.cast) + 1, "background")]

\* What step k adds: what was heard, then what the user says now.
Added(step) ==
  (IF step.heard.speaker # NoMember THEN <<Message(step.heard.speaker, step.heard.says)>> ELSE <<>>)
  \o (IF step.newUser # "none" THEN <<Message(NoMember, step.newUser)>> ELSE <<>>)

Before(d) == Background(d) \o [i \in DOMAIN d.prelude |-> Message(d.prelude[i].author, d.prelude[i].says)]
HistoryAt(d, k) ==
  Before(d) \o <<Message(NoMember, d.user.says)>> \o FlattenSeq([i \in 1..k |-> Added(d.steps[i])])

\* Where the pinned request stands in the record.
RequestAt(d, k) ==
  LET news == {i \in 1..k : d.steps[i].newUser # "none"}
  IN  IF news = {} THEN Len(Before(d)) + 1 ELSE Len(HistoryAt(d, Max(news)))

\* remaining_replies: one less for each message heard, all again for a new request.
RemainingAt(d, k) ==
  FoldLeft(LAMBDA left, i : IF d.steps[i].newUser # "none" THEN d.budget
                            ELSE IF d.steps[i].heard.speaker # NoMember THEN left - 1 ELSE left,
           d.budget, [i \in 1..k |-> i])

\* Every decision finds replies left and is one of the allowed actions.
Expands(d) ==
  /\ d.budget \in 1..32 /\ d.cast \in 1..6
  /\ \A k \in DOMAIN d.steps :
       /\ RemainingAt(d, k) >= 1
       /\ d.steps[k].action \in d.steps[k].allowed
       /\ d.steps[k].action \in Speaking => d.steps[k].speaker \in 1..d.cast
       /\ d.steps[k].action \in Still => d.steps[k].speaker = NoMember

PlaceOf(order, m) == IF m = NoMember THEN NoMember ELSE CHOOSE i \in DOMAIN order : order[i] = m

\* _options(): the legal moves, by place.
MovesOf(allowed, n) ==
  ((allowed \intersect Speaking) \X (1..n)) \union ((allowed \intersect Still) \X {NoMember})

DecisionAt(d, order, k) ==
  LET told == HistoryAt(d, k)
      pinned == RequestAt(d, k)
      shown(m) == [told[m] EXCEPT !.author = PlaceOf(order, @)]
      prior == SelectSeq([m \in 1..(Len(told) - 1) |-> m], LAMBDA m : m # pinned)
  IN  [request |-> told[pinned].says,
       trigger |-> IF pinned = Len(told) THEN Message(NoMember, "the request") ELSE shown(Len(told)),
       prior |-> [m \in DOMAIN prior |-> shown(prior[m])],
       members |-> [i \in DOMAIN order |-> IF order[i] \in d.same THEN Min(d.same) ELSE order[i]],
       remaining |-> RemainingAt(d, k),
       moves |-> MovesOf(d.steps[k].allowed, d.cast),
       move |-> <<d.steps[k].action, PlaceOf(order, d.steps[k].speaker)>>]

-----------------------------------------------------------------------------
\* The body of main()'s loop after the answer has come; validate_pipeline()
\* expands the drafts.
Accept(s, raw) ==
  LET ds == Materialized(s, raw)
  IN  IF ds = Refused THEN Refused
      ELSE IF ~ValidBatch(ds, s) \/ raw["user"].says \in KnownUsers THEN Refused
      ELSE IF \E i \in DOMAIN ds : ~Expands(ds[i]) THEN Refused
      ELSE ds

-----------------------------------------------------------------------------
DraftsInit == drafting = "plan" /\ slice = <<>> /\ reply = <<>> /\ drafts = <<>> /\ placing = <<>>

\* A slice that has no prompt stops the run before anything is paid.
AskModel ==
  /\ drafting = "plan" /\ drafting' = "answered"
  /\ \E s \in SliceSpecs :
       /\ SpecLoads(s) /\ HasPrompt(s)
       /\ slice' = s
       /\ reply' \in {AnswerAsked(s)} \union MistakenAnswers(s)
  /\ UNCHANGED <<drafts, placing>>

CheckAnswer ==
  /\ drafting = "answered"
  /\ drafts' = Accept(slice, reply)
  /\ drafting' = IF drafts' = Refused THEN "refused" ELSE "drafted"
  /\ UNCHANGED <<slice, reply, placing>>

TakeAuthored ==
  /\ drafting = "plan"
  /\ \E d \in Authored :
       /\ drafts' = IF Expands(d) THEN <<d>> ELSE Refused
       /\ drafting' = IF Expands(d) THEN "authored" ELSE "invalid"
  /\ UNCHANGED <<slice, reply, placing>>

\* The branches of a pair draw from one generator seeded by the pair.
PlaceMembers ==
  /\ drafting \in {"drafted", "authored"} /\ drafting' = "placed"
  /\ placing' \in SetToSeqs(1..drafts[1].cast)
  /\ UNCHANGED <<slice, reply, drafts>>

DraftsNext == AskModel \/ CheckAnswer \/ TakeAuthored \/ PlaceMembers

-----------------------------------------------------------------------------
(* A slice can be fulfilled: an answer as asked is refused only for a slice  *)
(* whose flags contradict its id, which load_plan() does not check, and for  *)
(* such a slice no answer is accepted; and the batch checks are enough: what *)
(* passes them and asks something new is never refused by the expansion.     *)
Coherent(s) ==
  /\ s.pair = (s.id = "counterfactual")
  /\ s.same = (s.id = "same_name")
  /\ s.id \in {"same_name", "counterfactual"} => s.candidates > 2

PassesBatch(s, raw) ==
  LET ds == Materialized(s, raw)
  IN  IF ds = Refused THEN FALSE ELSE ValidBatch(ds, s)

SlicesCanBeMet ==
  /\ drafting = "refused" /\ reply = AnswerAsked(slice) => ~Coherent(slice)
  /\ drafting = "refused" /\ PassesBatch(slice, reply) => reply["user"].says \in KnownUsers
  /\ drafting = "drafted" => Coherent(slice)

(* What the model is shown before a decision: the request once, every other  *)
(* public message once, replies left as many as the budget less those heard  *)
(* since the request, and the right move among those it may choose.          *)
DecisionsTrue ==
  drafting = "placed" => \A i \in DOMAIN drafts : \A k \in DOMAIN drafts[i].steps :
    LET d == drafts[i]
        told == HistoryAt(d, k)
        x == DecisionAt(d, placing, k)
        since == {m \in RequestAt(d, k)..Len(told) : told[m].author # NoMember}
    IN  /\ x.move \in x.moves
        /\ x.remaining = d.budget - Cardinality(since)
        /\ \A m \in DOMAIN told : told[m].author = NoMember /\ m > Len(Before(d)) => m <= RequestAt(d, k)
        /\ Len(x.prior) = Len(told) - (IF x.trigger.says = "the request" THEN 1 ELSE 2)
        /\ x.move[2] # NoMember => placing[x.move[2]] = d.steps[k].speaker

(* The two branches of a pair differ for the model in what was said last,    *)
(* and in nothing else; and what is right differs with it.                   *)
PairsDifferByTrigger ==
  drafting = "placed" /\ Len(drafts) = 2 =>
    LET x == DecisionAt(drafts[1], placing, 1)
        y == DecisionAt(drafts[2], placing, 1)
    IN  /\ [x EXCEPT !.trigger = y.trigger, !.move = y.move] = y
        /\ x.trigger # y.trigger /\ x.trigger.author = y.trigger.author /\ x.move # y.move

DraftsSound == SlicesCanBeMet /\ DecisionsTrue /\ PairsDifferByTrigger

=============================================================================
