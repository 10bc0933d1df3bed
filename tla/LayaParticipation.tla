-------------------------- MODULE LayaParticipation --------------------------
(***************************************************************************)
(* What a participation request makes of the decision model: the three     *)
(* predictors of participation.py and participation_text.py ("move",       *)
(* "laya", "compact"), whose questions LayaSequence cuts to the model's    *)
(* input, and the ParticipationAdapter that turns the model's choice into  *)
(* a proposal or abstains.                                                 *)
(*                                                                         *)
(* A text is its number of tokens.  Candidates are the slots 1, 2, ...; a  *)
(* message is [id, by, text], by a slot or by 0, the user.  A request, the *)
(* sizes of its texts and the model's answers are chosen at the start.     *)
(***************************************************************************)
EXTENDS LayaAnswers

CONSTANTS
  MaxLen, HeadMax,   (* max_len, head_max_len                             *)
  MaxCandidates, (* max_candidates                                        *)
  History,       (* LayaParticipationPredictor.HISTORY                    *)
  Reasons,       (* labels of clarify_about                               *)
  Tasks          (* those clarify_instructions gives a task               *)

ASSUME ParticipationAssumption ==
  /\ MaxLen \in Nat \ {0} /\ HeadMax \in Nat \ {0}
  /\ MaxCandidates \in 1..6 /\ History \in Nat \ {0}
  /\ Tasks \subseteq Reasons /\ IsFiniteSet(Reasons)

VARIABLES
  case,          (* the case, never changed                               *)
  shown,         (* what the model reads of each question, when asked     *)
  choice,        (* the ModelChoice                                       *)
  verdict         (* the DecisionResult and its reason                     *)

participationVars == <<case, shown, choice, verdict>>

-----------------------------------------------------------------------------
(* The request: what a predictor shows of it, and what it will not take. *)

Window(r) == SubSeq(r.history, Most(1, Len(r.history) - History + 1), Len(r.history))

\* The messages that pass through public().
Rendered(p, r) ==
  IF p = "laya" THEN ToSet(r.history) ELSE {m \in ToSet(r.history) : m.id # r.userRequest.id}

FitsWindow(r) == r.userRequest \in ToSet(Window(r))

\* Everything else is a ContextTooLong of predict() or project_request().
Supported(p, r) ==
  /\ r.candidates \in 1..(IF p = "compact" THEN 6 ELSE MaxCandidates)
  /\ ~r.summary
  /\ r.history # <<>> /\ Last(r.history) = r.trigger
  /\ \A m \in Rendered(p, r) : m.by \in 0..r.candidates
  /\ p = "laya" => r.named /\ FitsWindow(r)
  /\ p = "compact" =>
       /\ IsInjective([i \in DOMAIN r.history |-> r.history[i].id])
       /\ \A m \in ToSet(r.history) : m.id = r.userRequest.id => m = r.userRequest

-----------------------------------------------------------------------------
(* The questions and their options; an option is what it stands for. *)

Option(action, slot) == [action |-> action, slot |-> slot]
Speaking(r, action) ==
  IF action \in r.allowed THEN [i \in 1..r.candidates |-> Option(action, i)] ELSE <<>>
Closing(r, action) == IF action \in r.allowed THEN <<Option(action, 0)>> ELSE <<>>

MoveOptions(p, r) ==
  Speaking(r, "respond") \o (IF p = "move" THEN Speaking(r, "clarify") ELSE <<>>)
    \o Closing(r, "wait") \o Closing(r, "finish") \o <<Option("abstain", 0)>>

\* The sizes of the options of each question.  Those that name a candidate
\* carry its profile; "compact" keeps profiles to the state.
OptionSizes(p, r, sizes) ==
  LET plain(n) == [i \in 1..n |-> 8]
      profiles(s) == [i \in DOMAIN s |-> IF s[i].slot > 0 THEN sizes.profile ELSE 8]
  IN IF p = "laya"
     THEN <<plain(4), [i \in 1..r.candidates |-> sizes.profile], plain(Cardinality(Reasons))>>
     ELSE <<IF p = "move" THEN profiles(MoveOptions(p, r)) ELSE plain(Len(MoveOptions(p, r)))>>

Sequences(p, r, sizes) ==
  LET options == OptionSizes(p, r, sizes)
  IN [q \in DOMAIN options |-> BuildSequence(MaxLen, HeadMax, sizes.head, options[q], sizes.state)]

\* _check_input_budget() of the move predictor and check_capacity(): nothing
\* of an option or of the head may be cut.
OptionsWhole(options, head) ==
  /\ \A i \in DOMAIN options : options[i] <= 48
  /\ HeadMax - Total([i \in DOMAIN options |-> options[i] + 1]) >= Most(16, head)

\* The rest of it, and all of it for "laya".
WithinBudget(p, r, sizes) ==
  /\ ~r.control
  /\ p # "laya" => OptionsWhole(OptionSizes(p, r, sizes)[1], sizes.head)
  /\ \A q \in DOMAIN Sequences(p, r, sizes) :
       LET s == Sequences(p, r, sizes)[q] IN ~s.truncated /\ Len(s.markers) = Len(s.options)

-----------------------------------------------------------------------------
(* predict(): the answers read as a ModelChoice.  An answer that is no       *)
(* option, of no number of tokens or of no such slot is Unknown.             *)

Choice(action, slot, confidence) == [action |-> action, slot |-> slot, confidence |-> confidence]
Refusal == Choice("refused", 0, "zero")
Unread == Choice("none", 0, "zero")

MoveChoice(p, r, a) ==
  LET chosen == Option(a.action, a.speaker)
  IN IF chosen \notin ToSet(MoveOptions(p, r)) \/ a.confidence = "missing"
       THEN Choice("abstain", 0, "zero")
     ELSE IF a.action \in {"abstain", "clarify"} THEN Choice("abstain", 0, a.confidence)
     ELSE Choice(a.action, a.speaker, a.confidence)

LayaChoice(r, a) ==
  IF a.action \notin {"respond", "clarify", "wait", "finish"} \/ a.confidence = "missing"
    THEN Choice("abstain", 0, "zero")
  ELSE IF a.action \in {"wait", "finish"} THEN Choice(a.action, 0, a.confidence)
  ELSE IF a.speaker \notin 1..r.candidates \/ (a.action = "clarify" /\ a.about \notin Tasks)
    THEN Choice("abstain", 0, a.confidence)
  ELSE Choice(a.action, a.speaker, a.confidence)

Predict ==
  /\ choice = Unread
  /\ LET p == case.predictor
         r == case.request
     IN \/ /\ Supported(p, r) /\ WithinBudget(p, r, case.sizes)
           /\ shown' = Sequences(p, r, case.sizes)
           /\ choice' = IF p = "laya" THEN LayaChoice(r, case.answer) ELSE MoveChoice(p, r, case.answer)
        \/ /\ ~(Supported(p, r) /\ WithinBudget(p, r, case.sizes))
           /\ choice' = Refusal
           /\ UNCHANGED shown
  /\ UNCHANGED <<case, verdict>>

-----------------------------------------------------------------------------
(* ParticipationAdapter.decide_explained() *)

\* validate_proposal() of the SDK, as far as the tests of the adapter ask it.
Valid(r, c) ==
  /\ c.action \in r.allowed
  /\ c.slot \in 0..r.candidates
  /\ c.action \in {"respond", "clarify"} <=> c.slot > 0

\* Mutant: the confidence is looked at only after the proposal.
ReasonConfidenceLast(r, c) ==
  IF c.action = "refused" THEN "context_unsupported"
  ELSE IF c.action = "abstain" THEN "model_abstain"
  ELSE IF Valid(r, c) THEN "decided"
  ELSE IF c.confidence \in {"zero", "low"} THEN "low_confidence"
  ELSE "invalid_proposal"

Reason(r, c) ==
  IF c.action = "refused" THEN "context_unsupported"
  ELSE IF c.confidence = "nan" THEN "invalid_confidence"
  ELSE IF c.confidence \in {"zero", "low"} THEN "low_confidence"
  ELSE IF c.action = "abstain" THEN "model_abstain"
  ELSE IF ~Valid(r, c) THEN "invalid_proposal"
  ELSE "decided"

Decide ==
  /\ choice # Unread
  /\ verdict = "none"
  /\ verdict' = Reason(case.request, choice)
  /\ UNCHANGED <<case, shown, choice>>

\* A case is [predictor, request, sizes, answer]; its state, a JSON object, is
\* never without tokens.
CaseOk(c) ==
  /\ c.predictor \in {"move", "laya", "compact"} /\ c.request.candidates \in Nat
  /\ c.sizes.head \in Nat /\ c.sizes.profile \in Nat /\ c.sizes.state \in Nat \ {0}
  /\ c.answer.speaker \in Nat /\ c.answer.confidence \in {"missing", "nan", "low", "enough"}

Asked(c) ==
  /\ case = c /\ CaseOk(c)
  /\ shown = <<>> /\ choice = Unread /\ verdict = "none"

ParticipationNext == Predict \/ Decide

ParticipationSpec == Asked(case) /\ [][ParticipationNext]_participationVars

-----------------------------------------------------------------------------
(* "Never truncate the supplied snapshot": when the model is asked, every
   question it reads has its whole head and all of its options, every option
   its marker, the whole state is there and the input is within max_len. The
   release predictor "laya" checks the state and the markers only. *)
ReadsWhole ==
  \A q \in DOMAIN shown :
    LET s == shown[q]
        asked == OptionSizes(case.predictor, case.request, case.sizes)[q]
    IN /\ s.state = case.sizes.state /\ s.lost = 0 /\ Len(s.markers) = Len(asked)
       /\ case.predictor # "laya" => s.head = case.sizes.head /\ s.options = asked

(* A turn is decided only for what the model answered, surely enough, and the
   request allows: the member named is the candidate of the slot it chose. *)
DecidesWhatWasChosen ==
  verdict = "decided" =>
    /\ shown # <<>>
    /\ case.answer.confidence = "enough"
    /\ case.answer.action \in case.request.allowed
    /\ choice.action = case.answer.action
    /\ choice.slot = (IF choice.action \in {"wait", "finish"} THEN 0 ELSE case.answer.speaker)
    /\ choice.slot <= case.request.candidates
    /\ choice.action = "clarify" => case.predictor = "laya" /\ case.answer.about \in Tasks

(* A turn is decided on the whole request, and as it was answered: both of
   the above. *)
ParticipationSound == ReadsWhole /\ DecidesWhatWasChosen

(* What predict() decides is decided on what the caller sent, and is the
   answer to it: of a participation request and of a batch of questions. *)
DecisionsSound == ParticipationSound /\ AnswersSound

=============================================================================
