-------------------------------- MODULE MCLaya --------------------------------
(* The LAYA service, for TLC: two cores, the second with a larger bucket, and *)
(* requests whose questions depend on each other in different ways.  And what *)
(* a predictor of the service makes of one participation request, and how the *)
(* questions of one request are batched and their answers decoded, both       *)
(* inside one call of predict(): a behaviour runs one of the three.           *)
EXTENDS LayaService, LayaParticipation

VARIABLE part

-----------------------------------------------------------------------------
(* The service *)

MCPlacement == [c \in Cores |-> IF c = 1 THEN {1} ELSE {1, 2}]

Ask(endpoint, len, askIf, long) ==
  [participation |-> endpoint = "participation", len |-> len, askIf |-> askIf, long |-> long]

\* Skipped because skipped: the last question depends on the first through the second.
Chain == Ask("systemone", <<1, 2, 1>>, <<{}, {1}, {2}>>, {})
\* The last question depends on both others, and its options do not fit.
TooLong == Ask("systemone", <<1, 1, 2>>, <<{}, {1}, {1, 2}>>, {3})
Cycle == Ask("systemone", <<1, 1>>, <<{2}, {1}>>, {})
Single == Ask("participation", <<1>>, <<{}>>, {})

MCPlans == <<{Chain, TooLong}, {Single, Cycle}, {Single}>>

-----------------------------------------------------------------------------
(* The participation cases: one usual request, and around it every short     *)
(* history, every odd flag, the sizes at which something no longer fits, and *)
(* every answer of the model.                                                *)

Message(id, by, text) == [id |-> id, by |-> by, text |-> text]
Messages == {Message(1, 0, "a"), Message(1, 0, "b"), Message(2, 1, "a"), Message(3, 3, "a"), Message(4, 0, "a")}
AllActions == {"respond", "clarify", "wait", "finish"}

Request(candidates, history, userRequest, trigger, allowed, flags) ==
  [candidates |-> candidates, history |-> history, userRequest |-> userRequest, trigger |-> trigger,
   allowed |-> allowed, named |-> "unnamed" \notin flags, summary |-> "summary" \in flags,
   control |-> "control" \in flags]

Fits == [head |-> 16, profile |-> 12, state |-> 40]
Answered(action, speaker, confidence) ==
  [action |-> action, speaker |-> speaker, about |-> "r1", confidence |-> confidence]
Responds == Answered("respond", 1, "enough")

Usual == Request(2, <<Message(2, 1, "a"), Message(4, 0, "a")>>, Message(4, 0, "a"), Message(4, 0, "a"), AllActions, {})

\* The trigger is the last message, unless the history is stale.
Odd(candidates, history, userRequest, flags) ==
  Request(candidates, history, userRequest,
          IF history = <<>> \/ "stale" \in flags THEN Message(5, 0, "a") ELSE Last(history), AllActions, flags)

Predictors == {"move", "laya", "compact"}
Case(predictor, request, sizes, answer) ==
  [predictor |-> predictor, request |-> request, sizes |-> sizes, answer |-> answer]

Histories == UNION {[1..n -> Messages] : n \in 0..3}

ContextCases ==
  \E p \in Predictors, c \in 1..3, h \in Histories, u \in {Message(1, 0, "a"), Message(4, 0, "a")} :
    Asked(Case(p, Odd(c, h, u, {}), Fits, Responds))

OddCases ==
  \E p \in Predictors, c \in 0..3, f \in SUBSET {"unnamed", "summary", "control", "stale"} :
    Asked(Case(p, Odd(c, Usual.history, Usual.userRequest, f), Fits, Responds))

SizeCases ==
  \E p \in Predictors, c \in 1..2, allowed \in {AllActions, {"respond"}, {"wait"}},
     h \in {10, 17, 18, 38, 39}, o \in {8, 12, 13, 34, 48, 49}, s \in {1} \union 45..80 :
    Asked(Case(p, [Usual EXCEPT !.candidates = c, !.allowed = allowed],
               [head |-> h, profile |-> o, state |-> s], Responds))

AnswerCases ==
  \E p \in Predictors, allowed \in SUBSET AllActions, a \in AllActions \union {"abstain", "unknown"},
     s \in 0..3, c \in {"missing", "nan", "low", "enough"}, r \in {"r1", "r2", "unknown"} :
    Asked(Case(p, [Usual EXCEPT !.allowed = allowed], Fits, [Answered(a, s, c) EXCEPT !.about = r]))

-----------------------------------------------------------------------------
(* The batches: questions of every type and form, of two to six options, some *)
(* unfit to be asked, alone, in pairs and three at a time.                    *)

Entries(keys, size) == [i \in DOMAIN keys |-> [key |-> keys[i], size |-> size]]
Question(type, is, labels, logits, act) ==
  [type |-> type, ins |-> TRUE, is |-> is, labels |-> labels, head |-> 12, state |-> 20,
   logits |-> logits, act |-> act]

Room2 == Question("choice", "dict", Entries(<<"x", "y">>, 4), <<3, 7>>, 1)
Levels == Question("score", "list", Entries(<<"lo", "mid", "hi", "top">>, 3), <<5, -2, 5, 1>>, 2)
Holds == Question("noul", "dict", Entries(<<"True", "false", "true">>, 6), <<4, 4>>, 3)
SaysNothing == [Question("noul", "none", <<>>, <<9, 0>>, 4) EXCEPT !.state = 0]
Repeats == Question("choice", "list", Entries(<<"x", "y", "x">>, 2), <<2, 6>>, 5)
Wide == [Question("choice", "dict", Entries(<<"x", "y", "z", "u", "v", "w">>, 14), <<1, 2, 3, 3, 2, 1>>, 6)
           EXCEPT !.head = 30]
LongState == [Room2 EXCEPT !.state = 90]
Long == [Room2 EXCEPT !.labels[1].size = 60, !.head = 40]

BadQuestions == {[Room2 EXCEPT !.ins = FALSE], [Room2 EXCEPT !.type = "rank"], [Room2 EXCEPT !.labels = <<>>],
                 [Levels EXCEPT !.is = "dict"], [Holds EXCEPT !.is = "list"], [Room2 EXCEPT !.is = "none", !.labels = <<>>]}
GoodQuestions == {Room2, Levels, Holds, SaysNothing, Repeats, Wide, LongState, Long}

MCRequested ==
  {<<q>> : q \in GoodQuestions} \union {<<Levels, q>> : q \in BadQuestions}
    \union {<<a, b>> : a, b \in GoodQuestions}
    \union {<<a, b, c>> : a \in {Room2, Wide}, b \in {Levels, SaysNothing}, c \in {Repeats, Holds, LongState}}

\* As fitted, with a bucket that has its own; and one nobody should have written.
MCConfigs ==
  {[byType |-> [choice |-> 12, score |-> 8, noul |-> 15], byOptions |-> <<"choice", "2">> :> 20 @@ <<"score", "3-5">> :> 7],
   [byType |-> [choice |-> NotFinite, score |-> 0, noul |-> 900],
    byOptions |-> <<"choice", "6-10">> :> NotFinite @@ <<"noul", "2">> :> -3]}

MCLimits == {[settings |-> s, config |-> 100, head |-> h] : s \in {0, 28, 48}, h \in {32, 80}}

NoAnswers ==
  /\ query = [questions |-> <<>>, config |-> <<>>, limits |-> <<>>, npu |-> FALSE]
  /\ items = <<>> /\ rows = <<>> /\ decoded = <<>> /\ fate = "asked"

-----------------------------------------------------------------------------
MCInit ==
  \/ part = "service" /\ Init /\ Asked(Case("move", Usual, Fits, Responds)) /\ NoAnswers
  \/ /\ part = "participation"
     /\ Init /\ ~speculative /\ NoAnswers
     /\ ContextCases \/ OddCases \/ SizeCases \/ AnswerCases
  \/ /\ part = "answers"
     /\ Init /\ ~speculative /\ Asked(Case("move", Usual, Fits, Responds))
     /\ AnswersInit

MCNext ==
  /\ UNCHANGED part
  /\ \/ part = "service" /\ Next /\ UNCHANGED <<participationVars, answerVars>>
     \/ part = "participation" /\ ParticipationNext /\ UNCHANGED <<vars, answerVars>>
     \/ part = "answers" /\ AnswersNext /\ UNCHANGED <<vars, participationVars>>

MCSpec == MCInit /\ [][MCNext]_<<part, vars, participationVars, answerVars>> /\ Fairness

=============================================================================
