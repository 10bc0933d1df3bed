------------------------------- MODULE Episodes -------------------------------
(***************************************************************************)
(* laya/train/scenarios/participation: episodes of a team or a companion   *)
(* talking, with the right decision after every event.                     *)
(*   glm_generate.py  plans an episode, decisions included, has a model    *)
(*                    write the words and checks that they fit the plan    *)
(*   episodes.py      validates episodes, makes one record per event and   *)
(*                    variant, hands a second annotator what the model     *)
(*                    sees and compares the two                            *)
(*   metrics.py       counts what an evaluated model got right             *)
(*                                                                         *)
(* A text is the set of names it calls and whether it is blank or says "I  *)
(* am done"; an event stands for its own words.  Whom the calls are paid   *)
(* for and what is kept of them is PaidCalls.                              *)
(***************************************************************************)
EXTENDS Integers, Sequences, FiniteSets, SequencesExt, FiniteSetsExt

CONSTANTS
  MaxCast,         (* bound: members of a team, at least 3                *)
  History          (* HISTORY: public messages kept in the state          *)

ASSUME EpisodesAssumption == MaxCast \in 3..5 /\ History \in Nat \ {0}

VARIABLES
  planned,         (* the episode as it was planned                       *)
  wrote,           (* in what way the words differ from what was asked    *)
  episode,         (* what check() made of them                           *)
  orders,          (* for each variant, the members in the order listed   *)
  answers          (* who answered the snapshots                          *)

episodeVars == <<planned, wrote, episode, orders, answers>>

Speaks == {"respond", "clarify"}
Quiet == {"wait", "finish"}
TheUser == 0
NoEpisode == [is |-> "none"]
Rejected == [is |-> "rejected"]

-----------------------------------------------------------------------------
(* Plans.  R, C, W and F are the decisions after an event; a user's event    *)
(* either calls a member by name, must not name any, or is free to.          *)

Decision(action, speaker, about) == [action |-> action, speaker |-> speaker, about |-> about]
R(members) == Decision("respond", members, "nothing")
C(about, members) == Decision("clarify", members, about)
W == Decision("wait", {}, "nothing")
F == Decision("finish", {}, "nothing")

TurnOf(by, calls, gold) == [by |-> by, calls |-> calls, gold |-> gold]
Calling(m, gold) == TurnOf(TheUser, [all |-> {m}, none |-> FALSE], gold)
CallingNobody(gold) == TurnOf(TheUser, [all |-> {}, none |-> TRUE], gold)
Telling(gold) == TurnOf(TheUser, [all |-> {}, none |-> FALSE], gold)
Saying(m, gold) == TurnOf(m, [all |-> {}, none |-> FALSE], gold)

\* team_plan(): cast is the members in random order, alt the other random choice.
TeamPlans(cast, alt) ==
  LET n == Len(cast)
      a == cast[1]
      b == cast[2]
      c == cast[(2 % n) + 1]
      every == 1..n
      answer(m) == <<Calling(m, R({m})), Saying(m, F)>>
      inTurn(i) == Saying(cast[i], IF i = n THEN F ELSE R({cast[k] : k \in (i + 1)..n}))
  IN  [T01 |-> answer(a),
       T02 |-> <<Calling(a, R({a}))>> \o [p \in 1..alt |-> Saying(a, R({a}))] \o <<Saying(a, F)>>,
       T03 |-> <<Calling(a, R({a})), Saying(a, R({b})), Saying(b, F)>>,
       T04 |-> <<CallingNobody(R(every)), Saying(a, F)>> \o answer(b),
       T05 |-> <<Calling(a, R({a})), Saying(a, R({b})), Saying(b, F)>>,
       T06 |-> <<CallingNobody(R({a})), Saying(a, F)>>,
       T07 |-> answer(a) \o <<CallingNobody(R({a})), Saying(a, F)>>,
       T08 |-> <<Calling(a, R({a, b})), Saying(a, R({b})), Saying(b, F), CallingNobody(C("whom", every)),
                 Saying(c, W), Telling(R({b})), Saying(b, F)>>,
       T09 |-> <<CallingNobody(C("absent", every)), Saying(c, W)>> \o answer(a),
       T10 |-> IF alt = 1 THEN <<Telling(R({a})), Saying(a, F)>>
               ELSE <<Telling(C("whom", every)), Saying(c, W), Telling(R({b})), Saying(b, F)>>,
       T11 |-> answer(a) \o <<CallingNobody(W)>> \o answer(a),
       T12 |-> answer(a) \o <<CallingNobody(F)>> \o answer(b),
       T13 |-> <<Calling(a, R({a})), Saying(a, R({a}))>> \o answer(b),
       T14 |-> <<CallingNobody(R(every))>> \o [i \in 1..n |-> inTurn(i)],
       T15 |-> answer(b),
       T16 |-> <<CallingNobody(C("what", every)), Saying(c, W)>> \o answer(a)]

\* companion_plan()
CompanionPlans(alt) ==
  LET told == <<Telling(R({1})), Saying(1, F)>>
  IN  [C01 |-> told \o told,
       C02 |-> told,
       C03 |-> <<Telling(W)>> \o told,
       C04 |-> told \o <<Telling(F)>> \o told,
       C05 |-> <<Telling(C("what", {1})), Saying(1, W)>> \o told,
       C06 |-> <<Telling(R({1}))>> \o [p \in 1..alt |-> Saying(1, R({1}))] \o <<Saying(1, F)>>,
       C07 |-> told \o <<Telling(W)>>,
       C08 |-> told \o (IF alt = 1 THEN <<Telling(F)>> ELSE told)]

Permuted(n) == SetToSeqs(1..n)

\* make_plan()
Plans ==
  {[mode |-> "companion", n |-> 1, events |-> CompanionPlans(alt)[f], same |-> {}] :
     alt \in {1, 2}, f \in DOMAIN CompanionPlans(1)}
  \union UNION {
    {[mode |-> "team", n |-> n, events |-> TeamPlans(cast, alt)[f], same |-> IF f = "T10" THEN {cast[1], cast[2]} ELSE {}] :
       cast \in Permuted(n), alt \in {1, 2},
       f \in IF n = 2 THEN DOMAIN TeamPlans(<<1, 2>>, 1) \ {"T08", "T14"} ELSE DOMAIN TeamPlans(<<1, 2>>, 1)} :
    n \in 2..MaxCast}

-----------------------------------------------------------------------------
(* validate() *)

Valid(ep) ==
  /\ ep.mode = "companion" => Len(ep.names) = 1
  /\ ep.mode = "team" => Len(ep.names) \in 2..5
  /\ ep.events # <<>> /\ ep.events[1].by = TheUser
  /\ \A i \in DOMAIN ep.events :
       LET ev == ep.events[i]
       IN  /\ ev.by # TheUser => ev.by \in DOMAIN ep.names
           /\ i > 1 /\ ev.by # TheUser =>
                ep.events[i - 1].gold.action \in Speaks /\ ev.by \in ep.events[i - 1].gold.speaker
           /\ ev.gold.action \in Speaks => ev.gold.speaker # {} /\ ev.gold.speaker \subseteq DOMAIN ep.names
           /\ ev.gold.action \in Quiet => ev.gold.speaker = {}
           /\ (ev.gold.action = "clarify") = (ev.gold.about # "nothing")

\* check(): got is [names, texts]; the gold of the episode is the plan's.
EpisodeOf(p, got) ==
  [is |-> "episode", mode |-> p.mode, names |-> got.names,
   events |-> [i \in DOMAIN p.events |-> [by |-> p.events[i].by, gold |-> p.events[i].gold]]]

NamesFit(p, names) ==
  IF p.same = {} THEN IsInjective(names)
  ELSE /\ \A x, y \in p.same : names[x] = names[y]
       /\ Cardinality(ToSet(names)) = Len(names) - 1

TextFits(ev, names, text) ==
  /\ ~text.blank
  /\ ev.by # TheUser => ~text.meta
  /\ \A m \in ev.calls.all : names[m] \in text.called
  /\ ev.calls.none => text.called \intersect ToSet(names) = {}

Check(p, got) ==
  IF /\ Len(got.names) = p.n
     /\ Len(got.texts) = Len(p.events)
     /\ NamesFit(p, got.names)
     /\ \A i \in DOMAIN p.events : TextFits(p.events[i], got.names, got.texts[i])
     /\ Valid(EpisodeOf(p, got))
  THEN EpisodeOf(p, got)
  ELSE Rejected

-----------------------------------------------------------------------------
(* The model that writes the words: as asked, or with one mistake.           *)

AsAsked(p) ==
  LET names == [m \in 1..p.n |-> IF m \in p.same THEN Min(p.same) ELSE m]
      text(ev) == [called |-> {names[m] : m \in ev.calls.all}, meta |-> FALSE, blank |-> FALSE]
  IN  [names |-> names, texts |-> [i \in DOMAIN p.events |-> text(p.events[i])]]

Written(p) ==
  LET good == AsAsked(p)
  IN  {<<"as asked", good>>,
       <<"one candidate more", [good EXCEPT !.names = Append(@, 9)]>>,
       <<"other names", [good EXCEPT !.names[p.n] = IF p.n = 1 THEN 9 ELSE good.names[1]]>>,
       <<"one text less", [good EXCEPT !.texts = Front(@)]>>}
      \union {<<"blank", [good EXCEPT !.texts[i].blank = TRUE]>> : i \in DOMAIN good.texts}
      \union {<<"says it is done", [good EXCEPT !.texts[i].meta = TRUE]>> : i \in DOMAIN good.texts}
      \union {<<"calls another", [good EXCEPT !.texts[i].called = {good.names[m]}]>> : i \in DOMAIN good.texts, m \in 1..p.n}

-----------------------------------------------------------------------------
(* to_records(), snapshots(): the members are renamed to their places in a   *)
(* random order, so that no place and no id can be learned.                  *)

Place(order, m) == CHOOSE k \in DOMAIN order : order[k] = m
PlaceOrUser(order, by) == IF by = TheUser THEN TheUser ELSE Place(order, by)

LastUser(ep, i) == Max({k \in 1..i : ep.events[k].by = TheUser})

Snapshot(ep, order, i) ==
  [candidates |-> [k \in DOMAIN order |-> ep.names[order[k]]],
   request |-> LastUser(ep, i),
   public |-> LET from == IF i > History THEN i - History ELSE 0
              IN  [k \in 1..(i - from) |-> [who |-> PlaceOrUser(order, ep.events[from + k].by), words |-> from + k]],
   labels |-> [ep.events[i].gold EXCEPT !.speaker = {Place(order, m) : m \in @}]]

\* blind_snapshots(): the events up to this one, without their gold.
Blind(ep, i) == [k \in 1..i |-> [by |-> ep.events[k].by, words |-> k]]

-----------------------------------------------------------------------------
(* Answers to a snapshot, by the annotator or by a model: one that knows the *)
(* gold, and three habits.                                                   *)

Habits == {"gold", "first", "silent", "asks"}

AnswerTo(habit, s) ==
  CASE habit = "gold" -> [action |-> s.labels.action, about |-> s.labels.about,
                          speaker |-> IF s.labels.speaker = {} THEN 1 ELSE Max(s.labels.speaker)]
    [] habit = "first" -> [action |-> "respond", about |-> "what", speaker |-> 1]
    [] habit = "silent" -> [action |-> "wait", about |-> "what", speaker |-> 1]
    [] habit = "asks" -> [action |-> "clarify", about |-> "whom", speaker |-> Len(s.candidates)]

\* What an annotator writes down of it: members by their ids.
AnnotatedBy(ep, order, habit, i) ==
  LET x == AnswerTo(habit, Snapshot(ep, order, i))
  IN  Decision(x.action, IF x.action \in Speaks THEN {order[x.speaker]} ELSE {},
           IF x.action = "clarify" THEN x.about ELSE "nothing")

\* compare(): the action exactly, the speaker if both speak and have one in common.
AgreesOn(g, h) ==
  /\ g.action = h.action
  /\ g.action \in Speaks => g.speaker \intersect h.speaker # {}
  /\ g.action = "clarify" => g.about = h.about

Disagreements(ep, second) == {i \in DOMAIN ep.events : ~AgreesOn(ep.events[i].gold, second[i])}

\* records() of metrics.py, of the three questions of one snapshot.
MarkOf(s, x) ==
  LET right == x.action = s.labels.action
      speaker == right /\ x.action \in Speaks /\ s.labels.speaker # {} => x.speaker \in s.labels.speaker
      about == right /\ x.action = "clarify" /\ s.labels.about # "nothing" => x.about = s.labels.about
  IN  [action |-> x.action, right |-> right, whole |-> right /\ speaker /\ about,
       stop |-> s.labels.action \in Quiet /\ x.action \in Speaks,
       missed |-> s.labels.action \in Speaks /\ x.action \in Quiet]

MarksOf(ep, order, habit) ==
  [i \in DOMAIN ep.events |-> LET s == Snapshot(ep, order, i) IN MarkOf(s, AnswerTo(habit, s))]

\* summary() of the variants of one episode; the first variant stands for it.
SummaryOf(outs) ==
  [n |-> Len(outs) * Len(outs[1]),
   whole |-> Cardinality({<<v, i>> \in (DOMAIN outs) \X (DOMAIN outs[1]) : outs[v][i].whole}),
   allRight |-> \A i \in DOMAIN outs[1] : outs[1][i].whole,
   sameAction |-> Cardinality({i \in DOMAIN outs[1] : \A v \in DOMAIN outs : outs[v][i].action = outs[1][i].action})]

-----------------------------------------------------------------------------
EpisodesInit ==
  /\ planned = NoEpisode /\ wrote = "nothing" /\ episode = NoEpisode
  /\ orders = <<>> /\ answers = "nobody"

PlanEpisode ==
  /\ planned = NoEpisode
  /\ planned' \in Plans
  /\ UNCHANGED <<wrote, episode, orders, answers>>

WriteWords ==
  /\ planned # NoEpisode /\ episode = NoEpisode
  /\ \E w \in Written(planned) : wrote' = w[1] /\ episode' = Check(planned, w[2])
  /\ UNCHANGED <<planned, orders, answers>>

\* main(records): two variants.
MakeRecords ==
  /\ episode.is = "episode" /\ wrote = "as asked" /\ orders = <<>>
  /\ \E x, y \in Permuted(Len(episode.names)) : orders' = <<x, y>>
  /\ UNCHANGED <<planned, wrote, episode, answers>>

AnswerAll ==
  /\ orders # <<>> /\ answers = "nobody"
  /\ answers' \in Habits
  /\ UNCHANGED <<planned, wrote, episode, orders>>

EpisodesNext == PlanEpisode \/ WriteWords \/ MakeRecords \/ AnswerAll

-----------------------------------------------------------------------------
(* Every plan can be fulfilled: words written as asked pass, whatever the    *)
(* family, the size of the team and who is who; whoever a user calls by name *)
(* is among those who may speak next; and the last decision is to be silent. *)
PlansHold ==
  /\ wrote = "as asked" => episode.is = "episode"
  /\ planned # NoEpisode =>
       /\ Last(planned.events).gold.action \in Quiet
       /\ \A i \in DOMAIN planned.events : planned.events[i].calls.all \subseteq planned.events[i].gold.speaker

(* A record shows the past and nothing else: its latest message is the event *)
(* it decides after, the request of the round stays when the history is cut, *)
(* the names in it are of those who spoke, in whatever order they are        *)
(* listed, and its gold is the same members as the plan's.  The annotator    *)
(* sees as much.                                                             *)
RecordsTrue ==
  \A v \in DOMAIN orders : \A i \in DOMAIN episode.events :
    LET s == Snapshot(episode, orders[v], i)
    IN  /\ Last(s.public).words = i
        /\ \A k \in s.request..i : k > s.request => episode.events[k].by # TheUser
        /\ \A k \in DOMAIN s.public :
             LET m == s.public[k]
             IN  /\ m.who # TheUser => s.candidates[m.who] = episode.names[episode.events[m.words].by]
                 /\ Blind(episode, i)[m.words].by = episode.events[m.words].by
        /\ {orders[v][k] : k \in s.labels.speaker} = planned.events[i].gold.speaker

(* Two scripts count right decisions, compare() for annotators by their ids, *)
(* metrics.py for models by their places: for the same answers they agree    *)
(* event by event, and each costly error is an error.                        *)
CountedAlike ==
  answers # "nobody" =>
    LET outs == [v \in DOMAIN orders |-> MarksOf(episode, orders[v], answers)]
        second(v) == [i \in DOMAIN episode.events |-> AnnotatedBy(episode, orders[v], answers, i)]
        sum == SummaryOf(outs)
    IN  /\ \A v \in DOMAIN orders :
             {i \in DOMAIN outs[v] : ~outs[v][i].whole} = Disagreements(episode, second(v))
        /\ \A v \in DOMAIN orders : \A i \in DOMAIN outs[v] : outs[v][i].stop \/ outs[v][i].missed => ~outs[v][i].whole
        /\ sum.allRight = (Disagreements(episode, second(1)) = {})
        /\ sum.whole = sum.n - Cardinality(Disagreements(episode, second(1))) - Cardinality(Disagreements(episode, second(2)))
        /\ answers # "gold" \/ (sum.allRight /\ sum.sameAction = Len(episode.events))

EpisodesSound == PlansHold /\ RecordsTrue /\ CountedAlike

=============================================================================
