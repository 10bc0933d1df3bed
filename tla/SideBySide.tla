------------------------------ MODULE SideBySide ------------------------------
(***************************************************************************)
(* laya/deploy/rk3588/concurrency.py: the home and the participation       *)
(* service called side by side, as the Agent would, and what the Agent     *)
(* would have made of every reply.                                         *)
(*                                                                         *)
(* Calls are made by the main thread, by a team thread that decides back   *)
(* to back, or by pairs of threads released together.  A reply is a row;   *)
(* a thread whose call raises (the service hung up) is gone with its row.  *)
(* If that is the team, `done` is never set and "both" goes on calling the *)
(* home service for ever: BoundHome ends it here.                          *)
(*                                                                         *)
(* Not here: sleeps, percentiles, CPU and NPU samples, the service's log.  *)
(***************************************************************************)
EXTENDS Integers, Sequences, FiniteSets

CONSTANTS
  HomeItems, TeamItems,    (* home.jsonl and participation.jsonl: [gold, replies],
                              what is right and what the service may say  *)
  Pairs,                   (* --pairs                                     *)
  BoundHome                (* bound: home calls of a "both" run           *)

\* A service answers what it is asked: a home request is a command or a
\* continuation, and an intent is one of the three options of its question.
HomeAnswers(reply) ==
  /\ \A q \in DOMAIN reply.answers : reply.answers[q].p \in Nat
  /\ "intent" \in DOMAIN reply.answers =>
       /\ reply.answers["intent"].choice \in {"control", "query", "none"}
       /\ {"pick", "follow"} \intersect DOMAIN reply.answers = {}

ASSUME SideAssumption ==
  /\ Pairs \in Nat \ {0} /\ BoundHome \in Nat
  /\ Len(HomeItems) \in Nat \ {0} /\ DOMAIN HomeItems = 1 .. Len(HomeItems)
  /\ Len(TeamItems) \in Nat \ {0} /\ DOMAIN TeamItems = 1 .. Len(TeamItems)
  /\ \A i \in DOMAIN HomeItems : \A reply \in HomeItems[i].replies : reply.http = 200 => HomeAnswers(reply)

VARIABLES
  scenario,        (* of run()                                            *)
  mainAt,          (* "call", "join", "written"; or "raised"              *)
  asked,           (* calls, or pairs, the main thread has begun          *)
  teamAt,          (* "off", "call", "set" (done is set), "dead"; [at, made] *)
  inFlight,        (* calls begun and not ended                           *)
  begun,           (* how many, which orders their start                  *)
  rows,            (* the sink                                            *)
  outcomes         (* <scenario>.jsonl with the Agent's outcome of each   *)

sideVars == <<scenario, mainAt, asked, teamAt, inFlight, begun, rows, outcomes>>

Mixes == {"home-alone", "part-alone", "both", "collide", "home-collide"}
Colliding == {"collide", "home-collide"}

SideInit ==
  /\ scenario \in Mixes
  /\ mainAt = "call" /\ asked = 0
  /\ teamAt = [at |-> IF scenario = "both" THEN "call" ELSE "off", made |-> 0]
  /\ inFlight = {} /\ begun = 0 /\ rows = <<>> /\ outcomes = <<>>

-----------------------------------------------------------------------------
(* home_outcome() and part_outcome() *)

MinP == 80  ExecP == 95  CancelP == 50

\* What the reply says of q; a question that is not answered has no choice.
Said(reply, q) ==
  IF q \in DOMAIN reply.answers THEN reply.answers[q] ELSE [choice |-> "nothing", p |-> 0]

\* The questions the Agent relies on.
HomeKeys(intent) ==
  CASE intent = "none" -> {"intent"}
    [] intent = "control" -> {"intent", "device", "action"}
    [] OTHER -> {"intent", "device"}

RightKeys(reply, gold, keys) == \A q \in keys : Said(reply, q).choice \in gold[q]

\* A continuation: pick wins over follow.
Continued(reply, gold, q) ==
  LET choice == Said(reply, q).choice
      p == Said(reply, q).p
  IN  IF \/ choice \notin {"cancel", "redo"} /\ p >= ExecP
         \/ q = "pick" /\ choice = "cancel" /\ p >= CancelP
      THEN [is |-> "decided", correct |-> RightKeys(reply, gold, {q})]
      ELSE [is |-> "abstain", correct |-> FALSE]

Not(what) == [is |-> what, correct |-> FALSE]

HomeOutcome(reply, gold) ==
  LET intent == Said(reply, "intent").choice
      keys == HomeKeys(intent)
  IN  CASE reply.http # 200 -> Not("error")
        [] reply.http = 200 /\ reply.late -> Not("timeout")
        [] reply.http = 200 /\ ~reply.late /\ reply.truncated -> Not("abstain")
        [] OTHER ->
             IF "pick" \in DOMAIN reply.answers THEN Continued(reply, gold, "pick")
             ELSE IF "follow" \in DOMAIN reply.answers THEN Continued(reply, gold, "follow")
             ELSE IF \/ intent # "none" /\ Said(reply, "device").choice = "several"
                     \/ \E q \in keys : Said(reply, q).p < MinP
             THEN Not("abstain")
             ELSE [is |-> "decided", correct |-> RightKeys(reply, gold, keys)]

TeamOutcome(reply, gold) ==
  CASE reply.http = 503 -> Not("busy")
    [] reply.http = 504 -> Not("timeout")
    [] reply.http \notin {200, 503, 504} -> Not("error")
    [] reply.http = 200 /\ reply.status # "decided" -> Not("abstain")
    [] OTHER -> [is |-> "decided", correct |-> reply.action = gold.action]

\* decided_e2e: the speaker counts when somebody speaks, the instruction when
\* it is a clarification.
WholeTurn(reply, gold) ==
  /\ reply.action = gold.action
  /\ reply.action \in {"respond", "clarify"} => reply.speaker \in gold.speaker
  /\ reply.action = "clarify" => reply.about = gold.about

StopViolated(reply, gold) ==
  gold.action \in {"wait", "finish"} /\ reply.action \in {"respond", "clarify"}

Outcome(row) ==
  IF row.kind = "home" THEN HomeOutcome(row.reply, HomeItems[row.item].gold)
  ELSE TeamOutcome(row.reply, TeamItems[row.item].gold)

-----------------------------------------------------------------------------
(* call(): between its start and its row *)

CallOf(by, kind, item, n) == [by |-> by, kind |-> kind, item |-> item, start |-> n]
Round(n, items) == (n % Len(items)) + 1
OfMain == {c \in inFlight : c.by = "main"}

Reply ==
  \E c \in inFlight :
    \E reply \in IF c.kind = "home" THEN HomeItems[c.item].replies ELSE TeamItems[c.item].replies :
      /\ rows' = Append(rows, [kind |-> c.kind, item |-> c.item, start |-> c.start,
                               reply |-> reply])
      /\ inFlight' = inFlight \ {c}
      /\ UNCHANGED <<scenario, mainAt, asked, teamAt, begun, outcomes>>

\* post() catches what urlopen wraps; a peer that closes before its answer
\* raises in the thread that called.
CallRaises ==
  \E c \in inFlight :
    /\ inFlight' = inFlight \ {c}
    /\ mainAt' = IF c.by = "main" THEN "raised" ELSE mainAt
    /\ teamAt' = IF c.by = "team" THEN [teamAt EXCEPT !.at = "dead"] ELSE teamAt
    /\ UNCHANGED <<scenario, asked, begun, rows, outcomes>>

-----------------------------------------------------------------------------
(* run() *)

Alone ==
  LET home == scenario = "home-alone"
      items == IF home THEN HomeItems ELSE TeamItems
  IN  /\ scenario \in {"home-alone", "part-alone"} /\ mainAt = "call" /\ OfMain = {}
      /\ IF asked = Len(items) THEN mainAt' = "join" /\ UNCHANGED <<inFlight, begun, asked>>
         ELSE /\ inFlight' = inFlight \union
                   {CallOf("main", IF home THEN "home" ELSE "team", asked + 1, begun)}
              /\ begun' = begun + 1 /\ asked' = asked + 1 /\ UNCHANGED mainAt
      /\ UNCHANGED <<scenario, teamAt, rows, outcomes>>

\* team(): every decision in turn, then done.set().
Team ==
  /\ teamAt.at = "call" /\ {c \in inFlight : c.by = "team"} = {}
  /\ IF teamAt.made = Len(TeamItems)
     THEN teamAt' = [teamAt EXCEPT !.at = "set"] /\ UNCHANGED <<inFlight, begun>>
     ELSE /\ inFlight' = inFlight \union {CallOf("team", "team", teamAt.made + 1, begun)}
          /\ begun' = begun + 1
          /\ teamAt' = [teamAt EXCEPT !.made = @ + 1]
  /\ UNCHANGED <<scenario, mainAt, asked, rows, outcomes>>

\* The main thread of "both" calls home until done is set.
Beside ==
  /\ scenario = "both" /\ mainAt = "call" /\ OfMain = {}
  /\ IF teamAt.at = "set" THEN mainAt' = "join" /\ UNCHANGED <<inFlight, begun, asked>>
     ELSE /\ asked < BoundHome
          /\ inFlight' = inFlight \union
               {CallOf("main", "home", Round(asked, HomeItems), begun)}
          /\ begun' = begun + 1 /\ asked' = asked + 1 /\ UNCHANGED mainAt
  /\ UNCHANGED <<scenario, teamAt, rows, outcomes>>

\* Two threads meet at a barrier, call, and are joined before the next pair.
Pair ==
  LET step == Len(TeamItems) \div Pairs
      second == IF scenario = "home-collide"
                THEN CallOf("second", "home", Round(asked + 1, HomeItems), begun + 1)
                ELSE CallOf("second", "team",
                          Round(asked * (IF step = 0 THEN 1 ELSE step), TeamItems), begun + 1)
  IN  /\ scenario \in Colliding /\ mainAt = "call" /\ inFlight = {}
      /\ IF asked = Pairs THEN mainAt' = "join" /\ UNCHANGED <<inFlight, begun, asked>>
         ELSE /\ inFlight' = inFlight \union
                   {CallOf("first", "home", Round(asked, HomeItems), begun), second}
              /\ begun' = begun + 2 /\ asked' = asked + 1 /\ UNCHANGED mainAt
      /\ UNCHANGED <<scenario, teamAt, rows, outcomes>>

\* rows.sort(by start): the k-th row is the one that k - 1 started before.
StartedBefore(i) == {j \in DOMAIN rows : rows[j].start < rows[i].start}
Nth(k) == rows[CHOOSE i \in DOMAIN rows : Cardinality(StartedBefore(i)) = k - 1]

\* The file, and the outcomes report() reads from it.
WriteRows ==
  /\ mainAt = "join"
  /\ mainAt' = "written"
  /\ outcomes' = [k \in DOMAIN rows |-> [row |-> Nth(k), outcome |-> Outcome(Nth(k))]]
  /\ UNCHANGED <<scenario, asked, teamAt, inFlight, begun, rows>>

SideNext ==
  \/ Reply \/ CallRaises \/ Alone \/ Team \/ Beside \/ Pair \/ WriteRows

SideSpec == SideInit /\ [][SideNext]_sideVars

-----------------------------------------------------------------------------
(* Properties *)

Rows(kind) == {i \in DOMAIN outcomes : outcomes[i].row.kind = kind}

\* What is written is everything that was measured: no call is still running,
\* and a stream that nobody cut short is there item by item.
FileComplete ==
  mainAt = "written" =>
    /\ inFlight = {}
    /\ scenario = "home-alone" => [i \in DOMAIN outcomes |-> outcomes[i].row.item] = [i \in DOMAIN HomeItems |-> i]
    /\ scenario \in {"both", "part-alone"} =>
         /\ Cardinality(Rows("team")) = Len(TeamItems)
         /\ {outcomes[i].row.item : i \in Rows("team")} = DOMAIN TeamItems

\* What counts as decided is what the Agent would have acted on: in time, all
\* of it read, every question that the intent calls for answered with
\* confidence; what counts as a right turn violates no stop.
JudgedAsAgent ==
  \A i \in DOMAIN outcomes :
    LET reply == outcomes[i].row.reply
        out == outcomes[i].outcome
        one == outcomes[i].row.item
    IN  /\ out.is = "decided" /\ outcomes[i].row.kind = "home" =>
             /\ reply.http = 200 /\ ~reply.late /\ ~reply.truncated
             /\ "intent" \in DOMAIN reply.answers =>
                  \A q \in {"device", "action"} :
                    \/ Said(reply, q).p >= MinP /\ (q = "device" => Said(reply, q).choice # "several")
                    \/ Said(reply, "intent").choice = "none"
                    \/ q = "action" /\ Said(reply, "intent").choice = "query"
             /\ Said(reply, "pick").choice # "redo"
        /\ out.is = "decided" /\ outcomes[i].row.kind = "team" =>
             /\ WholeTurn(reply, TeamItems[one].gold) => out.correct
             /\ StopViolated(reply, TeamItems[one].gold) => ~out.correct

\* concurrency.py run and report: the file holds the whole measurement, and a
\* decision in it is one the Agent would have carried out.
MeasuredAsAgent == FileComplete /\ JudgedAsAgent
=============================================================================
