---------------------------- MODULE Continuation ----------------------------
(***************************************************************************)
(* laya/train/scenarios/smart-home-continuation/frames.py: the scripts of  *)
(* the continuation data.  A context is a question of the Agent ("which of *)
(* these lamps?", or what to do next with a device); the scripts of one    *)
(* context ask a writer for utterances of different families, and the      *)
(* right answer is fixed here, before anything is written.                 *)
(*                                                                         *)
(* Below, build.py: scripts and what the writers made of them become       *)
(* records, and where a rule knows the right answer, counterparts: the     *)
(* same utterance before other candidates.  An utterance is what it names: *)
(* rooms and names said in full, and those of which it holds a fragment of *)
(* two characters.                                                         *)
(*                                                                         *)
(* Not here: wording, the shares of the families, the number of scripts,   *)
(* the old evaluation set, the blind labels, tags and counts.              *)
(***************************************************************************)
EXTENDS Naturals, Sequences, FiniteSets, SequencesExt

CONSTANTS
  SplitHomes,      (* SPLIT_HOMES: split -> homes                         *)
  Inventory,       (* home -> devices [name, room, category, type]        *)
  FramesPerContext (* bound: scripts of one context (the code: 3)         *)

(* No home has two devices of one name, and no home is in two splits. *)
ASSUME FramesAssumption ==
  /\ FramesPerContext \in Nat
  /\ \A h \in DOMAIN Inventory : \A d, e \in Inventory[h] : d.name = e.name => d = e
  /\ \A s, t \in DOMAIN SplitHomes : s # t => SplitHomes[s] \intersect SplitHomes[t] = {}

VARIABLES
  split, home,     (* whose context it is                                 *)
  ctx,             (* pick_context() or follow_context()                  *)
  scripts          (* its scripts: family, gold and what the writer is told *)

frameVars == <<split, home, ctx, scripts>>

Cancel == <<"cancel">>
Redo == <<"redo">>
NoContext2 == [question |-> "none"]

-----------------------------------------------------------------------------
(* kind_of(), family_of(), verbs_for() *)

KindOf(d) ==
  CASE d.category = "lighting" -> "light"
    [] d.category = "climate" -> "climate"
    [] d.category = "shades" -> "cover"
    [] d.category \in {"air", "fans"} -> "fan"
    [] d.category = "audio and video" -> "media"
    [] d.category = "cleaning" -> "appliance"
    [] d.category = "kitchen" /\ d.type = "range hood" -> "fan"
    [] d.category = "kitchen" /\ d.type \in {"rice cooker", "oven", "dishwasher", "coffee machine"} -> "appliance"
    [] d.category = "bath" -> IF d.type = "water heater" THEN "water_heater" ELSE "switch"
    [] d.category = "sockets" -> "switch"
    [] d.category = "security" /\ d.type \in {"camera", "doorbell"} -> "camera"
    [] d.category = "pets" /\ d.type = "feeder" -> "appliance"
    [] d.category = "pets" /\ d.type = "pet camera" -> "camera"
    [] OTHER -> "left out"

\* load_home(): locks, sensors and the like have no continuation.
Devices(h) == {d \in Inventory[h] : KindOf(d) # "left out"}

\* What one word points at: all lamps, but not the floor heating with the
\* air conditioners.
FamilyOf(d) ==
  CASE KindOf(d) = "light" -> "lamp"
    [] KindOf(d) = "climate" /\ d.type \in {"aircon", "duct unit", "wall unit"} -> "aircon"
    [] KindOf(d) = "cover" /\ d.type \notin {"drying rack", "awning"} -> "curtain"
    [] KindOf(d) \in {"water_heater", "camera"} -> KindOf(d)
    [] OTHER -> d.type

On == "on"  Off == "off"  Up == "up"  Down == "down"  SetTo == "set"  Pause == "pause"
Verbs == {On, Off, Up, Down, SetTo, Pause}

VerbFits(v, kind) ==
  CASE v \in {On, Off} -> TRUE
    [] v \in {Up, Down} -> kind \in {"light", "climate", "water_heater", "media"}
    [] v = SetTo -> kind \in {"light", "climate", "water_heater", "cover", "fan", "media"}
    [] v = Pause -> kind = "appliance"

VerbsFor(devs) == {v \in Verbs : \A d \in devs : VerbFits(v, KindOf(d))}

\* _groups(): what can be ambiguous.
KindGroups(devs) ==
  {g \in {{d \in devs : FamilyOf(d) = FamilyOf(e)} : e \in devs} : Cardinality(g) >= 2}

-----------------------------------------------------------------------------
(* pick_context() *)

Names(cands, homonym) ==
  [i \in DOMAIN cands |-> IF homonym THEN FamilyOf(cands[1]) ELSE cands[i].name]

\* A name that is there twice is written with its room.
Labels(cands, names) ==
  [i \in DOMAIN cands |->
     IF \E j \in DOMAIN names : j # i /\ names[j] = names[i]
     THEN <<names[i], cands[i].room>> ELSE <<names[i]>>]

\* rng.sample(): some of the group in some order; made homonyms, one per room.
Orders(group, homonym) ==
  {s \in UNION {[1 .. n -> group] : n \in 2 .. Cardinality(group)} :
     /\ IsInjective(s)
     /\ homonym => \A i, j \in DOMAIN s : i # j => s[i].room # s[j].room}

PickOf(cands, verb, homonym) ==
  [question |-> "pick", homonym |-> homonym, cands |-> cands, verb |-> verb,
   names |-> Names(cands, homonym), labels |-> Labels(cands, Names(cands, homonym)),
   options |-> Range(Labels(cands, Names(cands, homonym))) \union {Cancel, Redo}]

PickContext ==
  /\ ctx = NoContext2
  /\ \E g \in KindGroups(Devices(home)), homonym \in BOOLEAN :
     \E cands \in Orders(g, homonym), verb \in VerbsFor(g) :
       ctx' = PickOf(cands, verb, homonym)
  /\ UNCHANGED <<split, home, scripts>>

\* follow_context(): one device, or two or three of a family, and what was
\* last done with them, or asked.
FollowContext ==
  /\ ctx = NoContext2
  /\ \E focus \in {{d} : d \in Devices(home)} \union
                  UNION {{f \in SUBSET g : Cardinality(f) \in {2, 3}} : g \in KindGroups(Devices(home))} :
     \E last \in VerbsFor(focus) \union (IF Cardinality(focus) = 1 THEN {"query"} ELSE {}) :
       ctx' = [question |-> "follow", focus |-> focus, last |-> last,
               options |-> {<<v>> : v \in VerbsFor(focus)} \union {Redo}]
  /\ UNCHANGED <<split, home, scripts>>

-----------------------------------------------------------------------------
(* pick_spec() *)

\* A script: its gold, the device it is about, how the writer points at it
\* (each way by itself must do), a second device and a verb.
Script(fam, gold, dev, by) ==
  [family |-> fam, gold |-> gold, dev |-> dev, by |-> by, other |-> dev, verb |-> On]

InRoom(i) == {j \in DOMAIN ctx.cands : ctx.cands[j].room = ctx.cands[i].room}

\* Same room, other candidates: the room alone would point at two.
ByPlaceOrName(i) == IF Cardinality(InRoom(i)) > 1 THEN {"name"} ELSE {"room", "name"}

HomonymOnly == {"P07", "P13"}
WithHomonyms == HomonymOnly \union
  {"P03", "P09", "P10", "P12", "P14", "P15", "P16", "P17", "P18"}

PickFits(fam) ==
  /\ fam \in HomonymOnly => ctx.homonym
  /\ ctx.homonym => fam \in WithHomonyms

PickTargets ==
  LET gold(i) == ctx.labels[i]
      one(fam, by(_)) == {Script(fam, gold(i), ctx.cands[i], by(i)) : i \in DOMAIN ctx.cands}
      two == {p \in (DOMAIN ctx.cands) \X (DOMAIN ctx.cands) : p[1] # p[2]}
      against(fam) == {[Script(fam, gold(i), ctx.cands[i], {"name"}) EXCEPT !.other = ctx.cands[j]]
                         : <<i, j>> \in two}
  IN  one("P01", ByPlaceOrName)
      \union {s \in one("P02", LAMBDA i : {"type"}) :
                \A j \in DOMAIN ctx.cands : ctx.cands[j] # s.dev => ctx.cands[j].type # s.dev.type}
      \union one("P03", LAMBDA i : {"place"})
      \union one("P04", ByPlaceOrName)
      \union against("P05") \union against("P06")
      \union one("P07", LAMBDA i : {"room"})

\* Everything that must go back to the language model.
PickRedos ==
  LET cands == Range(ctx.cands)
      out == {d \in Devices(home) : d \notin cands /\ d.room \notin {c.room : c \in cands}}
      changed == {v \in VerbsFor(cands) : v # ctx.verb /\ v # SetTo}
  IN  {Script(fam, Redo, d, {}) : fam \in {"P08", "P10", "P12", "P13", "P15", "P16", "P17", "P18"},
                                  d \in cands}
      \union {[Script("P09", Redo, d, {}) EXCEPT !.verb = v] :
                d \in cands, v \in changed \union (IF ctx.verb = SetTo THEN {SetTo} ELSE {})}
      \union {Script("P11", Redo, d, {}) : d \in out}
      \union {Script("P14", Cancel, d, {}) : d \in cands}

PickSpec == {s \in PickTargets \union PickRedos : PickFits(s.family)}

-----------------------------------------------------------------------------
(* follow_spec() *)

FollowSpec ==
  LET verbs == VerbsFor(ctx.focus)
      some == CHOOSE d \in ctx.focus : TRUE
      doing(fam, vs) == {[Script(fam, <<v>>, some, {}) EXCEPT !.verb = v] : v \in vs}
      back(fam, d, v) == [Script(fam, Redo, d, {}) EXCEPT !.verb = v]
  IN  doing("F01", verbs \intersect {On, Off, Pause})
      \union doing("F02", verbs \intersect {Up, Down})
      \union doing("F03", verbs \intersect {SetTo})
      \union doing("F04", verbs)
      \union doing("F05", {ctx.last} \intersect {Up, Down})
      \union {back("F06", some, v) : v \in (Verbs \ verbs) \union {"lock"}}
      \union {back("F07", d, On) : d \in Devices(home) \ ctx.focus}
      \union {back("F08", d, On) : d \in IF Cardinality(ctx.focus) < 2 THEN {} ELSE ctx.focus}
      \union {back("F09", some, On) : q \in {ctx.last} \ {"query"}}
      \union {back(fam, some, On) : fam \in {"F10", "F11", "F12", "F13"}}

-----------------------------------------------------------------------------
(* make_split(): a context, and scripts of different families about it. *)

FramesInit ==
  /\ split \in DOMAIN SplitHomes
  /\ home \in SplitHomes[split]
  /\ ctx = NoContext2 /\ scripts = <<>>

AddFrame ==
  /\ ctx # NoContext2 /\ Len(scripts) < FramesPerContext
  /\ \E s \in IF ctx.question = "pick" THEN PickSpec ELSE FollowSpec :
       /\ s.family \notin {scripts[i].family : i \in DOMAIN scripts}
       /\ scripts' = Append(scripts, s)
  /\ UNCHANGED <<split, home, ctx>>

FramesNext == PickContext \/ FollowContext \/ AddFrame

-----------------------------------------------------------------------------
(* Properties *)

Matches(d, e, by) ==
  CASE by = "name" -> d.name = e.name
    [] by = "room" -> d.room = e.room
    [] by = "type" -> d.type = e.type
    [] by = "place" -> d = e

\* What the writer is told to say fits one candidate, the gold, and no other.
PicksOne(s) ==
  ctx.question = "pick" /\ s.gold \notin {Cancel, Redo} =>
    \A by \in s.by : {i \in DOMAIN ctx.cands : Matches(ctx.cands[i], s.dev, by)}
                       = {i \in DOMAIN ctx.cands : ctx.labels[i] = s.gold}

\* What goes back to the language model could not be carried out as it stands.
NotToBeDone(s) ==
  /\ s.family = "P09" => s.verb # ctx.verb \/ s.verb = SetTo
  /\ s.family = "P11" => \A i \in DOMAIN ctx.cands : ctx.cands[i].room # s.dev.room
  /\ s.family = "F06" => <<s.verb>> \notin ctx.options
  /\ s.family = "F08" => ctx.focus # {s.dev}

\* frames.py: the options of a question can be told apart, the gold of every
\* script is one of them, and it is the only right reading of what the writer
\* is asked to say.
FramesReadOneWay ==
  ctx # NoContext2 =>
    /\ ctx.question = "pick" => IsInjective(ctx.labels)
    /\ \A i \in DOMAIN scripts :
         /\ scripts[i].gold \in ctx.options
         /\ PicksOne(scripts[i]) /\ NotToBeDone(scripts[i])

-----------------------------------------------------------------------------
(* build.py *)

CONSTANT
  Utterances       (* home -> what writers may say: [full, part]          *)

VARIABLES
  draft,           (* records made of the script, in order                *)
  evalFile         (* records of the evaluation set that are on disk      *)

buildVars == <<draft, evalFile>>

Unbuilt == [is |-> "unbuilt"]

-----------------------------------------------------------------------------
(* What an utterance says of a candidate *)

Touches(u, d) == {d.room, d.name} \intersect (u.full \union u.part) # {}
Mentioned(u, d) == {d.room, d.name} \intersect u.full # {}

\* visible_hits(): fragments of the option as it is shown, its label with the
\* room in it and its description.
Hits(u, d, label) ==
  LET shown == {label[i] : i \in DOMAIN label} \union {d.room, FamilyOf(d)}
  IN  2 * Cardinality(shown \intersect u.full) + Cardinality(shown \intersect u.part)

Select == {"P01", "P04", "P05", "P06", "P07"}

Dropped == <<"dropped">>

\* check_visible(): a feature that cannot be seen is no instruction to carry
\* out, and a training utterance that shares nothing with its gold is dropped.
CheckVisible(s, u, gold) ==
  LET i == CHOOSE k \in DOMAIN ctx.labels : ctx.labels[k] = gold
      hits(k) == Hits(u, ctx.cands[k], ctx.labels[k])
      unique == hits(i) > 0 /\ \A k \in DOMAIN ctx.labels \ {i} : hits(k) < hits(i)
  IN  IF ctx.question # "pick" \/ gold \in {Cancel, Redo} THEN gold
      ELSE IF s.family = "P02" /\ ~unique THEN Redo
      ELSE IF split = "train" /\ s.family \in Select /\ hits(i) = 0 THEN Dropped
      ELSE gold

-----------------------------------------------------------------------------
(* to_record(), counterparts() *)

\* record_id() is of what the model is told, not of the options it may choose.
RecordId(u, c) ==
  IF c.question = "pick" THEN <<u, c.names, c.verb>> ELSE <<u, c.focus, c.last>>

RecordIn(u, c, gold, source) ==
  [id |-> RecordId(u, c), source |-> source, context |-> c, gold |-> gold, said |-> u]

\* _pick_frame_with(): the same question over other candidates; the shared
\* name of homonyms stays.
With(cands) ==
  LET names == IF ctx.homonym THEN [i \in DOMAIN cands |-> ctx.names[1]]
               ELSE [i \in DOMAIN cands |-> cands[i].name]
      labels == Labels(cands, names)
  IN  [ctx EXCEPT !.cands = cands, !.names = names, !.labels = labels,
                  !.options = Range(labels) \union {Cancel, Redo}]

Position(gold) == CHOOSE i \in DOMAIN ctx.labels : ctx.labels[i] = gold

\* Mutant: that another candidate is named as well is not looked at.
AbsentUnchecked(u, i) ==
  {d \in Devices(home) :
     /\ FamilyOf(d) = FamilyOf(ctx.cands[i]) /\ ~Touches(u, d)
     /\ \A j \in DOMAIN ctx.cands : d # ctx.cands[j] /\ d.room # ctx.cands[j].room
     /\ Mentioned(u, ctx.cands[i])}

\* Who may stand in for the device that was named: nobody the utterance
\* touches, and only if it touches no other candidate.
AbsentDevices(u, i) ==
  {d \in Devices(home) :
     /\ FamilyOf(d) = FamilyOf(ctx.cands[i]) /\ ~Touches(u, d)
     /\ \A j \in DOMAIN ctx.cands : d # ctx.cands[j] /\ d.room # ctx.cands[j].room
     /\ Mentioned(u, ctx.cands[i])
     /\ \A j \in DOMAIN ctx.cands \ {i} : ~Touches(u, ctx.cands[j])}

Executes(gold) == ctx.question = "pick" /\ gold \notin {Cancel, Redo}

\* The device named is not among the candidates any more.
CpAbsent(s, u, gold) ==
  IF ~Executes(gold) \/ s.family \notin Select THEN {}
  ELSE {RecordIn(u, With([ctx.cands EXCEPT ![Position(gold)] = d]), Redo, "cp-absent")
          : d \in AbsentDevices(u, Position(gold))}

\* The same "second one" in another order; ten shuffles may all miss.
CpReorder(s, u, gold) ==
  IF ~Executes(gold) \/ s.family # "P03" THEN {}
  ELSE LET i == Position(gold)
           orders == {o \in [DOMAIN ctx.cands -> DOMAIN ctx.cands] : IsInjective(o) /\ o[i] # i}
           with(o) == With([k \in DOMAIN o |-> ctx.cands[o[k]]])
       IN  IF \E k \in DOMAIN ctx.cands : Touches(u, ctx.cands[k]) THEN {}
           ELSE {RecordIn(u, with(o), with(o).labels[i], "cp-reorder") : o \in orders}

AtMostOne(set) == IF set = {} THEN {<<>>} ELSE {<<r>> : r \in set}

-----------------------------------------------------------------------------
(* cmd_records() *)

BuildInit ==
  /\ FramesInit
  /\ draft = Unbuilt /\ evalFile = Unbuilt

Script1 == scripts[Len(scripts)]

\* fixes.jsonl may drop a script or send it back to the language model.
Fixed == {Script1.gold, Dropped} \union {Redo}

BuildScript ==
  /\ scripts # <<>> /\ draft = Unbuilt
  /\ \E u \in Utterances[home], fix \in Fixed :
       LET gold == IF fix = Dropped THEN Dropped ELSE CheckVisible(Script1, u, fix)
       IN  IF gold = Dropped THEN draft' = [is |-> "built", records |-> <<>>]
           ELSE \E absent \in AtMostOne(CpAbsent(Script1, u, gold)),
                   order \in AtMostOne(CpReorder(Script1, u, gold))
                               \union (IF CpReorder(Script1, u, gold) = {} THEN {} ELSE {<<>>}) :
                  draft' = [is |-> "built",
                            records |-> <<RecordIn(u, ctx, gold, "writer")>> \o absent \o order]
  /\ UNCHANGED <<frameVars, evalFile>>

\* The first record of an id is kept.
WriteRecords ==
  /\ draft # Unbuilt /\ evalFile = Unbuilt
  /\ LET rs == draft.records
         first(i) == \A j \in DOMAIN rs : j < i => rs[j].id # rs[i].id
         kept == SelectSeq([i \in DOMAIN rs |-> i], first)
     IN  evalFile' = [is |-> "file",
           records |-> [k \in DOMAIN kept |-> rs[kept[k]]]]
  /\ UNCHANGED <<frameVars, draft>>

BuildNext ==
  \/ draft = Unbuilt /\ FramesNext /\ UNCHANGED buildVars
  \/ BuildScript
  \/ WriteRecords

-----------------------------------------------------------------------------
(* Properties *)

GoldIsOption(r) == r.gold \in r.context.options

\* A counterpart without the device is the language model's: the utterance
\* names nobody who is there.
NobodyNamed(r) ==
  r.source = "cp-absent" =>
    \A i \in DOMAIN r.context.cands : ~Touches(r.said, r.context.cands[i])

\* A counterpart in another order has another device in the same place.
SamePlace(r) ==
  r.source = "cp-reorder" =>
    /\ Position(Script1.gold) = CHOOSE i \in DOMAIN r.context.labels : r.context.labels[i] = r.gold
    /\ r.context.cands[Position(Script1.gold)] # ctx.cands[Position(Script1.gold)]

\* build.py: whatever was written, the answer a record teaches is one the
\* model may give and the right one for the candidates it is shown, and no
\* record is in a file twice.
RecordsTeachRight ==
  evalFile # Unbuilt =>
    /\ \A k \in DOMAIN evalFile.records :
         LET r == evalFile.records[k]
         IN  GoldIsOption(r) /\ NobodyNamed(r) /\ SamePlace(r)
    /\ \A k, l \in DOMAIN evalFile.records :
         k # l => evalFile.records[k].id # evalFile.records[l].id

\* The continuation data, from script to record.
ContinuationSound == FramesReadOneWay /\ RecordsTeachRight
=============================================================================
