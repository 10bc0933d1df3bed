------------------------------ MODULE Importers ------------------------------
(* gen: the generators of a configuration, one after the other, write records *)
(* into one file.  Public data sets are imported row by row, some in two      *)
(* passes; what cannot be used is skipped and counted, and what cannot be     *)
(* right stops the stage.  Option names are the words they are put together   *)
(* of.  Sources: external.py, generators.py, scenario.py, records.py,         *)
(* cli.py (cmd_gen).                                                          *)
EXTENDS Integers, Sequences, FiniteSets, SequencesExt

CONSTANTS
  Configs,      \* sequences of generators: adapter, rows, and what they are given
  Apartment,    \* the devices of the home MASSIVE is put into
  IotDevices,   \* MASSIVE_IOT: label -> the devices that are right
  Excluded,     \* the scenarios of MASSIVE left out
  PerScenario,  \* negatives of a scenario
  Rooms,        \* SCENIC_ROOMS
  MinSeen,      \* min_device_count of SCENIC
  Subset        \* subset_options

\* Adapters whose records are taken as they come.
Unchecked == {"cases", "records", "llm"}

\* A configuration names an adapter that drops duplicates once, and every label
\* of MASSIVE_IOT has a device.
ASSUME ImportAssumption ==
  /\ \A c \in Configs :
       /\ c # <<>> /\ c \in Seq(ToSet(c)) /\ \A k \in DOMAIN c : c[k].rows \in Seq(ToSet(c[k].rows))
       /\ \A j, k \in DOMAIN c : c[j].adapter = c[k].adapter => j = k \/ c[j].adapter \in Unchecked
  /\ \A label \in DOMAIN IotDevices : IotDevices[label] # {}

VARIABLES
  generators,   (* those still to run; the first one runs                   *)
  rowsLeft,     (* of the pass                                              *)
  passing,      (* 1: reading, 2: yielding what was read                    *)
  pool,         (* what the first pass kept                                 *)
  seenKeys,     (* of this adapter                                          *)
  tally,        (* rows looked at, skipped and kept by this adapter         *)
  genFile,      (* the records of the file                                  *)
  genAt         (* running, done or raised                                  *)

genVars == <<generators, rowsLeft, passing, pool, seenKeys, tally, genFile, genAt>>

Importer == Head(generators)
Row == Head(rowsLeft)
ExitOptions == {<<"several">>, <<"absent">>}

-----------------------------------------------------------------------------
(* zhihao *)

\* zhihao_device_map(): the name, the room before it if the name is not the
\* only one, the floor before both if that is still not.
OptionNames(devices) ==
  LET twice(names, i) == \E j \in DOMAIN names \ {i} : names[j] = names[i]
      plain == [i \in DOMAIN devices |-> devices[i].name]
      roomed == [i \in DOMAIN devices |-> IF twice(plain, i) THEN devices[i].room \o plain[i] ELSE plain[i]]
  IN [i \in DOMAIN devices |-> IF twice(roomed, i) THEN devices[i].floor \o roomed[i] ELSE roomed[i]]

\* zhihao_gold_device(): the options that are right, none if the called device
\* is not in the list.
CalledOptions(row) ==
  LET names == OptionNames(row.devices)
      called == {i \in DOMAIN row.devices : row.devices[i].name = row.calls[1].name}
      named == {i \in called : row.devices[i].room # <<>> /\ row.devices[i].room \in row.named}
      located == {i \in called : row.devices[i].room # <<>> /\ row.devices[i].room \in row.calls[1].location}
      of(set) == {names[i] : i \in set}
  IN IF Len(row.calls) > 1 THEN {<<"several">>}
     ELSE IF Cardinality(called) <= 1 THEN of(called)
     ELSE IF Cardinality(named) = 1 THEN of(named)
     ELSE IF named # {} /\ Cardinality(located) = 1 /\ located \subseteq named THEN of(located)
     ELSE of(called)

Options(names) == names \union ExitOptions
Same(actions) == IF Cardinality(actions) = 1 THEN actions \ {"unknown"} ELSE {}

\* The key of a row is what its id is made of.
ZhihaoRecord ==
  LET names == ToSet(OptionNames(Row.devices))
  IN [from |-> "zhihao", key |-> <<Row.text, names>>, text |-> Row.text, intent |-> "control", options |-> Options(names),
      gold |-> CalledOptions(Row), action |-> Same({Row.calls[i].action : i \in DOMAIN Row.calls})]

-----------------------------------------------------------------------------
(* SCENIC *)

\* parse_scenic_segment(): a segment says what is done to what, in one of the
\* forms of the data set; some name no action there is an option for.
Forms ==
  [adjust |-> {"up", "down", "set"}, timed |-> {"on", "off"}, sweep |-> {"on"}, dock |-> {"off"},
   lock |-> {"lock"}, unlock |-> {"unknown"}, check |-> {"unknown"}, simple |-> {"on", "off", "pause"}]

SegmentParses(s) == s.form \in DOMAIN Forms /\ s.action \in Forms[s.form] /\ (s.form = "simple" => s.device # <<>>)

ParsedSegment(s) ==
  [room |-> s.room, action |-> s.action,
   device |-> IF s.form \in {"lock", "unlock", "check"} /\ s.device = <<"door">> THEN <<"doorlock">> ELSE s.device,
   kind |-> IF s.form = "check" THEN "query" ELSE "control"]

\* parse_scenic_response(): all of them or none.
Parsed(segments) ==
  IF \A i \in DOMAIN segments : SegmentParses(segments[i])
  THEN [i \in DOMAIN segments |-> ParsedSegment(segments[i])] ELSE <<>>

Segments(rows) == FlattenSeq([i \in DOMAIN rows |-> rows[i].segments])

\* scenic_home(): every room and device mentioned often enough; a device
\* without a room only if it never has one.
ScenicHome(rows) ==
  LET all == Segments(rows)
      often == {all[i].device : i \in {j \in DOMAIN all :
                  Cardinality({k \in DOMAIN all : all[k].device = all[j].device}) >= MinSeen}}
      pairs == {<<all[i].room, all[i].device>> : i \in DOMAIN all}
      roomed == {p \in pairs : p[1] # <<>> /\ p[2] \in often}
  IN {p[1] \o p[2] : p \in roomed} \union {d \in often : ~\E p \in roomed : p[2] = d}

\* scenic_gold_device()
ScenicGold(segments, home) ==
  LET s == segments[1]
      variants == {r \o s.device : r \in Rooms} \intersect home
  IN IF Len(segments) > 1 THEN {<<"several">>}
     ELSE IF s.room # <<>> THEN {s.room \o s.device} \intersect home
     ELSE IF s.device \in home THEN {s.device} ELSE variants

\* The devices named, and others up to the number of a real home.
Shown(segments, home, others) ==
  IF Cardinality(home) <= Subset + 1 THEN home
  ELSE others \union (IF Len(segments) > 1 THEN {segments[i].room \o segments[i].device : i \in DOMAIN segments} \intersect home
                      ELSE ScenicGold(segments, home))

Others(segments, home) ==
  IF Cardinality(home) <= Subset + 1 THEN {{}}
  ELSE LET rest == home \ Shown(segments, home, {})
       IN {o \in SUBSET rest : Cardinality(o) = IF Subset < Cardinality(rest) THEN Subset ELSE Cardinality(rest)}

ScenicRecord(home, others) ==
  [from |-> "scenic", key |-> Row.text, text |-> Row.text,
   intent |-> IF \A i \in DOMAIN Row.segments : Row.segments[i].kind = "query" THEN "query" ELSE "control",
   options |-> Options(Shown(Row.segments, home, others)), gold |-> ScenicGold(Row.segments, home),
   action |-> Same({Row.segments[i].action : i \in DOMAIN Row.segments})]

-----------------------------------------------------------------------------
(* MASSIVE, authored and evaluation cases *)

\* massive_record_labels()
MassiveRecord(row) ==
  [from |-> "massive", key |-> row.text, text |-> row.text, intent |-> IF row.scenario = "iot" THEN "control" ELSE "unrelated",
   options |-> Options(Apartment), gold |-> IF row.scenario = "iot" THEN IotDevices[row.label] ELSE {}, action |-> {}]

MassiveUsable(row) ==
  /\ row.scenario \notin Excluded
  /\ row.text # "" /\ (row.scenario = "iot" => row.label \in DOMAIN IotDevices)

CaseRecord(from) ==
  [from |-> from, key |-> <<Row.home, Row.text>>, text |-> <<Row.home, Row.text>>, intent |-> Row.intent,
   options |-> Options(Importer.homes[Row.home]), gold |-> Row.gold, action |-> {}]

\* Where a case is no case, the stage stops at its line.
CaseFine ==
  /\ Row.home \in DOMAIN Importer.homes
  /\ Row.intent = "control" => Row.gold # {}
  /\ Row.intent = "unrelated" => Row.gold = {}

-----------------------------------------------------------------------------
GenInit ==
  /\ generators \in Configs /\ genAt = "running"
  /\ rowsLeft = generators[1].rows /\ passing = 1 /\ pool = <<>>
  /\ seenKeys = {} /\ tally = [looked |-> 0, skipped |-> 0, kept |-> 0] /\ genFile = <<>>

Looked(skipped, kept) ==
  tally' = [looked |-> tally.looked + (IF passing = 1 THEN 1 ELSE 0),
            skipped |-> tally.skipped + skipped, kept |-> tally.kept + kept]
OnlyRows == rowsLeft' = Tail(rowsLeft) /\ UNCHANGED <<generators, passing>>

SkipRow == Looked(1, 0) /\ OnlyRows /\ UNCHANGED <<pool, seenKeys, genFile, genAt>>

\* _checked(), as target_vector(): an answer that is no option stops the stage,
\* and the file stays cut where it is.
Yield(record) ==
  IF record.gold \subseteq record.options
  THEN Looked(0, 1) /\ OnlyRows /\ genFile' = Append(genFile, record) /\ UNCHANGED <<pool, genAt>>
  ELSE genAt' = "raised" /\ UNCHANGED <<generators, rowsLeft, passing, pool, tally, genFile>>

ZhihaoRow ==
  /\ genAt = "running" /\ rowsLeft # <<>> /\ Importer.adapter = "zhihao"
  /\ IF Row.parses /\ Row.text # "" /\ Row.devices # <<>> /\ CalledOptions(Row) # {} /\ ZhihaoRecord.key \notin seenKeys
     THEN Yield(ZhihaoRecord) /\ seenKeys' = seenKeys \union {ZhihaoRecord.key}
     ELSE SkipRow

ScenicRead ==
  /\ genAt = "running" /\ rowsLeft # <<>> /\ Importer.adapter = "scenic" /\ passing = 1
  /\ IF Row.text # "" /\ Parsed(Row.segments) # <<>>
     THEN Looked(0, 0) /\ OnlyRows /\ pool' = Append(pool, [Row EXCEPT !.segments = Parsed(@)]) /\ UNCHANGED <<seenKeys, genFile, genAt>>
     ELSE SkipRow

ScenicYield ==
  /\ genAt = "running" /\ rowsLeft # <<>> /\ Importer.adapter = "scenic" /\ passing = 2
  /\ LET home == ScenicHome(pool)
     IN IF Row.text \in seenKeys THEN SkipRow
        ELSE /\ seenKeys' = seenKeys \union {Row.text}
             /\ IF ScenicGold(Row.segments, home) = {}
                THEN Looked(1, 0) /\ OnlyRows /\ UNCHANGED <<pool, genFile, genAt>>
                ELSE \E others \in Others(Row.segments, home) : Yield(ScenicRecord(home, others))

\* Rows of another language are not even looked at.
MassiveRead ==
  /\ genAt = "running" /\ rowsLeft # <<>> /\ Importer.adapter = "massive" /\ passing = 1
  /\ IF ~Row.chinese THEN OnlyRows /\ UNCHANGED <<pool, seenKeys, tally, genFile, genAt>>
     ELSE IF Row.text \in seenKeys THEN SkipRow
     ELSE /\ seenKeys' = seenKeys \union {Row.text}
          /\ IF MassiveUsable(Row)
             THEN Looked(0, 0) /\ OnlyRows /\ pool' = Append(pool, Row) /\ UNCHANGED <<genFile, genAt>>
             ELSE Looked(1, 0) /\ OnlyRows /\ UNCHANGED <<pool, genFile, genAt>>

MassiveYield ==
  /\ genAt = "running" /\ rowsLeft # <<>> /\ Importer.adapter = "massive" /\ passing = 2
  /\ Yield(MassiveRecord(Row)) /\ UNCHANGED seenKeys

AuthoredRow ==
  /\ genAt = "running" /\ rowsLeft # <<>> /\ Importer.adapter = "authored"
  /\ IF Row.home \in DOMAIN Importer.homes /\ <<Row.home, Row.text>> \in seenKeys THEN SkipRow
     ELSE IF ~CaseFine
     THEN genAt' = "raised" /\ UNCHANGED <<generators, rowsLeft, passing, pool, seenKeys, tally, genFile>>
     ELSE Yield(CaseRecord("authored")) /\ seenKeys' = seenKeys \union {<<Row.home, Row.text>>}

\* Evaluation cases of one split; nothing is checked.
CaseRow ==
  /\ genAt = "running" /\ rowsLeft # <<>> /\ Importer.adapter = "cases"
  /\ IF ~Row.ofSplit THEN OnlyRows /\ UNCHANGED <<pool, seenKeys, tally, genFile, genAt>>
     ELSE IF Row.home \notin DOMAIN Importer.homes
     THEN genAt' = "raised" /\ UNCHANGED <<generators, rowsLeft, passing, pool, seenKeys, tally, genFile>>
     ELSE OnlyRows /\ genFile' = Append(genFile, CaseRecord("cases")) /\ UNCHANGED <<pool, seenKeys, tally, genAt>>

\* Records of another run, of one scenario if the configuration says so.
RecordRow ==
  /\ genAt = "running" /\ rowsLeft # <<>> /\ Importer.adapter = "records"
  /\ OnlyRows /\ genFile' = IF Row.ofSplit THEN Append(genFile, CaseRecord("records")) ELSE genFile
  /\ UNCHANGED <<pool, seenKeys, tally, genAt>>

\* One call of a chat model answers with an array of cases, yielded one after
\* the other; those without a state are dropped, and a call that fails, an
\* answer that is no array or a case that fits no question stops the stage.
\* Nothing else is checked.
ModelRecord(case) ==
  [from |-> "llm", key |-> case.text, text |-> case.text, intent |-> case.intent,
   options |-> Options(Importer.homes[Row.home]), gold |-> case.gold, action |-> {}]

ModelCall ==
  /\ genAt = "running" /\ rowsLeft # <<>> /\ Importer.adapter = "llm"
  /\ \/ /\ Row.answer # <<>> /\ rowsLeft' = [rowsLeft EXCEPT ![1].answer = Tail(@)]
        /\ genFile' = IF Head(Row.answer).text # "" THEN Append(genFile, ModelRecord(Head(Row.answer))) ELSE genFile
        /\ UNCHANGED <<generators, passing, genAt>>
     \/ Row.answer = <<>> /\ OnlyRows /\ UNCHANGED <<genFile, genAt>>
     \/ genAt' = "raised" /\ UNCHANGED <<generators, rowsLeft, passing, genFile>>
  /\ UNCHANGED <<pool, seenKeys, tally>>

\* What is taken of the negatives: all of a scenario, or PerScenario of them,
\* the others counted.
Samples ==
  LET scenarios == {pool[i].scenario : i \in DOMAIN pool} \ {"iot"}
      of(s) == {i \in DOMAIN pool : pool[i].scenario = s}
  IN {taken \in SUBSET DOMAIN pool :
       /\ of("iot") \subseteq taken
       /\ \A s \in scenarios : LET n == Cardinality(of(s) \intersect taken)
                               IN n = IF Cardinality(of(s)) > PerScenario THEN PerScenario ELSE Cardinality(of(s))}

\* Those taken in the order they are yielded in: the commands first, as they
\* came, then the negatives, shuffled where they were sampled.
YieldOrders(taken) ==
  {order \in [1..Cardinality(taken) -> taken] :
     \A i, j \in 1..Cardinality(taken) : i < j =>
       /\ order[i] # order[j]
       /\ pool[order[j]].scenario = "iot" => pool[order[i]].scenario = "iot" /\ order[i] < order[j]}

\* Mutant: those sampled out are not counted.
SecondPassSilently ==
  /\ genAt = "running" /\ rowsLeft = <<>> /\ passing = 1 /\ Importer.adapter \in {"scenic", "massive"}
  /\ passing' = 2
  /\ IF Importer.adapter = "scenic" THEN rowsLeft' = pool
     ELSE \E taken \in Samples : \E order \in YieldOrders(taken) :
            rowsLeft' = [i \in 1..Cardinality(taken) |-> pool[order[i]]]
  /\ UNCHANGED <<generators, pool, seenKeys, tally, genFile, genAt>>

SecondPass ==
  /\ genAt = "running" /\ rowsLeft = <<>> /\ passing = 1 /\ Importer.adapter \in {"scenic", "massive"}
  /\ passing' = 2
  /\ IF Importer.adapter = "scenic" THEN rowsLeft' = pool /\ UNCHANGED tally
     ELSE \E taken \in Samples : \E order \in YieldOrders(taken) :
            /\ rowsLeft' = [i \in 1..Cardinality(taken) |-> pool[order[i]]]
            /\ tally' = [tally EXCEPT !.skipped = @ + Len(pool) - Cardinality(taken)]
  /\ UNCHANGED <<generators, pool, seenKeys, genFile, genAt>>

Exhausted == rowsLeft = <<>> /\ (passing = 2 \/ Importer.adapter \notin {"scenic", "massive"})

\* The next generator appends to the same file.
NextGenerator ==
  /\ genAt = "running" /\ Exhausted
  /\ IF Len(generators) = 1 THEN genAt' = "done" /\ UNCHANGED <<generators, rowsLeft, passing, pool, seenKeys, tally>>
     ELSE /\ generators' = Tail(generators) /\ rowsLeft' = generators[2].rows
          /\ passing' = 1 /\ pool' = <<>> /\ seenKeys' = {} /\ tally' = [looked |-> 0, skipped |-> 0, kept |-> 0]
          /\ UNCHANGED genAt
  /\ UNCHANGED genFile

GenNext ==
  \/ ZhihaoRow \/ ScenicRead \/ ScenicYield \/ MassiveRead \/ MassiveYield \/ AuthoredRow \/ CaseRow \/ RecordRow
  \/ ModelCall \/ SecondPass \/ NextGenerator

GenSpec == GenInit /\ [][GenNext]_genVars

-----------------------------------------------------------------------------
(* "the counts are printed ... so a run reports what it dropped": when an
   adapter is through, every row it looked at was kept or counted as skipped,
   once, although some are dropped only in the second pass or by sampling. *)
RowsAccounted == genAt = "running" /\ Exhausted => tally.looked = tally.skipped + tally.kept

(* Within an adapter that drops duplicates no two records have one key, of
   which their ids are made, and so no sentence is both a command and not. *)
ImportedOnce ==
  \A i, j \in DOMAIN genFile :
    genFile[i].from = genFile[j].from /\ genFile[i].from \notin Unchecked /\ genFile[i].key = genFile[j].key => i = j

(* "gold answers are always legal options": every device a record accepts is
   among the options it was given, whatever home was guessed from the other
   rows and whatever subset was drawn; a command has one, and what is none of
   the assistant's business has none. *)
GoldOffered ==
  \A i \in DOMAIN genFile : genFile[i].from \notin Unchecked =>
    /\ genFile[i].gold \subseteq genFile[i].options
    /\ genFile[i].intent = "control" => genFile[i].gold # {}
    /\ genFile[i].intent = "unrelated" => genFile[i].gold = {}

(* What is imported is right and nothing of it is lost silently. *)
ImportedSound == RowsAccounted /\ ImportedOnce /\ GoldOffered

=============================================================================
