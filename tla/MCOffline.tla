------------------------------ MODULE MCOffline ------------------------------
(* What runs beside the services, for TLC: buying and importing training     *)
(* data, writing it from plans, the data stages, training, the pipeline that *)
(* strings them together, the model files a service loads, its start, the    *)
(* board's measurements, the ASR service's clients and the evaluations.      *)
(* They meet only in files that one finished before the next begins: a       *)
(* behaviour runs one.                                                       *)
EXTENDS PaidCalls, TrainData, TrainLoop, ModelFiles, LayaStartup, Importers, PipelineRun,
        RealEval, NpuRuntime, NpuBench, SideBySide, SmartHomeEval, Continuation,
        Episodes, TeamDrafts, AsrClients

VARIABLE part

-----------------------------------------------------------------------------
(* Two originals: one with a gold label, one that may be heard as the other; *)
(* nothing locked, or the first one's id and the second one's state.         *)

Original(root, state, gold) ==
  [id |-> <<root>>, parent |-> <<>>, state |-> state, options |-> {"d1", "d2", "d3", "exit"},
   gold |-> gold, target |-> {}]

MCOriginals == {Original("a", "s1", {"d1"}), Original("b", "s2", {})}
MCHeard == [s \in {"s1", "s2"} |-> IF s = "s1" THEN {"s2"} ELSE {}]
MCLocks == {[ids |-> {}, states |-> {}], [ids |-> {<<"a">>}, states |-> {"s2"}]}
MCAnswers == {{"d1", "d2"}, {"exit"}}

\* One bucket or two.
MCBuckets == {<<"128">>, <<"128", "256">>}

-----------------------------------------------------------------------------
(* Two model directories, the second in every state; services files in which *)
(* the tables contradict each other.                                         *)

P(v, r, fits) == [version |-> v, task |-> TRUE, revision |-> r, fits |-> fits]
MCPinned == <<P(2, 1, TRUE), P(1, 2, TRUE), P(2, 3, FALSE), P(2, 1, TRUE)>>
All == {"tokenizer", "weights", "onnx", "npu"}
Dir(r, p) == [revision |-> r, have |-> All, intact |-> All, profile |-> p]
Whole == Dir(1, MCPinned[1])
MCDisks ==
  {[a |-> Whole, b |-> x] : x \in
    {Whole, Dir(2, MCPinned[2]), Dir(3, MCPinned[3]), Dir(4, MCPinned[4]), Dir(0, NoProfile),
     [Whole EXCEPT !.have = {"weights"}, !.intact = {"weights"}], [Whole EXCEPT !.intact = @ \ {"weights"}]}}
Document(defaults, common, torch) ==
  [flawed |-> FALSE, defaults |-> defaults,
   services |-> ("s" :> [common |-> common, backends |-> ("rknn" :> [model_dir |-> "a"] @@ "torch" :> torch)])]
MCDocuments ==
  {Document([host |-> "loopback"], [participation |-> TRUE], [model_dir |-> "b"]),
   Document(<<>>, [participation |-> TRUE, api_key_file |-> "key", host |-> "any"], [model_dir |-> "b"]),
   Document([allow_no_auth |-> TRUE], [allow_no_auth |-> FALSE, host |-> "any"], [model_dir |-> "b", allow_no_auth |-> TRUE]),
   Document([allow_no_auth |-> FALSE], [model_dir |-> "a"], [host |-> "any"]),
   Document(<<>>, <<>>, [host |-> "any"]),
   Document([host |-> "any"], [model_dir |-> "a"], [host |-> "empty"]),
   Document(<<>>, [api_key_file |-> "empty"], [model_dir |-> "b"])}
MCFlags == {<<>>, [host |-> "any"], [host |-> "empty"], [backend |-> "torch"], [backend |-> "onnx"], [backend |-> "torch", host |-> "any"], [model_dir |-> "b"]}
MCCommandLines == {[service |-> "s", flags |-> f] : f \in MCFlags} \union {[service |-> Nothing, flags |-> <<>>], [service |-> Nothing, flags |-> [model_dir |-> "b"]], [service |-> "t", flags |-> <<>>]}

-----------------------------------------------------------------------------
(* Corpora: rows that repeat a text, devices of one name in two rooms or one,  *)
(* actions that no device has, answers that are no device.                    *)

Item(name, room, floor) == [name |-> name, room |-> room, floor |-> floor]
Lamp == <<"lamp">>
ZRow(text, named, devices, calls) ==
  [parses |-> TRUE, text |-> text, named |-> named, devices |-> devices, calls |-> calls]
CallTo(name, location, action) == [name |-> name, location |-> location, action |-> action]
Lamps == <<Item(Lamp, <<"bed">>, <<"up">>), Item(Lamp, <<"hall">>, <<"up">>),
           Item(<<"bed", "lamp">>, <<"bed">>, <<"up">>), Item(<<"fan">>, <<>>, <<>>)>>
Twins == <<Item(Lamp, <<"bed">>, <<"up">>), Item(Lamp, <<"bed">>, <<"down">>)>>
ZhihaoRows ==
  <<ZRow("t1", {}, Lamps, <<CallTo(Lamp, {<<"bed">>}, "on")>>),
    ZRow("t1", {<<"bed">>}, Lamps, <<CallTo(Lamp, {}, "on")>>),
    ZRow("t2", {<<"bed">>, <<"hall">>}, Lamps, <<CallTo(Lamp, {<<"hall">>}, "unknown")>>),
    ZRow("t3", {}, Twins, <<CallTo(Lamp, {}, "on"), CallTo(Lamp, {}, "off")>>),
    ZRow("t3", {}, Twins, <<CallTo(<<"fan">>, {}, "on")>>),
    ZRow("t1", {}, Twins, <<CallTo(Lamp, {}, "on")>>)>>
Segment(room, device, action, form) == [form |-> form, room |-> room, device |-> device, action |-> action]
SRow(text, segments) == [text |-> text, segments |-> segments]
ScenicRows ==
  <<SRow("s1", <<Segment(<<"bed">>, Lamp, "on", "simple")>>),
    SRow("s2", <<Segment(<<>>, Lamp, "off", "simple")>>),
    SRow("s1", <<Segment(<<"hall">>, Lamp, "on", "simple")>>),
    SRow("s3", <<Segment(<<"hall">>, Lamp, "on", "simple"), Segment(<<>>, <<"robot">>, "on", "sweep")>>),
    SRow("s4", <<Segment(<<>>, <<"robot">>, "unknown", "check")>>),
    SRow("s5", <<Segment(<<>>, <<"noise">>, "on", "simple")>>),
    SRow("s6", <<Segment(<<>>, <<>>, "on", "simple")>>),
    SRow("s7", <<Segment(<<"bed">>, Lamp, "off", "adjust")>>),
    SRow("s8", <<Segment(<<"hall">>, <<"door">>, "lock", "lock")>>),
    SRow("s9", <<Segment(<<"hall">>, <<"door">>, "unknown", "unlock"), Segment(<<"bed">>, Lamp, "up", "adjust")>>)>>
MRow(text, topic, label, chinese) == [text |-> text, scenario |-> topic, label |-> label, chinese |-> chinese]
MassiveRows ==
  <<MRow("m1", "iot", "on", TRUE), MRow("m2", "news", "", TRUE), MRow("m1", "news", "", TRUE),
    MRow("m3", "iot", "wash", TRUE), MRow("m4", "news", "", TRUE), MRow("m5", "news", "", TRUE),
    MRow("m6", "play", "", TRUE), MRow("m7", "cook", "", TRUE), MRow("m8", "cook", "", FALSE), MRow("", "cook", "", TRUE)>>
ARow(place, text, intent, gold) == [home |-> place, text |-> text, intent |-> intent, gold |-> gold, ofSplit |-> TRUE]
AuthoredRows ==
  <<ARow("h", "a1", "control", {Lamp}), ARow("h", "a1", "unrelated", {}), ARow("g", "a1", "unrelated", {}), ARow("h", "a3", "query", {})>>
ModelRows ==
  <<[home |-> "h", answer |-> <<AuthoredRows[1], ARow("h", "", "control", {Lamp}), AuthoredRows[1]>>],
    [home |-> "g", answer |-> <<AuthoredRows[1]>>]>>
Flats == [h |-> {Lamp, <<"fan">>}, g |-> {<<"fan">>}]
From(importer, lines) == [adapter |-> importer, rows |-> lines, homes |-> Flats]
MCConfigs ==
  {<<From("zhihao", ZhihaoRows), From("massive", MassiveRows)>>,
   <<From("scenic", ScenicRows), From("authored", AuthoredRows)>>,
   <<From("authored", <<AuthoredRows[1], ARow("h", "a2", "unrelated", {Lamp})>>)>>,
   <<From("authored", <<AuthoredRows[1], ARow("g", "a2", "control", {Lamp})>>)>>,
   <<From("cases", Append(AuthoredRows, [AuthoredRows[1] EXCEPT !.ofSplit = FALSE])),
     From("massive", <<MRow("m1", "iot", "dim", TRUE)>>)>>,
   <<From("records", <<AuthoredRows[1], [AuthoredRows[2] EXCEPT !.ofSplit = FALSE]>>), From("llm", ModelRows)>>,
   <<From("cases", <<ARow("x", "a1", "control", {Lamp})>>)>>}
MCIot == [on |-> {Lamp, <<"bed", "lamp">>}, dim |-> {<<"hall", "lamp">>}]
MCApartment == {Lamp, <<"bed", "lamp">>, <<"fan">>}
MCRooms == {<<"bed">>, <<"hall">>}

-----------------------------------------------------------------------------
(* Pipelines: a whole one, one that may go on after a failure, one whose      *)
(* stages are in the wrong order and one that lacks a flag.                   *)

Stage(name, flags, reads, writes) ==
  [stage |-> name, flags |-> flags, reads |-> reads, writes |-> writes, sets |-> <<>>, continues |-> FALSE]
GenStage == Stage("gen", {"scenario", "config", "out"}, {}, {"cases"})
LabelStage == Stage("label", {"input", "out"}, {"cases"}, {"labelled"})
AssembleOf(f) == Stage("assemble", {"config", "out"}, {f}, {"dataset"})
TrainStage == Stage("train", {"config", "dataset", "out"}, {"dataset"}, {"checkpoint"})
CalibrateStage == Stage("calibrate", {"checkpoint", "calib"}, {"checkpoint", "dataset"}, {"checkpoint"})
EvalOf(flags, names, goesOn) ==
  [stage |-> "eval", flags |-> {"checkpoint", "eval_set", "out"} \union flags, reads |-> {"checkpoint"},
   writes |-> {}, sets |-> names, continues |-> goesOn]
PackageStage == Stage("package", {"checkpoint", "name", "models_root"}, {"checkpoint"}, {"model"})
MCPipelines ==
  {<<GenStage, AssembleOf("cases"), TrainStage, CalibrateStage,
     EvalOf({"baseline", "tolerance", "alpha"}, <<"dev", "dev2">>, TRUE), EvalOf({"no_rows"}, <<"test">>, FALSE), PackageStage>>,
   <<GenStage, [LabelStage EXCEPT !.continues = TRUE], AssembleOf("labelled"), TrainStage,
     EvalOf({"baseline"}, <<"dev", "test">>, FALSE), PackageStage>>,
   <<AssembleOf("cases"), GenStage, TrainStage>>,
   <<GenStage, [AssembleOf("cases") EXCEPT !.flags = {"out"}], TrainStage>>}
MCSlices == [all |-> {1, 2, 3, 4}, pair |-> {3, 4}, one |-> {2}]
MCEarlier == [dev |-> {1, 2, 3}, dev2 |-> {1, 2, 3, 4}]
MCResults == {{1, 2, 3, 4}, {1, 2}, {2, 3, 4}, {4}}

-----------------------------------------------------------------------------
(* Real households: files that can be frozen and files that cannot.           *)

Event(id, place, fine) == [id |-> id, home |-> place, fine |-> fine]
Judged(gold, addressed, confirm) ==
  [status |-> "adjudicated", gold |-> gold, addressed |-> addressed, confirm |-> confirm]
OnLamp == [intent |-> "control", device |-> "lamp", action |-> "on"]
ThreeHomes == <<Event("e1", "h1", TRUE), Event("e2", "h2", TRUE), Event("e3", "h3", TRUE)>>
TwoHomes == <<Event("e1", "h1", TRUE), Event("e2", "h2", TRUE), Event("e3", "h2", TRUE)>>
Judgements == "e1" :> Judged(OnLamp, TRUE, FALSE) @@ "e2" :> Judged([intent |-> "none"], FALSE, FALSE)
              @@ "e3" :> Judged(OnLamp, TRUE, TRUE)
MCEventFiles ==
  {[events |-> ThreeHomes, labels |-> Judgements],
   [events |-> ThreeHomes, labels |-> [Judgements EXCEPT !["e3"] = Judged(OnLamp, TRUE, FALSE)]],
   [events |-> ThreeHomes, labels |-> [Judgements EXCEPT !["e2"] = Judged(OnLamp, TRUE, FALSE)]],
   [events |-> TwoHomes, labels |-> Judgements],
   [events |-> TwoHomes, labels |-> [Judgements EXCEPT !["e1"] = Judged([intent |-> "control", device |-> "lamp"], TRUE, FALSE)]],
   [events |-> TwoHomes, labels |-> <<>>],
   [events |-> <<Event("e1", "h1", TRUE)>>, labels |-> Judgements],
   [events |-> <<Event("e1", "h1", TRUE)>>, labels |-> <<>>],
   [events |-> Append(TwoHomes, Event("e4", "h1", FALSE)), labels |-> Judgements],
   [events |-> Append(TwoHomes, Event("e1", "h1", TRUE)), labels |-> Judgements]}
MCHashOf == "h2" :> 1 @@ "h1" :> 2 @@ "h3" :> 3
Scored1(intent, p, device, sure) == [intent |-> intent, p |-> p, device |-> device, action |-> "on", sure |-> sure]
MCScoredAs ==
  {Scored1("control", 2, "lamp", 2), Scored1("control", 1, "lamp", 1), Scored1("control", 2, "absent", 2),
   Scored1("control", 2, "fan", 1), Scored1("none", 0, "lamp", 2), Scored1("query", 1, "lamp", 1)}
MCThresholds == {[intent |-> i, slots |-> s, confirm |-> 1] : i \in {1, 2}, s \in {1, 2}}
MCMisses == [n \in 0..4 |-> IF n < 2 THEN 0 ELSE 1]

-----------------------------------------------------------------------------
(* The board: placements, also bad ones; decisions that need one to three     *)
(* questions; replies of the two services that come late, cut or not at all.  *)

On1(core, buckets) == [core |-> core, buckets |-> buckets]
MCCompiled == SUBSET {128, 256, 384}
MCPlacement == <<On1(0, <<128, 256>>), On1(1, <<256, 384>>), On1(2, <<128>>)>>
MCPlacementTexts ==
  {<<>>, <<On1(1, <<256, 128>>), On1(0, <<128>>), On1(1, <<384, 256>>)>>, <<On1(3, <<128>>)>>, <<On1(0, <<>>)>>,
   <<On1(2, <<384, 128, 256>>), On1(0, <<128, 256>>), On1(1, <<256>>)>>,
   <<On1(0, <<128, 128, 256>>), On1(1, <<384>>)>>, <<On1(0, <<128>>), On1(1, <<128, 256, 128>>), On1(2, <<384>>)>>}

Rec(answer, len) == [answer |-> answer, len |-> len]
MCBenchRecords ==
  <<Rec("respond", [action |-> 100, speaker |-> 200, about |-> 100]),
    Rec("clarify", [action |-> 100, speaker |-> 200, about |-> 120]),
    Rec("wait", [action |-> 200, speaker |-> 200]),
    Rec("clarify", [action |-> 100, about |-> 200]),
    Rec("respond", [action |-> 300, speaker |-> 100])>>
MCGateThen == [respond |-> <<"speaker">>, clarify |-> <<"speaker", "about">>, wait |-> <<>>, finish |-> <<>>]

Said1(choice, p) == [choice |-> choice, p |-> p]
HomeReply(late, truncated, said) == [http |-> 200, late |-> late, truncated |-> truncated, answers |-> said]
HomeError(code) == [http |-> code, late |-> FALSE, truncated |-> FALSE, answers |-> [q \in {} |-> 0]]
MCHomeItems ==
  <<[gold |-> [intent |-> {"control"}, device |-> {"lamp"}, action |-> {"on", "off"}],
     replies |->
       {HomeReply(FALSE, FALSE, [intent |-> Said1("control", 90), device |-> Said1("lamp", 85), action |-> Said1("on", 81)]),
        HomeReply(FALSE, FALSE, [intent |-> Said1("control", 90), device |-> Said1("lamp", 85), action |-> Said1("on", 70)]),
        HomeReply(FALSE, FALSE, [intent |-> Said1("query", 90), device |-> Said1("several", 85)]),
        HomeReply(TRUE, FALSE, [intent |-> Said1("none", 90)]), HomeReply(FALSE, FALSE, [intent |-> Said1("none", 90)])}],
    [gold |-> [pick |-> {"lamp"}],
     replies |->
       {HomeReply(FALSE, FALSE, [pick |-> Said1("cancel", 60)]), HomeReply(FALSE, FALSE, [pick |-> Said1("redo", 99)]),
        HomeReply(FALSE, TRUE, [pick |-> Said1("lamp", 99)]), HomeError(503)}]>>
TeamReply(status, action, speaker, about) ==
  [http |-> 200, status |-> status, action |-> action, speaker |-> speaker, about |-> about]
MCTeamItems ==
  <<[gold |-> [action |-> "respond", speaker |-> {"a"}, about |-> "x"],
     replies |-> {TeamReply("decided", "respond", "a", "x"), TeamReply("decided", "clarify", "a", "x"),
                  TeamReply("abstained", "wait", "a", "x"), [http |-> 504]}],
    [gold |-> [action |-> "wait", speaker |-> {}, about |-> "x"],
     replies |-> {TeamReply("decided", "respond", "a", "x"), TeamReply("decided", "wait", "a", "x"), [http |-> 503]}]>>

-----------------------------------------------------------------------------
(* Three cases in two scenarios, two models and a backend.                    *)

Heard1(types, rooms, kinds, actions) == [types |-> types, rooms |-> rooms, kinds |-> kinds, actions |-> actions]
Case1(number, text, intent, devices, actions) ==
  [scenario |-> number, home |-> "flat", text |-> text, intent |-> intent, devices |-> devices, actions |-> actions]
MCCases ==
  [c1 |-> Case1("01", Heard1({"lamp"}, {"bed"}, {"control"}, <<"on">>), "control", {"lamp bed"}, {"on"}),
   c2 |-> Case1("01", Heard1({"oven"}, {}, {"control"}, <<>>), "control", {None}, {}),
   c3 |-> Case1("02", Heard1({}, {}, {"query"}, <<>>), "neither", {}, {})]
InHome(name, room, type, category) == [name |-> name, room |-> room, type |-> type, category |-> category]
MCCaseHomes ==
  [flat |-> <<InHome("lamp hall", "hall", "lamp", "light"), InHome("lamp bed", "bed", "lamp", "light"),
              InHome("fan", "hall", "fan", "air")>>]
Answer3(intent, device, action) == [intent |-> intent, device |-> device, action |-> action]
MCSays ==
  [base |-> [c1 |-> {Answer3("control", "lamp hall", "on")}, c2 |-> {Answer3("control", None, "on")},
             c3 |-> {Answer3("query", "fan", "on")}],
   cn |-> [c1 |-> {Answer3("control", "lamp bed", "on"), Answer3("query", "lamp bed", "on")},
           c2 |-> {Answer3("control", "fan", "on")}, c3 |-> {Answer3("neither", "fan", "on")}],
   ort |-> [c1 |-> {Answer3("control", "lamp hall", "on")}, c2 |-> {Answer3("control", None, "on")},
            c3 |-> {Answer3("query", "fan", "on")}]]
MCModels == <<"base", "cn">>
MCScenarioSets == {{"01", "02"}, {"01"}}

-----------------------------------------------------------------------------
(* A home of lamps, with a lock that is left out, and one of climate devices.  *)

MCInventory ==
  [flat |-> {InHome("main lamp", "hall", "ceiling lamp", "lighting"), InHome("desk lamp", "study", "desk lamp", "lighting"),
             InHome("bed lamp", "bed", "desk lamp", "lighting"), InHome("hood", "kitchen", "range hood", "kitchen"),
             InHome("lock", "hall", "lock", "security"), InHome("oven", "kitchen", "oven", "kitchen")},
   hut |-> {InHome("ac", "hall", "aircon", "climate"), InHome("duct", "hall", "duct unit", "climate"),
            InHome("floor", "bath", "floor heating", "climate")}]
MCSplitHomes == [train |-> {"flat"}, dev |-> {"hut"}]
Spoken1(full, fragment) == [full |-> full, part |-> fragment]
MCUtterances ==
  [flat |-> {Spoken1({"hall"}, {}), Spoken1({"study"}, {"main lamp"}), Spoken1({"desk lamp"}, {}), Spoken1({}, {})},
   hut |-> {Spoken1({}, {"duct"}), Spoken1({"ac"}, {}), Spoken1({"duct", "hall"}, {})}]

-----------------------------------------------------------------------------
(* Slices of every id, also with flags that contradict it; authored episodes   *)
(* that answer, fall silent, take a new request or use up their budget.        *)

MCSliceSpecs ==
  {[id |-> id, candidates |-> n, pair |-> twice, same |-> alike, ensemble |-> merged, decision |-> ends] :
     id \in Ids, n \in {2, 3}, twice \in BOOLEAN, alike \in BOOLEAN, merged \in BOOLEAN, ends \in {"none", "wait"}}
Step1(action, speaker, heard, request) ==
  [action |-> action, speaker |-> speaker, heard |-> heard, newUser |-> request, allowed |-> Speaking \union Still]
By(member, says) == [speaker |-> member, says |-> says]
MCStepLists ==
  {<<Step1("respond", 1, NotHeard, "none"), Step1("respond", 1, By(1, "h1"), "none"), Step1("finish", 0, By(1, "h2"), "none")>>,
   <<Step1("respond", 1, NotHeard, "none"), Step1("respond", 2, By(1, "h1"), "n1"), Step1("finish", 0, By(2, "h2"), "none"),
     [Step1("respond", 1, NotHeard, "n2") EXCEPT !.allowed = {"respond"}]>>}
MCAuthored ==
  {[tag |-> "authored", cast |-> n, user |-> [says |-> "u", fits |-> TRUE, refs |-> {}], budget |-> most, stress |-> long,
    prelude |-> <<Message(NoMember, "p1"), Message(1, "p2")>>, same |-> {}, steps |-> turns] :
     n \in {1, 2}, most \in {1, 3}, long \in {0, 3}, turns \in MCStepLists}

-----------------------------------------------------------------------------
(* Two streams on one slot or one connection; one when another client holds it; *)
(* and a probe.                                                                *)

Setup(client, n, length, admitted, most, waiting, held) ==
  [tool |-> client, streams |-> n, frames |-> length, connections |-> admitted, slots |-> most, queue |-> waiting, others |-> held]
MCSetups ==
  {Setup("bench", 2, 1, 2, 1, 1, 0), Setup("bench", 1, 2, 1, 1, 0, 1), Setup("bench", 2, 1, 1, 1, 0, 0),
   Setup("probe", 1, 2, 1, 1, 1, 1)}

-----------------------------------------------------------------------------
\* The parts that do not run are at one state they can begin in.
OneData == source = <<Original("b", "s2", {})>> /\ lock = [ids |-> {}, states |-> {}]
OneLaunch ==
  document = (CHOOSE d \in MCDocuments : TRUE) /\ disk = [a |-> Whole, b |-> Whole] /\ ~npuHost /\ installed = {}
OneRecipe == recipe = [items |-> 0, batch |-> 1, accum |-> 1, warmup |-> 0]
OneConfig == generators = <<From("cases", <<ARow("x", "a1", "control", {Lamp})>>)>>
OnePipeline == pipe = <<AssembleOf("cases"), GenStage, TrainStage>>
OneBench == schedule = "run" /\ sets = 1
contVars == <<frameVars, buildVars>>

MCInit ==
  /\ part \in {"buy", "data", "train", "files", "launch", "import", "run",
               "real", "npu", "bench", "side", "eval", "continue", "episodes", "drafts", "clients"}
  /\ PaidInit /\ (part # "buy" => script = "v3")
  /\ DataInit /\ (part # "data" => OneData)
  /\ TrainInit /\ (part # "train" => OneRecipe)
  /\ FilesInit
  /\ LaunchInit /\ installed \in {{}, {"torch", "onnx"}} /\ (part # "launch" => OneLaunch)
  /\ GenInit /\ (part # "import" => OneConfig)
  /\ RunInit /\ (part # "run" => OnePipeline)
  /\ RealInit
  /\ NpuInit /\ (part # "npu" => compiled = {})
  /\ BenchInit /\ (part # "bench" => OneBench)
  /\ SideInit /\ (part # "side" => scenario = "both")
  /\ HomeInit
  /\ BuildInit /\ (part # "continue" => split = "dev")
  /\ EpisodesInit
  /\ DraftsInit
  /\ ClientsInit /\ (part # "clients" => setup = Setup("probe", 1, 2, 1, 1, 1, 1))

MCNext ==
  /\ UNCHANGED part
  /\ \/ part = "buy" /\ PaidNext
     \/ part = "data" /\ DataNext
     \/ part = "train" /\ TrainNext
     \/ part = "files" /\ FilesNext
     \/ part = "launch" /\ LaunchNext
     \/ part = "import" /\ GenNext
     \/ part = "run" /\ RunNext
     \/ part = "real" /\ RealNext
     \/ part = "npu" /\ NpuNext
     \/ part = "bench" /\ BenchNext
     \/ part = "side" /\ SideNext
     \/ part = "eval" /\ HomeNext
     \/ part = "continue" /\ BuildNext
     \/ part = "episodes" /\ EpisodesNext
     \/ part = "drafts" /\ DraftsNext
     \/ part = "clients" /\ ClientsNext
  /\ part # "buy" => UNCHANGED paidVars
  /\ part # "data" => UNCHANGED dataVars
  /\ part # "train" => UNCHANGED trainVars
  /\ part # "files" => UNCHANGED filesVars
  /\ part # "launch" => UNCHANGED launchVars
  /\ part # "import" => UNCHANGED genVars
  /\ part # "run" => UNCHANGED runVars
  /\ part # "real" => UNCHANGED realVars
  /\ part # "npu" => UNCHANGED npuVars
  /\ part # "bench" => UNCHANGED benchVars
  /\ part # "side" => UNCHANGED sideVars
  /\ part # "eval" => UNCHANGED homeVars
  /\ part # "continue" => UNCHANGED contVars
  /\ part # "episodes" => UNCHANGED episodeVars
  /\ part # "drafts" => UNCHANGED draftVars
  /\ part # "clients" => UNCHANGED clientVars

MCSpec ==
  MCInit /\ [][MCNext]_<<part, paidVars, dataVars, trainVars, filesVars, launchVars, genVars, runVars, realVars,
                     npuVars, benchVars, sideVars, homeVars, contVars, episodeVars, draftVars, clientVars>>

-----------------------------------------------------------------------------
(* Data made from a plan says what the plan says: frames of continued          *)
(* conversations, episodes, and drafts whose words a model wrote.              *)
ScriptedSound == ContinuationSound /\ EpisodesSound /\ DraftsSound

=============================================================================
