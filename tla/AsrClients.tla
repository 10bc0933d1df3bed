------------------------------ MODULE AsrClients ------------------------------
(***************************************************************************)
(* The clients that come with the ASR service: `eidolon-asr bench`         *)
(* (benchmark.py), one level of several streams at once, and `eidolon-asr  *)
(* probe` (cli.py), one stream whose messages are all kept.  A bench       *)
(* stream is two tasks over one connection: one sends audio, one receives  *)
(* until the final; a probe sends a frame, takes what has come, and goes   *)
(* on.                                                                     *)
(*                                                                         *)
(* The service is here only as its clients see it; AsrService is what it   *)
(* does.  Audio is counted in frames, and time is the order of what a      *)
(* stream notes down.  The last property is of all the measurements, those *)
(* of the board too.                                                       *)
(***************************************************************************)
EXTENDS NpuBench, SideBySide

\* What may be run against what: [tool, streams, frames, connections, slots,
\* queue, others], frames being those of the recording and others the slots
\* that other clients hold.
CONSTANT Setups

ASSUME ClientsAssumption ==
  \A s \in Setups :
    /\ s.tool \in {"bench", "probe"} /\ {s.streams, s.frames} \subseteq Nat \ {0}
    /\ s.tool = "probe" => s.streams = 1

VARIABLES
  setup,           (* what is run against what, never changed             *)
  level,           (* "running", "reported" or "failed"                   *)
  cl,              (* stream -> what the client is at and has noted       *)
  svc,             (* stream -> what the service is at                    *)
  inbox,           (* stream -> messages on their way to the client       *)
  others           (* slots held by other clients                         *)

clientVars == <<setup, level, cl, svc, inbox, others>>

Streams == 1..setup.streams
Waiting(i) == svc[i].at = "queued"
Holding == {i \in Streams : svc[i].at \in {"granted", "active"}}
FreeSlot == Cardinality(Holding) + others < setup.slots

NewClient == [at |-> "idle", receiver |-> "none", sent |-> 0, queued |-> FALSE, interims |-> 0, noted |-> <<>>,
              events |-> <<>>, heard |-> 0]
NewService == [at |-> "none", fed |-> 0, interims |-> 0]

ClientsInit ==
  /\ setup \in Setups /\ level = "running"
  /\ cl = [i \in Streams |-> NewClient]
  /\ svc = [i \in Streams |-> NewService]
  /\ inbox = [i \in Streams |-> <<>>]
  /\ others = setup.others

Tell(i, messages) == inbox' = [inbox EXCEPT ![i] = @ \o messages]
ClientMessage(type, audio) == [type |-> type, audio |-> audio]
Bare(type) == ClientMessage(type, 0)
ErrorAndClose == <<Bare("error"), Bare("close")>>

-----------------------------------------------------------------------------
(* The service, as its clients see it. *)

ServiceStarts(i) ==
  /\ svc[i].at = "asked"
  /\ IF FreeSlot /\ ~\E k \in Streams : Waiting(k)
     THEN svc' = [svc EXCEPT ![i].at = "granted"] /\ Tell(i, <<Bare("started")>>)
     ELSE IF Cardinality({k \in Streams : Waiting(k)}) < setup.queue
     THEN svc' = [svc EXCEPT ![i].at = "queued"] /\ Tell(i, <<Bare("started_queued")>>)
     ELSE svc' = [svc EXCEPT ![i].at = "closed"] /\ Tell(i, ErrorAndClose)
  /\ UNCHANGED <<setup, level, cl, others>>

ServicePromotes(i) ==
  /\ Waiting(i) /\ FreeSlot
  /\ svc' = [svc EXCEPT ![i].at = "granted"]
  /\ UNCHANGED <<setup, level, cl, inbox, others>>

ServiceActivates(i) ==
  /\ svc[i].at = "granted"
  /\ svc' = [svc EXCEPT ![i].at = "active"] /\ Tell(i, <<Bare("active")>>)
  /\ UNCHANGED <<setup, level, cl, others>>

ServiceFeeds(i) ==
  /\ svc[i].at = "active" /\ svc[i].fed < cl[i].sent
  /\ \/ svc' = [svc EXCEPT ![i].fed = @ + 1] /\ UNCHANGED inbox
     \/ /\ svc' = [svc EXCEPT ![i].fed = @ + 1, ![i].interims = @ + 1]
        /\ Tell(i, <<ClientMessage("interim", svc[i].fed + 1)>>)
  /\ UNCHANGED <<setup, level, cl, others>>

ServiceEnds(i) ==
  /\ svc[i].at = "active" /\ svc[i].fed = cl[i].sent /\ cl[i].at = "ended"
  /\ svc' = [svc EXCEPT ![i].at = "open"] /\ Tell(i, <<ClientMessage("final", svc[i].fed)>>)
  /\ UNCHANGED <<setup, level, cl, others>>

\* The queue timeout, an utterance too long, an inference that failed.
ServiceRefuses(i) ==
  /\ svc[i].at \in {"queued", "active"}
  /\ svc' = [svc EXCEPT ![i].at = "closed"] /\ Tell(i, ErrorAndClose)
  /\ UNCHANGED <<setup, level, cl, others>>

OthersLeave ==
  /\ others > 0 /\ others' = others - 1
  /\ UNCHANGED <<setup, level, cl, svc, inbox>>

-----------------------------------------------------------------------------
(* Both clients connect and start an utterance.  An exception of one stream  *)
(* leaves gather(), and with it the level and the command.                   *)

Fails == level' = "failed" /\ UNCHANGED cl
Becomes(i, client) == level' = level /\ cl' = [cl EXCEPT ![i] = client]

Connect(i) ==
  /\ level = "running" /\ cl[i].at = "idle"
  /\ IF Cardinality({k \in Streams : cl[k].at # "idle" /\ svc[k].at # "closed"}) < setup.connections
     THEN Becomes(i, [cl[i] EXCEPT !.at = "starting"]) /\ svc' = [svc EXCEPT ![i].at = "asked"]
     ELSE Fails /\ UNCHANGED svc
  /\ UNCHANGED <<setup, inbox, others>>

\* The benchmark looks at the type of the answer, the probe does not.
Started(i) ==
  /\ level = "running" /\ cl[i].at = "starting" /\ inbox[i] # <<>>
  /\ IF setup.tool = "bench" /\ Head(inbox[i]).type = "error"
     THEN Fails
     ELSE Becomes(i, [cl[i] EXCEPT !.at = "sending", !.receiver = IF setup.tool = "bench" THEN "reading" ELSE "none",
                                   !.queued = Head(inbox[i]).type = "started_queued"])
  /\ inbox' = [inbox EXCEPT ![i] = Tail(@)]
  /\ UNCHANGED <<setup, svc, others>>

\* Over a connection that the service has closed a send may still pass unseen.
SendOver(i, client) ==
  \/ Becomes(i, client)
  \/ svc[i].at = "closed" /\ Fails

SendFrame(i) ==
  /\ level = "running" /\ cl[i].at = "sending" /\ cl[i].sent < setup.frames
  /\ SendOver(i, [cl[i] EXCEPT !.sent = @ + 1, !.at = IF setup.tool = "probe" THEN "polling" ELSE @])
  /\ UNCHANGED <<setup, svc, inbox, others>>

SendEnd(i) ==
  /\ level = "running" /\ cl[i].at = "sending" /\ cl[i].sent = setup.frames
  /\ SendOver(i, [cl[i] EXCEPT !.at = "ended", !.noted = Append(@, "end")])
  /\ UNCHANGED <<setup, svc, inbox, others>>

-----------------------------------------------------------------------------
(* The benchmark: receive_transcripts() until the final or an error, and     *)
(* only after the end has been sent does the stream look at its outcome.     *)

Taken(client, m) ==
  CASE m.type = "interim" ->
         [client EXCEPT !.interims = @ + 1,
                        !.noted = IF client.interims = 0 THEN Append(@, "interim") ELSE @]
    [] m.type = "active" -> [client EXCEPT !.noted = Append(@, "active")]
    [] m.type = "final" -> [client EXCEPT !.receiver = "returned", !.noted = Append(@, "final"), !.heard = m.audio]
    [] m.type \in {"error", "close"} -> [client EXCEPT !.receiver = "raised"]

Receive(i) ==
  /\ level = "running" /\ cl[i].receiver = "reading" /\ inbox[i] # <<>>
  /\ Becomes(i, Taken(cl[i], Head(inbox[i])))
  /\ inbox' = [inbox EXCEPT ![i] = Tail(@)]
  /\ UNCHANGED <<setup, svc, others>>

ReceiveTimesOut(i) ==
  /\ level = "running" /\ cl[i].receiver = "reading" /\ inbox[i] = <<>>
  /\ Becomes(i, [cl[i] EXCEPT !.receiver = "raised"])
  /\ UNCHANGED <<setup, svc, inbox, others>>

\* await receiver
AwaitFinal(i) ==
  /\ level = "running" /\ cl[i].at = "ended"
  /\ \/ cl[i].receiver = "returned" /\ Becomes(i, [cl[i] EXCEPT !.at = "done"])
     \/ cl[i].receiver = "raised" /\ Fails
  /\ UNCHANGED <<setup, svc, inbox, others>>

ReportLevel ==
  /\ level = "running" /\ \A i \in Streams : cl[i].at = "done"
  /\ level' = "reported"
  /\ UNCHANGED <<setup, cl, svc, inbox, others>>

-----------------------------------------------------------------------------
(* The probe: after each frame it takes messages until none comes for a      *)
(* millisecond, or the connection is closed, which it does not mind.         *)

Kept1(client, m) == [client EXCEPT !.events = Append(@, m)]

Poll(i) ==
  /\ level = "running" /\ cl[i].at = "polling" /\ inbox[i] # <<>>
  /\ IF Head(inbox[i]).type = "close"
     THEN Becomes(i, [cl[i] EXCEPT !.at = "sending"])
     ELSE Becomes(i, Kept1(cl[i], Head(inbox[i])))
  /\ inbox' = [inbox EXCEPT ![i] = IF Head(@).type = "close" THEN @ ELSE Tail(@)]
  /\ UNCHANGED <<setup, svc, others>>

\* A message may come in the very moment.
PollTimesOut(i) ==
  /\ level = "running" /\ cl[i].at = "polling"
  /\ Becomes(i, [cl[i] EXCEPT !.at = "sending"])
  /\ UNCHANGED <<setup, svc, inbox, others>>

ReadToFinal(i) ==
  /\ level = "running" /\ setup.tool = "probe" /\ cl[i].at = "ended" /\ inbox[i] # <<>>
  /\ LET m == Head(inbox[i])
     IN  IF m.type = "close" THEN Fails
         ELSE Becomes(i, [Kept1(cl[i], m) EXCEPT !.at = IF m.type = "final" THEN "done" ELSE @,
                                                 !.heard = m.audio])
  /\ inbox' = [inbox EXCEPT ![i] = Tail(@)]
  /\ UNCHANGED <<setup, svc, others>>

FinalTimesOut(i) ==
  /\ level = "running" /\ setup.tool = "probe" /\ cl[i].at = "ended" /\ inbox[i] = <<>>
  /\ Fails
  /\ UNCHANGED <<setup, svc, inbox, others>>

ServiceStep(i) ==
  \/ ServiceStarts(i) \/ ServicePromotes(i) \/ ServiceActivates(i)
  \/ ServiceFeeds(i) \/ ServiceEnds(i) \/ ServiceRefuses(i)

ClientStep(i) ==
  \/ Connect(i) \/ Started(i) \/ SendFrame(i) \/ SendEnd(i)
  \/ Receive(i) \/ ReceiveTimesOut(i) \/ AwaitFinal(i)
  \/ Poll(i) \/ PollTimesOut(i) \/ ReadToFinal(i) \/ FinalTimesOut(i)

ClientsNext == OthersLeave \/ ReportLevel \/ \E i \in Streams : ServiceStep(i) \/ ClientStep(i)
ClientsSpec == ClientsInit /\ [][ClientsNext]_clientVars

-----------------------------------------------------------------------------
(* summarize_streams(): percentile() of one metric, in hundredths, over the  *)
(* streams that have it.                                                     *)

ValuesOf(values) == {values[i] : i \in DOMAIN values}
AtMost(values, x) == Cardinality({i \in DOMAIN values : values[i] <= x})
Below(values, x) == Cardinality({i \in DOMAIN values : values[i] < x})

\* sorted(values)[rank - 1]: fewer than rank are below it, and rank up to it.
Ranked(values, rank) ==
  CHOOSE x \in ValuesOf(values) : Below(values, x) < rank /\ rank <= AtMost(values, x)

RankOf(values, q) ==
  LET up == (q * Len(values) + 99) \div 100 IN IF up < 1 THEN 1 ELSE up
Percentile(values, q) == Ranked(values, RankOf(values, q))

InterimCounts == [i \in Streams |-> cl[i].interims]

-----------------------------------------------------------------------------
(* A level is reported only of streams that were all measured to the end:    *)
(* the final covers every frame that was sent and came after the end was     *)
(* sent, no interim is missed or came before the slot, whether or not the    *)
(* stream had to wait, and none waits for nothing.                           *)
StreamsMeasured ==
  level = "reported" /\ setup.tool = "bench" =>
    \A i \in Streams :
      LET c == cl[i]
          at(mark) == CHOOSE k \in DOMAIN c.noted : c.noted[k] = mark
      IN  /\ c.heard = setup.frames /\ c.interims = svc[i].interims
          /\ {"active", "end", "final"} \subseteq ValuesOf(c.noted)
          /\ at("end") < at("final") /\ at("active") < at("final")
          /\ c.interims > 0 => at("active") < at("interim") /\ at("interim") < at("final")

(* What a probe prints is everything the service said of the utterance, in   *)
(* its order, whichever loop took it; it says ok only with a final of the    *)
(* whole recording.                                                          *)
ProbeHeardAll ==
  setup.tool = "probe" =>
    /\ \A k \in DOMAIN cl[1].events : \A m \in DOMAIN cl[1].events :
         k < m => cl[1].events[k].type # "final" /\ (cl[1].events[m].type = "error" \/ cl[1].events[k].audio <= cl[1].events[m].audio)
    /\ level = "reported" =>
         /\ Head(cl[1].events).type = "active" /\ cl[1].events[Len(cl[1].events)] = ClientMessage("final", setup.frames)
         /\ Cardinality({k \in DOMAIN cl[1].events : cl[1].events[k].type = "interim"}) = svc[1].interims

(* The percentile of a summary is a value of some stream: as many streams as *)
(* the quantile asks for are at or below it, and no smaller value has that.  *)
PercentilesRight ==
  level = "reported" => \A q \in {50, 95} :
    LET values == InterimCounts
        p == Percentile(values, q)
    IN  /\ p \in ValuesOf(values) /\ 100 * AtMost(values, p) >= q * Len(values)
        /\ \A x \in ValuesOf(values) : x < p => 100 * AtMost(values, x) < q * Len(values)

ClientsHonest == StreamsMeasured /\ ProbeHeardAll /\ PercentilesRight

(* The measurements are honest: laya_npu.py times one whole decision on        *)
(* runtimes no two threads share, concurrency.py writes the whole measurement *)
(* and counts as decided what the Agent would carry out, and the ASR          *)
(* benchmark reports streams that it measured to their end.                   *)
MeasuredHonestly == BenchHonest /\ MeasuredAsAgent /\ ClientsHonest
=============================================================================
