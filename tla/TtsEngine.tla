------------------------------ MODULE TtsEngine ------------------------------
(***************************************************************************)
(* eidolon_models_tts/engine.py and the serve loop it drives               *)
(* (cosyvoice2_streaming_pipeline.cpp, main()): one resident process that  *)
(* says one line of stdin at a time, audio on one pipe and a report per    *)
(* utterance on stderr, and Engine.synthesize(), an async generator whose  *)
(* consumer may stop asking at any yield.                                  *)
(*                                                                         *)
(* A call is one generator object.  Audio is counted in pieces, a piece    *)
(* being what one read() returns; a piece carries the call it was said for *)
(* and its place in that utterance.  The engine is started and ready in    *)
(* the initial state: start() and stop() are not modelled.                 *)
(***************************************************************************)
EXTENDS Integers, Sequences, FiniteSets, SequencesExt

CONSTANTS
  Calls,       (* generator objects made by synthesize()                  *)
  MaxPieces,   (* longest utterance                                       *)
  PipeSize,    (* pieces the audio pipe, or the StreamReader, will hold   *)
  FaultSets,   (* what the environment may do together, see FaultKinds    *)
  None

(* "abandon":          the consumer stops before the report: its client is
                       gone, or had cancelled the request;
   "report_overtakes": a report is seen before audio written earlier;
   "utterance_fails":  the pipeline throws, the serve loop reports FAIL;
   "engine_stalls":    nothing arrives for request_timeout_s;
   "engine_dies":      the process exits.                                  *)
FaultKinds == {"abandon", "report_overtakes", "utterance_fails", "engine_stalls", "engine_dies"}

ASSUME EngineAssumption ==
  /\ MaxPieces \in Nat \ {0}
  /\ PipeSize \in Nat \ {0}
  /\ FaultSets \subseteq SUBSET FaultKinds
  /\ None \notin Calls

VARIABLES
  faults,      (* what the environment may do in this behaviour           *)
  \* the process
  engine,      (* "up", "dead", or "reaped" once its exit is noticed      *)
  stdin,       (* lines not yet read                                      *)
  speaking,    (* the call whose line is being said                       *)
  written,     (* pieces of it written                                    *)
  \* between the process and its client
  pipe,        (* audio in flight                                         *)
  arrived,     (* audio in the StreamReader of stdout                     *)
  stderr,      (* reports in flight                                       *)
  \* the client
  line,        (* _turn: its holder, then those who wait for it in order  *)
  reports,     (* _reports                                                *)
  mine,        (* result of the holder's report_task, or NoReport         *)
  at,          (* where each generator is                                 *)
  got          (* pieces each generator has yielded                       *)

processVars == <<engine, stdin, speaking, written>>
clientVars == <<line, reports, mine, at, got>>
engineVars == <<faults, engine, stdin, speaking, written, pipe, arrived, stderr,
                line, reports, mine, at, got>>

Piece(c, n) == [of |-> c, n |-> n]
Report(c, ok, n) == [of |-> c, ok |-> ok, pieces |-> n]
NoReport == Report(None, FALSE, 0)

EngineInit ==
  /\ faults \in FaultSets
  /\ engine = "up"
  /\ stdin = <<>>
  /\ speaking = None
  /\ written = 0
  /\ pipe = <<>>
  /\ arrived = <<>>
  /\ stderr = <<>>
  /\ line = <<>>
  /\ reports = <<>>
  /\ mine = NoReport
  /\ at = [c \in Calls |-> "idle"]
  /\ got = [c \in Calls |-> <<>>]

-----------------------------------------------------------------------------
(* The process: the serve loop of main(). *)

TakeLine ==
  /\ engine = "up"
  /\ speaking = None
  /\ stdin # <<>>
  /\ speaking' = Head(stdin)
  /\ stdin' = Tail(stdin)
  /\ written' = 0
  /\ UNCHANGED <<engine, pipe, arrived, stderr, clientVars>>

\* PcmStreamWriter::Write blocks while the pipe is full.
WritePiece ==
  /\ engine = "up"
  /\ speaking # None
  /\ written < MaxPieces
  /\ Len(pipe) < PipeSize
  /\ pipe' = Append(pipe, Piece(speaking, written + 1))
  /\ written' = written + 1
  /\ UNCHANGED <<engine, stdin, speaking, arrived, stderr, clientVars>>

\* The report follows the last piece, with the bytes written.
EndUtterance ==
  /\ engine = "up"
  /\ speaking # None
  /\ written > 0
  /\ stderr' = Append(stderr, Report(speaking, TRUE, written))
  /\ speaking' = None
  /\ written' = 0
  /\ UNCHANGED <<engine, stdin, pipe, arrived, clientVars>>

\* The catch of the serve loop: audio may have been written before.
FailUtterance ==
  /\ "utterance_fails" \in faults
  /\ engine = "up"
  /\ speaking # None
  /\ stderr' = Append(stderr, Report(speaking, FALSE, 0))
  /\ speaking' = None
  /\ written' = 0
  /\ UNCHANGED <<engine, stdin, pipe, arrived, clientVars>>

Die ==
  /\ "engine_dies" \in faults
  /\ engine = "up"
  /\ engine' = "dead"
  /\ UNCHANGED <<stdin, speaking, written, pipe, arrived, stderr, clientVars>>

-----------------------------------------------------------------------------
(* The pipes, and _read_stderr(). *)

AudioArrives ==
  /\ pipe # <<>>
  /\ Len(arrived) < PipeSize
  /\ arrived' = Append(arrived, Head(pipe))
  /\ pipe' = Tail(pipe)
  /\ UNCHANGED <<processVars, stderr, clientVars>>

\* The report_task of the holder of _turn takes the first report put while it
\* waits; it waits from synthesize()'s write to the end of the generator.
Listening == line # <<>> /\ at[Head(line)] # "turn" /\ mine = NoReport

PutReport(r) ==
  \/ Listening /\ mine' = r /\ UNCHANGED reports
  \/ ~Listening /\ reports' = Append(reports, r) /\ UNCHANGED mine

ReportArrives ==
  /\ stderr # <<>>
  /\ PutReport(Head(stderr))
  /\ stderr' = Tail(stderr)
  /\ UNCHANGED <<processVars, pipe, arrived, line, at, got>>

\* stderr ends: not ready any more, and a report for whoever waits.
ExitNoticed ==
  /\ engine = "dead"
  /\ stderr = <<>>
  /\ engine' = "reaped"
  /\ PutReport([of |-> None, ok |-> FALSE, pieces |-> 1])
  /\ UNCHANGED <<stdin, speaking, written, pipe, arrived, stderr, line, at, got>>

-----------------------------------------------------------------------------
(* Engine.synthesize() *)

Goes(c, where) == at' = [at EXCEPT ![c] = where]

\* The generator ends: `finally: report_task.cancel()`, and _turn goes on.
Ends(c, how) ==
  /\ Goes(c, how)
  /\ line' = Tail(line)
  /\ mine' = NoReport

\* The first __anext__: the readiness test, then a place in line for _turn.
Call(c) ==
  /\ at[c] = "idle"
  /\ engine # "reaped"
  /\ Goes(c, "turn")
  /\ line' = Append(line, c)
  /\ UNCHANGED <<processVars, pipe, arrived, stderr, reports, mine, got>>

CallRefused(c) ==
  /\ at[c] = "idle"
  /\ engine # "up"
  /\ Goes(c, "unavailable")
  /\ UNCHANGED <<processVars, pipe, arrived, stderr, line, reports, mine, got>>

\* Mutant: no `async with self._turn`.
BeginOutOfTurn(c) ==
  /\ at[c] = "turn"
  /\ reports' = <<>>
  /\ stdin' = Append(stdin, c)
  /\ Goes(c, "reading")
  /\ UNCHANGED <<engine, speaking, written, pipe, arrived, stderr, line, mine, got>>

\* With the turn: old reports are discarded, the line is written.
Begin(c) ==
  /\ at[c] = "turn"
  /\ Head(line) = c
  /\ reports' = <<>>
  /\ stdin' = Append(stdin, c)
  /\ Goes(c, "reading")
  /\ UNCHANGED <<engine, speaking, written, pipe, arrived, stderr, line, mine, got>>

\* The write to a process that is gone raises OSError.
BeginFails(c) ==
  /\ at[c] = "turn"
  /\ Head(line) = c
  /\ engine # "up"
  /\ reports' = <<>>
  /\ Ends(c, "broken")
  /\ UNCHANGED <<processVars, pipe, arrived, stderr, got>>

Yield(c, where) ==
  /\ arrived # <<>>
  /\ got' = [got EXCEPT ![c] = Append(@, Head(arrived))]
  /\ arrived' = Tail(arrived)
  /\ Goes(c, where)
  /\ UNCHANGED <<processVars, pipe, stderr, line, reports, mine>>

ReadPiece(c) ==
  /\ at[c] = "reading"
  /\ Yield(c, "yielded")

AudioEnded == engine # "up" /\ pipe = <<>> /\ arrived = <<>>

\* read() returns b"": "the engine closed its audio stream".
ReadEnds(c) ==
  /\ at[c] = "reading"
  /\ AudioEnded
  /\ Ends(c, "unavailable")
  /\ UNCHANGED <<processVars, pipe, arrived, stderr, reports, got>>

\* Mutant: _turn is taken by hand and not given back on this path.
ReadTimesOutHoldingTurn(c) ==
  /\ "engine_stalls" \in faults
  /\ at[c] = "reading"
  /\ arrived = <<>>
  /\ mine = NoReport
  /\ Goes(c, "unavailable")
  /\ UNCHANGED <<processVars, pipe, arrived, stderr, line, reports, mine, got>>

\* asyncio.wait() returns with nothing done.
ReadTimesOut(c) ==
  /\ "engine_stalls" \in faults
  /\ at[c] = "reading"
  /\ arrived = <<>>
  /\ mine = NoReport
  /\ Ends(c, "unavailable")
  /\ UNCHANGED <<processVars, pipe, arrived, stderr, reports, got>>

\* What synthesize() makes of the report, with `delivered` pieces yielded.
\* read_task.cancel() only takes effect when the loop runs next, so its read
\* still waits on the StreamReader; a read of the tail that has to wait too
\* raises RuntimeError.
ReportRead(c) ==
  \/ /\ ~mine.ok
     /\ Ends(c, "failed")
  \/ /\ mine.ok /\ Len(got[c]) < mine.pieces /\ arrived = <<>>
     /\ Ends(c, "broken")
  \/ /\ mine.ok /\ Len(got[c]) < mine.pieces /\ arrived # <<>>
     /\ Goes(c, "tail")
     /\ UNCHANGED <<line, mine>>
  \/ /\ mine.ok /\ Len(got[c]) = mine.pieces
     /\ Goes(c, "reported")
     /\ UNCHANGED <<line, mine>>
  \/ /\ mine.ok /\ Len(got[c]) > mine.pieces
     /\ Ends(c, "unavailable")

\* The report is looked at when the read is not done.  On one host the audio
\* it counts was readable before it, and has been read by then.
ReportSeen(c) ==
  /\ at[c] = "reading"
  /\ mine # NoReport
  /\ pipe \o arrived = <<>> \/ "report_overtakes" \in faults
  /\ ReportRead(c)
  /\ UNCHANGED <<processVars, pipe, arrived, stderr, reports, got>>

ReadTail(c) ==
  /\ at[c] = "tail"
  /\ Yield(c, "tail_yielded")

TailEnds(c) ==
  /\ at[c] = "tail"
  /\ AudioEnded
  /\ Ends(c, "unavailable")
  /\ UNCHANGED <<processVars, pipe, arrived, stderr, reports, got>>

\* wait_for() raises TimeoutError, which nothing turns into EngineUnavailable.
TailTimesOut(c) ==
  /\ "engine_stalls" \in faults
  /\ at[c] = "tail"
  /\ arrived = <<>>
  /\ Ends(c, "broken")
  /\ UNCHANGED <<processVars, pipe, arrived, stderr, reports, got>>

\* The consumer asks for the next piece.
Resume(c) ==
  /\ \/ at[c] = "yielded" /\ Goes(c, "reading")
     \/ at[c] = "tail_yielded" /\ Len(got[c]) < mine.pieces /\ Goes(c, "tail")
     \/ at[c] = "tail_yielded" /\ Len(got[c]) = mine.pieces /\ Goes(c, "reported")
  /\ UNCHANGED <<processVars, pipe, arrived, stderr, line, reports, mine, got>>

\* The consumer lets go of the generator: after the report, or before it.
Drop(c) ==
  /\ \/ at[c] = "reported" /\ Goes(c, "done")
     \/ at[c] \in {"yielded", "tail_yielded"} /\ Goes(c, "dropped")
  /\ UNCHANGED <<processVars, pipe, arrived, stderr, line, reports, mine, got>>

\* A generator that was let go of is closed by the event loop's finalizer
\* hook, later: only then does it give the turn back.
Finalize(c) ==
  /\ at[c] \in {"done", "dropped"}
  /\ line # <<>> /\ Head(line) = c
  /\ Ends(c, at[c])
  /\ UNCHANGED <<processVars, pipe, arrived, stderr, reports, got>>

-----------------------------------------------------------------------------
ProcessStep ==
  \/ TakeLine \/ WritePiece \/ EndUtterance \/ FailUtterance \/ Die
  \/ AudioArrives \/ ReportArrives \/ ExitNoticed

GeneratorStep(c) ==
  \/ Begin(c) \/ BeginFails(c)
  \/ ReadPiece(c) \/ ReadEnds(c) \/ ReadTimesOut(c) \/ ReportSeen(c)
  \/ ReadTail(c) \/ TailEnds(c) \/ TailTimesOut(c)
  \/ Finalize(c)

\* A consumer that drops a generator before its report abandons it.
ConsumerStep(c) ==
  \/ Call(c) \/ CallRefused(c)
  \/ Resume(c)
  \/ Drop(c) /\ (at[c] = "reported" \/ "abandon" \in faults)

EngineNext ==
  /\ UNCHANGED faults
  /\ \/ ProcessStep
     \/ \E c \in Calls : GeneratorStep(c) \/ ConsumerStep(c)

EngineSpec == EngineInit /\ [][EngineNext]_engineVars

-----------------------------------------------------------------------------
(* Audio goes to the request it was said for, from its beginning and without
   a gap: synthesize() tells utterances apart by counting only. *)
AudioIsOwn ==
  \A c \in Calls : got[c] = [i \in 1..Len(got[c]) |-> Piece(c, i)]

(* A request that ends with a report has the report of its own utterance and
   exactly the audio that report counts. *)
CompleteAndOwn ==
  \A c \in Calls : at[c] = "reported" =>
    /\ mine = Report(c, TRUE, Len(got[c]))
    /\ got[c] = [i \in 1..Len(got[c]) |-> Piece(c, i)]

(* A call that is over while its utterance is not: nobody reads any more what
   the process still says, or already wrote, for it.  Its consumer dropped the
   generator, a timeout ended it, or a report that overtook its audio did. *)
GivenUp(c) ==
  \/ at[c] = "dropped"
  \/ "engine_stalls" \in faults /\ at[c] \in {"unavailable", "broken"}
  \/ "report_overtakes" \in faults /\ at[c] \in {"failed", "broken"}

(* Until a call is given up, requests are kept apart, whatever fails and
   whatever overtakes what: failed utterances and the process's death do not
   mix them.  Once one is given up they may mix, by a timeout as by a consumer
   that leaves: its late audio, or its late report, is taken for that of the
   next call. *)
OwnUnlessGivenUp == (\E c \in Calls : GivenUp(c)) \/ (AudioIsOwn /\ CompleteAndOwn)

=============================================================================
