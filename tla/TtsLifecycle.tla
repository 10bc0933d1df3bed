---------------------------- MODULE TtsLifecycle ----------------------------
(* The life of the TTS process under its service: main() pins and reads the   *)
(* environment, start() checks the assets, spawns the process and waits for   *)
(* the ready line on its stderr, stop() closes its stdin, waits and kills;    *)
(* the reader of stderr runs beside both.  A request is one line of stdin.    *)
(* Sources: src/src/eidolon_models_tts/cli.py, config.py, engine.py (start,   *)
(* stop, _read_stderr), service.py (create_app, ready, stream), protocol.py.  *)
EXTENDS Integers, Sequences

CONSTANTS
  Masks,      \* the CPU sets the host may give the service
  SynthTexts, \* texts: how many line breaks inside, which line break around
  MaxSpoken   \* requests taken

VARIABLES
  appAt,      (* where the service is                                       *)
  failing,    (* stop() was called by start()                               *)
  mask,       (* its CPUs, and those its child has                          *)
  child,      (* the process: none, loading, warm, hung or exited           *)
  reaped,     (* its exit code is known                                     *)
  stdinOpen,
  stderr,     (* the lines in the pipe                                      *)
  reader,     (* the task that reads them                                   *)
  readyEvent, (* _ready                                                     *)
  woken,      (* start() was woken by it                                    *)
  handle,     (* _process is set                                            *)
  warmed,     (* the process has said it is ready                           *)
  spoken      (* requests accepted, and lines the process was sent          *)

childVars == <<child, reaped, stdinOpen, warmed>>
readerVars == <<stderr, reader, readyEvent, woken>>
lifeVars == <<appAt, failing, mask, childVars, readerVars, handle, spoken>>

Alive == child \in {"loading", "warm", "hung"}

\* The property ready of Engine, and the answer of /readyz.
EngineReady == readyEvent /\ handle /\ ~reaped

LifeInit ==
  /\ appAt = "start" /\ failing = FALSE /\ mask = [service |-> "all", child |-> "none"]
  /\ child = "none" /\ reaped = FALSE /\ stdinOpen = FALSE /\ warmed = FALSE
  /\ stderr = <<>> /\ reader = "none" /\ readyEvent = FALSE /\ woken = FALSE
  /\ handle = FALSE /\ spoken = [requests |-> 0, lines |-> 0]

-----------------------------------------------------------------------------
(* main() *)

\* apply_cpu_affinity(), before anything is spawned.
PinService ==
  /\ appAt = "start" /\ appAt' = "pinned"
  /\ \E m \in Masks : mask' = [mask EXCEPT !.service = m]
  /\ UNCHANGED <<failing, childVars, readerVars, handle, spoken>>

\* load_settings(): both roots, and numbers that are numbers.
LoadSettings ==
  /\ appAt = "pinned" /\ appAt' \in {"startup", "failed"}
  /\ UNCHANGED <<failing, mask, childVars, readerVars, handle, spoken>>

-----------------------------------------------------------------------------
(* Engine.start() *)

AssetsAbsent ==
  /\ appAt = "startup" /\ appAt' = "failed"
  /\ UNCHANGED <<failing, mask, childVars, readerVars, handle, spoken>>

Spawn ==
  /\ appAt = "startup" /\ appAt' = "starting"
  /\ child' = "loading" /\ stdinOpen' = TRUE /\ handle' = TRUE /\ reader' = "reading"
  /\ mask' = [mask EXCEPT !.child = mask.service]
  /\ UNCHANGED <<failing, reaped, warmed, stderr, readyEvent, woken, spoken>>

StartReturns ==
  /\ appAt = "starting" /\ woken
  /\ appAt' = "listening"
  /\ UNCHANGED <<failing, mask, childVars, readerVars, handle, spoken>>

\* Mutant: the timeout leaves the process to itself.
StartTimesOutOnly ==
  /\ appAt = "starting" /\ ~woken
  /\ appAt' = "failed"
  /\ UNCHANGED <<failing, mask, childVars, readerVars, handle, spoken>>

StartTimesOut ==
  /\ appAt = "starting" /\ ~woken
  /\ appAt' = "stop" /\ failing' = TRUE
  /\ UNCHANGED <<mask, childVars, readerVars, handle, spoken>>

\* A signal while start() waits: it is cancelled, nobody calls stop(), and
\* the pipes close with the service.
Interrupted ==
  /\ appAt = "starting" /\ appAt' = "interrupted"
  /\ stdinOpen' = FALSE /\ reader' = "cancelled"
  /\ UNCHANGED <<failing, mask, child, reaped, warmed, stderr, readyEvent, woken, handle, spoken>>

-----------------------------------------------------------------------------
(* The process, and what the service learns of it *)

ChildWarm ==
  /\ child = "loading" /\ child' = "warm" /\ warmed' = TRUE
  /\ stderr' = Append(stderr, "ready")
  /\ UNCHANGED <<appAt, failing, mask, reaped, stdinOpen, reader, readyEvent, woken, handle, spoken>>

ChildHangs ==
  /\ child \in {"loading", "warm"} /\ child' = "hung"
  /\ UNCHANGED <<appAt, failing, mask, reaped, stdinOpen, warmed, readerVars, handle, spoken>>

\* It fails, or its loop ends because stdin did.
ChildExits ==
  /\ child \in {"loading", "warm"} /\ child' = "exited"
  /\ stderr' = Append(stderr, "closed")
  /\ UNCHANGED <<appAt, failing, mask, reaped, stdinOpen, warmed, reader, readyEvent, woken, handle, spoken>>

Reap ==
  /\ child = "exited" /\ ~reaped /\ reaped' = TRUE
  /\ UNCHANGED <<appAt, failing, mask, child, stdinOpen, warmed, readerVars, handle, spoken>>

\* _read_stderr(): whoever waits for _ready is woken when it is set, also if
\* it is cleared before they run.
ReadStderr ==
  /\ reader = "reading" /\ stderr # <<>>
  /\ stderr' = Tail(stderr)
  /\ readyEvent' = (Head(stderr) = "ready")
  /\ woken' = (woken \/ (Head(stderr) = "ready" /\ appAt = "starting"))
  /\ reader' = IF Head(stderr) = "closed" THEN "done" ELSE reader
  /\ UNCHANGED <<appAt, failing, mask, childVars, handle, spoken>>

-----------------------------------------------------------------------------
(* stream(), as far as a text becomes a line: parse_synthesize() *)

\* What is around is stripped, what is inside is refused; so are an empty
\* text, a long one and a request without an id.
Accepted(t) == t.id /\ ~t.blank /\ ~t.long /\ t.inside = 0

TakeText(t) ==
  /\ appAt = "listening" /\ EngineReady /\ spoken.requests < MaxSpoken
  /\ Accepted(t)
  /\ spoken' = [requests |-> spoken.requests + 1, lines |-> spoken.lines + 1 + t.inside]
  /\ UNCHANGED <<appAt, failing, mask, childVars, readerVars, handle>>

-----------------------------------------------------------------------------
(* on_cleanup and Engine.stop() *)

Shutdown ==
  /\ appAt = "listening" /\ appAt' = "stop"
  /\ UNCHANGED <<failing, mask, childVars, readerVars, handle, spoken>>

StopBegins ==
  /\ appAt = "stop"
  /\ handle' = FALSE /\ readyEvent' = FALSE
  /\ appAt' = IF handle /\ ~reaped THEN "waiting" ELSE "process_stopped"
  /\ stdinOpen' = FALSE
  /\ UNCHANGED <<failing, mask, child, reaped, warmed, stderr, reader, woken, spoken>>

StopWaited ==
  /\ appAt = "waiting" /\ reaped
  /\ appAt' = "process_stopped"
  /\ UNCHANGED <<failing, mask, childVars, readerVars, handle, spoken>>

\* Ten seconds later: kill(), and wait again.
StopKills ==
  /\ appAt = "waiting" /\ Alive
  /\ child' = "exited" /\ stderr' = Append(stderr, "closed")
  /\ UNCHANGED <<appAt, failing, mask, reaped, stdinOpen, warmed, reader, readyEvent, woken, handle, spoken>>

StopEnds ==
  /\ appAt = "process_stopped"
  /\ appAt' = IF failing THEN "failed" ELSE "stopped"
  /\ reader' = IF reader = "reading" THEN "cancelled" ELSE reader
  /\ UNCHANGED <<failing, mask, childVars, stderr, readyEvent, woken, handle, spoken>>

LifeNext ==
  \/ PinService \/ LoadSettings \/ AssetsAbsent \/ Spawn \/ StartReturns \/ StartTimesOut \/ Interrupted
  \/ ChildWarm \/ ChildHangs \/ ChildExits \/ Reap \/ ReadStderr
  \/ (\E t \in SynthTexts : TakeText(t))
  \/ Shutdown \/ StopBegins \/ StopWaited \/ StopKills \/ StopEnds

LifeSpec == LifeInit /\ [][LifeNext]_lifeVars

-----------------------------------------------------------------------------
(* /readyz is what a release waits for: it says yes only of a process that
   has said it is warm and that nobody has begun to stop, although the reader
   may see the ready line at any time, during stop() too. *)
ReadyIsReal == EngineReady => warmed /\ appAt \in {"starting", "listening", "stop", "interrupted"}

(* A service that could not start, or was stopped, leaves no process on the
   NPU, be it slow, hung or gone. *)
NothingLeft == appAt \in {"failed", "stopped"} => ~Alive

(* Nobody is served before the graphs are warm; the process runs on the cores
   the service was given; and a request is one utterance of the process. *)
ServedAsMeant ==
  /\ appAt = "listening" => warmed
  /\ child # "none" => mask.child = mask.service
  /\ spoken.lines = spoken.requests

(* All three of the process a service owns. *)
ProcessOwned == ReadyIsReal /\ NothingLeft /\ ServedAsMeant

=============================================================================
