# A verification of eidolon_models

TLA+ models of the model services in this repository and of the jobs that make
and install their models, the TLC runs that check them, and TLAPS proofs about
the parts everything else depends on.

## 1. The system

eidolon_models is the set of local model services of a Host (an RK3588 board):
speech recognition (ASR), speech synthesis (TTS), the LAYA decision service and
a launcher for a chat model. Each is a process of its own; a client talks to it
over a WebSocket or HTTP on the loopback interface. They share a CPU
allocation, no state. Around them are jobs run by hand: data is bought, imported
and derived, a model is trained, calibrated, packaged, exported and compiled, and
what comes out is measured and evaluated.

| Component | State | Operations | Interacts by |
|---|---|---|---|
| ASR capacity manager, `src/eidolon_models_asr/capacity.py` | connection counter, active counter, deque of waiters, per lease: flags, position, `ready` future | open/close connection, reserve, wait_ready, release (and the promotion inside it) | method calls of every handler, one `asyncio.Lock` |
| ASR WebSocket service, `.../service.py` | per connection: socket, current `UtteranceContext` (lease, session, buffer, failure, activation task, two locks) | connect, start, audio, end, ping, close, disconnect; the activation task of a queued utterance | capacity manager; recognizer in pool threads (`asyncio.to_thread`); two tasks write to one socket |
| ASR backends, `.../backend.py` | one shared ONNX model with a swappable frontend; per session: cache, pending samples | new_session, feed_pcm16, finish | called from pool threads under a `threading.Lock` |
| ASR settings, artifacts, command line, benchmark, probe | settings read once; files verified; the streams of a measurement | doctor, verify, serve, bench, probe | environment, files, the service's socket |
| TTS engine driver, `src/eidolon_models_tts/engine.py` | the process, queue of reports, readiness, the turn (`asyncio.Lock`), one generator per request | start, stop, synthesize, read stderr | stdin, stdout and stderr of the process; consumer of the generator |
| TTS WebSocket service, `.../service.py` | per connection: active request, cancelled ids | synthesize, cancel, ping, close | the one engine, shared by all connections |
| TTS process (C++), `.../cpp/src/` | per line: tokens, chunks, two bounded queues, recorded error; per process: caches of encoder, flow and vocoder | tokenizer and prefill; serve loop; language model, flow and vocoder threads; PCM writer; report | queues between threads, pipes to the engine driver |
| Host CPU allocation, `src/eidolon_models_host/cpu.py` | none | parse a CPU list, render a mask, pin | environment |
| LAYA service, engine, backends, sequence, participation, `laya/src/eidolon_models_laya/` | pending counter, one executor thread, NPU batch lock and per-core queues, NPU contexts | decide with a deadline, systemone, readiness | HTTP; executor; NPU workers |
| LAYA model files, `.../artifacts.py`, `export*.py` | the files of a version directory and their records | fetch, verify, export, compile, load | files that other commands replace |
| LAYA training, `laya/src/eidolon_laya_train/` | records, labels, checkpoints, manifests of a run | import, label, augment, assemble, train, calibrate, package, eval, gate | files of a run directory |
| Scenario data, `laya/train/scenarios/` | ledgers of paid calls, plans, drafts, records | buy, review, check, expand, annotate, count | files; a paid API |
| Evaluations and board harness, `laya/evals`, `laya/deploy/rk3588` | predictions, summaries, runtimes, threads | ask, score, compare, benchmark | HTTP, NPU runtimes |
| jevk5, units, operator scripts | - | offline experiments, one-shot commands | - |

What is hard in it: handlers that interleave at every `await` and share the
capacity manager; a queue timeout that strikes together with a promotion; audio
that arrives while buffered audio is being caught up; tasks that die with an
exception nobody awaits; clients that leave at any point; pool threads that swap
parts of one shared model; two byte streams whose only relation is a byte count;
a consumer that abandons a generator while the process goes on speaking; threads
that block on queues whose other end has thrown; caches carried from chunk to
chunk; batches whose rows differ in width and finish in any order; and, offline,
jobs that are killed between two files and run again among what they left,
records derived from records, and reports that must speak of data nobody touched.
`PROJECT.json` ("hazards") lists each at its line with the properties that would
catch it.

What makes the components correct:

- capacity: counter and flags agree; never more holders than slots; no free slot
  beside a queue; strict first come, first served; nobody lost, nobody promoted
  twice, nobody released twice; connections counted exactly;
- ASR service: a final covers the whole utterance in order; a slot always has an
  owner who will give it back; a session exists only on a held slot; replies
  come in a sensible order; every message is dealt with; queues drain;
- ASR backend: no session hears another, whichever thread raises;
- TTS engine and service: each request gets its own audio and its own report; is
  answered once; no request wedges a connection or keeps the turn;
- TTS process: nothing lost between threads; cutting independent of timing; the
  signal continuous over every seam; an error in any thread ends the line only;
- LAYA: exactly the questions whose conditions hold are answered, each from its own
  numbers, staged or speculative; one batch on the cores at a time; the backlog
  bounded whatever callers do; a decision is made on all of what was sent;
- files and jobs: what is loaded is of one origin; money is spent once; splits
  stay apart; a manifest, a gate or a report means what it says.

## 2. Modules

| Module | Models | Notes |
|---|---|---|
| `AsrAdmission` | what admission promises | abstract: holders, a line, those who left |
| `AsrCapacity` | `capacity.py`, each method one action | implements `AsrAdmission` (`KeepsAdmissionPromise`) |
| `AsrCapacityProofs` | theorems about `AsrCapacity` | section 5 |
| `AsrService` | `service.py`: handlers, contexts, activation tasks | INSTANCEs `AsrCapacity` and composes its actions into the handlers' steps; `AsrServiceProofs`, section 5 |
| `AsrBackend` | `backend.py`: sessions on one shared model | `ProcessProofs`, section 5 |
| `AsrStartup` | CPU lists, settings, doctor, verify, serve | both parsers of the CPU list; `ProcessProofs`, section 5 |
| `AsrClients` | `benchmark.py` and the probe of `cli.py` | against a service seen from outside; states `MeasuredHonestly` of all measurements; `EvaluationProofs`, section 5 |
| `TtsEngine` | the serve loop, the pipes, `Engine.synthesize()` | open: its consumer may stop asking at any yield |
| `TtsService` | `stream()` and `deliver()` | EXTENDS `TtsEngine` and is its consumer; `DrivesEngine` says it is a well-behaved one; `TtsServiceProofs`, section 5 |
| `TtsLifecycle` | start, stop and the process they own; pinning | `ProcessProofs`, section 5 |
| `TtsPipeline` | three threads and two queues that say one line | the inside of `TtsEngine`'s "speaking"; `TtsPipelineProofs`, section 5 |
| `TtsFlow` | caches, chunks, hand-over between graphs, vocoder windows | the rows the threads of `TtsPipeline` pass on; `TtsPipelineProofs`, section 5 |
| `TtsText` | tokenizer, layout of a line, half floats | what the first thread is given |
| `LayaEngine` | `predict()`, `check_ask_if()`, `RknnBackend`: one worker thread, the batch lock, the cores | open: a service decides when a request is taken |
| `LayaService` | `service.py`: the two POST handlers, the pending limit, the executor | EXTENDS `LayaEngine` and runs it; `LayaServiceProofs`, section 5 |
| `LayaSequence` | `sequence.py` as operators | used by the next two; `LayaServiceProofs`, section 5 |
| `LayaAnswers` | from the questions of a batch to their answers, every backend | EXTENDS `LayaSequence` |
| `LayaParticipation` | the predictors and the adapter of a participation request | EXTENDS `LayaAnswers`, whose sequences it asks for; the two share no step |
| `LayaStartup` | services file, flags, doctor, serve, the key | `ProcessProofs`, section 5 |
| `NpuRuntime` | loading, copying and closing NPU contexts | `ProcessProofs`, section 5 |
| `ModelFiles` | fetch, export, compile, load | crash and restart; `OfflineProofs`, section 5 |
| `PaidCalls` | four scripts that buy answers | crash and restart; `OfflineProofs`, section 5 |
| `Importers`, `TrainData`, `TrainLoop`, `PipelineRun` | gen; label, augment, assemble; train to package; the pipeline and its gate | crash and restart; `OfflineProofs`, section 5 |
| `RealEval`, `SmartHomeEval` | households frozen, scored, judged; scenarios asked, reported, compared | `EvaluationProofs`, section 5 |
| `Continuation` | frames and records of continued conversations | |
| `Episodes`, `TeamDrafts` | episodes and drafts with the right decision at every step | |
| `NpuBench` | how a decision is timed on the board | `EvaluationProofs`, section 5 |
| `SideBySide` | two services measured at once | `EvaluationProofs`, section 5 |
| `MC...` | TLC instances | symmetry sets, and values a cfg cannot write |

An MC module that joins parts of a system which do not call each other while they
run has a variable `part`, chosen at the start: a behaviour is one of one part, the
others keep their initial state. Where parts do call each other they are composed:
`AsrService` with `AsrCapacity`, `TtsService` with `TtsEngine`, `LayaService` with
`LayaEngine`.

### How state and steps correspond to the code

*AsrCapacity.* `asyncio.Lock` is never held across an await in `capacity.py`, so
a method is one step. `holding`, `released`, `ready` and `position` are the
fields of the lease objects, `made` the leases that exist. A lease is used for
one reservation, as in the code. `PromoteNext` is the whole loop of
`_promote_next_locked`, skipping included. Times and `snapshot()` are left out.

*AsrService.* One event loop runs everything, so a step is what a task does up to
the next await that really suspends: a thread, a wait for the lease, a contended
lock, a send on a paused transport. `pc` names the await a handler is in, `task`
that of its activation task. A chunk is a packet: the 3200-byte pieces in which
buffered audio is fed and the packets of the client are the same unit. Interim
results are "some or none"; recognized text, ids and timings are left out.
`wire` is what the client has received in the current utterance, consecutive
interims taken as one. A send to a closed connection does nothing or raises, as
in the code; `link` falls when either side closes. Cancellation (`close()` of the
context) reaches the task wherever it waits. Odd and disallowed messages are
`BadMessage`, all error clauses of `stream()` are `Rejected`: they differ only in
code and wording. The server's own shutdown, which would cancel handlers, is not
modelled.

*AsrBackend.* A call of a session runs in a pool thread and may outlive its
waiter. `infer()` is three steps under the lock (the frontend put in, the model
run, the previous one put back), any of which may be where the model raises. What
a frontend has `heard` is counted per session it was fed from.

*AsrStartup, AsrClients.* The CPU list is a sequence of parts, read by the Python
and the shell parser each in its own way. Settings come from the environment,
then from the flags, each file is verified before it is loaded, and a loader may raise
(a library missing, a model that will not open). `doctor`, `verify` and `serve` may
follow each other over the same files; `report` keeps what `doctor` said. A bench stream
is its sender and its receiver over one connection; a probe is one loop that does
both and a second that waits for the final.

*TtsEngine.* Audio is counted in pieces, one piece being what one `read()`
returns; a piece carries the request it was said for, which the code cannot see
and the properties talk about. `pipe` and `arrived` are the kernel pipe and the
StreamReader, `stderr`, `reports` and `mine` the way of a report: in flight, in
the queue, with the waiting `report_task`. `line` is the turn with its waiters.
A generator that was let go of is finalized later, by the event loop; only then
does the turn pass on. `stdin` is unbounded, as lines are short. The engine is
ready initially; how it becomes so is `TtsLifecycle`.

*TtsService.* The receive loop handles one message at a time and awaits
`deliver()`; `inbox` is what the client has sent ahead. Messages answered without
a change of state are left out.

*TtsLifecycle.* `start()` and `stop()` are cut at their awaits, with the timeouts,
the reader of stderr and the process itself beside them; the process loads, says
it is ready, hangs or exits. A request becomes one line of stdin.

*TtsPipeline.* `Push` and `Pop` are atomic (one mutex, two condition variables);
a thread that would wait is not enabled. Tokens are counted, since the queue keeps
their order; chunks are ranges of tokens. Frames, samples and the overlap that
the vocoder keeps back are counted in tokens. `record_error` closes one queue,
then the other, in two steps. It is the configuration `Engine.command()` starts:
precomputed prompt, no steady flow model, no batching.

*TtsFlow.* A tensor is its rows, a row the token or frame it was computed from, so
that a cache can be seen to hold an utterance's own past in order, without a gap
and without a row of another utterance. Both graphs, one for a chunk and the
steady one for two, and the hand-over between them are there; the frames of
`produced_mel` stay and `melQueue` has the places where its chunks end; the vocoder
keeps what it last said and `met` collects the pairs of rows it blends.

*TtsText.* A text is a sequence of letters, a token the letters it spells; merges
are applied by rank, special tokens cut out first. A letter the pre-tokenizer cannot
read, a symbol without a token and a token without a row are refused where the code
throws. `plan_text()` and the layout of the prefill are separate operators, as in the
code. Halves are rounded by the code's shifts, on integers of their width, in both
forms of `FloatToHalf()`: the pipeline's, for the flow model, and the one of the speech
head and the vocoder, which differ in what they make of a NaN.

*LayaEngine.* Questions of a request are numbered in its order; an answer is "yes"
(among the allowed ones) or "no". `stage` is what the worker thread does next; a
turn of the loop is one step (`Round`), waiting for the batch lock another
(`SubmitAll`, `SubmitRound`), and waiting for futures a third (`Await`,
`AwaitFails`). The staged and the speculative loop differ only in when they submit
and are one set of actions; `speculative` is chosen at the start. A run of a core
(`threads`) resolves the future of an item and counts it as finished in two steps,
because the worker may act in between. `Schedule` says which placements the code
may choose: the longest items first, each on the least loaded of the cores whose
buckets it fits; lengths are small numbers, buckets too. A run holds the items it
still has to compute as a set and takes the soonest placed. `visit()` is modelled by what it
rejects, a question that is its own ancestor.

*LayaService.* `pending` is the counter; `queue` the executor's; a plan says to
which endpoint a request comes and what it asks. `completed()` runs before the
handler that waits for the same future, and the deadline may strike at any time,
also between the two. aiohttp does not cancel a handler whose client has gone, so a
disconnect is no step.

*LayaSequence, LayaAnswers.* A text is its number of tokens, a sequence the lengths
of its parts and the places of its markers. The model is external: a number for
every position of every question, which is a logit at an option's marker and
meaningless elsewhere. A dense backend computes all rows of the padded batch in one
call, the NPU one item at a time in any order; `Decode` may be called for any of
those that are done, which is more than `predict()` ever does. Temperatures are in
tenths; logits are not divided by them, since neither that nor the softmax changes
which is greatest.

*LayaParticipation.* A request is its candidates, its messages and its flags; a
candidate is a slot. The three predictors differ in the questions they ask and in
the checks that nothing is cut; `Reason` has the order of checks of
`decide_explained()`.

*LayaStartup, NpuRuntime.* The tables of the services file are layered as
`load_services` does; `Replace` is another installation. The contexts of a runtime
are opened in the order of the placement, each in two calls that may fail; a placement
may name a bucket twice for one core, and then the second context takes the place of
the first in `_rt`. A host is a loopback address, another one, or the empty string.

*ModelFiles, PaidCalls, TrainLoop, PipelineRun, RealEval, SmartHomeEval.* A step is
one write that others can see: a rename, an appended line, or a file opened and cut
short when the process is killed there (`Kill`). After it the command is run again
among what is there. A file is known by the revision, export, run or attempt that
wrote it. Scores, answers and what the network returns are chosen.

*Importers, TrainData.* A record is what the later stages ask of it: its options,
its gold, its label's mass as a set, its utterance, and an id that is the sequence
of what it came from. Random draws and hashes are chosen.

*Continuation, Episodes, TeamDrafts.* The right answer is fixed in
the plan; a writer's words are a text's meaning (whom it names, what it asks), and
may be other than asked. What the checks let pass becomes records.

*NpuBench, SideBySide.* Threads of the scripts, the runtimes they enter and the
rows they append; times are not there, only what runs within which measurement. What
the main thread of `laya_npu.py` does with a record is a program, a sequence of steps
(run here, hand over, wait for, stop the clock) that each schedule makes from the
record; the pool takes tasks beside it.

### Faults

What the environment may do is a constant set, so that each run says what it
assumes: for the ASR service a paused transport, and a recognizer that raises in
the constructor, at activation or in a thread; for TTS an abandoning client, a
report seen before earlier audio, a failing utterance, a silent and a dying
process; for the pipeline the threads that may throw; for LAYA inferences that
fail or never return. Lost connections are always possible in the ASR service. An
offline job can be killed before any write.

## 3. Runs

| Run | Checks | Bounds and why they are enough |
|---|---|---|
| `asr_capacity` | all invariants of `AsrCapacity` and that it implements `AsrAdmission` | 2 slots, 3 queue places, 6 leases, 2 connections for 3 handlers: full house, full queue, refusal, hand-over past a released waiter, arrival after departures. The proofs lift every property to all values. |
| `asr_service` | `RepliesInOrder`, `SlotsAccounted`; `Isolated`, `FinalHearsAll`; `StartsAsConfigured` | 3 clients, 3 connections, 1 slot, 1 queue place, 2 packets, 2 leases: holder, waiter and a refused third start at once, a promotion against a timeout, a client that reads slowly. A third lease would be one that starts after another is over; what becomes of it is decided by the capacity manager alone, which is checked with 6 leases and proved for any number. The backend: 2 sessions, chunks of 2 units, up to 5 units, every remainder and every configuration of passes. The start: 4 CPUs, lists with every form of part, limits at and beyond their bounds |
| `asr_service_live` | `FinalCoversAudio`, `NoStranded` and, under fairness, `HandlerReturns`, `QueuedResolves`, `DisconnectFreesSlot` | 2 clients and leases, 2 packets (before, during and after the catch-up), every recognizer fault |
| `asr_service_stranded`, `asr_service_leak` | expected violations, section 4 | as above, one fault each |
| `tts_service` | `OwnUnlessGivenUp`, `AnsweredWhole`, `DrivesEngine` | 2 connections, 2 requests, 2 pieces, a pipe of 1 so that a writer blocks; four sets of faults: clients leave or cancel early; utterances fail with audio on its way and the process dies anywhere; it falls silent; each with reports that overtake audio; and it fails, dies or falls silent with reports in order |
| `tts_service_live` | `DeliveryEnds` under fairness | abandonment, silence, death and overtaking together; cancels left out, they change no waiting |
| `tts_service_abandoned`, `tts_service_cancel` | expected violations, section 4 | |
| `tts_pipeline` | `SpokenAsCut`, and `ThreadsReport` under fairness; `FlowContinuous`; `TextPrepared`; `ProcessOwned` | chunks of 3 with 2 ahead and up to 11 tokens: every remainder, queues smaller than a chunk so that both ends block, every thread may throw. Two utterances of up to 14 tokens through both flow graphs and padded vocoder windows. All texts of up to 5 letters over two, with every table of 3 merges; letters, symbols and tokens that are refused; contexts around each limit of the plan; halves around every change of exponent, subnormals, zero, infinity and NaN included |
| `laya_service` | `CoresSerial`, `AsksExactly`, `BacklogBounded`, and under fairness `EveryoneAnswered`; `DecisionsSound` | 3 requests, 2 at a time, 2 cores of which one has the larger bucket, a systemone request of 3 questions and participation requests behind it: skips of skips in both modes, a batch left running under the next request, a deadline and a new attempt, a full count, a cycle, options that do not fit. Batches of one to three out of eight questions of every type and form, six limits of which some cut head, options, state or closing token. Participation requests with every history of up to 3 messages, sizes at each limit, every answer |
| `laya_offline` | eleven properties, one or more modules each | two slices and three paid calls; two originals, two derivations, two passes; three epochs, two runs; two revisions, two exports; two attempts of a pipeline; households, scenarios and homes of two or three. Each is the smallest in which an interrupted run leaves something of an earlier one for a later one to find, and every branch is taken |

`CHECK_DEADLOCK FALSE` stands where the system really stops: every request made
and answered, the line reported, the job done, or the one call of a part returned.
In `asr_capacity`, `asr_service_live` and the two violation runs of the ASR service
connections come and go for ever and deadlock is checked.

*Fairness.* ASR: weak fairness of each handler's own steps and of each activation
task: the event loop runs what can run, pool threads return, timers fire and a
send completes or fails. Nothing is asked of clients. TTS: weak fairness of the
handlers, of each generator's steps (timers included) and of the two pipes being
read; nothing is asked of the process or of clients. That a send to a slow client
completes or fails is an assumption (the heartbeat of 30 s cuts a dead one off).
Pipeline: each thread is scheduled, the models answer and somebody reads the audio
(`TtsEngine` models the case where nobody does). LAYA: the worker thread, each core
while it does not hang, the handlers and the timers; a hung core is no fairness
violation but a step of its own (`Hang`). The offline jobs have no liveness
property: nothing restarts a job that was killed.

Every property of a passing run has a mutant in `PROJECT.json`: a changed
definition, kept beside the original in its module, under which the run finds the
property violated. A property that is a conjunction of several modules' properties
has one mutant all the same; its conjuncts are stated apart in the modules.

## 4. Disagreements met

- **A queued utterance can be left without activation** (`asr_service_stranded`).
  `start_activation()` runs after `await send(utterance_started)`. If the
  transport is paused there and the slot comes in that window, `lease.active` is
  already set and no task is made: slot held, no session, no `utterance_active`,
  and `end_utterance` ends in an error.
- **A session constructor that raises leaks a slot** (`asr_service_leak`). The
  lease is reserved before the context that would release it exists.
- **An abandoned utterance is heard by the next request**
  (`tts_service_abandoned`). The process goes on speaking; the next request reads
  the rest as its own and ends with the old report. The byte count still matches
  (`AnsweredWhole`), so the client cannot tell.
- **A cancel never stops the delivery it names** (`tts_service_cancel`).
  `deliver()` is awaited in the receive loop, so a cancel is read when there is
  nothing left to stop; the busy answer cannot occur either.

Also met while modelling, built into the models as they are, and excluded by no
property, or by a hypothesis that is named in the property:

- TTS: a report that is seen before audio already written meets a read of the tail
  that has to wait and raises RuntimeError (`ReportRead`); a process that exits
  before it is ready is noticed at the 120 s timeout only; nothing restarts a dead
  one. Ids named by a cancel that matches nothing stay for the connection's life.
- ASR: a client that holds a slot and sends nothing keeps it while its connection
  answers pings (`service.py:259`); one failing stream fails a whole bench level,
  whose close or timeout is no error `main()` catches; a probe does not check that
  its start was accepted.
- LAYA engine: the two modes differ for a request one of whose questions has
  options beyond the head budget: speculative it is refused as a whole, staged only
  if that question is called for (`Rejects`, `Round`). Options over 48 tokens and
  heads are cut without a word, which the `laya` predictor, alone of the three,
  does not check (`ReadsWhole`). A `max_len` just above the last marker cuts that
  option's text and the closing token, unreported when the state is empty
  (`ReadBeforeAnswered`). Labels repeated in a list collapse into one option.
- TTS, given up: what `tts_service_abandoned` shows of a client that leaves happens
  also after a timeout of `synthesize()` and after a report that is seen before audio
  written earlier (`GivenUp`): the turn passes on, and the rest, or the late report, is
  taken for the next request's.
- TTS, half floats: a NaN becomes infinity on its way to the flow model and stays one
  on its way to the speech head and the vocoder (`HalfIsNearest`).
- ASR start: `doctor` says "ok" where onnxruntime is missing, with an empty list of
  providers, and never imports funasr_onnx, so its "ok" is of the files only
  (`DoctorTellsOfFiles`); the ImportError of a later `serve` is no error `main()`
  catches. A CPU list of blanks and commas alone is refused, a blank one is not set.
- LAYA start: `doctor` checks no file of an rknn service and no tokenizer of an onnx
  one, so "ready" can precede a serve that refuses. `is_loopback("")` is true, while
  aiohttp binds an empty host to every interface, so `validate_exposure()` ("Refuse to
  listen beyond loopback without a key", `config.py:153`) lets an empty host listen
  beyond without one (`AnsweredToKey` names the case).
- NPU loading: contexts stay open when the embeddings fail to load after them
  (`LoadHeads`). A placement with a bucket twice for one core, which `parse_placement()`
  accepts, leaves the first of the two contexts in nobody's hands (`Replaced`): no path
  closes it, not the one after a failure either, and the original it may share weights
  with can be closed under it.
- Model files: a torch file generated from the manifest and cut short makes every
  command fail until removed; `export_npu --force` killed while deleting can leave
  a record that says "already exported"; a repinned and interrupted fetch leaves
  files of two revisions that loading accepts (`TorchSound` says "a pinned one").
- Paid calls: between send and append of `glm_generate.py` a crash buys the same
  episodes again; a `v7` pair interrupted one call below its limit is never
  finished; an unparseable `v5` generation stops every later slice in each run.
- Training: a first epoch whose score is NaN stays the best (`PackagesTheBest` has
  the hypothesis); a stage that raises is in no manifest, `continue_on_error` or
  not; without a baseline the gate is skipped and an old gate file stays.
- Evaluation: `run_eval.py` killed between its two files leaves predictions and
  summary of two runs; the policy metrics miss the branch `execute_unverified` in
  what they say sums to one; homonym contexts make counterparts with the id of
  their original, dropped as duplicates while the counts include them.
- `concurrency.py`: a team thread whose call raises leaves "both" looping for ever.
- `ip-team-v3`: flags of a slice are not checked against its id, and every paid
  answer to such a slice is refused (`Coherent`).

## 5. Proofs

`AsrCapacityProofs` proves of `AsrCapacity`, for every set of leases and handlers
and every number of slots, queue places and connections (`CapacityAssumption`,
which is weaker than what `Settings` checks): `TypeOK`, `BookkeepingExact` (slots,
waiters, positions and connections), `NoIdleSlot`, `ReadyTellsTruth`, and that
every behaviour is one of `AsrAdmission`.

The argument: `LeaseInv` is the conjunction of the lease properties, and none of
them is inductive alone. `SlotsExact` needs to know that whom a release promotes
holds nothing yet (`WaitersExact`); that the promotion finds somebody whenever
the queue is not empty needs `ReadyTellsTruth` (no waiter's future is cancelled);
`NoIdleSlot` needs that the release of a waiter does not touch the counter; and
`WaitersExact` needs the queue to be free of repetitions for `remove()` to remove
the lease. The lemmas say what each operation does to the sequence: an element
taken out of the middle (`RemoveFirstOfDistinct`), the head taken off, a newcomer
appended. The refinement maps `line` to `waiters` and `gone` to `released`; that
`reserve()` may take a free slot without looking at the queue is a step of
`AsrAdmission` only because of `NoIdleSlot`, which is why the invariant comes
first. The proofs of the sequence lemmas are elementary: no induction over data is
used.

`ProcessProofs` proves of `AsrBackend`, for any set of sessions, any chunk size,
any length of audio and any passes (`BackendAssumption`): `Isolated` and
`FinalHearsAll`. The inductive invariant is `BackendTypeOK` with `LockInv` (the lock
is held by exactly the thread inside it, and the shared frontend is that thread's
between the two assignments and nobody's otherwise: without it no step of `infer()`
can be said to hear the right session), `HeardInv` (the conjuncts of `Isolated` and
what a session has yet to pass on) and `CallInv` (where a call is says what is left
of its audio).

`TtsPipelineProofs` proves `SpokenAsCut` of `TtsPipeline`, for every chunk, lookahead
and overlap, every capacity of the two queues, every limit of the line and any set of
threads that may throw (`PipelineAssumption`). What is left in the queues when the
threads are over says nothing by itself, so the invariant `PipeInv` relates what each
thread has seen to what the thread before it has made, at every step: `ClosedInOrder`
(a queue is closed only by the thread that fills it, when that thread is over),
`TokensKept` (every token is at hand, in the queue or about to be pushed), `CutRight`
(the i-th chunk is the i-th piece of what has arrived so far, and stays so when more
arrives, because it was cut with its whole lookahead or at the end), `ChunksKept` and
`AudioKept` (the audio is that of the chunks vocoded, the overlap kept back once). An
error closes queues early and breaks all of these, so they are claimed while `threw` is
empty; what is claimed regardless is that each thread is in its own code
(`Places`, `PipelineTypes`) and that a FAIL has a cause (`Reported`). The number of
chunks then follows from arithmetic (`Pieces`): n tokens fill exactly the chunks
`Cutting(n)` names.

The same module proves `FlowIsContinuous` (`FlowContinuous` of `TtsFlow`), for any
chunk, token cache, overlap, sets of buckets and numbers of tokens, any number of
utterances of one process, and whichever of them fail. What a model is shown is right
only if the cache it reads is, and which cache that is changes with every hand-over, so
`FlowInv` follows the caches: `HasTokens` and `HasFrames` say, without mentioning the
state, what a cache holds that has seen an utterance up to some token or frame, and two
lemmas that one more run takes it from there to the end of what was run, be the cache
still filling, full, or given a part shorter than a chunk. `EncoderRight`,
`ProfileRight` and `GraphRight` claim this of the encoder, of the profile, and of the
one graph that runs next: of the other nothing is true in general, and nothing has to
be. `LoopRight` has what that needs of the loop: in the steady graph the flow model may
be up to two chunks behind the encoder, and the parts that wait end where the encoder is
(`PartsWait`). `MelRight` and `QueueRight` take the frames to the vocoder, `NextCut`
naming where a chunk of them may end; each is a whole chunk, two, or the last of its
utterance, which is why the vocoder's new frames fill its overlap again in every call
but the last, and why context, cache and source are the same rows (`VocoderRight`).
`FlowAssumption` has the constants as in the source: the prompt is two chunks and the
flow cache's recent frames two chunks, the token cache is larger than the prompt, the
overlap is no longer than a chunk, and there is a bucket for a chunk, for a chunk with
its overlap and, where two chunks are made at once, for those.

`AsrServiceProofs` proves of `AsrService`, for any number of connections, leases,
slots and places and any length of utterance, that it drives the manager as the
manager's own specification has it (`UsesManager`), so that every theorem of
`AsrCapacityProofs` holds inside it (`ManagerPromisesHold`), and of the service
itself `FinalCoversAudio`, `RepliesInOrder`, `SlotsAccounted` and `NoStranded`. The
inductive invariant has a part for each thing a connection relies on: `LeaseOwned`
(one context per lease), `TaskInPlace` (who holds the state lock and how far the
activation task may be, given where the handler is; the two share every other
variable), `AudioKept` (each packet is in the session, among the chunks being caught
up, in the buffer, or the one in hand) and `WireInOrder` with `WireFollows` (what was
said so far, and so what may be said next). `SlotsAccounted` assumes that a
constructor does not fail and `NoStranded` that announcing a start does not suspend,
as in section 4 exactly these faults break them; everything else holds under
every fault.

`LayaServiceProofs` proves of `LayaEngine` with `LayaService`, for any cores,
buckets, batch of requests and limit, `CoresSerial`, `AsksExactly` and
`BacklogBounded`, and two action properties: a future that is resolved keeps what it
says, and so does a finished request. The invariant `LayaInv` has a part per owner.
`PoolRight` is the batch (the lock is held exactly while a run is left; the count of
what is left is that of items computed and not). `WorkerRight` is what the worker
thread knows of its request (`Settled`: what is answered was called for, what is
skipped was not, and the rest is still to do). `DecisionsRight` says of finished
requests what they were told, and must speak of their futures, which a batch may
still be resolving. `ServiceRight` counts places: the counter equals the number of
requests that hold one, which is a different set in the two handlers. That both modes
answer alike comes out of `Settled`, where the order of asking does not occur.

The same module proves `DecisionsAreSound` (`DecisionsSound` of `LayaParticipation`),
for any questions with any number of options, texts of any length, any limits,
checkpoint, buckets and backend, and any answers of the model. Three lemmas carry it.
`BuiltIs` is about `build_sequence()`: the place of a marker is the sum of what stands
before it, so the next marker comes right after the option's text and no two share a
place; and a state that fits the room left beside a head of at least one token is
there to its end with the closing token. `AtIs` and `RowIs` follow: because markers
ascend, the number at a marker is the option's and no neighbour's, and a row of any
width that starts with a question's own numbers, padded to whatever width the batch or
those decoded with it have, gives that question's answer (`DecodeIs`, which needs that
`argmax` of a row exists and is the first of equals, `ArgMaxIs`). `BuiltWhole` is the
arithmetic of `check_capacity()`: what it lets through is not cut. The invariants are
then short: `Running` has each item as `_prepare()` made it, each row empty or the
question's own, and each answer its own, whatever else is in the batch;
`ParticipationInv` says that a case is unread, refused, or read and answered, and what
is decided is the `Reason` of that choice. Assumed is what a definition, a limit and a
checkpoint's file are (`AnswersAssumption`) and that the model has a number for each
option, and that a participation state, which is a JSON object, has a token (`CaseOk`).

`TtsServiceProofs` proves of `TtsEngine`, and of `TtsService` on top of it, for any
connections, requests, length of audio, pipe and faults, `OwnUnlessGivenUp`,
`AnsweredWhole` and `DrivesEngine`. The engine is proved about on its own: the only
thing that ties a report to audio is a number, so `KeptApart` counts. While a line
is served, what was yielded, has arrived and is in the pipe together are what the process
wrote for this line (`Progress`), each piece at its place (`AudioInOrder`), and a
report that is on its way counts exactly that (`ReportsFit`); when the turn passes
on, nothing is left. That needs `Kept`, that nobody was given up: an abandoned
generator, one that is timed out, or one ended by a report that overtook its audio
passes the turn on while audio is still to come, and then the next holder reads it
(section 4). Each leaves its mark for good (`GivenUpStays`), which is why the property
can name it; all other faults, a failed utterance, a dead process, a report ahead of
audio that is then waited for, keep `KeptApart`. The service
then implements `EngineSpec`, so the engine's theorems hold in it, and `StreamInv`
adds the connections: `DeliveryRight` (one delivery per handler, of its own
request), `RepliesRight` (what each client was sent is one reply more than the pieces
its generator has yielded), `AskedOnce` and, where clients are polite, `Polite`.

`OfflineProofs` proves `MoneyWellSpent` of `PaidCalls`, for any slices, quota, limit
and calls per run, and `FilesOfOneModel` of `ModelFiles`, for any manifest, sets of
buckets, revisions and exports; both let a process be killed at any step. What
survives a kill is on disk, so the invariants speak of the disk. `PaidInv`: a call a
process is about to send is in the ledger and not paid for (`CallInHand`); the numbers
of a slice in the ledger are 1 to as many as there are, and every call still planned
comes after all before it (`RoundsPaid`), which is what makes counting the files
enough to find a number that is new; the ledger of the words has no number beyond
its size (`Numbered`). `FilesInv`: a torch file the fetch has passed is of the
revision asked for (`FetchRight`); an export that writes finds nothing of another in
its directory (`ExportRight`), because it deleted all of it, the record with the
rest; hence a record that is there vouches for files that are as its export wrote
them, or gone (`OnnxRight`), and whatever is whole in npu/, compiled graphs included,
is of one export (`OneExport`). No theorem needs the engine to look at a checksum.

Of `PipelineRun` it proves `RunMeansIt`, for any pipelines that `RunAssumption` admits
and any number of attempts killed anywhere in the same directory. What a completed
run made is of its last attempt although nothing is cleared between attempts and no
step asks whose file it reads; that is so because the pipelines are in order, which
the runner never checks. It comes out of `FilesInOrder`: a file is on disk only if
whatever reads it comes after something that writes it, since an evaluation or a
training step before its writer would have found nothing in the first attempt and
ended it. Then what a step reads was written in this attempt (`FilesOwn`).
`RunAssumption` says what the argument takes from the pipelines of `train/pipelines`:
a stage that opens its output before it reads does not read what it writes, an
evaluation writes none of the files, and no set is asked by two steps, whose gates
would share a file. Of `TrainLoop` it proves `TrainingSound`, for any number of items,
epochs, batch sizes, accumulations, warmups and scores, NaN included. `UpdatesCounted`
ties the count of updates to the epoch and the batch, and needs `CeilCeil`: rounding up to
batches and then to updates is rounding up once, which is why the schedule, which
counts examples, and the loop, which counts batches, agree; `BestSoFar` says which
epoch is the best and `SavedIsBest` what of it the two writes of a checkpoint have
put on disk.

Of `TrainData` it proves `DataSound`, for any generated records, confusions, teachers
and locked sets and any number of runs of augment. `DataInv` follows a label through
the stages (`Fits`: what has gold or mass is an option of its question), and
`GroupsJoin` says what `_split_groups()` returns: a division of the records in which
whoever shares a family or a state with another is with it. The groups are a
recursion over the records, so this is an induction, and it first needs that the
recursion has a solution at all (`GroupsAre`). An induction theorem that takes a
predicate cannot be instantiated, but well-foundedness of the numbers can be cited
for a set: `LeastNumber` and `AllNumbers` are the induction over sets used here.
`DataAssumption` has of the records what the importers' `_checked()` sees to.

Of `Importers` it proves `ImportedSound`, for any rows, any pairs that `pairs.yaml`
may hold and any order in which samples are drawn. In `GenInv`, `RowsCounted` counts
what is in hand: a row looked at was skipped, kept, or is in the pool of a first pass or
taken from it and still to be yielded (`InHand`), so nothing is missing when the
importer ends. `KeysSeen` says that a key in the file is a key seen, which MASSIVE needs
in two steps, as it sees the texts of its pool before it yields any of them;
`FileOfEarlier`, that an adapter finds nothing of its own in the file when it begins,
which is so because `ImportAssumption` has each configuration name an adapter that drops
duplicates once, as those of `train/scenarios` do. The attempt showed that `GoldOffered`
said too much: an authored query may have no gold, and it now claims an answer of
commands only.

`EvaluationProofs` EXTENDS `OfflineProofs` and proves what is measured and judged.
`EvaluationsHonest` is of three modules. In
`RealEval` (any events, labels, answers and thresholds) `SidesWritten` says that what is
still to be written has households on both sides and that each file written has its
own; the sides are a cut in the order of the hashes, and that two households are never
all on one side (`BothSides`) rests on the least and the greatest hash (`HashBounds`). A
pass is of a test that a manifest vouches for (`PassedOnFrozen`), and `SweepRight` is
about the policy as a function of the thresholds. In `SmartHomeEval` (any cases, homes,
models and answers) `WholeRight` says that a run finished since it was last begun has
the summary of its rows, and the sums of the comparison follow by counting: what one
model had right is what the other had, with the won and without the lost
(`WonAndLost`). In `PipelineRun` a gate's sign test counts the ways in which chance
breaks as many questions; with one question more there are the ways without it and
those with it (`OneMoreQuestion`), so one more right answer never lowers the
probability of chance, whatever the number of questions.

Of `SideBySide` it proves `MeasuredAsAgent`, for any cases, rounds and pairings. The
threads share only the list of rows and the clock, so `SideInv` says of each call that
was begun that it is a row, in flight, or ended its thread. Which calls overlap then
follows from when they began (`StartsApart`): a call alone ended before the next thread
was started, and of two that belong together each began before the other's row was
written (`AloneRight`, `BesideRight`). The file is the rows in the order of their starts,
which names each row once (`Places`).

Of `AsrClients` it proves `ClientsHonest`, for any number of streams, frames, slots,
places and connections. Neither client sees the service, only messages. `ClientsInv` says that
for each stream there is a log of all the service has said, of which the first n have been
taken and the rest are on their way (`BoxOk`); what a client noted down, or kept, is a
function of the n (`NotedOk`, `EventsOk`), and what the service is at, a function of the
log (`LogOk`). That a final is reported only after the end was sent, and covers every
frame, is then about one log. A percentile is the value at a rank; that there is one for
every rank comes from the least value with enough at or below it (`LeastNumber`).

Of `NpuBench` it proves `BenchHonest`, for any gate that asks two questions at most
after its first, any records, buckets and numbers of sets. It is in two halves. The
first has no steps in it: of the seven schedules' programs it says that a question is asked
once and waited for, that a runtime used again was waited for in between, and that the
clock stops behind the answers that are called for (`ProgramOk`; `ProgramSound` for all
schedules), which rests on what a comprehension keeps (`AmongIs`), on cores and buckets
that differ (`CoresApart`, `BucketThere`), and on what is loaded. The second does not know the
schedules: whatever the threads do, a task is in one place, was begun by a step the main
thread has come to, and has no answer yet (`TasksOk`). Two tasks in one runtime would be
of two steps, and the earlier would have been waited for (`NoRuntimeTwice`). With the two
before it is `MeasurementsAreHonest`.

`ProcessProofs` proves also of the four modules in which something comes up or fails to.
`ServiceOwnsProcess` (`ProcessOwned` of `TtsLifecycle`, any CPU sets and texts): the
invariant adds that a ready line in the pipe or read was written by a warm process
(`ReadyLineMeans`), where the handle is held (`HandleRight`), and that what is known to
have exited has (`GoneIsGone`). `ServesAsTold` (`LaunchedAsTold` of `LayaStartup`, any
services files, disks and command lines with the flags `serve` has): the settings are
read once and files may be replaced at any later moment, so `ConfigRight` ties the
engine to what file and flags said, and `ReplyRight` every answer to the settings that
serve; that a host other than a loopback address is answered to the key alone has the
exception of the empty host in it. `AsrStartsRight` (two of the three conjuncts of
`StartsAsConfigured`, any environment, CPUs and limits, loaders that raise): what is
still to be loaded, with what is loaded, is the plan of `_load_backend()`
(`LoadingRight`), each part was verified before, and what `doctor` said of the files is
still so of the settings that serve (`ReportRight`).
`NpuLoadsOrGivesBack` (`NpuLoadSound` of `NpuRuntime`, any compiled buckets and any
placement): in `_rt` an original stands before its duplicates, and nothing else of its
bucket is an original (`OriginalsFirst`), so closing from the back never takes weights
from under a duplicate `_rt` holds; and what is alive is what `_rt` and the hand hold or
what a place visited twice has lost (`AliveRight`), so nothing else is left when `_rt`
is empty.

Model-checked only: liveness and everything that needs ENABLED, which are beyond the
prover, and with it the four expected violations; what recursive operators compute,
which the prover cannot read, or folds (`ParsersAgree`, the two parsers of a CPU list;
`TextPrepared`, the tokenizer); and data made from plans (`ScriptedSound`: conversations, episodes, drafts).

## 6. Not modelled

- Numbers: inference, gradients and losses, audio arithmetic, sampling, percentages
  and latencies. A model is external and answers anything.
- Wording: prompts, judgements of texts by rule lists, table layout, logging.
- The tokenizer library, the vendor NPU runtime, aiohttp and asyncio themselves,
  which are modelled by what the code relies on.
- Shutdown of the servers, which cancels handlers; malformed messages of the TTS
  service, answered without a change of state.
- jevk5 (offline experiments with vendored model code), the unit files, the
  deployment and operator scripts (one-shot commands), the data files.
- Of the scripts of `laya/train/scenarios`: statistics, hand-over to annotators and
  the review rules of the later teams. Of the chat launcher: its command line.

## 7. Plan

1. Proofs about data made from plans: conversations, episodes, drafts.
2. Server shutdown in `AsrService` and `TtsService`.
3. `jevk5` and the deployment scripts, if they come to keep state.
