------------------------------ MODULE AsrBackend ------------------------------
(***************************************************************************)
(* eidolon_models_asr/backend.py: FunASROnnxBackend, one model that every  *)
(* FunASROnnxSession shares.  The model object keeps its frontend (the     *)
(* streaming state of the audio) as an attribute; infer() puts the         *)
(* session's own frontend there and the previous one back, under _lock.    *)
(*                                                                         *)
(* feed_pcm16() and finish() run in threads of the service's pool, one at  *)
(* a time for a session, several sessions at once; the thread of a call    *)
(* whose waiter was cancelled runs on.  Audio is counted in units, and a   *)
(* frontend is known by the session it was made for.                       *)
(***************************************************************************)
EXTENDS Integers

CONSTANTS
  Sessions,    (* FunASROnnxSession objects                               *)
  ChunkSize,   (* chunk_samples, in units                                 *)
  MaxAudio,    (* bound on the audio of one utterance                     *)
  Free         (* a lock without holder; also the model's own frontend    *)

ASSUME BackendAssumption ==
  /\ ChunkSize \in Nat \ {0}
  /\ MaxAudio \in Nat
  /\ Free \notin Sessions

VARIABLES
  passes,      (* the recognizers of the final text that are configured   *)
  mutex,       (* the thread in _lock                                     *)
  punctuating, (* the thread in the lock of the punctuation model         *)
  frontend,    (* _model.frontend                                         *)
  previous,    (* previous_frontend of each thread in infer()             *)
  own,         (* state._frontend of each session                         *)
  heard,       (* units of each session's audio a frontend has heard      *)
  job,         (* where the thread of each session is                     *)
  final,       (* sessions with _finished set                             *)
  raised,      (* sessions whose infer() is leaving by an exception       *)
  audio,       (* _audio_samples                                          *)
  pending,     (* _pending                                                *)
  chunk,       (* audio handed to infer() and not yet to the model        *)
  answer       (* the final text: which pass it is of, the audio covered  *)

sharedVars == <<mutex, punctuating, frontend>>
backendVars == <<passes, mutex, punctuating, frontend, previous, own, heard, job, final,
                 raised, audio, pending, chunk, answer>>

Unheard == [t \in Sessions |-> 0]
NoAnswer == [pass |-> "none", units |-> 0]

BackendInit ==
  /\ passes \in SUBSET {"offline", "punctuation"}
  /\ mutex = Free /\ punctuating = Free /\ frontend = Free
  /\ previous = [s \in Sessions |-> Free]
  /\ own = [s \in Sessions |-> s]
  /\ heard = [f \in Sessions \union {Free} |-> Unheard]
  /\ job = [s \in Sessions |-> "none"]
  /\ final = {} /\ raised = {}
  /\ audio = [s \in Sessions |-> 0]
  /\ pending = [s \in Sessions |-> 0]
  /\ chunk = [s \in Sessions |-> 0]
  /\ answer = [s \in Sessions |-> NoAnswer]

Goes(s, place) == job' = [job EXCEPT ![s] = place]

\* A new utterance, with a frontend and a cache of its own.
NewSession(s) ==
  /\ job[s] = "none"
  /\ Goes(s, "idle")
  /\ UNCHANGED <<sharedVars, previous, own, heard, final, raised, audio, pending, chunk, answer>>

\* The service is done with it, at its end, after a failure or half-way.
Discard(s) ==
  /\ job[s] \in {"idle", "done", "failed"}
  /\ Goes(s, "none")
  /\ own' = [own EXCEPT ![s] = s]
  /\ heard' = [heard EXCEPT ![s] = Unheard]
  /\ final' = final \ {s} /\ raised' = raised \ {s}
  /\ audio' = [audio EXCEPT ![s] = 0]
  /\ pending' = [pending EXCEPT ![s] = 0]
  /\ chunk' = [chunk EXCEPT ![s] = 0]
  /\ answer' = [answer EXCEPT ![s] = NoAnswer]
  /\ UNCHANGED <<sharedVars, previous>>

\* The loop of feed_pcm16(), with n units pending: a whole chunk to infer(),
\* or the rest kept for the next call.
TakeChunk(s, n) ==
  LET size == IF n >= ChunkSize THEN ChunkSize ELSE 0
  IN /\ Goes(s, IF size > 0 THEN "infer" ELSE "idle")
     /\ chunk' = [chunk EXCEPT ![s] = size]
     /\ pending' = [pending EXCEPT ![s] = n - size]

FeedPcm16(s, n) ==
  /\ job[s] = "idle"
  /\ audio[s] + n <= MaxAudio
  /\ audio' = [audio EXCEPT ![s] = @ + n]
  /\ TakeChunk(s, pending[s] + n)
  /\ UNCHANGED <<sharedVars, previous, own, heard, final, raised, answer>>

\* Mutant: only what fills a chunk is inferred, what is left over is not.
FinishDropsRest(s) ==
  /\ job[s] = "idle"
  /\ Goes(s, "infer")
  /\ final' = final \union {s}
  /\ chunk' = [chunk EXCEPT ![s] = 0]
  /\ pending' = [pending EXCEPT ![s] = 0]
  /\ UNCHANGED <<sharedVars, previous, own, heard, raised, audio, answer>>

Finish(s) ==
  /\ job[s] = "idle"
  /\ Goes(s, "infer")
  /\ final' = final \union {s}
  /\ chunk' = [chunk EXCEPT ![s] = pending[s]]
  /\ pending' = [pending EXCEPT ![s] = 0]
  /\ UNCHANGED <<sharedVars, previous, own, heard, raised, audio, answer>>

-----------------------------------------------------------------------------
(* infer() *)

\* Mutant: the frontend is swapped without the lock.
EnterInferUnlocked(s) ==
  /\ job[s] = "infer"
  /\ mutex' = s
  /\ previous' = [previous EXCEPT ![s] = frontend]
  /\ frontend' = own[s]
  /\ Goes(s, "model")
  /\ UNCHANGED <<punctuating, own, heard, final, raised, audio, pending, chunk, answer>>

EnterInfer(s) ==
  /\ job[s] = "infer"
  /\ mutex = Free
  /\ mutex' = s
  /\ previous' = [previous EXCEPT ![s] = frontend]
  /\ frontend' = own[s]
  /\ Goes(s, "model")
  /\ UNCHANGED <<punctuating, own, heard, final, raised, audio, pending, chunk, answer>>

\* The model hears the chunk through whatever frontend it has now.
RunModel(s) ==
  /\ job[s] = "model"
  /\ heard' = [heard EXCEPT ![frontend][s] = @ + chunk[s]]
  /\ chunk' = [chunk EXCEPT ![s] = 0]
  /\ Goes(s, "leave")
  /\ UNCHANGED <<sharedVars, previous, own, final, raised, audio, pending, answer>>

\* ... or raises, having heard some of it.
ModelRaises(s) ==
  /\ job[s] = "model"
  /\ \E n \in 0..chunk[s] : heard' = [heard EXCEPT ![frontend][s] = @ + n]
  /\ raised' = raised \union {s}
  /\ Goes(s, "leave")
  /\ UNCHANGED <<sharedVars, previous, own, final, audio, pending, chunk, answer>>

\* Where the thread goes on: the error passes through feed_pcm16() or
\* finish(), finish() turns to the second pass, feed_pcm16() to its loop.
Continues(s) ==
  \/ s \in raised /\ Goes(s, "failed") /\ UNCHANGED <<pending, chunk>>
  \/ s \notin raised /\ s \in final /\ Goes(s, "second") /\ UNCHANGED <<pending, chunk>>
  \/ s \notin raised /\ s \notin final /\ TakeChunk(s, pending[s])

\* The finally clause and the release of the lock.
LeaveInfer(s) ==
  /\ job[s] = "leave"
  /\ own' = [own EXCEPT ![s] = frontend]
  /\ frontend' = previous[s]
  /\ mutex' = Free
  /\ Continues(s)
  /\ UNCHANGED <<punctuating, previous, heard, final, raised, audio, answer>>

-----------------------------------------------------------------------------
(* The rest of finish() *)

Text(pass, n) == [pass |-> pass, units |-> n]

\* Without an offline recognizer the streaming text stands.
NoSecondPass(s) ==
  /\ job[s] = "second"
  /\ "offline" \notin passes
  /\ answer' = [answer EXCEPT ![s] = Text("streaming", heard[own[s]][s])]
  /\ Goes(s, "punctuate")
  /\ UNCHANGED <<sharedVars, previous, own, heard, final, raised, audio, pending, chunk>>

RecognizeOffline(s) ==
  /\ job[s] = "second"
  /\ "offline" \in passes
  /\ mutex = Free
  /\ mutex' = s
  /\ Goes(s, "offline")
  /\ UNCHANGED <<punctuating, frontend, previous, own, heard, final, raised, audio, pending, chunk, answer>>

\* An empty text of the second pass leaves the streaming text.
OfflineEnds(s) ==
  /\ job[s] = "offline"
  /\ mutex' = Free
  /\ \/ Goes(s, "failed") /\ UNCHANGED answer
     \/ /\ Goes(s, "punctuate")
        /\ answer' = [answer EXCEPT ![s] =
             IF audio[s] > 0 THEN Text("offline", audio[s]) ELSE Text("streaming", heard[own[s]][s])]
     \/ /\ Goes(s, "punctuate")
        /\ answer' = [answer EXCEPT ![s] = Text("streaming", heard[own[s]][s])]
  /\ UNCHANGED <<punctuating, frontend, previous, own, heard, final, raised, audio, pending, chunk>>

\* Empty text, or no punctuation model, is returned as it is.
NotPunctuated(s) ==
  /\ job[s] = "punctuate"
  /\ "punctuation" \in passes => answer[s].units = 0
  /\ Goes(s, "done")
  /\ UNCHANGED <<sharedVars, previous, own, heard, final, raised, audio, pending, chunk, answer>>

Restore(s) ==
  /\ job[s] = "punctuate"
  /\ "punctuation" \in passes
  /\ punctuating = Free
  /\ punctuating' = s
  /\ Goes(s, "restoring")
  /\ UNCHANGED <<mutex, frontend, previous, own, heard, final, raised, audio, pending, chunk, answer>>

Restored(s) ==
  /\ job[s] = "restoring"
  /\ punctuating' = Free
  /\ Goes(s, "done") \/ Goes(s, "failed")
  /\ UNCHANGED <<mutex, frontend, previous, own, heard, final, raised, audio, pending, chunk, answer>>

-----------------------------------------------------------------------------
SessionStep(s) ==
  \/ NewSession(s) \/ Discard(s)
  \/ (\E n \in 1..MaxAudio : FeedPcm16(s, n)) \/ Finish(s)
  \/ EnterInfer(s) \/ RunModel(s) \/ ModelRaises(s) \/ LeaveInfer(s)
  \/ NoSecondPass(s) \/ RecognizeOffline(s) \/ OfflineEnds(s)
  \/ NotPunctuated(s) \/ Restore(s) \/ Restored(s)

BackendNext == UNCHANGED passes /\ \E s \in Sessions : SessionStep(s)

BackendSpec == BackendInit /\ [][BackendNext]_backendVars

-----------------------------------------------------------------------------
Places == {"none", "idle", "infer", "model", "leave", "second", "offline",
           "punctuate", "restoring", "done", "failed"}

BackendTypeOK ==
  /\ mutex \in Sessions \union {Free} /\ punctuating \in Sessions \union {Free}
  /\ frontend \in Sessions \union {Free}
  /\ previous \in [Sessions -> Sessions \union {Free}]
  /\ own \in [Sessions -> Sessions \union {Free}]
  /\ heard \in [Sessions \union {Free} -> [Sessions -> Nat]]
  /\ job \in [Sessions -> Places]
  /\ final \subseteq Sessions /\ raised \subseteq Sessions
  /\ audio \in [Sessions -> Nat] /\ pending \in [Sessions -> Nat] /\ chunk \in [Sessions -> Nat]
  /\ answer \in [Sessions -> [pass : {"none", "streaming", "offline"}, units : Nat]]

(* "Isolated streaming state per utterance": no frontend hears another
   session's audio, a session gets back the frontend it was made with, the
   model its own, whatever the threads do and whichever of them raises; and
   a session that has not failed has heard all it was fed but what it has
   yet to pass on. *)
Isolated ==
  /\ mutex = Free => frontend = Free
  /\ \A s \in Sessions : own[s] = s
  /\ \A f \in Sessions \union {Free}, s \in Sessions : f # s => heard[f][s] = 0
  /\ \A s \in Sessions \ raised : heard[s][s] = audio[s] - pending[s] - chunk[s]

(* The text finish() returns covers the whole utterance, by either pass. *)
FinalHearsAll == \A s \in Sessions : job[s] = "done" => answer[s].units = audio[s]

=============================================================================
