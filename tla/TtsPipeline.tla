----------------------------- MODULE TtsPipeline -----------------------------
(***************************************************************************)
(* cosyvoice2_streaming_pipeline.cpp, synthesize(): how the TTS process    *)
(* says one line.  The language model (llm) makes speech tokens, the flow  *)
(* model (flow) turns chunks of them into Mel frames, the vocoder (hift)   *)
(* turns those into audio.  Each is a thread; two bounded queues connect   *)
(* them, and main joins the three and reports.                             *)
(*                                                                         *)
(* Tokens are counted: the i-th made is the i-th taken.  A chunk is the    *)
(* range of tokens it stands for, and frames and samples are counted in    *)
(* the tokens they are worth.  This is the configuration the service runs: *)
(* precomputed prompt, no steady flow model, no batching in the vocoder.   *)
(***************************************************************************)
EXTENDS Integers, Sequences

CONSTANTS
  Chunk,                (* kChunkTokens                                   *)
  Lookahead,            (* kLookaheadTokens                               *)
  Overlap,              (* kSourceCacheSamples, in tokens                 *)
  MinTokens, MaxTokens, (* min_tokens and max_tokens of this line         *)
  Spare,                (* model calls allowed beyond max_tokens          *)
  TokenCap, MelCap,     (* token_queue_capacity, mel_queue_capacity       *)
  Fragile               (* the threads in which something may throw       *)

Threads == {"llm", "flow", "hift"}

ASSUME PipelineAssumption ==
  /\ Chunk \in Nat \ {0} /\ Lookahead \in Nat \ {0} /\ Overlap \in 0..Chunk
  /\ MinTokens \in Nat /\ MaxTokens \in Nat /\ MinTokens < MaxTokens
  /\ Spare \in Nat
  /\ TokenCap \in Nat \ {0} /\ MelCap \in Nat \ {0}
  /\ Fragile \subseteq Threads

VARIABLES
  at,            (* where each thread is                                  *)
  threw,         (* threads that recorded an error                        *)
  report,        (* what main reported                                    *)
  generated,     (* number of generated_tokens                            *)
  calls,         (* body_calls                                            *)
  tokens,        (* tokens in token_queue                                 *)
  tokensClosed,
  available,     (* tokens the flow thread has taken                      *)
  producerClosed,
  next,          (* next_start                                            *)
  produced,      (* produced_mel                                          *)
  mels,          (* chunks in mel_queue                                   *)
  melsClosed,
  heard,         (* chunks the vocoder has taken                          *)
  pcm            (* size of waveform, all of it written                   *)

llmVars == <<generated, calls>>
flowVars == <<available, producerClosed, next, produced>>
hiftVars == <<heard, pcm>>
vars == <<at, threw, report, generated, calls, tokens, tokensClosed, available,
          producerClosed, next, produced, mels, melsClosed, heard, pcm>>

Init ==
  /\ at = [llm |-> "sampling", flow |-> "collecting", hift |-> "waiting"]
  /\ threw = {}
  /\ report = "none"
  /\ generated = 0 /\ calls = 1
  /\ tokens = 0 /\ tokensClosed = FALSE
  /\ available = 0 /\ producerClosed = FALSE /\ next = 0 /\ produced = <<>>
  /\ mels = <<>> /\ melsClosed = FALSE
  /\ heard = <<>> /\ pcm = 0

Goes(t, where) == at' = [at EXCEPT ![t] = where]

-----------------------------------------------------------------------------
(* llm_thread *)

MayGenerate == generated < MaxTokens /\ calls <= MaxTokens + Spare

\* A speech token, not yet in the queue.
Sample ==
  /\ at["llm"] = "sampling"
  /\ MayGenerate
  /\ generated' = generated + 1
  /\ Goes("llm", "pushing")
  /\ UNCHANGED <<threw, report, calls, tokens, tokensClosed, flowVars, mels, melsClosed, hiftVars>>

\* A special token: the model is called again with what it said last.
SampleAgain ==
  /\ at["llm"] = "sampling"
  /\ MayGenerate
  /\ calls' = calls + 1
  /\ UNCHANGED <<at, threw, report, generated, tokens, tokensClosed, flowVars, mels, melsClosed, hiftVars>>

\* BoundedQueue::Push blocks while the queue is full and open.
PushToken ==
  /\ at["llm"] = "pushing"
  /\ ~tokensClosed /\ tokens < TokenCap
  /\ tokens' = tokens + 1
  /\ calls' = IF generated < MaxTokens THEN calls + 1 ELSE calls
  /\ Goes("llm", "sampling")
  /\ UNCHANGED <<threw, report, generated, tokensClosed, flowVars, mels, melsClosed, hiftVars>>

\* The end of the loop: the end-of-speech token, which is not sampled before
\* min_tokens, a limit, or a queue that was closed.  Then token_queue.Close().
LlmEnds ==
  /\ \/ at["llm"] = "sampling" /\ (~MayGenerate \/ generated >= MinTokens)
     \/ at["llm"] = "pushing" /\ tokensClosed
  /\ tokensClosed' = TRUE
  /\ Goes("llm", "over")
  /\ UNCHANGED <<threw, report, llmVars, tokens, flowVars, mels, melsClosed, hiftVars>>

-----------------------------------------------------------------------------
(* flow_thread *)

Remaining == available - next

CanRun == Remaining >= Chunk + Lookahead \/ (producerClosed /\ Remaining > 0)

TakeToken ==
  /\ at["flow"] = "collecting"
  /\ ~CanRun
  /\ tokens > 0
  /\ tokens' = tokens - 1
  /\ available' = available + 1
  /\ UNCHANGED <<at, threw, report, llmVars, tokensClosed, producerClosed, next, produced, mels, melsClosed, hiftVars>>

\* Pop() finds the queue closed and empty.  With nothing left over the loop
\* ends and the thread closes mel_queue.
TokensEnd ==
  /\ at["flow"] = "collecting"
  /\ ~CanRun
  /\ tokens = 0 /\ tokensClosed
  /\ producerClosed' = TRUE
  /\ \/ /\ available = next
        /\ melsClosed' = TRUE
        /\ Goes("flow", "over")
     \/ /\ available # next
        /\ UNCHANGED <<melsClosed, at>>
  /\ UNCHANGED <<threw, report, llmVars, tokens, tokensClosed, available, next, produced, mels, hiftVars>>

Smaller(a, b) == IF a <= b THEN a ELSE b

\* Mutant: a chunk is final if it uses up the tokens at hand.
RunChunkFinalEarly ==
  /\ at["flow"] = "collecting"
  /\ CanRun
  /\ LET to == next + Smaller(Chunk, Remaining)
     IN produced' = Append(produced,
          [from |-> next, to |-> to, ahead |-> Smaller(Lookahead, available - to),
           final |-> to + Smaller(Lookahead, available - to) = available])
  /\ Goes("flow", "pushing")
  /\ UNCHANGED <<threw, report, llmVars, tokens, tokensClosed, available, producerClosed, next, mels, melsClosed, hiftVars>>

\* Encoder and flow model over the next chunk and what may be looked ahead.
RunChunk ==
  /\ at["flow"] = "collecting"
  /\ CanRun
  /\ LET to == next + Smaller(Chunk, Remaining)
     IN produced' = Append(produced,
          [from |-> next, to |-> to, ahead |-> Smaller(Lookahead, available - to),
           final |-> producerClosed /\ to = available])
  /\ Goes("flow", "pushing")
  /\ UNCHANGED <<threw, report, llmVars, tokens, tokensClosed, available, producerClosed, next, mels, melsClosed, hiftVars>>

Newest == produced[Len(produced)]

PushMel ==
  /\ at["flow"] = "pushing"
  /\ ~melsClosed /\ Len(mels) < MelCap
  /\ mels' = Append(mels, Newest)
  /\ next' = Newest.to
  /\ Goes("flow", "collecting")
  /\ UNCHANGED <<threw, report, llmVars, tokens, tokensClosed, available, producerClosed, produced, melsClosed, hiftVars>>

\* The queue was closed, by an error: the loop ends.
PushMelRefused ==
  /\ at["flow"] = "pushing"
  /\ melsClosed
  /\ Goes("flow", "over")
  /\ UNCHANGED <<threw, report, llmVars, tokens, tokensClosed, flowVars, mels, melsClosed, hiftVars>>

-----------------------------------------------------------------------------
(* hift_thread *)

TakeMel ==
  /\ at["hift"] = "waiting"
  /\ mels # <<>>
  /\ heard' = Append(heard, Head(mels))
  /\ mels' = Tail(mels)
  /\ Goes("hift", "vocoding")
  /\ UNCHANGED <<threw, report, llmVars, tokens, tokensClosed, flowVars, melsClosed, pcm>>

\* After the first call the overlap kept of the last one is part of the
\* input; unless the chunk is final the overlap at its end is kept back.
Vocode ==
  /\ at["hift"] = "vocoding"
  /\ LET c == heard[Len(heard)]
     IN pcm' = pcm + (c.to - c.from)
                   + (IF Len(heard) > 1 THEN Overlap ELSE 0)
                   - (IF c.final THEN 0 ELSE Overlap)
  /\ Goes("hift", "waiting")
  /\ UNCHANGED <<threw, report, llmVars, tokens, tokensClosed, flowVars, mels, melsClosed, heard>>

MelsEnd ==
  /\ at["hift"] = "waiting"
  /\ mels = <<>> /\ melsClosed
  /\ Goes("hift", "over")
  /\ UNCHANGED <<threw, report, llmVars, tokens, tokensClosed, flowVars, mels, melsClosed, hiftVars>>

-----------------------------------------------------------------------------
(* record_error(), under error_mutex: one queue is closed, then the other. *)

\* Where a thread is in code that may throw: the models and the PCM writer.
MayThrow(t) ==
  /\ t \in Fragile
  /\ \/ t = "llm" /\ at[t] = "sampling"
     \/ t = "flow" /\ at[t] = "collecting" /\ CanRun
     \/ t = "hift" /\ at[t] = "vocoding"

\* Mutant: only the queue to the flow thread is closed.
RecordErrorHalf(t) ==
  /\ MayThrow(t)
  /\ threw' = threw \union {t}
  /\ tokensClosed' = TRUE
  /\ Goes(t, "over")
  /\ UNCHANGED <<report, llmVars, tokens, flowVars, mels, melsClosed, hiftVars>>

RecordError(t) ==
  /\ MayThrow(t)
  /\ \A u \in Threads : at[u] # "failing"
  /\ threw' = threw \union {t}
  /\ tokensClosed' = TRUE
  /\ Goes(t, "failing")
  /\ UNCHANGED <<report, llmVars, tokens, flowVars, mels, melsClosed, hiftVars>>

ErrorRecorded(t) ==
  /\ at[t] = "failing"
  /\ melsClosed' = TRUE
  /\ Goes(t, "over")
  /\ UNCHANGED <<threw, report, llmVars, tokens, tokensClosed, flowVars, mels, hiftVars>>

-----------------------------------------------------------------------------
Joined == \A t \in Threads : at[t] = "over"

\* main: rethrow what was recorded, refuse incomplete output, or PASS.
Incomplete == generated = 0 \/ produced = <<>> \/ heard = <<>> \/ pcm # generated

ReportUtterance ==
  /\ Joined
  /\ report = "none"
  /\ report' = IF threw # {} \/ Incomplete THEN "FAIL" ELSE "PASS"
  /\ UNCHANGED <<at, threw, llmVars, tokens, tokensClosed, flowVars, mels, melsClosed, hiftVars>>

LlmStep == Sample \/ SampleAgain \/ PushToken \/ LlmEnds \/ ErrorRecorded("llm")
FlowStep ==
  TakeToken \/ TokensEnd \/ RunChunk \/ PushMel \/ PushMelRefused \/ ErrorRecorded("flow")
HiftStep == TakeMel \/ Vocode \/ MelsEnd \/ ErrorRecorded("hift")

Next ==
  \/ LlmStep \/ FlowStep \/ HiftStep
  \/ \E t \in Threads : RecordError(t)
  \/ ReportUtterance

\* Threads are scheduled, the models answer and somebody reads the audio.
Fairness == WF_vars(LlmStep) /\ WF_vars(FlowStep) /\ WF_vars(HiftStep) /\ WF_vars(ReportUtterance)

Spec == Init /\ [][Next]_vars
FairSpec == Spec /\ Fairness

-----------------------------------------------------------------------------
\* How n tokens are to be cut, whatever the timing.
Cutting(n) == [i \in 1..((n + Chunk - 1) \div Chunk) |->
  LET to == Smaller(i * Chunk, n)
  IN [from |-> (i - 1) * Chunk, to |-> to, ahead |-> Smaller(Lookahead, n - to), final |-> to = n]]

(* Where an utterance is cut, what each chunk may look ahead to and which one
   is final depend on its length alone, never on how the three threads were
   scheduled: the same line sounds the same on a busy board. *)
CutByLengthAlone ==
  Joined /\ threw = {} => produced = Cutting(generated) /\ heard = produced

(* Nothing is lost between the queues: with no error in any thread all that
   was generated is audio, so "incomplete output" is never reported of a
   line that has any speech. *)
SaysItWhole == report = "FAIL" => threw # {} \/ generated = 0

(* A line is cut alike and spoken whole on any schedule: both of the above. *)
SpokenAsCut == CutByLengthAlone /\ SaysItWhole

(* Whatever thread fails, wherever the other two then wait, all three come to
   an end and the line gets its report. *)
Reports == <>(report # "none")

=============================================================================
