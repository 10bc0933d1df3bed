------------------------------- MODULE TtsFlow -------------------------------
(***************************************************************************)
(* cosyvoice2_streaming_pipeline.cpp: what one TTS process keeps between   *)
(* chunks and between utterances.  The streaming encoder has a cache of    *)
(* tokens, the flow model one of Mel frames in its two graphs (the one for *)
(* a chunk and the steady one for two), the voice profile is a copy of     *)
(* both, and the vocoder keeps the end of what it last said.               *)
(*                                                                         *)
(* Tensors are rows; a row is known by the token or the frame it was       *)
(* computed from, <<u, i>> with u the utterance or 0 for the voice         *)
(* profile, and is Zero after a reset.  A token is two frames.  TtsPipeline*)
(* shows that the chunks depend on the number of tokens alone, so here an  *)
(* utterance is that number.                                               *)
(***************************************************************************)
EXTENDS Integers, Sequences

CONSTANTS
  ChunkTokens, PromptTokens,  (* kChunkTokens, kPromptTokens              *)
  TokenCache, RecentFrames,   (* kTokenCache, kRecentFrames               *)
  ContextFrames,              (* kContextFrames, the vocoder's overlap    *)
  BucketFrames, SteadyBuckets,(* hift_frames, and those added for two chunks *)
  TokenCounts,                (* tokens an utterance may have             *)
  MaxUtterances

ASSUME FlowAssumption ==
  /\ ChunkTokens \in Nat \ {0}
  /\ PromptTokens = 2 * ChunkTokens /\ TokenCache \in Nat /\ TokenCache > PromptTokens
  /\ RecentFrames = 4 * ChunkTokens /\ ContextFrames \in 1..(2 * ChunkTokens)
  /\ BucketFrames \union SteadyBuckets \subseteq Nat \ {0}
  /\ {2 * ChunkTokens, 2 * ChunkTokens + ContextFrames} \subseteq BucketFrames
  /\ 4 * ChunkTokens + ContextFrames \in SteadyBuckets
  /\ TokenCounts \subseteq Nat \ {0} /\ MaxUtterances \in Nat \ {0}

VARIABLES
  options,       (* precompute_full_prompt, steady_flow, hift_batch2      *)
  flowAt,        (* where the flow thread is                              *)
  utterance, total,           (* its number and its tokens, with the prompt *)
  encoder,       (* cache and cache_valid_                                *)
  graph,         (* of "flow" and "steady": kv and conv, the caches       *)
  profile,       (* voice_profile, or NoProfile                           *)
  nextStart, chunkNo, noise,  (* next_start, global_chunk, next_chunk_    *)
  steadyReady, parts,         (* steady_state_ready, pending_parts        *)
  mel, melQueue,              (* produced_mel; where the chunks of mel_queue end *)
  ran,           (* what the last run of a graph was shown                *)
  vocoder        (* calls and frames taken, mel_context, cache_, source_cache, waveform *)

flowOf == <<encoder, graph, profile>>
loopOf == <<nextStart, chunkNo, noise, steadyReady, parts>>
melOf == <<mel, melQueue, vocoder>>
tensors == <<options, flowAt, utterance, total, flowOf, loopOf, melOf, ran>>

Zero == <<0, -1>>
Rows(u, from, n) == [i \in 1..n |-> <<u, from + i - 1>>]
Zeros(n) == [i \in 1..n |-> Zero]
Lesser(a, b) == IF a < b THEN a ELSE b
LastOf(s, n) == [i \in 1..n |-> s[Len(s) - n + i]]

ChunkFrames == 2 * ChunkTokens
PromptFrames == 2 * PromptTokens
FlowCache == PromptFrames + RecentFrames
VoiceTokens == IF options.whole THEN PromptTokens ELSE ChunkTokens

EncoderReset == [cache |-> Zeros(TokenCache), valid |-> [i \in 1..TokenCache |-> FALSE]]
GraphReset == [kv |-> Zeros(FlowCache), conv |-> Zero]
NoProfile == <<>>
NotRun == [start |-> 0, tokens |-> <<>>, frame |-> 0, kv |-> <<>>, conv |-> Zero]
VocoderReset == [calls |-> 0, heard |-> 0, context |-> <<>>, cache |-> <<>>, source |-> <<>>, wave |-> <<>>, met |-> {}]

FlowInit ==
  /\ options \in [whole : BOOLEAN, steady : BOOLEAN, batch : BOOLEAN]
  /\ flowAt = "idle" /\ utterance = 0 /\ total = 0
  /\ encoder = EncoderReset
  /\ graph = [g \in {"flow", "steady"} |-> GraphReset]
  /\ profile = NoProfile
  /\ nextStart = 0 /\ chunkNo = 0 /\ noise = 0 /\ steadyReady = FALSE /\ parts = <<>>
  /\ mel = <<>> /\ melQueue = <<>> /\ ran = NotRun /\ vocoder = VocoderReset

-----------------------------------------------------------------------------
(* StreamingEncoder::Run and StreamingFlow::Run *)

\* The utterance's name for a token or a frame: what the profile covers is
\* the profile's.
Named(i, covered) == <<IF i < covered THEN 0 ELSE utterance, i>>

\* The graph shifts its cache by a chunk; so does cache_valid_.
Encoded(e, rows) ==
  LET from(i) == i + ChunkTokens - TokenCache
  IN [cache |-> [i \in 1..TokenCache |-> IF from(i) <= 0 THEN e.cache[i + ChunkTokens]
                                        ELSE IF from(i) <= Len(rows) THEN rows[from(i)] ELSE Zero],
      valid |-> [i \in 1..TokenCache |-> IF from(i) <= 0 THEN e.valid[i + ChunkTokens] ELSE from(i) <= Len(rows)]]

\* By their places in the cache; the others are masked.
EncoderSees(e) == [i \in {j \in 1..TokenCache : e.valid[j]} |-> e.cache[i]]

\* UpdateKv(): the prompt stays; of the target the last RecentFrames are kept,
\* the oldest of them first.
UpdateKv(kv, processed, rows) ==
  LET previous == Lesser(processed - PromptFrames, RecentFrames)
      keep == Lesser(Len(rows), RecentFrames)
      drop == IF previous + keep > RecentFrames THEN previous + keep - RecentFrames ELSE 0
      at == PromptFrames + previous - drop
  IN [i \in 1..FlowCache |->
       IF processed < PromptFrames
       THEN IF i \in (processed + 1)..(processed + Len(rows)) THEN rows[i - processed] ELSE kv[i]
       ELSE IF i \in (at + 1)..(at + keep) THEN rows[i - at + (Len(rows) - keep)]
       ELSE IF i \in (PromptFrames + 1)..at THEN kv[i + drop] ELSE kv[i]]

RunGraph(g, processed, rows) == [kv |-> UpdateKv(g.kv, processed, rows), conv |-> rows[Len(rows)]]

\* The attention bias hides all but the first rows.
GraphSees(g, processed) == [i \in 1..Lesser(processed, FlowCache) |-> g.kv[i]]

FrameRows(u, token, n) == Rows(u, 2 * token, 2 * n)

-----------------------------------------------------------------------------
(* synthesize(): the voice profile *)

\* With a profile, its copy and as much noise as it took; else from nothing.
BeginUtterance(n) ==
  /\ flowAt = "idle" /\ utterance < MaxUtterances
  /\ utterance' = utterance + 1 /\ total' = PromptTokens + n
  /\ mel' = <<>> /\ melQueue' = <<>> /\ vocoder' = VocoderReset /\ steadyReady' = FALSE /\ parts' = <<>>
  /\ ran' = NotRun
  /\ IF profile = NoProfile
     THEN /\ flowAt' = "voice" /\ nextStart' = 0 /\ chunkNo' = 0 /\ noise' = 0
          /\ encoder' = EncoderReset
          /\ graph' = [g \in {"flow", "steady"} |-> GraphReset]
     ELSE /\ flowAt' = "loop" /\ nextStart' = VoiceTokens
          /\ chunkNo' = VoiceTokens \div ChunkTokens /\ noise' = chunkNo'
          /\ encoder' = profile.encoder
          /\ graph' = [flow |-> profile.flow, steady |-> GraphReset]
  /\ UNCHANGED <<options, profile>>

\* A run of the encoder, and one of the flow model on what came of it.
RunsBoth(u, current) ==
  /\ encoder' = Encoded(encoder, Rows(u, nextStart, current))
  /\ graph' = [graph EXCEPT !["flow"] = RunGraph(@, 2 * nextStart, FrameRows(u, nextStart, current))]
  /\ ran' = [start |-> nextStart, tokens |-> EncoderSees(encoder), frame |-> 2 * nextStart,
             kv |-> GraphSees(graph["flow"], 2 * nextStart), conv |-> graph["flow"].conv]
  /\ nextStart' = nextStart + current /\ chunkNo' = chunkNo + 1 /\ noise' = noise + 1

VoiceChunk ==
  /\ flowAt = "voice" /\ nextStart < VoiceTokens
  /\ RunsBoth(0, ChunkTokens)
  /\ UNCHANGED <<options, flowAt, utterance, total, profile, steadyReady, parts, melOf>>

VoiceKept ==
  /\ flowAt = "voice" /\ nextStart = VoiceTokens
  /\ profile' = [encoder |-> encoder, flow |-> graph["flow"]]
  /\ flowAt' = "loop"
  /\ UNCHANGED <<options, utterance, total, encoder, graph, loopOf, melOf, ran>>

-----------------------------------------------------------------------------
(* flow_thread *)

Current == Lesser(ChunkTokens, total - nextStart)
Final == nextStart + Current = total
UsesSteady == options.steady /\ nextStart >= PromptTokens /\ mel # <<>>

PushMelChunk(from, n, final) ==
  /\ mel' = mel \o Rows(utterance, from, n)
  /\ melQueue' = Append(melQueue, [to |-> Len(mel'), final |-> final])

\* The prompt makes no sound; after the first chunk that does the steady
\* graph is given the state of the other.
FlowChunk ==
  /\ flowAt = "loop" /\ nextStart < total /\ ~UsesSteady
  /\ RunsBoth(utterance, Current)
  /\ IF nextStart < PromptTokens THEN UNCHANGED <<mel, melQueue>>
     ELSE PushMelChunk(2 * nextStart, 2 * Current, Final)
  /\ flowAt' = IF options.steady /\ nextStart >= PromptTokens THEN "hand over" ELSE "loop"
  /\ UNCHANGED <<options, utterance, total, profile, steadyReady, parts, vocoder>>

HandOver ==
  /\ flowAt = "hand over"
  /\ graph' = (IF steadyReady THEN graph ELSE [graph EXCEPT !["steady"] = graph["flow"]])
  /\ steadyReady' = TRUE /\ flowAt' = "loop"
  /\ UNCHANGED <<options, utterance, total, encoder, profile, nextStart, chunkNo, noise, parts, melOf, ran>>

\* The encoder runs; the flow model waits for two chunks or for the last.
PartReady ==
  /\ flowAt = "loop" /\ nextStart < total /\ UsesSteady
  /\ encoder' = Encoded(encoder, Rows(utterance, nextStart, Current))
  /\ ran' = [NotRun EXCEPT !.start = nextStart, !.tokens = EncoderSees(encoder)]
  /\ parts' = Append(parts, [from |-> 2 * nextStart, frames |-> 2 * Current, final |-> Final])
  /\ nextStart' = nextStart + Current /\ chunkNo' = chunkNo + 1 /\ noise' = noise + 1
  /\ flowAt' = IF Len(parts') = 1 /\ ~Final THEN "loop"
               ELSE IF Len(parts') = 2 /\ Current = ChunkTokens THEN "two" ELSE "tail"
  /\ UNCHANGED <<options, utterance, total, graph, profile, steadyReady, melOf>>

RunPart(g, processed, n, final) ==
  /\ graph' = [graph EXCEPT ![g] = RunGraph(@, processed, Rows(utterance, processed, n))]
  /\ ran' = [NotRun EXCEPT !.frame = processed, !.kv = GraphSees(graph[g], processed), !.conv = graph[g].conv]
  /\ PushMelChunk(processed, n, final)

RunTwo ==
  /\ flowAt = "two"
  /\ RunPart("steady", parts[1].from, 2 * ChunkFrames, parts[2].final)
  /\ parts' = <<>> /\ flowAt' = "loop"
  /\ UNCHANGED <<options, utterance, total, encoder, profile, nextStart, chunkNo, noise, steadyReady, vocoder>>

\* Never pad a partial tail into the 100-frame graph.
TailBack ==
  /\ flowAt = "tail"
  /\ graph' = [graph EXCEPT !["flow"] = graph["steady"]]
  /\ flowAt' = "parts"
  /\ UNCHANGED <<options, utterance, total, encoder, profile, loopOf, melOf, ran>>

RunTail ==
  /\ flowAt = "parts"
  /\ RunPart("flow", parts[1].from, parts[1].frames, parts[1].final)
  /\ parts' = Tail(parts)
  /\ flowAt' = IF parts' = <<>> THEN "loop" ELSE "parts"
  /\ UNCHANGED <<options, utterance, total, encoder, profile, nextStart, chunkNo, noise, steadyReady, vocoder>>

-----------------------------------------------------------------------------
(* hift_thread *)

\* With hift_batch2 all calls but the first take two chunks, or what is left.
Takes(k) ==
  IF options.batch /\ vocoder.calls > 0
  THEN LET enough(j) == melQueue[j].to - vocoder.heard >= 2 * ChunkFrames \/ melQueue[j].final
       IN enough(k) /\ \A j \in 1..(k - 1) : ~enough(j)
  ELSE k = 1

AllBuckets == IF options.steady \/ options.batch THEN BucketFrames \union SteadyBuckets ELSE BucketFrames

\* Mutant: upper_bound() for lower_bound(), and the largest bucket past the end.
ModelFramesAbove(frames) ==
  LET above == {b \in AllBuckets : b > frames}
  IN CHOOSE b \in AllBuckets : IF above = {} THEN \A c \in AllBuckets : c <= b
                               ELSE b \in above /\ \A c \in above : b <= c

\* f0_buckets.lower_bound()
ModelFrames(frames) == CHOOSE b \in AllBuckets : b >= frames /\ \A c \in AllBuckets : c >= frames => b <= c

\* The new frames after the context of the last call; the end of what is said
\* is kept to be blended with the beginning of the next call, unless it is the
\* end, and so is the end of the source.
Speak ==
  /\ melQueue # <<>> /\ flowAt # "idle"
  /\ \E k \in 1..Len(melQueue) :
       /\ Takes(k)
       /\ LET new == SubSeq(mel, vocoder.heard + 1, melQueue[k].to)
              final == melQueue[k].final
              input == vocoder.context \o new
              source == vocoder.source \o
                SubSeq(input \o Zeros(ModelFrames(Len(input)) - Len(input)),
                       Len(vocoder.source) + 1, ModelFrames(Len(input)))
          IN /\ vocoder' =
                  [calls |-> vocoder.calls + 1, heard |-> melQueue[k].to,
                   context |-> IF Len(new) >= ContextFrames THEN LastOf(new, ContextFrames) ELSE vocoder.context,
                   cache |-> IF final THEN vocoder.cache ELSE LastOf(input, ContextFrames),
                   source |-> LastOf(source, ContextFrames),
                   wave |-> vocoder.wave \o
                     (IF final THEN input ELSE SubSeq(input, 1, Len(input) - ContextFrames)),
                   met |-> {<<vocoder.cache, SubSeq(input, 1, Len(vocoder.cache))>>,
                            <<vocoder.source, SubSeq(input, 1, Len(vocoder.source))>>}]
             /\ melQueue' = SubSeq(melQueue, k + 1, Len(melQueue))
  /\ UNCHANGED <<options, flowAt, utterance, total, flowOf, loopOf, mel, ran>>

Spoken == flowAt = "loop" /\ nextStart = total /\ melQueue = <<>>

UtteranceEnds ==
  /\ Spoken
  /\ flowAt' = "idle"
  /\ UNCHANGED <<options, utterance, total, flowOf, loopOf, melOf, ran>>

\* Anything may throw; the process goes on with the next line.
Throws ==
  /\ flowAt # "idle"
  /\ flowAt' = "idle"
  /\ UNCHANGED <<options, utterance, total, flowOf, loopOf, melOf, ran>>

FlowNext ==
  \/ \E n \in TokenCounts : BeginUtterance(n)
  \/ VoiceChunk \/ VoiceKept \/ FlowChunk \/ HandOver \/ PartReady \/ RunTwo \/ TailBack \/ RunTail
  \/ Speak \/ UtteranceEnds \/ Throws

FlowSpec == FlowInit /\ [][FlowNext]_tensors

-----------------------------------------------------------------------------
(* Whatever was said before, and however it ended: a model that runs is shown
   the past of this utterance and nothing else, in order and without a gap.
   To the encoder that is the tokens before the chunk that its cache has room
   for; to the flow model, in either graph and across every hand-over, the
   whole prompt and the last frames before the ones it makes; and each chunk
   draws the noise of its number. *)
SeesItsPast ==
  LET covered == IF profile = NoProfile THEN nextStart ELSE VoiceTokens
      t == Lesser(ran.frame - PromptFrames, RecentFrames)
      shown == IF ran.frame <= PromptFrames THEN ran.frame ELSE PromptFrames + t
  IN /\ flowAt # "idle" => noise = chunkNo
     /\ LET n == Lesser(ran.start, TokenCache)
        IN ran.tokens = [i \in (TokenCache - n + 1)..TokenCache |-> Named(ran.start - TokenCache + i - 1, covered)]
     /\ ran.frame > 0 =>
          /\ ran.conv = Named(ran.frame - 1, 2 * covered)
          /\ ran.kv = [i \in 1..shown |->
               Named(IF i <= PromptFrames THEN i - 1 ELSE ran.frame - t + (i - PromptFrames) - 1, 2 * covered)]

(* What the vocoder blends at a seam is the same frames from both sides, in
   the waveform and in its source, for every size of the last chunk and every
   bucket it is padded to; and all of the utterance is said once, in order. *)
SeamsMeet ==
  /\ \A pair \in vocoder.met : pair[1] = pair[2]
  /\ Spoken => vocoder.wave = Rows(utterance, PromptFrames, 2 * (total - PromptTokens))

(* The audio is one signal, however it was cut: both of the above. *)
FlowContinuous == SeesItsPast /\ SeamsMeet

=============================================================================
