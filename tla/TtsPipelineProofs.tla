--------------------------- MODULE TtsPipelineProofs ---------------------------
(***************************************************************************)
(* TtsPipeline cuts a line by its length alone and says all of it, for     *)
(* every chunk, lookahead and overlap, every capacity of the two queues    *)
(* and every limit of the line.  The invariant relates what each thread    *)
(* has seen to what the thread before it has made; it says nothing once a  *)
(* thread threw.                                                           *)
(*                                                                         *)
(* Of TtsFlow, which passes on the rows behind those counts, the second    *)
(* half proves that the audio is one signal, for any chunks, caches,       *)
(* buckets and utterances: its invariant says what each cache holds of the *)
(* utterance it is in, whichever graph runs next and whatever was said     *)
(* before.                                                                 *)
(***************************************************************************)
EXTENDS TtsPipeline, TtsFlow, SequenceTheorems, TLAPS

Piece(i, n) ==
  [from |-> (i - 1) * Chunk, to |-> Smaller(i * Chunk, n),
   ahead |-> Smaller(Lookahead, n - Smaller(i * Chunk, n)), final |-> Smaller(i * Chunk, n) = n]

Chunks == [from : Int, to : Int, ahead : Int, final : BOOLEAN]

Places ==
  /\ at \in [Threads -> {"sampling", "pushing", "collecting", "waiting", "vocoding", "failing", "over"}]
  /\ at["llm"] \in {"sampling", "pushing", "failing", "over"}
  /\ at["flow"] \in {"collecting", "pushing", "failing", "over"}
  /\ at["hift"] \in {"waiting", "vocoding", "failing", "over"}
  /\ at["flow"] = "pushing" => produced # <<>>
  /\ at["hift"] = "vocoding" => heard # <<>>

PipelineTypes ==
  /\ generated \in Nat /\ calls \in Nat /\ tokens \in Nat /\ available \in Nat /\ next \in Int /\ pcm \in Int
  /\ tokensClosed \in BOOLEAN /\ producerClosed \in BOOLEAN /\ melsClosed \in BOOLEAN
  /\ produced \in Seq(Chunks) /\ mels \in Seq(Chunks) /\ heard \in Seq(Chunks)

\* Each queue is closed by the thread that fills it, when it is over.
ClosedInOrder ==
  /\ \A t \in Threads : at[t] # "failing"
  /\ tokensClosed <=> at["llm"] = "over"
  /\ melsClosed <=> at["flow"] = "over"
  /\ producerClosed => tokensClosed /\ tokens = 0
  /\ at["flow"] = "over" => producerClosed /\ available = next
  /\ at["hift"] = "over" => melsClosed /\ mels = <<>>

\* No token is lost between the language model and the flow model.
TokensKept == generated = available + tokens + (IF at["llm"] = "pushing" THEN 1 ELSE 0)

\* A chunk that was cut stays right when more tokens come.
CutRight ==
  /\ \A i \in DOMAIN produced :
       /\ produced[i] = Piece(i, available)
       /\ (i - 1) * Chunk < available
       /\ producerClosed \/ i * Chunk + Lookahead <= available
  /\ at["flow"] = "pushing" => next = (Len(produced) - 1) * Chunk
  /\ at["flow"] # "pushing" => next = Smaller(Len(produced) * Chunk, available)

\* No chunk is lost between the flow model and the vocoder.
ChunksKept ==
  /\ Len(heard) + Len(mels) = Len(produced) - (IF at["flow"] = "pushing" THEN 1 ELSE 0)
  /\ \A i \in DOMAIN heard : heard[i] = produced[i]
  /\ \A i \in DOMAIN mels : mels[i] = produced[Len(heard) + i]

\* The audio of the first k chunks: all but the overlap at its end, unless that is the end.
Said(k) == IF k = 0 THEN 0 ELSE produced[k].to - (IF produced[k].final THEN 0 ELSE Overlap)

AudioKept == pcm = Said(IF at["hift"] = "vocoding" THEN Len(heard) - 1 ELSE Len(heard))

PipeInv == ClosedInOrder /\ TokensKept /\ CutRight /\ ChunksKept /\ AudioKept

Reported ==
  /\ report # "none" => Joined
  /\ report = "FAIL" => threw # {} \/ Incomplete

IInv == Places /\ PipelineTypes /\ Reported /\ (threw = {} => PipeInv)

-----------------------------------------------------------------------------
(* What is kept whatever throws. *)

(* The states before synthesize() starts its threads are well typed. *)
THEOREM InitTypes == Init => Places /\ PipelineTypes /\ Reported
<1> SUFFICES ASSUME Init PROVE Places /\ PipelineTypes /\ Reported
  OBVIOUS
<1>1. Places BY DEF Init, Places, Threads
<1>2. PipelineTypes
  <2>1. <<>> \in Seq(Chunks) OBVIOUS
  <2>2. /\ produced \in Seq(Chunks) /\ mels \in Seq(Chunks) /\ heard \in Seq(Chunks)
    BY <2>1 DEF Init
  <2>3. /\ generated \in Nat /\ calls \in Nat /\ tokens \in Nat /\ available \in Nat
        /\ next \in Int /\ pcm \in Int
    BY DEF Init
  <2>4. tokensClosed \in BOOLEAN /\ producerClosed \in BOOLEAN /\ melsClosed \in BOOLEAN
    BY DEF Init
  <2> QED BY <2>2, <2>3, <2>4 DEF PipelineTypes
<1>3. Reported BY DEF Init, Reported
<1> QED BY <1>1, <1>2, <1>3

(* What a thread appends is a chunk. *)
LEMMA CutIsChunk ==
  ASSUME PipelineTypes, RunChunk
  PROVE  produced' \in Seq(Chunks) /\ produced' # <<>>
<1> DEFINE to == next + Smaller(Chunk, Remaining)
           c == [from |-> next, to |-> to, ahead |-> Smaller(Lookahead, available - to),
                 final |-> producerClosed /\ to = available]
<1>1. to \in Int
  BY PipelineAssumption DEF PipelineTypes, Smaller, Remaining
<1>2. Smaller(Lookahead, available - to) \in Int
  BY <1>1, PipelineAssumption DEF PipelineTypes, Smaller
<1>3. c \in Chunks
  BY <1>1, <1>2 DEF PipelineTypes, Chunks
<1>4. produced' = Append(produced, c)
  BY DEF RunChunk
<1> HIDE DEF c
<1> QED BY <1>3, <1>4 DEF PipelineTypes

(* Each thread is somewhere in its own code after every step. *)
THEOREM PlacesStep == Places /\ PipelineTypes /\ Next => Places'
<1> SUFFICES ASSUME Places, PipelineTypes, Next PROVE Places'
  OBVIOUS
<1> USE DEF Places, Goes, Threads, flowVars, hiftVars, llmVars
<1>1. CASE Sample BY <1>1 DEF Sample
<1>2. CASE SampleAgain BY <1>2 DEF SampleAgain
<1>3. CASE PushToken BY <1>3 DEF PushToken
<1>4. CASE LlmEnds BY <1>4 DEF LlmEnds
<1>5. CASE TakeToken BY <1>5 DEF TakeToken
<1>6. CASE TokensEnd BY <1>6 DEF TokensEnd
<1>7. CASE RunChunk
  <2>1. produced' # <<>> BY <1>7, CutIsChunk
  <2> QED BY <2>1, <1>7 DEF RunChunk
<1>8. CASE PushMel BY <1>8 DEF PushMel
<1>9. CASE PushMelRefused BY <1>9 DEF PushMelRefused
<1>10. CASE TakeMel
  <2>1. heard' # <<>> BY <1>10 DEF TakeMel, PipelineTypes
  <2> QED BY <2>1, <1>10 DEF TakeMel
<1>11. CASE Vocode BY <1>11 DEF Vocode
<1>12. CASE MelsEnd BY <1>12 DEF MelsEnd
<1>13. ASSUME NEW t \in Threads, RecordError(t) PROVE Places'
  BY <1>13 DEF RecordError, MayThrow
<1>14. ASSUME NEW t \in Threads, ErrorRecorded(t) PROVE Places'
  BY <1>14 DEF ErrorRecorded
<1>15. CASE ReportUtterance BY <1>15 DEF ReportUtterance
<1> QED
  BY <1>1, <1>2, <1>3, <1>4, <1>5, <1>6, <1>7, <1>8, <1>9, <1>10, <1>11, <1>12, <1>13,
     <1>14, <1>15 DEF Next, LlmStep, FlowStep, HiftStep

(* Every step leaves counters, flags and chunks well typed. *)
THEOREM TypesStep == Places /\ PipelineTypes /\ Next => PipelineTypes'
<1> SUFFICES ASSUME Places, PipelineTypes, Next PROVE PipelineTypes'
  OBVIOUS
<1> USE DEF PipelineTypes, flowVars, hiftVars, llmVars
<1>1. CASE Sample BY <1>1 DEF Sample
<1>2. CASE SampleAgain BY <1>2 DEF SampleAgain
<1>3. CASE PushToken BY <1>3 DEF PushToken
<1>4. CASE LlmEnds BY <1>4 DEF LlmEnds
<1>5. CASE TakeToken BY <1>5 DEF TakeToken
<1>6. CASE TokensEnd BY <1>6 DEF TokensEnd
<1>7. CASE RunChunk
  <2>1. produced' \in Seq(Chunks) BY <1>7, CutIsChunk
  <2> QED BY <2>1, <1>7 DEF RunChunk
<1>8. CASE PushMel
  <2>1. produced # <<>> BY <1>8 DEF PushMel, Places
  <2>2. Newest \in Chunks BY <2>1 DEF Newest
  <2>3. Newest.to \in Int BY <2>2 DEF Chunks
  <2> QED BY <2>2, <2>3, <1>8 DEF PushMel
<1>9. CASE PushMelRefused BY <1>9 DEF PushMelRefused
<1>10. CASE TakeMel
  <2>1. Head(mels) \in Chunks /\ Tail(mels) \in Seq(Chunks) BY <1>10 DEF TakeMel
  <2>2. Append(heard, Head(mels)) \in Seq(Chunks) BY <2>1
  <2> QED BY <2>1, <2>2, <1>10 DEF TakeMel
<1>11. CASE Vocode
  <2>1. heard # <<>> BY <1>11 DEF Vocode, Places
  <2>2. heard[Len(heard)] \in Chunks BY <2>1
  <2>3. heard[Len(heard)].to \in Int /\ heard[Len(heard)].from \in Int BY <2>2 DEF Chunks
  <2>4. pcm' \in Int BY <2>3, <1>11, PipelineAssumption DEF Vocode
  <2> QED BY <2>4, <1>11 DEF Vocode
<1>12. CASE MelsEnd BY <1>12 DEF MelsEnd
<1>13. ASSUME NEW t \in Threads, RecordError(t) PROVE PipelineTypes'
  BY <1>13 DEF RecordError
<1>14. ASSUME NEW t \in Threads, ErrorRecorded(t) PROVE PipelineTypes'
  BY <1>14 DEF ErrorRecorded
<1>15. CASE ReportUtterance BY <1>15 DEF ReportUtterance
<1> QED
  BY <1>1, <1>2, <1>3, <1>4, <1>5, <1>6, <1>7, <1>8, <1>9, <1>10, <1>11, <1>12, <1>13,
     <1>14, <1>15 DEF Next, LlmStep, FlowStep, HiftStep, Threads

(* When the three threads are over nothing moves but the report. *)
LEMMA JoinedIsLast ==
  ASSUME Joined, Next
  PROVE  ReportUtterance
BY DEF Joined, Next, LlmStep, FlowStep, HiftStep, Threads, Sample, SampleAgain, PushToken, LlmEnds,
       TakeToken, TokensEnd, RunChunk, PushMel, PushMelRefused, TakeMel, Vocode, MelsEnd,
       RecordError, MayThrow, ErrorRecorded

(* main reports only when it has joined the three threads, and FAIL has a cause. *)
THEOREM ReportedStep == Places /\ PipelineTypes /\ Reported /\ Next => Reported'
<1> SUFFICES ASSUME Places, PipelineTypes, Reported, Next PROVE Reported'
  OBVIOUS
<1>1. CASE Joined
  <2>1. ReportUtterance BY <1>1, JoinedIsLast
  <2> QED BY <1>1, <2>1 DEF ReportUtterance, Reported, Joined, Incomplete, flowVars, hiftVars, llmVars
<1>2. CASE ~Joined
  <2>1. report = "none" BY <1>2 DEF Reported
  <2>2. report' = report
    BY <1>2 DEF Next, LlmStep, FlowStep, HiftStep, Sample, SampleAgain, PushToken, LlmEnds,
       TakeToken, TokensEnd, RunChunk, PushMel, PushMelRefused, TakeMel, Vocode, MelsEnd,
       RecordError, ErrorRecorded, ReportUtterance
  <2> QED BY <2>1, <2>2 DEF Reported
<1> QED BY <1>1, <1>2

-----------------------------------------------------------------------------
(* While nothing throws: who closes what. *)

(* Each queue is closed by the thread that fills it, when that thread is over. *)
THEOREM ClosedInOrderStep ==
  Places /\ PipelineTypes /\ ClosedInOrder /\ CutRight /\ Next /\ threw' = {} => ClosedInOrder'
<1> SUFFICES ASSUME Places, PipelineTypes, ClosedInOrder, CutRight, Next, threw' = {}
             PROVE  ClosedInOrder'
  OBVIOUS
<1> USE DEF ClosedInOrder, Places, Goes, Threads, flowVars, hiftVars, llmVars
<1>1. CASE Sample BY <1>1 DEF Sample
<1>2. CASE SampleAgain BY <1>2 DEF SampleAgain
<1>3. CASE PushToken BY <1>3 DEF PushToken
<1>4. CASE LlmEnds BY <1>4 DEF LlmEnds
<1>5. CASE TakeToken BY <1>5 DEF TakeToken, PipelineTypes
<1>6. CASE TokensEnd BY <1>6 DEF TokensEnd
<1>7. CASE RunChunk BY <1>7 DEF RunChunk
<1>8. CASE PushMel BY <1>8 DEF PushMel
<1>9. CASE PushMelRefused BY <1>9 DEF PushMelRefused
<1>10. CASE TakeMel BY <1>10 DEF TakeMel
<1>11. CASE Vocode BY <1>11 DEF Vocode
<1>12. CASE MelsEnd BY <1>12 DEF MelsEnd
<1>13. ASSUME NEW t \in Threads, RecordError(t) PROVE ClosedInOrder'
  BY <1>13 DEF RecordError
<1>14. ASSUME NEW t \in Threads, ErrorRecorded(t) PROVE ClosedInOrder'
  BY <1>14 DEF ErrorRecorded
<1>15. CASE ReportUtterance BY <1>15 DEF ReportUtterance
<1> QED
  BY <1>1, <1>2, <1>3, <1>4, <1>5, <1>6, <1>7, <1>8, <1>9, <1>10, <1>11, <1>12, <1>13,
     <1>14, <1>15 DEF Next, LlmStep, FlowStep, HiftStep

(* Every token generated is at hand, in the queue, or about to be pushed. *)
THEOREM TokensKeptStep ==
  Places /\ PipelineTypes /\ ClosedInOrder /\ TokensKept /\ Next /\ threw' = {} => TokensKept'
<1> SUFFICES ASSUME Places, PipelineTypes, ClosedInOrder, TokensKept, Next, threw' = {}
             PROVE  TokensKept'
  OBVIOUS
<1> USE DEF TokensKept, Places, PipelineTypes, Goes, Threads, flowVars, hiftVars, llmVars
<1>1. CASE Sample BY <1>1 DEF Sample
<1>2. CASE SampleAgain BY <1>2 DEF SampleAgain
<1>3. CASE PushToken BY <1>3 DEF PushToken
<1>4. CASE LlmEnds BY <1>4 DEF LlmEnds, ClosedInOrder
<1>5. CASE TakeToken BY <1>5 DEF TakeToken
<1>6. CASE TokensEnd BY <1>6 DEF TokensEnd
<1>7. CASE RunChunk BY <1>7 DEF RunChunk
<1>8. CASE PushMel BY <1>8 DEF PushMel
<1>9. CASE PushMelRefused BY <1>9 DEF PushMelRefused
<1>10. CASE TakeMel BY <1>10 DEF TakeMel
<1>11. CASE Vocode BY <1>11 DEF Vocode
<1>12. CASE MelsEnd BY <1>12 DEF MelsEnd
<1>13. ASSUME NEW t \in Threads, RecordError(t) PROVE TokensKept'
  BY <1>13 DEF RecordError
<1>14. ASSUME NEW t \in Threads, ErrorRecorded(t) PROVE TokensKept'
  BY <1>14 DEF ErrorRecorded, ClosedInOrder
<1>15. CASE ReportUtterance BY <1>15 DEF ReportUtterance
<1> QED
  BY <1>1, <1>2, <1>3, <1>4, <1>5, <1>6, <1>7, <1>8, <1>9, <1>10, <1>11, <1>12, <1>13,
     <1>14, <1>15 DEF Next, LlmStep, FlowStep, HiftStep

-----------------------------------------------------------------------------
(* Where the cuts are. *)

(* Multiples of the chunk length are numbers, one chunk apart. *)
LEMMA Multiples ==
  ASSUME NEW i \in Int
  PROVE  i * Chunk \in Int /\ (i - 1) * Chunk = i * Chunk - Chunk
BY PipelineAssumption

(* A chunk with its whole lookahead is the same when more tokens come. *)
LEMMA PieceStays ==
  ASSUME NEW i \in Int, NEW n \in Nat, i * Chunk + Lookahead <= n
  PROVE  Piece(i, n + 1) = Piece(i, n)
BY Multiples, PipelineAssumption DEF Piece, Smaller

(* What the flow thread cuts next is the next piece of what it has taken, and
   it has seen all that the piece may look ahead to. *)
LEMMA CutsNextPiece ==
  ASSUME PipelineTypes, CutRight, ClosedInOrder, RunChunk, at["flow"] = "collecting"
  PROVE  LET k == Len(produced) + 1
         IN /\ produced' = Append(produced, Piece(k, available))
            /\ (k - 1) * Chunk < available
            /\ producerClosed \/ k * Chunk + Lookahead <= available
            /\ next = (k - 1) * Chunk
<1> DEFINE k == Len(produced) + 1
           to == next + Smaller(Chunk, Remaining)
<1>1. k \in Int /\ k - 1 = Len(produced) BY DEF PipelineTypes
<1>2. next = Smaller((k - 1) * Chunk, available) BY <1>1 DEF CutRight
<1> HIDE DEF k
<1>3. (k - 1) * Chunk \in Int /\ k * Chunk \in Int /\ (k - 1) * Chunk = k * Chunk - Chunk
  <2>1. k - 1 \in Int BY <1>1
  <2> QED BY <1>1, <2>1, Multiples
<1>4. available > next BY <1>3, <1>2, PipelineAssumption DEF RunChunk, CanRun, Remaining, PipelineTypes
<1>5. next = (k - 1) * Chunk BY <1>2, <1>3, <1>4 DEF Smaller, PipelineTypes
<1>6. producerClosed \/ k * Chunk + Lookahead <= available
  BY <1>3, <1>5, PipelineAssumption DEF RunChunk, CanRun, Remaining, PipelineTypes
<1>7. to = Smaller(k * Chunk, available)
  BY <1>3, <1>5, PipelineAssumption DEF Smaller, Remaining, PipelineTypes
<1>8. to = available => producerClosed
  BY <1>3, <1>6, <1>7, PipelineAssumption DEF Smaller, PipelineTypes
<1>9. produced' = Append(produced,
        [from |-> next, to |-> to, ahead |-> Smaller(Lookahead, available - to),
         final |-> producerClosed /\ to = available])
  BY DEF RunChunk
<1> HIDE DEF to
<1>10. (producerClosed /\ to = available) = (to = available)
  BY <1>8 DEF PipelineTypes
<1>11. produced' = Append(produced, Piece(k, available))
  BY <1>5, <1>7, <1>9, <1>10 DEF Piece
<1> QED BY <1>4, <1>5, <1>6, <1>11 DEF k

(* The cuts stay right: with more tokens, with one more chunk, and when the
   chunk is handed on. *)
THEOREM CutRightStep ==
  Places /\ PipelineTypes /\ ClosedInOrder /\ CutRight /\ Next /\ threw' = {} => CutRight'
<1> SUFFICES ASSUME Places, PipelineTypes, ClosedInOrder, CutRight, Next, threw' = {}
             PROVE  CutRight'
  OBVIOUS
<1> USE DEF Goes, flowVars, hiftVars, llmVars
<1>1. ASSUME UNCHANGED <<produced, available, producerClosed, next>>, at'["flow"] = at["flow"]
      PROVE  CutRight'
  BY <1>1 DEF CutRight
<1>2. CASE Sample BY <1>1, <1>2 DEF Sample, Places, Threads
<1>3. CASE SampleAgain BY <1>1, <1>3 DEF SampleAgain
<1>4. CASE PushToken BY <1>1, <1>4 DEF PushToken, Places, Threads
<1>5. CASE LlmEnds BY <1>1, <1>5 DEF LlmEnds, Places, Threads
<1>6. CASE TakeToken
  <2> USE <1>6 DEF TakeToken
  <2>1. ~producerClosed BY DEF ClosedInOrder, PipelineTypes
  <2>2. /\ available' = available + 1 /\ produced' = produced /\ next' = next
        /\ producerClosed' = producerClosed /\ at'["flow"] = "collecting"
    OBVIOUS
  <2>3. ASSUME NEW i \in DOMAIN produced
        PROVE  /\ produced[i] = Piece(i, available + 1)
               /\ (i - 1) * Chunk < available + 1
               /\ i * Chunk + Lookahead <= available + 1
    <3>1. i \in Int BY DEF PipelineTypes
    <3>2. i * Chunk + Lookahead <= available /\ produced[i] = Piece(i, available)
      BY <2>1 DEF CutRight
    <3>3. produced[i] = Piece(i, available + 1) BY <3>1, <3>2, PieceStays DEF PipelineTypes
    <3> QED BY <3>1, <3>2, <3>3, Multiples, PipelineAssumption DEF PipelineTypes
  <2>4. next = Smaller(Len(produced) * Chunk, available + 1)
    <3>1. Len(produced) \in Nat BY DEF PipelineTypes
    <3>2. next = Smaller(Len(produced) * Chunk, available) BY DEF CutRight
    <3>3. Len(produced) * Chunk <= available
      <4>1. CASE Len(produced) = 0 BY <4>1, PipelineAssumption DEF PipelineTypes
      <4>2. CASE Len(produced) > 0
        <5>1. Len(produced) \in DOMAIN produced BY <4>2 DEF PipelineTypes
        <5>2. Len(produced) * Chunk + Lookahead <= available BY <2>1, <5>1 DEF CutRight
        <5> QED BY <5>2, <3>1, Multiples, PipelineAssumption DEF PipelineTypes
      <4> QED BY <3>1, <4>1, <4>2
    <3> QED BY <3>1, <3>2, <3>3, Multiples DEF Smaller, PipelineTypes
  <2> QED BY <2>2, <2>3, <2>4 DEF CutRight
<1>7. CASE TokensEnd
  <2>1. /\ UNCHANGED <<produced, available, next>> /\ producerClosed' = TRUE
        /\ at["flow"] # "pushing" /\ at'["flow"] # "pushing"
    BY <1>7 DEF TokensEnd, Places, Threads
  <2> QED BY <2>1 DEF CutRight
<1>8. CASE RunChunk
  <2> DEFINE k == Len(produced) + 1
  <2>1. at["flow"] = "collecting" /\ UNCHANGED <<available, producerClosed, next>> /\ at'["flow"] = "pushing"
    BY <1>8 DEF RunChunk, Places, Threads
  <2>2. /\ produced' = Append(produced, Piece(k, available))
        /\ (k - 1) * Chunk < available
        /\ producerClosed \/ k * Chunk + Lookahead <= available
        /\ next = (k - 1) * Chunk
    BY <1>8, <2>1, CutsNextPiece
  <2>3. Len(produced') = k /\ DOMAIN produced' = 1..k /\ k \in Nat
    BY <2>2 DEF PipelineTypes
  <2>4. ASSUME NEW i \in DOMAIN produced'
        PROVE  /\ produced'[i] = Piece(i, available)
               /\ (i - 1) * Chunk < available
               /\ producerClosed \/ i * Chunk + Lookahead <= available
    <3>1. CASE i = k
      <4>1. produced'[k] = Piece(k, available) BY <2>2 DEF PipelineTypes
      <4> QED BY <2>2, <3>1, <4>1
    <3>2. CASE i # k
      <4>1. i \in DOMAIN produced /\ produced'[i] = produced[i]
        BY <2>2, <2>3, <3>2 DEF PipelineTypes
      <4> QED BY <4>1 DEF CutRight
    <3> QED BY <3>1, <3>2
  <2> QED BY <2>1, <2>2, <2>3, <2>4 DEF CutRight
<1>9. CASE PushMel
  <2> DEFINE k == Len(produced)
  <2>1. /\ UNCHANGED <<produced, available, producerClosed>> /\ next' = Newest.to
        /\ at["flow"] = "pushing" /\ at'["flow"] = "collecting"
    BY <1>9 DEF PushMel, Places, Threads
  <2>2. k \in DOMAIN produced BY <2>1 DEF Places, PipelineTypes
  <2>3. Newest = Piece(k, available) BY <2>2 DEF CutRight, Newest
  <2>4. Newest.to = Smaller(k * Chunk, available) BY <2>3 DEF Piece
  <2> QED BY <2>1, <2>4 DEF CutRight
<1>10. CASE PushMelRefused BY <1>10 DEF PushMelRefused, ClosedInOrder
<1>11. CASE TakeMel BY <1>1, <1>11 DEF TakeMel, Places, Threads
<1>12. CASE Vocode BY <1>1, <1>12 DEF Vocode, Places, Threads
<1>13. CASE MelsEnd BY <1>1, <1>13 DEF MelsEnd, Places, Threads
<1>14. ASSUME NEW t \in Threads, RecordError(t) PROVE CutRight'
  BY <1>14 DEF RecordError
<1>15. ASSUME NEW t \in Threads, ErrorRecorded(t) PROVE CutRight'
  BY <1>15 DEF ErrorRecorded, ClosedInOrder
<1>16. CASE ReportUtterance BY <1>1, <1>16 DEF ReportUtterance
<1> QED
  BY <1>2, <1>3, <1>4, <1>5, <1>6, <1>7, <1>8, <1>9, <1>10, <1>11, <1>12, <1>13,
     <1>14, <1>15, <1>16 DEF Next, LlmStep, FlowStep, HiftStep, Threads

-----------------------------------------------------------------------------
(* Every chunk reaches the vocoder, in order, and becomes audio once. *)

(* What the vocoder took and what waits for it are what was cut, in order. *)
THEOREM ChunksKeptStep ==
  Places /\ PipelineTypes /\ ClosedInOrder /\ ChunksKept /\ Next /\ threw' = {} => ChunksKept'
<1> SUFFICES ASSUME Places, PipelineTypes, ClosedInOrder, ChunksKept, Next, threw' = {}
             PROVE  ChunksKept'
  OBVIOUS
<1> USE DEF Goes, flowVars, hiftVars, llmVars
<1>1. ASSUME UNCHANGED <<produced, mels, heard>>, at'["flow"] = "pushing" <=> at["flow"] = "pushing"
      PROVE  ChunksKept'
  BY <1>1 DEF ChunksKept
<1>2. CASE Sample BY <1>1, <1>2 DEF Sample, Places, Threads
<1>3. CASE SampleAgain BY <1>1, <1>3 DEF SampleAgain
<1>4. CASE PushToken BY <1>1, <1>4 DEF PushToken, Places, Threads
<1>5. CASE LlmEnds BY <1>1, <1>5 DEF LlmEnds, Places, Threads
<1>6. CASE TakeToken BY <1>1, <1>6 DEF TakeToken
<1>7. CASE TokensEnd BY <1>1, <1>7 DEF TokensEnd, Places, Threads
<1>8. CASE RunChunk
  <2>1. /\ UNCHANGED <<mels, heard>>
        /\ at["flow"] = "collecting" /\ at'["flow"] = "pushing"
    BY <1>8 DEF RunChunk, Places, Threads
  <2>2. PICK c \in Chunks : produced' = Append(produced, c)
    <3>1. produced' \in Seq(Chunks) BY <1>8, CutIsChunk
    <3>2. PICK c : produced' = Append(produced, c) BY <1>8 DEF RunChunk
    <3>3. c = produced'[Len(produced) + 1] /\ Len(produced') = Len(produced) + 1
      BY <3>2 DEF PipelineTypes
    <3>4. c \in Chunks BY <3>1, <3>3 DEF PipelineTypes
    <3> QED BY <3>2, <3>4
  <2>3. /\ Len(produced') = Len(produced) + 1
        /\ \A i \in 1..Len(produced) : produced'[i] = produced[i]
    BY <2>2 DEF PipelineTypes
  <2>4. Len(heard) + Len(mels) = Len(produced) BY <2>1 DEF ChunksKept, PipelineTypes
  <2>5. ASSUME NEW i \in DOMAIN heard PROVE heard[i] = produced'[i]
    BY <2>3, <2>4, <2>5 DEF ChunksKept, PipelineTypes
  <2>6. ASSUME NEW i \in DOMAIN mels PROVE mels[i] = produced'[Len(heard) + i]
    <3>1. Len(heard) + i \in 1..Len(produced) BY <2>4, <2>6 DEF PipelineTypes
    <3> QED BY <2>3, <2>6, <3>1 DEF ChunksKept
  <2>7. Len(heard') + Len(mels') = Len(produced') - 1 BY <2>1, <2>3, <2>4 DEF PipelineTypes
  <2> QED BY <2>1, <2>5, <2>6, <2>7 DEF ChunksKept
<1>9. CASE PushMel
  <2>1. /\ UNCHANGED <<produced, heard>> /\ mels' = Append(mels, Newest)
        /\ at["flow"] = "pushing" /\ at'["flow"] = "collecting"
    BY <1>9 DEF PushMel, Places, Threads
  <2>2. Newest \in Chunks /\ Newest = produced[Len(produced)]
    BY <2>1 DEF Newest, Places, PipelineTypes
  <2>3. Len(heard) + Len(mels) + 1 = Len(produced) BY <2>1 DEF ChunksKept, PipelineTypes
  <2>4. Len(mels') = Len(mels) + 1 /\ DOMAIN mels' = 1..Len(mels) + 1 BY <2>1, <2>2 DEF PipelineTypes
  <2>5. ASSUME NEW i \in DOMAIN mels' PROVE mels'[i] = produced[Len(heard) + i]
    <3>1. CASE i = Len(mels) + 1
      <4>1. mels'[i] = Newest BY <2>1, <2>2, <3>1 DEF PipelineTypes
      <4>2. Len(heard) + i = Len(produced) BY <2>3, <3>1 DEF PipelineTypes
      <4> QED BY <2>2, <4>1, <4>2
    <3>2. CASE i # Len(mels) + 1
      <4>1. i \in DOMAIN mels /\ mels'[i] = mels[i] BY <2>1, <2>2, <2>4, <3>2 DEF PipelineTypes
      <4> QED BY <4>1 DEF ChunksKept
    <3> QED BY <3>1, <3>2
  <2>6. Len(heard') + Len(mels') = Len(produced') BY <2>1, <2>3, <2>4 DEF PipelineTypes
  <2>7. Len(produced') - 0 = Len(produced') BY <2>1 DEF PipelineTypes
  <2> QED BY <2>1, <2>5, <2>6, <2>7 DEF ChunksKept
<1>10. CASE PushMelRefused BY <1>10 DEF PushMelRefused, ClosedInOrder
<1>11. CASE TakeMel
  <2>1. /\ UNCHANGED produced /\ heard' = Append(heard, Head(mels)) /\ mels' = Tail(mels)
        /\ mels # <<>> /\ at'["flow"] = at["flow"]
    BY <1>11 DEF TakeMel, Places, Threads
  <2>2. Head(mels) \in Chunks /\ Head(mels) = mels[1] /\ 1 \in DOMAIN mels BY <2>1 DEF PipelineTypes
  <2>3. Head(mels) = produced[Len(heard) + 1] BY <2>2 DEF ChunksKept
  <2>4. /\ Len(heard') = Len(heard) + 1 /\ Len(mels') = Len(mels) - 1
        /\ DOMAIN heard' = 1..Len(heard) + 1 /\ DOMAIN mels' = 1..Len(mels) - 1
    BY <2>1, <2>2 DEF PipelineTypes
  <2>5. ASSUME NEW i \in DOMAIN heard' PROVE heard'[i] = produced[i]
    <3>1. CASE i = Len(heard) + 1
      <4>1. heard'[i] = Head(mels) BY <2>1, <2>2, <3>1 DEF PipelineTypes
      <4> QED BY <2>3, <3>1, <4>1
    <3>2. CASE i # Len(heard) + 1
      <4>1. i \in DOMAIN heard /\ heard'[i] = heard[i] BY <2>1, <2>2, <2>4, <3>2 DEF PipelineTypes
      <4> QED BY <4>1 DEF ChunksKept
    <3> QED BY <3>1, <3>2
  <2>6. ASSUME NEW i \in DOMAIN mels' PROVE mels'[i] = produced[Len(heard') + i]
    <3>1. i \in Nat /\ i + 1 \in DOMAIN mels /\ mels'[i] = mels[i + 1]
      BY <2>1, <2>4 DEF PipelineTypes
    <3>2. mels[i + 1] = produced[Len(heard) + (i + 1)] BY <3>1 DEF ChunksKept
    <3>3. Len(heard) + (i + 1) = Len(heard') + i BY <2>4, <3>1 DEF PipelineTypes
    <3> QED BY <3>1, <3>2, <3>3
  <2>7. Len(heard') + Len(mels') = Len(heard) + Len(mels) BY <2>1, <2>4 DEF PipelineTypes
  <2> QED BY <2>1, <2>5, <2>6, <2>7 DEF ChunksKept
<1>12. CASE Vocode BY <1>1, <1>12 DEF Vocode, Places, Threads
<1>13. CASE MelsEnd BY <1>1, <1>13 DEF MelsEnd, Places, Threads
<1>14. ASSUME NEW t \in Threads, RecordError(t) PROVE ChunksKept'
  BY <1>14 DEF RecordError
<1>15. ASSUME NEW t \in Threads, ErrorRecorded(t) PROVE ChunksKept'
  BY <1>15 DEF ErrorRecorded, ClosedInOrder
<1>16. CASE ReportUtterance BY <1>1, <1>16 DEF ReportUtterance
<1> QED
  BY <1>2, <1>3, <1>4, <1>5, <1>6, <1>7, <1>8, <1>9, <1>10, <1>11, <1>12, <1>13,
     <1>14, <1>15, <1>16 DEF Next, LlmStep, FlowStep, HiftStep, Threads

(* What the vocoder has taken is what the flow thread cut. *)
LEMMA HeardWasCut ==
  ASSUME Places, PipelineTypes, ChunksKept
  PROVE  Len(heard) <= Len(produced)
BY DEF Places, PipelineTypes, ChunksKept

(* A chunk that is not the first begins where the one before it, which was not
   final, ends. *)
LEMMA ChunksMeet ==
  ASSUME PipelineTypes, CutRight, NEW k \in DOMAIN produced
  PROVE  /\ k = 1 => produced[k].from = 0
         /\ k > 1 => ~produced[k - 1].final /\ produced[k].from = produced[k - 1].to
<1>1. k \in Int BY DEF PipelineTypes
<1>2. produced[k].from = (k - 1) * Chunk BY DEF CutRight, Piece
<1>3. CASE k = 1 BY <1>2, <1>3, PipelineAssumption
<1>4. CASE k > 1
  <2>1. k - 1 \in DOMAIN produced /\ k - 1 \in Int BY <1>1, <1>4 DEF PipelineTypes
  <2>2. (k - 1) * Chunk < available BY DEF CutRight
  <2>3. (k - 1) * Chunk \in Int BY <2>1, Multiples
  <2>4. Smaller((k - 1) * Chunk, available) = (k - 1) * Chunk
    BY <2>2, <2>3 DEF Smaller, PipelineTypes
  <2>5. produced[k - 1] = Piece(k - 1, available) BY <2>1 DEF CutRight
  <2>6. produced[k - 1].to = (k - 1) * Chunk /\ produced[k - 1].final = ((k - 1) * Chunk = available)
    BY <2>4, <2>5 DEF Piece
  <2>7. (k - 1) * Chunk # available BY <2>2, <2>3 DEF PipelineTypes
  <2>8. ~produced[k - 1].final /\ produced[k].from = produced[k - 1].to BY <1>2, <2>6, <2>7
  <2> QED BY <1>1, <1>4, <2>8
<1> QED BY <1>1, <1>3, <1>4

(* The audio written is that of the chunks vocoded, the overlap kept back once. *)
THEOREM AudioKeptStep ==
  Places /\ PipelineTypes /\ PipeInv /\ Next /\ threw' = {} => AudioKept'
<1> SUFFICES ASSUME Places, PipelineTypes, PipeInv, Next, threw' = {}
             PROVE  AudioKept'
  OBVIOUS
<1> USE DEF Goes, flowVars, hiftVars, llmVars
<1>1. ASSUME UNCHANGED <<produced, heard, pcm>>, at'["hift"] = "vocoding" <=> at["hift"] = "vocoding"
      PROVE  AudioKept'
  BY <1>1 DEF PipeInv, AudioKept, Said
<1>2. CASE Sample BY <1>1, <1>2 DEF Sample, Places, Threads
<1>3. CASE SampleAgain BY <1>1, <1>3 DEF SampleAgain
<1>4. CASE PushToken BY <1>1, <1>4 DEF PushToken, Places, Threads
<1>5. CASE LlmEnds BY <1>1, <1>5 DEF LlmEnds, Places, Threads
<1>6. CASE TakeToken BY <1>1, <1>6 DEF TakeToken
<1>7. CASE TokensEnd BY <1>1, <1>7 DEF TokensEnd, Places, Threads
<1>8. CASE RunChunk
  <2> DEFINE k == IF at["hift"] = "vocoding" THEN Len(heard) - 1 ELSE Len(heard)
  <2>1. UNCHANGED <<heard, pcm>> /\ at'["hift"] = at["hift"]
    BY <1>8 DEF RunChunk, Places, Threads
  <2>2. k = 0 \/ k \in 1..Len(produced)
    <3>1. Len(heard) <= Len(produced) BY HeardWasCut DEF PipeInv
    <3>2. Len(heard) \in Nat /\ Len(produced) \in Nat BY DEF PipelineTypes
    <3>3. at["hift"] = "vocoding" => Len(heard) > 0 BY DEF Places, PipelineTypes
    <3>4. CASE at["hift"] = "vocoding"
      <4> DEFINE h == Len(heard)
                 p == Len(produced)
      <4>1. k = h - 1 BY <3>4
      <4>2. h <= p /\ h \in Nat /\ p \in Nat /\ h > 0 BY <3>1, <3>2, <3>3, <3>4
      <4> HIDE DEF h, p, k
      <4>3. k = 0 \/ k \in 1..p BY <4>1, <4>2
      <4> QED BY <4>3 DEF p
    <3>5. CASE at["hift"] # "vocoding" BY <3>1, <3>2, <3>5
    <3> QED BY <3>4, <3>5
  <2>3. \A i \in 1..Len(produced) : produced'[i] = produced[i]
    BY <1>8 DEF RunChunk, PipelineTypes
  <2>4. k' = k BY <2>1
  <2> HIDE DEF k
  <2>5. Said(k)' = Said(k) BY <2>2, <2>3, <2>4 DEF Said
  <2>6. pcm = Said(k) BY DEF PipeInv, AudioKept, k
  <2>7. AudioKept' <=> (pcm' = Said(k)') BY DEF AudioKept, k
  <2> QED BY <2>1, <2>5, <2>6, <2>7
<1>9. CASE PushMel BY <1>1, <1>9 DEF PushMel, Places, Threads
<1>10. CASE PushMelRefused BY <1>1, <1>10 DEF PushMelRefused, Places, Threads
<1>11. CASE TakeMel
  <2>1. /\ UNCHANGED <<produced, pcm>> /\ heard' = Append(heard, Head(mels))
        /\ mels # <<>> /\ at["hift"] = "waiting" /\ at'["hift"] = "vocoding"
    BY <1>11 DEF TakeMel, Places, Threads
  <2>2. Len(heard') - 1 = Len(heard) BY <2>1 DEF PipelineTypes
  <2> QED BY <2>1, <2>2 DEF PipeInv, AudioKept, Said
<1>12. CASE Vocode
  <2> DEFINE k == Len(heard)
             c == heard[Len(heard)]
  <2>1. /\ UNCHANGED <<produced, heard>>
        /\ pcm' = pcm + (c.to - c.from) + (IF k > 1 THEN Overlap ELSE 0)
                      - (IF c.final THEN 0 ELSE Overlap)
        /\ at["hift"] = "vocoding" /\ at'["hift"] = "waiting"
    BY <1>12 DEF Vocode, Places, Threads
  <2>2. k \in DOMAIN heard /\ k \in Nat \ {0} BY <2>1 DEF Places, PipelineTypes
  <2>3. k \in DOMAIN produced BY <2>2, HeardWasCut DEF PipeInv, PipelineTypes
  <2>4. c = produced[k] BY <2>2 DEF PipeInv, ChunksKept
  <2>5. pcm = Said(k - 1) BY <2>1 DEF PipeInv, AudioKept
  <2>6. /\ k = 1 => c.from = 0
        /\ k > 1 => ~produced[k - 1].final /\ c.from = produced[k - 1].to
    BY <2>3, <2>4, ChunksMeet DEF PipeInv
  <2>7. c \in Chunks BY <2>3, <2>4 DEF PipelineTypes
  <2>8. c.from \in Int /\ c.to \in Int BY <2>7 DEF Chunks
  <2> HIDE DEF c, k
  <2>9. pcm = c.from - (IF k > 1 THEN Overlap ELSE 0)
    <3>1. CASE k = 1 BY <2>5, <2>6, <3>1 DEF Said
    <3>2. CASE k > 1
      <4>1. k - 1 # 0 BY <2>2, <3>2
      <4> QED BY <2>5, <2>6, <3>2, <4>1 DEF Said
    <3> QED BY <2>2, <3>1, <3>2
  <2>10. pcm' = c.to - (IF c.final THEN 0 ELSE Overlap)
    BY <2>1, <2>8, <2>9, PipelineAssumption
  <2>11. pcm' = Said(k) BY <2>2, <2>4, <2>10 DEF Said
  <2> QED BY <2>1, <2>11 DEF AudioKept, Said, k
<1>13. CASE MelsEnd BY <1>1, <1>13 DEF MelsEnd, Places, Threads
<1>14. ASSUME NEW t \in Threads, RecordError(t) PROVE AudioKept'
  BY <1>14 DEF RecordError
<1>15. ASSUME NEW t \in Threads, ErrorRecorded(t) PROVE AudioKept'
  BY <1>15 DEF ErrorRecorded, PipeInv, ClosedInOrder
<1>16. CASE ReportUtterance BY <1>1, <1>16 DEF ReportUtterance
<1> QED
  BY <1>2, <1>3, <1>4, <1>5, <1>6, <1>7, <1>8, <1>9, <1>10, <1>11, <1>12, <1>13,
     <1>14, <1>15, <1>16 DEF Next, LlmStep, FlowStep, HiftStep, Threads

-----------------------------------------------------------------------------
(* The pipeline's invariant, for every length of chunk, lookahead and overlap,
   every size of the two queues and every limit of the line: what a thread has
   taken is what the one before it made, and the audio is that of the chunks
   the vocoder has taken. *)
THEOREM PipelineInvariant == Spec => []IInv
<1>1. Init => IInv
  <2> SUFFICES ASSUME Init PROVE IInv
    OBVIOUS
  <2>1. Places /\ PipelineTypes /\ Reported BY InitTypes
  <2>2. ClosedInOrder BY DEF Init, ClosedInOrder, Threads
  <2>3. TokensKept BY DEF Init, TokensKept
  <2>4. CutRight
    <3>1. Smaller(Len(<<>>) * Chunk, 0) = 0 BY PipelineAssumption DEF Smaller
    <3> QED BY <3>1 DEF Init, CutRight
  <2>5. ChunksKept BY DEF Init, ChunksKept
  <2>6. AudioKept BY DEF Init, AudioKept, Said
  <2> QED BY <2>1, <2>2, <2>3, <2>4, <2>5, <2>6 DEF IInv, PipeInv
<1>2. IInv /\ [Next]_vars => IInv'
  <2> SUFFICES ASSUME IInv, [Next]_vars PROVE IInv'
    OBVIOUS
  <2>1. CASE UNCHANGED vars
    BY <2>1 DEF vars, IInv, Places, PipelineTypes, Reported, Joined, Incomplete, PipeInv,
       ClosedInOrder, TokensKept, CutRight, ChunksKept, AudioKept, Said
  <2>2. CASE Next
    <3>1. Places' /\ PipelineTypes' /\ Reported'
      BY <2>2, PlacesStep, TypesStep, ReportedStep DEF IInv
    <3>2. ASSUME threw' = {} PROVE PipeInv'
      <4>1. threw = {}
        BY <2>2, <3>2 DEF Next, LlmStep, FlowStep, HiftStep, Sample, SampleAgain, PushToken,
           LlmEnds, TakeToken, TokensEnd, RunChunk, PushMel, PushMelRefused, TakeMel, Vocode,
           MelsEnd, RecordError, ErrorRecorded, ReportUtterance
      <4>2. PipeInv /\ Places /\ PipelineTypes BY <4>1 DEF IInv
      <4>3. ClosedInOrder' BY <2>2, <3>2, <4>2, ClosedInOrderStep DEF PipeInv
      <4>4. TokensKept' BY <2>2, <3>2, <4>2, TokensKeptStep DEF PipeInv
      <4>5. CutRight' BY <2>2, <3>2, <4>2, CutRightStep DEF PipeInv
      <4>6. ChunksKept' BY <2>2, <3>2, <4>2, ChunksKeptStep DEF PipeInv
      <4>7. AudioKept' BY <2>2, <3>2, <4>2, AudioKeptStep
      <4> QED BY <4>3, <4>4, <4>5, <4>6, <4>7 DEF PipeInv
    <3> QED BY <3>1, <3>2 DEF IInv
  <2> QED BY <2>1, <2>2
<1> QED BY <1>1, <1>2, PTL DEF Spec

(* The number of chunks of n tokens. *)
LEMMA Pieces ==
  ASSUME NEW n \in Nat, NEW k \in Nat, n <= k * Chunk, k = 0 \/ (k - 1) * Chunk < n
  PROVE  k = (n + Chunk - 1) \div Chunk
<1> DEFINE q == (n + Chunk - 1) \div Chunk
<1>1. Chunk \in Nat /\ Chunk > 0 BY PipelineAssumption
<1>2. k * Chunk \in Int /\ (k - 1) * Chunk = k * Chunk - Chunk BY Multiples
<1>3. k * Chunk <= n + Chunk - 1 /\ n + Chunk - 1 < k * Chunk + Chunk
  BY <1>1, <1>2
<1>4. n + Chunk - 1 \in Nat BY <1>1
<1>5. q \in Int /\ q * Chunk <= n + Chunk - 1 /\ n + Chunk - 1 < q * Chunk + Chunk
  BY <1>1, <1>4
<1> HIDE DEF q
<1>6. q * Chunk < (k + 1) * Chunk /\ k * Chunk < (q + 1) * Chunk
  BY <1>1, <1>2, <1>3, <1>5, Multiples
<1>7. q < k + 1 /\ k < q + 1
  BY <1>1, <1>5, <1>6
<1>8. k = q BY <1>5, <1>7
<1> QED BY <1>8 DEF q

(* When the threads are over and none threw, the chunks are those of the
   length of the line. *)
LEMMA CutWhenJoined ==
  ASSUME IInv, Joined, threw = {}
  PROVE  /\ generated = available
         /\ produced = Cutting(generated)
         /\ heard = produced
<1>1. /\ at["llm"] = "over" /\ at["flow"] = "over" /\ at["hift"] = "over"
      /\ PipelineTypes /\ PipeInv
  BY DEF Joined, Threads, IInv
<1>2. tokens = 0 /\ producerClosed /\ available = next /\ mels = <<>>
  BY <1>1 DEF PipeInv, ClosedInOrder
<1>3. generated = available BY <1>1, <1>2 DEF PipeInv, TokensKept, PipelineTypes
<1>4. heard = produced
  <2>1. Len(heard) = Len(produced) BY <1>1, <1>2 DEF PipeInv, ChunksKept, PipelineTypes
  <2>2. \A i \in 1..Len(produced) : heard[i] = produced[i]
    BY <1>1, <2>1 DEF PipeInv, ChunksKept, PipelineTypes
  <2> QED BY <1>1, <2>1, <2>2 DEF PipelineTypes
<1> DEFINE k == Len(produced)
<1>5. k \in Nat /\ produced = [i \in 1..k |-> produced[i]] BY <1>1 DEF PipelineTypes
<1>6. k = (generated + Chunk - 1) \div Chunk
  <2>1. available = Smaller(k * Chunk, available)
    BY <1>1, <1>2 DEF PipeInv, CutRight
  <2>2. k * Chunk \in Int BY <1>5, Multiples
  <2>3. available <= k * Chunk BY <1>1, <2>1, <2>2 DEF Smaller, PipelineTypes
  <2>4. k = 0 \/ (k - 1) * Chunk < available
    BY <1>1, <1>5 DEF PipeInv, CutRight, PipelineTypes
  <2> HIDE DEF k
  <2> QED BY <1>1, <1>3, <1>5, <2>3, <2>4, Pieces DEF PipelineTypes
<1>7. \A i \in 1..k : produced[i] = Piece(i, generated)
  BY <1>1, <1>3, <1>5 DEF PipeInv, CutRight, PipelineTypes
<1> HIDE DEF k
<1>8. Cutting(generated) = [i \in 1..k |-> Piece(i, generated)]
  BY <1>6 DEF Cutting, Piece
<1>9. produced = Cutting(generated) BY <1>5, <1>7, <1>8
<1> QED BY <1>3, <1>4, <1>9

(* ... and the audio is that of every token. *)
LEMMA AudioWhenJoined ==
  ASSUME IInv, Joined, threw = {}
  PROVE  pcm = generated
<1>1. generated = available /\ heard = produced BY CutWhenJoined
<1>2. at["hift"] = "over" /\ at["flow"] = "over" /\ PipelineTypes /\ PipeInv
  BY DEF Joined, Threads, IInv
<1> DEFINE k == Len(produced)
<1>3. pcm = Said(k) BY <1>1, <1>2 DEF PipeInv, AudioKept
<1>4. available = Smaller(k * Chunk, available)
  BY <1>2 DEF PipeInv, CutRight, ClosedInOrder
<1>5. k \in Nat BY <1>2 DEF PipelineTypes
<1>6. CASE k = 0
  BY <1>1, <1>2, <1>3, <1>4, <1>6, PipelineAssumption DEF Said, Smaller, PipelineTypes
<1>7. CASE k # 0
  <2>1. k \in DOMAIN produced BY <1>2, <1>5, <1>7 DEF PipelineTypes
  <2>2. produced[k] = Piece(k, available) BY <1>2, <2>1 DEF PipeInv, CutRight
  <2> HIDE DEF k
  <2>3. produced[k].to = available /\ produced[k].final
    <3>1. /\ produced[k].to = Smaller(k * Chunk, available)
          /\ produced[k].final = (Smaller(k * Chunk, available) = available)
      BY <2>2 DEF Piece
    <3> QED BY <1>4, <3>1
  <2>4. pcm = available BY <1>2, <1>3, <1>7, <2>3 DEF Said, PipelineTypes
  <2> QED BY <1>1, <2>4
<1> QED BY <1>6, <1>7

(* synthesize() cuts a line by its length alone, on every schedule of its
   threads, and a line that has any speech is spoken whole unless a thread
   threw: "incomplete output" is never reported otherwise. *)
THEOREM SpokenAsCutAlways == Spec => []SpokenAsCut
<1>1. IInv => SpokenAsCut
  <2> SUFFICES ASSUME IInv PROVE SpokenAsCut
    OBVIOUS
  <2>1. CutByLengthAlone BY CutWhenJoined DEF CutByLengthAlone
  <2>2. SaysItWhole
    <3> SUFFICES ASSUME report = "FAIL", threw = {}, generated # 0 PROVE FALSE
      BY DEF SaysItWhole
    <3>1. Joined /\ Incomplete BY DEF IInv, Reported
    <3>2. pcm = generated BY <3>1, AudioWhenJoined
    <3>3. produced = <<>> \/ heard = <<>> BY <3>1, <3>2 DEF Incomplete
    <3>4. heard = produced /\ generated = available BY <3>1, CutWhenJoined
    <3>5. produced = <<>> BY <3>3, <3>4
    <3>6. Said(0) = 0 /\ Len(produced) = 0 BY <3>5 DEF Said
    <3>7. at["hift"] = "over" /\ PipeInv BY <3>1 DEF Joined, Threads, IInv
    <3>8. pcm = Said(Len(produced)) BY <3>4, <3>7 DEF PipeInv, AudioKept
    <3> QED BY <3>2, <3>6, <3>8
  <2> QED BY <2>1, <2>2 DEF SpokenAsCut
<1> QED BY <1>1, PipelineInvariant, PTL
-----------------------------------------------------------------------------
(* TtsFlow.  What the past of an utterance is does not depend on the state:   *)
(* u is its number, v how many tokens the voice profile covers.               *)

Own(u, i, covered) == <<IF i < covered THEN 0 ELSE u, i>>

\* The encoder has the tokens before start that its cache has room for, at its end.
HasTokens(u, v, e, start) ==
  /\ \A i \in 1..TokenCache : e.valid[i] = (i > TokenCache - Lesser(start, TokenCache))
  /\ \A i \in 1..TokenCache :
       i > TokenCache - Lesser(start, TokenCache) => e.cache[i] = Own(u, start - TokenCache + i - 1, v)

RecentOf(frames) == Lesser(frames - PromptFrames, RecentFrames)
ShownOf(frames) == IF frames <= PromptFrames THEN frames ELSE PromptFrames + RecentOf(frames)
ShownAt(frames, i) == IF i <= PromptFrames THEN i - 1 ELSE frames - RecentOf(frames) + (i - PromptFrames) - 1

\* A graph has the prompt and the last of the frames after it.
HasFrames(u, v, g, frames) ==
  /\ frames > 0 => g.conv = Own(u, frames - 1, 2 * v)
  /\ \A i \in 1..ShownOf(frames) : g.kv[i] = Own(u, ShownAt(frames, i), 2 * v)

\* The frames to be made, and those the flow model has run for.
Utterance == 2 * (total - PromptTokens)
Done == IF parts = <<>> THEN 2 * nextStart ELSE parts[1].from

FlowTypes ==
  /\ options \in [whole : BOOLEAN, steady : BOOLEAN, batch : BOOLEAN]
  /\ flowAt \in {"idle", "voice", "loop", "hand over", "two", "tail", "parts"}
  /\ utterance \in Nat /\ total \in Nat /\ nextStart \in Nat
  /\ steadyReady \in BOOLEAN
  /\ graph = [g \in {"flow", "steady"} |-> graph[g]]

WaitingPart == [from : Nat, frames : Nat, final : BOOLEAN]

\* The parts that wait for the flow model, in order up to nextStart.
PartsWait ==
  /\ parts \in Seq(WaitingPart)
  /\ flowAt \in {"voice", "hand over"} => parts = <<>>
  /\ flowAt = "loop" /\ parts # <<>> =>
       /\ Len(parts) = 1 /\ nextStart < total
       /\ parts[1] = [from |-> 2 * (nextStart - ChunkTokens), frames |-> ChunkFrames, final |-> FALSE]
  /\ flowAt = "two" =>
       /\ Len(parts) = 2 /\ parts[1].from = 2 * nextStart - 2 * ChunkFrames
       /\ parts[2].final = (nextStart = total)
  /\ flowAt \in {"tail", "parts"} =>
       /\ nextStart = total /\ Len(parts) \in 1..2
       /\ \A j \in 1..Len(parts) : parts[j].final = (j = Len(parts))
       /\ parts[Len(parts)].frames \in 1..ChunkFrames
       /\ parts[Len(parts)].from + parts[Len(parts)].frames = 2 * total
       /\ Len(parts) = 2 =>
            /\ parts[1].frames = ChunkFrames /\ parts[1].from + ChunkFrames = parts[2].from
            /\ parts[2].frames < ChunkFrames

\* Where flow_thread is: what is made ready for it and what waits.
LoopRight ==
  /\ profile = NoProfile => flowAt \in {"idle", "voice"} /\ nextStart <= VoiceTokens
  /\ flowAt # "idle" =>
       /\ noise = chunkNo /\ total > PromptTokens /\ nextStart <= total
       /\ nextStart < PromptTokens => nextStart \in {0, ChunkTokens}
       /\ flowAt = "voice" => ~steadyReady /\ profile = NoProfile /\ mel = <<>>
       /\ flowAt = "hand over" => options.steady /\ ~steadyReady /\ nextStart > PromptTokens /\ mel # <<>>
       /\ flowAt \in {"two", "tail", "parts"} \/ parts # <<>> => steadyReady
       /\ flowAt = "loop" => (steadyReady <=> options.steady /\ mel # <<>>)
       /\ steadyReady => options.steady /\ Done > PromptFrames
       /\ flowAt # "voice" => VoiceTokens <= nextStart
       /\ PartsWait

\* While tokens are left, the encoder has the last of those it ran for.
EncoderRight == flowAt # "idle" /\ nextStart < total => HasTokens(utterance, VoiceTokens, encoder, nextStart)

\* The graph that runs next has the frames before it.
Running == IF steadyReady /\ flowAt # "parts" THEN "steady" ELSE "flow"
GraphRight == flowAt # "idle" /\ Done < 2 * total => HasFrames(utterance, VoiceTokens, graph[Running], Done)

\* A profile is what the prompt makes of two empty caches.
ProfileRight ==
  profile # NoProfile => /\ HasTokens(0, VoiceTokens, profile.encoder, VoiceTokens)
                         /\ HasFrames(0, VoiceTokens, profile.flow, 2 * VoiceTokens)

\* The last run was shown the past of the utterance and nothing else.
RanRight ==
  /\ ran.start \in Nat /\ ran.start <= nextStart /\ ran.frame \in Nat /\ ran.frame <= 2 * nextStart
  /\ ran.tokens = [i \in (TokenCache - Lesser(ran.start, TokenCache) + 1)..TokenCache |->
                     Own(utterance, ran.start - TokenCache + i - 1, VoiceTokens)]
  /\ ran.frame > 0 =>
       /\ ran.conv = Own(utterance, ran.frame - 1, 2 * VoiceTokens)
       /\ ran.kv = [i \in 1..ShownOf(ran.frame) |-> Own(utterance, ShownAt(ran.frame, i), 2 * VoiceTokens)]

\* produced_mel is the frames of the utterance that were run for, in order.
MelRight ==
  flowAt # "idle" =>
    /\ mel = Rows(utterance, PromptFrames, Len(mel))
    /\ Len(mel) = IF Done <= PromptFrames THEN 0 ELSE Done - PromptFrames

\* Where a chunk of Mel frames may end that begins at p, of an utterance of
\* length frames.
NextCut(steady, length, p, q) ==
  /\ p < q /\ q <= length
  /\ \/ q = length /\ q - p <= ChunkFrames
     \/ /\ q - p = ChunkFrames
        /\ p = 0 \/ ~steady \/ length < p + 2 * ChunkFrames
     \/ steady /\ p > 0 /\ q - p = 2 * ChunkFrames

QueueEntry == [to : Nat, final : BOOLEAN]

\* The queue, from what the vocoder has heard to the frames there are.
Before(queue, was, k) == IF k = 1 THEN was ELSE queue[k - 1].to

QueueOf(queue, was, size, steady, length) ==
  /\ queue \in Seq(QueueEntry) /\ was \in Nat
  /\ \A k \in 1..Len(queue) :
       /\ NextCut(steady, length, Before(queue, was, k), queue[k].to) /\ queue[k].to <= size
       /\ queue[k].final = (queue[k].to = length)
  /\ Before(queue, was, Len(queue) + 1) = size

\* It takes the vocoder from what it has heard to all there is.
QueueRight == flowAt # "idle" => QueueOf(melQueue, vocoder.heard, Len(mel), options.steady, Utterance)

\* The vocoder keeps the last frames it heard, all three times the same, and has
\* said all before them.
VocoderRight ==
  /\ \A pair \in vocoder.met : pair[1] = pair[2]
  /\ flowAt # "idle" =>
       /\ vocoder.calls \in Nat /\ (vocoder.calls = 0 <=> vocoder.heard = 0)
       /\ vocoder.heard = 0 => vocoder.context = <<>> /\ vocoder.cache = <<>> /\ vocoder.source = <<>> /\ vocoder.wave = <<>>
       /\ vocoder.heard > 0 /\ vocoder.heard < Utterance =>
            /\ vocoder.heard >= ChunkFrames
            /\ vocoder.context = Rows(utterance, PromptFrames + vocoder.heard - ContextFrames, ContextFrames)
            /\ vocoder.cache = vocoder.context /\ vocoder.source = vocoder.context
            /\ vocoder.wave = Rows(utterance, PromptFrames, vocoder.heard - ContextFrames)
       /\ vocoder.heard = Utterance => vocoder.wave = Rows(utterance, PromptFrames, Utterance)

\* The inductive invariant of TtsFlow.
FlowInv ==
  /\ FlowTypes /\ LoopRight /\ EncoderRight /\ GraphRight /\ ProfileRight
  /\ RanRight /\ MelRight /\ QueueRight /\ VocoderRight

\* The numbers of the flow model, from the assumption on the constants.
LEMMA FlowNumbers ==
  /\ ChunkTokens \in Nat \ {0} /\ PromptTokens = 2 * ChunkTokens /\ PromptTokens \in Nat
  /\ TokenCache \in Nat /\ TokenCache > PromptTokens
  /\ RecentFrames = 4 * ChunkTokens /\ RecentFrames \in Nat
  /\ ChunkFrames = 2 * ChunkTokens /\ ChunkFrames \in Nat \ {0}
  /\ PromptFrames = 4 * ChunkTokens /\ PromptFrames \in Nat
  /\ FlowCache = 8 * ChunkTokens /\ FlowCache \in Nat
  /\ ContextFrames \in 1..ChunkFrames
<1>1. /\ ChunkTokens \in Nat \ {0} /\ PromptTokens = 2 * ChunkTokens /\ PromptTokens \in Nat
      /\ RecentFrames = 4 * ChunkTokens /\ RecentFrames \in Nat
      /\ TokenCache > PromptTokens
  BY FlowAssumption
<1>2. TokenCache \in Nat
  BY FlowAssumption
<1>3. /\ ChunkFrames = 2 * ChunkTokens /\ ChunkFrames \in Nat \ {0}
      /\ PromptFrames = 4 * ChunkTokens /\ PromptFrames \in Nat
  BY <1>1 DEF ChunkFrames, PromptFrames
<1>4. FlowCache = 8 * ChunkTokens /\ FlowCache \in Nat
  BY <1>1, <1>3 DEF FlowCache
<1>5. ContextFrames \in 1..ChunkFrames
  BY <1>3, FlowAssumption
<1>6. QED BY <1>1, <1>2, <1>3, <1>4, <1>5

\* What Lesser() returns.
LEMMA LesserIs ==
  ASSUME NEW a \in Int, NEW b \in Int
  PROVE  /\ Lesser(a, b) \in Int /\ Lesser(a, b) <= a /\ Lesser(a, b) <= b
         /\ a <= b => Lesser(a, b) = a
         /\ b <= a => Lesser(a, b) = b
<1>1. CASE a < b
  BY <1>1 DEF Lesser
<1>2. CASE ~(a < b)
  <2>1. Lesser(a, b) = b
    BY <1>2 DEF Lesser
  <2>2. QED BY <1>2, <2>1
<1>3. QED BY <1>1, <1>2

\* Rows, one by one.
LEMMA RowsAre ==
  ASSUME NEW u, NEW f \in Int, NEW n \in Nat
  PROVE  /\ Rows(u, f, n) \in Seq({u} \X Int) /\ Len(Rows(u, f, n)) = n
         /\ \A i \in 1..n : Rows(u, f, n)[i] = <<u, f + i - 1>>
<1>1. Rows(u, f, n) \in [1..n -> {u} \X Int]
  BY DEF Rows
<1>2. QED BY <1>1 DEF Rows

\* A sequence of the right rows is Rows().
LEMMA RowsEqual ==
  ASSUME NEW u, NEW f \in Int, NEW n \in Nat, NEW S, NEW s \in Seq(S), Len(s) = n,
         \A i \in 1..n : s[i] = <<u, f + i - 1>>
  PROVE  s = Rows(u, f, n)
<1>1. s = [i \in 1..n |-> s[i]]
  OBVIOUS
<1>2. QED BY <1>1 DEF Rows

\* Frames that follow on others.
LEMMA RowsJoin ==
  ASSUME NEW u, NEW f \in Int, NEW n \in Nat, NEW m \in Nat
  PROVE  Rows(u, f, n) \o Rows(u, f + n, m) = Rows(u, f, n + m)
<1> DEFINE a == Rows(u, f, n)
           b == Rows(u, f + n, m)
<1>1. /\ a \in Seq({u} \X Int) /\ Len(a) = n /\ \A i \in 1..n : a[i] = <<u, f + i - 1>>
      /\ b \in Seq({u} \X Int) /\ Len(b) = m /\ \A i \in 1..m : b[i] = <<u, f + n + i - 1>>
  <2>1. f + n \in Int
    OBVIOUS
  <2>2. QED BY <2>1, RowsAre
<1> HIDE DEF a, b
<1>2. /\ a \o b \in Seq({u} \X Int) /\ Len(a \o b) = n + m
      /\ \A i \in 1..(n + m) : (a \o b)[i] = IF i <= n THEN a[i] ELSE b[i - n]
  <2>1. /\ a \o b \in Seq({u} \X Int) /\ Len(a \o b) = Len(a) + Len(b)
        /\ \A i \in 1..Len(a) + Len(b) : (a \o b)[i] = IF i <= Len(a) THEN a[i] ELSE b[i - Len(a)]
    BY <1>1, ConcatProperties
  <2>2. Len(a) = n /\ Len(b) = m
    BY <1>1
  <2>3. QED BY <2>1, <2>2
<1>3. ASSUME NEW i \in 1..(n + m) PROVE (a \o b)[i] = <<u, f + i - 1>>
  <2>1. CASE i <= n
    <3>1. i \in 1..n
      BY <2>1
    <3>2. QED BY <1>1, <1>2, <2>1, <3>1
  <2>2. CASE ~(i <= n)
    <3>1. i - n \in 1..m
      BY <2>2
    <3>2. f + n + (i - n) - 1 = f + i - 1
      OBVIOUS
    <3>3. b[i - n] = <<u, f + n + (i - n) - 1>>
      BY <1>1, <3>1
    <3>4. (a \o b)[i] = b[i - n]
      BY <1>2, <2>2
    <3>5. QED BY <3>2, <3>3, <3>4
  <2>3. QED BY <2>1, <2>2
<1>4. n + m \in Nat
  OBVIOUS
<1>5. a \o b = Rows(u, f, n + m)
  BY <1>2, <1>3, <1>4, RowsEqual
<1>6. QED BY <1>5 DEF a, b

\* And a part of them.
LEMMA RowsPart ==
  ASSUME NEW u, NEW f \in Int, NEW n \in Nat, NEW first \in 1..(n + 1), NEW last \in (first - 1)..n
  PROVE  SubSeq(Rows(u, f, n), first, last) = Rows(u, f + first - 1, last - first + 1)
<1> DEFINE a == Rows(u, f, n)
           b == SubSeq(a, first, last)
<1>1. a \in Seq({u} \X Int) /\ Len(a) = n /\ \A i \in 1..n : a[i] = <<u, f + i - 1>>
  BY RowsAre
<1> HIDE DEF a
<1>2. last - first + 1 \in Nat /\ f + first - 1 \in Int
  OBVIOUS
<1>3. /\ Len(b) = last - first + 1
      /\ \A i \in 1..(last - first + 1) : b[i] = a[i + first - 1] /\ i + first - 1 \in 1..n
  BY <1>1
<1>4. b \in Seq({u} \X Int)
  BY <1>1
<1>5. \A i \in 1..(last - first + 1) : b[i] = <<u, (f + first - 1) + i - 1>>
  BY <1>1, <1>3
<1> HIDE DEF b
<1>6. b = Rows(u, f + first - 1, last - first + 1)
  BY <1>2, <1>3, <1>4, <1>5, RowsEqual
<1>7. QED BY <1>6 DEF a, b

\* The last of them.
LEMMA RowsLast ==
  ASSUME NEW u, NEW f \in Int, NEW n \in Nat, NEW k \in 0..n
  PROVE  LastOf(Rows(u, f, n), k) = Rows(u, f + n - k, k)
<1>1. Len(Rows(u, f, n)) = n /\ \A i \in 1..n : Rows(u, f, n)[i] = <<u, f + i - 1>>
  BY RowsAre
<1>2. \A i \in 1..k : Rows(u, f, n)[n - k + i] = <<u, (f + n - k) + i - 1>>
  <2>1. \A i \in 1..k : n - k + i \in 1..n /\ f + (n - k + i) - 1 = (f + n - k) + i - 1
    OBVIOUS
  <2>2. QED BY <1>1, <2>1
<1>3. LastOf(Rows(u, f, n), k) = [i \in 1..k |-> Rows(u, f, n)[n - k + i]]
  BY <1>1 DEF LastOf
<1>4. Rows(u, f + n - k, k) = [i \in 1..k |-> <<u, (f + n - k) + i - 1>>]
  BY DEF Rows
<1>5. QED BY <1>2, <1>3, <1>4

\* What an utterance and the profile are called by does not depend on the
\* number of the utterance where the profile covers it.
LEMMA OwnCovered ==
  ASSUME NEW u, NEW w, NEW c \in Int, NEW i \in Int, i < c
  PROVE  Own(u, i, c) = <<0, i>> /\ Own(u, i, c) = Own(w, i, c)
  BY DEF Own

\* What the profile does not cover is the utterance's own.
LEMMA OwnBeyond ==
  ASSUME NEW u, NEW c \in Int, NEW i \in Int, i >= c
  PROVE  Own(u, i, c) = <<u, i>>
<1>1. ~(i < c)
  OBVIOUS
<1>2. QED BY <1>1 DEF Own

\* As long as only the profile is in the encoder's cache, it is any utterance's.
LEMMA TokensCovered ==
  ASSUME NEW u, NEW w, NEW v \in Nat, NEW e, NEW start \in Nat, start <= v, HasTokens(u, v, e, start)
  PROVE  HasTokens(w, v, e, start)
<1>1. TokenCache \in Nat
  BY FlowNumbers
<1>2. ASSUME NEW i \in 1..TokenCache, i > TokenCache - Lesser(start, TokenCache)
      PROVE  e.cache[i] = Own(w, start - TokenCache + i - 1, v)
  <2>1. e.cache[i] = Own(u, start - TokenCache + i - 1, v)
    BY <1>2 DEF HasTokens
  <2>2. start - TokenCache + i - 1 \in Int /\ start - TokenCache + i - 1 < v
    BY <1>1
  <2>3. QED BY <2>1, <2>2, OwnCovered
<1>3. QED BY <1>2 DEF HasTokens

\* And so it is for the flow model's.
LEMMA FramesCovered ==
  ASSUME NEW u, NEW w, NEW v \in Nat, NEW g, NEW p \in Nat, p <= 2 * v, HasFrames(u, v, g, p)
  PROVE  HasFrames(w, v, g, p)
<1>1. PromptFrames \in Nat /\ RecentFrames \in Nat
  BY FlowNumbers
<1>2. ASSUME p > 0 PROVE g.conv = Own(w, p - 1, 2 * v)
  <2>1. p - 1 \in Int /\ 2 * v \in Int /\ p - 1 < 2 * v
    OBVIOUS
  <2>2. QED BY <1>2, <2>1, OwnCovered DEF HasFrames
<1>3. ASSUME NEW i \in 1..ShownOf(p) PROVE g.kv[i] = Own(w, ShownAt(p, i), 2 * v)
  <2>1. ShownAt(p, i) \in Int /\ ShownAt(p, i) < 2 * v
    <3>1. CASE p <= PromptFrames
      <4>1. i \in Int /\ i <= p /\ i <= PromptFrames
        BY <1>1, <3>1 DEF ShownOf
      <4>2. ShownAt(p, i) = i - 1
        BY <4>1 DEF ShownAt
      <4>3. QED BY <4>1, <4>2
    <3>2. CASE ~(p <= PromptFrames)
      <4>1. RecentOf(p) \in Nat /\ RecentOf(p) <= p - PromptFrames
        BY <1>1, <3>2 DEF RecentOf, Lesser
      <4>2. i \in Int /\ i <= PromptFrames + RecentOf(p)
        BY <1>1, <3>2, <4>1 DEF ShownOf
      <4>3. ShownAt(p, i) = i - 1 \/ ShownAt(p, i) = p - RecentOf(p) + (i - PromptFrames) - 1
        BY DEF ShownAt
      <4>4. i <= PromptFrames => ShownAt(p, i) = i - 1
        BY DEF ShownAt
      <4>5. QED BY <1>1, <3>2, <4>1, <4>2, <4>3, <4>4
    <3>3. QED BY <3>1, <3>2
  <2>2. 2 * v \in Int /\ g.kv[i] = Own(u, ShownAt(p, i), 2 * v)
    BY DEF HasFrames
  <2>3. QED BY <2>1, <2>2, OwnCovered
<1>4. QED BY <1>2, <1>3 DEF HasFrames

\* The encoder, after a chunk that is full.
LEMMA EncodedHasTokens ==
  ASSUME NEW u, NEW w, NEW v \in Nat, NEW e, NEW start \in Nat, HasTokens(u, v, e, start),
         \A i \in 0..(ChunkTokens - 1) : Own(u, start + i, v) = <<w, start + i>>
  PROVE  HasTokens(u, v, Encoded(e, Rows(w, start, ChunkTokens)), start + ChunkTokens)
<1> DEFINE rows == Rows(w, start, ChunkTokens)
           after == start + ChunkTokens
<1>1. /\ ChunkTokens \in Nat \ {0} /\ TokenCache \in Nat /\ TokenCache > 2 * ChunkTokens
  BY FlowNumbers
<1>2. Len(rows) = ChunkTokens /\ \A i \in 1..ChunkTokens : rows[i] = <<w, start + i - 1>>
  <2>1. start \in Int /\ ChunkTokens \in Nat
    BY <1>1
  <2>2. QED BY <2>1, RowsAre
<1>3. /\ Lesser(start, TokenCache) \in Nat /\ Lesser(after, TokenCache) \in Nat
      /\ TokenCache - Lesser(after, TokenCache) = IF after <= TokenCache THEN TokenCache - after ELSE 0
      /\ TokenCache - Lesser(start, TokenCache) = IF start <= TokenCache THEN TokenCache - start ELSE 0
  BY <1>1 DEF Lesser
<1> DEFINE shown == TokenCache - Lesser(after, TokenCache)
           before == TokenCache - Lesser(start, TokenCache)
           next1 == Encoded(e, rows)
<1>4. ASSUME NEW i \in 1..TokenCache
      PROVE  /\ next1.cache[i] = IF i <= TokenCache - ChunkTokens THEN e.cache[i + ChunkTokens]
                                 ELSE rows[i + ChunkTokens - TokenCache]
             /\ next1.valid[i] = IF i <= TokenCache - ChunkTokens THEN e.valid[i + ChunkTokens] ELSE TRUE
  <2>1. i + ChunkTokens - TokenCache <= 0 <=> i <= TokenCache - ChunkTokens
    BY <1>1
  <2>2. i + ChunkTokens - TokenCache <= Len(rows)
    BY <1>1, <1>2
  <2> HIDE DEF rows
  <2>3. QED BY <2>1, <2>2 DEF Encoded
<1> HIDE DEF rows, shown, before, next1
<1>5. ASSUME NEW i \in 1..TokenCache, i <= TokenCache - ChunkTokens
      PROVE  /\ i + ChunkTokens \in 1..TokenCache
             /\ (i > shown) = (i + ChunkTokens > before)
             /\ start - TokenCache + (i + ChunkTokens) - 1 = after - TokenCache + i - 1
  BY <1>1, <1>3, <1>5 DEF shown, before
<1>6. ASSUME NEW i \in 1..TokenCache, ~(i <= TokenCache - ChunkTokens)
      PROVE  /\ i + ChunkTokens - TokenCache \in 1..ChunkTokens /\ i > shown
             /\ start + (i + ChunkTokens - TokenCache) - 1 = after - TokenCache + i - 1
             /\ start + (i + ChunkTokens - TokenCache - 1) = after - TokenCache + i - 1
             /\ i + ChunkTokens - TokenCache - 1 \in 0..(ChunkTokens - 1)
  BY <1>1, <1>3, <1>6 DEF shown
<1>7. ASSUME NEW i \in 1..TokenCache PROVE next1.valid[i] = (i > shown)
  <2>1. CASE i <= TokenCache - ChunkTokens
    <3>1. e.valid[i + ChunkTokens] = (i + ChunkTokens > before)
      BY <1>5, <2>1 DEF HasTokens, before
    <3>2. next1.valid[i] = e.valid[i + ChunkTokens]
      BY <1>4, <2>1
    <3>3. (i > shown) = (i + ChunkTokens > before)
      BY <1>5, <2>1
    <3>4. QED BY <3>1, <3>2, <3>3
  <2>2. CASE ~(i <= TokenCache - ChunkTokens)
    BY <1>4, <1>6, <2>2
  <2>3. QED BY <2>1, <2>2
<1>8. ASSUME NEW i \in 1..TokenCache, i > shown PROVE next1.cache[i] = Own(u, after - TokenCache + i - 1, v)
  <2>1. CASE i <= TokenCache - ChunkTokens
    <3>1. e.cache[i + ChunkTokens] = Own(u, start - TokenCache + (i + ChunkTokens) - 1, v)
      BY <1>5, <1>8, <2>1 DEF HasTokens, before
    <3>2. next1.cache[i] = e.cache[i + ChunkTokens]
      BY <1>4, <2>1
    <3>3. QED BY <1>5, <2>1, <3>1, <3>2
  <2>2. CASE ~(i <= TokenCache - ChunkTokens)
    <3>1. next1.cache[i] = rows[i + ChunkTokens - TokenCache]
      BY <1>4, <2>2
    <3>2. rows[i + ChunkTokens - TokenCache] = <<w, after - TokenCache + i - 1>>
      BY <1>2, <1>6, <2>2
    <3>3. Own(u, after - TokenCache + i - 1, v) = <<w, after - TokenCache + i - 1>>
      BY <1>6, <2>2
    <3>4. QED BY <3>1, <3>2, <3>3
  <2>3. QED BY <2>1, <2>2
<1> HIDE DEF after
<1>9. HasTokens(u, v, next1, after)
  BY <1>7, <1>8 DEF HasTokens, shown
<1>10. QED BY <1>9 DEF next1, rows, after

\* What it is shown is what it has.
LEMMA SeesTokens ==
  ASSUME NEW u, NEW v, NEW e, NEW start \in Nat, HasTokens(u, v, e, start)
  PROVE  EncoderSees(e) = [i \in (TokenCache - Lesser(start, TokenCache) + 1)..TokenCache |->
                             Own(u, start - TokenCache + i - 1, v)]
<1>1. TokenCache \in Nat /\ Lesser(start, TokenCache) \in Nat /\ Lesser(start, TokenCache) <= TokenCache
  BY FlowNumbers DEF Lesser
<1> DEFINE shown == TokenCache - Lesser(start, TokenCache)
           V == {j \in 1..TokenCache : e.valid[j]}
<1>2. \A j \in 1..TokenCache : e.valid[j] = (j > shown)
  BY DEF HasTokens
<1>3. shown \in 0..TokenCache
  BY <1>1
<1>4. \A i \in 1..TokenCache : i > shown => e.cache[i] = Own(u, start - TokenCache + i - 1, v)
  BY DEF HasTokens
<1> HIDE DEF shown
<1>5. \A j : j \in V <=> j \in (shown + 1)..TokenCache
  <2>1. ASSUME NEW j \in V PROVE j \in (shown + 1)..TokenCache
    <3>1. j \in 1..TokenCache /\ e.valid[j]
      OBVIOUS
    <3>2. j > shown
      BY <1>2, <3>1
    <3>3. QED BY <1>1, <1>3, <3>1, <3>2
  <2>2. ASSUME NEW j \in (shown + 1)..TokenCache PROVE j \in V
    <3>1. j \in 1..TokenCache /\ j > shown
      BY <1>3
    <3>2. QED BY <1>2, <3>1
  <2>3. QED BY <2>1, <2>2
<1>6. V = (shown + 1)..TokenCache
  BY <1>5
<1>7. \A i \in (shown + 1)..TokenCache : i \in 1..TokenCache /\ i > shown
  BY <1>1, <1>3
<1>8. EncoderSees(e) = [i \in V |-> e.cache[i]]
  BY DEF EncoderSees
<1> HIDE DEF V
<1>9. EncoderSees(e) = [i \in (shown + 1)..TokenCache |-> Own(u, start - TokenCache + i - 1, v)]
  BY <1>4, <1>6, <1>7, <1>8
<1>10. QED BY <1>9 DEF shown

\* What the flow model is shown, in a few numbers.
LEMMA ShownIs ==
  ASSUME NEW p \in Nat
  PROVE  /\ p <= PromptFrames => ShownOf(p) = p
         /\ p > PromptFrames => ShownOf(p) = PromptFrames + RecentOf(p) /\ RecentOf(p) \in 1..RecentFrames
         /\ p >= PromptFrames => /\ RecentOf(p) = Lesser(p - PromptFrames, RecentFrames)
                                 /\ RecentOf(p) \in 0..RecentFrames /\ ShownOf(p) = PromptFrames + RecentOf(p)
         /\ ShownOf(p) = Lesser(p, FlowCache) /\ ShownOf(p) \in 0..FlowCache
         /\ \A i \in Int : i <= PromptFrames => ShownAt(p, i) = i - 1
         /\ \A i \in Int : i > PromptFrames => ShownAt(p, i) = p - RecentOf(p) + (i - PromptFrames) - 1
<1>1. /\ PromptFrames \in Nat /\ RecentFrames \in Nat \ {0} /\ FlowCache = PromptFrames + RecentFrames
  BY FlowNumbers
<1>2. p <= PromptFrames => ShownOf(p) = p
  BY DEF ShownOf
<1>3. p > PromptFrames => ShownOf(p) = PromptFrames + RecentOf(p) /\ RecentOf(p) \in 1..RecentFrames
  <2> SUFFICES ASSUME p > PromptFrames
               PROVE  ShownOf(p) = PromptFrames + RecentOf(p) /\ RecentOf(p) \in 1..RecentFrames
    OBVIOUS
  <2>1. ~(p <= PromptFrames)
    BY <1>1
  <2>2. RecentOf(p) \in 1..RecentFrames
    BY <1>1 DEF RecentOf, Lesser
  <2>3. QED BY <2>1, <2>2 DEF ShownOf
<1>4. p >= PromptFrames => /\ RecentOf(p) = Lesser(p - PromptFrames, RecentFrames)
                           /\ RecentOf(p) \in 0..RecentFrames /\ ShownOf(p) = PromptFrames + RecentOf(p)
  <2> SUFFICES ASSUME p >= PromptFrames
               PROVE  RecentOf(p) \in 0..RecentFrames /\ ShownOf(p) = PromptFrames + RecentOf(p)
    BY DEF RecentOf
  <2>1. RecentOf(p) \in 0..RecentFrames
    BY <1>1 DEF RecentOf, Lesser
  <2>2. p = PromptFrames => RecentOf(p) = 0
    BY <1>1 DEF RecentOf, Lesser
  <2>3. QED BY <1>1, <1>2, <1>3, <2>1, <2>2
<1>5. ShownOf(p) = Lesser(p, FlowCache) /\ ShownOf(p) \in 0..FlowCache
  <2>1. CASE p <= PromptFrames
    BY <1>1, <1>2, <2>1 DEF Lesser
  <2>2. CASE p > PromptFrames
    <3>1. RecentOf(p) = IF p - PromptFrames < RecentFrames THEN p - PromptFrames ELSE RecentFrames
      BY DEF RecentOf, Lesser
    <3>2. Lesser(p, FlowCache) = IF p < FlowCache THEN p ELSE FlowCache
      BY DEF Lesser
    <3>3. QED BY <1>1, <1>3, <2>2, <3>1, <3>2
  <2>3. QED BY <1>1, <2>1, <2>2
<1>6. \A i \in Int : i <= PromptFrames => ShownAt(p, i) = i - 1
  BY DEF ShownAt
<1>7. \A i \in Int : i > PromptFrames => ShownAt(p, i) = p - RecentOf(p) + (i - PromptFrames) - 1
  <2>1. \A i \in Int : i > PromptFrames => ~(i <= PromptFrames)
    BY <1>1
  <2>2. QED BY <2>1 DEF ShownAt
<1>8. QED BY <1>2, <1>3, <1>4, <1>5, <1>6, <1>7

\* The rows that the bias does not hide are those of HasFrames.
LEMMA SeesFrames ==
  ASSUME NEW u, NEW v, NEW g, NEW p \in Nat, HasFrames(u, v, g, p)
  PROVE  GraphSees(g, p) = [i \in 1..ShownOf(p) |-> Own(u, ShownAt(p, i), 2 * v)]
<1>1. Lesser(p, FlowCache) = ShownOf(p)
  BY ShownIs
<1>2. GraphSees(g, p) = [i \in 1..ShownOf(p) |-> g.kv[i]]
  BY <1>1 DEF GraphSees
<1>3. QED BY <1>2 DEF HasFrames

\* A run of n frames after p: the prompt as it comes, and then the last ones.
LEMMA RanHasFrames ==
  ASSUME NEW u, NEW v, NEW g, NEW p \in Nat, NEW n \in Nat \ {0}, HasFrames(u, v, g, p),
         p < PromptFrames => p + n <= PromptFrames,
         NEW w, \A j \in 1..n : Own(u, p + j - 1, 2 * v) = <<w, p + j - 1>>
  PROVE  HasFrames(u, v, RunGraph(g, p, Rows(w, p, n)), p + n)
<1> DEFINE rows == Rows(w, p, n)
           ran1 == RunGraph(g, p, rows)
           after == p + n
<1>1. PromptFrames \in Nat /\ RecentFrames \in Nat \ {0} /\ FlowCache = PromptFrames + RecentFrames
  BY FlowNumbers
<1>2. Len(rows) = n /\ \A j \in 1..n : rows[j] = <<w, p + j - 1>>
  <2>1. p \in Int /\ n \in Nat
    OBVIOUS
  <2>2. QED BY <2>1, RowsAre
<1>3. after \in Nat /\ p < after
  OBVIOUS
<1> HIDE DEF rows, after
<1>4. ran1.conv = Own(u, after - 1, 2 * v)
  <2>1. n \in 1..n /\ p + n - 1 = after - 1
    BY DEF after
  <2>2. ran1.conv = rows[n]
    BY <1>2 DEF RunGraph
  <2>3. QED BY <1>2, <2>1, <2>2
<1>5. ran1.kv = UpdateKv(g.kv, p, rows)
  BY DEF RunGraph
<1> HIDE DEF ran1
<1>6. \A i \in 1..ShownOf(p) : g.kv[i] = Own(u, ShownAt(p, i), 2 * v)
  BY DEF HasFrames
<1>7. ASSUME NEW i \in 1..ShownOf(after) PROVE ran1.kv[i] = Own(u, ShownAt(after, i), 2 * v)
  <2>1. i \in 1..FlowCache
    <3>1. ShownOf(after) \in 0..FlowCache /\ FlowCache \in Nat
      BY <1>1, <1>3, ShownIs
    <3>2. QED BY <3>1
  <2>2. CASE p < PromptFrames
    <3>1. after <= PromptFrames /\ ShownOf(after) = after /\ ShownOf(p) = p
      BY <1>1, <1>3, <2>2, ShownIs DEF after
    <3>2. i \in 1..after /\ i <= PromptFrames
      <4>1. i \in 1..after
        BY <3>1
      <4>2. QED BY <1>1, <1>3, <3>1, <4>1
    <3>3. ShownAt(after, i) = i - 1 /\ ShownAt(p, i) = i - 1
      BY <1>3, <3>2, ShownIs
    <3>4. ran1.kv[i] = IF i \in (p + 1)..(p + n) THEN rows[i - p] ELSE g.kv[i]
      BY <1>2, <1>5, <2>1, <2>2 DEF UpdateKv
    <3>5. CASE i <= p
      <4>1. i \notin (p + 1)..(p + n) /\ i \in 1..p
        BY <3>2, <3>5
      <4>2. QED BY <1>6, <3>1, <3>3, <3>4, <4>1
    <3>6. CASE ~(i <= p)
      <4>1. i \in (p + 1)..(p + n) /\ i - p \in 1..n /\ p + (i - p) - 1 = i - 1
        BY <3>2, <3>6 DEF after
      <4>2. rows[i - p] = Own(u, p + (i - p) - 1, 2 * v)
        BY <1>2, <4>1
      <4>3. QED BY <3>3, <3>4, <4>1, <4>2
    <3>7. QED BY <3>5, <3>6
  <2>3. CASE ~(p < PromptFrames)
    <3> DEFINE previous == Lesser(p - PromptFrames, RecentFrames)
               keep == Lesser(n, RecentFrames)
               drop == IF previous + keep > RecentFrames THEN previous + keep - RecentFrames ELSE 0
               here == PromptFrames + previous - drop
    <3>1. ran1.kv[i] = IF i \in (here + 1)..(here + keep) THEN rows[i - here + (n - keep)]
                       ELSE IF i \in (PromptFrames + 1)..here THEN g.kv[i + drop] ELSE g.kv[i]
      BY <1>2, <1>5, <2>1, <2>3 DEF UpdateKv
    <3>2. /\ p >= PromptFrames /\ after > PromptFrames
          /\ previous = (IF p - PromptFrames < RecentFrames THEN p - PromptFrames ELSE RecentFrames)
          /\ keep = (IF n < RecentFrames THEN n ELSE RecentFrames)
      BY <1>1, <1>3, <2>3 DEF Lesser
    <3>3. RecentOf(p) = previous /\ ShownOf(p) = PromptFrames + previous /\ previous \in 0..RecentFrames
      BY <3>2, ShownIs
    <3>4. RecentOf(after) = IF after - PromptFrames < RecentFrames THEN after - PromptFrames ELSE RecentFrames
      BY DEF RecentOf, Lesser
    <3>5. ShownOf(after) = PromptFrames + RecentOf(after)
      BY <1>3, <3>2, ShownIs
    <3> DEFINE latest == RecentOf(after)
    <3> HIDE DEF previous, keep, latest
    <3>6. keep \in 1..n /\ keep <= RecentFrames /\ drop \in 0..previous
      BY <1>1, <3>2, <3>3
    <3>7. latest = previous + keep - drop
      BY <1>1, <1>3, <3>2, <3>3, <3>4, <3>6 DEF after, latest
    <3>8. keep = n \/ here = PromptFrames
      BY <1>1, <3>2, <3>3, <3>6
    <3> HIDE DEF drop, here
    <3>10. here = PromptFrames + previous - drop /\ i \in 1..(here + keep) /\ here >= PromptFrames
      BY <1>1, <3>3, <3>5, <3>6, <3>7 DEF here, latest
    <3>11. CASE i <= PromptFrames
      <4>1. i \in 1..(PromptFrames + previous) /\ i \notin (here + 1)..(here + keep) /\ i \notin (PromptFrames + 1)..here
        BY <1>1, <3>3, <3>10, <3>11
      <4>2. ShownAt(after, i) = i - 1 /\ ShownAt(p, i) = i - 1
        BY <1>3, <3>11, ShownIs
      <4>3. QED BY <1>6, <3>1, <3>3, <4>1, <4>2
    <3>12. CASE i > PromptFrames /\ i <= here
      <4>1. i \notin (here + 1)..(here + keep) /\ i \in (PromptFrames + 1)..here
        BY <1>1, <3>6, <3>10, <3>12
      <4> DEFINE x == i + drop
      <4>2. ran1.kv[i] = g.kv[x]
        BY <3>1, <4>1
      <4>3. x = i + drop /\ x \in 1..(PromptFrames + previous) /\ x \in Int /\ x > PromptFrames
        BY <1>1, <3>3, <3>6, <3>10, <3>12
      <4> HIDE DEF x
      <4>4. ShownAt(after, i) = after - latest + (i - PromptFrames) - 1
        BY <1>3, <3>12, ShownIs DEF latest
      <4>5. ShownAt(p, x) = p - previous + (x - PromptFrames) - 1
        BY <3>3, <4>3, ShownIs
      <4>6. keep = n
        BY <1>1, <3>8, <3>12
      <4>7. after - latest + (i - PromptFrames) - 1 = p - previous + (x - PromptFrames) - 1
        BY <1>1, <3>3, <3>6, <3>7, <4>3, <4>6 DEF after
      <4>8. g.kv[x] = Own(u, ShownAt(p, x), 2 * v)
        BY <1>6, <3>3, <4>3
      <4>9. QED BY <4>2, <4>4, <4>5, <4>7, <4>8
    <3>13. CASE i > here
      <4>1. i \in (here + 1)..(here + keep) /\ i > PromptFrames
        BY <1>1, <3>3, <3>6, <3>10, <3>13
      <4>2. ShownAt(after, i) = after - latest + (i - PromptFrames) - 1
        BY <1>3, <4>1, ShownIs DEF latest
      <4> DEFINE j == i - here + (n - keep)
      <4>3. j \in 1..n
        BY <3>3, <3>6, <3>10, <3>13, <1>1
      <4>4. p + j - 1 = after - latest + (i - PromptFrames) - 1
        BY <1>1, <3>3, <3>6, <3>7, <3>10 DEF after
      <4>5. ran1.kv[i] = rows[j]
        BY <3>1, <4>1
      <4> HIDE DEF j
      <4>6. rows[j] = Own(u, p + j - 1, 2 * v)
        BY <1>2, <4>3
      <4>7. QED BY <4>2, <4>4, <4>5, <4>6
    <3>14. here \in Int /\ i \in Int
      BY <1>1, <3>3, <3>6, <3>10
    <3>15. QED BY <1>1, <3>11, <3>12, <3>13, <3>14
  <2>4. QED BY <2>2, <2>3
<1>8. HasFrames(u, v, ran1, after)
  BY <1>4, <1>7 DEF HasFrames
<1>9. QED BY <1>8 DEF ran1, rows, after

\* The profile covers one chunk, or the prompt.
LEMMA VoiceIs ==
  ASSUME FlowTypes
  PROVE  VoiceTokens \in {ChunkTokens, PromptTokens} /\ VoiceTokens \in Nat
<1>1. VoiceTokens \in {ChunkTokens, PromptTokens}
  BY DEF VoiceTokens
<1>2. QED BY <1>1, FlowNumbers

\* The size of the next chunk; only the last may be shorter.
LEMMA CurrentIs ==
  ASSUME total \in Nat, nextStart \in Nat, nextStart < total
  PROVE  /\ Current \in 1..ChunkTokens /\ nextStart + Current <= total /\ nextStart + Current \in Nat
         /\ Final <=> nextStart + Current = total
         /\ Current # ChunkTokens => Final
         /\ ~Final => Current = ChunkTokens /\ nextStart + ChunkTokens < total
         /\ Final => total - nextStart = Current
<1>1. ChunkTokens \in Nat \ {0}
  BY FlowNumbers
<1>2. Current = IF ChunkTokens < total - nextStart THEN ChunkTokens ELSE total - nextStart
  BY DEF Current, Lesser
<1>3. Final <=> nextStart + Current = total
  BY DEF Final
<1>4. QED BY <1>1, <1>2, <1>3

\* The options are those the process was started with.
LEMMA OptionsStay ==
  ASSUME FlowNext PROVE options' = options /\ VoiceTokens' = VoiceTokens
<1>1. options' = options
  BY DEF FlowNext, BeginUtterance, VoiceChunk, VoiceKept, FlowChunk, HandOver, PartReady, RunTwo, TailBack,
         RunTail, Speak, UtteranceEnds, Throws
<1>2. QED BY <1>1 DEF VoiceTokens

\* A profile is told from none.
LEMMA ProfileIsNot == \A a, b : [encoder |-> a, flow |-> b] # NoProfile
<1>1. ASSUME NEW a, NEW b PROVE [encoder |-> a, flow |-> b] # NoProfile
  <2>1. "encoder" \in DOMAIN [encoder |-> a, flow |-> b]
    OBVIOUS
  <2>2. DOMAIN NoProfile = {}
    BY DEF NoProfile
  <2>3. QED BY <2>1, <2>2
<1>2. QED BY <1>1

\* The types, at the start.
LEMMA FlowStartTypes == FlowInit => FlowTypes
<1> SUFFICES ASSUME FlowInit PROVE FlowTypes
  OBVIOUS
<1>1. graph = [g \in {"flow", "steady"} |-> graph[g]]
  BY DEF FlowInit
<1>2. QED BY <1>1 DEF FlowInit, FlowTypes

\* And after a step.
LEMMA FlowTypesStep == FlowTypes /\ LoopRight /\ FlowNext => FlowTypes'
<1> SUFFICES ASSUME FlowTypes, LoopRight, FlowNext PROVE FlowTypes'
  OBVIOUS
<1> DEFINE Graph(h) == h = [g \in {"flow", "steady"} |-> h[g]]
<1>0. \A x : Graph([g \in {"flow", "steady"} |-> x])
  OBVIOUS
<1>1. \A x, y : Graph([graph EXCEPT ![x] = y])
  BY DEF FlowTypes
<1>2. \A x, y : Graph([flow |-> x, steady |-> y])
  OBVIOUS
<1>3. Graph(graph)
  BY DEF FlowTypes
<1> HIDE DEF Graph
<1>4. FlowTypes' <=> /\ flowAt' \in {"idle", "voice", "loop", "hand over", "two", "tail", "parts"}
                     /\ utterance' \in Nat /\ total' \in Nat /\ nextStart' \in Nat
                     /\ steadyReady' \in BOOLEAN /\ Graph(graph')
  BY OptionsStay DEF FlowTypes, Graph
<1>5. VoiceTokens \in Nat /\ PromptTokens \in Nat /\ ChunkTokens \in Nat
  BY VoiceIs, FlowNumbers
<1>6. nextStart < total => nextStart + Current \in Nat
  BY CurrentIs DEF FlowTypes
<1>7. utterance \in Nat /\ total \in Nat /\ nextStart \in Nat /\ steadyReady \in BOOLEAN /\ utterance + 1 \in Nat
  <2>1. utterance \in Nat /\ total \in Nat /\ nextStart \in Nat /\ steadyReady \in BOOLEAN
    BY DEF FlowTypes
  <2>2. utterance + 1 \in Nat
    BY <2>1
  <2>3. QED BY <2>1, <2>2
<1>8. flowAt \in {"idle", "voice", "loop", "hand over", "two", "tail", "parts"}
  BY DEF FlowTypes
<1>9. ASSUME NEW n \in TokenCounts, BeginUtterance(n) PROVE FlowTypes'
  <2>1. n \in Nat /\ PromptTokens + n \in Nat
    BY <1>5, FlowAssumption
  <2>2. Graph(graph')
    BY <1>0, <1>2, <1>9 DEF BeginUtterance
  <2>3. flowAt' \in {"voice", "loop"} /\ nextStart' \in Nat
    BY <1>5, <1>9 DEF BeginUtterance
  <2>4. utterance' = utterance + 1 /\ total' = PromptTokens + n /\ steadyReady' = FALSE
    BY <1>9 DEF BeginUtterance
  <2>5. QED BY <1>4, <1>7, <2>1, <2>2, <2>3, <2>4
<1>10. ASSUME VoiceChunk PROVE FlowTypes'
  <2>1. nextStart + ChunkTokens \in Nat
    BY <1>5, <1>7
  <2>2. nextStart' = nextStart + ChunkTokens /\ Graph(graph')
    BY <1>1, <1>10 DEF VoiceChunk, RunsBoth
  <2>3. UNCHANGED <<flowAt, utterance, total, steadyReady>>
    BY <1>10 DEF VoiceChunk
  <2>4. QED BY <1>4, <1>7, <1>8, <2>1, <2>2, <2>3
<1>11. ASSUME VoiceKept PROVE FlowTypes'
  BY <1>3, <1>4, <1>7, <1>11 DEF VoiceKept, loopOf, melOf
<1>12. ASSUME FlowChunk PROVE FlowTypes'
  BY <1>1, <1>4, <1>6, <1>7, <1>12 DEF FlowChunk, RunsBoth
<1>13. ASSUME HandOver PROVE FlowTypes'
  BY <1>1, <1>3, <1>4, <1>7, <1>13 DEF HandOver
<1>14. ASSUME PartReady PROVE FlowTypes'
  BY <1>3, <1>4, <1>6, <1>7, <1>14 DEF PartReady
<1>15. ASSUME RunTwo PROVE FlowTypes'
  BY <1>1, <1>4, <1>7, <1>15 DEF RunTwo, RunPart
<1>16. ASSUME TailBack PROVE FlowTypes'
  BY <1>1, <1>4, <1>7, <1>16 DEF TailBack, loopOf
<1>17. ASSUME RunTail PROVE FlowTypes'
  BY <1>1, <1>4, <1>7, <1>17 DEF RunTail, RunPart
<1>18. ASSUME Speak \/ UtteranceEnds \/ Throws PROVE FlowTypes'
  BY <1>3, <1>4, <1>7, <1>8, <1>18 DEF Speak, UtteranceEnds, Throws, flowOf, loopOf
<1>19. QED BY <1>9, <1>10, <1>11, <1>12, <1>13, <1>14, <1>15, <1>16, <1>17, <1>18 DEF FlowNext

\* Where the loop is.
LEMMA FlowStartLoop == FlowInit => LoopRight
<1> SUFFICES ASSUME FlowInit PROVE LoopRight
  OBVIOUS
<1>1. flowAt = "idle" /\ nextStart = 0
  BY DEF FlowInit
<1>2. 0 <= VoiceTokens
  BY FlowStartTypes, VoiceIs
<1>3. QED BY <1>1, <1>2 DEF LoopRight

\* With no part waiting there is nothing to say of them.
LEMMA NoPartsWait ==
  ASSUME parts' = <<>>, flowAt' \in {"voice", "hand over", "loop"} PROVE PartsWait'
<1>1. parts' \in Seq(WaitingPart)
  BY EmptySeq
<1>2. flowAt' \notin {"two", "tail", "parts"}
  OBVIOUS
<1>3. QED BY <1>1, <1>2 DEF PartsWait

\* A line begins where its profile ends, or makes the profile first.
LEMMA BeginLoop ==
  ASSUME FlowTypes, LoopRight, NEW n \in TokenCounts, BeginUtterance(n) PROVE LoopRight'
<1>1. n \in Nat \ {0} /\ ChunkTokens \in Nat \ {0} /\ PromptTokens = 2 * ChunkTokens
  BY FlowNumbers, FlowAssumption
<1>2. VoiceTokens' = VoiceTokens /\ VoiceTokens \in {ChunkTokens, PromptTokens} /\ options' = options
  BY VoiceIs DEF BeginUtterance, VoiceTokens
<1>3. total' = PromptTokens + n /\ steadyReady' = FALSE /\ mel' = <<>> /\ parts' = <<>> /\ profile' = profile
  BY DEF BeginUtterance
<1>4. IF profile = NoProfile THEN flowAt' = "voice" /\ nextStart' = 0 /\ noise' = chunkNo'
      ELSE flowAt' = "loop" /\ nextStart' = VoiceTokens /\ noise' = chunkNo'
  BY DEF BeginUtterance
<1>5. PartsWait'
  BY <1>3, <1>4, NoPartsWait
<1>6. /\ noise' = chunkNo' /\ total' > PromptTokens /\ nextStart' <= total'
      /\ (nextStart' < PromptTokens => nextStart' \in {0, ChunkTokens})
  BY <1>1, <1>2, <1>3, <1>4
<1>7. CASE profile = NoProfile
  <2>1. flowAt' = "voice" /\ nextStart' = 0 /\ 0 <= VoiceTokens
    BY <1>1, <1>2, <1>4, <1>7
  <2>2. QED BY <1>2, <1>3, <1>5, <1>6, <1>7, <2>1 DEF LoopRight
<1>8. CASE profile # NoProfile
  <2>1. flowAt' = "loop" /\ nextStart' = VoiceTokens /\ VoiceTokens <= VoiceTokens
    BY <1>1, <1>2, <1>4, <1>8
  <2>2. QED BY <1>2, <1>3, <1>5, <1>6, <1>8, <2>1 DEF LoopRight
<1>9. QED BY <1>7, <1>8

\* The profile is made of whole chunks of the prompt.
LEMMA VoiceChunkLoop ==
  ASSUME FlowTypes, LoopRight, VoiceChunk PROVE LoopRight'
<1>1. ChunkTokens \in Nat \ {0} /\ PromptTokens = 2 * ChunkTokens /\ nextStart \in Nat
  BY FlowNumbers DEF FlowTypes
<1>2. VoiceTokens' = VoiceTokens /\ VoiceTokens \in {ChunkTokens, PromptTokens} /\ options' = options
  BY VoiceIs DEF VoiceChunk, VoiceTokens
<1>3. flowAt = "voice" /\ flowAt' = "voice" /\ nextStart < VoiceTokens /\ nextStart' = nextStart + ChunkTokens
      /\ chunkNo' = chunkNo + 1 /\ noise' = noise + 1 /\ UNCHANGED <<total, profile, steadyReady, parts, mel>>
  BY DEF VoiceChunk, RunsBoth, melOf
<1>4. noise = chunkNo /\ total > PromptTokens /\ ~steadyReady /\ profile = NoProfile /\ PartsWait
      /\ (nextStart < PromptTokens => nextStart \in {0, ChunkTokens})
  BY <1>3 DEF LoopRight
<1>5. parts = <<>> /\ parts' = <<>>
  BY <1>3, <1>4 DEF PartsWait
<1>6. PartsWait'
  BY <1>3, <1>5, NoPartsWait
<1>7. total \in Nat
  BY DEF FlowTypes
<1>8. nextStart' <= VoiceTokens /\ nextStart' <= total /\ (nextStart' < PromptTokens => nextStart' \in {0, ChunkTokens})
  BY <1>1, <1>2, <1>3, <1>4, <1>7
<1>9. QED BY <1>2, <1>3, <1>4, <1>5, <1>6, <1>8 DEF LoopRight

\* A profile that is kept covers what was run.
LEMMA VoiceKeptLoop ==
  ASSUME FlowTypes, LoopRight, VoiceKept PROVE LoopRight'
<1>1. ChunkTokens \in Nat \ {0} /\ PromptTokens = 2 * ChunkTokens /\ nextStart \in Nat
  BY FlowNumbers DEF FlowTypes
<1>2. VoiceTokens' = VoiceTokens /\ VoiceTokens \in {ChunkTokens, PromptTokens} /\ options' = options
  BY VoiceIs DEF VoiceKept, VoiceTokens
<1>3. flowAt = "voice" /\ flowAt' = "loop" /\ nextStart = VoiceTokens
      /\ UNCHANGED <<total, nextStart, chunkNo, noise, steadyReady, parts, mel>>
  BY DEF VoiceKept, loopOf, melOf
<1>4. noise = chunkNo /\ total > PromptTokens /\ ~steadyReady /\ PartsWait /\ nextStart <= total
      /\ (nextStart < PromptTokens => nextStart \in {0, ChunkTokens})
  BY <1>3 DEF LoopRight
<1>5. parts = <<>>
  BY <1>3, <1>4 DEF PartsWait
<1>6. PartsWait'
  BY <1>3, <1>5, NoPartsWait
<1>7. profile' # NoProfile
  BY ProfileIsNot DEF VoiceKept
<1>8. VoiceTokens <= nextStart
  BY <1>1, <1>3
<1>9. mel = <<>>
  BY <1>3 DEF LoopRight
<1>10. QED BY <1>2, <1>3, <1>4, <1>5, <1>6, <1>7, <1>8, <1>9 DEF LoopRight

\* Where the flow model is: at the first waiting part, or at the next token.
LEMMA FlowStay ==
  ASSUME FlowTypes, LoopRight, flowAt # "idle"
  PROVE  /\ parts \in Seq(WaitingPart) /\ Done \in Nat
         /\ parts = <<>> => Done = 2 * nextStart
         /\ parts # <<>> => Done = parts[1].from
         /\ total \in Nat /\ nextStart \in Nat /\ nextStart <= total /\ total > PromptTokens
<1>1. parts \in Seq(WaitingPart)
  BY DEF LoopRight, PartsWait
<1>2. parts # <<>> => parts[1].from \in Nat
  <2> SUFFICES ASSUME parts # <<>> PROVE parts[1].from \in Nat
    OBVIOUS
  <2>1. \A x \in WaitingPart : x.from \in Nat
    BY DEF WaitingPart
  <2>2. Len(parts) \in Nat \ {0}
    BY <1>1, EmptySeq
  <2>3. parts[1] \in WaitingPart
    BY <1>1, <2>2, ElementOfSeq
  <2>4. QED BY <2>1, <2>3
<1>3. total \in Nat /\ nextStart \in Nat /\ nextStart <= total /\ total > PromptTokens
  BY DEF LoopRight, FlowTypes
<1>4. 2 * nextStart \in Nat
  BY <1>3
<1>5. QED BY <1>1, <1>2, <1>3, <1>4 DEF Done

\* Frames that are added make the sequence longer.
LEMMA MelGrows ==
  ASSUME FlowTypes, LoopRight, MelRight, flowAt # "idle"
  PROVE  /\ mel \in Seq({utterance} \X Int) /\ Len(mel) \in Nat
         /\ \A f \in Int, n \in Nat \ {0} :
              Len(mel \o Rows(utterance, f, n)) = Len(mel) + n /\ mel \o Rows(utterance, f, n) # <<>>
<1>1. Len(mel) \in Nat
  BY FlowStay, FlowNumbers DEF MelRight
<1>2. mel \in Seq({utterance} \X Int)
  <2>1. PromptFrames \in Int
    BY FlowNumbers
  <2>2. Rows(utterance, PromptFrames, Len(mel)) \in Seq({utterance} \X Int)
    BY <1>1, <2>1, RowsAre
  <2>3. mel = Rows(utterance, PromptFrames, Len(mel))
    BY DEF MelRight
  <2>4. QED BY <2>2, <2>3
<1>3. ASSUME NEW f \in Int, NEW n \in Nat \ {0}
      PROVE  Len(mel \o Rows(utterance, f, n)) = Len(mel) + n /\ mel \o Rows(utterance, f, n) # <<>>
  <2> DEFINE rows == Rows(utterance, f, n)
  <2>1. rows \in Seq({utterance} \X Int) /\ Len(rows) = n
    BY RowsAre
  <2> HIDE DEF rows
  <2>2. Len(mel \o rows) = Len(mel) + Len(rows)
    BY <1>2, <2>1, ConcatProperties
  <2>3. Len(mel \o rows) > 0 /\ Len(<<>>) = 0
    BY <1>1, <2>1, <2>2
  <2>4. mel \o rows # <<>>
    BY <2>3
  <2>5. QED BY <2>1, <2>2, <2>4 DEF rows
<1>4. QED BY <1>1, <1>2, <1>3

\* A chunk goes through the flow model at once only while nothing waits.
LEMMA FlowChunkAt ==
  ASSUME FlowTypes, LoopRight, FlowChunk
  PROVE  /\ parts = <<>> /\ ~steadyReady /\ ~(options.steady /\ mel # <<>>) /\ Done = 2 * nextStart
         /\ nextStart < PromptTokens => nextStart = ChunkTokens /\ Current = ChunkTokens
         /\ nextStart \in Nat /\ nextStart < total /\ VoiceTokens <= nextStart
<1>1. ChunkTokens \in Nat \ {0} /\ PromptTokens = 2 * ChunkTokens /\ PromptFrames = 4 * ChunkTokens
  BY FlowNumbers
<1>2. flowAt = "loop" /\ nextStart < total /\ ~UsesSteady
  BY DEF FlowChunk
<1>3. nextStart \in Nat /\ total \in Nat /\ total > PromptTokens
  BY <1>2, FlowStay
<1>4. ~steadyReady
  <2> SUFFICES ASSUME steadyReady PROVE FALSE
    OBVIOUS
  <2>1. options.steady /\ Done > PromptFrames /\ mel # <<>>
    BY <1>2 DEF LoopRight
  <2>2. Done <= 2 * nextStart
    <3>1. CASE parts = <<>>
      BY <1>3, <3>1 DEF Done
    <3>2. CASE parts # <<>>
      <4>1. parts[1] = [from |-> 2 * (nextStart - ChunkTokens), frames |-> ChunkFrames, final |-> FALSE]
        BY <1>2, <3>2 DEF LoopRight, PartsWait
      <4>2. Done = 2 * (nextStart - ChunkTokens)
        BY <3>2, <4>1 DEF Done
      <4>3. QED BY <1>1, <1>3, <4>2
    <3>3. QED BY <3>1, <3>2
  <2>3. Done \in Nat
    BY <1>2, FlowStay
  <2>4. nextStart >= PromptTokens
    BY <1>1, <1>3, <2>1, <2>2, <2>3
  <2>5. QED BY <1>2, <2>1, <2>4 DEF UsesSteady
<1>5. parts = <<>>
  BY <1>2, <1>4 DEF LoopRight
<1>6. ~(options.steady /\ mel # <<>>)
  BY <1>2, <1>4 DEF LoopRight
<1>7. VoiceTokens <= nextStart /\ (nextStart < PromptTokens => nextStart \in {0, ChunkTokens})
  BY <1>2 DEF LoopRight
<1>8. nextStart < PromptTokens => nextStart = ChunkTokens
  BY <1>1, <1>7, VoiceIs
<1>9. nextStart < PromptTokens => Current = ChunkTokens
  BY <1>1, <1>2, <1>3, <1>8, CurrentIs
<1>10. QED BY <1>2, <1>3, <1>4, <1>5, <1>6, <1>7, <1>8, <1>9 DEF Done

\* The loop, after a chunk that went through both models.
LEMMA FlowChunkLoop ==
  ASSUME FlowTypes, LoopRight, MelRight, FlowChunk PROVE LoopRight'
<1>1. ChunkTokens \in Nat \ {0} /\ PromptTokens = 2 * ChunkTokens /\ PromptTokens \in Nat
  BY FlowNumbers
<1>2. /\ parts = <<>> /\ ~steadyReady /\ ~(options.steady /\ mel # <<>>)
      /\ nextStart < PromptTokens => nextStart = ChunkTokens /\ Current = ChunkTokens
      /\ nextStart \in Nat /\ nextStart < total /\ VoiceTokens <= nextStart
  BY FlowChunkAt
<1>3. flowAt = "loop" /\ nextStart' = nextStart + Current /\ chunkNo' = chunkNo + 1 /\ noise' = noise + 1
      /\ UNCHANGED <<options, total, profile, steadyReady, parts>>
      /\ flowAt' = IF options.steady /\ nextStart >= PromptTokens THEN "hand over" ELSE "loop"
  BY DEF FlowChunk, RunsBoth
<1>4. noise = chunkNo /\ total > PromptTokens /\ profile # NoProfile
  BY <1>3 DEF LoopRight
<1>5. total \in Nat /\ VoiceTokens \in Nat /\ VoiceTokens' = VoiceTokens
  BY <1>3, VoiceIs DEF FlowTypes, VoiceTokens
<1>6. Current \in 1..ChunkTokens /\ nextStart + Current <= total
  BY <1>2, <1>5, CurrentIs
<1>7. nextStart' <= total /\ VoiceTokens <= nextStart' /\ ~(nextStart' < PromptTokens)
  <2>1. nextStart \in Nat /\ nextStart < total /\ VoiceTokens <= nextStart
        /\ (nextStart < PromptTokens => nextStart = ChunkTokens /\ Current = ChunkTokens)
    BY <1>2
  <2>2. nextStart' = nextStart + Current
    BY <1>3
  <2> DEFINE after == nextStart'
  <2>3. after = nextStart + Current
    BY <2>2
  <2> HIDE DEF after
  <2>4. after <= total /\ VoiceTokens <= after /\ ~(after < PromptTokens)
    BY <1>1, <1>5, <1>6, <2>1, <2>3
  <2>5. QED BY <2>4 DEF after
<1>8. PartsWait'
  <2>1. flowAt' \in {"hand over", "loop"}
    BY <1>3
  <2>2. QED BY <1>2, <1>3, <2>1, NoPartsWait
<1>9. CASE nextStart < PromptTokens
  <2>1. flowAt' = "loop" /\ mel' = mel
    <3>1. ~(nextStart >= PromptTokens)
      BY <1>1, <1>2, <1>9
    <3>2. flowAt' = "loop"
      BY <1>3, <3>1
    <3>3. QED BY <1>9, <3>2 DEF FlowChunk
  <2>2. QED BY <1>2, <1>3, <1>4, <1>5, <1>7, <1>8, <2>1 DEF LoopRight
<1>10. CASE ~(nextStart < PromptTokens)
  <2>1. mel' # <<>>
    <3>1. mel' = mel \o Rows(utterance, 2 * nextStart, 2 * Current)
      BY <1>10 DEF FlowChunk, PushMelChunk
    <3>2. 2 * nextStart \in Int /\ 2 * Current \in Nat \ {0}
      BY <1>1, <1>2, <1>6
    <3>3. flowAt # "idle"
      BY <1>3
    <3>4. QED BY <3>1, <3>2, <3>3, MelGrows
  <2>2. nextStart >= PromptTokens /\ nextStart' > PromptTokens
    <3>1. nextStart \in Nat /\ nextStart' = nextStart + Current
      BY <1>2, <1>3
    <3>2. QED BY <1>1, <1>6, <1>10, <3>1
  <2>3. CASE options.steady
    <3>1. flowAt' = "hand over"
      BY <1>3, <2>2, <2>3
    <3>2. QED BY <1>2, <1>3, <1>4, <1>5, <1>7, <1>8, <2>1, <2>2, <2>3, <3>1 DEF LoopRight
  <2>4. CASE ~options.steady
    <3>1. flowAt' = "loop"
      BY <1>3, <2>4
    <3>2. QED BY <1>2, <1>3, <1>4, <1>5, <1>7, <1>8, <2>1, <2>2, <2>4, <3>1 DEF LoopRight
  <2>5. QED BY <2>3, <2>4
<1>11. QED BY <1>9, <1>10

\* The loop, after the steady graph was given the state of the other.
LEMMA HandOverLoop ==
  ASSUME FlowTypes, LoopRight, HandOver PROVE LoopRight'
<1>1. flowAt = "hand over" /\ flowAt' = "loop" /\ steadyReady' = TRUE
      /\ UNCHANGED <<options, total, profile, nextStart, chunkNo, noise, parts, mel>>
  BY DEF HandOver, melOf
<1>2. /\ noise = chunkNo /\ total > PromptTokens /\ nextStart <= total /\ profile # NoProfile
      /\ nextStart < PromptTokens => nextStart \in {0, ChunkTokens}
      /\ options.steady /\ nextStart > PromptTokens /\ mel # <<>> /\ VoiceTokens <= nextStart
      /\ parts = <<>>
  BY <1>1 DEF LoopRight, PartsWait
<1>3. VoiceTokens' = VoiceTokens
  BY <1>1 DEF VoiceTokens
<1>4. PartsWait'
  BY <1>1, <1>2, NoPartsWait
<1>5. Done' > PromptFrames
  <2>1. nextStart \in Nat /\ PromptTokens \in Nat /\ PromptFrames = 2 * PromptTokens
    BY FlowNumbers DEF FlowTypes, PromptFrames
  <2>2. Done' = 2 * nextStart
    BY <1>1, <1>2 DEF Done
  <2>3. QED BY <1>2, <2>1, <2>2
<1>6. QED BY <1>1, <1>2, <1>3, <1>4, <1>5 DEF LoopRight

\* A part waits only once the steady graph has its state.
LEMMA PartReadyAt ==
  ASSUME FlowTypes, LoopRight, PartReady
  PROVE  /\ flowAt = "loop" /\ options.steady /\ steadyReady
         /\ nextStart \in Nat /\ total \in Nat /\ nextStart < total /\ nextStart >= PromptTokens
         /\ nextStart' = nextStart + Current
<1>1. flowAt = "loop" /\ nextStart < total /\ UsesSteady /\ nextStart' = nextStart + Current
  BY DEF PartReady
<1>2. options.steady /\ nextStart >= PromptTokens /\ mel # <<>>
  BY <1>1 DEF UsesSteady
<1>3. steadyReady
  BY <1>1, <1>2 DEF LoopRight
<1>4. QED BY <1>1, <1>2, <1>3 DEF FlowTypes

\* The part is put after the one that waits, if there is one.
LEMMA PartReadyParts ==
  ASSUME FlowTypes, LoopRight, PartReady
  PROVE  /\ parts' \in Seq(WaitingPart) /\ parts' # <<>> /\ Done' = Done
         /\ \/ parts = <<>> /\ Len(parts') = 1 /\ parts'[1].from = 2 * nextStart
            \/ parts # <<>> /\ Len(parts') = 2 /\ parts'[1].from = 2 * (nextStart - ChunkTokens)
               /\ parts'[1].frames = ChunkFrames /\ parts'[1].final = FALSE
         /\ parts'[Len(parts')] = [from |-> 2 * nextStart, frames |-> 2 * Current, final |-> Final]
<1> DEFINE r == [from |-> 2 * nextStart, frames |-> 2 * Current, final |-> Final]
<1>1. /\ flowAt = "loop" /\ nextStart \in Nat /\ total \in Nat /\ nextStart < total
  BY PartReadyAt
<1>2. Current \in Nat /\ 2 * nextStart \in Nat /\ 2 * Current \in Nat /\ Final \in BOOLEAN
  BY <1>1, CurrentIs, FlowNumbers DEF Final
<1>3. r \in WaitingPart
  BY <1>2 DEF WaitingPart
<1>4. parts' = Append(parts, r)
  BY DEF PartReady
<1>5. parts \in Seq(WaitingPart)
  BY <1>1, FlowStay
<1>6. r.from = 2 * nextStart
  OBVIOUS
<1> HIDE DEF r
<1>7. /\ parts' \in Seq(WaitingPart) /\ parts' # <<>> /\ Len(parts') = Len(parts) + 1
      /\ \A i \in 1..Len(parts) : parts'[i] = parts[i]
      /\ parts'[Len(parts) + 1] = r
  BY <1>3, <1>4, <1>5, AppendProperties
<1>8. Done' = parts'[1].from
  BY <1>7 DEF Done
<1>9. CASE parts = <<>>
  <2>1. Len(parts) = 0
    BY <1>9, EmptySeq
  <2>2. Len(parts') = 1 /\ parts'[1] = r
    BY <1>7, <2>1
  <2>3. Done = 2 * nextStart
    BY <1>9 DEF Done
  <2>4. QED BY <1>6, <1>7, <1>8, <1>9, <2>2, <2>3 DEF r
<1>10. CASE parts # <<>>
  <2>1. Len(parts) = 1 /\ parts[1] = [from |-> 2 * (nextStart - ChunkTokens), frames |-> ChunkFrames, final |-> FALSE]
    BY <1>1, <1>10 DEF LoopRight, PartsWait
  <2>2. Len(parts') = 2 /\ parts'[1] = parts[1] /\ parts'[2] = r
    BY <1>7, <2>1
  <2>3. Done = parts[1].from
    BY <1>10 DEF Done
  <2>4. parts'[1].from = 2 * (nextStart - ChunkTokens) /\ parts'[1].frames = ChunkFrames /\ parts'[1].final = FALSE
    BY <2>1, <2>2
  <2>5. QED BY <1>7, <1>8, <1>10, <2>2, <2>3, <2>4 DEF r
<1>11. QED BY <1>9, <1>10

\* The parts that wait still follow on each other up to next_start.
LEMMA PartReadyWait ==
  ASSUME FlowTypes, LoopRight, PartReady PROVE PartsWait'
<1>1. ChunkTokens \in Nat \ {0} /\ ChunkFrames = 2 * ChunkTokens
  BY FlowNumbers
<1>2. /\ nextStart \in Nat /\ total \in Nat /\ nextStart < total /\ nextStart' = nextStart + Current /\ total' = total
  BY PartReadyAt DEF PartReady
<1>3. /\ Current \in 1..ChunkTokens /\ nextStart + Current <= total
      /\ Final <=> nextStart + Current = total
      /\ Current # ChunkTokens => Final
      /\ ~Final => Current = ChunkTokens /\ nextStart + ChunkTokens < total
  BY <1>2, CurrentIs
<1>4. flowAt' = IF Len(parts') = 1 /\ ~Final THEN "loop"
                ELSE IF Len(parts') = 2 /\ Current = ChunkTokens THEN "two" ELSE "tail"
  BY DEF PartReady
<1>5. /\ parts' \in Seq(WaitingPart) /\ parts' # <<>>
      /\ Len(parts') = 1 \/ (Len(parts') = 2 /\ parts'[1].from = 2 * (nextStart - ChunkTokens)
                               /\ parts'[1].frames = ChunkFrames /\ parts'[1].final = FALSE)
      /\ parts'[Len(parts')] = [from |-> 2 * nextStart, frames |-> 2 * Current, final |-> Final]
  BY PartReadyParts
<1>6. CASE Len(parts') = 1 /\ ~Final
  <2>1. flowAt' = "loop"
    BY <1>4, <1>6
  <2>2. parts'[1] = [from |-> 2 * nextStart, frames |-> 2 * Current, final |-> Final]
    BY <1>5, <1>6
  <2>3. Current = ChunkTokens /\ nextStart' < total' /\ 2 * (nextStart' - ChunkTokens) = 2 * nextStart
    BY <1>1, <1>2, <1>3, <1>6
  <2>4. Final = FALSE
    BY <1>6 DEF Final
  <2>5. parts'[1] = [from |-> 2 * (nextStart' - ChunkTokens), frames |-> ChunkFrames, final |-> FALSE]
    BY <1>1, <2>2, <2>3, <2>4
  <2>6. QED BY <1>5, <1>6, <2>1, <2>3, <2>5 DEF PartsWait
<1>7. CASE Len(parts') = 2 /\ Current = ChunkTokens
  <2>1. flowAt' = "two"
    BY <1>4, <1>7
  <2>2. parts'[1].from = 2 * (nextStart - ChunkTokens) /\ parts'[2].final = Final
    BY <1>5, <1>7
  <2>3. 2 * (nextStart - ChunkTokens) = 2 * nextStart' - 2 * ChunkFrames
    BY <1>1, <1>2, <1>7
  <2>4. Final = (nextStart' = total')
    BY <1>2 DEF Final
  <2>5. QED BY <1>5, <1>7, <2>1, <2>2, <2>3, <2>4 DEF PartsWait
<1>8. CASE ~(Len(parts') = 1 /\ ~Final) /\ ~(Len(parts') = 2 /\ Current = ChunkTokens)
  <2>1. flowAt' = "tail"
    BY <1>4, <1>8
  <2>2. Final
    BY <1>3, <1>5, <1>8
  <2>3. nextStart' = total'
    BY <1>2, <1>3, <2>2
  <2>4. Len(parts') \in 1..2
    BY <1>5
  <2>5. Final = TRUE
    BY <2>2 DEF Final
  <2> DEFINE r == parts'[Len(parts')]
  <2>6. r.from = 2 * nextStart /\ r.frames = 2 * Current /\ r.final = TRUE
    BY <1>5, <2>5
  <2>7. \A j \in 1..Len(parts') : parts'[j].final = (j = Len(parts'))
    <3>1. CASE Len(parts') = 1
      <4>1. parts'[1].final = TRUE
        BY <2>6, <3>1
      <4>2. \A j \in 1..1 : j = 1
        OBVIOUS
      <4>3. QED BY <3>1, <4>1, <4>2
    <3>2. CASE Len(parts') = 2
      <4>1. parts'[1].final = FALSE /\ parts'[2].final = TRUE
        BY <1>5, <2>6, <3>2
      <4>2. \A j \in 1..2 : j = 1 \/ j = 2
        OBVIOUS
      <4>3. QED BY <3>2, <4>1, <4>2
    <3>3. QED BY <1>5, <3>1, <3>2
  <2>8. r.frames \in 1..ChunkFrames /\ r.from + r.frames = 2 * total'
    BY <1>1, <1>2, <1>3, <2>2, <2>6
  <2>9. Len(parts') = 2 => /\ parts'[1].frames = ChunkFrames /\ parts'[1].from + ChunkFrames = parts'[2].from
                           /\ parts'[2].frames < ChunkFrames
    <3> SUFFICES ASSUME Len(parts') = 2
                 PROVE  /\ parts'[1].frames = ChunkFrames /\ parts'[1].from + ChunkFrames = parts'[2].from
                        /\ parts'[2].frames < ChunkFrames
      OBVIOUS
    <3>1. parts'[1].from = 2 * (nextStart - ChunkTokens) /\ parts'[1].frames = ChunkFrames
      BY <1>5
    <3>2. parts'[2].from = 2 * nextStart /\ parts'[2].frames = 2 * Current
      BY <2>6
    <3>3. Current < ChunkTokens
      BY <1>1, <1>3, <1>8
    <3>4. 2 * (nextStart - ChunkTokens) + ChunkFrames = 2 * nextStart /\ 2 * Current < ChunkFrames
      BY <1>1, <1>2, <1>3, <3>3
    <3>5. QED BY <3>1, <3>2, <3>4
  <2>10. QED BY <1>5, <2>1, <2>3, <2>4, <2>7, <2>8, <2>9 DEF PartsWait
<1>9. QED BY <1>6, <1>7, <1>8

\* The loop, after a part was made ready.
LEMMA PartReadyLoop ==
  ASSUME FlowTypes, LoopRight, PartReady PROVE LoopRight'
<1>1. /\ flowAt = "loop" /\ options.steady /\ steadyReady
      /\ nextStart \in Nat /\ total \in Nat /\ nextStart < total /\ nextStart >= PromptTokens
      /\ nextStart' = nextStart + Current
  BY PartReadyAt
<1>2. Current \in 1..ChunkTokens /\ nextStart + Current <= total
  BY <1>1, CurrentIs
<1>3. /\ chunkNo' = chunkNo + 1 /\ noise' = noise + 1 /\ UNCHANGED <<options, total, profile, steadyReady, mel>>
      /\ flowAt' \in {"loop", "two", "tail"}
  BY DEF PartReady, melOf
<1>4. /\ noise = chunkNo /\ total > PromptTokens /\ profile # NoProfile /\ mel # <<>> /\ VoiceTokens <= nextStart
      /\ Done > PromptFrames
  BY <1>1 DEF LoopRight
<1>5. VoiceTokens' = VoiceTokens /\ VoiceTokens \in Nat /\ ChunkTokens \in Nat /\ PromptTokens \in Nat
  BY <1>3, VoiceIs, FlowNumbers DEF VoiceTokens
<1>6. nextStart' <= total /\ VoiceTokens <= nextStart' /\ ~(nextStart' < PromptTokens)
  <2> DEFINE after == nextStart'
  <2>1. after = nextStart + Current /\ nextStart \in Nat /\ nextStart >= PromptTokens /\ total \in Nat
    BY <1>1
  <2> HIDE DEF after
  <2>2. VoiceTokens <= nextStart
    BY <1>4
  <2>3. after <= total /\ VoiceTokens <= after /\ ~(after < PromptTokens)
    BY <1>2, <1>5, <2>1, <2>2
  <2>4. QED BY <2>3 DEF after
<1>7. Done' = Done
  BY PartReadyParts
<1>8. PartsWait'
  BY PartReadyWait
<1>9. QED BY <1>1, <1>3, <1>4, <1>5, <1>6, <1>7, <1>8 DEF LoopRight

\* The loop, after two chunks in the steady graph.
LEMMA RunTwoLoop ==
  ASSUME FlowTypes, LoopRight, MelRight, RunTwo PROVE LoopRight'
<1>1. /\ flowAt = "two" /\ flowAt' = "loop" /\ parts' = <<>>
      /\ UNCHANGED <<options, total, profile, nextStart, chunkNo, noise, steadyReady>>
      /\ mel' = mel \o Rows(utterance, parts[1].from, 2 * ChunkFrames)
  BY DEF RunTwo, RunPart, PushMelChunk
<1>2. /\ noise = chunkNo /\ total > PromptTokens /\ nextStart <= total /\ profile # NoProfile
      /\ nextStart < PromptTokens => nextStart \in {0, ChunkTokens}
      /\ steadyReady /\ options.steady /\ VoiceTokens <= nextStart /\ Done > PromptFrames
  BY <1>1 DEF LoopRight
<1>3. Done \in Nat /\ parts # <<>> /\ Done = 2 * nextStart - 2 * ChunkFrames /\ Done = parts[1].from
  <2>1. Len(parts) = 2 /\ parts[1].from = 2 * nextStart - 2 * ChunkFrames /\ parts \in Seq(WaitingPart)
    BY <1>1 DEF LoopRight, PartsWait
  <2>2. parts # <<>>
    <3>1. Len(<<>>) = 0
      OBVIOUS
    <3>2. QED BY <2>1, <3>1
  <2>3. QED BY <1>1, <2>1, <2>2, FlowStay
<1>4. ChunkFrames \in Nat \ {0} /\ PromptFrames \in Nat /\ nextStart \in Nat
  BY FlowNumbers DEF FlowTypes
<1>5. Done' = 2 * nextStart /\ Done' > PromptFrames
  <2>1. Done' = 2 * nextStart
    BY <1>1 DEF Done
  <2>2. 2 * nextStart > PromptFrames
    BY <1>2, <1>3, <1>4
  <2>3. QED BY <2>1, <2>2
<1>6. mel' # <<>>
  <2>1. parts[1].from \in Int /\ 2 * ChunkFrames \in Nat \ {0} /\ flowAt # "idle"
    BY <1>1, <1>3, <1>4
  <2>2. QED BY <1>1, <2>1, MelGrows
<1>7. VoiceTokens' = VoiceTokens
  BY <1>1 DEF VoiceTokens
<1>8. PartsWait'
  BY <1>1, NoPartsWait
<1>9. QED BY <1>1, <1>2, <1>5, <1>6, <1>7, <1>8 DEF LoopRight

\* The loop, when the tail goes back to the graph for one chunk.
LEMMA TailBackLoop ==
  ASSUME FlowTypes, LoopRight, TailBack PROVE LoopRight'
<1>1. /\ flowAt = "tail" /\ flowAt' = "parts"
      /\ UNCHANGED <<options, total, profile, nextStart, chunkNo, noise, steadyReady, parts, mel>>
  BY DEF TailBack, loopOf, melOf
<1>2. /\ noise = chunkNo /\ total > PromptTokens /\ nextStart <= total /\ profile # NoProfile
      /\ nextStart < PromptTokens => nextStart \in {0, ChunkTokens}
      /\ steadyReady /\ options.steady /\ VoiceTokens <= nextStart /\ Done > PromptFrames /\ PartsWait
  BY <1>1 DEF LoopRight
<1>3. VoiceTokens' = VoiceTokens /\ Done' = Done
  BY <1>1 DEF VoiceTokens, Done
<1>4. PartsWait'
  BY <1>1, <1>2 DEF PartsWait
<1>5. QED BY <1>1, <1>2, <1>3, <1>4 DEF LoopRight

\* The parts of a tail are run one by one.
LEMMA RunTailParts ==
  ASSUME FlowTypes, LoopRight, RunTail
  PROVE  /\ parts # <<>> /\ Done = parts[1].from /\ Done \in Nat /\ Len(parts) \in 1..2 /\ nextStart = total
         /\ parts[1].frames \in 1..ChunkFrames
         /\ Len(parts) = 1 => /\ parts' = <<>> /\ parts[1].final = TRUE /\ Done + parts[1].frames = 2 * total
                              /\ Done' = 2 * total
         /\ Len(parts) = 2 => /\ parts' # <<>> /\ Len(parts') = 1 /\ parts'[1] = parts[2] /\ parts' \in Seq(WaitingPart)
                              /\ parts[1].final = FALSE /\ parts[2].final = TRUE /\ parts[1].frames = ChunkFrames
                              /\ parts[2].frames \in 1..ChunkFrames /\ parts[2].frames < ChunkFrames
                              /\ Done' = Done + ChunkFrames /\ Done' = parts[2].from
                              /\ Done + ChunkFrames + parts[2].frames = 2 * total
<1>1. flowAt = "parts" /\ parts' = Tail(parts) /\ nextStart' = nextStart /\ total' = total
  BY DEF RunTail
<1>2. /\ parts \in Seq(WaitingPart)
      /\ nextStart = total /\ Len(parts) \in 1..2
      /\ \A j \in 1..Len(parts) : parts[j].final = (j = Len(parts))
      /\ parts[Len(parts)].frames \in 1..ChunkFrames
      /\ parts[Len(parts)].from + parts[Len(parts)].frames = 2 * total
      /\ Len(parts) = 2 =>
           /\ parts[1].frames = ChunkFrames /\ parts[1].from + ChunkFrames = parts[2].from
           /\ parts[2].frames < ChunkFrames
  BY <1>1 DEF LoopRight, PartsWait
<1>3. parts # <<>> /\ Done = parts[1].from /\ Done \in Nat
  <2>1. parts # <<>>
    BY <1>2, EmptySeq
  <2>2. QED BY <1>1, <2>1, FlowStay
<1>4. parts' \in Seq(WaitingPart) /\ Len(parts') = Len(parts) - 1 /\ \A i \in 1..Len(parts') : parts'[i] = parts[i + 1]
  BY <1>1, <1>2, <1>3, HeadTailProperties
<1>5. ChunkFrames \in Nat \ {0}
  BY FlowNumbers
<1>6. ASSUME Len(parts) = 1
      PROVE  parts' = <<>> /\ parts[1].final = TRUE /\ Done + parts[1].frames = 2 * total /\ Done' = 2 * total
             /\ parts[1].frames \in 1..ChunkFrames
  <2>1. Len(parts') = 0
    BY <1>4, <1>6
  <2>2. parts' = <<>>
    BY <1>4, <2>1, EmptySeq
  <2>3. parts[1].final = TRUE
    <3>1. 1 \in 1..Len(parts) /\ (1 = Len(parts)) = TRUE
      BY <1>6
    <3>2. QED BY <1>2, <3>1
  <2>4. parts[1].from + parts[1].frames = 2 * total /\ parts[1].frames \in 1..ChunkFrames
    BY <1>2, <1>6
  <2>5. Done' = 2 * total
    BY <1>1, <1>2, <2>2 DEF Done
  <2>6. QED BY <1>3, <2>2, <2>3, <2>4, <2>5
<1>7. ASSUME Len(parts) = 2
      PROVE  /\ parts' # <<>> /\ Len(parts') = 1 /\ parts'[1] = parts[2] /\ parts' \in Seq(WaitingPart)
             /\ parts[1].final = FALSE /\ parts[2].final = TRUE /\ parts[1].frames = ChunkFrames
             /\ parts[2].frames \in 1..ChunkFrames /\ parts[2].frames < ChunkFrames
             /\ Done' = Done + ChunkFrames /\ Done' = parts[2].from
             /\ Done + ChunkFrames + parts[2].frames = 2 * total
  <2>1. Len(parts') = 1
    BY <1>4, <1>7
  <2>2. parts' # <<>> /\ parts'[1] = parts[2]
    <3>1. parts' # <<>>
      BY <2>1, EmptySeq
    <3>2. 1 \in 1..Len(parts') /\ 1 + 1 = 2
      BY <2>1
    <3>3. QED BY <1>4, <3>1, <3>2
  <2>3. parts[1].final = FALSE /\ parts[2].final = TRUE
    <3>1. 1 \in 1..Len(parts) /\ 2 \in 1..Len(parts) /\ (1 = Len(parts)) = FALSE /\ (2 = Len(parts)) = TRUE
      BY <1>7
    <3>2. QED BY <1>2, <3>1
  <2>4. /\ parts[1].frames = ChunkFrames /\ parts[1].from + ChunkFrames = parts[2].from
        /\ parts[2].frames \in 1..ChunkFrames /\ parts[2].frames < ChunkFrames
        /\ parts[2].from + parts[2].frames = 2 * total
    BY <1>2, <1>7
  <2>5. Done' = parts[2].from
    BY <2>2 DEF Done
  <2>6. QED BY <1>3, <1>4, <2>1, <2>2, <2>3, <2>4, <2>5
<1>8. parts[1].frames \in 1..ChunkFrames
  <2>1. Len(parts) = 2 => ChunkFrames \in 1..ChunkFrames
    BY <1>5
  <2>2. QED BY <1>2, <1>6, <1>7, <2>1
<1>9. QED BY <1>2, <1>3, <1>6, <1>7, <1>8

\* The loop, after one part of the tail.
LEMMA RunTailLoop ==
  ASSUME FlowTypes, LoopRight, MelRight, RunTail PROVE LoopRight'
<1>1. /\ flowAt = "parts" /\ flowAt' = IF parts' = <<>> THEN "loop" ELSE "parts"
      /\ UNCHANGED <<options, total, profile, nextStart, chunkNo, noise, steadyReady>>
      /\ mel' = mel \o Rows(utterance, parts[1].from, parts[1].frames)
  BY DEF RunTail, RunPart, PushMelChunk
<1>2. /\ noise = chunkNo /\ total > PromptTokens /\ nextStart <= total /\ profile # NoProfile
      /\ nextStart < PromptTokens => nextStart \in {0, ChunkTokens}
      /\ steadyReady /\ options.steady /\ VoiceTokens <= nextStart /\ Done > PromptFrames
  BY <1>1 DEF LoopRight
<1>3. ChunkFrames \in Nat \ {0} /\ PromptFrames \in Nat /\ total \in Nat
  BY FlowNumbers DEF FlowTypes
<1>4. /\ Done = parts[1].from /\ Done \in Nat /\ Len(parts) \in 1..2 /\ nextStart = total
      /\ parts[1].frames \in 1..ChunkFrames
  BY RunTailParts
<1>5. mel' # <<>>
  <2>1. parts[1].from \in Int /\ parts[1].frames \in Nat \ {0} /\ flowAt # "idle"
    BY <1>1, <1>3, <1>4
  <2>2. QED BY <1>1, <2>1, MelGrows
<1>6. VoiceTokens' = VoiceTokens
  BY <1>1 DEF VoiceTokens
<1>7. CASE Len(parts) = 1
  <2>1. parts' = <<>> /\ Done + parts[1].frames = 2 * total /\ Done' = 2 * total
    BY <1>7, RunTailParts
  <2>2. flowAt' = "loop"
    BY <1>1, <2>1
  <2>3. PartsWait'
    BY <2>1, <2>2, NoPartsWait
  <2>4. Done' > PromptFrames
    <3>1. Done > PromptFrames
      BY <1>2
    <3>2. 2 * total > PromptFrames
      BY <1>3, <1>4, <2>1, <3>1
    <3>3. QED BY <2>1, <3>2
  <2>5. QED BY <1>1, <1>2, <1>5, <1>6, <2>1, <2>2, <2>3, <2>4 DEF LoopRight
<1>8. CASE Len(parts) = 2
  <2>1. /\ parts' # <<>> /\ Len(parts') = 1 /\ parts'[1] = parts[2] /\ parts' \in Seq(WaitingPart)
        /\ parts[2].final = TRUE /\ parts[2].frames \in 1..ChunkFrames
        /\ Done' = Done + ChunkFrames /\ Done' = parts[2].from
        /\ Done + ChunkFrames + parts[2].frames = 2 * total
    BY <1>8, RunTailParts
  <2>2. flowAt' = "parts"
    BY <1>1, <2>1
  <2>3. Done' > PromptFrames
    <3>1. Done > PromptFrames
      BY <1>2
    <3>2. Done + ChunkFrames > PromptFrames
      BY <1>3, <1>4, <3>1
    <3>3. QED BY <2>1, <3>2
  <2>4. PartsWait'
    <3>1. nextStart' = total' /\ Len(parts') \in 1..2 /\ Len(parts') # 2
      BY <1>1, <1>4, <2>1
    <3>2. \A j \in 1..Len(parts') : parts'[j].final = (j = Len(parts'))
      <4>1. \A j \in 1..1 : j = 1
        OBVIOUS
      <4>2. QED BY <2>1, <4>1
    <3>3. parts'[Len(parts')].frames \in 1..ChunkFrames
      BY <2>1
    <3>4. parts'[Len(parts')].from + parts'[Len(parts')].frames = 2 * total'
      BY <1>1, <2>1
    <3>5. QED BY <2>1, <2>2, <3>1, <3>2, <3>3, <3>4 DEF PartsWait
  <2>5. QED BY <1>1, <1>2, <1>5, <1>6, <2>1, <2>2, <2>3, <2>4 DEF LoopRight
<1>9. QED BY <1>4, <1>7, <1>8

\* Where the loop is stays right under every step.
LEMMA LoopRightStep == FlowTypes /\ LoopRight /\ MelRight /\ FlowNext => LoopRight'
<1> SUFFICES ASSUME FlowTypes, LoopRight, MelRight, FlowNext PROVE LoopRight'
  OBVIOUS
<1>1. ASSUME Speak PROVE LoopRight'
  <2>1. UNCHANGED <<options, flowAt, utterance, total, flowOf, loopOf, mel>>
    BY <1>1 DEF Speak
  <2>2. UNCHANGED <<profile, nextStart, chunkNo, noise, steadyReady, parts>>
    BY <2>1 DEF flowOf, loopOf
  <2>3. VoiceTokens' = VoiceTokens /\ Done' = Done
    BY <2>1, <2>2 DEF VoiceTokens, Done
  <2>4. PartsWait => PartsWait'
    BY <2>1, <2>2 DEF PartsWait
  <2>5. QED BY <2>1, <2>2, <2>3, <2>4 DEF LoopRight
<1>2. ASSUME UtteranceEnds \/ Throws PROVE LoopRight'
  <2>1. flowAt' = "idle" /\ UNCHANGED <<profile, nextStart>>
    BY <1>2 DEF UtteranceEnds, Throws, flowOf, loopOf
  <2>2. VoiceTokens' = VoiceTokens
    BY OptionsStay
  <2>3. QED BY <2>1, <2>2 DEF LoopRight
<1>3. QED BY <1>1, <1>2, BeginLoop, VoiceChunkLoop, VoiceKeptLoop, FlowChunkLoop, HandOverLoop, PartReadyLoop,
             RunTwoLoop, TailBackLoop, RunTailLoop DEF FlowNext

\* The encoder's cache.
LEMMA EncoderRightStep ==
  FlowTypes /\ LoopRight /\ EncoderRight /\ ProfileRight /\ FlowNext => EncoderRight'
<1> SUFFICES ASSUME FlowTypes, LoopRight, EncoderRight, ProfileRight, FlowNext, flowAt' # "idle", nextStart' < total'
             PROVE  HasTokens(utterance', VoiceTokens, encoder', nextStart')
  BY OptionsStay DEF EncoderRight
<1>1. /\ ChunkTokens \in Nat \ {0} /\ PromptTokens = 2 * ChunkTokens /\ TokenCache \in Nat /\ TokenCache > PromptTokens
      /\ VoiceTokens \in {ChunkTokens, PromptTokens} /\ VoiceTokens \in Nat /\ nextStart \in Nat /\ total \in Nat
  BY FlowNumbers, VoiceIs DEF FlowTypes
<1>2. ASSUME NEW n \in TokenCounts, BeginUtterance(n) PROVE HasTokens(utterance', VoiceTokens, encoder', nextStart')
  <2>1. CASE profile = NoProfile
    <3>1. encoder' = EncoderReset /\ nextStart' = 0
      BY <1>2, <2>1 DEF BeginUtterance
    <3>2. Lesser(0, TokenCache) = 0
      BY <1>1 DEF Lesser
    <3>3. \A i \in 1..TokenCache : (i > TokenCache - 0) = FALSE
      BY <1>1
    <3>4. \A i \in 1..TokenCache : EncoderReset.valid[i] = FALSE
      BY DEF EncoderReset
    <3>5. QED BY <3>1, <3>2, <3>3, <3>4 DEF HasTokens
  <2>2. CASE profile # NoProfile
    <3>1. encoder' = profile.encoder /\ nextStart' = VoiceTokens
      BY <1>2, <2>2 DEF BeginUtterance
    <3>2. HasTokens(0, VoiceTokens, profile.encoder, VoiceTokens)
      BY <2>2 DEF ProfileRight
    <3>3. VoiceTokens <= VoiceTokens
      BY <1>1
    <3>4. QED BY <1>1, <3>1, <3>2, <3>3, TokensCovered
  <2>3. QED BY <2>1, <2>2
<1>3. ASSUME VoiceChunk PROVE HasTokens(utterance', VoiceTokens, encoder', nextStart')
  <2>1. /\ flowAt = "voice" /\ nextStart < VoiceTokens /\ utterance' = utterance
        /\ encoder' = Encoded(encoder, Rows(0, nextStart, ChunkTokens)) /\ nextStart' = nextStart + ChunkTokens
    BY <1>3 DEF VoiceChunk, RunsBoth
  <2>2. (nextStart < PromptTokens => nextStart \in {0, ChunkTokens}) /\ total > PromptTokens
    BY <2>1 DEF LoopRight
  <2>3. nextStart < total /\ nextStart + ChunkTokens <= VoiceTokens
    BY <1>1, <2>1, <2>2
  <2>4. HasTokens(utterance, VoiceTokens, encoder, nextStart)
    BY <2>1, <2>3 DEF EncoderRight
  <2>5. ASSUME NEW i \in 0..(ChunkTokens - 1) PROVE Own(utterance, nextStart + i, VoiceTokens) = <<0, nextStart + i>>
    <3>1. nextStart + i \in Int /\ nextStart + i < VoiceTokens
      BY <1>1, <2>3
    <3>2. QED BY <1>1, <3>1, OwnCovered
  <2>6. QED BY <1>1, <2>1, <2>4, <2>5, EncodedHasTokens
<1>4. ASSUME VoiceKept PROVE HasTokens(utterance', VoiceTokens, encoder', nextStart')
  <2>1. flowAt # "idle" /\ UNCHANGED <<utterance, total, encoder, nextStart>>
    BY <1>4 DEF VoiceKept, loopOf
  <2>2. QED BY <2>1 DEF EncoderRight
<1>5. ASSUME FlowChunk \/ PartReady PROVE HasTokens(utterance', VoiceTokens, encoder', nextStart')
  <2>1. /\ flowAt = "loop" /\ nextStart < total /\ UNCHANGED <<utterance, total>>
        /\ encoder' = Encoded(encoder, Rows(utterance, nextStart, Current)) /\ nextStart' = nextStart + Current
    BY <1>5 DEF FlowChunk, RunsBoth, PartReady
  <2>2. ~Final
    <3>1. Final <=> nextStart + Current = total
      BY <1>1, <2>1, CurrentIs
    <3>2. nextStart + Current \in Nat /\ nextStart + Current < total
      BY <1>1, <2>1, CurrentIs
    <3>3. QED BY <1>1, <3>1, <3>2
  <2>3. Current = ChunkTokens
    BY <1>1, <2>1, <2>2, CurrentIs
  <2>4. VoiceTokens <= nextStart
    BY <2>1 DEF LoopRight
  <2>5. HasTokens(utterance, VoiceTokens, encoder, nextStart)
    BY <2>1 DEF EncoderRight
  <2>6. ASSUME NEW i \in 0..(ChunkTokens - 1)
        PROVE  Own(utterance, nextStart + i, VoiceTokens) = <<utterance, nextStart + i>>
    <3>1. nextStart + i \in Int /\ nextStart + i >= VoiceTokens
      BY <1>1, <2>4
    <3>2. QED BY <1>1, <3>1, OwnBeyond
  <2>7. QED BY <1>1, <2>1, <2>3, <2>5, <2>6, EncodedHasTokens
<1>6. ASSUME HandOver \/ RunTwo \/ TailBack \/ RunTail \/ Speak
      PROVE  HasTokens(utterance', VoiceTokens, encoder', nextStart')
  <2>1. flowAt # "idle" /\ UNCHANGED <<utterance, total, encoder, nextStart>>
    BY <1>6 DEF HandOver, RunTwo, TailBack, RunTail, Speak, loopOf, flowOf
  <2>2. QED BY <2>1 DEF EncoderRight
<1>7. ASSUME UtteranceEnds \/ Throws PROVE FALSE
  BY <1>7 DEF UtteranceEnds, Throws
<1>8. QED BY <1>2, <1>3, <1>4, <1>5, <1>6, <1>7 DEF FlowNext

\* What a run of the flow model of n frames after Done makes of a cache.
LEMMA TargetFrames ==
  ASSUME FlowTypes, LoopRight, flowAt # "idle", NEW g, NEW n \in Nat \ {0}, Done >= 2 * VoiceTokens,
         Done < PromptFrames => Done + n <= PromptFrames, HasFrames(utterance, VoiceTokens, g, Done)
  PROVE  HasFrames(utterance, VoiceTokens, RunGraph(g, Done, Rows(utterance, Done, n)), Done + n)
<1>1. Done \in Nat /\ VoiceTokens \in Nat
  BY FlowStay, VoiceIs
<1>2. ASSUME NEW j \in 1..n PROVE Own(utterance, Done + j - 1, 2 * VoiceTokens) = <<utterance, Done + j - 1>>
  <2>1. Done + j - 1 \in Int /\ 2 * VoiceTokens \in Int /\ Done + j - 1 >= 2 * VoiceTokens
    BY <1>1
  <2>2. QED BY <2>1, OwnBeyond
<1>3. QED BY <1>1, <1>2, RanHasFrames

\* The graph that runs next has the last frames of this utterance, through every hand-over.
LEMMA GraphRightStep ==
  FlowTypes /\ LoopRight /\ GraphRight /\ ProfileRight /\ FlowNext => GraphRight'
<1> SUFFICES ASSUME FlowTypes, LoopRight, GraphRight, ProfileRight, FlowNext, flowAt' # "idle", Done' < 2 * total'
             PROVE  HasFrames(utterance', VoiceTokens, graph'[Running'], Done')
  BY OptionsStay DEF GraphRight
<1>1. /\ ChunkTokens \in Nat \ {0} /\ PromptTokens = 2 * ChunkTokens /\ PromptFrames = 4 * ChunkTokens
      /\ ChunkFrames = 2 * ChunkTokens
      /\ VoiceTokens \in {ChunkTokens, PromptTokens} /\ VoiceTokens \in Nat /\ nextStart \in Nat /\ total \in Nat
  BY FlowNumbers, VoiceIs DEF FlowTypes
<1>2. DOMAIN graph = {"flow", "steady"}
  BY DEF FlowTypes
<1>3. ASSUME NEW n \in TokenCounts, BeginUtterance(n)
      PROVE  HasFrames(utterance', VoiceTokens, graph'[Running'], Done')
  <2>1. steadyReady' = FALSE /\ Running' = "flow" /\ Done' = 2 * nextStart'
    BY <1>3 DEF BeginUtterance, Running, Done
  <2>2. CASE profile = NoProfile
    <3>1. graph'["flow"] = GraphReset /\ nextStart' = 0
      BY <1>3, <2>2 DEF BeginUtterance
    <3>2. Done' = 0
      BY <2>1, <3>1
    <3>3. ShownOf(0) = 0
      BY <1>1 DEF ShownOf
    <3>4. HasFrames(utterance', VoiceTokens, GraphReset, 0)
      BY <3>3 DEF HasFrames
    <3>5. QED BY <2>1, <3>1, <3>2, <3>4
  <2>3. CASE profile # NoProfile
    <3>1. graph'["flow"] = profile.flow /\ nextStart' = VoiceTokens
      BY <1>3, <2>3 DEF BeginUtterance
    <3>2. HasFrames(0, VoiceTokens, profile.flow, 2 * VoiceTokens)
      BY <2>3 DEF ProfileRight
    <3>3. 2 * VoiceTokens \in Nat /\ 2 * VoiceTokens <= 2 * VoiceTokens
      BY <1>1
    <3>4. HasFrames(utterance', VoiceTokens, profile.flow, 2 * VoiceTokens)
      BY <1>1, <3>2, <3>3, FramesCovered
    <3>5. QED BY <2>1, <3>1, <3>4
  <2>4. QED BY <2>2, <2>3
<1>4. ASSUME VoiceChunk PROVE HasFrames(utterance', VoiceTokens, graph'[Running'], Done')
  <2>1. /\ flowAt = "voice" /\ flowAt' = "voice" /\ nextStart < VoiceTokens /\ utterance' = utterance
        /\ graph' = [graph EXCEPT !["flow"] = RunGraph(@, 2 * nextStart, Rows(0, 2 * nextStart, 2 * ChunkTokens))]
        /\ nextStart' = nextStart + ChunkTokens /\ UNCHANGED <<steadyReady, parts>>
    BY <1>4 DEF VoiceChunk, RunsBoth, FrameRows
  <2>2. /\ (nextStart < PromptTokens => nextStart \in {0, ChunkTokens}) /\ total > PromptTokens /\ ~steadyReady
        /\ parts = <<>>
    BY <2>1 DEF LoopRight, PartsWait
  <2>3. Done = 2 * nextStart /\ Done' = 2 * nextStart' /\ Running = "flow" /\ Running' = "flow"
    BY <2>1, <2>2 DEF Done, Running
  <2>4. nextStart < total /\ nextStart + ChunkTokens <= VoiceTokens
    BY <1>1, <2>1, <2>2
  <2> DEFINE p == 2 * nextStart
             n == 2 * ChunkTokens
  <2>5. p \in Nat /\ n \in Nat \ {0} /\ p + n <= PromptFrames /\ p + n <= 2 * VoiceTokens /\ p < 2 * total
        /\ 2 * (nextStart + ChunkTokens) = p + n
    BY <1>1, <2>4
  <2> HIDE DEF p, n
  <2>6. HasFrames(utterance, VoiceTokens, graph["flow"], p)
    BY <2>1, <2>3, <2>5 DEF GraphRight, p
  <2>7. ASSUME NEW j \in 1..n PROVE Own(utterance, p + j - 1, 2 * VoiceTokens) = <<0, p + j - 1>>
    <3>1. p + j - 1 \in Int /\ 2 * VoiceTokens \in Int /\ p + j - 1 < 2 * VoiceTokens
      BY <1>1, <2>5
    <3>2. QED BY <3>1, OwnCovered
  <2>8. HasFrames(utterance, VoiceTokens, RunGraph(graph["flow"], p, Rows(0, p, n)), p + n)
    BY <1>1, <2>5, <2>6, <2>7, RanHasFrames
  <2>9. graph'["flow"] = RunGraph(graph["flow"], p, Rows(0, p, n))
    BY <1>2, <2>1 DEF p, n
  <2>10. Done' = p + n
    BY <2>1, <2>3, <2>5
  <2>11. QED BY <2>1, <2>3, <2>8, <2>9, <2>10
<1>5. ASSUME VoiceKept PROVE HasFrames(utterance', VoiceTokens, graph'[Running'], Done')
  <2>1. flowAt = "voice" /\ flowAt' = "loop" /\ UNCHANGED <<utterance, total, graph, nextStart, parts, steadyReady>>
    BY <1>5 DEF VoiceKept, loopOf
  <2>2. Done' = Done /\ Running' = Running
    BY <2>1 DEF Done, Running
  <2>3. QED BY <2>1, <2>2 DEF GraphRight
<1>6. ASSUME FlowChunk PROVE HasFrames(utterance', VoiceTokens, graph'[Running'], Done')
  <2>1. /\ parts = <<>> /\ ~steadyReady /\ Done = 2 * nextStart
        /\ nextStart < PromptTokens => nextStart = ChunkTokens /\ Current = ChunkTokens
        /\ nextStart < total /\ VoiceTokens <= nextStart
    BY <1>6, FlowChunkAt
  <2>2. /\ flowAt = "loop" /\ flowAt' \in {"loop", "hand over"} /\ UNCHANGED <<utterance, steadyReady, parts, total>>
        /\ graph' = [graph EXCEPT !["flow"] = RunGraph(@, 2 * nextStart, Rows(utterance, 2 * nextStart, 2 * Current))]
        /\ nextStart' = nextStart + Current
    BY <1>6 DEF FlowChunk, RunsBoth, FrameRows
  <2>3. Done' = 2 * nextStart' /\ Running = "flow" /\ Running' = "flow"
    BY <2>1, <2>2 DEF Done, Running
  <2>4. Current \in 1..ChunkTokens
    BY <1>1, <2>1, CurrentIs
  <2> DEFINE n == 2 * Current
  <2>5. n \in Nat \ {0} /\ 2 * (nextStart + Current) = 2 * nextStart + n /\ 2 * nextStart < 2 * total
        /\ 2 * nextStart >= 2 * VoiceTokens /\ (2 * nextStart < PromptFrames => 2 * nextStart + n <= PromptFrames)
    BY <1>1, <2>1, <2>4
  <2>6. graph'["flow"] = RunGraph(graph["flow"], Done, Rows(utterance, Done, n))
    BY <1>2, <2>1, <2>2
  <2> HIDE DEF n
  <2>7. HasFrames(utterance, VoiceTokens, graph["flow"], Done)
    BY <2>1, <2>2, <2>3, <2>5 DEF GraphRight
  <2>8. flowAt # "idle" /\ Done >= 2 * VoiceTokens /\ (Done < PromptFrames => Done + n <= PromptFrames)
    BY <2>1, <2>2, <2>5
  <2>9. HasFrames(utterance, VoiceTokens, RunGraph(graph["flow"], Done, Rows(utterance, Done, n)), Done + n)
    BY <2>5, <2>7, <2>8, TargetFrames
  <2>10. Done' = Done + n
    BY <2>1, <2>2, <2>3, <2>5
  <2>11. QED BY <2>2, <2>3, <2>6, <2>9, <2>10
<1>7. ASSUME HandOver PROVE HasFrames(utterance', VoiceTokens, graph'[Running'], Done')
  <2>1. flowAt = "hand over" /\ ~steadyReady
    BY <1>7 DEF HandOver, LoopRight
  <2>2. /\ graph' = [graph EXCEPT !["steady"] = graph["flow"]] /\ steadyReady' = TRUE /\ flowAt' = "loop"
        /\ UNCHANGED <<utterance, total, nextStart, parts>>
    BY <1>7, <2>1 DEF HandOver
  <2>3. Running = "flow" /\ Running' = "steady" /\ Done' = Done
    BY <2>1, <2>2 DEF Running, Done
  <2>4. graph'["steady"] = graph["flow"]
    BY <1>2, <2>2
  <2>5. QED BY <2>1, <2>2, <2>3, <2>4 DEF GraphRight
<1>8. ASSUME PartReady PROVE HasFrames(utterance', VoiceTokens, graph'[Running'], Done')
  <2>1. flowAt = "loop" /\ steadyReady /\ Done' = Done
    BY <1>8, PartReadyAt, PartReadyParts
  <2>2. flowAt' \in {"loop", "two", "tail"} /\ UNCHANGED <<utterance, total, graph, steadyReady>>
    BY <1>8 DEF PartReady
  <2>3. Running' = Running
    BY <2>1, <2>2 DEF Running
  <2>4. QED BY <2>1, <2>2, <2>3 DEF GraphRight
<1>9. ASSUME RunTwo PROVE HasFrames(utterance', VoiceTokens, graph'[Running'], Done')
  <2>1. /\ flowAt = "two" /\ flowAt' = "loop" /\ parts' = <<>> /\ UNCHANGED <<utterance, total, nextStart, steadyReady>>
        /\ graph' = [graph EXCEPT !["steady"] =
             RunGraph(@, parts[1].from, Rows(utterance, parts[1].from, 2 * ChunkFrames))]
    BY <1>9 DEF RunTwo, RunPart
  <2>2. steadyReady /\ Done > PromptFrames /\ nextStart <= total
    BY <2>1 DEF LoopRight
  <2>3. Done \in Nat /\ Done = 2 * nextStart - 2 * ChunkFrames /\ Done = parts[1].from
    <3>1. Len(parts) = 2 /\ parts[1].from = 2 * nextStart - 2 * ChunkFrames
      BY <2>1 DEF LoopRight, PartsWait
    <3>2. parts # <<>>
      <4>1. Len(<<>>) = 0
        OBVIOUS
      <4>2. QED BY <3>1, <4>1
    <3>3. QED BY <2>1, <3>1, <3>2, FlowStay
  <2>4. Running = "steady" /\ Running' = "steady" /\ Done' = 2 * nextStart
    BY <2>1, <2>2 DEF Running, Done
  <2> DEFINE n == 2 * ChunkFrames
  <2>5. n \in Nat \ {0} /\ 2 * nextStart = Done + n /\ Done < 2 * total /\ Done >= 2 * VoiceTokens /\ ~(Done < PromptFrames)
    BY <1>1, <2>2, <2>3
  <2>6. graph'["steady"] = RunGraph(graph["steady"], Done, Rows(utterance, Done, n))
    BY <1>2, <2>1, <2>3
  <2> HIDE DEF n
  <2>7. HasFrames(utterance, VoiceTokens, graph["steady"], Done)
    BY <2>1, <2>4, <2>5 DEF GraphRight
  <2>8. flowAt # "idle" /\ (Done < PromptFrames => Done + n <= PromptFrames)
    BY <2>1, <2>5
  <2>9. HasFrames(utterance, VoiceTokens, RunGraph(graph["steady"], Done, Rows(utterance, Done, n)), Done + n)
    BY <2>5, <2>7, <2>8, TargetFrames
  <2>10. QED BY <2>1, <2>4, <2>5, <2>6, <2>9
<1>10. ASSUME TailBack PROVE HasFrames(utterance', VoiceTokens, graph'[Running'], Done')
  <2>1. /\ flowAt = "tail" /\ flowAt' = "parts" /\ graph' = [graph EXCEPT !["flow"] = graph["steady"]]
        /\ UNCHANGED <<utterance, total, nextStart, steadyReady, parts>>
    BY <1>10 DEF TailBack, loopOf
  <2>2. steadyReady
    BY <2>1 DEF LoopRight
  <2>3. Running = "steady" /\ Running' = "flow" /\ Done' = Done
    BY <2>1, <2>2 DEF Running, Done
  <2>4. graph'["flow"] = graph["steady"]
    BY <1>2, <2>1
  <2>5. QED BY <2>1, <2>3, <2>4 DEF GraphRight
<1>11. ASSUME RunTail PROVE HasFrames(utterance', VoiceTokens, graph'[Running'], Done')
  <2>1. /\ flowAt = "parts" /\ UNCHANGED <<utterance, total, nextStart, steadyReady>>
        /\ flowAt' = (IF parts' = <<>> THEN "loop" ELSE "parts")
        /\ graph' = [graph EXCEPT !["flow"] =
             RunGraph(@, parts[1].from, Rows(utterance, parts[1].from, parts[1].frames))]
    BY <1>11 DEF RunTail, RunPart
  <2>2. Done = parts[1].from /\ Done \in Nat /\ Len(parts) \in 1..2 /\ nextStart = total
    BY <1>11, RunTailParts
  <2>3. Len(parts) = 2
    <3>1. CASE Len(parts) = 1
      <4>1. Done' = 2 * total
        BY <1>11, <3>1, RunTailParts
      <4>2. QED BY <1>1, <2>1, <4>1
    <3>2. QED BY <2>2, <3>1
  <2>4. /\ parts' # <<>> /\ parts[1].frames = ChunkFrames /\ Done' = Done + ChunkFrames
        /\ parts[2].frames \in 1..ChunkFrames /\ Done + ChunkFrames + parts[2].frames = 2 * total
    BY <1>11, <2>3, RunTailParts
  <2>5. flowAt' = "parts" /\ Running = "flow" /\ Running' = "flow"
    BY <2>1, <2>4 DEF Running
  <2>6. steadyReady /\ Done > PromptFrames
    BY <2>1 DEF LoopRight
  <2>7. Done < 2 * total /\ Done >= 2 * VoiceTokens /\ ~(Done < PromptFrames) /\ ChunkFrames \in Nat \ {0}
    BY <1>1, <2>2, <2>4, <2>6
  <2>8. HasFrames(utterance, VoiceTokens, graph["flow"], Done)
    BY <2>1, <2>5, <2>7 DEF GraphRight
  <2>9. flowAt # "idle" /\ (Done < PromptFrames => Done + ChunkFrames <= PromptFrames)
    BY <2>1, <2>7
  <2>10. HasFrames(utterance, VoiceTokens, RunGraph(graph["flow"], Done, Rows(utterance, Done, ChunkFrames)), Done + ChunkFrames)
    BY <2>7, <2>8, <2>9, TargetFrames
  <2>11. graph'["flow"] = RunGraph(graph["flow"], Done, Rows(utterance, Done, ChunkFrames))
    BY <1>2, <2>1, <2>2, <2>4
  <2>12. QED BY <2>1, <2>4, <2>5, <2>10, <2>11
<1>12. ASSUME Speak PROVE HasFrames(utterance', VoiceTokens, graph'[Running'], Done')
  <2>1. flowAt # "idle" /\ UNCHANGED <<flowAt, utterance, total, graph, nextStart, parts, steadyReady>>
    BY <1>12 DEF Speak, loopOf, flowOf
  <2>2. Done' = Done /\ Running' = Running
    BY <2>1 DEF Done, Running
  <2>3. QED BY <2>1, <2>2 DEF GraphRight
<1>13. ASSUME UtteranceEnds \/ Throws PROVE FALSE
  BY <1>13 DEF UtteranceEnds, Throws
<1>14. QED BY <1>3, <1>4, <1>5, <1>6, <1>7, <1>8, <1>9, <1>10, <1>11, <1>12, <1>13 DEF FlowNext

\* The profile is what the prompt made of two empty caches, whoever spoke it.
LEMMA ProfileRightStep ==
  FlowTypes /\ LoopRight /\ EncoderRight /\ GraphRight /\ ProfileRight /\ FlowNext => ProfileRight'
<1> SUFFICES ASSUME FlowTypes, LoopRight, EncoderRight, GraphRight, ProfileRight, FlowNext PROVE ProfileRight'
  OBVIOUS
<1>1. VoiceTokens' = VoiceTokens
  BY OptionsStay
<1>2. ASSUME profile' = profile PROVE ProfileRight'
  BY <1>1, <1>2 DEF ProfileRight
<1>3. ASSUME VoiceKept PROVE ProfileRight'
  <2>1. /\ flowAt = "voice" /\ nextStart = VoiceTokens /\ profile' = [encoder |-> encoder, flow |-> graph["flow"]]
    BY <1>3 DEF VoiceKept
  <2>2. total > PromptTokens /\ ~steadyReady /\ parts = <<>>
    BY <2>1 DEF LoopRight, PartsWait
  <2>3. /\ ChunkTokens \in Nat \ {0} /\ PromptTokens = 2 * ChunkTokens
        /\ VoiceTokens \in {ChunkTokens, PromptTokens} /\ VoiceTokens \in Nat /\ total \in Nat
    BY FlowNumbers, VoiceIs DEF FlowTypes
  <2>4. nextStart < total /\ 2 * nextStart < 2 * total /\ 2 * VoiceTokens \in Nat /\ 2 * VoiceTokens <= 2 * VoiceTokens
        /\ VoiceTokens <= VoiceTokens
    BY <2>1, <2>2, <2>3
  <2>5. Done = 2 * VoiceTokens /\ Running = "flow"
    BY <2>1, <2>2 DEF Done, Running
  <2>6. HasTokens(utterance, VoiceTokens, encoder, VoiceTokens)
    BY <2>1, <2>4 DEF EncoderRight
  <2>7. HasTokens(0, VoiceTokens, encoder, VoiceTokens)
    BY <2>3, <2>4, <2>6, TokensCovered
  <2>8. HasFrames(utterance, VoiceTokens, graph["flow"], 2 * VoiceTokens)
    BY <2>1, <2>4, <2>5 DEF GraphRight
  <2>9. HasFrames(0, VoiceTokens, graph["flow"], 2 * VoiceTokens)
    BY <2>3, <2>4, <2>8, FramesCovered
  <2>10. profile'.encoder = encoder /\ profile'.flow = graph["flow"]
    BY <2>1
  <2>11. QED BY <1>1, <2>7, <2>9, <2>10 DEF ProfileRight
<1>4. VoiceKept \/ profile' = profile
  BY DEF FlowNext, BeginUtterance, VoiceChunk, FlowChunk, HandOver, PartReady, RunTwo, TailBack,
         RunTail, Speak, UtteranceEnds, Throws, flowOf
<1>5. QED BY <1>2, <1>3, <1>4

-----------------------------------------------------------------------------
(* What the last run was shown. *)

TokensShown(u, v, start) ==
  [i \in (TokenCache - Lesser(start, TokenCache) + 1)..TokenCache |-> Own(u, start - TokenCache + i - 1, v)]

\* A model that has not run was shown nothing.
LEMMA NoTokensShown == \A u, v : <<>> = TokensShown(u, v, 0)
<1>1. TokenCache \in Nat /\ Lesser(0, TokenCache) = 0
  BY FlowNumbers DEF Lesser
<1>2. (TokenCache - Lesser(0, TokenCache) + 1)..TokenCache = {}
  BY <1>1
<1>3. ASSUME NEW u, NEW v PROVE <<>> = TokensShown(u, v, 0)
  <2>1. DOMAIN TokensShown(u, v, 0) = {}
    BY <1>2 DEF TokensShown
  <2>2. TokensShown(u, v, 0) = [i \in {} |-> TokensShown(u, v, 0)[i]]
    BY <1>2 DEF TokensShown
  <2>3. <<>> = [i \in {} |-> TokensShown(u, v, 0)[i]]
    OBVIOUS
  <2>4. QED BY <2>2, <2>3
<1>4. QED BY <1>3

FramesShown(u, v, p) == [i \in 1..ShownOf(p) |-> Own(u, ShownAt(p, i), 2 * v)]

\* A graph whose cache is right is shown the right frames.
LEMMA SeesShown ==
  ASSUME NEW u, NEW v, NEW g, NEW p, p \in Nat, HasFrames(u, v, g, p)
  PROVE  GraphSees(g, p) = FramesShown(u, v, p) /\ (p > 0 => g.conv = Own(u, p - 1, 2 * v))
<1>1. GraphSees(g, p) = [i \in 1..ShownOf(p) |-> Own(u, ShownAt(p, i), 2 * v)]
  BY SeesFrames
<1>2. QED BY <1>1 DEF FramesShown, HasFrames

\* A run of the encoder alone, of a graph alone, of both, of none.
RanOf(u, v, r, after) ==
  /\ r.start \in Nat /\ r.start <= after /\ r.frame \in Nat /\ r.frame <= 2 * after
  /\ r.tokens = TokensShown(u, v, r.start)
  /\ r.frame > 0 => r.conv = Own(u, r.frame - 1, 2 * v) /\ r.kv = FramesShown(u, v, r.frame)

\* RanRight, for any run.
LEMMA RanIs == RanRight' <=> RanOf(utterance', VoiceTokens', ran', nextStart')
  BY DEF RanRight, RanOf, TokensShown, FramesShown

\* The last run was shown the past of its utterance, under every step.
LEMMA RanRightStep ==
  FlowTypes /\ LoopRight /\ EncoderRight /\ GraphRight /\ RanRight /\ FlowNext => RanRight'
<1> SUFFICES ASSUME FlowTypes, LoopRight, EncoderRight, GraphRight, RanRight, FlowNext PROVE RanRight'
  OBVIOUS
<1>1. VoiceTokens' = VoiceTokens
  BY OptionsStay
<1>2. /\ ChunkTokens \in Nat \ {0} /\ PromptTokens = 2 * ChunkTokens
      /\ VoiceTokens \in {ChunkTokens, PromptTokens} /\ VoiceTokens \in Nat /\ nextStart \in Nat /\ total \in Nat
  BY FlowNumbers, VoiceIs DEF FlowTypes
<1> DEFINE tokensOf(k) == TokensShown(utterance, VoiceTokens, k)
<1>3. ASSUME NEW n \in TokenCounts, BeginUtterance(n) PROVE RanRight'
  <2>1. ran' = NotRun
    BY <1>3 DEF BeginUtterance
  <2>2. nextStart' \in Nat
    BY <1>2, <1>3 DEF BeginUtterance
  <2> DEFINE after == nextStart'
             now == utterance'
             v == VoiceTokens
  <2>3. \A k \in Nat : 0 \in Nat /\ 0 <= k /\ 0 <= 2 * k /\ ~(0 > 0)
    OBVIOUS
  <2>4. NotRun.tokens = TokensShown(now, v, 0)
    BY NoTokensShown DEF NotRun
  <2>5. NotRun.start = 0 /\ NotRun.frame = 0
    BY DEF NotRun
  <2>6. after \in Nat
    BY <2>2
  <2> HIDE DEF after, now, v
  <2>7. RanOf(now, v, NotRun, after)
    BY <2>3, <2>4, <2>5, <2>6 DEF RanOf
  <2>8. QED BY <1>1, <2>1, <2>7, RanIs DEF now, after, v
<1>4. ASSUME VoiceChunk \/ FlowChunk PROVE RanRight'
  <2>1. /\ flowAt \in {"voice", "loop"} /\ nextStart < total /\ parts = <<>> /\ ~steadyReady
        /\ nextStart' \in Nat /\ nextStart <= nextStart'
    <3>1. CASE VoiceChunk
      <4>1. flowAt = "voice" /\ nextStart < VoiceTokens /\ nextStart' = nextStart + ChunkTokens
        BY <3>1 DEF VoiceChunk, RunsBoth
      <4>2. total > PromptTokens /\ parts = <<>> /\ ~steadyReady
        BY <4>1 DEF LoopRight, PartsWait
      <4>3. nextStart < total /\ nextStart + ChunkTokens \in Nat /\ nextStart <= nextStart + ChunkTokens
        BY <1>2, <4>1, <4>2
      <4>4. QED BY <4>1, <4>2, <4>3
    <3>2. CASE FlowChunk
      <4>1. nextStart < total /\ parts = <<>> /\ ~steadyReady
        BY <3>2, FlowChunkAt
      <4>2. flowAt = "loop" /\ nextStart' = nextStart + Current
        BY <3>2 DEF FlowChunk, RunsBoth
      <4>3. Current \in 1..ChunkTokens
        BY <1>2, <4>1, CurrentIs
      <4>4. nextStart + Current \in Nat /\ nextStart <= nextStart + Current
        BY <1>2, <4>3
      <4>5. QED BY <4>1, <4>2, <4>4
    <3>3. QED BY <1>4, <3>1, <3>2
  <2>2. /\ utterance' = utterance
        /\ ran' = [start |-> nextStart, tokens |-> EncoderSees(encoder), frame |-> 2 * nextStart,
                   kv |-> GraphSees(graph["flow"], 2 * nextStart), conv |-> graph["flow"].conv]
    BY <1>4 DEF VoiceChunk, FlowChunk, RunsBoth
  <2>3. Done = 2 * nextStart /\ Running = "flow"
    BY <2>1 DEF Done, Running
  <2>4. 2 * nextStart \in Nat /\ 2 * nextStart < 2 * total /\ 2 * nextStart <= 2 * nextStart'
    <3>1. \A a, b, c \in Nat : a < b /\ a <= c => 2 * a \in Nat /\ 2 * a < 2 * b /\ 2 * a <= 2 * c
      OBVIOUS
    <3> DEFINE after == nextStart'
    <3>2. after \in Nat /\ nextStart <= after /\ nextStart < total
      BY <2>1
    <3> HIDE DEF after
    <3>3. 2 * nextStart \in Nat /\ 2 * nextStart < 2 * total /\ 2 * nextStart <= 2 * after
      BY <1>2, <3>1, <3>2
    <3>4. QED BY <3>3 DEF after
  <2>5. HasTokens(utterance, VoiceTokens, encoder, nextStart) /\ HasFrames(utterance, VoiceTokens, graph["flow"], 2 * nextStart)
    BY <2>1, <2>3, <2>4 DEF EncoderRight, GraphRight
  <2>6. EncoderSees(encoder) = tokensOf(nextStart)
    BY <1>2, <2>5, SeesTokens DEF TokensShown
  <2>7. /\ 2 * nextStart > 0 => graph["flow"].conv = Own(utterance, 2 * nextStart - 1, 2 * VoiceTokens)
        /\ GraphSees(graph["flow"], 2 * nextStart) = FramesShown(utterance, VoiceTokens, 2 * nextStart)
    BY <2>4, <2>5, SeesShown
  <2> DEFINE after == nextStart'
             v == VoiceTokens
             p == 2 * nextStart
             ran1 == [start |-> nextStart, tokens |-> EncoderSees(encoder), frame |-> p,
                      kv |-> GraphSees(graph["flow"], p), conv |-> graph["flow"].conv]
  <2>8. /\ ran1.start = nextStart /\ ran1.frame = p /\ ran1.tokens = EncoderSees(encoder)
        /\ ran1.kv = GraphSees(graph["flow"], p) /\ ran1.conv = graph["flow"].conv
    OBVIOUS
  <2>9. ran' = ran1 /\ p \in Nat /\ p <= 2 * after /\ nextStart <= after
    BY <2>1, <2>2, <2>4
  <2>10. /\ p > 0 => graph["flow"].conv = Own(utterance, p - 1, 2 * v)
         /\ GraphSees(graph["flow"], p) = FramesShown(utterance, v, p)
    BY <2>7
  <2>11. EncoderSees(encoder) = TokensShown(utterance, v, nextStart)
    BY <2>6
  <2> HIDE DEF p, ran1, after, v
  <2>12. RanOf(utterance, v, ran1, after)
    BY <1>2, <2>8, <2>9, <2>10, <2>11 DEF RanOf
  <2>13. QED BY <1>1, <2>2, <2>9, <2>12, RanIs DEF after, v
<1>5. ASSUME PartReady PROVE RanRight'
  <2>1. flowAt = "loop" /\ nextStart < total /\ nextStart' = nextStart + Current
    BY <1>5, PartReadyAt
  <2>2. Current \in 1..ChunkTokens
    BY <1>2, <2>1, CurrentIs
  <2>3. nextStart + Current \in Nat /\ nextStart <= nextStart + Current /\ 0 <= 2 * (nextStart + Current) /\ ~(0 > 0)
    BY <1>2, <2>2
  <2>4. HasTokens(utterance, VoiceTokens, encoder, nextStart)
    BY <2>1 DEF EncoderRight
  <2>5. EncoderSees(encoder) = tokensOf(nextStart)
    BY <1>2, <2>4, SeesTokens DEF TokensShown
  <2> DEFINE ran1 == [NotRun EXCEPT !.start = nextStart, !.tokens = EncoderSees(encoder)]
  <2>6. ran1.start = nextStart /\ ran1.frame = 0 /\ ran1.tokens = EncoderSees(encoder)
    BY DEF NotRun
  <2>7. ran' = ran1 /\ utterance' = utterance
    BY <1>5 DEF PartReady
  <2> DEFINE after == nextStart'
             v == VoiceTokens
  <2>8. nextStart <= after /\ 0 <= 2 * after /\ ~(0 > 0) /\ 0 \in Nat
    BY <2>1, <2>3
  <2>9. EncoderSees(encoder) = TokensShown(utterance, v, nextStart)
    BY <2>5
  <2> HIDE DEF ran1, after, v
  <2>10. RanOf(utterance, v, ran1, after)
    BY <1>2, <2>6, <2>8, <2>9 DEF RanOf
  <2>11. QED BY <1>1, <2>7, <2>10, RanIs DEF after, v
<1>6. ASSUME NEW g, Running = g, flowAt # "idle", Done < 2 * total, Done <= 2 * nextStart,
             ran' = [NotRun EXCEPT !.frame = Done, !.kv = GraphSees(graph[g], Done), !.conv = graph[g].conv],
             utterance' = utterance, nextStart' = nextStart
      PROVE  RanRight'
  <2>1. Done \in Nat
    BY <1>6, FlowStay
  <2>2. HasFrames(utterance, VoiceTokens, graph[g], Done)
    BY <1>6 DEF GraphRight
  <2>3. /\ Done > 0 => graph[g].conv = Own(utterance, Done - 1, 2 * VoiceTokens)
        /\ GraphSees(graph[g], Done) = FramesShown(utterance, VoiceTokens, Done)
    BY <2>1, <2>2, SeesShown
  <2> DEFINE ran1 == [NotRun EXCEPT !.frame = Done, !.kv = GraphSees(graph[g], Done), !.conv = graph[g].conv]
  <2>4. /\ ran1.start = 0 /\ ran1.frame = Done /\ ran1.tokens = <<>>
        /\ ran1.kv = GraphSees(graph[g], Done) /\ ran1.conv = graph[g].conv
    BY DEF NotRun
  <2>5. ran' = ran1
    BY <1>6
  <2> DEFINE v == VoiceTokens
  <2>6. 0 <= nextStart /\ 0 \in Nat
    BY <1>2
  <2>7. ran1.tokens = TokensShown(utterance, v, 0)
    BY <2>4, NoTokensShown
  <2>8. Done <= 2 * nextStart
    BY <1>6
  <2>9. Done > 0 => graph[g].conv = Own(utterance, Done - 1, 2 * v) /\ GraphSees(graph[g], Done) = FramesShown(utterance, v, Done)
    BY <2>3
  <2> HIDE DEF ran1, v
  <2>10. RanOf(utterance, v, ran1, nextStart)
    BY <2>1, <2>4, <2>6, <2>7, <2>8, <2>9 DEF RanOf
  <2>11. QED BY <1>1, <1>6, <2>5, <2>10, RanIs DEF v
<1>7. ASSUME RunTwo PROVE RanRight'
  <2>1. /\ flowAt = "two" /\ UNCHANGED <<utterance, nextStart>>
        /\ ran' = [NotRun EXCEPT !.frame = parts[1].from, !.kv = GraphSees(graph["steady"], parts[1].from),
                                 !.conv = graph["steady"].conv]
    BY <1>7 DEF RunTwo, RunPart
  <2>2. steadyReady /\ nextStart <= total
    BY <2>1 DEF LoopRight
  <2>3. Done \in Nat /\ Done = 2 * nextStart - 2 * ChunkFrames /\ Done = parts[1].from
    <3>1. Len(parts) = 2 /\ parts[1].from = 2 * nextStart - 2 * ChunkFrames
      BY <2>1 DEF LoopRight, PartsWait
    <3>2. parts # <<>>
      <4>1. Len(<<>>) = 0
        OBVIOUS
      <4>2. QED BY <3>1, <4>1
    <3>3. QED BY <2>1, <3>1, <3>2, FlowStay
  <2>4. Running = "steady"
    BY <2>1, <2>2 DEF Running
  <2>5. ChunkFrames \in Nat \ {0}
    BY FlowNumbers
  <2>6. Done < 2 * total /\ Done <= 2 * nextStart
    BY <1>2, <2>2, <2>3, <2>5
  <2>7. ran' = [NotRun EXCEPT !.frame = Done, !.kv = GraphSees(graph["steady"], Done), !.conv = graph["steady"].conv]
    BY <2>1, <2>3
  <2>8. flowAt # "idle"
    BY <2>1
  <2>9. QED BY <1>6, <2>1, <2>4, <2>6, <2>7, <2>8
<1>8. ASSUME RunTail PROVE RanRight'
  <2>1. /\ flowAt = "parts" /\ UNCHANGED <<utterance, nextStart>>
        /\ ran' = [NotRun EXCEPT !.frame = parts[1].from, !.kv = GraphSees(graph["flow"], parts[1].from),
                                 !.conv = graph["flow"].conv]
    BY <1>8 DEF RunTail, RunPart
  <2>2. /\ Done = parts[1].from /\ Done \in Nat /\ nextStart = total
    BY <1>8, RunTailParts
  <2>3. Running = "flow" /\ flowAt # "idle"
    BY <2>1 DEF Running
  <2>4. Done < 2 * total /\ Done <= 2 * nextStart
    <3>1. CASE Len(parts) = 1
      <4>1. Done + parts[1].frames = 2 * total /\ parts[1].frames \in 1..ChunkFrames
        BY <1>8, <3>1, RunTailParts
      <4>2. QED BY <1>2, <2>2, <4>1, FlowNumbers
    <3>2. CASE Len(parts) = 2
      <4>1. Done + ChunkFrames + parts[2].frames = 2 * total /\ parts[2].frames \in 1..ChunkFrames
        BY <1>8, <3>2, RunTailParts
      <4>2. QED BY <1>2, <2>2, <4>1, FlowNumbers
    <3>3. Len(parts) \in 1..2
      BY <1>8, RunTailParts
    <3>4. QED BY <3>1, <3>2, <3>3
  <2>5. ran' = [NotRun EXCEPT !.frame = Done, !.kv = GraphSees(graph["flow"], Done), !.conv = graph["flow"].conv]
    BY <2>1, <2>2
  <2>6. QED BY <1>6, <2>1, <2>3, <2>4, <2>5
<1>9. ASSUME VoiceKept \/ HandOver \/ TailBack \/ Speak \/ UtteranceEnds \/ Throws PROVE RanRight'
  <2>1. UNCHANGED <<utterance, nextStart, ran>>
    BY <1>9 DEF VoiceKept, HandOver, TailBack, Speak, UtteranceEnds, Throws, loopOf
  <2>2. QED BY <1>1, <2>1 DEF RanRight
<1>10. QED BY <1>3, <1>4, <1>5, <1>7, <1>8, <1>9 DEF FlowNext

-----------------------------------------------------------------------------
(* The Mel frames and their queue. *)

\* A run of the flow model on what comes next, and what it makes.
Pushes(n, final) ==
  /\ flowAt # "idle" /\ n \in Nat \ {0} /\ Done >= PromptFrames /\ Done' = Done + n
  /\ PushMelChunk(Done, n, final)
  /\ NextCut(options.steady, Utterance, Done - PromptFrames, Done - PromptFrames + n)
  /\ final = (Done - PromptFrames + n = Utterance)
  /\ UNCHANGED <<options, utterance, total, vocoder>>

\* The frames of an utterance are those after the prompt.
LEMMA UtteranceIs ==
  ASSUME FlowTypes
  PROVE  Utterance = 2 * total - PromptFrames /\ Utterance \in Int
<1>1. PromptFrames = 2 * PromptTokens /\ PromptTokens \in Nat /\ total \in Nat
  BY FlowNumbers DEF FlowTypes, PromptFrames
<1>2. QED BY <1>1 DEF Utterance

\* The ways a chunk of Mel frames may end.
LEMMA CutAtEnd ==
  ASSUME NEW p \in Int, NEW q \in Int, p < q, q <= Utterance, q = Utterance, q - p <= ChunkFrames
  PROVE  NextCut(options.steady, Utterance, p, q)
BY DEF NextCut

\* After one chunk, unless the steady graph would take two.
LEMMA CutAfterOne ==
  ASSUME NEW p \in Int, NEW q \in Int, p < q, q <= Utterance, q - p = ChunkFrames,
         (p = 0) \/ ~options.steady \/ (Utterance < p + 2 * ChunkFrames)
  PROVE  NextCut(options.steady, Utterance, p, q)
BY Zenon DEF NextCut

\* After two, in the steady graph.
LEMMA CutAfterTwo ==
  ASSUME NEW p \in Int, NEW q \in Int, p < q, q <= Utterance, options.steady, p > 0, q - p = 2 * ChunkFrames
  PROVE  NextCut(options.steady, Utterance, p, q)
BY Zenon DEF NextCut

\* A chunk after the prompt is pushed where the last one ended.
LEMMA FlowChunkPushes ==
  ASSUME FlowTypes, LoopRight, MelRight, FlowChunk, ~(nextStart < PromptTokens)
  PROVE  \E n \in Nat, f \in BOOLEAN : Pushes(n, f)
<1>1. /\ parts = <<>> /\ ~steadyReady /\ ~(options.steady /\ mel # <<>>) /\ Done = 2 * nextStart
      /\ nextStart \in Nat /\ nextStart < total
  BY FlowChunkAt
<1>2. /\ flowAt = "loop" /\ nextStart' = nextStart + Current
      /\ PushMelChunk(2 * nextStart, 2 * Current, Final) /\ UNCHANGED <<options, utterance, total, vocoder, parts>>
  BY DEF FlowChunk, RunsBoth
<1>3. /\ ChunkTokens \in Nat \ {0} /\ PromptTokens = 2 * ChunkTokens /\ ChunkFrames = 2 * ChunkTokens
      /\ PromptFrames = 4 * ChunkTokens /\ total \in Nat
  BY FlowNumbers DEF FlowTypes
<1>4. /\ Current \in 1..ChunkTokens /\ nextStart + Current <= total /\ (Final <=> nextStart + Current = total)
      /\ Current # ChunkTokens => Final
  BY <1>1, <1>3, CurrentIs
<1>5. Utterance = 2 * total - PromptFrames
  BY UtteranceIs
<1> DEFINE p == 2 * nextStart - PromptFrames
           n == 2 * Current
           q == p + n
<1>6. /\ n \in Nat \ {0} /\ n \in Nat /\ 2 * nextStart >= PromptFrames /\ 2 * (nextStart + Current) = 2 * nextStart + n
      /\ p < q /\ q <= Utterance /\ (q = Utterance <=> nextStart + Current = total)
      /\ n <= ChunkFrames /\ (Current = ChunkTokens => q - p = ChunkFrames) /\ q - p = n
      /\ p \in Int /\ q \in Int
  BY <1>1, <1>3, <1>4, <1>5
<1>7. Done' = Done + n
  <2>1. parts' = <<>>
    BY <1>1, <1>2
  <2>2. QED BY <1>1, <1>2, <1>6, <2>1 DEF Done
<1>8. options.steady => p = 0
  <2>1. ASSUME options.steady PROVE p = 0
    <3>1. Len(mel) = 0
      <4>1. Len(<<>>) = 0
        OBVIOUS
      <4>2. QED BY <1>1, <2>1, <4>1
    <3>2. Len(mel) = IF Done <= PromptFrames THEN 0 ELSE Done - PromptFrames
      BY <1>2 DEF MelRight
    <3>3. QED BY <1>1, <1>3, <1>6, <3>1, <3>2
  <2>2. QED BY <2>1
<1>9. NextCut(options.steady, Utterance, p, q)
  <2>1. CASE Final
    <3>1. q = Utterance /\ q - p <= ChunkFrames /\ p < q /\ q <= Utterance /\ p \in Int /\ q \in Int
      BY <1>4, <1>6, <2>1
    <3> HIDE DEF p, n, q
    <3>2. QED BY <3>1, CutAtEnd
  <2>2. CASE ~Final
    <3>1. q - p = ChunkFrames
      BY <1>4, <1>6, <2>2
    <3>2. (p = 0) \/ ~options.steady
      BY <1>8
    <3>3. p < q /\ q <= Utterance /\ p \in Int /\ q \in Int
      BY <1>6
    <3> HIDE DEF p, n, q
    <3>4. QED BY <3>1, <3>2, <3>3, CutAfterOne
  <2>3. QED BY <2>1, <2>2
<1>10. Final = (q = Utterance)
  <2>1. Final <=> (q = Utterance)
    BY <1>4, <1>6
  <2>2. QED BY <2>1 DEF Final
<1>11. PushMelChunk(Done, n, Final) /\ NextCut(options.steady, Utterance, Done - PromptFrames, Done - PromptFrames + n)
       /\ Final = (Done - PromptFrames + n = Utterance) /\ Done >= PromptFrames /\ flowAt # "idle"
  BY <1>1, <1>2, <1>6, <1>9, <1>10
<1>12. Pushes(n, Final)
  BY <1>2, <1>6, <1>7, <1>11 DEF Pushes
<1>13. Final \in BOOLEAN
  BY DEF Final
<1> HIDE DEF n
<1>14. QED BY <1>6, <1>12, <1>13

\* Two chunks are, too.
LEMMA RunTwoPushes ==
  ASSUME FlowTypes, LoopRight, RunTwo
  PROVE  \E n \in Nat, f \in BOOLEAN : Pushes(n, f)
<1>1. /\ flowAt = "two" /\ parts' = <<>> /\ UNCHANGED <<options, utterance, total, nextStart, vocoder>>
      /\ PushMelChunk(parts[1].from, 2 * ChunkFrames, parts[2].final)
  BY DEF RunTwo, RunPart
<1>2. /\ steadyReady /\ nextStart <= total /\ options.steady /\ Done > PromptFrames
      /\ Len(parts) = 2 /\ parts[1].from = 2 * nextStart - 2 * ChunkFrames
      /\ parts[2].final = (nextStart = total)
  BY <1>1 DEF LoopRight, PartsWait
<1>3. ChunkFrames \in Nat \ {0} /\ PromptFrames \in Nat /\ total \in Nat /\ nextStart \in Nat
  BY FlowNumbers DEF FlowTypes
<1>4. Done = parts[1].from /\ Done \in Nat
  <2>1. Len(<<>>) = 0
    OBVIOUS
  <2>5. Len(parts) = 2
    BY <1>2
  <2>2. parts # <<>>
    BY <2>1, <2>5
  <2>3. flowAt # "idle"
    BY <1>1
  <2>4. Done = parts[1].from
    BY <2>2 DEF Done
  <2>6. QED BY <2>3, <2>4, FlowStay
<1>5. Utterance = 2 * total - PromptFrames
  BY UtteranceIs
<1> DEFINE p == Done - PromptFrames
           n == 2 * ChunkFrames
           q == p + n
<1>6. /\ n \in Nat \ {0} /\ n \in Nat /\ Done >= PromptFrames /\ 2 * nextStart = Done + n /\ p > 0 /\ p < q
      /\ q <= Utterance /\ q - p = 2 * ChunkFrames /\ (q = Utterance <=> nextStart = total)
      /\ p \in Int /\ q \in Int
  BY <1>2, <1>3, <1>4, <1>5
<1>7. Done' = Done + n
  BY <1>1, <1>6 DEF Done
<1>8. NextCut(options.steady, Utterance, p, q)
  <2>1. p < q /\ q <= Utterance /\ p > 0 /\ q - p = 2 * ChunkFrames /\ p \in Int /\ q \in Int
    BY <1>6
  <2>3. options.steady
    BY <1>2
  <2> HIDE DEF p, n, q
  <2>4. QED BY <2>1, <2>3, CutAfterTwo
<1>9. parts[2].final = (q = Utterance)
  <2>1. (nextStart = total) = (q = Utterance)
    BY <1>6
  <2>2. QED BY <1>2, <2>1
<1>10. Pushes(n, parts[2].final)
  <2>1. PushMelChunk(Done, n, parts[2].final) /\ flowAt # "idle"
    BY <1>1, <1>4
  <2>2. QED BY <1>1, <1>6, <1>7, <1>8, <1>9, <2>1 DEF Pushes
<1>11. parts[2].final \in BOOLEAN
  BY <1>2
<1> HIDE DEF n
<1>12. QED BY <1>6, <1>10, <1>11

\* And the parts of a tail.
LEMMA RunTailPushes ==
  ASSUME FlowTypes, LoopRight, RunTail
  PROVE  \E n \in Nat, f \in BOOLEAN : Pushes(n, f)
<1>1. /\ flowAt = "parts" /\ UNCHANGED <<options, utterance, total, vocoder>>
      /\ PushMelChunk(parts[1].from, parts[1].frames, parts[1].final)
  BY DEF RunTail, RunPart
<1>2. steadyReady /\ Done > PromptFrames
  BY <1>1 DEF LoopRight
<1>3. ChunkFrames \in Nat \ {0} /\ PromptFrames \in Nat /\ total \in Nat
  BY FlowNumbers DEF FlowTypes
<1>4. Done = parts[1].from /\ Done \in Nat /\ Len(parts) \in 1..2 /\ parts[1].frames \in 1..ChunkFrames
  BY RunTailParts
<1>5. Utterance = 2 * total - PromptFrames
  BY UtteranceIs
<1> DEFINE p == Done - PromptFrames
           n == parts[1].frames
           f == parts[1].final
           q == p + n
<1>6. /\ n \in Nat \ {0} /\ n \in Nat /\ Done >= PromptFrames /\ p < q /\ q - p = n /\ n <= ChunkFrames
      /\ p \in Int /\ q \in Int
  BY <1>2, <1>3, <1>4
<1>7. /\ Done' = Done + n /\ q <= Utterance /\ f = (q = Utterance)
      /\ (q = Utterance) \/ (n = ChunkFrames /\ Utterance < p + 2 * ChunkFrames)
  <2>1. CASE Len(parts) = 1
    <3>1. f = TRUE /\ Done + n = 2 * total /\ Done' = 2 * total
      BY <2>1, RunTailParts
    <3>2. q = Utterance /\ q <= Utterance /\ Done' = Done + n
      BY <1>3, <1>4, <1>5, <1>6, <3>1
    <3>3. QED BY <3>1, <3>2
  <2>2. CASE Len(parts) = 2
    <3>1. /\ f = FALSE /\ n = ChunkFrames /\ Done' = Done + ChunkFrames /\ parts[2].frames \in 1..ChunkFrames
          /\ parts[2].frames < ChunkFrames /\ Done + ChunkFrames + parts[2].frames = 2 * total
      BY <2>2, RunTailParts
    <3>2. q < Utterance /\ q <= Utterance /\ q # Utterance /\ Utterance < p + 2 * ChunkFrames
      BY <1>3, <1>4, <1>5, <3>1
    <3>3. QED BY <3>1, <3>2
  <2>3. QED BY <1>4, <2>1, <2>2
<1>8. NextCut(options.steady, Utterance, p, q)
  <2>1. CASE q = Utterance
    <3>1. p < q /\ q <= Utterance /\ q - p <= ChunkFrames /\ p \in Int /\ q \in Int
      BY <1>6, <1>7
    <3> HIDE DEF p, n, q
    <3>2. QED BY <2>1, <3>1, CutAtEnd
  <2>2. CASE ~(q = Utterance)
    <3>1. p < q /\ q <= Utterance /\ q - p = ChunkFrames /\ p \in Int /\ q \in Int
      BY <1>6, <1>7, <2>2
    <3>2. Utterance < p + 2 * ChunkFrames
      BY <1>7, <2>2
    <3> HIDE DEF p, n, q
    <3>3. QED BY <3>1, <3>2, CutAfterOne
  <2>3. QED BY <2>1, <2>2
<1>9. Pushes(n, f)
  <2>1. PushMelChunk(Done, n, f) /\ flowAt # "idle"
    BY <1>1, <1>4
  <2>2. QED BY <1>1, <1>6, <1>7, <1>8, <2>1 DEF Pushes
<1>10. f \in BOOLEAN
  BY <1>7
<1> HIDE DEF n, f
<1>11. QED BY <1>6, <1>9, <1>10

\* What a push makes of the frames and of the queue.
LEMMA PushedMel ==
  ASSUME FlowTypes, MelRight, NEW n \in Nat, NEW f, Pushes(n, f), Done \in Nat
  PROVE  /\ Len(mel) = Done - PromptFrames /\ Len(mel) \in Nat
         /\ mel' = Rows(utterance', PromptFrames, Len(mel) + n) /\ Len(mel') = Len(mel) + n
         /\ MelRight'
<1>1. PromptFrames \in Nat /\ Done >= PromptFrames /\ n \in Nat \ {0} /\ Done' = Done + n
  BY FlowNumbers DEF Pushes
<1>2. flowAt # "idle" /\ utterance' = utterance /\ mel' = mel \o Rows(utterance, Done, n)
  BY DEF Pushes, PushMelChunk
<1>3. mel = Rows(utterance, PromptFrames, Len(mel)) /\ Len(mel) = IF Done <= PromptFrames THEN 0 ELSE Done - PromptFrames
  BY <1>2 DEF MelRight
<1> DEFINE k == Len(mel)
           u == utterance
           p == PromptFrames
<1>4. k = Done - p /\ k \in Nat /\ Done = p + k /\ p \in Int /\ k + n \in Nat
  BY <1>1, <1>3
<1>5. mel = Rows(u, p, k)
  BY <1>3
<1>6. mel' = Rows(u, p, k) \o Rows(u, p + k, n)
  BY <1>2, <1>4, <1>5
<1> HIDE DEF k, u, p
<1>7. mel' = Rows(u, p, k + n)
  BY <1>4, <1>6, RowsJoin
<1>8. Len(mel') = k + n
  BY <1>4, <1>7, RowsAre
<1> DEFINE done == Done'
<1>9. k + n = IF done <= p THEN 0 ELSE done - p
  BY <1>1, <1>4 DEF p
<1>10. MelRight'
  BY <1>2, <1>7, <1>8, <1>9 DEF MelRight, u, p
<1>11. QED BY <1>2, <1>4, <1>7, <1>8, <1>10 DEF k, u, p

\* A queue that is right stays right when a chunk is pushed.
LEMMA QueueAppend ==
  ASSUME NEW queue, NEW was, NEW size \in Nat, NEW steady, NEW length,
         QueueOf(queue, was, size, steady, length),
         NEW after \in Nat, size <= after, NextCut(steady, length, size, after),
         NEW f \in BOOLEAN, f = (after = length)
  PROVE  QueueOf(Append(queue, [to |-> after, final |-> f]), was, after, steady, length)
<1> DEFINE count == Len(queue)
           entry == [to |-> after, final |-> f]
           next1 == Append(queue, entry)
<1>1. queue \in Seq(QueueEntry) /\ was \in Nat /\ Before(queue, was, count + 1) = size
  BY DEF QueueOf
<1>2. \A k \in 1..count : /\ NextCut(steady, length, Before(queue, was, k), queue[k].to)
                          /\ queue[k].to <= size /\ queue[k].final = (queue[k].to = length)
  BY DEF QueueOf
<1>3. entry \in QueueEntry /\ entry.to = after /\ entry.final = f
  BY DEF QueueEntry
<1> HIDE DEF entry
<1>4. /\ next1 \in Seq(QueueEntry) /\ Len(next1) = count + 1 /\ count \in Nat
      /\ \A k \in 1..count : next1[k] = queue[k]
      /\ next1[count + 1] = entry
  BY <1>1, <1>3, AppendProperties
<1> HIDE DEF next1, count
<1>5. ASSUME NEW k \in 1..(count + 1) PROVE Before(next1, was, k) = Before(queue, was, k)
  <2>1. CASE k = 1
    BY <2>1 DEF Before
  <2>2. CASE k # 1
    <3>1. k - 1 \in 1..count
      BY <1>4, <2>2
    <3>2. next1[k - 1] = queue[k - 1]
      BY <1>4, <3>1
    <3>3. QED BY <2>2, <3>2 DEF Before
  <2>3. QED BY <2>1, <2>2
<1>6. Before(next1, was, count + 1 + 1) = after
  <2> DEFINE k == count + 1 + 1
  <2>1. k # 1 /\ k - 1 = count + 1
    BY <1>4
  <2> HIDE DEF k
  <2>2. Before(next1, was, k) = next1[count + 1].to
    BY <2>1 DEF Before
  <2>3. next1[count + 1].to = after
    BY <1>3, <1>4
  <2>4. QED BY <2>2, <2>3 DEF k
<1>7. ASSUME NEW k \in 1..(count + 1)
      PROVE  /\ NextCut(steady, length, Before(next1, was, k), next1[k].to) /\ next1[k].to <= after
             /\ next1[k].final = (next1[k].to = length)
  <2>1. CASE k = count + 1
    <3>1. next1[k].to = after /\ next1[k].final = f
      BY <1>3, <1>4, <2>1
    <3>2. Before(next1, was, k) = size
      BY <1>1, <1>5, <2>1 DEF count
    <3>3. after <= after
      OBVIOUS
    <3>4. QED BY <3>1, <3>2, <3>3
  <2>2. CASE k # count + 1
    <3>1. k \in 1..count
      BY <1>4, <2>2
    <3>2. next1[k] = queue[k] /\ Before(next1, was, k) = Before(queue, was, k)
      BY <1>4, <1>5, <3>1
    <3>3. /\ NextCut(steady, length, Before(queue, was, k), queue[k].to) /\ queue[k].to <= size
          /\ queue[k].final = (queue[k].to = length)
      BY <1>2, <3>1
    <3>4. queue[k].to \in Nat
      <4>1. k \in 1..Len(queue)
        BY <3>1 DEF count
      <4>2. queue[k] \in QueueEntry
        BY <1>1, <4>1, ElementOfSeq
      <4>3. QED BY <4>2 DEF QueueEntry
    <3>5. queue[k].to <= after
      BY <3>3, <3>4
    <3>6. QED BY <3>2, <3>3, <3>5
  <2>3. QED BY <2>1, <2>2
<1>8. QueueOf(next1, was, after, steady, length)
  BY <1>1, <1>4, <1>6, <1>7 DEF QueueOf
<1>9. QED BY <1>8 DEF next1, entry

\* So mel_queue does.
LEMMA PushedQueue ==
  ASSUME FlowTypes, MelRight, QueueRight, NEW n \in Nat, NEW f \in BOOLEAN, Pushes(n, f), Done \in Nat
  PROVE  QueueRight'
<1> DEFINE size == Len(mel)
           after == Len(mel')
           length == Utterance
           was == vocoder.heard
           steady == options.steady
<1>1. size = Done - PromptFrames /\ size \in Nat /\ after = size + n
  BY PushedMel
<1>2. /\ flowAt # "idle" /\ melQueue' = Append(melQueue, [to |-> after, final |-> f])
      /\ UNCHANGED <<options, utterance, total, vocoder>>
  BY DEF Pushes, PushMelChunk
<1>3. QueueOf(melQueue, was, size, steady, length)
  BY <1>2 DEF QueueRight
<1>4. NextCut(steady, length, size, size + n) /\ f = (size + n = length)
  BY <1>1 DEF Pushes
<1>5. Utterance' = Utterance
  BY <1>2 DEF Utterance
<1> HIDE DEF size, after, length, was, steady
<1>6. after \in Nat /\ size <= after /\ NextCut(steady, length, size, after) /\ f = (after = length)
  BY <1>1, <1>4
<1>7. QueueOf(melQueue', was, after, steady, length)
  BY <1>1, <1>2, <1>3, <1>6, QueueAppend
<1>8. vocoder'.heard = was /\ options'.steady = steady /\ Utterance' = length /\ Len(mel') = after
  BY <1>2, <1>5 DEF was, steady, length, after
<1>9. QueueRight' <=> (flowAt' # "idle" => QueueOf(melQueue', vocoder'.heard, Len(mel'), options'.steady, Utterance'))
  BY DEF QueueRight
<1>10. QED BY <1>7, <1>8, <1>9

\* No rows.
LEMMA NoRows == ASSUME NEW u, NEW f \in Int PROVE Rows(u, f, 0) = <<>>
<1>1. 0 \in Nat
  OBVIOUS
<1>2. Rows(u, f, 0) \in Seq({u} \X Int) /\ Len(Rows(u, f, 0)) = 0
  BY <1>1, RowsAre
<1>3. QED BY <1>2, EmptySeq

\* Before the end of the prompt there are no Mel frames to say.
LEMMA EarlyMel ==
  ASSUME mel' = <<>>, NEW p, Done' = p, p \in Nat, p <= PromptFrames PROVE MelRight'
<1>1. Len(<<>>) = 0
  OBVIOUS
<1>2. PromptFrames \in Int
  BY FlowNumbers
<1>3. Rows(utterance', PromptFrames, 0) = <<>>
  BY <1>2, NoRows
<1>4. mel' = Rows(utterance', PromptFrames, Len(mel'))
  BY <1>1, <1>3
<1>5. Len(mel') = IF Done' <= PromptFrames THEN 0 ELSE Done' - PromptFrames
  BY <1>1
<1>6. QED BY <1>4, <1>5 DEF MelRight

\* Every run of the flow model after the prompt pushes the frames after the last ones.
LEMMA FlowPushes ==
  ASSUME FlowTypes, LoopRight, MelRight, (FlowChunk /\ ~(nextStart < PromptTokens)) \/ RunTwo \/ RunTail
  PROVE  Done \in Nat /\ \E n \in Nat, f \in BOOLEAN : Pushes(n, f)
<1>1. flowAt # "idle"
  BY DEF FlowChunk, RunTwo, RunTail
<1>2. Done \in Nat
  BY <1>1, FlowStay
<1>3. \E n \in Nat, f \in BOOLEAN : Pushes(n, f)
  <2>1. CASE FlowChunk /\ ~(nextStart < PromptTokens)
    BY <2>1, FlowChunkPushes
  <2>2. CASE RunTwo
    BY <2>2, RunTwoPushes
  <2>3. CASE RunTail
    BY <2>3, RunTailPushes
  <2>4. QED BY <2>1, <2>2, <2>3
<1>4. QED BY <1>2, <1>3

\* The Mel frames are those of the utterance, in order, under every step.
LEMMA MelRightStep == FlowTypes /\ LoopRight /\ MelRight /\ FlowNext => MelRight'
<1> SUFFICES ASSUME FlowTypes, LoopRight, MelRight, FlowNext PROVE MelRight'
  OBVIOUS
<1>1. /\ ChunkTokens \in Nat \ {0} /\ PromptTokens = 2 * ChunkTokens /\ PromptFrames = 4 * ChunkTokens
      /\ VoiceTokens \in {ChunkTokens, PromptTokens} /\ nextStart \in Nat /\ total \in Nat
  BY FlowNumbers, VoiceIs DEF FlowTypes
<1>2. ASSUME NEW n \in TokenCounts, BeginUtterance(n) PROVE MelRight'
  <2>1. mel' = <<>> /\ parts' = <<>> /\ nextStart' \in {0, VoiceTokens}
    BY <1>2 DEF BeginUtterance
  <2>2. Done' = 2 * nextStart'
    BY <2>1 DEF Done
  <2>3. \A k \in {0, VoiceTokens} : 2 * k \in Nat /\ 2 * k <= PromptFrames
    BY <1>1
  <2>4. QED BY <2>1, <2>2, <2>3, EarlyMel
<1>3. ASSUME VoiceChunk PROVE MelRight'
  <2>1. flowAt = "voice" /\ nextStart < VoiceTokens /\ nextStart' = nextStart + ChunkTokens /\ UNCHANGED <<mel, parts>>
    BY <1>3 DEF VoiceChunk, RunsBoth, melOf
  <2>2. /\ mel = <<>> /\ parts = <<>>
        /\ nextStart < PromptTokens => nextStart \in {0, ChunkTokens}
    BY <2>1 DEF LoopRight, PartsWait
  <2>3. 2 * (nextStart + ChunkTokens) \in Nat /\ 2 * (nextStart + ChunkTokens) <= PromptFrames
    BY <1>1, <2>1, <2>2
  <2>4. Done' = 2 * (nextStart + ChunkTokens)
    BY <2>1, <2>2 DEF Done
  <2>5. QED BY <2>1, <2>2, <2>3, <2>4, EarlyMel
<1>4. ASSUME FlowChunk, nextStart < PromptTokens PROVE MelRight'
  <2>1. nextStart = ChunkTokens /\ Current = ChunkTokens /\ parts = <<>> /\ Done = 2 * nextStart
    BY <1>4, FlowChunkAt
  <2>2. UNCHANGED <<mel, parts>> /\ nextStart' = nextStart + Current /\ flowAt # "idle"
    BY <1>4 DEF FlowChunk, RunsBoth
  <2>3. Done <= PromptFrames /\ 2 * (ChunkTokens + ChunkTokens) \in Nat /\ 2 * (ChunkTokens + ChunkTokens) <= PromptFrames
    BY <1>1, <2>1
  <2>4. Done' = 2 * (ChunkTokens + ChunkTokens)
    BY <2>1, <2>2 DEF Done
  <2>5. Len(mel) = 0 /\ mel = Rows(utterance, PromptFrames, Len(mel))
    BY <2>2, <2>3 DEF MelRight
  <2>6. PromptFrames \in Int
    BY <1>1
  <2>7. mel = <<>>
    BY <2>5, <2>6, NoRows
  <2>8. QED BY <2>2, <2>3, <2>4, <2>7, EarlyMel
<1>5. ASSUME (FlowChunk /\ ~(nextStart < PromptTokens)) \/ RunTwo \/ RunTail PROVE MelRight'
  BY <1>5, FlowPushes, PushedMel
<1>6. ASSUME PartReady PROVE MelRight'
  <2>1. flowAt # "idle" /\ UNCHANGED <<utterance, mel>>
    BY <1>6 DEF PartReady, melOf
  <2>2. Done' = Done
    BY <1>6, PartReadyParts
  <2>3. QED BY <2>1, <2>2 DEF MelRight
<1>7. ASSUME VoiceKept \/ HandOver \/ TailBack \/ Speak \/ UtteranceEnds \/ Throws PROVE MelRight'
  <2>1. UNCHANGED <<utterance, mel, parts, nextStart>> /\ (flowAt' # "idle" => flowAt # "idle")
    BY <1>7 DEF VoiceKept, HandOver, TailBack, Speak, UtteranceEnds, Throws, loopOf, melOf
  <2>2. Done' = Done
    BY <2>1 DEF Done
  <2>3. QED BY <2>1, <2>2 DEF MelRight
<1>8. QED BY <1>2, <1>3, <1>4, <1>5, <1>6, <1>7 DEF FlowNext

\* What is taken is the beginning of the queue.
LEMMA QueueTaken ==
  ASSUME NEW queue, NEW was, NEW size \in Nat, NEW steady, NEW length,
         QueueOf(queue, was, size, steady, length), NEW k \in 1..Len(queue)
  PROVE  QueueOf(SubSeq(queue, k + 1, Len(queue)), queue[k].to, size, steady, length)
<1> DEFINE count == Len(queue)
           rest == SubSeq(queue, k + 1, count)
           now == queue[k].to
<1>1. queue \in Seq(QueueEntry) /\ Before(queue, was, count + 1) = size /\ count \in Nat /\ k \in 1..count
  BY DEF QueueOf
<1>2. \A j \in 1..count : /\ NextCut(steady, length, Before(queue, was, j), queue[j].to)
                          /\ queue[j].to <= size /\ queue[j].final = (queue[j].to = length)
  BY DEF QueueOf
<1>3. now \in Nat
  <2>1. queue[k] \in QueueEntry
    BY <1>1, ElementOfSeq
  <2>2. QED BY <2>1 DEF QueueEntry
<1>4. k + 1 \in 1..(count + 1) /\ count \in k..count /\ count - (k + 1) + 1 = count - k /\ count - k \in Nat
  BY <1>1
<1>5. /\ rest \in Seq(QueueEntry) /\ Len(rest) = count - k
      /\ \A j \in 1..(count - k) : rest[j] = queue[k + j]
  <2>1. k + 1 \in Int /\ count \in Int /\ (k + 1 <= count => k + 1 \in 1..count) /\ (k + 1 <= count \/ count = k)
    BY <1>1
  <2>2. Len(rest) = count - k
    BY <1>1, <2>1, SubSeqProperties
  <2>3. \A j \in 1..(count - k) : k + j \in 1..count /\ k + 1 + j - 1 = k + j /\ j \in 1..(1 + count - (k + 1))
    BY <1>1
  <2>4. \A j \in 1..(count - k) : rest[j] = queue[k + j]
    BY <1>1, <2>3
  <2>5. \A j \in 1..count : queue[j] \in QueueEntry
    BY <1>1, ElementOfSeq
  <2>6. rest \in Seq(QueueEntry)
    BY <1>1, <2>5, SubSeqProperties
  <2>7. QED BY <2>2, <2>4, <2>6
<1> HIDE DEF rest, now, count
<1>6. ASSUME NEW j \in 1..(count - k + 1) PROVE Before(rest, now, j) = Before(queue, was, k + j)
  <2>1. k + j # 1 /\ k + j - 1 = k + (j - 1)
    BY <1>1
  <2>2. Before(queue, was, k + j) = queue[k + (j - 1)].to
    BY <2>1 DEF Before
  <2>3. CASE j = 1
    <3>1. k + (j - 1) = k
      BY <1>1, <2>3
    <3>2. QED BY <2>2, <2>3, <3>1 DEF Before, now
  <2>4. CASE j # 1
    <3>1. j - 1 \in 1..(count - k)
      BY <1>1, <2>4
    <3>2. rest[j - 1] = queue[k + (j - 1)]
      BY <1>5, <3>1
    <3>3. QED BY <2>2, <2>4, <3>2 DEF Before
  <2>5. QED BY <2>3, <2>4
<1>7. ASSUME NEW j \in 1..(count - k)
      PROVE  /\ NextCut(steady, length, Before(rest, now, j), rest[j].to)
             /\ rest[j].to <= size /\ rest[j].final = (rest[j].to = length)
  <2>1. k + j \in 1..count /\ j \in 1..(count - k + 1)
    BY <1>1
  <2>2. QED BY <1>2, <1>5, <1>6, <2>1
<1>8. Before(rest, now, count - k + 1) = size
  <2>1. count - k + 1 \in 1..(count - k + 1) /\ k + (count - k + 1) = count + 1
    BY <1>1
  <2>2. Before(rest, now, count - k + 1) = Before(queue, was, k + (count - k + 1))
    BY <1>6, <2>1
  <2>3. QED BY <1>1, <2>1, <2>2
<1>9. QueueOf(rest, now, size, steady, length)
  BY <1>3, <1>5, <1>7, <1>8 DEF QueueOf
<1>10. QED BY <1>9 DEF rest, now, count

\* The queue holds the cuts from what is heard to what is made, under every step.
LEMMA QueueRightStep == FlowTypes /\ LoopRight /\ MelRight /\ QueueRight /\ FlowNext => QueueRight'
<1> SUFFICES ASSUME FlowTypes, LoopRight, MelRight, QueueRight, FlowNext PROVE QueueRight'
  OBVIOUS
<1>1. options' = options
  BY OptionsStay
<1>2. QueueRight' <=> (flowAt' # "idle" => QueueOf(melQueue', vocoder'.heard, Len(mel'), options'.steady, Utterance'))
  BY DEF QueueRight
<1>3. ASSUME NEW n \in TokenCounts, BeginUtterance(n) PROVE QueueRight'
  <2>1. mel' = <<>> /\ melQueue' = <<>> /\ vocoder'.heard = 0
    BY <1>3 DEF BeginUtterance, VocoderReset
  <2>2. Len(<<>>) = 0 /\ <<>> \in Seq(QueueEntry)
    OBVIOUS
  <2> DEFINE steady == options'.steady
             length == Utterance'
  <2> HIDE DEF steady, length
  <2>3. Before(<<>>, 0, 1) = 0
    BY DEF Before
  <2>4. \A i \in 1..0 : FALSE
    OBVIOUS
  <2>5. 0 \in Nat /\ 0 + 1 = 1
    OBVIOUS
  <2>6. QueueOf(<<>>, 0, 0, steady, length)
    BY <2>2, <2>3, <2>4, <2>5 DEF QueueOf
  <2>7. QED BY <1>2, <2>1, <2>2, <2>6 DEF steady, length
<1>4. ASSUME (FlowChunk /\ ~(nextStart < PromptTokens)) \/ RunTwo \/ RunTail PROVE QueueRight'
  BY <1>4, FlowPushes, PushedQueue
<1>5. ASSUME VoiceChunk \/ (FlowChunk /\ nextStart < PromptTokens) \/ PartReady \/ VoiceKept \/ HandOver \/ TailBack
             \/ UtteranceEnds \/ Throws
      PROVE  QueueRight'
  <2>1. UNCHANGED <<mel, melQueue, vocoder, total>> /\ (flowAt' # "idle" => flowAt # "idle")
    BY <1>5 DEF VoiceChunk, FlowChunk, PartReady, VoiceKept, HandOver, TailBack, UtteranceEnds, Throws, melOf
  <2>2. Utterance' = Utterance
    BY <2>1 DEF Utterance
  <2>3. QED BY <1>1, <1>2, <2>1, <2>2 DEF QueueRight
<1>6. ASSUME Speak PROVE QueueRight'
  <2>1. flowAt # "idle" /\ UNCHANGED <<mel, total>>
    BY <1>6 DEF Speak
  <2>2. PICK k \in 1..Len(melQueue) : vocoder'.heard = melQueue[k].to /\ melQueue' = SubSeq(melQueue, k + 1, Len(melQueue))
    BY <1>6 DEF Speak
  <2>3. Len(mel) \in Nat
    BY <2>1, MelGrows
  <2>4. QueueOf(melQueue, vocoder.heard, Len(mel), options.steady, Utterance)
    BY <2>1 DEF QueueRight
  <2> DEFINE length == Utterance
             steady == options.steady
             size == Len(mel)
             was == vocoder.heard
  <2>5. QueueOf(melQueue, was, size, steady, length) /\ size \in Nat
    BY <2>3, <2>4
  <2> HIDE DEF length, steady, size, was
  <2>6. QueueOf(SubSeq(melQueue, k + 1, Len(melQueue)), melQueue[k].to, size, steady, length)
    BY <2>5, QueueTaken
  <2>7. Utterance' = length /\ options'.steady = steady /\ Len(mel') = size
    BY <1>1, <2>1 DEF Utterance, length, steady, size
  <2>8. QED BY <1>2, <2>2, <2>6, <2>7
<1>7. QED BY <1>3, <1>4, <1>5, <1>6 DEF FlowNext

-----------------------------------------------------------------------------
(* The vocoder. *)

\* What Speak takes is one or two chunks, or the end.
LEMMA TakenFrames ==
  ASSUME FlowTypes, QueueRight, flowAt # "idle", NEW k \in 1..Len(melQueue), Takes(k),
         vocoder.calls = 0 <=> vocoder.heard = 0
  PROVE  LET was == vocoder.heard
             to == melQueue[k].to
         IN /\ was \in Nat /\ to \in Nat /\ was < to /\ to <= Utterance /\ to <= Len(mel) /\ was < Utterance
            /\ melQueue[k].final = (to = Utterance)
            /\ to # Utterance =>
                 \/ to - was = ChunkFrames
                 \/ to - was = 2 * ChunkFrames /\ was > 0 /\ (options.steady \/ options.batch)
<1> DEFINE was == vocoder.heard
           length == Utterance
           steady == options.steady
           size == Len(mel)
           to(j) == melQueue[j].to
           cut(p, q) == NextCut(steady, length, p, q)
<1>1. /\ melQueue \in Seq(QueueEntry) /\ was \in Nat
      /\ \A j \in 1..Len(melQueue) :
           /\ cut(Before(melQueue, was, j), to(j)) /\ to(j) <= size /\ melQueue[j].final = (to(j) = length)
  BY DEF QueueRight, QueueOf
<1>2. \A j \in 1..Len(melQueue) : to(j) \in Nat
  <2>1. \A j \in 1..Len(melQueue) : melQueue[j] \in QueueEntry
    <3>1. melQueue \in Seq(QueueEntry)
      BY <1>1
    <3>2. QED BY <3>1, ElementOfSeq
  <2>2. \A e \in QueueEntry : e.to \in Nat
    BY DEF QueueEntry
  <2>3. QED BY <2>1, <2>2
<1>3. Len(melQueue) \in Nat /\ 1 \in 1..Len(melQueue)
  <2>1. Len(melQueue) \in Nat
    BY <1>1, LenProperties
  <2>2. QED BY <2>1
<1>4. Before(melQueue, was, 1) = was /\ \A j \in Int : j # 1 => Before(melQueue, was, j) = to(j - 1)
  BY DEF Before
<1>5. ChunkFrames \in Nat \ {0} /\ length \in Int
  BY FlowNumbers, UtteranceIs
<1>6. cut(was, to(1))
  BY <1>1, <1>3, <1>4
<1>7. steady \in BOOLEAN /\ options.batch \in BOOLEAN
  BY DEF FlowTypes
<1> HIDE DEF length, size, to, steady, was
<1>8. \A p, q : cut(p, q) => p < q /\ q <= length
  BY DEF NextCut
<1>9. was < to(1) /\ to(1) <= length
  BY <1>6, <1>8
<1>10. /\ to(1) # length => \/ to(1) - was = ChunkFrames /\ (was = 0 \/ ~steady \/ length < was + 2 * ChunkFrames)
                            \/ to(1) - was = 2 * ChunkFrames /\ steady /\ was > 0
  <2> DEFINE q == to(1)
  <2>1. NextCut(steady, length, was, q)
    BY <1>6
  <2> HIDE DEF q
  <2>2. /\ q # length => \/ q - was = ChunkFrames /\ (was = 0 \/ ~steady \/ length < was + 2 * ChunkFrames)
                         \/ q - was = 2 * ChunkFrames /\ steady /\ was > 0
    BY <2>1, Zenon DEF NextCut
  <2>3. QED BY <2>2 DEF q
<1>11. ASSUME k = 1
       PROVE  /\ was < to(k) /\ to(k) <= length
              /\ to(k) # length => \/ to(k) - was = ChunkFrames
                                   \/ to(k) - was = 2 * ChunkFrames /\ was > 0 /\ (steady \/ options.batch)
  BY <1>9, <1>10, <1>11
<1>12. ASSUME k # 1
       PROVE  /\ was < to(k) /\ to(k) <= length
              /\ to(k) # length => \/ to(k) - was = ChunkFrames
                                   \/ to(k) - was = 2 * ChunkFrames /\ was > 0 /\ (steady \/ options.batch)
  <2>1. /\ options.batch /\ vocoder.calls > 0
        /\ \A j \in 1..(k - 1) : ~(to(j) - was >= 2 * ChunkFrames \/ melQueue[j].final)
    BY <1>12 DEF Takes, to, was
  <2>2. 1 \in 1..(k - 1) /\ k \in Nat /\ k <= Len(melQueue)
    BY <1>3, <1>12
  <2>3. ~(to(1) - was >= 2 * ChunkFrames) /\ ~melQueue[1].final
    BY <2>1, <2>2
  <2>4. to(1) # length
    BY <1>1, <1>3, <2>3
  <2>5. to(1) \in Nat /\ was \in Nat
    BY <1>1, <1>2, <1>3
  <2>6. was # 0
    <3>1. vocoder.calls # 0
      BY <2>1
    <3>2. QED BY <3>1 DEF was
  <2>7. to(1) - was = ChunkFrames
    <3>1. to(1) - was # 2 * ChunkFrames
      BY <1>5, <2>3, <2>5
    <3>2. QED BY <1>10, <2>4, <3>1
  <2>8. steady => length < was + 2 * ChunkFrames
    <3>1. to(1) - was # 2 * ChunkFrames
      BY <1>5, <2>3, <2>5
    <3>2. QED BY <1>10, <2>4, <2>6, <3>1
  <2>9. 2 \in 1..Len(melQueue) /\ 2 # 1 /\ 2 - 1 = 1 /\ 2 \in Int
    BY <1>3, <2>2
  <2>10. cut(to(1), to(2))
    <3>1. Before(melQueue, was, 2) = to(1)
      BY <1>4, <2>9
    <3>2. QED BY <1>1, <2>9, <3>1
  <2>11. to(2) \in Nat /\ to(1) < to(2) /\ to(2) <= length
    BY <1>2, <1>8, <2>9, <2>10
  <2>12. to(2) # length => to(2) - was = 2 * ChunkFrames
    <3>1. ASSUME to(2) # length PROVE to(2) - was = 2 * ChunkFrames
      <4>1. to(2) - to(1) = ChunkFrames \/ (steady /\ to(2) - to(1) = 2 * ChunkFrames)
        BY <2>10, <3>1 DEF NextCut
      <4>2. ~steady
        <5>1. ASSUME steady PROVE FALSE
          <6>1. to(2) - to(1) >= ChunkFrames
            BY <1>5, <2>5, <2>11, <4>1
          <6>2. length < was + 2 * ChunkFrames
            BY <2>8, <5>1
          <6>3. QED BY <1>5, <2>5, <2>7, <2>11, <6>1, <6>2
        <5>2. QED BY <5>1
      <4>3. to(2) - to(1) = ChunkFrames
        BY <4>1, <4>2
      <4>4. QED BY <1>5, <2>5, <2>7, <2>11, <4>3
    <3>2. QED BY <3>1
  <2>13. k = 2
    <3>1. ASSUME k # 2 PROVE FALSE
      <4>1. 2 \in 1..(k - 1)
        BY <2>2, <3>1, <1>12
      <4>2. ~(to(2) - was >= 2 * ChunkFrames) /\ ~melQueue[2].final
        BY <2>1, <4>1
      <4>3. to(2) # length
        BY <1>1, <2>9, <4>2
      <4>4. QED BY <1>5, <2>5, <2>11, <2>12, <4>2, <4>3
    <3>2. QED BY <3>1
  <2>14. was < to(2) /\ was > 0
    BY <1>9, <2>5, <2>6, <2>11
  <2>15. QED BY <2>1, <2>11, <2>12, <2>13, <2>14
<1>13. /\ was < to(k) /\ to(k) <= length
       /\ to(k) # length => \/ to(k) - was = ChunkFrames
                            \/ to(k) - was = 2 * ChunkFrames /\ was > 0 /\ (steady \/ options.batch)
  BY <1>11, <1>12
<1>14. was \in Nat /\ to(k) \in Nat /\ to(k) <= size /\ melQueue[k].final = (to(k) = length)
  BY <1>1, <1>2
<1>15. was < length
  BY <1>5, <1>13, <1>14
<1>16. QED BY <1>13, <1>14, <1>15 DEF length, size, to, steady, was

\* A bucket that fits needs no padding.
LEMMA ExactBucket ==
  ASSUME NEW b \in AllBuckets PROVE ModelFrames(b) = b /\ b \in Nat
<1>1. AllBuckets \subseteq Nat
  BY FlowAssumption DEF AllBuckets
<1>2. b >= b /\ \A c \in AllBuckets : c >= b => b <= c
  BY <1>1
<1>3. \A d \in AllBuckets : (d >= b /\ \A c \in AllBuckets : c >= b => d <= c) => d = b
  <2>1. ASSUME NEW d \in AllBuckets, d >= b, \A c \in AllBuckets : c >= b => d <= c PROVE d = b
    <3>1. d <= b
      BY <1>2, <2>1
    <3>2. QED BY <1>1, <2>1, <3>1
  <2>2. QED BY <2>1
<1> DEFINE d == CHOOSE x \in AllBuckets : x >= b /\ \A c \in AllBuckets : c >= b => x <= c
<1>4. d \in AllBuckets /\ d >= b /\ \A c \in AllBuckets : c >= b => d <= c
  BY <1>2
<1>5. ModelFrames(b) = d
  BY DEF ModelFrames
<1> HIDE DEF d
<1>6. d = b
  BY <1>3, <1>4
<1>7. QED BY <1>1, <1>5, <1>6

\* Padding by nothing.
LEMMA Unpadded ==
  ASSUME NEW S, NEW s \in Seq(S), NEW n, n = 0 PROVE s \o Zeros(n) = s
<1>1. Zeros(n) = [i \in 1..0 |-> Zero] /\ [i \in 1..0 |-> Zero] \in Seq({Zero})
  BY DEF Zeros
<1>2. Len([i \in 1..0 |-> Zero]) = 0
  OBVIOUS
<1> DEFINE z == [i \in 1..0 |-> Zero]
<1>3. z \in Seq({Zero}) /\ Len(z) = 0
  BY <1>1, <1>2
<1> HIDE DEF z
<1>4. z = <<>>
  BY <1>3, EmptySeq
<1>5. QED BY <1>1, <1>4, ConcatEmptySeq DEF z

NewOf(k) == SubSeq(mel, vocoder.heard + 1, melQueue[k].to)
InputOf(k) == vocoder.context \o NewOf(k)
PaddedOf(k) == InputOf(k) \o Zeros(ModelFrames(Len(InputOf(k))) - Len(InputOf(k)))
SourceOf(k) == vocoder.source \o SubSeq(PaddedOf(k), Len(vocoder.source) + 1, ModelFrames(Len(InputOf(k))))

\* What the vocoder has, of which the last c rows are kept.
Heard(v, u, h, c) ==
  LET kept == Rows(u, PromptFrames + (h - c), c)
  IN v.context = kept /\ v.cache = kept /\ v.source = kept /\ v.wave = Rows(u, PromptFrames, h - c)

\* Rows that follow on others, that are a part of them, that are the last.
Joins(f, n, g, m, k) == f \in Int /\ n \in Nat /\ m \in Nat /\ g = f + n /\ k = n + m
PartIs(f, n, a, b, g, k) ==
  f \in Int /\ n \in Nat /\ a \in 1..(n + 1) /\ b \in (a - 1)..n /\ g = f + a - 1 /\ k = b - a + 1
LastIs(f, n, k, g) == f \in Int /\ n \in Nat /\ k \in 0..n /\ g = f + n - k

\* Rows joined, with the numbers in one fact.
LEMMA JoinRows ==
  ASSUME NEW u, NEW f, NEW n, NEW g, NEW m, NEW k, Joins(f, n, g, m, k)
  PROVE  Rows(u, f, n) \o Rows(u, g, m) = Rows(u, f, k)
BY RowsJoin DEF Joins

\* A part of them.
LEMMA PartRows ==
  ASSUME NEW u, NEW f, NEW n, NEW a, NEW b, NEW g, NEW k, PartIs(f, n, a, b, g, k)
  PROVE  SubSeq(Rows(u, f, n), a, b) = Rows(u, g, k)
BY RowsPart DEF PartIs

\* The last of them.
LEMMA LastRows ==
  ASSUME NEW u, NEW f, NEW n, NEW k, NEW g, LastIs(f, n, k, g)
  PROVE  LastOf(Rows(u, f, n), k) = Rows(u, g, k)
BY RowsLast DEF LastIs

\* The vocoder is at frame h, of which it keeps c, and is given those up to to.
Ahead(c, h, to) == c \in Nat /\ h \in Nat /\ to \in Nat /\ c <= h /\ h < to

InputIs(u, c, h, to, k) ==
  /\ NewOf(k) = Rows(u, PromptFrames + h, to - h) /\ Len(NewOf(k)) = to - h
  /\ InputOf(k) = Rows(u, PromptFrames + (h - c), c + (to - h)) /\ Len(InputOf(k)) = c + (to - h)
  /\ SubSeq(InputOf(k), 1, c) = Rows(u, PromptFrames + (h - c), c)
  /\ Len(vocoder.context) = c /\ Len(vocoder.cache) = c /\ Len(vocoder.source) = c

\* What goes into the vocoder is the kept rows and the new ones, in order.
LEMMA SpeakInput ==
  ASSUME NEW u, NEW c, NEW h, NEW to, Ahead(c, h, to), NEW size, size \in Nat, to <= size,
         mel = Rows(u, PromptFrames, size), Heard(vocoder, u, h, c), vocoder.heard = h,
         NEW k, melQueue[k].to = to
  PROVE  InputIs(u, c, h, to, k)
<1>0. c \in Nat /\ h \in Nat /\ to \in Nat /\ c <= h /\ h < to
  BY DEF Ahead
<1>1. PromptFrames \in Nat
  BY FlowNumbers
<1> DEFINE n == to - h
           f == PromptFrames + (h - c)
           p == PromptFrames
           g == p + h
           m == c + n
           a == h + 1
           one == 1
           kept == Rows(u, f, c)
<1>2. /\ n \in Nat /\ f \in Int /\ m \in Nat /\ g = f + c /\ g \in Int /\ p \in Int /\ m = c + n
      /\ a \in 1..(size + 1) /\ to \in (a - 1)..size /\ g = p + a - 1 /\ n = to - a + 1
      /\ one \in 1..(m + 1) /\ c \in (one - 1)..m /\ f = f + one - 1 /\ c = c - one + 1
  BY <1>0, <1>1
<1>3. vocoder.context = kept /\ vocoder.cache = kept /\ vocoder.source = kept
  BY DEF Heard
<1>4. NewOf(k) = SubSeq(Rows(u, p, size), a, to)
  BY DEF NewOf
<1>11. PartIs(p, size, a, to, g, n) /\ Joins(f, c, g, n, m) /\ PartIs(f, m, one, c, f, c)
  <2> HIDE DEF n, f, p, g, m, a, one, kept
  <2>1. QED BY <1>2 DEF PartIs, Joins
<1> HIDE DEF n, f, p, g, m, a, one, kept
<1>5. NewOf(k) = Rows(u, g, n)
  <2>1. SubSeq(Rows(u, p, size), a, to) = Rows(u, g, n)
    BY <1>11, PartRows
  <2>2. QED BY <1>4, <2>1
<1>6. InputOf(k) = Rows(u, f, m)
  <2>1. InputOf(k) = Rows(u, f, c) \o Rows(u, g, n)
    BY <1>3, <1>5 DEF InputOf, kept
  <2>2. QED BY <1>11, <2>1, JoinRows
<1>7. Len(NewOf(k)) = n /\ Len(InputOf(k)) = m /\ Len(kept) = c
  <2>1. ASSUME NEW x, NEW y, x \in Int, y \in Nat PROVE Len(Rows(u, x, y)) = y
    BY <2>1, RowsAre
  <2>2. Len(Rows(u, g, n)) = n
    BY <1>2, <2>1
  <2>3. Len(Rows(u, f, m)) = m
    BY <1>2, <2>1
  <2>4. Len(Rows(u, f, c)) = c
    BY <1>2, <2>1
  <2>5. QED BY <1>5, <1>6, <2>2, <2>3, <2>4 DEF kept
<1>8. SubSeq(Rows(u, f, m), one, c) = Rows(u, f, c)
  BY <1>11, PartRows
<1>9. SubSeq(InputOf(k), one, c) = Rows(u, f, c)
  BY <1>6, <1>8
<1>10. QED BY <1>3, <1>5, <1>6, <1>7, <1>9 DEF n, f, p, g, m, one, InputIs

\* The end of an utterance, and the middle of one.
EndIs(u, c, h, to) ==
  Rows(u, PromptFrames, h - c) \o Rows(u, PromptFrames + (h - c), c + (to - h)) = Rows(u, PromptFrames, to)

\* At the end all the rest is said.
LEMMA SpeakEnd == ASSUME NEW u, NEW c, NEW h, NEW to, Ahead(c, h, to) PROVE EndIs(u, c, h, to)
<1> DEFINE a == h - c
           b == c + (to - h)
           p == PromptFrames
           f == p + (h - c)
<1>1. a \in Nat /\ b \in Nat /\ to = a + b /\ p \in Int /\ f = p + a
  BY FlowNumbers DEF Ahead
<1> HIDE DEF a, b, p, f
<1>4. Joins(p, a, f, b, to)
  BY <1>1 DEF Joins
<1>2. Rows(u, p, a) \o Rows(u, f, b) = Rows(u, p, to)
  BY <1>4, JoinRows
<1>3. QED BY <1>2 DEF a, b, p, f, EndIs

MiddleIs(u, c, h, to, k) ==
  LET kept == Rows(u, PromptFrames + (to - ContextFrames), ContextFrames)
  IN /\ LastOf(NewOf(k), ContextFrames) = kept /\ LastOf(InputOf(k), ContextFrames) = kept
     /\ LastOf(SourceOf(k), ContextFrames) = kept
     /\ Rows(u, PromptFrames, h - c) \o SubSeq(InputOf(k), 1, Len(InputOf(k)) - ContextFrames) =
          Rows(u, PromptFrames, to - ContextFrames)

\* Before it all but the overlap is, and the overlap is kept in all three caches.
LEMMA SpeakMiddle ==
  ASSUME NEW u, NEW c, NEW h, NEW to, Ahead(c, h, to), NEW k, InputIs(u, c, h, to, k), Heard(vocoder, u, h, c),
         ContextFrames <= to - h, c + (to - h) \in AllBuckets
  PROVE  MiddleIs(u, c, h, to, k)
<1>0. c \in Nat /\ h \in Nat /\ to \in Nat /\ c <= h /\ h < to
  BY DEF Ahead
<1> DEFINE C == ContextFrames
           p == PromptFrames
           n == to - h
           f == p + (h - c)
           m == c + n
           g == p + h
           last == p + (to - C)
           before == h - c
           said == to - C
           rest == m - C
           one == 1
           next1 == c + 1
<1>1. C \in Nat /\ p \in Int /\ C <= n
  BY FlowNumbers
<1>2. /\ n \in Nat /\ f \in Int /\ m \in Nat /\ g \in Int /\ C \in 0..n /\ C \in 0..m
      /\ last = g + n - C /\ last = f + m - C
      /\ one \in 1..(m + 1) /\ rest \in (one - 1)..m /\ f = f + one - 1 /\ rest = rest - one + 1
      /\ before \in Nat /\ rest \in Nat /\ f = p + before /\ said = before + rest /\ rest = m - C
      /\ next1 \in 1..(m + 1) /\ m \in (next1 - 1)..m /\ g = f + next1 - 1 /\ n = m - next1 + 1 /\ m = c + n /\ g = f + c
      /\ next1 = c + 1
  BY <1>0, <1>1
<1>3. NewOf(k) = Rows(u, g, n) /\ InputOf(k) = Rows(u, f, m) /\ Len(InputOf(k)) = m /\ vocoder.source = Rows(u, f, c)
  BY DEF InputIs, Heard
<1>4. m \in AllBuckets /\ Len(vocoder.source) = c
  BY DEF InputIs
<1> HIDE DEF C, p, n, f, m, g, last, before, said, rest, one, next1
<1>13. LastIs(g, n, C, last) /\ LastIs(f, m, C, last)
  BY <1>2 DEF LastIs
<1>14. PartIs(f, m, next1, m, g, n) /\ PartIs(f, m, one, rest, f, rest)
  BY <1>2 DEF PartIs
<1>15. Joins(f, c, g, n, m) /\ Joins(p, before, f, rest, said)
  BY <1>0, <1>1, <1>2 DEF Joins
<1>5. LastOf(NewOf(k), C) = Rows(u, last, C)
  BY <1>3, <1>13, LastRows
<1>6. LastOf(Rows(u, f, m), C) = Rows(u, last, C)
  BY <1>13, LastRows
<1>7. PaddedOf(k) = Rows(u, f, m) /\ ModelFrames(Len(InputOf(k))) = m
  <2>1. ModelFrames(m) = m
    BY <1>4, ExactBucket
  <2>2. m - m = 0 /\ Rows(u, f, m) \in Seq({u} \X Int)
    <3>1. f \in Int /\ m \in Nat
      BY <1>2
    <3>2. Rows(u, f, m) \in Seq({u} \X Int)
      BY <3>1, RowsAre
    <3>3. m - m = 0
      BY <3>1
    <3>4. QED BY <3>2, <3>3
  <2>3. PaddedOf(k) = Rows(u, f, m) \o Zeros(m - m)
    BY <1>3, <2>1 DEF PaddedOf
  <2>4. QED BY <1>3, <2>1, <2>2, <2>3, Unpadded
<1>8. SourceOf(k) = Rows(u, f, m)
  <2>1. SubSeq(Rows(u, f, m), next1, m) = Rows(u, g, n)
    BY <1>14, PartRows
  <2>2. SourceOf(k) = Rows(u, f, c) \o SubSeq(Rows(u, f, m), next1, m)
    BY <1>2, <1>3, <1>4, <1>7 DEF SourceOf
  <2>3. Rows(u, f, c) \o Rows(u, g, n) = Rows(u, f, m)
    BY <1>15, JoinRows
  <2>4. QED BY <2>1, <2>2, <2>3
<1>9. SubSeq(Rows(u, f, m), one, rest) = Rows(u, f, rest)
  BY <1>14, PartRows
<1>10. Rows(u, p, before) \o Rows(u, f, rest) = Rows(u, p, said)
  BY <1>15, JoinRows
<1>11. Rows(u, p, before) \o SubSeq(InputOf(k), one, Len(InputOf(k)) - C) = Rows(u, p, said)
  BY <1>2, <1>3, <1>9, <1>10
<1>12. QED BY <1>3, <1>5, <1>6, <1>8, <1>11 DEF C, p, last, before, said, one, MiddleIs

\* The vocoder keeps nothing before its first call, and the overlap afterwards.
LEMMA HeardBefore ==
  ASSUME FlowTypes, VocoderRight, flowAt # "idle", vocoder.heard \in Nat, vocoder.heard < Utterance
  PROVE  \E c \in {0, ContextFrames} : /\ c <= vocoder.heard /\ Heard(vocoder, utterance, vocoder.heard, c)
                                       /\ vocoder.heard = 0 <=> c = 0
<1>1. ContextFrames \in 1..ChunkFrames /\ ChunkFrames \in Nat /\ PromptFrames \in Nat
  BY FlowNumbers
<1>2. CASE vocoder.heard = 0
  <2>1. vocoder.context = <<>> /\ vocoder.cache = <<>> /\ vocoder.source = <<>> /\ vocoder.wave = <<>>
    BY <1>2 DEF VocoderRight
  <2>2. \A f \in Int : Rows(utterance, f, 0) = <<>>
    BY NoRows
  <2>3. 0 - 0 = 0 /\ PromptFrames + 0 \in Int /\ PromptFrames \in Int /\ 0 <= 0
    BY <1>1
  <2>4. Heard(vocoder, utterance, 0, 0)
    BY <2>1, <2>2, <2>3 DEF Heard
  <2>5. QED BY <1>2, <2>3, <2>4
<1>3. CASE vocoder.heard # 0
  <2> DEFINE h == vocoder.heard
             C == ContextFrames
  <2>1. h > 0
    BY <1>3
  <2>2. /\ h >= ChunkFrames
        /\ vocoder.context = Rows(utterance, PromptFrames + h - C, C)
        /\ vocoder.cache = vocoder.context /\ vocoder.source = vocoder.context
        /\ vocoder.wave = Rows(utterance, PromptFrames, h - C)
    BY <2>1 DEF VocoderRight
  <2>3. PromptFrames + h - C = PromptFrames + (h - C) /\ C <= h /\ C # 0
    BY <1>1, <2>2
  <2> HIDE DEF h, C
  <2>4. Heard(vocoder, utterance, h, C)
    BY <2>2, <2>3 DEF Heard
  <2>5. QED BY <1>3, <2>3, <2>4 DEF h, C
<1>4. QED BY <1>2, <1>3

\* A call of the vocoder, field by field.
LEMMA SpeakIs ==
  ASSUME Speak
  PROVE  \E k \in 1..Len(melQueue) :
           LET final == melQueue[k].final
           IN /\ Takes(k)
              /\ vocoder'.calls = vocoder.calls + 1 /\ vocoder'.heard = melQueue[k].to
              /\ vocoder'.context = IF Len(NewOf(k)) >= ContextFrames THEN LastOf(NewOf(k), ContextFrames) ELSE vocoder.context
              /\ vocoder'.cache = IF final THEN vocoder.cache ELSE LastOf(InputOf(k), ContextFrames)
              /\ vocoder'.source = LastOf(SourceOf(k), ContextFrames)
              /\ vocoder'.wave = vocoder.wave \o
                   (IF final THEN InputOf(k) ELSE SubSeq(InputOf(k), 1, Len(InputOf(k)) - ContextFrames))
              /\ vocoder'.met = {<<vocoder.cache, SubSeq(InputOf(k), 1, Len(vocoder.cache))>>,
                                 <<vocoder.source, SubSeq(InputOf(k), 1, Len(vocoder.source))>>}
<1>1. PICK k \in 1..Len(melQueue) :
        /\ Takes(k)
        /\ vocoder' =
             [calls |-> vocoder.calls + 1, heard |-> melQueue[k].to,
              context |-> IF Len(NewOf(k)) >= ContextFrames THEN LastOf(NewOf(k), ContextFrames) ELSE vocoder.context,
              cache |-> IF melQueue[k].final THEN vocoder.cache ELSE LastOf(InputOf(k), ContextFrames),
              source |-> LastOf(SourceOf(k), ContextFrames),
              wave |-> vocoder.wave \o
                (IF melQueue[k].final THEN InputOf(k) ELSE SubSeq(InputOf(k), 1, Len(InputOf(k)) - ContextFrames)),
              met |-> {<<vocoder.cache, SubSeq(InputOf(k), 1, Len(vocoder.cache))>>,
                       <<vocoder.source, SubSeq(InputOf(k), 1, Len(vocoder.source))>>}]
  BY Zenon DEF Speak, NewOf, InputOf, PaddedOf, SourceOf
<1>2. QED BY <1>1, Zenon

\* The vocoder after a call.
LEMMA VocoderSpeaks ==
  ASSUME FlowTypes, LoopRight, MelRight, QueueRight, VocoderRight, Speak PROVE VocoderRight'
<1>1. flowAt # "idle" /\ utterance' = utterance /\ total' = total
  BY DEF Speak
<1>2. Utterance' = Utterance
  BY <1>1 DEF Utterance
<1>3. PICK k \in 1..Len(melQueue) :
         /\ Takes(k)
         /\ vocoder'.calls = vocoder.calls + 1 /\ vocoder'.heard = melQueue[k].to
         /\ vocoder'.context = IF Len(NewOf(k)) >= ContextFrames THEN LastOf(NewOf(k), ContextFrames) ELSE vocoder.context
         /\ vocoder'.cache = IF melQueue[k].final THEN vocoder.cache ELSE LastOf(InputOf(k), ContextFrames)
         /\ vocoder'.source = LastOf(SourceOf(k), ContextFrames)
         /\ vocoder'.wave = vocoder.wave \o
              (IF melQueue[k].final THEN InputOf(k) ELSE SubSeq(InputOf(k), 1, Len(InputOf(k)) - ContextFrames))
         /\ vocoder'.met = {<<vocoder.cache, SubSeq(InputOf(k), 1, Len(vocoder.cache))>>,
                            <<vocoder.source, SubSeq(InputOf(k), 1, Len(vocoder.source))>>}
  BY SpeakIs, Zenon
<1>4. vocoder.calls \in Nat /\ (vocoder.calls = 0 <=> vocoder.heard = 0)
  BY <1>1 DEF VocoderRight
<1> DEFINE h == vocoder.heard
           to == melQueue[k].to
           u == utterance
           length == Utterance
           size == Len(mel)
           C == ContextFrames
<1>5. /\ h \in Nat /\ to \in Nat /\ h < to /\ to <= length /\ to <= size /\ h < length
      /\ melQueue[k].final = (to = length)
      /\ to # length => \/ to - h = ChunkFrames
                        \/ to - h = 2 * ChunkFrames /\ h > 0 /\ (options.steady \/ options.batch)
  BY <1>1, <1>3, <1>4, TakenFrames
<1>6. size \in Nat /\ mel = Rows(u, PromptFrames, size)
  BY <1>1, MelGrows DEF MelRight
<1>7. PICK c \in {0, C} : c <= h /\ Heard(vocoder, u, h, c) /\ (h = 0 <=> c = 0)
  BY <1>1, <1>5, HeardBefore
<1>8. ContextFrames \in 1..ChunkFrames /\ ChunkFrames = 2 * ChunkTokens /\ ChunkTokens \in Nat \ {0} /\ c \in Nat
      /\ C = ContextFrames /\ PromptFrames \in Nat
  BY FlowNumbers
<1>9. vocoder.heard = h /\ melQueue[k].to = to
  OBVIOUS
<1>10. length = Utterance
  OBVIOUS
<1> HIDE DEF h, to, u, length, size, C
<1>22. Ahead(c, h, to)
  BY <1>5, <1>7, <1>8 DEF Ahead
<1>23. InputIs(u, c, h, to, k)
  BY <1>5, <1>6, <1>7, <1>9, <1>22, SpeakInput
<1>11. /\ NewOf(k) = Rows(u, PromptFrames + h, to - h) /\ Len(NewOf(k)) = to - h
       /\ InputOf(k) = Rows(u, PromptFrames + (h - c), c + (to - h)) /\ Len(InputOf(k)) = c + (to - h)
       /\ SubSeq(InputOf(k), 1, c) = Rows(u, PromptFrames + (h - c), c)
       /\ Len(vocoder.context) = c /\ Len(vocoder.cache) = c /\ Len(vocoder.source) = c
  BY <1>23 DEF InputIs
<1>12. /\ vocoder.cache = Rows(u, PromptFrames + (h - c), c) /\ vocoder.source = Rows(u, PromptFrames + (h - c), c)
       /\ vocoder.wave = Rows(u, PromptFrames, h - c)
  BY <1>7 DEF Heard
<1>13. \A pair \in vocoder'.met : pair[1] = pair[2]
  <2>1. vocoder'.met = {<<vocoder.cache, SubSeq(InputOf(k), 1, c)>>, <<vocoder.source, SubSeq(InputOf(k), 1, c)>>}
    BY <1>3, <1>11
  <2>2. vocoder.cache = SubSeq(InputOf(k), 1, c) /\ vocoder.source = SubSeq(InputOf(k), 1, c)
    BY <1>11, <1>12
  <2>3. QED BY <2>1, <2>2
<1>14. vocoder'.heard = to /\ vocoder'.calls \in Nat /\ vocoder'.calls # 0 /\ to # 0 /\ to > 0
  <2>1. vocoder.calls + 1 \in Nat /\ vocoder.calls + 1 # 0
    BY <1>4
  <2>2. to # 0 /\ to > 0
    BY <1>5
  <2>3. QED BY <1>3, <1>9, <2>1, <2>2
<1>15. ASSUME to = length PROVE vocoder'.wave = Rows(u, PromptFrames, length)
  <2>1. vocoder'.wave = vocoder.wave \o InputOf(k)
    BY <1>3, <1>5, <1>15
  <2>2. Rows(u, PromptFrames, h - c) \o Rows(u, PromptFrames + (h - c), c + (to - h)) = Rows(u, PromptFrames, to)
    <3>1. EndIs(u, c, h, to)
      BY <1>22, SpeakEnd
    <3>2. QED BY <3>1 DEF EndIs
  <2>3. QED BY <1>11, <1>12, <1>15, <2>1, <2>2
<1>16. ASSUME to # length
       PROVE  /\ to >= ChunkFrames
              /\ vocoder'.context = Rows(u, PromptFrames + to - C, C)
              /\ vocoder'.cache = vocoder'.context /\ vocoder'.source = vocoder'.context
              /\ vocoder'.wave = Rows(u, PromptFrames, to - C)
  <2>1. ~melQueue[k].final
    BY <1>5, <1>16
  <2>2. \/ to - h = ChunkFrames
        \/ to - h = 2 * ChunkFrames /\ h > 0 /\ (options.steady \/ options.batch)
    BY <1>5, <1>16
  <2>3. C <= to - h /\ to >= ChunkFrames
    BY <1>5, <1>8, <2>2
  <2>4. c + (to - h) \in AllBuckets
    <3>1. /\ ChunkFrames \in AllBuckets /\ C + ChunkFrames \in AllBuckets
      <4>1. 2 * ChunkTokens \in AllBuckets /\ 2 * ChunkTokens + ContextFrames \in AllBuckets
        BY FlowAssumption DEF AllBuckets
      <4>2. C + ChunkFrames = 2 * ChunkTokens + ContextFrames
        BY <1>8
      <4>3. QED BY <1>8, <4>1, <4>2
    <3>2. options.steady \/ options.batch => C + 2 * ChunkFrames \in AllBuckets
      <4>1. options.steady \/ options.batch => 4 * ChunkTokens + ContextFrames \in AllBuckets
        BY FlowAssumption DEF AllBuckets
      <4>2. C + 2 * ChunkFrames = 4 * ChunkTokens + ContextFrames
        BY <1>8
      <4>3. QED BY <4>1, <4>2
    <3>3. CASE to - h = ChunkFrames
      <4>1. 0 + ChunkFrames = ChunkFrames
        BY <1>8
      <4>2. c = 0 \/ c = C
        BY <1>7
      <4>3. QED BY <3>1, <3>3, <4>1, <4>2
    <3>4. CASE to - h = 2 * ChunkFrames /\ h > 0 /\ (options.steady \/ options.batch)
      <4>1. h # 0
        BY <1>5, <3>4
      <4>2. c = C
        BY <1>7, <4>1
      <4>3. QED BY <3>2, <3>4, <4>2
    <3>5. QED BY <2>2, <3>3, <3>4
  <2> DEFINE kept == Rows(u, PromptFrames + (to - ContextFrames), ContextFrames)
  <2>5. /\ LastOf(NewOf(k), ContextFrames) = kept /\ LastOf(InputOf(k), ContextFrames) = kept
        /\ LastOf(SourceOf(k), ContextFrames) = kept
        /\ Rows(u, PromptFrames, h - c) \o SubSeq(InputOf(k), 1, Len(InputOf(k)) - ContextFrames) =
             Rows(u, PromptFrames, to - ContextFrames)
    <3>1. ContextFrames <= to - h
      BY <1>8, <2>3
    <3>2. MiddleIs(u, c, h, to, k)
      BY <1>7, <1>22, <1>23, <2>4, <3>1, SpeakMiddle
    <3>3. QED BY <3>2 DEF MiddleIs
  <2>6. PromptFrames + to - C = PromptFrames + (to - ContextFrames)
    BY <1>5, <1>8
  <2>7. Len(NewOf(k)) >= ContextFrames
    <3>1. to - h >= ContextFrames
      BY <1>5, <1>8, <2>3
    <3>2. QED BY <1>11, <3>1
  <2> HIDE DEF kept
  <2>8. vocoder'.context = kept /\ vocoder'.cache = kept /\ vocoder'.source = kept
    BY <1>3, <2>1, <2>5, <2>7
  <2>9. vocoder'.wave = Rows(u, PromptFrames, to - ContextFrames)
    BY <1>3, <1>12, <2>1, <2>5
  <2>10. kept = Rows(u, PromptFrames + to - C, C)
    BY <1>8, <2>6 DEF kept
  <2>11. QED BY <1>8, <2>3, <2>8, <2>9, <2>10
<1>17. Utterance' = length /\ utterance' = u
  BY <1>1, <1>2, <1>10 DEF u
<1>18. C = ContextFrames
  BY <1>8
<1>19. to < length => to # length
  BY <1>5
<1>20. /\ vocoder'.heard > 0 /\ vocoder'.heard < Utterance' =>
            /\ vocoder'.heard >= ChunkFrames
            /\ vocoder'.context = Rows(utterance', PromptFrames + vocoder'.heard - ContextFrames, ContextFrames)
            /\ vocoder'.cache = vocoder'.context /\ vocoder'.source = vocoder'.context
            /\ vocoder'.wave = Rows(utterance', PromptFrames, vocoder'.heard - ContextFrames)
       /\ vocoder'.heard = Utterance' => vocoder'.wave = Rows(utterance', PromptFrames, Utterance')
  BY <1>14, <1>15, <1>16, <1>17, <1>18, <1>19
<1>21. QED BY <1>13, <1>14, <1>20 DEF VocoderRight

\* The vocoder stays right under every step.
LEMMA VocoderRightStep ==
  FlowTypes /\ LoopRight /\ MelRight /\ QueueRight /\ VocoderRight /\ FlowNext => VocoderRight'
<1> SUFFICES ASSUME FlowTypes, LoopRight, MelRight, QueueRight, VocoderRight, FlowNext PROVE VocoderRight'
  OBVIOUS
<1>1. ASSUME NEW n \in TokenCounts, BeginUtterance(n) PROVE VocoderRight'
  <2>1. vocoder' = VocoderReset /\ total' = PromptTokens + n
    BY <1>1 DEF BeginUtterance
  <2>2. /\ vocoder'.met = {} /\ vocoder'.calls = 0 /\ vocoder'.heard = 0
        /\ vocoder'.context = <<>> /\ vocoder'.cache = <<>> /\ vocoder'.source = <<>> /\ vocoder'.wave = <<>>
    BY <2>1 DEF VocoderReset
  <2>3. n \in Nat \ {0} /\ PromptTokens \in Nat
    BY FlowAssumption, FlowNumbers
  <2>4. 2 * ((PromptTokens + n) - PromptTokens) # 0 /\ ~(0 > 0)
    BY <2>3
  <2>5. Utterance' = 2 * ((PromptTokens + n) - PromptTokens)
    BY <2>1 DEF Utterance
  <2>6. 0 # Utterance' /\ 0 \in Nat
    BY <2>4, <2>5
  <2>7. QED BY <2>2, <2>4, <2>6 DEF VocoderRight
<1>2. ASSUME Speak PROVE VocoderRight'
  BY <1>2, VocoderSpeaks
<1>3. ASSUME VoiceChunk \/ VoiceKept \/ FlowChunk \/ HandOver \/ PartReady \/ RunTwo \/ TailBack \/ RunTail
             \/ UtteranceEnds \/ Throws
      PROVE  VocoderRight'
  <2>1. UNCHANGED <<vocoder, total, utterance>> /\ (flowAt' # "idle" => flowAt # "idle")
    BY <1>3 DEF VoiceChunk, VoiceKept, FlowChunk, HandOver, PartReady, RunTwo, TailBack, RunTail, UtteranceEnds, Throws, melOf
  <2>2. Utterance' = Utterance
    BY <2>1 DEF Utterance
  <2>3. QED BY <2>1, <2>2 DEF VocoderRight
<1>4. QED BY <1>1, <1>2, <1>3 DEF FlowNext

-----------------------------------------------------------------------------
(* The invariant, and what follows from it. *)

\* The invariant, at the start.
LEMMA FlowStarts == FlowInit => FlowInv
<1> SUFFICES ASSUME FlowInit PROVE FlowInv
  OBVIOUS
<1>1. FlowTypes /\ LoopRight
  BY FlowStartTypes, FlowStartLoop
<1>2. flowAt = "idle" /\ profile = NoProfile /\ ran = NotRun /\ vocoder = VocoderReset /\ nextStart = 0
  BY DEF FlowInit
<1>3. EncoderRight /\ GraphRight /\ ProfileRight /\ MelRight /\ QueueRight
  BY <1>2 DEF EncoderRight, GraphRight, ProfileRight, MelRight, QueueRight
<1>4. VocoderRight
  <2>1. vocoder.met = {}
    BY <1>2 DEF VocoderReset
  <2>2. QED BY <1>2, <2>1 DEF VocoderRight
<1>5. RanRight
  <2>1. NotRun.start = 0 /\ NotRun.frame = 0 /\ NotRun.tokens = <<>>
    BY DEF NotRun
  <2>2. <<>> = TokensShown(utterance, VoiceTokens, 0)
    BY NoTokensShown
  <2>3. 0 \in Nat /\ 0 <= 0 /\ 0 <= 2 * 0 /\ ~(0 > 0)
    OBVIOUS
  <2> DEFINE v == VoiceTokens
  <2>4. NotRun.tokens = TokensShown(utterance, v, 0)
    BY <2>1, <2>2
  <2> HIDE DEF v
  <2>5. RanOf(utterance, v, NotRun, 0)
    BY <2>1, <2>3, <2>4 DEF RanOf
  <2>6. RanRight <=> RanOf(utterance, VoiceTokens, ran, nextStart)
    BY DEF RanRight, RanOf, TokensShown, FramesShown
  <2>7. QED BY <1>2, <2>5, <2>6 DEF v
<1>6. QED BY <1>1, <1>3, <1>4, <1>5 DEF FlowInv

\* And after every step.
LEMMA FlowSteps == FlowInv /\ [FlowNext]_tensors => FlowInv'
<1> SUFFICES ASSUME FlowInv, [FlowNext]_tensors PROVE FlowInv'
  OBVIOUS
<1>1. /\ FlowTypes /\ LoopRight /\ EncoderRight /\ GraphRight /\ ProfileRight
      /\ RanRight /\ MelRight /\ QueueRight /\ VocoderRight
  BY DEF FlowInv
<1>2. CASE FlowNext
  <2>1. FlowTypes' /\ LoopRight' /\ EncoderRight' /\ GraphRight' /\ ProfileRight'
    BY <1>1, <1>2, FlowTypesStep, LoopRightStep, EncoderRightStep, GraphRightStep, ProfileRightStep
  <2>2. RanRight' /\ MelRight' /\ QueueRight' /\ VocoderRight'
    BY <1>1, <1>2, RanRightStep, MelRightStep, QueueRightStep, VocoderRightStep
  <2>3. QED BY <2>1, <2>2 DEF FlowInv
<1>3. CASE UNCHANGED tensors
  <2>1. UNCHANGED <<options, flowAt, utterance, total, encoder, graph, profile, nextStart, chunkNo, noise,
                    steadyReady, parts, mel, melQueue, vocoder, ran>>
    BY <1>3 DEF tensors, flowOf, loopOf, melOf
  <2>2. Done' = Done /\ Utterance' = Utterance /\ VoiceTokens' = VoiceTokens /\ Running' = Running
    BY <2>1 DEF Done, Utterance, VoiceTokens, Running
  <2>3. PartsWait' <=> PartsWait
    BY <2>1 DEF PartsWait
  <2>4. FlowTypes' /\ LoopRight'
    BY <1>1, <2>1, <2>2, <2>3 DEF FlowTypes, LoopRight
  <2>5. EncoderRight' /\ GraphRight' /\ ProfileRight'
    BY <1>1, <2>1, <2>2 DEF EncoderRight, GraphRight, ProfileRight
  <2>6. RanRight' /\ MelRight'
    BY <1>1, <2>1, <2>2 DEF RanRight, MelRight
  <2>7. QueueRight' /\ VocoderRight'
    BY <1>1, <2>1, <2>2 DEF QueueRight, VocoderRight
  <2>8. QED BY <2>4, <2>5, <2>6, <2>7 DEF FlowInv
<1>4. QED BY <1>2, <1>3

\* While the profile is made no token is after what it covers.
LEMMA NamedIs ==
  ASSUME FlowTypes, LoopRight, NEW i \in Int, NEW two \in {1, 2}, i < two * nextStart
  PROVE  Named(i, two * (IF profile = NoProfile THEN nextStart ELSE VoiceTokens)) = Own(utterance, i, two * VoiceTokens)
<1>1. VoiceTokens \in Nat /\ nextStart \in Nat
  BY VoiceIs DEF FlowTypes
<1>2. CASE profile = NoProfile
  <2>1. nextStart <= VoiceTokens
    BY <1>2 DEF LoopRight
  <2>2. i < two * VoiceTokens
    BY <1>1, <2>1
  <2>3. Named(i, two * nextStart) = <<0, i>> /\ Own(utterance, i, two * VoiceTokens) = <<0, i>>
    BY <2>2 DEF Named, Own
  <2>4. QED BY <1>2, <2>3
<1>3. CASE profile # NoProfile
  BY <1>3 DEF Named, Own
<1>4. QED BY <1>2, <1>3

\* A run that was shown its past is what SeesItsPast asks for.
LEMMA PastSeen == FlowTypes /\ LoopRight /\ RanRight => SeesItsPast
<1> SUFFICES ASSUME FlowTypes, LoopRight, RanRight PROVE SeesItsPast
  OBVIOUS
<1> DEFINE covered == IF profile = NoProfile THEN nextStart ELSE VoiceTokens
           t == Lesser(ran.frame - PromptFrames, RecentFrames)
           shown == IF ran.frame <= PromptFrames THEN ran.frame ELSE PromptFrames + t
           start == ran.start
           frame == ran.frame
           n == Lesser(start, TokenCache)
           u == utterance
           v == VoiceTokens
           place(i) == IF i <= PromptFrames THEN i - 1 ELSE frame - t + (i - PromptFrames) - 1
<1>1. start \in Nat /\ start <= nextStart /\ frame \in Nat /\ frame <= 2 * nextStart /\ nextStart \in Nat
  BY DEF RanRight, FlowTypes
<1>2. TokenCache \in Nat /\ PromptFrames \in Nat /\ RecentFrames \in Nat
  BY FlowNumbers
<1>3. \A i \in Int : i < nextStart => Named(i, covered) = Own(u, i, v)
  <2>1. ASSUME NEW i \in Int, i < nextStart PROVE Named(i, covered) = Own(u, i, v)
    <3>1. i < 1 * nextStart /\ 1 * covered = covered /\ 1 * v = v /\ 1 \in {1, 2}
      <4>1. VoiceTokens \in Nat
        BY VoiceIs
      <4>2. QED BY <1>1, <2>1, <4>1
    <3>2. Named(i, 1 * covered) = Own(u, i, 1 * v)
      BY <3>1, NamedIs
    <3>3. QED BY <3>1, <3>2
  <2>2. QED BY <2>1
<1>4. \A i \in Int : i < 2 * nextStart => Named(i, 2 * covered) = Own(u, i, 2 * v)
  <2>1. 2 \in {1, 2}
    OBVIOUS
  <2>2. QED BY <2>1, NamedIs
<1>5. flowAt # "idle" => noise = chunkNo
  BY DEF LoopRight
<1>6. ran.tokens = [i \in (TokenCache - n + 1)..TokenCache |-> Own(u, start - TokenCache + i - 1, v)]
  BY DEF RanRight
<1>7. frame > 0 => /\ ran.conv = Own(u, frame - 1, 2 * v)
                   /\ ran.kv = [i \in 1..ShownOf(frame) |-> Own(u, ShownAt(frame, i), 2 * v)]
  BY DEF RanRight
<1>8. ShownOf(frame) = shown /\ \A i : ShownAt(frame, i) = place(i)
  BY DEF ShownOf, ShownAt, RecentOf
<1> HIDE DEF covered, start, frame, u, v
<1>9. ran.tokens = [i \in (TokenCache - n + 1)..TokenCache |-> Named(start - TokenCache + i - 1, covered)]
  <2>1. ASSUME NEW i \in (TokenCache - n + 1)..TokenCache
        PROVE  Named(start - TokenCache + i - 1, covered) = Own(u, start - TokenCache + i - 1, v)
    <3>1. start - TokenCache + i - 1 \in Int /\ start - TokenCache + i - 1 < nextStart
      <4>1. n \in Int
        BY <1>1, <1>2 DEF Lesser
      <4>2. i \in Int /\ i <= TokenCache
        BY <1>2, <4>1
      <4>3. QED BY <1>1, <1>2, <4>2
    <3>2. QED BY <1>3, <3>1
  <2>2. QED BY <1>6, <2>1
<1>10. ASSUME frame > 0
       PROVE  ran.conv = Named(frame - 1, 2 * covered)
  <2>1. frame - 1 \in Int /\ frame - 1 < 2 * nextStart
    BY <1>1
  <2>2. QED BY <1>4, <1>7, <1>10, <2>1
<1>11. ASSUME frame > 0
       PROVE  ran.kv = [i \in 1..shown |-> Named(place(i), 2 * covered)]
  <2>1. t \in Int /\ (frame > PromptFrames => t <= frame - PromptFrames /\ t >= 0) /\ shown \in Int
    BY <1>1, <1>2 DEF Lesser, frame
  <2>2. ASSUME NEW i \in 1..shown PROVE place(i) \in Int /\ place(i) < 2 * nextStart
    BY <1>1, <1>2, <1>11, <2>1 DEF frame
  <2>3. ran.kv = [i \in 1..shown |-> Own(u, place(i), 2 * v)]
    BY <1>7, <1>8, <1>11
  <2>4. QED BY <1>4, <2>2, <2>3
<1>12. QED BY <1>5, <1>9, <1>10, <1>11 DEF SeesItsPast, covered, start, frame

\* When all is heard, all is said.
LEMMA SeamsAre == FlowTypes /\ LoopRight /\ MelRight /\ QueueRight /\ VocoderRight => SeamsMeet
<1> SUFFICES ASSUME FlowTypes, LoopRight, MelRight, QueueRight, VocoderRight PROVE SeamsMeet
  OBVIOUS
<1>1. \A pair \in vocoder.met : pair[1] = pair[2]
  BY DEF VocoderRight
<1>2. ASSUME Spoken PROVE vocoder.wave = Rows(utterance, PromptFrames, 2 * (total - PromptTokens))
  <2>1. flowAt = "loop" /\ nextStart = total /\ melQueue = <<>> /\ flowAt # "idle"
    BY <1>2 DEF Spoken
  <2>2. total \in Nat /\ total > PromptTokens /\ PromptTokens \in Nat /\ PromptFrames = 2 * PromptTokens
    BY <2>1, FlowNumbers DEF LoopRight, FlowTypes, PromptFrames
  <2>3. parts = <<>>
    <3>1. parts # <<>> => nextStart < total
      BY <2>1 DEF LoopRight, PartsWait
    <3>2. QED BY <2>1, <2>2, <3>1
  <2>4. Done = 2 * total
    BY <2>1, <2>3 DEF Done
  <2>5. Len(mel) = IF Done <= PromptFrames THEN 0 ELSE Done - PromptFrames
    BY <2>1 DEF MelRight
  <2>6. Len(mel) = 2 * (total - PromptTokens)
    BY <2>2, <2>4, <2>5
  <2>7. vocoder.heard = Len(mel)
    <3>1. Before(melQueue, vocoder.heard, Len(melQueue) + 1) = Len(mel)
      BY <2>1 DEF QueueRight, QueueOf
    <3>2. Len(<<>>) = 0
      OBVIOUS
    <3>3. Len(melQueue) + 1 = 1
      BY <2>1, <3>2
    <3>4. QED BY <3>1, <3>3 DEF Before
  <2>8. vocoder.heard = Utterance
    BY <2>6, <2>7 DEF Utterance
  <2>9. vocoder.wave = Rows(utterance, PromptFrames, Utterance)
    BY <2>1, <2>8 DEF VocoderRight
  <2>10. QED BY <2>9 DEF Utterance
<1>3. QED BY <1>1, <1>2 DEF SeamsMeet

(* Whatever the sizes of the chunks, the caches and the buckets, however many
   utterances one process speaks and whichever of them fail: the models are
   shown the past of this utterance and nothing else, and the vocoder's seams
   meet (SeesItsPast and SeamsMeet of TtsFlow). *)
THEOREM FlowIsContinuous == FlowSpec => []FlowContinuous
<1>1. FlowInv => FlowContinuous
  BY PastSeen, SeamsAre DEF FlowInv, FlowContinuous
<1>2. FlowSpec => []FlowInv
  BY FlowStarts, FlowSteps, PTL DEF FlowSpec
<1>3. QED BY <1>1, <1>2, PTL

=============================================================================
