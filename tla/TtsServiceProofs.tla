--------------------------- MODULE TtsServiceProofs ---------------------------
(***************************************************************************)
(* Theorems about TtsEngine and TtsService for any number of connections   *)
(* and requests, any length of utterance, any pipes and any faults.        *)
(*                                                                         *)
(* The engine is proved about on its own, by EngineSpec; the service is    *)
(* shown to implement EngineSpec, so what is proved there holds in it.     *)
(***************************************************************************)
EXTENDS TtsService, SequenceTheorems, FiniteSetTheorems, TLAPS

-----------------------------------------------------------------------------
(* The engine and its client *)

Pieces == [of : Calls, n : Nat]
Said == [of : Calls, ok : BOOLEAN, pieces : Nat]
ReportSet == [of : Calls \union {None}, ok : BOOLEAN, pieces : Nat]
Asked == {"reading", "yielded", "tail", "tail_yielded", "reported"}
LetGo == {"done", "dropped"}
Over == {"unavailable", "failed", "broken"}
Places == {"idle", "turn"} \union Asked \union LetGo \union Over

EngineTypes ==
  /\ faults \in SUBSET FaultKinds
  /\ engine \in {"up", "dead", "reaped"}
  /\ stdin \in Seq(Calls)
  /\ speaking \in Calls \union {None}
  /\ written \in Nat
  /\ pipe \in Seq(Pieces)
  /\ arrived \in Seq(Pieces)
  /\ stderr \in Seq(Said)
  /\ line \in Seq(Calls)
  /\ reports \in Seq(ReportSet)
  /\ mine \in ReportSet
  /\ at \in [Calls -> Places]
  /\ got \in [Calls -> Seq(Pieces)]

\* _turn: its holder is first, who waits is behind, and who is over is gone.
LineRight ==
  /\ \A i, j \in 1..Len(line) : line[i] = line[j] => i = j
  /\ \A i \in 1..Len(line) : i > 1 => at[line[i]] = "turn"
  /\ \A i \in 1..Len(line) : at[line[i]] \in {"turn"} \union Asked \union LetGo
  /\ \A c \in Calls : at[c] \in {"turn"} \union Asked => \E i \in 1..Len(line) : line[i] = c
  /\ mine # NoReport => line # <<>> /\ at[line[1]] # "turn"

\* How much of its report each generator has yielded.
ReportRight ==
  \A c \in Calls :
    /\ at[c] = "tail" => mine.ok /\ Len(got[c]) < mine.pieces
    /\ at[c] = "tail_yielded" => mine.ok /\ Len(got[c]) <= mine.pieces
    /\ at[c] = "reported" => mine.ok /\ Len(got[c]) = mine.pieces
    /\ at[c] \in {"idle", "turn"} => got[c] = <<>>

\* Nobody's audio is left behind.
Kept == \A c \in Calls : ~GivenUp(c)

\* The generator whose line was written, until it gives the turn back.
Served == line # <<>> /\ at[line[1]] # "turn"
Holder == line[1]

\* All that was written for the holder.
Total == Len(got[Holder]) + Len(arrived) + Len(pipe)

\* A report of audio is of the holder's, once there is some.
Fit(r) == r.ok => r.pieces > 0 /\ (Served /\ Total > 0 => r.of = Holder /\ r.pieces = Total)

AudioInOrder ==
  /\ \A c \in Calls : \A i \in 1..Len(got[c]) : got[c][i] = Piece(c, i)
  /\ Served =>
       /\ \A i \in 1..Len(arrived) : arrived[i] = Piece(Holder, Len(got[Holder]) + i)
       /\ \A i \in 1..Len(pipe) : pipe[i] = Piece(Holder, Len(got[Holder]) + Len(arrived) + i)
  /\ ~Served => arrived = <<>> /\ pipe = <<>>

ReportsFit == Fit(mine) /\ \A i \in 1..Len(stderr) : Fit(stderr[i])

\* How far the process is with the one line it may have.
Quiet == stdin = <<>> /\ speaking = None /\ stderr = <<>>
Progress ==
  engine = "up" =>
    IF Served
    THEN \/ stdin = <<Holder>> /\ speaking = None /\ stderr = <<>> /\ mine = NoReport /\ Total = 0
         \/ stdin = <<>> /\ speaking = Holder /\ stderr = <<>> /\ mine = NoReport /\ Total = written
         \/ stdin = <<>> /\ speaking = None /\ Len(stderr) = 1 /\ mine = NoReport
         \/ Quiet /\ mine # NoReport
    ELSE Quiet

\* Requests are apart: also, who was told the end has heard everything.
Apart ==
  /\ AudioInOrder /\ ReportsFit /\ Progress
  /\ Served /\ at[Holder] \in {"reported", "done"} => arrived = <<>> /\ pipe = <<>> /\ mine # NoReport

KeptApart == Kept => Apart

EngineInv == EngineTypes /\ LineRight /\ ReportRight /\ KeptApart

-----------------------------------------------------------------------------
(* The service *)

Replied == [kind : {"started", "audio", "finished", "cancelled", "error"}, pieces : Nat]
MessageSet == [kind : {"synthesize", "cancel"}, request : Calls]

StreamTypes ==
  /\ handler \in [Handlers -> {"receive", "deliver", "gone"}]
  /\ link \in [Handlers -> {"up", "down"}]
  /\ inbox \in [Handlers -> Seq(MessageSet)]
  /\ active \in [Handlers -> Calls \union {None}]
  /\ cancelled \in [Handlers -> SUBSET Calls]
  /\ owner \in [Calls -> Handlers \union {None}]
  /\ out \in [Calls -> Seq(Replied)]

\* deliver() has one request, of its own connection.
DeliveryRight ==
  /\ \A r \in Calls : at[r] # "idle" => owner[r] # None
  /\ \A h \in Handlers :
       /\ handler[h] = "deliver" <=> active[h] # None
       /\ active[h] # None => owner[active[h]] = h /\ at[active[h]] \in {"turn"} \union Asked \union Over

\* Pieces of r that deliver() has sent on.
Sent(r) == Len(got[r]) - (IF at[r] \in {"yielded", "tail_yielded"} THEN 1 ELSE 0)

\* Replies that begin with started, end with their final one and count right.
InOrder(replies) ==
  \A i \in 1..Len(replies) :
    /\ replies[i].kind = "started" <=> i = 1
    /\ replies[i].kind \in {"finished", "cancelled", "error"} => i = Len(replies)
    /\ replies[i].kind = "finished" => replies[i].pieces = Len(replies) - 2

\* Replies that go on.
Open(replies) == InOrder(replies) /\ replies[Len(replies)].kind \in {"started", "audio"}

\* What each client was sent.
RepliesRight ==
  \A r \in Calls :
    /\ at[r] = "idle" <=> out[r] = <<>>
    /\ InOrder(out[r])
    /\ \A h \in Handlers : active[h] = r => Open(out[r]) /\ Len(out[r]) = 1 + Sent(r)

\* A request is asked for once.
AskedOnce ==
  \A h \in Handlers : \A i \in 1..Len(inbox[h]) : inbox[h][i].kind = "synthesize" =>
    /\ owner[inbox[h][i].request] = h /\ at[inbox[h][i].request] = "idle"
    /\ \A j \in 1..Len(inbox[h]) :
         inbox[h][j].kind = "synthesize" /\ inbox[h][j].request = inbox[h][i].request => j = i

\* Where nobody is rude: connections last as long as their handlers, and a
\* request is cancelled by its own client, after it was asked for.
Polite ==
  \A h \in Handlers :
    /\ link[h] = "down" => handler[h] = "gone"
    /\ active[h] # None => active[h] \notin cancelled[h]
    /\ \A r \in cancelled[h] : owner[r] # None
    /\ \A i \in 1..Len(inbox[h]) : owner[inbox[h][i].request] = h
    /\ \A i \in 1..Len(inbox[h]) : inbox[h][i].kind = "synthesize" =>
         /\ inbox[h][i].request \notin cancelled[h]
         /\ \A j \in 1..(i - 1) : inbox[h][j].request # inbox[h][i].request

RequestsRight == AskedOnce /\ ("abandon" \notin faults => Polite)

StreamInv == StreamTypes /\ DeliveryRight /\ RepliesRight /\ RequestsRight
ServiceInv == EngineInv /\ StreamInv

-----------------------------------------------------------------------------
(* The engine: types. *)

\* Records of the model, and what taking from and adding to a sequence does.
LEMMA Records ==
  /\ \A c \in Calls, n \in Nat : Piece(c, n) \in Pieces
  /\ \A c \in Calls, ok \in BOOLEAN, n \in Nat : Report(c, ok, n) \in Said /\ Report(c, ok, n) # NoReport
  /\ Said \subseteq ReportSet
  /\ NoReport \in ReportSet
  /\ \A r \in Said : r # NoReport
<1>1. None \notin Calls
  BY EngineAssumption
<1> QED
  BY <1>1 DEF Piece, Pieces, Report, Said, ReportSet, NoReport

\* The first of a sequence goes, the others move up.
LEMMA Taken ==
  ASSUME NEW S, NEW s \in Seq(S), s # <<>>
  PROVE  /\ Len(s) \in Nat \ {0} /\ Head(s) = s[1] /\ s[1] \in S
         /\ Tail(s) \in Seq(S) /\ Len(Tail(s)) = Len(s) - 1
         /\ \A i \in 1..(Len(s) - 1) : Tail(s)[i] = s[i + 1]
<1>1. Len(s) \in Nat \ {0} /\ s[1] \in S /\ Head(s) = s[1]
  BY EmptySeq, ElementOfSeq
<1>2. Tail(s) \in Seq(S) /\ Len(Tail(s)) = Len(s) - 1 /\ \A i \in 1..Len(Tail(s)) : Tail(s)[i] = s[i + 1]
  BY HeadTailProperties
<1> QED
  BY <1>1, <1>2

\* A report goes to the holder of the turn, or waits.
LEMMA PutReportTypes ==
  ASSUME EngineTypes, NEW r \in ReportSet, PutReport(r)
  PROVE  reports' \in Seq(ReportSet) /\ mine' \in ReportSet
<1>1. reports \in Seq(ReportSet) /\ mine \in ReportSet /\ Append(reports, r) \in Seq(ReportSet)
  BY AppendProperties DEF EngineTypes
<1> QED
  BY <1>1 DEF PutReport

\* The steps of the process and of the pipes keep the types.
LEMMA ProcessTypes ==
  ASSUME EngineTypes, UNCHANGED faults, ProcessStep
  PROVE  EngineTypes'
<1> USE Records, AppendProperties, Taken DEF EngineTypes
<1>1. CASE TakeLine
  BY <1>1 DEF TakeLine, clientVars
<1>2. CASE WritePiece
  BY <1>2 DEF WritePiece, clientVars
<1>3. CASE EndUtterance
  BY <1>3 DEF EndUtterance, clientVars
<1>4. CASE FailUtterance
  BY <1>4 DEF FailUtterance, clientVars
<1>5. CASE Die
  BY <1>5 DEF Die, clientVars
<1>6. CASE AudioArrives
  BY <1>6 DEF AudioArrives, clientVars, processVars
<1>7. CASE ReportArrives
  <2>1. Head(stderr) \in ReportSet
    BY <1>7 DEF ReportArrives
  <2> QED
    BY <1>7, <2>1, PutReportTypes DEF ReportArrives, processVars
<1>8. CASE ExitNoticed
  <2>1. [of |-> None, ok |-> FALSE, pieces |-> 1] \in ReportSet
    BY DEF ReportSet
  <2> QED
    BY <1>8, <2>1, PutReportTypes DEF ExitNoticed
<1> QED
  BY <1>1, <1>2, <1>3, <1>4, <1>5, <1>6, <1>7, <1>8 DEF ProcessStep

\* The line is of calls, and is not empty when someone stands in it.
LEMMA InLine ==
  ASSUME EngineTypes, LineRight
  PROVE  /\ \A c \in Calls : at[c] \in Asked => line # <<>> /\ line[1] = c /\ Head(line) = c
         /\ \A c \in Calls : at[c] = "turn" => line # <<>>
         /\ line # <<>> => Head(line) = line[1] /\ line[1] \in Calls /\ Len(line) \in Nat \ {0}
<1>1. /\ line \in Seq(Calls) /\ Len(line) \in Nat
      /\ line # <<>> => Len(line) # 0 /\ Head(line) = line[1]
      /\ \A i \in 1..Len(line) : line[i] \in Calls
  BY EmptySeq, ElementOfSeq DEF EngineTypes
<1>2. ASSUME NEW c \in Calls, at[c] \in {"turn"} \union Asked
      PROVE  line # <<>> /\ (at[c] \in Asked => line[1] = c)
  <2>1. PICK i \in 1..Len(line) : line[i] = c
    BY <1>2 DEF LineRight
  <2>2. at[c] \in Asked => i = 1
    BY <2>1, <1>1 DEF LineRight, Asked
  <2> QED
    BY <2>1, <2>2, <1>1
<1> QED
  BY <1>1, <1>2

\* A generator goes from one place to another.
LEMMA GoesTypes ==
  ASSUME EngineTypes, NEW c \in Calls, NEW where \in Places, Goes(c, where)
  PROVE  at' \in [Calls -> Places]
  BY DEF EngineTypes, Goes

\* A generator that ends leaves the line and takes its report along.
LEMMA EndsTypes ==
  ASSUME EngineTypes, line # <<>>, NEW c \in Calls, NEW how \in LetGo \union Over, Ends(c, how)
  PROVE  /\ at' \in [Calls -> Places]
         /\ line' \in Seq(Calls) /\ mine' \in ReportSet
  BY Records, Taken DEF EngineTypes, Ends, Goes, Places

\* The steps of a generator and of its consumer keep the types.
LEMMA GeneratorTypes ==
  ASSUME EngineTypes, LineRight, UNCHANGED faults, NEW c \in Calls, GeneratorStep(c)
  PROVE  EngineTypes'
<1> USE Records, AppendProperties, Taken DEF EngineTypes
<1>0. /\ at[c] \in Asked \union {"turn"} => line # <<>>
      /\ "reading" \in Asked /\ "tail" \in Asked
      /\ {"unavailable", "failed", "broken", "done", "dropped"} \subseteq LetGo \union Over
      /\ {"yielded", "tail_yielded", "tail", "reported", "reading"} \subseteq Places
  BY InLine DEF Asked, LetGo, Over, Places
<1>1. CASE Begin(c)
  <2>1. <<>> \in Seq(ReportSet)
    BY EmptySeq
  <2> QED
    BY <1>1, <2>1 DEF Begin, Goes, Asked, Places
<1>2. CASE BeginFails(c)
  <2>1. <<>> \in Seq(ReportSet)
    BY EmptySeq
  <2> QED
    BY <1>2, <2>1, <1>0, EndsTypes DEF BeginFails, processVars
<1>3. CASE ReadPiece(c) \/ ReadTail(c)
  <2>1. arrived # <<>> /\ got' = [got EXCEPT ![c] = Append(@, Head(arrived))] /\ arrived' = Tail(arrived)
    BY <1>3 DEF ReadPiece, ReadTail, Yield
  <2>2. Append(got[c], Head(arrived)) \in Seq(Pieces) /\ arrived' \in Seq(Pieces)
    BY <2>1
  <2>5. got' \in [Calls -> Seq(Pieces)]
    BY <2>1, <2>2
  <2>3. at' \in [Calls -> Places]
    <3>1. Goes(c, "yielded") \/ Goes(c, "tail_yielded")
      BY <1>3 DEF ReadPiece, ReadTail, Yield
    <3> QED
      BY <3>1, <1>0, GoesTypes
  <2>4. UNCHANGED <<engine, stdin, speaking, written, pipe, stderr, line, reports, mine>>
    BY <1>3 DEF ReadPiece, ReadTail, Yield, processVars
  <2> QED
    BY <2>2, <2>3, <2>4, <2>5
<1>4. CASE ReadEnds(c) \/ ReadTimesOut(c) \/ TailEnds(c) \/ TailTimesOut(c)
  <2>1. at[c] \in Asked /\ (Ends(c, "unavailable") \/ Ends(c, "broken"))
    BY <1>4, <1>0 DEF ReadEnds, ReadTimesOut, TailEnds, TailTimesOut
  <2>2. UNCHANGED <<engine, stdin, speaking, written, pipe, arrived, stderr, reports, got>>
    BY <1>4 DEF ReadEnds, ReadTimesOut, TailEnds, TailTimesOut, processVars
  <2>3. /\ at' \in [Calls -> Places]
        /\ line' \in Seq(Calls) /\ mine' \in ReportSet
    BY <1>0, <2>1, EndsTypes
  <2> QED
    BY <2>2, <2>3
<1>5. CASE ReportSeen(c)
  <2>1. /\ at' \in [Calls -> Places]
        /\ line' \in Seq(Calls) /\ mine' \in ReportSet
    <3>1. CASE Ends(c, "failed") \/ Ends(c, "broken") \/ Ends(c, "unavailable")
      <4>1. line # <<>>
        BY <1>5, <1>0 DEF ReportSeen
      <4> QED
        BY <3>1, <4>1, <1>0, EndsTypes
    <3>2. CASE (Goes(c, "tail") \/ Goes(c, "reported")) /\ UNCHANGED <<line, mine>>
      BY <3>2, <1>0, GoesTypes
    <3> QED
      BY <1>5, <3>1, <3>2 DEF ReportSeen, ReportRead
  <2>2. UNCHANGED <<engine, stdin, speaking, written, pipe, arrived, stderr, reports, got>>
    BY <1>5 DEF ReportSeen, processVars
  <2> QED
    BY <2>1, <2>2
<1>6. CASE Finalize(c)
  BY <1>6, <1>0, EndsTypes DEF Finalize, processVars
<1> QED
  BY <1>1, <1>2, <1>3, <1>4, <1>5, <1>6 DEF GeneratorStep

\* The steps of a generator's consumer keep the types.
LEMMA ConsumerTypes ==
  ASSUME EngineTypes, UNCHANGED faults, NEW c \in Calls, ConsumerStep(c)
  PROVE  EngineTypes'
<1> USE DEF EngineTypes, Places
<1>1. CASE Call(c)
  BY <1>1, AppendProperties DEF Call, Goes, processVars
<1>2. CASE CallRefused(c)
  BY <1>2 DEF CallRefused, Goes, processVars, Over
<1>3. CASE Resume(c)
  BY <1>3 DEF Resume, Goes, processVars, Asked
<1>4. CASE Drop(c)
  BY <1>4 DEF Drop, Goes, processVars, LetGo
<1> QED
  BY <1>1, <1>2, <1>3, <1>4 DEF ConsumerStep

-----------------------------------------------------------------------------
(* The engine: the line for the turn. *)

\* A report in hand is the holder's.
LEMMA PutReportLine ==
  ASSUME EngineTypes, LineRight, NEW r, PutReport(r), UNCHANGED <<line, at>>
  PROVE  LineRight'
<1>1. mine' # mine => line # <<>> /\ at[line[1]] # "turn"
  BY InLine DEF PutReport, Listening
<1> QED
  BY <1>1 DEF LineRight

\* The holder goes from place to place and keeps the turn.
LEMMA LineMoves ==
  ASSUME EngineTypes, LineRight, UNCHANGED line,
         NEW c \in Calls, NEW where \in Asked \union LetGo, Goes(c, where),
         line # <<>>, line[1] = c, mine' \in {mine, NoReport}
  PROVE  LineRight'
<1>1. /\ at'[c] = where /\ where # "turn" /\ at'[c] \in Asked \union LetGo
      /\ \A d \in Calls \ {c} : at'[d] = at[d]
  BY DEF EngineTypes, Goes, Asked, LetGo
<1>2. /\ Len(line) \in Nat \ {0} /\ \A i \in 1..Len(line) : line[i] \in Calls
  BY InLine, ElementOfSeq DEF EngineTypes
<1>3. \A i \in 1..Len(line) : line[i] = c <=> i = 1
  BY <1>2 DEF LineRight
<1> QED
  BY <1>1, <1>2, <1>3 DEF LineRight

\* The holder leaves; the next in line still waits.
LEMMA LineEnds ==
  ASSUME EngineTypes, LineRight, NEW c \in Calls, NEW how \in LetGo \union Over, Ends(c, how),
         line # <<>>, line[1] = c
  PROVE  LineRight' /\ (line' # <<>> => at'[line'[1]] = "turn") /\ mine' = NoReport
<1>1. /\ at'[c] = how /\ how \notin Asked \union {"turn"} /\ line' = Tail(line) /\ mine' = NoReport
      /\ \A d \in Calls \ {c} : at'[d] = at[d]
  BY DEF EngineTypes, Ends, Goes, Asked, LetGo, Over
<1>2. /\ Len(line) \in Nat \ {0} /\ \A i \in 1..Len(line) : line[i] \in Calls
      /\ Len(line') = Len(line) - 1 /\ \A i \in 1..(Len(line) - 1) : line'[i] = line[i + 1]
      /\ line' \in Seq(Calls)
  BY <1>1, InLine, ElementOfSeq, Taken DEF EngineTypes
<1>3. \A i \in 1..Len(line) : line[i] = c <=> i = 1
  BY <1>2 DEF LineRight
<1>4. \A i \in 1..Len(line') : at'[line'[i]] = "turn"
  BY <1>1, <1>2, <1>3 DEF LineRight
<1>5. \A i, j \in 1..Len(line') : line'[i] = line'[j] => i = j
  <2> TAKE i, j \in 1..Len(line')
  <2>1. i + 1 \in 1..Len(line) /\ j + 1 \in 1..Len(line) /\ line'[i] = line[i + 1] /\ line'[j] = line[j + 1]
    BY <1>2
  <2> QED
    BY <2>1, <1>2 DEF LineRight
<1>6. \A d \in Calls : at'[d] \in {"turn"} \union Asked => \E i \in 1..Len(line') : line'[i] = d
  <2> SUFFICES ASSUME NEW d \in Calls, at'[d] \in {"turn"} \union Asked
               PROVE  \E i \in 1..Len(line') : line'[i] = d
    OBVIOUS
  <2>1. d # c /\ at[d] \in {"turn"} \union Asked
    BY <1>1
  <2>2. PICK i \in 1..Len(line) : line[i] = d
    BY <2>1 DEF LineRight
  <2>3. i - 1 \in 1..Len(line') /\ line'[i - 1] = line[i]
    BY <1>2, <1>3, <2>1, <2>2
  <2> QED
    BY <2>2, <2>3
<1>7. line' # <<>> => 1 \in 1..Len(line')
  BY <1>2, EmptySeq
<1> QED
  BY <1>1, <1>4, <1>5, <1>6, <1>7 DEF LineRight

\* The steps of a generator keep the line.
LEMMA GeneratorLine ==
  ASSUME EngineTypes, LineRight, NEW c \in Calls, GeneratorStep(c)
  PROVE  LineRight'
<1>1. /\ at[c] \in Asked => line # <<>> /\ line[1] = c
      /\ at[c] = "turn" => line # <<>>
      /\ line # <<>> => Head(line) = line[1]
  BY InLine
<1>2. CASE Begin(c)
  <2>1. Goes(c, "reading") /\ line # <<>> /\ line[1] = c /\ UNCHANGED <<line, mine>>
    BY <1>1, <1>2 DEF Begin
  <2> QED
    BY <2>1, LineMoves DEF Asked
<1>3. CASE ReadPiece(c) \/ ReadTail(c)
  <2>1. at[c] \in Asked /\ (Goes(c, "yielded") \/ Goes(c, "tail_yielded")) /\ UNCHANGED <<line, mine>>
    <3>1. CASE ReadPiece(c)
      BY <3>1 DEF ReadPiece, Yield, Asked
    <3>2. CASE ReadTail(c)
      BY <3>2 DEF ReadTail, Yield, Asked
    <3> QED
      BY <1>3, <3>1, <3>2
  <2> QED
    BY <1>1, <2>1, LineMoves DEF Asked
<1>4. ASSUME ReportSeen(c), Goes(c, "tail") \/ Goes(c, "reported"), UNCHANGED <<line, mine>>
      PROVE  LineRight'
  <2>1. line # <<>> /\ line[1] = c
    BY <1>1, <1>4 DEF ReportSeen, Asked
  <2> QED
    BY <1>4, <2>1, LineMoves DEF Asked
<1>5. CASE \E how \in LetGo \union Over : Ends(c, how) /\ line # <<>> /\ line[1] = c
  BY <1>5, LineEnds
<1>6. CASE \/ BeginFails(c) \/ ReadEnds(c) \/ ReadTimesOut(c) \/ TailEnds(c) \/ TailTimesOut(c) \/ Finalize(c)
  BY <1>1, <1>5, <1>6
  DEF BeginFails, ReadEnds, ReadTimesOut, TailEnds, TailTimesOut, Finalize, Asked, LetGo, Over
<1>7. CASE ReportSeen(c)
  BY <1>1, <1>4, <1>5, <1>7 DEF ReportSeen, ReportRead, Asked, Over
<1> QED
  BY <1>2, <1>3, <1>6, <1>7 DEF GeneratorStep

\* The steps of a generator's consumer keep the line.
LEMMA ConsumerLine ==
  ASSUME EngineTypes, LineRight, NEW c \in Calls, ConsumerStep(c)
  PROVE  LineRight'
<1>0. /\ Len(line) \in Nat /\ (line # <<>> => 1 \in 1..Len(line)) /\ (line = <<>> => Len(line) = 0)
      /\ \A i \in 1..Len(line) : line[i] \in Calls
  BY EmptySeq, ElementOfSeq DEF EngineTypes
<1>1. at[c] = "idle" => \A i \in 1..Len(line) : line[i] # c
  BY DEF LineRight, Asked, LetGo
<1>2. CASE Call(c)
  <2>1. /\ at'[c] = "turn" /\ \A d \in Calls \ {c} : at'[d] = at[d]
        /\ line' = Append(line, c) /\ mine' = mine /\ at[c] = "idle"
    BY <1>2 DEF Call, Goes, EngineTypes
  <2>2. /\ Len(line') = Len(line) + 1 /\ line'[Len(line) + 1] = c
        /\ \A i \in 1..Len(line) : line'[i] = line[i]
    BY <2>1, AppendProperties DEF EngineTypes
  <2>3. mine # NoReport => line' # <<>> /\ at'[line'[1]] # "turn"
    <3>1. mine # NoReport => 1 \in 1..Len(line) /\ at[line[1]] # "turn"
      BY <1>0 DEF LineRight
    <3>2. line' # <<>>
      BY <2>2, <1>0, EmptySeq
    <3>3. mine # NoReport => line[1] \in Calls \ {c} /\ line'[1] = line[1]
      BY <3>1, <2>1, <2>2, <1>0, <1>1
    <3> QED
      BY <3>1, <3>2, <3>3, <2>1
  <2>4. \A i \in 1..Len(line') : i = Len(line) + 1 \/ i \in 1..Len(line)
    BY <2>2, <1>0
  <2>5. \A i, j \in 1..Len(line') : line'[i] = line'[j] => i = j
    BY <2>2, <2>4, <2>1, <1>1 DEF LineRight
  <2>6. \A i \in 1..Len(line') : (i > 1 => at'[line'[i]] = "turn") /\ at'[line'[i]] \in {"turn"} \union Asked \union LetGo
    BY <2>1, <2>2, <2>4, <1>0, <1>1 DEF LineRight
  <2>7. \A d \in Calls : at'[d] \in {"turn"} \union Asked => \E i \in 1..Len(line') : line'[i] = d
    <3> SUFFICES ASSUME NEW d \in Calls, at'[d] \in {"turn"} \union Asked
                 PROVE  \E i \in 1..Len(line') : line'[i] = d
      OBVIOUS
    <3>1. CASE d = c
      <4>1. Len(line) + 1 \in 1..Len(line')
        BY <2>2, <1>0
      <4> QED
        BY <3>1, <4>1, <2>2
    <3>2. CASE d # c
      <4>1. PICK i \in 1..Len(line) : line[i] = d
        BY <3>2, <2>1 DEF LineRight
      <4> QED
        BY <4>1, <2>2, <1>0
    <3> QED
      BY <3>1, <3>2
  <2> QED
    BY <2>1, <2>3, <2>5, <2>6, <2>7 DEF LineRight
<1>3. CASE CallRefused(c)
  <2>1. /\ at'[c] = "unavailable" /\ at[c] = "idle"
        /\ \A d \in Calls \ {c} : at'[d] = at[d]
        /\ UNCHANGED <<line, mine>>
    BY <1>3 DEF CallRefused, Goes, EngineTypes
  <2>2. "unavailable" \notin {"turn"} \union Asked
    BY DEF Asked
  <2>3. \A i \in 1..Len(line) : line[i] \in Calls \ {c} /\ at'[line[i]] = at[line[i]]
    <3>1. \A i \in 1..Len(line) : line[i] \in Calls \ {c}
      BY <2>1, <1>0, <1>1
    <3> QED
      BY <2>1, <3>1
  <2>4. \A d \in Calls : at'[d] \in {"turn"} \union Asked => d # c
    BY <2>1, <2>2
  <2>5. line # <<>> => at'[line[1]] = at[line[1]]
    BY <2>3, <1>0
  <2> QED
    BY <2>1, <2>3, <2>4, <2>5 DEF LineRight
<1>4. CASE Resume(c) \/ Drop(c)
  <2>1. at[c] \in Asked /\ UNCHANGED <<line, mine>>
    BY <1>4 DEF Resume, Drop, Asked
  <2>3. \E where \in Asked \union LetGo : Goes(c, where)
    BY <1>4 DEF Resume, Drop, Asked, LetGo
  <2> QED
    BY <2>1, <2>3, InLine, LineMoves
<1> QED
  BY <1>2, <1>3, <1>4 DEF ConsumerStep

\* Every step of the engine keeps the line.
LEMMA LineStep ==
  ASSUME EngineTypes, LineRight, EngineNext
  PROVE  LineRight'
<1>1. CASE ReportArrives
  BY <1>1, PutReportLine DEF ReportArrives
<1>2. CASE ExitNoticed
  BY <1>2, PutReportLine DEF ExitNoticed
<1>3. CASE TakeLine \/ WritePiece \/ EndUtterance \/ FailUtterance \/ Die \/ AudioArrives
  <2>1. UNCHANGED <<line, at, mine>>
    BY <1>3 DEF TakeLine, WritePiece, EndUtterance, FailUtterance, Die, AudioArrives, clientVars
  <2> QED
    BY <2>1 DEF LineRight
<1> QED
  BY <1>1, <1>2, <1>3, GeneratorLine, ConsumerLine DEF EngineNext, ProcessStep

-----------------------------------------------------------------------------
(* The engine: what a generator has yielded of its report. *)

\* How far a generator at a place is with a report, having yielded n pieces.
Reached(where, report, n) ==
  /\ where = "tail" => report.ok /\ n < report.pieces
  /\ where = "tail_yielded" => report.ok /\ n <= report.pieces
  /\ where = "reported" => report.ok /\ n = report.pieces
  /\ where \notin {"idle", "turn"}

\* Only one generator at a time is past waiting for its turn.
LEMMA OnlyHolder ==
  ASSUME EngineTypes, LineRight, NEW c \in Calls, line # <<>>, line[1] = c
  PROVE  \A d \in Calls \ {c} : at[d] \notin Asked
  BY InLine

\* The holder goes on, with what it yields.
LEMMA ReportMoves ==
  ASSUME EngineTypes, LineRight, ReportRight, NEW c \in Calls, line # <<>>, line[1] = c,
         NEW where \in Asked \union LetGo \union Over, Goes(c, where),
         \A d \in Calls \ {c} : got'[d] = got[d],
         Reached(where, mine', Len(got'[c]))
  PROVE  ReportRight'
<1>1. /\ at'[c] = where
      /\ \A d \in Calls \ {c} : at'[d] = at[d] /\ at[d] \notin {"tail", "tail_yielded", "reported"}
  BY OnlyHolder DEF EngineTypes, Goes, Asked
<1> QED
  BY <1>1 DEF ReportRight, Reached

\* A report comes to a holder that has none.
LEMMA PutReportReport ==
  ASSUME EngineTypes, LineRight, ReportRight, NEW r, PutReport(r), UNCHANGED <<line, at, got>>
  PROVE  ReportRight'
<1>1. ~NoReport.ok
  BY DEF NoReport, Report
<1>2. CASE mine' = mine
  BY <1>2 DEF ReportRight
<1>3. CASE mine = NoReport
  <2>1. \A c \in Calls : at[c] \notin {"tail", "tail_yielded", "reported"}
    BY <1>1, <1>3 DEF ReportRight
  <2> QED
    BY <2>1 DEF ReportRight
<1> QED
  BY <1>2, <1>3 DEF PutReport, Listening

\* The steps of a generator keep its count.
LEMMA GeneratorReport ==
  ASSUME EngineTypes, LineRight, ReportRight, NEW c \in Calls, GeneratorStep(c)
  PROVE  ReportRight'
<1>1. /\ at[c] \in Asked => line # <<>> /\ line[1] = c
      /\ at[c] = "turn" => line # <<>>
      /\ line # <<>> => Head(line) = line[1]
  BY InLine
<1>2. CASE Begin(c)
  <2>1. Goes(c, "reading") /\ line # <<>> /\ line[1] = c /\ UNCHANGED <<got, mine>>
    BY <1>1, <1>2 DEF Begin
  <2> QED
    BY <2>1, ReportMoves DEF Asked, Reached
<1>3. CASE ReadPiece(c) \/ ReadTail(c)
  <2>1. /\ at[c] \in {"reading", "tail"} /\ UNCHANGED mine /\ arrived # <<>>
        /\ at[c] = "reading" => Goes(c, "yielded")
        /\ at[c] = "tail" => Goes(c, "tail_yielded")
        /\ got' = [got EXCEPT ![c] = Append(@, Head(arrived))]
    BY <1>3 DEF ReadPiece, ReadTail, Yield
  <2>2. \A d \in Calls \ {c} : got'[d] = got[d]
    BY <2>1 DEF EngineTypes
  <2>3. Len(got'[c]) = Len(got[c]) + 1 /\ Len(got[c]) \in Nat /\ mine.pieces \in Nat
    BY <2>1, Taken, AppendProperties DEF EngineTypes, ReportSet
  <2>4. at[c] = "tail" => Reached("tail_yielded", mine', Len(got'[c]))
    BY <2>1, <2>3 DEF ReportRight, Reached
  <2>5. Reached("yielded", mine', Len(got'[c]))
    BY DEF Reached
  <2>6. line # <<>> /\ line[1] = c
    BY <2>1, <1>1 DEF Asked
  <2>7. CASE at[c] = "reading"
    BY <2>1, <2>2, <2>5, <2>6, <2>7, ReportMoves DEF Asked
  <2>8. CASE at[c] = "tail"
    BY <2>1, <2>2, <2>4, <2>6, <2>8, ReportMoves DEF Asked
  <2> QED
    BY <2>1, <2>7, <2>8
<1>4. ASSUME NEW how \in LetGo \union Over, Ends(c, how), line # <<>>, line[1] = c, UNCHANGED got
      PROVE  ReportRight'
  BY <1>4, ReportMoves DEF Ends, Reached, LetGo, Over
<1>5. CASE \/ BeginFails(c) \/ ReadEnds(c) \/ ReadTimesOut(c) \/ TailEnds(c) \/ TailTimesOut(c) \/ Finalize(c)
  BY <1>1, <1>4, <1>5
  DEF BeginFails, ReadEnds, ReadTimesOut, TailEnds, TailTimesOut, Finalize, Asked, LetGo, Over
<1>6. CASE ReportSeen(c)
  <2>1. line # <<>> /\ line[1] = c /\ UNCHANGED got
    BY <1>1, <1>6 DEF ReportSeen, Asked
  <2>2. CASE Ends(c, "failed") \/ Ends(c, "broken") \/ Ends(c, "unavailable")
    BY <2>1, <2>2, <1>4 DEF Over
  <2>3. CASE Goes(c, "tail") /\ mine.ok /\ Len(got[c]) < mine.pieces /\ UNCHANGED mine
    BY <2>1, <2>3, ReportMoves DEF Reached, Asked
  <2>4. CASE Goes(c, "reported") /\ mine.ok /\ Len(got[c]) = mine.pieces /\ UNCHANGED mine
    BY <2>1, <2>4, ReportMoves DEF Reached, Asked
  <2> QED
    BY <1>6, <2>2, <2>3, <2>4 DEF ReportSeen, ReportRead
<1> QED
  BY <1>2, <1>3, <1>5, <1>6 DEF GeneratorStep

\* The steps of its consumer keep its count.
LEMMA ConsumerReport ==
  ASSUME EngineTypes, LineRight, ReportRight, NEW c \in Calls, ConsumerStep(c)
  PROVE  ReportRight'
<1>1. CASE Call(c) \/ CallRefused(c)
  <2>1. /\ at'[c] \in {"turn", "unavailable"} /\ at[c] = "idle" /\ UNCHANGED <<mine, got>>
        /\ \A d \in Calls \ {c} : at'[d] = at[d]
    BY <1>1 DEF Call, CallRefused, Goes, EngineTypes
  <2> QED
    BY <2>1 DEF ReportRight
<1>2. CASE Resume(c) \/ Drop(c)
  <2>1. at[c] \in Asked /\ UNCHANGED <<line, mine, got>>
    BY <1>2 DEF Resume, Drop, Asked
  <2>2. \E where \in Asked \union LetGo : Goes(c, where) /\ Reached(where, mine, Len(got[c]))
    BY <1>2 DEF Resume, Drop, Asked, LetGo, Reached, ReportRight
  <2> QED
    BY <2>1, <2>2, InLine, ReportMoves
<1> QED
  BY <1>1, <1>2 DEF ConsumerStep

\* Every step of the engine keeps the counts.
LEMMA ReportStep ==
  ASSUME EngineTypes, LineRight, ReportRight, EngineNext
  PROVE  ReportRight'
<1>1. CASE ReportArrives
  BY <1>1, PutReportReport DEF ReportArrives
<1>2. CASE ExitNoticed
  BY <1>2, PutReportReport DEF ExitNoticed
<1>3. CASE TakeLine \/ WritePiece \/ EndUtterance \/ FailUtterance \/ Die \/ AudioArrives
  <2>1. UNCHANGED <<at, mine, got>>
    BY <1>3 DEF TakeLine, WritePiece, EndUtterance, FailUtterance, Die, AudioArrives, clientVars
  <2> QED
    BY <2>1 DEF ReportRight
<1> QED
  BY <1>1, <1>2, <1>3, GeneratorReport, ConsumerReport DEF EngineNext, ProcessStep

-----------------------------------------------------------------------------
(* The engine: requests kept apart by counting. *)

\* A call that is given up stays so.
LEMMA GivenUpStays ==
  ASSUME EngineTypes, LineRight, EngineNext, NEW c \in Calls, GivenUp(c)
  PROVE  GivenUp(c)'
<1>1. faults' = faults /\ at[c] \in {"dropped"} \union Over
  BY DEF EngineNext, GivenUp, Over
<1>2. SUFFICES at'[c] = at[c]
  BY <1>1, <1>2 DEF GivenUp
<1>3. CASE ProcessStep
  BY <1>3 DEF ProcessStep, TakeLine, WritePiece, EndUtterance, FailUtterance, Die, AudioArrives,
              ReportArrives, ExitNoticed, clientVars
<1>4. ASSUME NEW d \in Calls, GeneratorStep(d) \/ ConsumerStep(d) PROVE at'[c] = at[c]
  <2>1. CASE d # c
    <3>1. \E where : Goes(d, where)
      BY <1>4 DEF GeneratorStep, ConsumerStep, Begin, BeginFails, ReadPiece, ReadEnds, ReadTimesOut, ReportSeen,
                  ReportRead, ReadTail, TailEnds, TailTimesOut, Finalize, Call, CallRefused, Resume, Drop, Yield, Ends
    <3> QED
      BY <2>1, <3>1 DEF Goes, EngineTypes
  <2>2. CASE d = c
    <3>1. Finalize(c) /\ Ends(c, at[c])
      BY <1>1, <1>4, <2>2
      DEF GeneratorStep, ConsumerStep, Begin, BeginFails, ReadPiece, ReadEnds, ReadTimesOut, ReportSeen,
          ReadTail, TailEnds, TailTimesOut, Finalize, Call, CallRefused, Resume, Drop, Over
    <3> QED
      BY <3>1 DEF Ends, Goes, EngineTypes
  <2> QED
    BY <2>1, <2>2
<1> QED
  BY <1>3, <1>4 DEF EngineNext

\* Sizes and members, for the arithmetic.
LEMMA Sizes ==
  ASSUME EngineTypes
  PROVE  /\ Len(arrived) \in Nat /\ Len(pipe) \in Nat /\ Len(stderr) \in Nat
         /\ \A c \in Calls : Len(got[c]) \in Nat
         /\ arrived = <<>> <=> Len(arrived) = 0
         /\ pipe = <<>> <=> Len(pipe) = 0
         /\ stderr = <<>> <=> Len(stderr) = 0
         /\ \A i \in 1..Len(stderr) : stderr[i] \in Said
         /\ line # <<>> => line[1] \in Calls
<1>1. line # <<>> => 1 \in 1..Len(line)
  BY EmptySeq DEF EngineTypes
<1> QED
  BY <1>1, EmptySeq, ElementOfSeq DEF EngineTypes

\* A report is to count one piece more: the one just written.
LEMMA OneMore == \A a, b, c \in Nat : a + b + (c + 1) = (a + b + c) + 1
  OBVIOUS

\* A piece that was waited for has arrived.
LEMMA OneMoreArrived == \A a, b \in Nat : a + b + 1 = a + (b + 1)
  OBVIOUS

\* The next piece of those that are to come has arrived.
LEMMA NextArrived == \A a, b, i \in Nat : a + b + (i + 1) = a + (b + 1) + i
  OBVIOUS

\* A piece leaves the pipe and arrives: the sum stays.
LEMMA OneArrives == \A a, b \in Nat, c \in Nat \ {0} : a + (b + 1) + (c - 1) = a + b + c
  OBVIOUS

\* A piece that arrived is yielded: the sum stays.
LEMMA OneYielded == \A a, c \in Nat, b \in Nat \ {0} : (a + 1) + (b - 1) + c = a + b + c
  OBVIOUS

\* The process takes a line and writes its audio in order.
LEMMA SpeakKept ==
  ASSUME EngineTypes, LineRight, Apart, UNCHANGED faults, TakeLine \/ WritePiece \/ EndUtterance \/ FailUtterance \/ Die
  PROVE  Apart'
<1>1. UNCHANGED <<line, at, got, mine, arrived>>
  BY DEF TakeLine, WritePiece, EndUtterance, FailUtterance, Die, clientVars
<1>2. Served' = Served /\ Holder' = Holder
  BY <1>1 DEF Served, Holder
<1>3. /\ Len(arrived) \in Nat /\ Len(pipe) \in Nat /\ Len(stderr) \in Nat
      /\ Served => Holder \in Calls /\ Len(got[Holder]) \in Nat
      /\ stderr = <<>> <=> Len(stderr) = 0
  BY Sizes DEF Served, Holder
<1>4. CASE TakeLine
  <2>1. /\ engine = "up" /\ engine' = "up" /\ speaking = None /\ stdin # <<>>
        /\ speaking' = Head(stdin) /\ stdin' = Tail(stdin) /\ written' = 0
        /\ UNCHANGED <<pipe, stderr>>
    BY <1>4 DEF TakeLine
  <2>2. Served /\ stdin = <<Holder>> /\ stderr = <<>> /\ mine = NoReport /\ Total = 0
    BY <2>1, Taken, EngineAssumption DEF Apart, Progress, Quiet, EngineTypes
  <2>3. stdin' = <<>> /\ speaking' = Holder
    BY <2>1, <2>2, <1>3
  <2>4. Progress'
    BY <2>1, <2>2, <2>3, <1>1, <1>2 DEF Progress, Total
  <2>5. AudioInOrder' /\ ReportsFit'
    BY <2>1, <1>1, <1>2 DEF Apart, AudioInOrder, ReportsFit, Fit, Total
  <2> QED
    BY <2>1, <2>4, <2>5, <1>1, <1>2 DEF Apart
<1>5. CASE WritePiece
  <2>1. /\ engine = "up" /\ speaking # None
        /\ pipe' = Append(pipe, Piece(speaking, written + 1)) /\ written' = written + 1
        /\ UNCHANGED <<engine, stdin, speaking, stderr>>
    BY <1>5 DEF WritePiece
  <2>2. /\ Served /\ stdin = <<>> /\ speaking = Holder /\ stderr = <<>> /\ mine = NoReport /\ Total = written
    BY <2>1, EngineAssumption, <1>3 DEF Apart, Progress, Quiet
  <2>3. /\ Len(pipe') = Len(pipe) + 1 /\ pipe'[Len(pipe) + 1] = Piece(Holder, Total + 1)
        /\ \A i \in 1..Len(pipe) : pipe'[i] = pipe[i]
    <3>1. Piece(speaking, written + 1) \in Pieces
      BY <2>2, <1>3, Records DEF EngineTypes
    <3> QED
      BY <2>1, <2>2, <3>1, AppendProperties DEF EngineTypes
  <2>4. Total' = Total + 1
    <3>1. Total' = Len(got[Holder]) + Len(arrived) + (Len(pipe) + 1)
      BY <2>3, <1>1, <1>2 DEF Total
    <3>2. Len(got[Holder]) \in Nat
      BY <1>3, <2>2
    <3>3. Total = Len(got[Holder]) + Len(arrived) + Len(pipe)
      BY DEF Total
    <3>4. Len(arrived) \in Nat /\ Len(pipe) \in Nat
      BY <1>3
    <3> QED
      BY <3>1, <3>2, <3>3, <3>4, OneMore
  <2>5. Progress'
    BY <2>1, <2>2, <2>4, <1>1, <1>2 DEF Progress
  <2>6. AudioInOrder'
    <3>0. Total = Len(got[Holder]) + Len(arrived) + Len(pipe)
      BY DEF Total
    <3>4. Len(got[Holder]) \in Nat /\ Len(arrived) \in Nat /\ Len(pipe) \in Nat
      BY <1>3, <2>2
    <3>5. Total + 1 = Len(got[Holder]) + Len(arrived) + (Len(pipe) + 1)
      BY <3>0, <3>4, OneMore
    <3>1. pipe'[Len(pipe) + 1] = Piece(Holder, Len(got[Holder]) + Len(arrived) + (Len(pipe) + 1))
      BY <2>3, <3>5
    <3>2. \A i \in 1..Len(pipe') : i \in 1..Len(pipe) \/ i = Len(pipe) + 1
      BY <2>3, <1>3
    <3>3. \A i \in 1..Len(pipe') : pipe'[i] = Piece(Holder, Len(got[Holder]) + Len(arrived) + i)
      BY <3>1, <3>2, <2>2, <2>3 DEF Apart, AudioInOrder
    <3> QED
      BY <3>3, <2>2, <1>1, <1>2 DEF Apart, AudioInOrder
  <2>7. ReportsFit'
    BY <2>1, <2>2, <1>1, <1>3 DEF ReportsFit, Fit, NoReport, Report
  <2>8. at[Holder] \notin {"reported", "done"}
    BY <2>2 DEF Apart
  <2> QED
    BY <2>5, <2>6, <2>7, <2>8, <1>1, <1>2 DEF Apart
<1>6. CASE EndUtterance \/ FailUtterance
  <2>1. /\ engine = "up" /\ speaking # None /\ speaking' = None
        /\ \/ written > 0 /\ stderr' = Append(stderr, Report(speaking, TRUE, written))
           \/ stderr' = Append(stderr, Report(speaking, FALSE, 0))
        /\ UNCHANGED <<engine, stdin, pipe>>
    BY <1>6 DEF EndUtterance, FailUtterance
  <2>2. /\ Served /\ stdin = <<>> /\ speaking = Holder /\ stderr = <<>> /\ mine = NoReport /\ Total = written
    BY <2>1, EngineAssumption, <1>3 DEF Apart, Progress, Quiet
  <2>3. \/ written > 0 /\ stderr' = <<Report(Holder, TRUE, Total)>>
        \/ stderr' = <<Report(Holder, FALSE, 0)>>
    <3>1. \A r : Append(<<>>, r) = <<r>>
      OBVIOUS
    <3> QED
      BY <2>1, <2>2, <3>1
  <2>4. Total' = Total
    BY <2>1, <1>1, <1>2 DEF Total
  <2>5. Progress'
    BY <2>1, <2>2, <2>3, <1>1, <1>2 DEF Progress
  <2>6. AudioInOrder'
    BY <2>1, <1>1, <1>2 DEF Apart, AudioInOrder
  <2>7. ReportsFit'
    BY <2>2, <2>3, <2>4, <1>1, <1>2 DEF ReportsFit, Fit, NoReport, Report
  <2> QED
    BY <2>1, <2>5, <2>6, <2>7, <1>1, <1>2 DEF Apart
<1>7. CASE Die
  <2>1. engine' = "dead" /\ UNCHANGED <<stdin, speaking, written, pipe, stderr>>
    BY <1>7 DEF Die
  <2>2. AudioInOrder' /\ ReportsFit' /\ Progress'
    BY <2>1, <1>1, <1>2 DEF Apart, AudioInOrder, ReportsFit, Fit, Total, Progress
  <2> QED
    BY <2>1, <2>2, <1>1, <1>2 DEF Apart
<1> QED
  BY <1>4, <1>5, <1>6, <1>7

\* Audio arrives in the order it was written.
LEMMA ArriveKept ==
  ASSUME EngineTypes, LineRight, Apart, UNCHANGED faults, AudioArrives
  PROVE  Apart'
<1>1. /\ UNCHANGED <<line, at, got, mine, engine, stdin, speaking, written, stderr>>
      /\ pipe # <<>> /\ arrived' = Append(arrived, Head(pipe)) /\ pipe' = Tail(pipe)
  BY DEF AudioArrives, clientVars, processVars
<1>2. Served' = Served /\ Holder' = Holder
  BY <1>1 DEF Served, Holder
<1>3. /\ Len(arrived) \in Nat /\ Len(pipe) \in Nat \ {0} /\ Len(stderr) \in Nat
      /\ Served => Holder \in Calls /\ Len(got[Holder]) \in Nat
  BY Sizes, <1>1 DEF Served, Holder
<1>4. /\ Len(pipe') = Len(pipe) - 1 /\ \A i \in 1..(Len(pipe) - 1) : pipe'[i] = pipe[i + 1]
      /\ Head(pipe) = pipe[1] /\ pipe[1] \in Pieces
  BY <1>1, Taken DEF EngineTypes
<1>5. /\ Len(arrived') = Len(arrived) + 1 /\ arrived'[Len(arrived) + 1] = pipe[1]
      /\ \A i \in 1..Len(arrived) : arrived'[i] = arrived[i]
  BY <1>1, <1>4, AppendProperties DEF EngineTypes
<1>6. Served
  BY <1>1 DEF Apart, AudioInOrder
<1>7. Total' = Total
  <2>1. Total' = Len(got[Holder]) + (Len(arrived) + 1) + (Len(pipe) - 1)
    BY <1>1, <1>2, <1>4, <1>5 DEF Total
  <2>2. Total = Len(got[Holder]) + Len(arrived) + Len(pipe)
    BY DEF Total
  <2>3. Len(got[Holder]) \in Nat /\ Len(arrived) \in Nat /\ Len(pipe) \in Nat \ {0}
    BY <1>3, <1>6
  <2> QED
    BY <2>1, <2>2, <2>3, OneArrives
<1>8. AudioInOrder'
  <2>1. \A i \in 1..Len(arrived') : arrived'[i] = Piece(Holder, Len(got[Holder]) + i)
    <3>1. \A i \in 1..Len(arrived') : i \in 1..Len(arrived) \/ i = Len(arrived) + 1
      BY <1>3, <1>5
    <3>2. pipe[1] = Piece(Holder, Len(got[Holder]) + Len(arrived) + 1)
      BY <1>3, <1>6 DEF Apart, AudioInOrder
    <3>5. Len(got[Holder]) \in Nat /\ Len(arrived) \in Nat
      BY <1>3, <1>6
    <3>3. Len(got[Holder]) + Len(arrived) + 1 = Len(got[Holder]) + (Len(arrived) + 1)
      BY <3>5, OneMoreArrived
    <3>4. \A i \in 1..Len(arrived) : arrived'[i] = Piece(Holder, Len(got[Holder]) + i)
      BY <1>5, <1>6 DEF Apart, AudioInOrder
    <3> QED
      BY <3>1, <3>2, <3>3, <3>4, <1>5
  <2>2. \A i \in 1..Len(pipe') : pipe'[i] = Piece(Holder, Len(got[Holder]) + Len(arrived') + i)
    <3> TAKE i \in 1..Len(pipe')
    <3>1. i + 1 \in 1..Len(pipe) /\ pipe'[i] = pipe[i + 1]
      BY <1>3, <1>4
    <3>2. pipe[i + 1] = Piece(Holder, Len(got[Holder]) + Len(arrived) + (i + 1))
      BY <3>1, <1>6 DEF Apart, AudioInOrder
    <3>3. Len(got[Holder]) + Len(arrived) + (i + 1) = Len(got[Holder]) + Len(arrived') + i
      <4>1. i \in Nat /\ Len(got[Holder]) \in Nat /\ Len(arrived) \in Nat
        BY <1>3, <1>4, <1>6
      <4>2. Len(got[Holder]) + Len(arrived) + (i + 1) = Len(got[Holder]) + (Len(arrived) + 1) + i
        BY <4>1, NextArrived
      <4> QED
        BY <4>2, <1>5
    <3> QED
      BY <3>1, <3>2, <3>3
  <2> QED
    BY <2>1, <2>2, <1>1, <1>2, <1>6 DEF Apart, AudioInOrder
<1>9. ReportsFit' /\ Progress'
  BY <1>1, <1>2, <1>7 DEF Apart, ReportsFit, Fit, Progress, Quiet
<1>10. at[Holder] \notin {"reported", "done"}
  BY <1>1, <1>6 DEF Apart
<1> QED
  BY <1>1, <1>2, <1>8, <1>9, <1>10 DEF Apart

\* A report reaches its holder, or its exit does.
LEMMA ReportKept ==
  ASSUME EngineTypes, LineRight, Apart, UNCHANGED faults, ReportArrives \/ ExitNoticed
  PROVE  Apart'
<1>1. UNCHANGED <<line, at, got, stdin, speaking, written, pipe, arrived>>
  BY DEF ReportArrives, ExitNoticed, processVars
<1>2. Served' = Served /\ Holder' = Holder /\ Total' = Total /\ AudioInOrder' = AudioInOrder
  BY <1>1 DEF Served, Holder, Total, AudioInOrder
<1>3. /\ Len(stderr) \in Nat /\ (stderr = <<>> <=> Len(stderr) = 0)
      /\ \A i \in 1..Len(stderr) : stderr[i] \in Said
  BY Sizes
<1>4. Listening => Served /\ mine = NoReport
  BY InLine DEF Listening, Served
<1>5. Served /\ mine = NoReport => Listening
  BY InLine DEF Listening, Served
<1>6. CASE ReportArrives
  <2>1. /\ stderr # <<>> /\ UNCHANGED engine
        /\ \/ Listening /\ mine' = Head(stderr)
           \/ ~Listening /\ UNCHANGED mine
        /\ stderr' = Tail(stderr)
    BY <1>6 DEF ReportArrives, PutReport, processVars
  <2>2. /\ Head(stderr) = stderr[1] /\ stderr[1] # NoReport
        /\ Len(stderr') = Len(stderr) - 1 /\ \A i \in 1..(Len(stderr) - 1) : stderr'[i] = stderr[i + 1]
        /\ stderr' \in Seq(Said)
    BY <2>1, Taken, Records DEF EngineTypes
  <2>3. ReportsFit'
    <3>1. \A r : Fit(r) => (r.ok => r.pieces > 0 /\ (Served' /\ Total' > 0 => r.of = Holder' /\ r.pieces = Total'))
      BY <1>2 DEF Fit
    <3>2. Fit(mine') => Fit(mine)'
      BY <3>1 DEF Fit
    <3>3. Fit(mine')
      BY <2>1, <2>2, <1>3 DEF Apart, ReportsFit
    <3>4. \A i \in 1..Len(stderr') : Fit(stderr'[i])
      <4> TAKE i \in 1..Len(stderr')
      <4>1. i + 1 \in 1..Len(stderr) /\ stderr'[i] = stderr[i + 1]
        BY <2>2, <1>3
      <4> QED
        BY <4>1 DEF Apart, ReportsFit
    <3> QED
      BY <3>1, <3>2, <3>3, <3>4 DEF ReportsFit, Fit
  <2>4. Progress'
    <3> SUFFICES ASSUME engine = "up" PROVE Progress'
      BY <2>1 DEF Progress
    <3>1. Served /\ stdin = <<>> /\ speaking = None /\ Len(stderr) = 1 /\ mine = NoReport
      BY <2>1, <1>3 DEF Apart, Progress, Quiet
    <3>2. stderr' = <<>> /\ mine' # NoReport
      BY <3>1, <2>1, <2>2, <1>5, EmptySeq
    <3> QED
      BY <3>1, <3>2, <1>1, <1>2 DEF Progress, Quiet
  <2> QED
    BY <2>1, <2>3, <2>4, <1>1, <1>2, <1>4 DEF Apart
<1>7. CASE ExitNoticed
  <2>1. /\ engine' = "reaped" /\ stderr = <<>> /\ stderr' = <<>>
        /\ \/ Listening /\ mine' = [of |-> None, ok |-> FALSE, pieces |-> 1]
           \/ ~Listening /\ UNCHANGED mine
    BY <1>7 DEF ExitNoticed, PutReport
  <2>2. ReportsFit' /\ Progress'
    BY <2>1, <1>2 DEF Apart, ReportsFit, Fit, Progress
  <2> QED
    BY <2>1, <2>2, <1>1, <1>2, <1>4 DEF Apart
<1> QED
  BY <1>6, <1>7

\* The holder leaves when all is said and heard.
LEMMA LeaveKept ==
  ASSUME EngineTypes, LineRight, Apart, NEW c \in Calls, line # <<>>, line[1] = c,
         NEW how \in LetGo \union Over, Ends(c, how),
         arrived = <<>>, pipe = <<>>, engine = "up" => Quiet,
         UNCHANGED <<engine, stdin, speaking, written, pipe, arrived, stderr, got>>
  PROVE  Apart'
<1>1. ~Served' /\ mine' = NoReport
  BY LineEnds DEF Served
<1>2. AudioInOrder'
  BY <1>1 DEF Apart, AudioInOrder
<1>3. ReportsFit'
  BY <1>1 DEF Apart, ReportsFit, Fit, NoReport, Report
<1>4. Progress'
  BY <1>1 DEF Progress, Quiet
<1> QED
  BY <1>1, <1>2, <1>3, <1>4 DEF Apart

\* The next in line finds nothing of the ones before.
LEMMA BeginKept ==
  ASSUME EngineTypes, LineRight, ReportRight, Apart, NEW c \in Calls, Begin(c)
  PROVE  Apart'
<1>1. /\ at[c] = "turn" /\ line # <<>> /\ Holder = c /\ stdin' = Append(stdin, c)
      /\ UNCHANGED <<engine, speaking, written, pipe, arrived, stderr, line, mine, got>>
  BY InLine DEF Begin, Holder
<1>2. at'[c] = "reading" /\ \A d \in Calls \ {c} : at'[d] = at[d]
  BY DEF Begin, Goes, EngineTypes
<1>3. ~Served /\ arrived = <<>> /\ pipe = <<>> /\ mine = NoReport /\ got[c] = <<>>
  BY <1>1 DEF Served, Holder, Apart, AudioInOrder, LineRight, ReportRight
<1>4. Served' /\ Holder' = c
  BY <1>1, <1>2 DEF Served, Holder
<1>5. Total' = 0
  BY <1>1, <1>3, <1>4, EmptySeq DEF Total
<1>6. AudioInOrder'
  <2>1. Len(arrived') = 0 /\ Len(pipe') = 0
    BY <1>1, <1>3, EmptySeq
  <2> QED
    BY <1>1, <1>4, <2>1 DEF Apart, AudioInOrder
<1>7. ReportsFit'
  BY <1>1, <1>5 DEF Apart, ReportsFit, Fit
<1>8. Progress'
  <2> SUFFICES ASSUME engine = "up" PROVE Progress'
    BY <1>1 DEF Progress
  <2>1. stdin = <<>> /\ speaking = None /\ stderr = <<>>
    BY <1>3 DEF Apart, Progress, Quiet
  <2>2. stdin' = <<c>>
    BY <1>1, <2>1
  <2> QED
    BY <1>1, <1>3, <1>4, <1>5, <2>1, <2>2 DEF Progress
<1> QED
  BY <1>2, <1>4, <1>6, <1>7, <1>8 DEF Apart

\* What is yielded is the next piece of the holder's own.
LEMMA ReadKept ==
  ASSUME EngineTypes, LineRight, Apart, NEW c \in Calls, ReadPiece(c) \/ ReadTail(c)
  PROVE  Apart'
<1>1. /\ at[c] \in {"reading", "tail"} /\ arrived # <<>> /\ arrived' = Tail(arrived)
      /\ got' = [got EXCEPT ![c] = Append(@, Head(arrived))]
      /\ UNCHANGED <<engine, stdin, speaking, written, pipe, stderr, line, mine>>
  BY DEF ReadPiece, ReadTail, Yield, processVars
<1>2. /\ at'[c] \in {"yielded", "tail_yielded"}
      /\ \A d \in Calls \ {c} : at'[d] = at[d] /\ got'[d] = got[d]
  BY DEF ReadPiece, ReadTail, Yield, Goes, EngineTypes
<1>3. line # <<>> /\ Holder = c /\ Served
  BY <1>1, InLine DEF Holder, Served, Asked
<1>4. Served' /\ Holder' = c
  BY <1>1, <1>2, <1>3 DEF Served, Holder
<1>5. /\ Len(got[c]) \in Nat /\ Len(arrived) \in Nat \ {0} /\ Len(pipe) \in Nat
      /\ Len(arrived') = Len(arrived) - 1 /\ \A i \in 1..(Len(arrived) - 1) : arrived'[i] = arrived[i + 1]
      /\ Head(arrived) = arrived[1] /\ arrived[1] \in Pieces
  BY <1>1, Taken, Sizes DEF EngineTypes
<1>6. /\ Len(got'[c]) = Len(got[c]) + 1 /\ got'[c][Len(got[c]) + 1] = arrived[1]
      /\ \A i \in 1..Len(got[c]) : got'[c][i] = got[c][i]
  <2>1. got'[c] = Append(got[c], arrived[1]) /\ got[c] \in Seq(Pieces)
    BY <1>1, <1>5 DEF EngineTypes
  <2> QED
    BY <1>5, <2>1, AppendProperties
<1>7. Total' = Total
  <2>1. Total' = (Len(got[c]) + 1) + (Len(arrived) - 1) + Len(pipe)
    BY <1>1, <1>4, <1>5, <1>6 DEF Total
  <2>2. Total = Len(got[c]) + Len(arrived) + Len(pipe)
    BY <1>3 DEF Total
  <2> QED
    BY <2>1, <2>2, <1>5, OneYielded
<1>8. AudioInOrder'
  <2>1. \A d \in Calls : \A i \in 1..Len(got'[d]) : got'[d][i] = Piece(d, i)
    <3>1. arrived[1] = Piece(c, Len(got[c]) + 1)
      BY <1>3, <1>5 DEF Apart, AudioInOrder
    <3>2. \A i \in 1..Len(got'[c]) : i \in 1..Len(got[c]) \/ i = Len(got[c]) + 1
      BY <1>5, <1>6
    <3>3. \A d \in Calls : \A i \in 1..Len(got[d]) : got[d][i] = Piece(d, i)
      BY DEF Apart, AudioInOrder
    <3>4. \A i \in 1..Len(got'[c]) : got'[c][i] = Piece(c, i)
      BY <1>6, <3>1, <3>2, <3>3
    <3> QED
      BY <1>2, <3>3, <3>4
  <2>2. \A i \in 1..Len(arrived') : arrived'[i] = Piece(c, Len(got'[c]) + i)
    <3> TAKE i \in 1..Len(arrived')
    <3>1. i + 1 \in 1..Len(arrived) /\ arrived'[i] = arrived[i + 1] /\ i \in Nat
      BY <1>5
    <3>2. arrived[i + 1] = Piece(c, Len(got[c]) + (i + 1))
      BY <3>1, <1>3 DEF Apart, AudioInOrder
    <3>3. Len(got[c]) + (i + 1) = Len(got[c]) + 1 + i
      <4>1. \A a, b \in Nat : a + (b + 1) = a + 1 + b
        OBVIOUS
      <4> QED
        BY <3>1, <1>5, <4>1
    <3> QED
      BY <3>1, <3>2, <3>3, <1>6
  <2>3. \A i \in 1..Len(pipe) : pipe[i] = Piece(c, Len(got'[c]) + Len(arrived') + i)
    <3> TAKE i \in 1..Len(pipe)
    <3>1. pipe[i] = Piece(c, Len(got[c]) + Len(arrived) + i)
      BY <1>3 DEF Apart, AudioInOrder
    <3>2. i \in Nat
      OBVIOUS
    <3>3. (Len(got[c]) + 1) + (Len(arrived) - 1) + i = Len(got[c]) + Len(arrived) + i
      BY <3>2, <1>5, OneYielded
    <3> QED
      BY <3>1, <3>3, <1>5, <1>6
  <2> QED
    BY <2>1, <2>2, <2>3, <1>1, <1>4 DEF AudioInOrder
<1>9. ReportsFit' /\ Progress'
  BY <1>1, <1>3, <1>4, <1>7 DEF Apart, ReportsFit, Fit, Progress, Quiet
<1> QED
  BY <1>2, <1>4, <1>8, <1>9 DEF Apart

\* The holder goes on, or the line grows, with everything else as it was.
LEMMA MovesKept ==
  ASSUME EngineTypes, Apart, NEW c \in Calls, NEW where \in Places,
         Goes(c, where), Served' = Served, Served => Holder' = Holder,
         Served /\ Holder = c /\ where \in {"reported", "done"} => arrived = <<>> /\ pipe = <<>> /\ mine # NoReport,
         UNCHANGED <<engine, stdin, speaking, written, pipe, arrived, stderr, mine, got>>
  PROVE  Apart'
<1>1. at'[c] = where /\ \A d \in Calls \ {c} : at'[d] = at[d]
  BY DEF Goes, EngineTypes
<1>2. Served => Total' = Total
  BY DEF Total
<1>3. AudioInOrder'
  BY DEF Apart, AudioInOrder
<1>4. ReportsFit' /\ Progress'
  BY <1>2 DEF Apart, ReportsFit, Fit, Progress, Quiet
<1>5. Served /\ at'[Holder] \in {"reported", "done"} => arrived = <<>> /\ pipe = <<>> /\ mine # NoReport
  <2>1. Served => Holder \in Calls
    BY Sizes DEF Served, Holder
  <2> QED
    BY <1>1, <2>1 DEF Apart
<1> QED
  BY <1>3, <1>4, <1>5 DEF Apart

\* Who has yielded all its report counts has yielded all that was written.
LEMMA AllHeard ==
  ASSUME EngineTypes, Apart, Served, mine.ok, Len(got[Holder]) >= mine.pieces
  PROVE  arrived = <<>> /\ pipe = <<>> /\ mine # NoReport /\ Len(got[Holder]) = mine.pieces
<1>1. /\ Len(got[Holder]) \in Nat /\ Len(arrived) \in Nat /\ Len(pipe) \in Nat /\ mine.pieces \in Nat
      /\ arrived = <<>> <=> Len(arrived) = 0
      /\ pipe = <<>> <=> Len(pipe) = 0
      /\ Total = Len(got[Holder]) + Len(arrived) + Len(pipe)
  BY Sizes DEF Served, Holder, Total, EngineTypes, ReportSet
<1>2. mine.pieces > 0
  BY DEF Apart, ReportsFit, Fit
<1>3. mine.pieces = Total
  BY <1>1, <1>2 DEF Apart, ReportsFit, Fit
<1> QED
  BY <1>1, <1>3 DEF NoReport, Report

\* A report that is looked at is the holder's, and counts what it was given,
\* unless the generator ends with it and leaves audio behind.
LEMMA SeenKept ==
  ASSUME EngineTypes, LineRight, Apart, Kept', UNCHANGED faults, NEW c \in Calls, ReportSeen(c)
  PROVE  Apart'
<1>1. /\ at[c] = "reading" /\ mine # NoReport /\ ReportRead(c)
      /\ UNCHANGED <<engine, stdin, speaking, written, pipe, arrived, stderr, reports, got>>
  BY DEF ReportSeen, processVars
<1>2. line # <<>> /\ line[1] = c /\ Holder = c /\ Served
  BY <1>1, InLine DEF Holder, Served, Asked
<1>3. engine = "up" => Quiet
  BY <1>1, <1>2 DEF Apart, Progress, Quiet
<1>4. CASE Ends(c, "failed") \/ Ends(c, "broken")
  <2>1. at'[c] \in {"failed", "broken"}
    BY <1>4 DEF Ends, Goes, EngineTypes
  <2>2. "report_overtakes" \notin faults
    BY <2>1 DEF Kept, GivenUp
  <2>3. pipe \o arrived = <<>>
    BY <2>2 DEF ReportSeen
  <2>4. pipe = <<>> /\ arrived = <<>>
    BY <2>3, ConcatEqualIffEmpty DEF EngineTypes
  <2> QED
    BY <1>1, <1>2, <1>3, <1>4, <2>4, LeaveKept DEF Over
<1>5. CASE Goes(c, "tail") /\ UNCHANGED <<line, mine>>
  <2>1. Served' = Served /\ Holder' = Holder
    BY <1>2, <1>5 DEF Served, Holder, Goes, EngineTypes
  <2> QED
    BY <2>1, <1>1, <1>5, MovesKept DEF Places, Asked
<1>6. CASE mine.ok /\ Len(got[c]) = mine.pieces /\ Goes(c, "reported") /\ UNCHANGED <<line, mine>>
  <2>1. Served' = Served /\ Holder' = Holder
    BY <1>2, <1>6 DEF Served, Holder, Goes, EngineTypes
  <2>2. arrived = <<>> /\ pipe = <<>>
    <3>1. mine.pieces \in Nat
      BY DEF EngineTypes, ReportSet
    <3> QED
      BY <3>1, <1>2, <1>6, AllHeard
  <2> QED
    BY <2>1, <2>2, <1>1, <1>6, MovesKept DEF Places, Asked
<1>7. CASE mine.ok /\ Len(got[c]) > mine.pieces
  <2>1. Len(got[c]) \in Nat /\ mine.pieces \in Nat
    BY Sizes DEF EngineTypes, ReportSet
  <2> QED
    BY <2>1, <1>2, <1>7, AllHeard
<1> QED
  BY <1>1, <1>4, <1>5, <1>6, <1>7 DEF ReportRead

\* The steps of a generator keep requests apart.
LEMMA GeneratorKept ==
  ASSUME EngineTypes, LineRight, ReportRight, Apart, Kept, Kept', UNCHANGED faults, NEW c \in Calls, GeneratorStep(c)
  PROVE  Apart'
<1>1. /\ at[c] \in Asked => line # <<>> /\ line[1] = c
      /\ at[c] = "turn" => line # <<>>
      /\ line # <<>> => Head(line) = line[1]
  BY InLine
<1>2. CASE BeginFails(c)
  <2>1. /\ at[c] = "turn" /\ line # <<>> /\ line[1] = c /\ engine # "up" /\ Ends(c, "broken")
        /\ UNCHANGED <<engine, stdin, speaking, written, pipe, arrived, stderr, got>>
    BY <1>1, <1>2 DEF BeginFails, processVars
  <2>2. arrived = <<>> /\ pipe = <<>>
    BY <2>1 DEF Apart, AudioInOrder, Served
  <2> QED
    BY <2>1, <2>2, LeaveKept DEF Over
<1>3. CASE ReadEnds(c) \/ TailEnds(c)
  <2>1. /\ line # <<>> /\ line[1] = c /\ engine # "up" /\ Ends(c, "unavailable")
        /\ arrived = <<>> /\ pipe = <<>>
        /\ UNCHANGED <<engine, stdin, speaking, written, pipe, arrived, stderr, got>>
    BY <1>1, <1>3 DEF ReadEnds, TailEnds, AudioEnded, processVars, Asked
  <2> QED
    BY <2>1, LeaveKept DEF Over
<1>4. CASE ReadTimesOut(c) \/ TailTimesOut(c)
  <2>1. "engine_stalls" \in faults' /\ at'[c] \in {"unavailable", "broken"}
    BY <1>4 DEF ReadTimesOut, TailTimesOut, Ends, Goes, EngineTypes
  <2> QED
    BY <2>1 DEF Kept, GivenUp
<1>5. CASE Finalize(c)
  <2>1. /\ line # <<>> /\ line[1] = c /\ at[c] = "done" /\ Ends(c, "done")
        /\ UNCHANGED <<engine, stdin, speaking, written, pipe, arrived, stderr, got>>
    BY <1>1, <1>5 DEF Finalize, Kept, GivenUp, processVars
  <2>2. Served /\ Holder = c
    BY <2>1 DEF Served, Holder
  <2>3. arrived = <<>> /\ pipe = <<>> /\ mine # NoReport
    BY <2>1, <2>2 DEF Apart
  <2>4. engine = "up" => Quiet
    BY <2>2, <2>3 DEF Apart, Progress, Quiet
  <2> QED
    BY <2>1, <2>3, <2>4, LeaveKept DEF LetGo
<1> QED
  BY <1>2, <1>3, <1>4, <1>5, BeginKept, ReadKept, SeenKept DEF GeneratorStep

\* The steps of its consumer keep requests apart, while none is given up.
LEMMA ConsumerKept ==
  ASSUME EngineTypes, LineRight, ReportRight, Apart, Kept', NEW c \in Calls, ConsumerStep(c)
  PROVE  Apart'
<1>0. line # <<>> => line[1] \in Calls
  BY Sizes
<1>1. CASE Call(c)
  <2>1. /\ at[c] = "idle" /\ Goes(c, "turn") /\ line' = Append(line, c)
        /\ UNCHANGED <<engine, stdin, speaking, written, pipe, arrived, stderr, mine, got>>
    BY <1>1 DEF Call, processVars
  <2>2. at'[c] = "turn" /\ \A d \in Calls \ {c} : at'[d] = at[d]
    BY <2>1 DEF Goes, EngineTypes
  <2>3. line # <<>> => line' # <<>> /\ line'[1] = line[1] /\ line[1] # c
    <3>1. line # <<>> => 1 \in 1..Len(line)
      BY EmptySeq DEF EngineTypes
    <3>2. line' # <<>> /\ \A i \in 1..Len(line) : line'[i] = line[i]
      <4>1. line \in Seq(Calls)
        BY DEF EngineTypes
      <4>2. /\ Append(line, c) # <<>>
            /\ \A i \in 1..Len(line) : Append(line, c)[i] = line[i]
        BY <4>1, AppendProperties
      <4> QED
        BY <2>1, <4>2
    <3>3. line # <<>> => line[1] # c
      <4>1. line # <<>> => at[line[1]] \in {"turn"} \union Asked \union LetGo
        BY <3>1 DEF LineRight
      <4>2. "idle" \notin {"turn"} \union Asked \union LetGo
        BY DEF Asked, LetGo
      <4> QED
        BY <4>1, <4>2, <2>1
    <3> QED
      BY <3>1, <3>2, <3>3
  <2>4. line = <<>> => line'[1] = c
    BY <2>1
  <2>5. Served' = Served /\ (Served => Holder' = Holder)
    BY <2>2, <2>3, <2>4, <1>0 DEF Served, Holder
  <2> QED
    BY <2>1, <2>5, MovesKept DEF Places
<1>2. CASE CallRefused(c)
  <2>1. /\ at[c] = "idle" /\ Goes(c, "unavailable")
        /\ UNCHANGED <<engine, stdin, speaking, written, pipe, arrived, stderr, line, mine, got>>
    BY <1>2 DEF CallRefused, processVars
  <2>2. line # <<>> => line[1] # c
    <3>1. line # <<>> => 1 \in 1..Len(line)
      BY EmptySeq DEF EngineTypes
    <3> QED
      BY <3>1, <2>1 DEF LineRight, Asked, LetGo
  <2>3. Served' = Served /\ Holder' = Holder
    BY <2>1, <2>2, <1>0 DEF Served, Holder, Goes, EngineTypes
  <2> QED
    BY <2>1, <2>3, MovesKept DEF Places, Over
<1>3. CASE Resume(c)
  <2>1. UNCHANGED <<engine, stdin, speaking, written, pipe, arrived, stderr, line, mine, got>>
    BY <1>3 DEF Resume, processVars
  <2>2. line # <<>> /\ line[1] = c /\ Holder = c /\ Served
    BY <1>3, InLine DEF Resume, Holder, Served, Asked
  <2>3. ASSUME NEW where \in Asked, Goes(c, where), where = "reported" => mine.ok /\ Len(got[c]) = mine.pieces
        PROVE  Apart'
    <3>1. Served' = Served /\ Holder' = Holder
      BY <2>1, <2>2, <2>3 DEF Served, Holder, Goes, EngineTypes, Asked
    <3>2. mine.pieces \in Nat
      BY DEF EngineTypes, ReportSet
    <3>3. where = "reported" => arrived = <<>> /\ pipe = <<>> /\ mine # NoReport
      BY <2>2, <2>3, <3>2, AllHeard
    <3>4. where \in Places /\ where # "done"
      BY DEF Places, Asked
    <3> QED
      BY <2>1, <2>3, <3>1, <3>3, <3>4, MovesKept
  <2>4. /\ at[c] = "tail_yielded" => mine.ok
        /\ "reading" \in Asked /\ "tail" \in Asked /\ "reported" \in Asked
    BY DEF ReportRight, Asked
  <2> QED
    BY <1>3, <2>3, <2>4 DEF Resume
<1>4. CASE Drop(c) /\ (at[c] = "reported" \/ "abandon" \in faults)
  <2>1. /\ at[c] = "reported" /\ Goes(c, "done")
        /\ UNCHANGED <<engine, stdin, speaking, written, pipe, arrived, stderr, line, mine, got>>
    <3>1. at'[c] # "dropped"
      BY DEF Kept, GivenUp
    <3> QED
      BY <1>4, <3>1 DEF Drop, Goes, EngineTypes, processVars
  <2>2. Served' = Served /\ Holder' = Holder
    BY <2>1, <1>0 DEF Served, Holder, Goes, EngineTypes
  <2>3. Served /\ Holder = c => arrived = <<>> /\ pipe = <<>> /\ mine # NoReport
    BY <2>1 DEF Apart
  <2> QED
    BY <2>1, <2>2, <2>3, MovesKept DEF Places, LetGo
<1> QED
  BY <1>1, <1>2, <1>3, <1>4 DEF ConsumerStep

-----------------------------------------------------------------------------
(* The engine: its theorems. *)

\* Every step of the engine, and none, keeps its invariant.
LEMMA EngineStepKeeps ==
  ASSUME EngineInv, [EngineNext]_engineVars
  PROVE  EngineInv'
<1> USE DEF EngineInv
<1>1. CASE EngineNext
  <2>1. EngineTypes'
    BY <1>1, ProcessTypes, GeneratorTypes, ConsumerTypes DEF EngineNext
  <2>2. LineRight'
    BY <1>1, LineStep
  <2>3. ReportRight'
    BY <1>1, ReportStep
  <2>4. KeptApart'
    <3>1. SUFFICES ASSUME Kept' PROVE Apart'
      BY DEF KeptApart
    <3>0. Kept
      BY <1>1, <3>1, GivenUpStays DEF Kept
    <3>2. Apart
      BY <3>0 DEF KeptApart
    <3>3. CASE ProcessStep
      BY <1>1, <3>2, <3>3, SpeakKept, ArriveKept, ReportKept DEF EngineNext, ProcessStep
    <3>4. ASSUME NEW c \in Calls, GeneratorStep(c) PROVE Apart'
      BY <1>1, <3>0, <3>1, <3>2, <3>4, GeneratorKept DEF EngineNext
    <3>5. ASSUME NEW c \in Calls, ConsumerStep(c) PROVE Apart'
      BY <3>1, <3>2, <3>5, ConsumerKept
    <3> QED
      BY <1>1, <3>3, <3>4, <3>5 DEF EngineNext
  <2> QED
    BY <2>1, <2>2, <2>3, <2>4
<1>2. CASE UNCHANGED engineVars
  <2>1. /\ UNCHANGED <<faults, engine, stdin, speaking, written, pipe, arrived, stderr, line, reports, mine, at, got>>
        /\ Served' = Served /\ Holder' = Holder /\ Total' = Total
    BY <1>2 DEF engineVars, Served, Holder, Total
  <2>2. EngineTypes' /\ LineRight' /\ ReportRight'
    BY <2>1 DEF EngineTypes, LineRight, ReportRight
  <2>3. KeptApart'
    BY <2>1 DEF KeptApart, Kept, GivenUp, Apart, AudioInOrder, ReportsFit, Fit, Progress, Quiet
  <2> QED
    BY <2>2, <2>3
<1> QED
  BY <1>1, <1>2

\* The engine starts in its invariant.
LEMMA EngineStarts == EngineInit => EngineInv
<1> SUFFICES ASSUME EngineInit PROVE EngineInv
  OBVIOUS
<1>1. EngineTypes
  BY EngineAssumption, Records DEF EngineInit, EngineTypes, Places
<1>2. LineRight /\ ReportRight
  BY DEF EngineInit, LineRight, ReportRight, Asked, NoReport
<1>3. KeptApart
  BY DEF EngineInit, KeptApart, Apart, AudioInOrder, ReportsFit, Fit, Progress, Quiet, Served, NoReport, Report
<1> QED
  BY <1>1, <1>2, <1>3 DEF EngineInv

(* What holds of the engine however it is used: its types, the line for its
   turn, and how far each generator is with its report. *)
THEOREM EngineCorrect == EngineSpec => []EngineInv
  BY EngineStarts, EngineStepKeeps, PTL DEF EngineSpec

\* The invariant says that requests are kept apart.
LEMMA KeptMeans ==
  ASSUME EngineInv, Kept
  PROVE  AudioIsOwn /\ CompleteAndOwn
<1>1. EngineTypes /\ LineRight /\ ReportRight /\ AudioInOrder /\ ReportsFit
  BY DEF EngineInv, KeptApart, Apart
<1>2. \A c \in Calls : got[c] = [i \in 1..Len(got[c]) |-> Piece(c, i)]
  <2> TAKE c \in Calls
  <2>1. got[c] \in [1..Len(got[c]) -> Pieces]
    BY <1>1, LenProperties DEF EngineTypes
  <2>2. \A i \in 1..Len(got[c]) : got[c][i] = Piece(c, i)
    BY <1>1 DEF AudioInOrder
  <2> QED
    BY <2>1, <2>2
<1>3. ASSUME NEW c \in Calls, at[c] = "reported"
      PROVE  mine = Report(c, TRUE, Len(got[c]))
  <2>1. line # <<>> /\ Holder = c /\ Served
    BY <1>1, <1>3, InLine DEF Served, Holder, Asked
  <2>2. mine.ok /\ mine.pieces = Len(got[c]) /\ mine \in ReportSet
    BY <1>1, <1>3 DEF ReportRight, EngineTypes
  <2>3. /\ Len(got[c]) \in Nat /\ Len(arrived) \in Nat /\ Len(pipe) \in Nat
        /\ Total = Len(got[c]) + Len(arrived) + Len(pipe)
    BY <1>1, <2>1, Sizes DEF Total
  <2>4. mine.pieces > 0
    BY <1>1, <2>2 DEF ReportsFit, Fit
  <2>5. Total > 0
    BY <2>2, <2>3, <2>4
  <2>6. mine.of = c
    BY <1>1, <2>1, <2>2, <2>5 DEF ReportsFit, Fit
  <2>7. mine.ok = TRUE
    BY <2>2 DEF ReportSet
  <2> QED
    BY <2>2, <2>6, <2>7 DEF Report, ReportSet
<1> QED
  BY <1>2, <1>3 DEF AudioIsOwn, CompleteAndOwn

(* Counting keeps the requests apart until one is given up: each is given its
   own audio, in order and without a gap, and one that ends has its own report
   and all the audio it counts, whatever fails, dies or overtakes. *)
THEOREM EngineKeepsApart == EngineSpec => []OwnUnlessGivenUp
<1>1. EngineInv => OwnUnlessGivenUp
  BY KeptMeans DEF Kept, OwnUnlessGivenUp
<1> QED
  BY <1>1, EngineCorrect, PTL

-----------------------------------------------------------------------------
(* The service drives the engine. *)

\* What the request at the head of an inbox is.
LEMMA HeadOfInbox ==
  ASSUME StreamTypes, NEW h \in Handlers, NEW kind, Reads(h, kind)
  PROVE  /\ inbox[h] \in Seq(MessageSet) /\ inbox[h] # <<>> /\ Head(inbox[h]) = inbox[h][1]
         /\ inbox[h][1].request \in Calls /\ inbox[h][1].kind = kind
         /\ Len(inbox[h]) \in Nat \ {0} /\ 1 \in 1..Len(inbox[h])
         /\ inbox' = [inbox EXCEPT ![h] = Tail(inbox[h])] /\ Tail(inbox[h]) \in Seq(MessageSet)
         /\ Len(Tail(inbox[h])) = Len(inbox[h]) - 1
         /\ \A i \in 1..(Len(inbox[h]) - 1) : Tail(inbox[h])[i] = inbox[h][i + 1]
         /\ handler[h] = "receive"
<1>1. inbox[h] \in Seq(MessageSet) /\ inbox[h] # <<>> /\ Head(inbox[h]).kind = kind /\ handler[h] = "receive"
      /\ inbox' = [inbox EXCEPT ![h] = Tail(inbox[h])]
  BY DEF StreamTypes, Reads
<1>2. /\ Len(inbox[h]) \in Nat \ {0} /\ Head(inbox[h]) = inbox[h][1] /\ inbox[h][1] \in MessageSet
      /\ Tail(inbox[h]) \in Seq(MessageSet) /\ Len(Tail(inbox[h])) = Len(inbox[h]) - 1
      /\ \A i \in 1..(Len(inbox[h]) - 1) : Tail(inbox[h])[i] = inbox[h][i + 1]
  BY <1>1, Taken
<1>3. inbox[h][1].request \in Calls
  BY <1>2 DEF MessageSet
<1> QED
  BY <1>1, <1>2, <1>3

\* A generator is let go of early only where someone was rude.
LEMMA DeliverDrives ==
  ASSUME StreamInv, NEW h \in Handlers, NEW r \in Calls,
         \/ DeliverPiece(h, r) \/ DeliverCancelled(h, r) \/ DeliverFinished(h, r)
         \/ DeliverFailed(h, r) \/ DeliverBreaks(h, r)
  PROVE  ConsumerStep(r) \/ UNCHANGED engineVars
<1>1. active[h] = r /\ handler[h] = "deliver" /\ r # None
  BY EngineAssumption DEF DeliverPiece, DeliverCancelled, DeliverFinished, DeliverFailed, DeliverBreaks, Delivering
<1>2. "abandon" \notin faults => r \notin cancelled[h] /\ link[h] # "down"
  BY <1>1 DEF StreamInv, RequestsRight, Polite
<1>3. CASE DeliverPiece(h, r)
  BY <1>3 DEF DeliverPiece, ConsumerStep
<1>4. CASE DeliverCancelled(h, r)
  BY <1>2, <1>4 DEF DeliverCancelled, ConsumerStep
<1>5. CASE DeliverFinished(h, r)
  BY <1>5 DEF DeliverFinished, Delivering, ConsumerStep
<1>6. CASE DeliverFailed(h, r)
  BY <1>6 DEF DeliverFailed
<1>7. CASE DeliverBreaks(h, r)
  BY <1>2, <1>7 DEF DeliverBreaks, ConsumerStep
<1> QED
  BY <1>3, <1>4, <1>5, <1>6, <1>7

\* Every step of the service is a step of the engine, or none to it.
LEMMA ServiceDrives ==
  ASSUME StreamInv, [Next]_vars
  PROVE  [EngineNext]_engineVars
<1>1. CASE UNCHANGED vars
  BY <1>1 DEF vars, engineVars
<1>2. CASE Next
  <2>1. UNCHANGED faults
    BY <1>2 DEF Next
  <2>2. CASE EngineStep
    BY <2>1, <2>2 DEF EngineStep, EngineNext
  <2>3. ASSUME NEW h \in Handlers, ClientStep(h)
        PROVE  UNCHANGED engineVars
    BY <2>3 DEF ClientStep, AskToSpeak, AskToStop, HangUp
  <2>4. ASSUME NEW h \in Handlers, HandlerStep(h)
        PROVE  UNCHANGED engineVars \/ \E r \in Calls : ConsumerStep(r)
    <3>1. CASE Synthesize(h)
      <4>1. Reads(h, "synthesize") /\ (Call(Head(inbox[h]).request) \/ CallRefused(Head(inbox[h]).request))
        BY <3>1 DEF Synthesize
      <4>2. Head(inbox[h]).request \in Calls
        BY <4>1, HeadOfInbox DEF StreamInv
      <4> QED
        BY <4>1, <4>2 DEF ConsumerStep
    <3>2. CASE Cancel(h) \/ LoopEnds(h)
      BY <3>2 DEF Cancel, LoopEnds
    <3>3. CASE DeliverStep(h)
      BY <3>3, DeliverDrives DEF DeliverStep
    <3> QED
      BY <2>4, <3>1, <3>2, <3>3 DEF HandlerStep
  <2> QED
    BY <1>2, <2>1, <2>2, <2>3, <2>4 DEF Next, EngineNext
<1> QED
  BY <1>1, <1>2

-----------------------------------------------------------------------------
(* The service: its own state. *)

\* Messages in an inbox are of calls.
LEMMA InboxTypes ==
  ASSUME StreamTypes, NEW h \in Handlers
  PROVE  /\ Len(inbox[h]) \in Nat /\ inbox[h] \in Seq(MessageSet)
         /\ \A i \in 1..Len(inbox[h]) : inbox[h][i] \in MessageSet /\ inbox[h][i].request \in Calls
<1>1. inbox[h] \in Seq(MessageSet)
  BY DEF StreamTypes
<1>2. Len(inbox[h]) \in Nat /\ \A i \in 1..Len(inbox[h]) : inbox[h][i] \in MessageSet
  BY <1>1, LenProperties, ElementOfSeq
<1> QED
  BY <1>1, <1>2 DEF MessageSet

\* The replies, when no generator moves and nothing is sent.
LEMMA RepliesKept ==
  ASSUME RepliesRight, UNCHANGED <<at, got, active, out>>
  PROVE  RepliesRight'
<1>1. \A r \in Calls : Sent(r)' = Sent(r) /\ InOrder(out[r])' = InOrder(out[r]) /\ Open(out[r])' = Open(out[r])
  BY DEF Sent, InOrder, Open
<1> QED
  BY <1>1 DEF RepliesRight

\* The delivery, when no generator moves; requests that were asked for are.
LEMMA DeliveryKept ==
  ASSUME StreamTypes, DeliveryRight, UNCHANGED <<at, handler, active>>,
         \A r \in Calls : owner[r] # None => owner'[r] = owner[r]
  PROVE  DeliveryRight'
<1>1. \A h \in Handlers : active[h] # None => active[h] \in Calls /\ owner[active[h]] # None
  BY ServiceAssumption DEF StreamTypes, DeliveryRight
<1> QED
  BY <1>1 DEF DeliveryRight

\* Where a request is that somebody delivers.
InHand == {"turn"} \union Asked \union Over

\* What a step of the engine leaves as it is for deliver().
LEMMA EngineMoves ==
  ASSUME EngineTypes, EngineStep, NEW r \in Calls
  PROVE  /\ at[r] = "idle" <=> at'[r] = "idle"
         /\ at[r] \in InHand => at'[r] \in InHand /\ Sent(r)' = Sent(r)
<1>1. CASE ProcessStep
  <2>1. UNCHANGED <<at, got>>
    BY <1>1 DEF ProcessStep, TakeLine, WritePiece, EndUtterance, FailUtterance, Die, AudioArrives,
                ReportArrives, ExitNoticed, clientVars
  <2> QED
    BY <2>1 DEF Sent
<1>2. ASSUME NEW c \in Calls, GeneratorStep(c)
      PROVE  /\ at[r] = "idle" <=> at'[r] = "idle"
             /\ at[r] \in InHand => at'[r] \in InHand /\ Sent(r)' = Sent(r)
  <2>1. CASE r # c
    <3>1. /\ at'[r] = at[r]
          /\ got'[r] = got[r]
      <4>1. UNCHANGED got \/ got' = [got EXCEPT ![c] = Append(@, Head(arrived))]
        BY <1>2 DEF GeneratorStep, Begin, BeginFails, ReadPiece, ReadEnds, ReadTimesOut, ReportSeen, ReadTail, TailEnds,
                    TailTimesOut, Finalize, Yield
      <4>2. \E where : Goes(c, where)
        BY <1>2 DEF GeneratorStep, Begin, BeginFails, ReadPiece, ReadEnds, ReadTimesOut, ReportSeen, ReportRead, ReadTail,
                    TailEnds, TailTimesOut, Finalize, Yield, Ends
      <4> QED
        BY <2>1, <4>1, <4>2 DEF Goes, EngineTypes
    <3> QED
      BY <3>1 DEF Sent
  <2>2. CASE r = c /\ (ReadPiece(c) \/ ReadTail(c))
    <3>1. /\ at[c] \in {"reading", "tail"} /\ at'[c] \in {"yielded", "tail_yielded"} /\ arrived # <<>>
          /\ got' = [got EXCEPT ![c] = Append(@, Head(arrived))]
      BY <2>2 DEF ReadPiece, ReadTail, Yield, Goes, EngineTypes
    <3>2. Len(got'[c]) = Len(got[c]) + 1 /\ Len(got[c]) \in Nat
      BY <3>1, Taken, AppendProperties DEF EngineTypes
    <3>3. at'[c] \in InHand
      BY <3>1 DEF InHand, Asked
    <3>4. Sent(c) = Len(got[c]) - 0 /\ Sent(c)' = Len(got'[c]) - 1
      BY <3>1 DEF Sent
    <3>5. \A n \in Nat : (n + 1) - 1 = n - 0
      OBVIOUS
    <3>6. Sent(c)' = Sent(c)
      BY <3>2, <3>4, <3>5
    <3>7. at[c] # "idle" /\ at'[c] # "idle"
      BY <3>1
    <3> QED
      BY <2>2, <3>3, <3>6, <3>7
  <2>3. CASE r = c /\ ~(ReadPiece(c) \/ ReadTail(c))
    <3>1. UNCHANGED got
      BY <1>2, <2>3 DEF GeneratorStep, Begin, BeginFails, ReadEnds, ReadTimesOut, ReportSeen, TailEnds, TailTimesOut, Finalize
    <3>2. /\ at[c] \in {"turn", "reading", "tail", "done", "dropped"}
          /\ at[c] \in {"done", "dropped"} => at'[c] \in {"done", "dropped"}
          /\ at[c] \in {"turn", "reading", "tail"} => at'[c] \in {"reading", "tail", "reported"} \union Over
      BY <1>2, <2>3
      DEF GeneratorStep, Begin, BeginFails, ReadEnds, ReadTimesOut, ReportSeen, ReportRead, TailEnds, TailTimesOut, Finalize,
          Ends, Goes, EngineTypes, Over
    <3> QED
      BY <2>3, <3>1, <3>2 DEF Sent, InHand, Asked, Over
  <2> QED
    BY <2>1, <2>2, <2>3
<1> QED
  BY <1>1, <1>2 DEF EngineStep

\* A step of the engine keeps the state of the service right.
LEMMA EngineStream ==
  ASSUME EngineInv, StreamInv, EngineStep, UNCHANGED <<faults, streamVars>>
  PROVE  StreamInv'
<1>1. UNCHANGED <<faults, handler, link, inbox, active, cancelled, owner, out>>
  BY DEF streamVars
<1>2. \A r \in Calls : /\ at[r] = "idle" <=> at'[r] = "idle"
                       /\ at[r] \in InHand => at'[r] \in InHand /\ Sent(r)' = Sent(r)
  BY EngineMoves DEF EngineInv
<1>3. StreamTypes'
  BY <1>1 DEF StreamInv, StreamTypes
<1>4. DeliveryRight'
  <2>1. \A h \in Handlers : active[h] # None => active[h] \in Calls
    BY DEF StreamInv, StreamTypes
  <2> QED
    BY <1>1, <1>2, <2>1 DEF StreamInv, DeliveryRight, InHand
<1>5. RepliesRight'
  <2> SUFFICES ASSUME NEW r \in Calls
               PROVE  /\ at'[r] = "idle" <=> out'[r] = <<>>
                      /\ InOrder(out'[r])
                      /\ \A h \in Handlers : active'[h] = r => Open(out'[r]) /\ Len(out'[r]) = 1 + Sent(r)'
    BY DEF RepliesRight, InOrder, Open
  <2>1. \A h \in Handlers : active[h] = r => at[r] \in InHand
    BY EngineAssumption DEF StreamInv, DeliveryRight, InHand
  <2> QED
    BY <1>1, <1>2, <2>1 DEF StreamInv, RepliesRight
<1>6. AskedOnce'
  <2>1. \A h \in Handlers : \A i \in 1..Len(inbox[h]) : inbox[h][i].request \in Calls
    BY InboxTypes DEF StreamInv
  <2> QED
    BY <1>1, <1>2, <2>1 DEF StreamInv, RequestsRight, AskedOnce
<1>7. "abandon" \notin faults => Polite'
  BY <1>1 DEF StreamInv, RequestsRight, Polite
<1> QED
  BY <1>1, <1>3, <1>4, <1>5, <1>6, <1>7 DEF StreamInv, RequestsRight

\* A client asks, or goes away.
LEMMA ClientStream ==
  ASSUME EngineInv, StreamInv, NEW h \in Handlers, ClientStep(h), UNCHANGED faults
  PROVE  StreamInv'
<1> USE DEF StreamInv
<1>1. \A r \in Calls, kind \in {"synthesize", "cancel"} : Message(kind, r) \in MessageSet
  BY DEF Message, MessageSet
<1>2. CASE HangUp(h)
  <2>1. /\ UNCHANGED <<at, got, mine, faults, handler, inbox, active, cancelled, owner, out>>
        /\ link' = [link EXCEPT ![h] = "down"] /\ "abandon" \in faults
    BY <1>2 DEF HangUp, engineVars
  <2>2. StreamTypes'
    BY <2>1 DEF StreamTypes
  <2>3. DeliveryRight' /\ RepliesRight'
    BY <2>1, DeliveryKept, RepliesKept
  <2>4. RequestsRight'
    BY <2>1 DEF RequestsRight, AskedOnce
  <2> QED
    BY <2>2, <2>3, <2>4
<1>3. ASSUME NEW m \in MessageSet, Arrives(h, m)
      PROVE  /\ inbox' \in [Handlers -> Seq(MessageSet)] /\ \A k \in Handlers \ {h} : inbox'[k] = inbox[k]
             /\ Len(inbox'[h]) = Len(inbox[h]) + 1 /\ inbox'[h][Len(inbox[h]) + 1] = m
             /\ \A i \in 1..Len(inbox[h]) : inbox'[h][i] = inbox[h][i]
             /\ Len(inbox[h]) \in Nat
             /\ \A i \in 1..Len(inbox'[h]) : i \in 1..Len(inbox[h]) \/ i = Len(inbox[h]) + 1
  <2>1. inbox[h] \in Seq(MessageSet) /\ inbox' = [inbox EXCEPT ![h] = Append(inbox[h], m)]
        /\ inbox \in [Handlers -> Seq(MessageSet)]
    BY <1>3 DEF StreamTypes, Arrives
  <2>2. /\ Append(inbox[h], m) \in Seq(MessageSet) /\ Len(Append(inbox[h], m)) = Len(inbox[h]) + 1
        /\ \A i \in 1..Len(inbox[h]) : Append(inbox[h], m)[i] = inbox[h][i]
        /\ Append(inbox[h], m)[Len(inbox[h]) + 1] = m
    BY <2>1, AppendProperties
  <2>3. Len(inbox[h]) \in Nat
    BY <2>1, LenProperties
  <2> QED
    BY <2>1, <2>2, <2>3
<1>4. ASSUME NEW r \in Calls, AskToSpeak(h, r)
      PROVE  StreamInv'
  <2>1. /\ owner[r] = None /\ Arrives(h, Message("synthesize", r)) /\ owner' = [owner EXCEPT ![r] = h]
        /\ UNCHANGED <<at, got, mine, faults, handler, link, active, cancelled, out>>
    BY <1>4 DEF AskToSpeak, engineVars
  <2>2. owner'[r] = h /\ h # None /\ \A s \in Calls \ {r} : owner'[s] = owner[s]
    BY <2>1, ServiceAssumption DEF StreamTypes
  <2>3. /\ \A k \in Handlers \ {h} : inbox'[k] = inbox[k]
        /\ Len(inbox'[h]) = Len(inbox[h]) + 1 /\ inbox'[h][Len(inbox[h]) + 1] = Message("synthesize", r)
        /\ \A i \in 1..Len(inbox[h]) : inbox'[h][i] = inbox[h][i]
        /\ Len(inbox[h]) \in Nat
        /\ \A i \in 1..Len(inbox'[h]) : i \in 1..Len(inbox[h]) \/ i = Len(inbox[h]) + 1
    BY <1>1, <1>3, <2>1
  <2>4. StreamTypes'
    BY <1>1, <1>3, <2>1 DEF StreamTypes
  <2>5. DeliveryRight' /\ RepliesRight'
    BY <2>1, <2>2, DeliveryKept, RepliesKept
  <2>6. \A k \in Handlers : \A i \in 1..Len(inbox[k]) : inbox[k][i].kind = "synthesize" => inbox[k][i].request # r
    BY <2>1, ServiceAssumption DEF RequestsRight, AskedOnce
  <2>7. \A k \in Handlers : \A i \in 1..Len(inbox[k]) : inbox[k][i].request \in Calls
    BY InboxTypes
  <2>8. at[r] = "idle"
    BY <2>1 DEF DeliveryRight
  <2>9. AskedOnce'
    <3> SUFFICES ASSUME NEW k \in Handlers, NEW i \in 1..Len(inbox'[k]), inbox'[k][i].kind = "synthesize"
                 PROVE  /\ owner'[inbox'[k][i].request] = k /\ at[inbox'[k][i].request] = "idle"
                        /\ \A j \in 1..Len(inbox'[k]) :
                             inbox'[k][j].kind = "synthesize" /\ inbox'[k][j].request = inbox'[k][i].request => j = i
      BY <2>1 DEF AskedOnce
    <3>1. CASE k # h
      <4>1. inbox'[k] = inbox[k]
        BY <3>1, <2>3
      <4>2. inbox[k][i].request \in Calls \ {r} /\ inbox[k][i].kind = "synthesize" /\ i \in 1..Len(inbox[k])
        BY <4>1, <2>6, <2>7
      <4> QED
        BY <4>1, <4>2, <2>2 DEF RequestsRight, AskedOnce
    <3>2. CASE k = h /\ i \in 1..Len(inbox[h])
      <4>1. inbox'[h][i] = inbox[h][i] /\ inbox[h][i].request \in Calls \ {r} /\ inbox[h][i].kind = "synthesize"
        BY <3>2, <2>3, <2>6, <2>7
      <4>2. owner'[inbox[h][i].request] = h /\ at[inbox[h][i].request] = "idle"
        BY <3>2, <4>1, <2>2 DEF RequestsRight, AskedOnce
      <4>3. ASSUME NEW j \in 1..Len(inbox'[h]), inbox'[h][j].kind = "synthesize",
                   inbox'[h][j].request = inbox'[h][i].request
            PROVE  j = i
        <5>1. CASE j \in 1..Len(inbox[h])
          BY <3>2, <4>1, <4>3, <5>1, <2>3 DEF RequestsRight, AskedOnce
        <5>2. CASE j = Len(inbox[h]) + 1
          BY <4>1, <4>3, <5>2, <2>3 DEF Message
        <5> QED
          BY <4>3, <5>1, <5>2, <2>3
      <4> QED
        BY <3>2, <4>1, <4>2, <4>3
    <3>3. CASE k = h /\ i = Len(inbox[h]) + 1
      BY <3>3, <2>2, <2>3, <2>6, <2>7, <2>8 DEF Message
    <3> QED
      BY <2>3, <3>1, <3>2, <3>3
  <2>10. ASSUME "abandon" \notin faults PROVE Polite'
    <3>1. Polite
      BY <2>10 DEF RequestsRight
    <3>2. /\ \A k \in Handlers : \A i \in 1..Len(inbox[k]) : inbox[k][i].request # r
          /\ \A k \in Handlers : r \notin cancelled[k]
      BY <2>1, <3>1, ServiceAssumption DEF Polite
    <3>3. \A k \in Handlers : \A s \in cancelled[k] : s \in Calls
      BY DEF StreamTypes
    <3>4. ASSUME NEW k \in Handlers
          PROVE  /\ \A i \in 1..Len(inbox'[k]) : owner'[inbox'[k][i].request] = k
                 /\ \A i \in 1..Len(inbox'[k]) : inbox'[k][i].kind = "synthesize" =>
                      /\ inbox'[k][i].request \notin cancelled[k]
                      /\ \A j \in 1..(i - 1) : inbox'[k][j].request # inbox'[k][i].request
      <4>1. CASE k # h
        BY <4>1, <2>2, <2>3, <2>7, <3>1, <3>2 DEF Polite
      <4>2. CASE k = h
        <5> SUFFICES ASSUME NEW i \in 1..Len(inbox'[h])
                     PROVE  /\ owner'[inbox'[h][i].request] = h
                            /\ inbox'[h][i].kind = "synthesize" =>
                                 /\ inbox'[h][i].request \notin cancelled[h]
                                 /\ \A j \in 1..(i - 1) : inbox'[h][j].request # inbox'[h][i].request
          BY <4>2
        <5>1. \A j \in 1..(i - 1) : j \in 1..Len(inbox[h])
          <6>1. \A n \in Nat : \A m \in 1..(n + 1) : \A j \in 1..(m - 1) : j \in 1..n
            OBVIOUS
          <6> QED
            BY <2>3, <6>1
        <5>2. CASE i \in 1..Len(inbox[h])
          <6>1. inbox'[h][i] = inbox[h][i] /\ inbox[h][i].request \in Calls \ {r}
            BY <5>2, <2>3, <2>7, <3>2
          <6>2. \A j \in 1..(i - 1) : inbox'[h][j] = inbox[h][j]
            BY <5>1, <2>3
          <6> QED
            BY <5>2, <6>1, <6>2, <2>2, <3>1 DEF Polite
        <5>3. CASE i = Len(inbox[h]) + 1
          BY <5>1, <5>3, <2>2, <2>3, <3>2 DEF Message
        <5> QED
          BY <2>3, <5>2, <5>3
      <4> QED
        BY <4>1, <4>2
    <3> QED
      BY <2>1, <2>2, <3>1, <3>2, <3>3, <3>4 DEF Polite
  <2> QED
    BY <2>1, <2>4, <2>5, <2>9, <2>10 DEF RequestsRight
<1>5. ASSUME NEW r \in Calls, AskToStop(h, r)
      PROVE  StreamInv'
  <2>1. /\ Arrives(h, Message("cancel", r))
        /\ "abandon" \notin faults => owner[r] = h
        /\ UNCHANGED <<at, got, mine, faults, handler, link, active, cancelled, owner, out>>
    BY <1>5 DEF AskToStop, engineVars
  <2>2. /\ \A k \in Handlers \ {h} : inbox'[k] = inbox[k]
        /\ Len(inbox'[h]) = Len(inbox[h]) + 1 /\ inbox'[h][Len(inbox[h]) + 1] = Message("cancel", r)
        /\ \A i \in 1..Len(inbox[h]) : inbox'[h][i] = inbox[h][i]
        /\ Len(inbox[h]) \in Nat
        /\ \A i \in 1..Len(inbox'[h]) : i \in 1..Len(inbox[h]) \/ i = Len(inbox[h]) + 1
    BY <1>1, <1>3, <2>1
  <2>3. \A k \in Handlers : \A i \in 1..Len(inbox'[k]) : inbox'[k][i].kind = "synthesize" =>
          i \in 1..Len(inbox[k]) /\ inbox'[k][i] = inbox[k][i]
    BY <2>2 DEF Message
  <2>4. StreamTypes'
    BY <1>1, <1>3, <2>1 DEF StreamTypes
  <2>5. DeliveryRight' /\ RepliesRight'
    BY <2>1, DeliveryKept, RepliesKept
  <2>6. AskedOnce'
    BY <2>1, <2>3 DEF RequestsRight, AskedOnce
  <2>7. ASSUME "abandon" \notin faults PROVE Polite'
    <3>1. Polite /\ owner[r] = h
      BY <2>1, <2>7 DEF RequestsRight
    <3>2. \A k \in Handlers : \A i \in 1..Len(inbox'[k]) : owner[inbox'[k][i].request] = k
      BY <2>2, <3>1 DEF Polite, Message
    <3>3. \A k \in Handlers : \A i \in 1..Len(inbox'[k]) : inbox'[k][i].kind = "synthesize" =>
            /\ inbox'[k][i].request \notin cancelled[k]
            /\ \A j \in 1..(i - 1) : inbox'[k][j].request # inbox'[k][i].request
      <4> TAKE k \in Handlers
      <4> TAKE i \in 1..Len(inbox'[k])
      <4> HAVE inbox'[k][i].kind = "synthesize"
      <4>1. i \in 1..Len(inbox[k]) /\ inbox'[k][i] = inbox[k][i]
        BY <2>3
      <4>2. \A j \in 1..(i - 1) : j \in 1..Len(inbox[k]) /\ inbox'[k][j] = inbox[k][j]
        <5>1. Len(inbox[k]) \in Nat
          BY LenProperties DEF StreamTypes
        <5>2. \A j \in 1..(i - 1) : j \in 1..Len(inbox[k])
          <6>1. \A n \in Nat : \A m \in 1..n : \A j \in 1..(m - 1) : j \in 1..n
            OBVIOUS
          <6> QED
            BY <4>1, <5>1, <6>1
        <5> QED
          BY <2>2, <5>2
      <4> QED
        BY <3>1, <4>1, <4>2 DEF Polite
    <3> QED
      BY <2>1, <3>1, <3>2, <3>3 DEF Polite
  <2> QED
    BY <2>1, <2>4, <2>5, <2>6, <2>7 DEF RequestsRight
<1> QED
  BY <1>2, <1>4, <1>5 DEF ClientStep

\* What a delivery in hand knows.
LEMMA InHandFacts ==
  ASSUME StreamInv, NEW h \in Handlers, NEW r \in Calls, active[h] = r
  PROVE  /\ r # None /\ handler[h] = "deliver" /\ owner[r] = h /\ at[r] \in InHand /\ at[r] # "idle"
         /\ out[r] \in Seq(Replied) /\ out[r] # <<>> /\ Open(out[r]) /\ Len(out[r]) = 1 + Sent(r)
         /\ Len(out[r]) \in Nat \ {0}
         /\ \A k \in Handlers \ {h} : active[k] # r
<1>1. r # None
  BY EngineAssumption
<1>2. owner[r] = h /\ at[r] \in InHand /\ handler[h] = "deliver"
  BY <1>1 DEF StreamInv, DeliveryRight, InHand
<1>3. at[r] # "idle"
  BY <1>2 DEF InHand, Asked, Over
<1>4. out[r] \in Seq(Replied) /\ out[r] # <<>> /\ Open(out[r]) /\ Len(out[r]) = 1 + Sent(r)
  BY <1>3 DEF StreamInv, StreamTypes, RepliesRight
<1>5. \A k \in Handlers \ {h} : active[k] # r
  BY <1>1, <1>2 DEF StreamInv, DeliveryRight
<1> QED
  BY <1>1, <1>2, <1>3, <1>4, <1>5, EmptySeq

\* Another piece is sent.
LEMMA ReplyAudio ==
  ASSUME NEW replies \in Seq(Replied), replies # <<>>, Open(replies)
  PROVE  LET longer == Append(replies, Answer("audio", 1))
         IN  longer \in Seq(Replied) /\ longer # <<>> /\ Open(longer) /\ Len(longer) = Len(replies) + 1
<1> DEFINE longer == Append(replies, Answer("audio", 1))
<1>1. Answer("audio", 1) \in Replied /\ Answer("audio", 1).kind = "audio"
  BY DEF Answer, Replied
<1>2. /\ longer \in Seq(Replied) /\ longer # <<>> /\ Len(longer) = Len(replies) + 1
      /\ \A i \in 1..Len(replies) : longer[i] = replies[i]
      /\ longer[Len(replies) + 1] = Answer("audio", 1)
  BY <1>1, AppendProperties
<1>3. Len(replies) \in Nat \ {0}
  BY EmptySeq
<1>4. \A i \in 1..Len(longer) : i \in 1..Len(replies) \/ i = Len(replies) + 1
  BY <1>2, <1>3
<1>5. \A i \in 1..Len(replies) : replies[i].kind \notin {"finished", "cancelled", "error"}
  <2>1. replies[Len(replies)].kind \in {"started", "audio"}
    BY DEF Open
  <2>2. \A i \in 1..Len(replies) : replies[i].kind \in {"finished", "cancelled", "error"} => i = Len(replies)
    BY DEF Open, InOrder
  <2> QED
    BY <2>1, <2>2
<1> HIDE DEF longer
<1>6. InOrder(longer)
  <2>1. Len(replies) + 1 # 1
    BY <1>3
  <2> QED
    BY <1>1, <1>2, <1>4, <1>5, <2>1 DEF Open, InOrder
<1>7. Open(longer)
  BY <1>1, <1>2, <1>6 DEF Open
<1> QED
  BY <1>2, <1>7 DEF longer

\* The final reply is sent.
LEMMA ReplyLast ==
  ASSUME NEW replies \in Seq(Replied), replies # <<>>, Open(replies),
         NEW kind \in {"finished", "cancelled", "error"}, NEW n \in Nat,
         kind = "finished" => n = Len(replies) - 1
  PROVE  LET longer == Append(replies, Answer(kind, n))
         IN  longer \in Seq(Replied) /\ longer # <<>> /\ InOrder(longer)
<1> DEFINE longer == Append(replies, Answer(kind, n))
<1>1. Answer(kind, n) \in Replied /\ Answer(kind, n).kind = kind /\ Answer(kind, n).pieces = n
  BY DEF Answer, Replied
<1>2. /\ longer \in Seq(Replied) /\ longer # <<>> /\ Len(longer) = Len(replies) + 1
      /\ \A i \in 1..Len(replies) : longer[i] = replies[i]
      /\ longer[Len(replies) + 1] = Answer(kind, n)
  BY <1>1, AppendProperties
<1>3. Len(replies) \in Nat \ {0}
  BY EmptySeq
<1>7. longer[Len(replies) + 1] = Answer(kind, n) /\ Len(longer) = Len(replies) + 1
  BY <1>2
<1>4. \A i \in 1..Len(longer) : i \in 1..Len(replies) \/ i = Len(replies) + 1
  BY <1>2, <1>3
<1>5. \A i \in 1..Len(replies) : replies[i].kind \notin {"finished", "cancelled", "error"}
  <2>1. replies[Len(replies)].kind \in {"started", "audio"}
    BY DEF Open
  <2>2. \A i \in 1..Len(replies) : replies[i].kind \in {"finished", "cancelled", "error"} => i = Len(replies)
    BY DEF Open, InOrder
  <2> QED
    BY <2>1, <2>2
<1> HIDE DEF longer
<1>6. InOrder(longer)
  <2>1. Len(replies) + 1 # 1 /\ Len(longer) - 2 = Len(replies) - 1
    <3>1. \A m \in Nat \ {0} : m + 1 # 1 /\ (m + 1) - 2 = m - 1
      OBVIOUS
    <3> QED
      BY <1>2, <1>3, <3>1
  <2>2. \A i \in 1..Len(replies) : replies[i].kind = "started" <=> i = 1
    BY DEF Open, InOrder
  <2>3. ASSUME NEW i \in 1..Len(replies)
        PROVE  /\ longer[i].kind = "started" <=> i = 1
               /\ longer[i].kind \notin {"finished", "cancelled", "error"}
    <3>1. longer[i] = replies[i]
      BY <1>2
    <3> QED
      BY <1>5, <2>2, <3>1
  <2>4. longer[Len(longer)].kind = kind /\ longer[Len(longer)].pieces = n
    <3>1. longer[Len(longer)] = Answer(kind, n)
      BY <1>7
    <3> QED
      BY <1>1, <3>1
  <2>5. \A i \in 1..Len(longer) : i \in 1..Len(replies) \/ (i = Len(longer) /\ i # 1)
    BY <1>4, <1>7, <2>1
  <2>6. kind # "started" /\ (kind = "finished" => n = Len(longer) - 2)
    BY <2>1
  <2> QED
    BY <2>3, <2>4, <2>5, <2>6 DEF InOrder
<1> QED
  BY <1>2, <1>6 DEF longer

\* deliver() is over for a request, with the replies it got.
LEMMA DeliveryOver ==
  ASSUME StreamInv, NEW h \in Handlers, NEW r \in Calls, active[h] = r,
         NEW where \in {"receive", "gone"}, handler' = [handler EXCEPT ![h] = where],
         link' = link \/ (where = "gone" /\ link' = [link EXCEPT ![h] = "down"]),
         active' = [active EXCEPT ![h] = None],
         cancelled' = [cancelled EXCEPT ![h] = @ \ {r}],
         NEW replies \in Seq(Replied), replies # <<>>, InOrder(replies), out' = [out EXCEPT ![r] = replies],
         UNCHANGED <<faults, inbox, owner, got>>,
         at'[r] # "idle", \A d \in Calls \ {r} : at'[d] = at[d]
  PROVE  StreamInv'
<1> USE DEF StreamInv
<1>1. /\ r # None /\ handler[h] = "deliver" /\ owner[r] = h /\ at[r] # "idle"
      /\ \A k \in Handlers \ {h} : active[k] # r
  BY InHandFacts
<1>2. StreamTypes'
  BY DEF StreamTypes
<1>3. /\ active'[h] = None /\ handler'[h] = where /\ \A k \in Handlers \ {h} : active'[k] = active[k] /\ handler'[k] = handler[k]
  BY DEF StreamTypes
<1>4. \A d \in Calls : at'[d] = "idle" <=> at[d] = "idle"
  BY <1>1
<1>5. DeliveryRight'
  <2>1. \A k \in Handlers \ {h} : active[k] # None => active[k] \in Calls \ {r}
    BY <1>1 DEF StreamTypes
  <2>2. \A k \in Handlers \ {h} : /\ handler'[k] = "deliver" <=> active'[k] # None
                                  /\ active'[k] # None => owner[active'[k]] = k /\ at'[active'[k]] \in {"turn"} \union Asked \union Over
    BY <1>3, <2>1 DEF DeliveryRight
  <2> QED
    BY <1>3, <1>4, <2>2 DEF DeliveryRight
<1>6. RepliesRight'
  <2>1. /\ out'[r] = replies /\ \A d \in Calls \ {r} : out'[d] = out[d] /\ at'[d] = at[d] /\ Sent(d)' = Sent(d)
    BY DEF StreamTypes, Sent
  <2>2. \A k \in Handlers : active'[k] # r /\ \A d \in Calls : active'[k] = d => active[k] = d
    BY <1>1, <1>3, EngineAssumption
  <2>3. ASSUME NEW d \in Calls
        PROVE  /\ at'[d] = "idle" <=> out'[d] = <<>>
               /\ InOrder(out'[d])
               /\ \A k \in Handlers : active'[k] = d => Open(out'[d]) /\ Len(out'[d]) = 1 + Sent(d)'
    <3>1. CASE d = r
      BY <2>1, <2>2, <3>1
    <3>2. CASE d # r
      BY <2>1, <2>2, <3>2 DEF RepliesRight
    <3> QED
      BY <3>1, <3>2
  <2> QED
    BY <2>3 DEF RepliesRight, InOrder, Open
<1>7. AskedOnce'
  <2>1. \A k \in Handlers : \A i \in 1..Len(inbox[k]) : inbox[k][i].request \in Calls
    BY InboxTypes
  <2> QED
    BY <1>4, <2>1 DEF RequestsRight, AskedOnce
<1>8. ASSUME "abandon" \notin faults PROVE Polite'
  <2>1. Polite
    BY <1>8 DEF RequestsRight
  <2>2. \A k \in Handlers : link'[k] = "down" => handler'[k] = "gone"
    BY <1>1, <1>3, <2>1 DEF Polite, StreamTypes
  <2>3. \A k \in Handlers : cancelled'[k] \subseteq cancelled[k]
    BY DEF StreamTypes
  <2>4. \A k \in Handlers : active'[k] # None => active'[k] \notin cancelled'[k]
    BY <1>3, <2>1, <2>3 DEF Polite
  <2> QED
    BY <2>1, <2>2, <2>3, <2>4 DEF Polite
<1> QED
  BY <1>2, <1>5, <1>6, <1>7, <1>8 DEF RequestsRight

\* A generator that is resumed or let go of stays with its count.
LEMMA ConsumerMoves ==
  ASSUME EngineTypes, NEW r \in Calls, Resume(r) \/ Drop(r)
  PROVE  /\ at'[r] # "idle" /\ \A d \in Calls \ {r} : at'[d] = at[d]
         /\ UNCHANGED <<got, mine>>
         /\ Resume(r) => at'[r] \in InHand /\ at'[r] \notin {"yielded", "tail_yielded"}
<1>1. UNCHANGED <<got, mine>>
  BY DEF Resume, Drop
<1>2. CASE Resume(r)
  BY <1>1, <1>2 DEF Resume, Goes, EngineTypes, InHand, Asked
<1>3. CASE Drop(r) /\ ~Resume(r)
  BY <1>1, <1>3 DEF Drop, Goes, EngineTypes
<1> QED
  BY <1>2, <1>3

\* A piece is sent and the next one asked for.
LEMMA DeliverPieceStep ==
  ASSUME EngineInv, StreamInv, NEW h \in Handlers, NEW r \in Calls, DeliverPiece(h, r), UNCHANGED faults
  PROVE  StreamInv'
<1> USE DEF StreamInv
<1>1. /\ active[h] = r /\ at[r] \in {"yielded", "tail_yielded"} /\ Resume(r)
      /\ out' = [out EXCEPT ![r] = Append(out[r], Answer("audio", 1))]
      /\ UNCHANGED <<handler, link, inbox, active, cancelled, owner, faults>>
  BY DEF DeliverPiece, Delivering, Replies, StreamTypes
<1>2. /\ r # None /\ out[r] \in Seq(Replied) /\ out[r] # <<>> /\ Open(out[r]) /\ Len(out[r]) = 1 + Sent(r)
      /\ \A k \in Handlers \ {h} : active[k] # r
  BY <1>1, InHandFacts
<1>3. /\ at'[r] # "idle" /\ at'[r] \in InHand /\ at'[r] \notin {"yielded", "tail_yielded"}
      /\ UNCHANGED got
      /\ \A d \in Calls \ {r} : at'[d] = at[d]
  BY <1>1, ConsumerMoves DEF EngineInv
<1>4. /\ Append(out[r], Answer("audio", 1)) \in Seq(Replied) /\ out'[r] = Append(out[r], Answer("audio", 1))
      /\ out'[r] # <<>> /\ Open(out'[r]) /\ Len(out'[r]) = Len(out[r]) + 1
      /\ \A d \in Calls \ {r} : out'[d] = out[d]
  BY <1>1, <1>2, ReplyAudio DEF StreamTypes
<1>5. \A d \in Calls : at'[d] = "idle" <=> at[d] = "idle"
  BY <1>1, <1>3
<1>6. Sent(r)' = Sent(r) + 1
  <2>1. Len(got[r]) \in Nat
    BY Sizes DEF EngineInv
  <2>2. Sent(r) = Len(got[r]) - 1 /\ Sent(r)' = Len(got[r]) - 0
    BY <1>1, <1>3 DEF Sent
  <2> QED
    BY <2>1, <2>2
<1>7. StreamTypes'
  BY <1>1, <1>4 DEF StreamTypes
<1>8. DeliveryRight'
  <2>1. \A k \in Handlers : active[k] # None => active[k] \in Calls
    BY DEF StreamTypes
  <2> QED
    BY <1>1, <1>3, <1>5, <2>1 DEF DeliveryRight, InHand
<1>9. RepliesRight'
  <2>1. \A d \in Calls \ {r} : Sent(d)' = Sent(d)
    BY <1>3 DEF Sent
  <2>2. Len(out'[r]) = 1 + Sent(r)'
    <3>1. Len(out[r]) \in Nat
      BY <1>2, LenProperties
    <3>2. Len(got[r]) \in Nat /\ Sent(r) = Len(got[r]) - 1
      BY <1>1, Sizes DEF EngineInv, Sent
    <3> QED
      BY <1>2, <1>4, <1>6, <3>1, <3>2
  <2>3. ASSUME NEW d \in Calls
        PROVE  /\ at'[d] = "idle" <=> out'[d] = <<>>
               /\ InOrder(out'[d])
               /\ \A k \in Handlers : active'[k] = d => Open(out'[d]) /\ Len(out'[d]) = 1 + Sent(d)'
    <3>1. CASE d = r
      BY <1>3, <1>4, <2>2, <3>1 DEF Open
    <3>2. CASE d # r
      BY <1>1, <1>3, <1>4, <2>1, <3>2 DEF RepliesRight
    <3> QED
      BY <3>1, <3>2
  <2> QED
    BY <2>3 DEF RepliesRight, InOrder, Open
<1>10. AskedOnce'
  <2>1. \A k \in Handlers : \A i \in 1..Len(inbox[k]) : inbox[k][i].request \in Calls
    BY InboxTypes
  <2> QED
    BY <1>1, <1>5, <2>1 DEF RequestsRight, AskedOnce
<1>11. "abandon" \notin faults => Polite'
  BY <1>1 DEF RequestsRight, Polite
<1> QED
  BY <1>1, <1>7, <1>8, <1>9, <1>10, <1>11 DEF RequestsRight

\* deliver() ends with a reply, or with its connection.
LEMMA DeliverEnds ==
  ASSUME EngineInv, StreamInv, NEW h \in Handlers, NEW r \in Calls, UNCHANGED faults,
         DeliverCancelled(h, r) \/ DeliverFinished(h, r) \/ DeliverFailed(h, r) \/ DeliverBreaks(h, r)
  PROVE  StreamInv'
<1>1. active[h] = r
  BY DEF DeliverCancelled, DeliverFinished, DeliverFailed, DeliverBreaks, Delivering
<1>2. /\ out[r] \in Seq(Replied) /\ out[r] # <<>> /\ Open(out[r]) /\ InOrder(out[r]) /\ at[r] # "idle"
      /\ Len(out[r]) = 1 + Sent(r) /\ out \in [Calls -> Seq(Replied)]
  BY <1>1, InHandFacts DEF Open, StreamInv, StreamTypes
<1>3. ASSUME NEW kind \in {"finished", "cancelled", "error"}, NEW n \in Nat, Replies(r, kind, n),
             kind = "finished" => n = Len(out[r]) - 1,
             Delivered(h, r), at'[r] # "idle", UNCHANGED got, \A d \in Calls \ {r} : at'[d] = at[d]
      PROVE  StreamInv'
  <2>1. /\ Append(out[r], Answer(kind, n)) \in Seq(Replied) /\ Append(out[r], Answer(kind, n)) # <<>>
        /\ InOrder(Append(out[r], Answer(kind, n)))
    BY <1>2, <1>3, ReplyLast
  <2>2. out' = [out EXCEPT ![r] = Append(out[r], Answer(kind, n))]
    BY <1>2, <1>3 DEF Replies
  <2>3. /\ handler' = [handler EXCEPT ![h] = "receive"] /\ link' = link
        /\ active' = [active EXCEPT ![h] = None] /\ cancelled' = [cancelled EXCEPT ![h] = @ \ {r}]
        /\ UNCHANGED <<inbox, owner>>
    BY <1>3 DEF Delivered
  <2> QED
    BY <1>1, <1>3, <2>1, <2>2, <2>3, DeliveryOver
<1>4. CASE DeliverCancelled(h, r)
  <2>1. Drop(r) /\ Replies(r, "cancelled", 0) /\ Delivered(h, r)
    BY <1>4 DEF DeliverCancelled
  <2> QED
    BY <2>1, <1>3, ConsumerMoves DEF EngineInv
<1>5. CASE DeliverFinished(h, r)
  <2>1. at[r] = "reported" /\ Drop(r) /\ Replies(r, "finished", mine.pieces) /\ Delivered(h, r)
    BY <1>5 DEF DeliverFinished, Delivering
  <2>2. mine.pieces = Len(got[r]) /\ Len(got[r]) \in Nat
    BY <2>1, Sizes DEF EngineInv, ReportRight
  <2>3. Sent(r) = Len(got[r]) - 0
    BY <2>1 DEF Sent
  <2>4. mine.pieces = Len(out[r]) - 1
    BY <1>2, <2>2, <2>3
  <2> QED
    BY <2>1, <2>2, <2>4, <1>3, ConsumerMoves DEF EngineInv
<1>6. CASE DeliverFailed(h, r)
  <2>1. Replies(r, "error", 0) /\ Delivered(h, r) /\ UNCHANGED <<at, got>>
    BY <1>6 DEF DeliverFailed, engineVars
  <2> QED
    BY <2>1, <1>2, <1>3
<1>7. CASE DeliverBreaks(h, r)
  <2>1. /\ handler' = [handler EXCEPT ![h] = "gone"] /\ link' = [link EXCEPT ![h] = "down"]
        /\ active' = [active EXCEPT ![h] = None] /\ cancelled' = [cancelled EXCEPT ![h] = @ \ {r}]
        /\ UNCHANGED <<inbox, owner, out>>
    BY <1>7 DEF DeliverBreaks, Gone
  <2>2. Drop(r) \/ UNCHANGED <<at, got>>
    BY <1>7 DEF DeliverBreaks, engineVars
  <2>3. at'[r] # "idle" /\ UNCHANGED got /\ \A d \in Calls \ {r} : at'[d] = at[d]
    BY <1>2, <2>2, ConsumerMoves DEF EngineInv
  <2>4. out' = [out EXCEPT ![r] = out[r]]
    BY <1>2, <2>1
  <2> QED
    BY <1>1, <1>2, <2>1, <2>3, <2>4, DeliveryOver
<1> QED
  BY <1>4, <1>5, <1>6, <1>7

\* What is left of an inbox is a part of it.
LEMMA InboxShrinks ==
  ASSUME StreamTypes, NEW h \in Handlers, NEW kind, Reads(h, kind)
  PROVE  /\ inbox' \in [Handlers -> Seq(MessageSet)] /\ \A k \in Handlers \ {h} : inbox'[k] = inbox[k]
         /\ \A i \in 1..Len(inbox'[h]) : i + 1 \in 2..Len(inbox[h]) /\ inbox'[h][i] = inbox[h][i + 1]
<1>1. /\ inbox' = [inbox EXCEPT ![h] = Tail(inbox[h])] /\ Tail(inbox[h]) \in Seq(MessageSet)
      /\ Len(inbox[h]) \in Nat \ {0} /\ Len(Tail(inbox[h])) = Len(inbox[h]) - 1
      /\ \A i \in 1..(Len(inbox[h]) - 1) : Tail(inbox[h])[i] = inbox[h][i + 1]
  BY HeadOfInbox
<1>2. inbox \in [Handlers -> Seq(MessageSet)]
  BY DEF StreamTypes
<1>3. inbox'[h] = Tail(inbox[h])
  BY <1>1, <1>2
<1>4. \A n \in Nat \ {0} : \A i \in 1..(n - 1) : i + 1 \in 2..n
  OBVIOUS
<1> QED
  BY <1>1, <1>2, <1>3, <1>4

\* What was asked for once, and not cancelled, stays so when a message is read.
LEMMA AskedKept ==
  ASSUME StreamInv, NEW h \in Handlers, NEW kind, Reads(h, kind), UNCHANGED owner,
         kind = "synthesize" =>
           \A d \in Calls \ {Head(inbox[h]).request} : at'[d] = at[d],
         kind # "synthesize" => at' = at
  PROVE  AskedOnce'
<1> USE DEF StreamInv
<1>1. /\ \A k \in Handlers \ {h} : inbox'[k] = inbox[k]
      /\ \A i \in 1..Len(inbox'[h]) : i + 1 \in 2..Len(inbox[h]) /\ inbox'[h][i] = inbox[h][i + 1]
  BY InboxShrinks
<1>2. /\ Head(inbox[h]) = inbox[h][1] /\ inbox[h][1].kind = kind /\ 1 \in 1..Len(inbox[h])
      /\ inbox[h][1].request \in Calls /\ Len(inbox[h]) \in Nat
  BY HeadOfInbox
<1>3. \A k \in Handlers : \A i \in 1..Len(inbox[k]) : inbox[k][i].request \in Calls
  BY InboxTypes
<1> SUFFICES ASSUME NEW k \in Handlers, NEW i \in 1..Len(inbox'[k]), inbox'[k][i].kind = "synthesize"
             PROVE  /\ owner[inbox'[k][i].request] = k /\ at'[inbox'[k][i].request] = "idle"
                    /\ \A j \in 1..Len(inbox'[k]) :
                         inbox'[k][j].kind = "synthesize" /\ inbox'[k][j].request = inbox'[k][i].request => j = i
  BY DEF AskedOnce
<1>4. CASE k # h
  <2>1. inbox'[k] = inbox[k] /\ i \in 1..Len(inbox[k]) /\ inbox[k][i].kind = "synthesize"
    BY <1>1, <1>4
  <2>2. /\ owner[inbox[k][i].request] = k /\ at[inbox[k][i].request] = "idle"
        /\ \A j \in 1..Len(inbox[k]) :
             inbox[k][j].kind = "synthesize" /\ inbox[k][j].request = inbox[k][i].request => j = i
    BY <2>1 DEF RequestsRight, AskedOnce
  <2>3. kind = "synthesize" => owner[inbox[h][1].request] = h
    BY <1>2 DEF RequestsRight, AskedOnce
  <2>4. at'[inbox[k][i].request] = at[inbox[k][i].request]
    BY <1>2, <1>3, <1>4, <2>1, <2>2, <2>3
  <2> QED
    BY <2>1, <2>2, <2>4
<1>5. CASE k = h
  <2>1. /\ i + 1 \in 2..Len(inbox[h]) /\ inbox'[h][i] = inbox[h][i + 1] /\ i + 1 \in 1..Len(inbox[h])
        /\ i + 1 # 1 /\ inbox[h][i + 1].kind = "synthesize"
    BY <1>1, <1>2, <1>5
  <2>2. /\ owner[inbox[h][i + 1].request] = h /\ at[inbox[h][i + 1].request] = "idle"
        /\ \A j \in 1..Len(inbox[h]) :
             inbox[h][j].kind = "synthesize" /\ inbox[h][j].request = inbox[h][i + 1].request => j = i + 1
    BY <2>1 DEF RequestsRight, AskedOnce
  <2>3. kind = "synthesize" => inbox[h][i + 1].request # inbox[h][1].request
    BY <1>2, <2>1, <2>2
  <2>4. at'[inbox[h][i + 1].request] = at[inbox[h][i + 1].request]
    BY <1>2, <1>3, <2>1, <2>3
  <2>5. ASSUME NEW j \in 1..Len(inbox'[h]), inbox'[h][j].kind = "synthesize",
               inbox'[h][j].request = inbox'[h][i].request
        PROVE  j = i
    <3>1. j + 1 \in 1..Len(inbox[h]) /\ inbox'[h][j] = inbox[h][j + 1]
      BY <1>1, <1>2
    <3>2. j + 1 = i + 1
      BY <2>1, <2>2, <2>5, <3>1
    <3>3. i \in Int /\ j \in Int
      BY <1>5
    <3> QED
      BY <3>2, <3>3
  <2> QED
    BY <1>5, <2>1, <2>2, <2>4, <2>5
<1> QED
  BY <1>4, <1>5

\* Reading a message keeps a polite connection polite.
LEMMA PoliteKept ==
  ASSUME StreamInv, Polite, NEW h \in Handlers, NEW kind \in {"synthesize", "cancel"}, Reads(h, kind),
         UNCHANGED <<link, owner>>,
         \A k \in Handlers : handler[k] = "gone" => handler'[k] = "gone",
         \A k \in Handlers \ {h} : active'[k] = active[k] /\ cancelled'[k] = cancelled[k],
         kind = "synthesize" => active'[h] = Head(inbox[h]).request /\ cancelled'[h] = cancelled[h],
         kind = "cancel" => active'[h] = active[h] /\ cancelled'[h] = cancelled[h] \union {Head(inbox[h]).request}
  PROVE  Polite'
<1> USE DEF StreamInv
<1>1. /\ \A k \in Handlers \ {h} : inbox'[k] = inbox[k]
      /\ \A i \in 1..Len(inbox'[h]) : i + 1 \in 2..Len(inbox[h]) /\ inbox'[h][i] = inbox[h][i + 1]
  BY InboxShrinks
<1>2. /\ Head(inbox[h]) = inbox[h][1] /\ inbox[h][1].kind = kind /\ 1 \in 1..Len(inbox[h])
      /\ Len(inbox[h]) \in Nat /\ handler[h] = "receive"
  BY HeadOfInbox
<1>3. active[h] = None
  BY <1>2 DEF DeliveryRight
<1>4. \A k \in Handlers : link[k] = "down" => handler'[k] = "gone"
  BY DEF Polite
<1>5. ASSUME NEW k \in Handlers \ {h}
      PROVE  /\ active'[k] # None => active'[k] \notin cancelled'[k]
             /\ \A r \in cancelled'[k] : owner[r] # None
             /\ \A i \in 1..Len(inbox'[k]) : owner[inbox'[k][i].request] = k
             /\ \A i \in 1..Len(inbox'[k]) : inbox'[k][i].kind = "synthesize" =>
                  /\ inbox'[k][i].request \notin cancelled'[k]
                  /\ \A j \in 1..(i - 1) : inbox'[k][j].request # inbox'[k][i].request
  BY <1>1, <1>5 DEF Polite
<1>6. owner[inbox[h][1].request] = h /\ h # None
  BY <1>2, ServiceAssumption DEF Polite
<1>7. active'[h] # None => active'[h] \notin cancelled'[h]
  BY <1>2, <1>3 DEF Polite
<1>8. \A r \in cancelled'[h] : owner[r] # None
  BY <1>2, <1>6 DEF Polite
<1>9. \A i \in 1..Len(inbox'[h]) : i + 1 \in 1..Len(inbox[h]) /\ inbox'[h][i] = inbox[h][i + 1]
  BY <1>1, <1>2
<1>10. \A i \in 1..Len(inbox'[h]) : owner[inbox'[h][i].request] = h
  <2>1. \A i \in 1..Len(inbox[h]) : owner[inbox[h][i].request] = h
    BY DEF Polite
  <2> QED
    BY <1>9, <2>1
<1>11. ASSUME NEW i \in 1..Len(inbox'[h]), inbox'[h][i].kind = "synthesize"
       PROVE  /\ inbox'[h][i].request \notin cancelled'[h]
              /\ \A j \in 1..(i - 1) : inbox'[h][j].request # inbox'[h][i].request
  <2>1. /\ i + 1 \in 1..Len(inbox[h]) /\ inbox'[h][i] = inbox[h][i + 1] /\ inbox[h][i + 1].kind = "synthesize"
        /\ i \in Nat \ {0}
    BY <1>9, <1>11
  <2>2. /\ inbox[h][i + 1].request \notin cancelled[h]
        /\ \A j \in 1..((i + 1) - 1) : inbox[h][j].request # inbox[h][i + 1].request
    BY <2>1 DEF Polite
  <2>3. 1 \in 1..((i + 1) - 1) /\ \A j \in 1..(i - 1) : j \in 1..Len(inbox'[h]) /\ j + 1 \in 1..((i + 1) - 1)
    <3>1. Len(inbox'[h]) \in Nat
      <4>1. inbox'[h] \in Seq(MessageSet)
        BY InboxShrinks
      <4> QED
        BY <4>1, LenProperties
    <3> QED
      BY <2>1, <3>1, <1>11
  <2>4. inbox[h][1].request # inbox[h][i + 1].request
    BY <2>2, <2>3
  <2>5. \A j \in 1..(i - 1) : inbox'[h][j] = inbox[h][j + 1]
    BY <1>9, <2>3
  <2>6. inbox[h][i + 1].request \notin cancelled'[h]
    BY <1>2, <2>2, <2>4
  <2>7. \A j \in 1..(i - 1) : inbox[h][j + 1].request # inbox[h][i + 1].request
    BY <2>2, <2>3
  <2> QED
    BY <2>1, <2>5, <2>6, <2>7
<1> QED
  BY <1>4, <1>5, <1>7, <1>8, <1>10, <1>11 DEF Polite

\* A request is begun.
LEMMA SynthesizeStep ==
  ASSUME EngineInv, StreamInv, NEW h \in Handlers, Synthesize(h), UNCHANGED faults
  PROVE  StreamInv'
<1> USE DEF StreamInv
<1>0. Reads(h, "synthesize")
  BY DEF Synthesize
<1>r. PICK r \in Calls : r = Head(inbox[h]).request
  BY <1>0, HeadOfInbox
<1>1. /\ Reads(h, "synthesize") /\ active[h] = None /\ (Call(r) \/ CallRefused(r))
      /\ active' = [active EXCEPT ![h] = r] /\ out' = [out EXCEPT ![r] = <<Answer("started", 0)>>]
      /\ handler' = [handler EXCEPT ![h] = "deliver"] /\ UNCHANGED <<link, cancelled, owner, faults>>
  BY <1>r DEF Synthesize
<1>2. /\ r \in Calls /\ r = inbox[h][1].request /\ inbox[h][1].kind = "synthesize" /\ 1 \in 1..Len(inbox[h])
      /\ handler[h] = "receive"
  BY <1>r, <1>1, HeadOfInbox
<1>3. owner[r] = h /\ h # None /\ r # None
  BY <1>2, ServiceAssumption, EngineAssumption DEF RequestsRight, AskedOnce
<1>4. /\ at[r] = "idle" /\ at'[r] \in {"turn", "unavailable"} /\ UNCHANGED <<got, mine>>
      /\ \A d \in Calls \ {r} : at'[d] = at[d]
  BY <1>1, <1>2 DEF Call, CallRefused, Goes, EngineInv, EngineTypes
<1>5. got[r] = <<>>
  BY <1>2, <1>4 DEF EngineInv, ReportRight
<1>6. Answer("started", 0) \in Replied /\ Answer("started", 0).kind = "started"
  BY DEF Answer, Replied
<1>7. /\ out'[r] = <<Answer("started", 0)>> /\ out'[r] \in Seq(Replied) /\ Len(out'[r]) = 1 /\ out'[r] # <<>>
      /\ \A d \in Calls \ {r} : out'[d] = out[d]
  BY <1>1, <1>2, <1>6 DEF StreamTypes
<1>8. StreamTypes'
  <2>1. inbox' \in [Handlers -> Seq(MessageSet)]
    BY <1>1, InboxShrinks
  <2>2. out' \in [Calls -> Seq(Replied)]
    BY <1>1, <1>7 DEF StreamTypes
  <2> QED
    BY <1>1, <1>2, <2>1, <2>2 DEF StreamTypes
<1>9. /\ active'[h] = r /\ handler'[h] = "deliver"
      /\ \A k \in Handlers \ {h} : active'[k] = active[k] /\ handler'[k] = handler[k]
  BY <1>1 DEF StreamTypes
<1>10. \A k \in Handlers : active[k] # r
  BY <1>2, <1>3, <1>4 DEF DeliveryRight, Asked, Over
<1>11. DeliveryRight'
  <2>1. \A d \in Calls : at'[d] # "idle" => owner'[d] # None
    BY <1>1, <1>3, <1>4 DEF DeliveryRight
  <2>2. \A k \in Handlers \ {h} : active[k] # None => active[k] \in Calls \ {r}
    BY <1>10 DEF StreamTypes
  <2>3. at'[r] \in {"turn"} \union Asked \union Over
    BY <1>4 DEF Over
  <2>4. \A k \in Handlers \ {h} : /\ handler'[k] = "deliver" <=> active'[k] # None
                                  /\ active'[k] # None => owner'[active'[k]] = k /\ at'[active'[k]] \in {"turn"} \union Asked \union Over
    BY <1>1, <1>4, <1>9, <2>2 DEF DeliveryRight
  <2> QED
    BY <1>1, <1>3, <1>9, <2>1, <2>3, <2>4 DEF DeliveryRight
<1>12. RepliesRight'
  <2>1. InOrder(out'[r]) /\ Open(out'[r])
    BY <1>6, <1>7 DEF InOrder, Open
  <2>2. Len(out'[r]) = 1 + Sent(r)'
    <3>1. Sent(r)' = Len(got[r]) - 0
      BY <1>4 DEF Sent
    <3>2. Len(got[r]) = 0
      BY <1>5, EmptySeq
    <3> QED
      BY <1>7, <3>1, <3>2
  <2>3. \A d \in Calls \ {r} : Sent(d)' = Sent(d)
    BY <1>4 DEF Sent
  <2>4. ASSUME NEW d \in Calls
        PROVE  /\ at'[d] = "idle" <=> out'[d] = <<>>
               /\ InOrder(out'[d])
               /\ \A k \in Handlers : active'[k] = d => Open(out'[d]) /\ Len(out'[d]) = 1 + Sent(d)'
    <3>1. CASE d = r
      BY <1>4, <1>7, <2>1, <2>2, <3>1
    <3>2. CASE d # r
      BY <1>4, <1>7, <1>9, <2>3, <3>2 DEF RepliesRight
    <3> QED
      BY <3>1, <3>2
  <2> QED
    BY <2>4 DEF RepliesRight, InOrder, Open
<1>13. AskedOnce'
  BY <1>r, <1>1, <1>4, AskedKept
<1>14. ASSUME "abandon" \notin faults PROVE Polite'
  <2>1. Polite
    BY <1>14 DEF RequestsRight
  <2>2. \A k \in Handlers : handler[k] = "gone" => handler'[k] = "gone"
    BY <1>2, <1>9
  <2>3. active'[h] = Head(inbox[h]).request
    BY <1>r, <1>9
  <2> QED
    BY <1>1, <1>9, <2>1, <2>2, <2>3, PoliteKept
<1> QED
  BY <1>1, <1>8, <1>11, <1>12, <1>13, <1>14 DEF RequestsRight

\* A cancel is read.
LEMMA CancelStep ==
  ASSUME EngineInv, StreamInv, NEW h \in Handlers, Cancel(h), UNCHANGED faults
  PROVE  StreamInv'
<1> USE DEF StreamInv
<1>1. /\ Reads(h, "cancel") /\ cancelled' = [cancelled EXCEPT ![h] = @ \union {Head(inbox[h]).request}]
      /\ UNCHANGED <<at, got, mine, faults, handler, link, active, owner, out>>
  BY DEF Cancel, engineVars
<1>2. StreamTypes'
  <2>1. Head(inbox[h]).request \in Calls /\ inbox' \in [Handlers -> Seq(MessageSet)]
    BY <1>1, HeadOfInbox, InboxShrinks
  <2> QED
    BY <1>1, <2>1 DEF StreamTypes
<1>3. DeliveryRight' /\ RepliesRight'
  BY <1>1, DeliveryKept, RepliesKept
<1>4. AskedOnce'
  BY <1>1, AskedKept
<1>5. ASSUME "abandon" \notin faults PROVE Polite'
  <2>1. Polite
    BY <1>5 DEF RequestsRight
  <2>2. /\ \A k \in Handlers \ {h} : active'[k] = active[k] /\ cancelled'[k] = cancelled[k]
        /\ active'[h] = active[h] /\ cancelled'[h] = cancelled[h] \union {Head(inbox[h]).request}
    BY <1>1 DEF StreamTypes
  <2> QED
    BY <1>1, <2>1, <2>2, PoliteKept
<1> QED
  BY <1>1, <1>2, <1>3, <1>4, <1>5 DEF RequestsRight

\* The receive loop is left.
LEMMA LoopEndsStep ==
  ASSUME EngineInv, StreamInv, NEW h \in Handlers, LoopEnds(h), UNCHANGED faults
  PROVE  StreamInv'
<1> USE DEF StreamInv
<1>1. /\ handler[h] = "receive" /\ handler' = [handler EXCEPT ![h] = "gone"]
      /\ UNCHANGED <<at, got, mine, faults, link, inbox, active, cancelled, owner, out>>
  BY DEF LoopEnds, Gone, engineVars
<1>2. StreamTypes'
  BY <1>1 DEF StreamTypes
<1>3. handler'[h] = "gone" /\ \A k \in Handlers \ {h} : handler'[k] = handler[k]
  BY <1>1 DEF StreamTypes
<1>4. RepliesRight'
  BY <1>1, RepliesKept
<1>5. DeliveryRight'
  BY <1>1, <1>3 DEF DeliveryRight
<1>6. RequestsRight'
  BY <1>1, <1>3 DEF RequestsRight, AskedOnce, Polite
<1> QED
  BY <1>2, <1>4, <1>5, <1>6

-----------------------------------------------------------------------------
(* The service: its theorems. *)

\* Every step of the service, and none, keeps its invariant.
LEMMA ServiceStepKeeps ==
  ASSUME ServiceInv, [Next]_vars
  PROVE  ServiceInv'
<1> USE DEF ServiceInv
<1>1. EngineInv'
  BY ServiceDrives, EngineStepKeeps
<1>2. StreamInv'
  <2>1. CASE UNCHANGED vars
    <3>1. UNCHANGED <<at, got, mine, faults, handler, link, inbox, active, cancelled, owner, out>>
      BY <2>1 DEF vars
    <3>2. DeliveryRight' /\ RepliesRight'
      BY <3>1, DeliveryKept, RepliesKept DEF StreamInv
    <3>3. StreamTypes' /\ RequestsRight'
      BY <3>1 DEF StreamInv, StreamTypes, RequestsRight, AskedOnce, Polite
    <3> QED
      BY <3>2, <3>3 DEF StreamInv
  <2>2. CASE Next
    <3>1. UNCHANGED faults
      BY <2>2 DEF Next
    <3>2. CASE EngineStep /\ UNCHANGED streamVars
      BY <3>1, <3>2, EngineStream
    <3>3. ASSUME NEW h \in Handlers, ClientStep(h) PROVE StreamInv'
      BY <3>1, <3>3, ClientStream
    <3>4. ASSUME NEW h \in Handlers, HandlerStep(h) PROVE StreamInv'
      <4>1. CASE DeliverStep(h)
        BY <3>1, <4>1, DeliverPieceStep, DeliverEnds DEF DeliverStep
      <4> QED
        BY <3>1, <3>4, <4>1, SynthesizeStep, CancelStep, LoopEndsStep DEF HandlerStep
    <3> QED
      BY <2>2, <3>2, <3>3, <3>4 DEF Next
  <2> QED
    BY <2>1, <2>2
<1> QED
  BY <1>1, <1>2

\* The service starts in its invariant.
LEMMA ServiceStarts == Init => ServiceInv
<1> SUFFICES ASSUME Init PROVE ServiceInv
  OBVIOUS
<1>1. EngineInv
  BY EngineStarts DEF Init
<1>2. /\ handler = [h \in Handlers |-> "receive"] /\ link = [h \in Handlers |-> "up"]
      /\ inbox = [h \in Handlers |-> <<>>] /\ active = [h \in Handlers |-> None]
      /\ cancelled = [h \in Handlers |-> {}] /\ owner = [r \in Calls |-> None] /\ out = [r \in Calls |-> <<>>]
      /\ at = [c \in Calls |-> "idle"]
  BY DEF Init, EngineInit
<1>3. StreamTypes /\ DeliveryRight
  BY <1>2 DEF StreamTypes, DeliveryRight
<1>4. RepliesRight /\ RequestsRight
  BY <1>2, EmptySeq, EngineAssumption DEF RepliesRight, InOrder, RequestsRight, AskedOnce, Polite
<1> QED
  BY <1>1, <1>3, <1>4 DEF ServiceInv, StreamInv

(* What holds of the service: its connections, the requests on them, the
   replies sent, and the engine underneath. *)
THEOREM ServiceCorrect == Spec => []ServiceInv
  BY ServiceStarts, ServiceStepKeeps, PTL DEF Spec

(* The service uses the engine as the engine's own specification has it:
   whatever happens on the connections, every step is one of EngineSpec or
   none, and a generator is let go of before its report only in behaviours
   where a client may abandon a request. *)
THEOREM ServiceDrivesEngine == Spec => DrivesEngine
<1>1. Init => EngineInit
  BY DEF Init
<1>2. ServiceInv /\ [Next]_vars => [EngineNext]_engineVars
  BY ServiceDrives DEF ServiceInv
<1> QED
  BY <1>1, <1>2, ServiceCorrect, PTL DEF Spec, DrivesEngine, EngineSpec

(* So are the requests of the service, for any faults: their audio is mixed
   only after one of them was given up. *)
THEOREM OwnRequests == Spec => []OwnUnlessGivenUp
<1>1. ServiceInv => OwnUnlessGivenUp
  BY KeptMeans DEF ServiceInv, Kept, OwnUnlessGivenUp
<1> QED
  BY <1>1, ServiceCorrect, PTL

\* Audio is all that is between started and finished.
LEMMA AudioCounted ==
  ASSUME NEW replies \in Seq(Replied), InOrder(replies), NEW n \in 1..Len(replies), replies[n].kind = "finished"
  PROVE  Cardinality({i \in 1..Len(replies) : replies[i].kind = "audio"}) = replies[n].pieces
<1>1. Len(replies) \in Nat /\ n = Len(replies) /\ replies[n].pieces = Len(replies) - 2
  <2>1. Len(replies) \in Nat
    BY LenProperties
  <2> QED
    BY <2>1 DEF InOrder
<1>2. Len(replies) # 1
  <2>1. n = 1 => replies[n].kind = "started"
    BY DEF InOrder
  <2> QED
    BY <1>1, <2>1
<1>3. \A i \in 1..Len(replies) : replies[i].kind \in {"started", "audio", "finished", "cancelled", "error"}
  <2>1. \A i \in 1..Len(replies) : replies[i] \in Replied
    BY ElementOfSeq
  <2> QED
    BY <2>1 DEF Replied
<1>4. {i \in 1..Len(replies) : replies[i].kind = "audio"} = 2..(Len(replies) - 1)
  <2>1. ASSUME NEW i \in 1..Len(replies), replies[i].kind = "audio" PROVE i \in 2..(Len(replies) - 1)
    <3>1. i # 1 /\ i # n
      BY <2>1 DEF InOrder
    <3> QED
      BY <1>1, <3>1
  <2>2. ASSUME NEW i \in 2..(Len(replies) - 1) PROVE i \in 1..Len(replies) /\ replies[i].kind = "audio"
    <3>1. i \in 1..Len(replies) /\ i # 1 /\ i # Len(replies)
      BY <1>1, <2>2
    <3> QED
      BY <1>3, <3>1 DEF InOrder
  <2> QED
    BY <2>1, <2>2
<1>5. Cardinality(2..(Len(replies) - 1)) = IF 2 > Len(replies) - 1 THEN 0 ELSE (Len(replies) - 1) - 2 + 1
  <2>1. 2 \in Int /\ Len(replies) - 1 \in Int
    BY <1>1
  <2> QED
    BY <2>1, FS_Interval
<1>6. Len(replies) \in Nat \ {0, 1}
  BY <1>1, <1>2
<1>7. \A k \in Nat \ {0, 1} : (IF 2 > k - 1 THEN 0 ELSE (k - 1) - 2 + 1) = k - 2
  OBVIOUS
<1> QED
  BY <1>1, <1>4, <1>5, <1>6, <1>7

(* Every request is answered once and in order, and its finished reply counts
   exactly the audio its client was sent. *)
THEOREM RequestsAnswered == Spec => []AnsweredWhole
<1>1. ServiceInv => AnsweredWhole
  <2> SUFFICES ASSUME ServiceInv PROVE AnsweredWhole
    OBVIOUS
  <2>1. \A r \in Calls : out[r] \in Seq(Replied) /\ InOrder(out[r])
    BY DEF ServiceInv, StreamInv, StreamTypes, RepliesRight
  <2>2. AnsweredOnce
    BY <2>1 DEF AnsweredOnce, InOrder
  <2>3. FinishedCounts
    BY <2>1, AudioCounted DEF FinishedCounts, AudioSent
  <2> QED
    BY <2>2, <2>3 DEF AnsweredWhole
<1> QED
  BY <1>1, ServiceCorrect, PTL

=============================================================================
