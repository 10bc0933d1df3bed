------------------------------ MODULE TtsService ------------------------------
(***************************************************************************)
(* eidolon_models_tts/service.py: stream(), the WebSocket handler of the   *)
(* TTS service, and its deliver(), which drives one generator of           *)
(* Engine.synthesize() (TtsEngine).  Several connections share the engine. *)
(*                                                                         *)
(* A request is the call it makes.  Messages that change nothing here (a   *)
(* ping, audio, malformed JSON, text the protocol refuses) are answered    *)
(* and left out.                                                           *)
(***************************************************************************)
EXTENDS TtsEngine

CONSTANTS
  Handlers,      (* connections                                           *)
  MaxInbox,      (* messages a client may be ahead of its handler         *)
  Cancels        (* cancels clients send: of what they asked for ("own"),  *)
                 (* of what they have not asked for yet ("early")         *)

ASSUME ServiceAssumption ==
  /\ MaxInbox \in Nat \ {0}
  /\ Cancels \subseteq {"own", "early"}
  /\ None \notin Handlers

VARIABLES
  handler,       (* where each handler is suspended                       *)
  link,          (* "up" or "down"                                        *)
  inbox,         (* messages the handler has not read                     *)
  active,        (* the request being delivered                           *)
  cancelled,     (* ids a cancel has named                                *)
  owner,         (* the connection a request was sent on                  *)
  out            (* replies to each request                               *)

streamVars == <<handler, link, inbox, active, cancelled, owner, out>>
vars == <<faults, engine, stdin, speaking, written, pipe, arrived, stderr, line,
          reports, mine, at, got, handler, link, inbox, active, cancelled, owner, out>>

Init ==
  /\ EngineInit
  /\ handler = [h \in Handlers |-> "receive"]
  /\ link = [h \in Handlers |-> "up"]
  /\ inbox = [h \in Handlers |-> <<>>]
  /\ active = [h \in Handlers |-> None]
  /\ cancelled = [h \in Handlers |-> {}]
  /\ owner = [r \in Calls |-> None]
  /\ out = [r \in Calls |-> <<>>]

Message(kind, r) == [kind |-> kind, request |-> r]
Answer(kind, n) == [kind |-> kind, pieces |-> n]

-----------------------------------------------------------------------------
(* The client *)

Arrives(h, m) ==
  /\ link[h] = "up"
  /\ Len(inbox[h]) < MaxInbox
  /\ inbox' = [inbox EXCEPT ![h] = Append(@, m)]

AskToSpeak(h, r) ==
  /\ owner[r] = None
  /\ Arrives(h, Message("synthesize", r))
  /\ owner' = [owner EXCEPT ![r] = h]
  /\ UNCHANGED <<engineVars, handler, link, active, cancelled, out>>

AskToStop(h, r) ==
  /\ \/ "own" \in Cancels /\ owner[r] = h
     \/ "early" \in Cancels /\ "abandon" \in faults /\ owner[r] = None
  /\ Arrives(h, Message("cancel", r))
  /\ UNCHANGED <<engineVars, handler, link, active, cancelled, owner, out>>

\* The client goes away, or its heartbeat stays out.
HangUp(h) ==
  /\ "abandon" \in faults
  /\ link[h] = "up"
  /\ link' = [link EXCEPT ![h] = "down"]
  /\ UNCHANGED <<engineVars, handler, inbox, active, cancelled, owner, out>>

-----------------------------------------------------------------------------
(* The receive loop: one message at a time, deliver() included. *)

Reads(h, kind) ==
  /\ handler[h] = "receive"
  /\ inbox[h] # <<>>
  /\ Head(inbox[h]).kind = kind
  /\ inbox' = [inbox EXCEPT ![h] = Tail(@)]

\* deliver() begins: started, then the first step of the generator.  The
\* answer `synthesis_in_progress` needs an active request here, which there
\* never is.
Synthesize(h) ==
  /\ Reads(h, "synthesize")
  /\ active[h] = None
  /\ LET r == Head(inbox[h]).request
     IN /\ Call(r) \/ CallRefused(r)
        /\ active' = [active EXCEPT ![h] = r]
        /\ out' = [out EXCEPT ![r] = <<Answer("started", 0)>>]
  /\ handler' = [handler EXCEPT ![h] = "deliver"]
  /\ UNCHANGED <<link, cancelled, owner>>

Cancel(h) ==
  /\ Reads(h, "cancel")
  /\ cancelled' = [cancelled EXCEPT ![h] = @ \union {Head(inbox[h]).request}]
  /\ UNCHANGED <<engineVars, handler, link, active, owner, out>>

\* `async for message in socket` ends, or the handler ends with an exception.
Gone(h) == handler' = [handler EXCEPT ![h] = "gone"]

LoopEnds(h) ==
  /\ handler[h] = "receive"
  /\ link[h] = "down"
  /\ inbox[h] = <<>>
  /\ Gone(h)
  /\ UNCHANGED <<engineVars, link, inbox, active, cancelled, owner, out>>

-----------------------------------------------------------------------------
(* deliver() *)

Delivering(h, r, places) ==
  /\ handler[h] = "deliver"
  /\ active[h] = r
  /\ at[r] \in places

Replies(r, kind, n) == out' = [out EXCEPT ![r] = Append(@, Answer(kind, n))]

\* The finally clause; the handler reads on.
Delivered(h, r) ==
  /\ active' = [active EXCEPT ![h] = None]
  /\ cancelled' = [cancelled EXCEPT ![h] = @ \ {r}]
  /\ handler' = [handler EXCEPT ![h] = "receive"]
  /\ UNCHANGED <<link, inbox, owner>>

\* Mutant: deliver() leaves the generator after its first piece.
DeliverOnePiece(h, r) ==
  /\ Delivering(h, r, {"yielded", "tail_yielded"})
  /\ r \notin cancelled[h]
  /\ link[h] = "up"
  /\ Drop(r)
  /\ Replies(r, "finished", 1)
  /\ Delivered(h, r)

\* Mutant: the piece is sent a second time when the next one is asked for.
DeliverPieceTwice(h, r) ==
  /\ Delivering(h, r, {"yielded", "tail_yielded"})
  /\ r \notin cancelled[h]
  /\ link[h] = "up"
  /\ Resume(r)
  /\ out' = [out EXCEPT ![r] = @ \o <<Answer("audio", 1), Answer("audio", 1)>>]
  /\ UNCHANGED <<handler, link, inbox, active, cancelled, owner>>

DeliverPiece(h, r) ==
  /\ Delivering(h, r, {"yielded", "tail_yielded"})
  /\ r \notin cancelled[h]
  /\ link[h] = "up"
  /\ Resume(r)
  /\ Replies(r, "audio", 1)
  /\ UNCHANGED <<handler, link, inbox, active, cancelled, owner>>

DeliverCancelled(h, r) ==
  /\ Delivering(h, r, {"yielded", "tail_yielded", "reported"})
  /\ r \in cancelled[h]
  /\ link[h] = "up"
  /\ Drop(r)
  /\ Replies(r, "cancelled", 0)
  /\ Delivered(h, r)

\* The report: finished, with the count of the report.
DeliverFinished(h, r) ==
  /\ Delivering(h, r, {"reported"})
  /\ r \notin cancelled[h]
  /\ link[h] = "up"
  /\ Replies(r, "finished", mine.pieces)
  /\ Drop(r)
  /\ Delivered(h, r)

\* SynthesisFailed or EngineUnavailable.
DeliverFailed(h, r) ==
  /\ Delivering(h, r, {"failed", "unavailable"})
  /\ link[h] = "up"
  /\ Replies(r, "error", 0)
  /\ Delivered(h, r)
  /\ UNCHANGED engineVars

\* A send on a lost connection raises; so does what deliver() does not catch.
\* The handler ends and the generator is dropped with its frame.
DeliverBreaks(h, r) ==
  /\ \/ Delivering(h, r, {"yielded", "tail_yielded", "reported"}) /\ link[h] = "down" /\ Drop(r)
     \/ Delivering(h, r, {"failed", "unavailable"}) /\ link[h] = "down" /\ UNCHANGED engineVars
     \/ Delivering(h, r, {"broken"}) /\ UNCHANGED engineVars
  /\ Gone(h)
  /\ link' = [link EXCEPT ![h] = "down"]
  /\ active' = [active EXCEPT ![h] = None]
  /\ cancelled' = [cancelled EXCEPT ![h] = @ \ {r}]
  /\ UNCHANGED <<inbox, owner, out>>

-----------------------------------------------------------------------------
ClientStep(h) ==
  \/ \E r \in Calls : AskToSpeak(h, r) \/ AskToStop(h, r)
  \/ HangUp(h)

DeliverStep(h) == \E r \in Calls :
  \/ DeliverPiece(h, r) \/ DeliverCancelled(h, r) \/ DeliverFinished(h, r)
  \/ DeliverFailed(h, r) \/ DeliverBreaks(h, r)

HandlerStep(h) ==
  \/ Synthesize(h) \/ Cancel(h) \/ LoopEnds(h) \/ DeliverStep(h)

EngineStep == ProcessStep \/ \E r \in Calls : GeneratorStep(r)

Next ==
  /\ UNCHANGED faults
  /\ \/ \E h \in Handlers : ClientStep(h) \/ HandlerStep(h)
     \/ EngineStep /\ UNCHANGED streamVars

Spec == Init /\ [][Next]_vars

\* The event loop runs what can run, timers included, and reads pipes that
\* have something to read; clients owe nothing, and neither does the process.
Fairness ==
  /\ \A h \in Handlers : WF_vars(HandlerStep(h) /\ UNCHANGED faults)
  /\ \A r \in Calls : WF_vars(GeneratorStep(r) /\ UNCHANGED <<faults, streamVars>>)
  /\ WF_vars(AudioArrives /\ UNCHANGED <<faults, streamVars>>)
  /\ WF_vars(ReportArrives /\ UNCHANGED <<faults, streamVars>>)

FairSpec == Spec /\ Fairness

-----------------------------------------------------------------------------
AudioSent(r) == {i \in 1..Len(out[r]) : out[r][i].kind = "audio"}

(* A request is answered once and in order: started, audio, then one of
   finished, cancelled and error, and nothing more. *)
AnsweredOnce ==
  \A r \in Calls : \A i \in 1..Len(out[r]) :
    /\ out[r][i].kind = "started" <=> i = 1
    /\ out[r][i].kind \in {"finished", "cancelled", "error"} => i = Len(out[r])

(* The pcm_bytes of a finished request is the audio its client was sent, as
   the service's own test asks, whatever earlier requests left behind. *)
FinishedCounts ==
  \A r \in Calls : \A i \in 1..Len(out[r]) :
    out[r][i].kind = "finished" => Cardinality(AudioSent(r)) = out[r][i].pieces

(* What a client may rely on of any request: both of the above. *)
AnsweredWhole == AnsweredOnce /\ FinishedCounts

(* However connections interleave, the service uses the engine the way the
   engine's bookkeeping needs: one command at a time, and each generator is
   asked until its report, or dropped before it only when a client left or
   cancelled what it had not asked for yet. *)
DrivesEngine == EngineSpec

(* A cancel that has reached the service stops the delivery it names. *)
CancelStopsAudio ==
  [][\A h \in Handlers, r \in Calls :
       DeliverPiece(h, r) => Message("cancel", r) \notin ToSet(inbox[h])]_vars

(* No request wedges its connection: the handler comes back to the receive
   loop or leaves, whatever the process does and whoever had the turn. *)
DeliveryEnds == \A h \in Handlers : handler[h] = "deliver" ~> handler[h] # "deliver"

=============================================================================
