------------------------------ MODULE AsrService ------------------------------
(***************************************************************************)
(* eidolon_models_asr/service.py: the WebSocket handlers of the ASR        *)
(* service, the UtteranceContext each of them drives and the activation    *)
(* task of a queued utterance, sharing one CapacityManager (AsrCapacity).  *)
(*                                                                         *)
(* All of it runs on one event loop, so a step here is what a task does    *)
(* from one await that really suspends to the next.  An uncontended        *)
(* asyncio.Lock, a reserve(), a release() do not suspend and are part of   *)
(* the step that calls them.                                               *)
(*                                                                         *)
(* Audio packets of an utterance are numbered 1, 2, ... in the order the   *)
(* client sends them; recognized text is left out, and a session is the    *)
(* sequence of packets it was fed.                                         *)
(***************************************************************************)
EXTENDS Integers, Sequences, FiniteSets, SequencesExt

CONSTANTS
  Conns,           (* client connections, each served by one handler      *)
  Leases, Slots, MaxQueued, MaxConnections,     (* as in AsrCapacity      *)
  MaxPackets,      (* max_utterance_seconds, in packets                   *)
  Faults,          (* what the environment may do, see FaultKinds         *)
  None             (* Python's None                                       *)

(* "start_blocks":      the transport of a client that reads slowly is
                        paused, so send(utterance_started) suspends;
   "constructor_fails": backend.new_session() raises in
                        UtteranceContext.__init__;
   "activation_fails":  backend.new_session() raises in _activate();
   "inference_fails":   feed_pcm16() or finish() raises in its thread. *)
FaultKinds == {"start_blocks", "constructor_fails", "activation_fails", "inference_fails"}

ASSUME ServiceAssumption ==
  /\ MaxPackets \in Nat
  /\ Slots \in Nat \ {0} /\ MaxQueued \in Nat /\ MaxConnections \in Nat \ {0}
  /\ Faults \subseteq FaultKinds
  /\ None \notin Leases /\ None \notin Seq(Nat)

VARIABLES
  \* the CapacityManager
  connections, admitted, active, waiters, made, holding, released, ready, position,
  \* the handler of a connection
  pc,              (* the await it is suspended in                        *)
  link,            (* "up", or "down" once either side has closed         *)
  \* its UtteranceContext
  lease,           (* None while there is no context                      *)
  session,         (* None, or the packets the session was fed            *)
  buffer,          (* packets kept while the utterance waits              *)
  failed,          (* _failure is set                                     *)
  lock,            (* holder of _state_lock                               *)
  task,            (* state of the activation task                        *)
  chunks,          (* buffered packets _activate() has still to feed      *)
  \* the conversation
  sent,            (* packets the client has sent in this utterance       *)
  wire             (* what the client got since its last start_utterance  *)

capacityVars == <<connections, admitted, active, waiters, made, holding,
                  released, ready, position>>
contextVars == <<lease, session, buffer, failed, lock, task, chunks>>
vars == <<connections, admitted, active, waiters, made, holding, released,
          ready, position, pc, link, lease, session, buffer, failed, lock,
          task, chunks, sent, wire>>

Cap == INSTANCE AsrCapacity WITH Handlers <- Conns

-----------------------------------------------------------------------------
Init ==
  /\ Cap!Init
  /\ pc = [c \in Conns |-> "away"]
  /\ link = [c \in Conns |-> "down"]
  /\ lease = [c \in Conns |-> None]
  /\ session = [c \in Conns |-> None]
  /\ buffer = [c \in Conns |-> <<>>]
  /\ failed = [c \in Conns |-> FALSE]
  /\ lock = [c \in Conns |-> "free"]
  /\ task = [c \in Conns |-> "none"]
  /\ chunks = [c \in Conns |-> <<>>]
  /\ sent = [c \in Conns |-> 0]
  /\ wire = [c \in Conns |-> <<>>]

Goto(c, where) == pc' = [pc EXCEPT ![c] = where]

\* _send(): nothing goes out on a closed connection.
Reply(c, kind) ==
  wire' = IF link[c] = "up" THEN [wire EXCEPT ![c] = Append(@, kind)] ELSE wire

\* _send_results(): a fed packet yields interim results or none; `wire` takes
\* consecutive ones for one.
Interim(c) ==
  \/ UNCHANGED wire
  \/ Last(wire[c]) # "interim" /\ Reply(c, "interim")

Receiving(c) == pc[c] = "receive" /\ link[c] = "up"

-----------------------------------------------------------------------------
(* Connections. *)

\* A client connects: open_connection(), prepare(), the `connected` message.
\* (One that finds all connections taken gets 503, and nothing changes.)
Open(c) ==
  /\ pc[c] = "away"
  /\ Cap!OpenConnection(c)
  /\ Goto(c, "receive")
  /\ link' = [link EXCEPT ![c] = "up"]
  /\ UNCHANGED <<contextVars, sent, wire>>

\* The client closes, asks for it with close_stream, or is cut off.
Disconnect(c) ==
  /\ link[c] = "up"
  /\ link' = [link EXCEPT ![c] = "down"]
  /\ UNCHANGED <<capacityVars, pc, contextVars, sent, wire>>

\* An exception clause of stream(): send the error, close the socket.
Rejected(c) ==
  /\ pc[c] = "rejecting"
  /\ Goto(c, "exit")
  /\ Reply(c, "error")
  /\ link' = [link EXCEPT ![c] = "down"]
  /\ UNCHANGED <<capacityVars, contextVars, sent>>

\* A message the protocol does not allow here: audio or an end without an
\* utterance, a second start, an odd number of bytes, an unknown type.
BadMessage(c) ==
  /\ Receiving(c)
  /\ Goto(c, "rejecting")
  /\ UNCHANGED <<capacityVars, link, contextVars, sent, wire>>

\* The receive loop ends when the connection is gone.
LoopEnds(c) ==
  /\ pc[c] = "receive"
  /\ link[c] = "down"
  /\ Goto(c, "exit")
  /\ UNCHANGED <<capacityVars, link, contextVars, sent, wire>>

-----------------------------------------------------------------------------
(* start_utterance *)

\* start_activation(): a task only for a lease that is not active by now.
ActivationTask(isActive) == IF isActive THEN "none" ELSE "waiting"

\* UtteranceContext.__init__: a session at once if the lease is active.
NewContext(c, l, isActive) ==
  /\ lease' = [lease EXCEPT ![c] = l]
  /\ session' = [session EXCEPT ![c] = IF isActive THEN <<>> ELSE None]
  /\ buffer' = [buffer EXCEPT ![c] = <<>>]
  /\ failed' = [failed EXCEPT ![c] = FALSE]
  /\ lock' = [lock EXCEPT ![c] = "free"]
  /\ chunks' = [chunks EXCEPT ![c] = <<>>]
  /\ sent' = [sent EXCEPT ![c] = 0]
  /\ wire' = [wire EXCEPT ![c] = <<IF isActive THEN "started" ELSE "queued">>]

\* Whose transport may be paused when utterance_started is sent.
SlowReaders == IF "start_blocks" \in Faults THEN Conns ELSE {}

\* send(utterance_started), then start_activation(): in one step, or with
\* the handler suspended in between.
AnnounceStart(c, isActive) ==
  \/ /\ Goto(c, "receive")
     /\ task' = [task EXCEPT ![c] = ActivationTask(isActive)]
  \/ /\ c \in SlowReaders
     /\ Goto(c, "announce")
     /\ task' = [task EXCEPT ![c] = "none"]

Start(c, l) ==
  /\ Receiving(c)
  /\ lease[c] = None
  /\ \/ Cap!ReserveNow(l) /\ NewContext(c, l, TRUE) /\ AnnounceStart(c, TRUE)
     \/ Cap!ReserveQueued(l) /\ NewContext(c, l, FALSE) /\ AnnounceStart(c, FALSE)
  /\ UNCHANGED link

\* capacity_exceeded: there is no lease and no context.
StartRefused(c) ==
  /\ Receiving(c)
  /\ lease[c] = None
  /\ Cap!ReserveRefused
  /\ Goto(c, "rejecting")
  /\ UNCHANGED <<link, contextVars, sent, wire>>

\* new_session() raises in the constructor: `context` stays None, so nobody
\* owns the lease that was just reserved.
StartFails(c, l) ==
  /\ "constructor_fails" \in Faults
  /\ Receiving(c)
  /\ lease[c] = None
  /\ Cap!ReserveNow(l)
  /\ Goto(c, "rejecting")
  /\ UNCHANGED <<link, contextVars, sent, wire>>

\* send(utterance_started) returns after a suspension: start_activation()
\* looks at the lease only now.
StartAnnounced(c) ==
  /\ pc[c] = "announce"
  /\ Goto(c, "receive")
  /\ task' = [task EXCEPT ![c] = ActivationTask(lease[c] \in holding)]
  /\ UNCHANGED <<capacityVars, link, lease, session, buffer, failed, lock, chunks, sent, wire>>

\* ... or raises because the connection is lost.
StartSendFails(c) ==
  /\ pc[c] = "announce"
  /\ link[c] = "down"
  /\ Goto(c, "rejecting")
  /\ UNCHANGED <<capacityVars, link, contextVars, sent, wire>>

-----------------------------------------------------------------------------
(* Audio: UtteranceContext.feed(). *)

\* The part under _state_lock: buffer the packet, or start feeding it.
FeedLocked(c, packet) ==
  /\ lock[c] = "free"
  /\ \/ /\ session[c] = None
        /\ buffer' = [buffer EXCEPT ![c] = Append(@, packet)]
        /\ Goto(c, "receive")
        /\ UNCHANGED lock
     \/ /\ session[c] # None
        /\ lock' = [lock EXCEPT ![c] = "handler"]
        /\ Goto(c, "feed")
        /\ UNCHANGED buffer

Audio(c) ==
  /\ Receiving(c)
  /\ lease[c] # None
  /\ sent[c] < MaxPackets
  /\ ~failed[c]
  /\ sent' = [sent EXCEPT ![c] = @ + 1]
  /\ \/ FeedLocked(c, sent[c] + 1)
     \/ /\ lock[c] # "free"
        /\ Goto(c, "feed_lock")
        /\ UNCHANGED <<lock, buffer>>
  /\ UNCHANGED <<capacityVars, link, lease, session, failed, task, chunks, wire>>

\* UtteranceLimitError, or the CapacityError of a timeout the activation
\* task has recorded.
AudioRejected(c) ==
  /\ Receiving(c)
  /\ lease[c] # None
  /\ sent[c] >= MaxPackets \/ failed[c]
  /\ Goto(c, "rejecting")
  /\ UNCHANGED <<capacityVars, link, contextVars, sent, wire>>

\* The lock was taken by the activation task and is free again.
FeedGetsLock(c) ==
  /\ pc[c] = "feed_lock"
  /\ FeedLocked(c, sent[c])
  /\ UNCHANGED <<capacityVars, link, lease, session, failed, task, chunks, sent, wire>>

\* feed_pcm16() returns from its thread and its interim results are sent.
FeedDone(c) ==
  /\ pc[c] = "feed"
  /\ session' = [session EXCEPT ![c] = Append(@, sent[c])]
  /\ lock' = [lock EXCEPT ![c] = "free"]
  /\ Goto(c, "receive")
  /\ Interim(c)
  /\ UNCHANGED <<capacityVars, link, lease, buffer, failed, task, chunks, sent>>

\* The thread or the send raises; `async with` frees the lock.
FeedFails(c) ==
  /\ pc[c] = "feed"
  /\ "inference_fails" \in Faults \/ link[c] = "down"
  /\ lock' = [lock EXCEPT ![c] = "free"]
  /\ Goto(c, "rejecting")
  /\ UNCHANGED <<capacityVars, link, lease, session, buffer, failed, task, chunks, sent, wire>>

-----------------------------------------------------------------------------
(* end_utterance: UtteranceContext.finish(), the final, close(). *)

TaskOver(c) == task[c] \in {"none", "done", "raised"}

\* Mutant: finish() awaits the activation task but swallows what it raised.
FinishBodySwallows(c) ==
  /\ TaskOver(c)
  /\ \/ /\ ~failed[c] /\ session[c] # None
        /\ lock[c] = "free"
        /\ lock' = [lock EXCEPT ![c] = "handler"]
        /\ Goto(c, "finish")
     \/ /\ failed[c] \/ session[c] = None
        /\ Goto(c, "rejecting")
        /\ UNCHANGED lock

\* What finish() does once there is no activation task to wait for: re-raise
\* what the task raised, raise its _failure, raise RuntimeError without a
\* session, or finish the session in a thread.
FinishBody(c) ==
  /\ TaskOver(c)
  /\ \/ /\ task[c] # "raised" /\ ~failed[c] /\ session[c] # None
        /\ lock[c] = "free"
        /\ lock' = [lock EXCEPT ![c] = "handler"]
        /\ Goto(c, "finish")
     \/ /\ task[c] = "raised" \/ failed[c] \/ session[c] = None
        /\ Goto(c, "rejecting")
        /\ UNCHANGED lock

End(c) ==
  /\ Receiving(c)
  /\ lease[c] # None
  /\ \/ FinishBody(c)
     \/ /\ ~TaskOver(c)
        /\ Goto(c, "finish_wait")
        /\ UNCHANGED lock
  /\ UNCHANGED <<capacityVars, link, lease, session, buffer, failed, task, chunks, sent, wire>>

FinishWaited(c) ==
  /\ pc[c] = "finish_wait"
  /\ FinishBody(c)
  /\ UNCHANGED <<capacityVars, link, lease, session, buffer, failed, task, chunks, sent, wire>>

\* `context = None`, after close() has released the lease.
ContextGone(c) ==
  /\ lease' = [lease EXCEPT ![c] = None]
  /\ session' = [session EXCEPT ![c] = None]
  /\ buffer' = [buffer EXCEPT ![c] = <<>>]
  /\ task' = [task EXCEPT ![c] = "none"]
  /\ failed' = [failed EXCEPT ![c] = FALSE]
  /\ sent' = [sent EXCEPT ![c] = 0]

\* The final is sent and the context closed; its task is over by now, so
\* close() has nothing to wait for.
FinishDone(c) ==
  /\ pc[c] = "finish"
  /\ Reply(c, "final")
  /\ Cap!Release(lease[c])
  /\ ContextGone(c)
  /\ lock' = [lock EXCEPT ![c] = "free"]
  /\ Goto(c, "receive")
  /\ UNCHANGED <<link, chunks>>

FinishFails(c) ==
  /\ pc[c] = "finish"
  /\ "inference_fails" \in Faults \/ link[c] = "down"
  /\ lock' = [lock EXCEPT ![c] = "free"]
  /\ Goto(c, "rejecting")
  /\ UNCHANGED <<capacityVars, link, lease, session, buffer, failed, task, chunks, sent, wire>>

-----------------------------------------------------------------------------
(* The finally clause of stream(). *)

\* close() first cancels an activation task that is not done and waits for it.
CancelTask(c) ==
  /\ pc[c] = "exit"
  /\ lease[c] # None
  /\ ~TaskOver(c)
  /\ Goto(c, "cancelling")
  /\ UNCHANGED <<capacityVars, link, contextVars, sent, wire>>

\* Mutant: close() gives back a slot but leaves a waiter in the queue.
CloseContextOfHolder(c) ==
  /\ pc[c] \in {"exit", "cancelling"}
  /\ lease[c] # None
  /\ TaskOver(c)
  /\ \/ lease[c] \in holding /\ Cap!Release(lease[c])
     \/ lease[c] \notin holding /\ UNCHANGED capacityVars
  /\ ContextGone(c)
  /\ Goto(c, "leaving")
  /\ UNCHANGED <<link, lock, chunks, wire>>

\* close() then clears the buffer and releases the lease.
CloseContext(c) ==
  /\ pc[c] \in {"exit", "cancelling"}
  /\ lease[c] # None
  /\ TaskOver(c)
  /\ Cap!Release(lease[c])
  /\ ContextGone(c)
  /\ Goto(c, "leaving")
  /\ UNCHANGED <<link, lock, chunks, wire>>

\* close_connection(), the last thing a handler does.
Leave(c) ==
  /\ \/ pc[c] = "leaving"
     \/ pc[c] = "exit" /\ lease[c] = None
  /\ Cap!CloseConnection(c)
  /\ Goto(c, "away")
  /\ wire' = [wire EXCEPT ![c] = <<>>]
  /\ UNCHANGED <<link, contextVars, sent>>

-----------------------------------------------------------------------------
(* The activation task: UtteranceContext._activate().  Once close() has asked
   for its cancellation it does nothing else but stop. *)

Running(c, state) == task[c] = state /\ pc[c] # "cancelling"
TaskGoes(c, state) == task' = [task EXCEPT ![c] = state]

\* Mutant: the session is opened without telling the client.
TaskReadySilently(c) ==
  /\ Running(c, "waiting")
  /\ ready[lease[c]] = "done"
  /\ TaskGoes(c, "announcing")
  /\ UNCHANGED <<capacityVars, pc, link, lease, session, buffer, failed, lock, chunks, sent, wire>>

\* wait_ready() returns; send(utterance_active) is under way.
TaskReady(c) ==
  /\ Running(c, "waiting")
  /\ ready[lease[c]] = "done"
  /\ TaskGoes(c, "announcing")
  /\ Reply(c, "active")
  /\ UNCHANGED <<capacityVars, pc, link, lease, session, buffer, failed, lock, chunks, sent>>

\* Mutant: wait_ready() waits without a timeout.
NoTimeout(c) == FALSE

\* wait_ready() times out, also when the slot has just come but the task has
\* not run yet: it gives the lease back, and the error is on its way.
TaskTimeout(c) ==
  /\ Running(c, "waiting")
  /\ Cap!Release(lease[c])
  /\ failed' = [failed EXCEPT ![c] = TRUE]
  /\ TaskGoes(c, "failing")
  /\ Reply(c, "timeout")
  /\ UNCHANGED <<pc, link, lease, session, buffer, lock, chunks, sent>>

\* The error is sent and ws.close() ends the connection.
TaskFailed(c) ==
  /\ Running(c, "failing")
  /\ TaskGoes(c, "done")
  /\ link' = [link EXCEPT ![c] = "down"]
  /\ UNCHANGED <<capacityVars, pc, lease, session, buffer, failed, lock, chunks, sent, wire>>

\* Under _state_lock: a session, the buffer taken over, the first chunk in
\* its thread.  With an empty buffer there is nothing to wait for.
TaskOpensSession(c) ==
  /\ Running(c, "announcing")
  /\ lock[c] = "free"
  /\ session' = [session EXCEPT ![c] = <<>>]
  /\ chunks' = [chunks EXCEPT ![c] = buffer[c]]
  /\ buffer' = [buffer EXCEPT ![c] = <<>>]
  /\ \/ /\ buffer[c] # <<>>
        /\ lock' = [lock EXCEPT ![c] = "task"]
        /\ TaskGoes(c, "draining")
     \/ /\ buffer[c] = <<>>
        /\ TaskGoes(c, "done")
        /\ UNCHANGED lock
  /\ UNCHANGED <<capacityVars, pc, link, lease, failed, sent, wire>>

\* Mutant: the activation task logs what it catches and returns.
TaskRaisesQuietly(c) ==
  /\ Running(c, "announcing")
  /\ "activation_fails" \in Faults \/ link[c] = "down"
  /\ TaskGoes(c, "done")
  /\ UNCHANGED <<capacityVars, pc, link, lease, session, buffer, failed, lock, chunks, sent, wire>>

\* send(utterance_active) or new_session() raises: nothing catches it, so the
\* exception stays in the task.
TaskRaises(c) ==
  /\ Running(c, "announcing")
  /\ "activation_fails" \in Faults \/ link[c] = "down"
  /\ TaskGoes(c, "raised")
  /\ UNCHANGED <<capacityVars, pc, link, lease, session, buffer, failed, lock, chunks, sent, wire>>

\* One chunk is through; the lock is kept until the last one is.
TaskFeedsChunk(c) ==
  /\ Running(c, "draining")
  /\ session' = [session EXCEPT ![c] = Append(@, Head(chunks[c]))]
  /\ chunks' = [chunks EXCEPT ![c] = Tail(@)]
  /\ Interim(c)
  /\ \/ /\ Len(chunks[c]) > 1
        /\ UNCHANGED <<lock, task>>
     \/ /\ Len(chunks[c]) = 1
        /\ lock' = [lock EXCEPT ![c] = "free"]
        /\ TaskGoes(c, "done")
  /\ UNCHANGED <<capacityVars, pc, link, lease, buffer, failed, sent>>

\* Mutant: the lock is taken by hand and not given back on an exception.
TaskDrainKeepsLock(c) ==
  /\ Running(c, "draining")
  /\ "inference_fails" \in Faults \/ link[c] = "down"
  /\ chunks' = [chunks EXCEPT ![c] = <<>>]
  /\ TaskGoes(c, "raised")
  /\ UNCHANGED <<capacityVars, pc, link, lease, session, buffer, failed, lock, sent, wire>>

\* The thread or a send raises: the session keeps what it has been fed and the
\* rest of the buffered audio is lost.
TaskDrainFails(c) ==
  /\ Running(c, "draining")
  /\ "inference_fails" \in Faults \/ link[c] = "down"
  /\ chunks' = [chunks EXCEPT ![c] = <<>>]
  /\ lock' = [lock EXCEPT ![c] = "free"]
  /\ TaskGoes(c, "raised")
  /\ UNCHANGED <<capacityVars, pc, link, lease, session, buffer, failed, sent, wire>>

\* Mutant: CancelledError is taken for a timeout and the wait starts again.
TaskCancelIgnored(c) ==
  /\ pc[c] = "cancelling"
  /\ ~TaskOver(c)
  /\ TaskGoes(c, "waiting")
  /\ lock' = [lock EXCEPT ![c] = IF @ = "task" THEN "free" ELSE @]
  /\ chunks' = [chunks EXCEPT ![c] = <<>>]
  /\ UNCHANGED <<capacityVars, pc, link, lease, session, buffer, failed, sent, wire>>

\* CancelledError reaches the task wherever it waits.  (A thread that is
\* feeding a chunk goes on, but nobody sees its session again.)
TaskCancelled(c) ==
  /\ pc[c] = "cancelling"
  /\ ~TaskOver(c)
  /\ TaskGoes(c, "done")
  /\ lock' = [lock EXCEPT ![c] = IF @ = "task" THEN "free" ELSE @]
  /\ chunks' = [chunks EXCEPT ![c] = <<>>]
  /\ UNCHANGED <<capacityVars, pc, link, lease, session, buffer, failed, sent, wire>>

-----------------------------------------------------------------------------
ClientStep(c) ==
  \/ Open(c) \/ Disconnect(c) \/ BadMessage(c)
  \/ \E l \in Leases : Start(c, l) \/ StartFails(c, l)
  \/ StartRefused(c)
  \/ Audio(c) \/ AudioRejected(c) \/ End(c)

HandlerStep(c) ==
  \/ \E k \in {c} \intersect SlowReaders : StartAnnounced(k) \/ StartSendFails(k)
  \/ FeedGetsLock(c) \/ FeedDone(c) \/ FeedFails(c)
  \/ FinishWaited(c) \/ FinishDone(c) \/ FinishFails(c)
  \/ Rejected(c) \/ LoopEnds(c) \/ CancelTask(c) \/ CloseContext(c) \/ Leave(c)

TaskStep(c) ==
  \/ TaskReady(c) \/ TaskTimeout(c) \/ TaskFailed(c)
  \/ TaskOpensSession(c) \/ TaskRaises(c) \/ TaskFeedsChunk(c) \/ TaskDrainFails(c)
  \/ TaskCancelled(c)

Next == \E c \in Conns : ClientStep(c) \/ HandlerStep(c) \/ TaskStep(c)

\* The event loop runs every task that can run, threads return, timers fire
\* and a send completes or fails; clients owe nothing.
Fairness == \A c \in Conns : WF_vars(HandlerStep(c)) /\ WF_vars(TaskStep(c))

Spec == Init /\ [][Next]_vars
FairSpec == Spec /\ Fairness

-----------------------------------------------------------------------------
(* The recognizer is asked for a final only over the whole utterance: every
   packet the client sent, once, in the order sent, whatever was buffered
   while it waited, arrived during the catch-up, or failed on the way
   (feed(), _activate(), finish()). *)
FinalCoversAudio ==
  \A c \in Conns :
    pc[c] = "finish" => session[c] = [i \in 1..sent[c] |-> i]

(* What the client hears of an utterance makes sense from left to right: a
   queued utterance is silent until utterance_active, which comes once; a
   final or a timeout is followed by nothing but the error that closes the
   connection.  Two tasks send on one socket (stream(), _activate()). *)
RepliesInOrder ==
  \A c \in Conns : \A i \in 1..Len(wire[c]) :
    /\ wire[c][i] \in {"started", "queued"} => i = 1
    /\ wire[c][i] = "active" => i = 2 /\ wire[c][1] = "queued"
    /\ wire[c][i] \in {"interim", "final"} /\ wire[c][1] = "queued" => wire[c][2] = "active"
    /\ wire[c][i] \in {"final", "timeout", "error"} =>
         \A j \in (i + 1)..Len(wire[c]) : wire[c][j] = "error"

(* Every lease that is not released yet belongs to the context of one
   connection, so whatever ends that connection gives its slot or its place
   in the queue back (close(), the finally clause of stream()). *)
SlotOwned ==
  \A l \in made \ released : \E c \in Conns :
    /\ lease[c] = l
    /\ \A d \in Conns : lease[d] = l => d = c

(* A recognizer session exists only while its lease holds a slot, so at most
   `realtime_slots` sessions are open, also around a timeout that strikes
   together with the promotion. *)
SessionsWithinSlots ==
  \A c \in Conns : session[c] # None => lease[c] \in holding

(* Slots and sessions account for each other: both of the above at once. *)
SlotsAccounted == SlotOwned /\ SessionsWithinSlots

(* A promoted utterance gets its session: while its client can still talk,
   one that holds a slot has a session, or a task that will open it, or the
   exception of a task that could not, which end_utterance reports. *)
NoStranded ==
  \A c \in Conns :
    Receiving(c) /\ lease[c] \in holding /\ session[c] = None =>
      task[c] \in {"waiting", "announcing", "failing", "raised"}

(* No message wedges its handler: it always comes back to the receive loop or
   leaves, also if it waits for the activation task in finish() or for the
   lock that task holds while it catches up. *)
HandlerReturns ==
  \A c \in Conns : pc[c] \notin {"away", "receive"} ~> pc[c] \in {"away", "receive"}

(* A queued utterance does not wait for ever, even if no slot holder ever
   ends its own: it is promoted, times out or is given up. *)
QueuedResolves == \A l \in Leases : l \in Cap!Waiting ~> l \notin Cap!Waiting

(* Once a connection is gone its handler gives back what it holds and leaves,
   also while the activation task is in the middle of anything. *)
DisconnectFreesSlot ==
  \A c \in Conns : link[c] = "down" ~> pc[c] = "away" /\ lease[c] = None

=============================================================================
