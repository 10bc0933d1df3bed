----------------------------- MODULE AsrCapacity -----------------------------
(***************************************************************************)
(* eidolon_models_asr/capacity.py: the CapacityManager that every          *)
(* WebSocket handler of the ASR service shares.  Each of its methods runs  *)
(* under one asyncio.Lock that is never held across an await, so each      *)
(* method is one step here.  Its callers interleave between steps.         *)
(*                                                                         *)
(* A lease object is created by reserve() and never reused: a member of    *)
(* Leases stands for one object, and `made` holds the ones that exist.     *)
(***************************************************************************)
EXTENDS Integers, Sequences, FiniteSets, SequencesExt

CONSTANTS
  Leases,          (* UtteranceLease objects                              *)
  Handlers,        (* WebSocket handlers that may ask for a connection    *)
  Slots,           (* realtime_slots                                      *)
  MaxQueued,       (* max_queued                                          *)
  MaxConnections   (* max_connections                                     *)

\* Settings refuses anything else, except that it asks for more: slots plus
\* queue positions within max_connections.
ASSUME CapacityAssumption ==
  /\ Slots \in Nat \ {0}
  /\ MaxQueued \in Nat
  /\ MaxConnections \in Nat \ {0}

VARIABLES
  connections,     (* _connections                                        *)
  admitted,        (* handlers that open_connection() returned True to    *)
  active,          (* _active                                             *)
  waiters,         (* _waiters                                            *)
  made,            (* leases returned by reserve()                        *)
  holding,         (* leases whose `active` flag is set                   *)
  released,        (* leases whose `released` flag is set                 *)
  ready,           (* state of each lease's `ready` future                *)
  position         (* queue_position of each lease                        *)

leaseVars == <<active, waiters, made, holding, released, ready, position>>
connectionVars == <<connections, admitted>>
vars == <<connections, admitted, active, waiters, made, holding, released,
          ready, position>>

-----------------------------------------------------------------------------
Init ==
  /\ connections = 0
  /\ admitted = {}
  /\ active = 0
  /\ waiters = <<>>
  /\ made = {}
  /\ holding = {}
  /\ released = {}
  /\ ready = [l \in Leases |-> "pending"]
  /\ position = [l \in Leases |-> 0]

\* max(0, n - 1), the form both counters are decremented in.
Decrement(n) == IF n > 0 THEN n - 1 ELSE 0

OpenConnection(h) ==
  /\ h \notin admitted
  /\ connections < MaxConnections
  /\ connections' = connections + 1
  /\ admitted' = admitted \union {h}
  /\ UNCHANGED leaseVars

\* ... or False, and the handler answers 503.
RefuseConnection(h) ==
  /\ h \notin admitted
  /\ connections >= MaxConnections
  /\ UNCHANGED vars

CloseConnection(h) ==
  /\ h \in admitted
  /\ connections' = Decrement(connections)
  /\ admitted' = admitted \ {h}
  /\ UNCHANGED leaseVars

-----------------------------------------------------------------------------
(* reserve(): a free slot is taken at once, whoever may be waiting. *)
ReserveNow(l) ==
  /\ l \notin made
  /\ active < Slots
  /\ made' = made \union {l}
  /\ holding' = holding \union {l}
  /\ active' = active + 1
  /\ ready' = [ready EXCEPT ![l] = "done"]
  /\ UNCHANGED <<waiters, released, position, connectionVars>>

(* reserve(): all slots taken, room in the queue. *)
ReserveQueued(l) ==
  /\ l \notin made
  /\ active >= Slots
  /\ Len(waiters) < MaxQueued
  /\ made' = made \union {l}
  /\ waiters' = Append(waiters, l)
  /\ position' = [position EXCEPT ![l] = Len(waiters) + 1]
  /\ UNCHANGED <<active, holding, released, ready, connectionVars>>

(* reserve(): CapacityError("capacity_exceeded"); no lease comes to exist. *)
ReserveRefused ==
  /\ active >= Slots
  /\ Len(waiters) >= MaxQueued
  /\ UNCHANGED vars

-----------------------------------------------------------------------------
Promotable(l, gone) == l \notin gone /\ ready[l] # "cancelled"

\* Position of the first waiter the promotion does not skip, 0 if there is none.
NextPromotable(gone) == SelectInSeq(waiters, LAMBDA w : Promotable(w, gone))

\* Mutant: the promotion forgets to complete the `ready` future.
PromoteSilently(held, n, gone) ==
  \/ /\ n < Slots
     /\ waiters # <<>>
     /\ waiters' = Tail(waiters)
     /\ holding' = held \union {Head(waiters)}
     /\ active' = n + 1
     /\ UNCHANGED ready
  \/ /\ n >= Slots \/ waiters = <<>>
     /\ holding' = held
     /\ active' = n
     /\ UNCHANGED <<waiters, ready>>

\* Mutant: pop() for popleft().
PromoteLast(held, n, gone) ==
  \/ /\ n < Slots
     /\ waiters # <<>>
     /\ waiters' = Front(waiters)
     /\ holding' = held \union {Last(waiters)}
     /\ active' = n + 1
     /\ ready' = [ready EXCEPT ![Last(waiters)] = "done"]
  \/ /\ n >= Slots \/ waiters = <<>>
     /\ holding' = held
     /\ active' = n
     /\ UNCHANGED <<waiters, ready>>

(* _promote_next_locked() as release() calls it, after the releasing lease
   has given its slot back: `held` and `n` are the slots then in use, and
   `gone` the leases then released.  It pops waiters until it finds one that
   can be promoted, promotes that one and stops. *)
PromoteNext(held, n, gone) ==
  LET next == NextPromotable(gone)
  IN \/ /\ n < Slots
        /\ next # 0
        /\ waiters' = SubSeq(waiters, next + 1, Len(waiters))
        /\ holding' = held \union {waiters[next]}
        /\ active' = n + 1
        /\ ready' = [ready EXCEPT ![waiters[next]] = "done"]
     \/ /\ n < Slots
        /\ next = 0
        /\ waiters' = <<>>
        /\ holding' = held
        /\ active' = n
        /\ UNCHANGED ready
     \/ /\ n >= Slots
        /\ holding' = held
        /\ active' = n
        /\ UNCHANGED <<waiters, ready>>

\* Mutant: the promotion runs before the slot is counted free.
ReleaseHeldPromotesFirst(l) ==
  /\ l \in made \ released
  /\ l \in holding
  /\ released' = released \union {l}
  /\ holding' = holding \ {l}
  /\ active' = Decrement(active)
  /\ UNCHANGED <<waiters, ready, made, position, connectionVars>>

(* release() of a lease that holds a slot. *)
ReleaseHeld(l) ==
  /\ l \in made \ released
  /\ l \in holding
  /\ released' = released \union {l}
  /\ PromoteNext(holding \ {l}, Decrement(active), released \union {l})
  /\ UNCHANGED <<made, position, connectionVars>>

\* Mutant: a released waiter stays in the deque for the promotion to skip.
ReleaseWaitingLazily(l) ==
  /\ l \in made \ released
  /\ l \notin holding
  /\ released' = released \union {l}
  /\ ready' = [ready EXCEPT ![l] = "cancelled"]
  /\ UNCHANGED <<waiters, made, holding, active, position, connectionVars>>

(* release() of a lease that still waits: by a client that leaves, or by
   wait_ready() when its timeout strikes. *)
ReleaseWaiting(l) ==
  /\ l \in made \ released
  /\ l \notin holding
  /\ released' = released \union {l}
  /\ waiters' = RemoveFirst(waiters, l)
  /\ ready' = [ready EXCEPT ![l] = IF @ = "pending" THEN "cancelled" ELSE @]
  /\ UNCHANGED <<made, holding, active, position, connectionVars>>

\* Mutant: no `released` test and no clamp, so a second release counts again.
ReleaseAgainCounts(l) ==
  /\ l \in released
  /\ active' = active - 1
  /\ UNCHANGED <<waiters, made, holding, released, ready, position, connectionVars>>

(* release() again: timeout and close() may both release the same lease. *)
ReleaseAgain(l) ==
  /\ l \in released
  /\ UNCHANGED vars

Release(l) == ReleaseHeld(l) \/ ReleaseWaiting(l) \/ ReleaseAgain(l)

-----------------------------------------------------------------------------
Next ==
  \/ \E h \in Handlers : OpenConnection(h) \/ RefuseConnection(h) \/ CloseConnection(h)
  \/ \E l \in Leases : ReserveNow(l) \/ ReserveQueued(l)
  \/ ReserveRefused
  \/ \E l \in Leases : Release(l)

Spec == Init /\ [][Next]_vars

-----------------------------------------------------------------------------
TypeOK ==
  /\ connections \in Nat
  /\ admitted \subseteq Handlers
  /\ active \in Nat
  /\ waiters \in Seq(Leases)
  /\ made \subseteq Leases
  /\ holding \subseteq made
  /\ released \subseteq made
  /\ ready \in [Leases -> {"pending", "done", "cancelled"}]
  /\ position \in [Leases -> Nat]

(* _active counts exactly the leases whose flag is set, never exceeds the
   slots, and a released lease holds nothing: the two bookkeepings of a slot,
   counter and flag, cannot drift apart whatever the order of releases. *)
SlotsExact ==
  /\ IsFiniteSet(holding)
  /\ active = Cardinality(holding)
  /\ active <= Slots
  /\ holding \intersect released = {}

(* No slot stays free while an utterance waits: reserve() tests only
   `_active < realtime_slots`, so a free slot with a non-empty queue would
   let a newcomer overtake the queue. *)
NoIdleSlot == waiters # <<>> => active = Slots

(* A lease is in the queue exactly while it neither holds a slot nor has
   been released, and once: no waiter is dropped by the skipping loop of
   _promote_next_locked and none is promoted twice. *)
Waiting == made \ (holding \union released)

WaitersExact ==
  /\ ToSet(waiters) = Waiting
  /\ \A i, j \in 1..Len(waiters) : waiters[i] = waiters[j] => i = j
  /\ Len(waiters) <= MaxQueued

(* The future of a lease tells its owner the truth: done for a lease that
   holds a slot, pending for a waiter, so a waiter cannot resume early and a
   promoted one cannot sleep on. *)
ReadyTellsTruth ==
  /\ \A l \in holding : ready[l] = "done"
  /\ \A l \in Leases \ (holding \union released) : ready[l] = "pending"

(* The queue_position told to the client is an upper bound for ever: nobody
   is ever placed ahead of a waiting utterance. *)
PositionIsBound == \A i \in 1..Len(waiters) : i <= position[waiters[i]]

(* The connection counter is the number of handlers between
   open_connection() and close_connection(), so the clamp at zero in
   close_connection() never hides a double close. *)
ConnectionsExact ==
  /\ IsFiniteSet(admitted)
  /\ connections = Cardinality(admitted)
  /\ connections <= MaxConnections

(* The three bookkeepings of the manager agree, whatever the order of calls:
   the counter of slots with the flags of the leases, the deque with the
   leases that wait, the counter of connections with their handlers. *)
BookkeepingExact == SlotsExact /\ WaitersExact /\ ConnectionsExact

-----------------------------------------------------------------------------
Admission == INSTANCE AsrAdmission WITH line <- waiters, gone <- released

(* The manager keeps the admission promise: strict first-come-first-served
   hand-over of slots, although reserve() never looks at the queue before it
   takes a slot and release() never looks at who is asking. *)
KeepsAdmissionPromise == Admission!AdmissionSpec

=============================================================================
