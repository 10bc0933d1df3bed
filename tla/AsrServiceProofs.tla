--------------------------- MODULE AsrServiceProofs ---------------------------
(***************************************************************************)
(* Theorems about AsrService for any number of connections and leases, any *)
(* number of slots and places, any length of utterance and any faults.     *)
(*                                                                         *)
(* The manager is proved about in AsrCapacityProofs; here every step of    *)
(* the service is one operation of the manager or none, so its invariant   *)
(* holds in the service, and the invariant of a connection rests on it.    *)
(***************************************************************************)
EXTENDS AsrService, SequenceTheorems, TLAPS

Capacity == INSTANCE AsrCapacityProofs WITH Handlers <- Conns

-----------------------------------------------------------------------------
\* Packets k + 1, k + 2, ... in order.
After(k, s) == \A i \in 1..Len(s) : s[i] = k + i

Kinds == {"started", "queued", "active", "interim", "final", "timeout", "error"}

ServiceTypes ==
  /\ pc \in [Conns -> {"away", "receive", "announce", "rejecting", "feed_lock", "feed",
                       "finish_wait", "finish", "exit", "cancelling", "leaving"}]
  /\ link \in [Conns -> {"up", "down"}]
  /\ lease \in [Conns -> Leases \union {None}]
  /\ session \in [Conns -> Seq(Nat) \union {None}]
  /\ buffer \in [Conns -> Seq(Nat)]
  /\ failed \in [Conns -> BOOLEAN]
  /\ lock \in [Conns -> {"free", "handler", "task"}]
  /\ task \in [Conns -> {"none", "waiting", "announcing", "failing", "draining", "done", "raised"}]
  /\ chunks \in [Conns -> Seq(Nat)]
  /\ sent \in [Conns -> Nat]
  /\ wire \in [Conns -> Seq(Kinds)]

\* A context is there from start_utterance to close(), with a lease of its own.
LeaseOwned(c) ==
  IF lease[c] = None
  THEN /\ pc[c] \in {"away", "receive", "rejecting", "exit", "leaving"}
       /\ session[c] = None /\ task[c] = "none" /\ ~failed[c]
  ELSE /\ pc[c] \notin {"away", "leaving"}
       /\ lease[c] \in made
       /\ \A d \in Conns : lease[d] = lease[c] => d = c
       /\ lease[c] \in released <=> failed[c]

\* Who holds _state_lock, and how far the activation task is.
TaskInPlace(c) ==
  /\ lock[c] = "handler" <=> pc[c] \in {"feed", "finish"}
  /\ lock[c] = "task" <=> task[c] = "draining"
  /\ chunks[c] # <<>> <=> task[c] = "draining"
  /\ pc[c] \in {"feed", "finish"} => session[c] # None
  /\ pc[c] = "finish" => TaskOver(c) /\ task[c] # "raised" /\ ~failed[c]
  /\ pc[c] = "announce" => task[c] = "none"
  /\ pc[c] = "cancelling" => lease[c] # None
  /\ task[c] \in {"waiting", "announcing"} => session[c] = None /\ ~failed[c]
  /\ task[c] = "announcing" => lease[c] \in holding
  /\ task[c] = "failing" => failed[c]
  /\ failed[c] => task[c] \in {"failing", "done"}
  /\ task[c] = "draining" => session[c] # None
  /\ failed[c] => session[c] = None
  /\ session[c] # None => lease[c] \in holding

\* Every packet is in the session, waits to be fed to it, waits for a session,
\* or is the one in hand.
AudioKept(c) ==
  LET kept == IF pc[c] \in {"feed_lock", "feed"} THEN sent[c] - 1 ELSE sent[c]
  IN lease[c] # None /\ task[c] # "raised" /\ pc[c] \notin {"rejecting", "exit", "cancelling"} =>
       /\ kept \in Nat
       /\ session[c] = None => Len(buffer[c]) = kept /\ After(0, buffer[c])
       /\ session[c] # None =>
            /\ buffer[c] = <<>>
            /\ Len(session[c]) + Len(chunks[c]) = kept
            /\ After(0, session[c]) /\ After(Len(session[c]), chunks[c])

\* What the client has heard, and what it has not heard yet.
Ending == {"final", "timeout", "error"}

WireInOrder(c) ==
  \A i \in 1..Len(wire[c]) :
    /\ wire[c][i] \in {"started", "queued"} => i = 1
    /\ wire[c][i] = "active" => i = 2 /\ wire[c][1] = "queued"
    /\ wire[c][i] \in {"interim", "final"} /\ wire[c][1] = "queued" => wire[c][2] = "active"
    /\ wire[c][i] \in Ending => \A j \in (i + 1)..Len(wire[c]) : wire[c][j] = "error"

WireFollows(c) ==
  link[c] = "up" /\ lease[c] # None =>
    /\ wire[c] # <<>> /\ wire[c][1] \in {"started", "queued"}
    /\ ~failed[c] => \A i \in 1..Len(wire[c]) : wire[c][i] \notin Ending
    /\ session[c] = None /\ task[c] \in {"none", "waiting"} /\ pc[c] # "cancelling" => wire[c] = <<"queued">>
    /\ (session[c] # None \/ task[c] = "announcing") /\ wire[c][1] = "queued" =>
         Len(wire[c]) >= 2 /\ wire[c][2] = "active"

ConnInv(c) ==
  LeaseOwned(c) /\ TaskInPlace(c) /\ AudioKept(c) /\ WireInOrder(c) /\ WireFollows(c)

\* Unless the announcement of a start may suspend: a context without a session
\* has a task that will open one, has failed, or is being closed.
TaskStarted(c) ==
  /\ pc[c] # "announce"
  /\ lease[c] # None /\ session[c] = None /\ task[c] \in {"none", "done"} =>
       failed[c] \/ pc[c] \in {"exit", "cancelling"}

ServiceInv ==
  /\ Capacity!LeaseInv
  /\ ServiceTypes
  /\ \A c \in Conns : ConnInv(c)
  /\ "start_blocks" \notin Faults => \A c \in Conns : TaskStarted(c)
  /\ "constructor_fails" \notin Faults => \A l \in made \ released : \E c \in Conns : lease[c] = l

-----------------------------------------------------------------------------
(* The manager. *)

(* The manager is taken in twice, as AsrService uses it and as its proofs have
   it; the two copies of the library operators agree. *)
LEMMA SameLib ==
  /\ \A s, e : Capacity!RemoveFirst(s, e) = Cap!RemoveFirst(s, e)
  /\ \A g : Capacity!NextPromotable(g) = Cap!NextPromotable(g)
<1>1. \A s, e : Capacity!RemoveFirst(s, e) = Cap!RemoveFirst(s, e)
  BY Zenon DEF Cap!RemoveFirst, Cap!RemoveAt, Cap!SelectInSeq, Cap!Min, Capacity!RemoveFirst, Capacity!RemoveAt, Capacity!SelectInSeq, Capacity!Min
<1>2. \A g : Capacity!NextPromotable(g) = Cap!NextPromotable(g)
  BY Zenon DEF Cap!NextPromotable, Capacity!NextPromotable, Cap!SelectInSeq, Cap!Min, Capacity!SelectInSeq, Capacity!Min, Cap!Promotable, Capacity!Promotable
<1> QED BY <1>1, <1>2

(* ... and so do the two copies of its operations. *)
LEMMA SameManager ==
  /\ Cap!Init => Capacity!Init
  /\ \A c \in Conns : Cap!OpenConnection(c) => Capacity!OpenConnection(c)
  /\ \A c \in Conns : Cap!CloseConnection(c) => Capacity!CloseConnection(c)
  /\ \A l \in Leases : Cap!ReserveNow(l) => Capacity!ReserveNow(l)
  /\ \A l \in Leases : Cap!ReserveQueued(l) => Capacity!ReserveQueued(l)
  /\ Cap!ReserveRefused => Capacity!ReserveRefused
  /\ \A l \in Leases : Cap!Release(l) => Capacity!Release(l)
<1>1. Cap!Init => Capacity!Init BY Zenon DEF Cap!Init, Capacity!Init
<1>2. \A c \in Conns : Cap!OpenConnection(c) => Capacity!OpenConnection(c)
  BY Zenon DEF Cap!OpenConnection, Capacity!OpenConnection, Cap!leaseVars, Capacity!leaseVars
<1>3. \A c \in Conns : Cap!CloseConnection(c) => Capacity!CloseConnection(c)
  BY Zenon DEF Cap!CloseConnection, Capacity!CloseConnection, Cap!leaseVars, Capacity!leaseVars, Cap!Decrement, Capacity!Decrement
<1>4. \A l \in Leases : Cap!ReserveNow(l) => Capacity!ReserveNow(l)
  BY Zenon DEF Cap!ReserveNow, Capacity!ReserveNow, Cap!connectionVars, Capacity!connectionVars
<1>5. \A l \in Leases : Cap!ReserveQueued(l) => Capacity!ReserveQueued(l)
  BY Zenon DEF Cap!ReserveQueued, Capacity!ReserveQueued, Cap!connectionVars, Capacity!connectionVars
<1>6. Cap!ReserveRefused => Capacity!ReserveRefused
  BY Zenon DEF Cap!ReserveRefused, Capacity!ReserveRefused, Cap!vars, Capacity!vars
<1>7. ASSUME NEW l, Cap!Release(l) PROVE Capacity!Release(l)
  <2>1. CASE Cap!ReleaseHeld(l)
    <3>1. Cap!Decrement(active) = Capacity!Decrement(active) BY Zenon DEF Cap!Decrement, Capacity!Decrement
    <3> QED BY Zenon, <3>1, <2>1, SameLib DEF Cap!ReleaseHeld, Capacity!ReleaseHeld, Cap!PromoteNext, Capacity!PromoteNext, Cap!connectionVars, Capacity!connectionVars, Capacity!Release
  <2>2. CASE Cap!ReleaseWaiting(l)
    BY Zenon, <2>2, SameLib DEF Cap!ReleaseWaiting, Capacity!ReleaseWaiting, Cap!connectionVars, Capacity!connectionVars, Capacity!Release
  <2>3. CASE Cap!ReleaseAgain(l)
    BY Zenon, <2>3 DEF Cap!ReleaseAgain, Capacity!ReleaseAgain, Cap!vars, Capacity!vars, Capacity!Release
  <2> QED BY <1>7, <2>1, <2>2, <2>3 DEF Cap!Release
<1> QED BY <1>1, <1>2, <1>3, <1>4, <1>5, <1>6, <1>7

(* What a release() takes from whom: its own lease loses its slot and nobody
   else's does. *)
LEMMA ReleaseEffect ==
  ASSUME Capacity!LeaseInv, NEW l \in made, Cap!Release(l)
  PROVE  /\ made' = made /\ released' = released \union {l}
         /\ holding \ {l} \subseteq holding' /\ l \notin holding'
         /\ admitted' = admitted
<1>1. l \in Leases /\ Capacity!Release(l) /\ Capacity!CapacityAssumption
  BY SameManager, ServiceAssumption DEF Capacity!LeaseInv, Capacity!TypeOK, Capacity!CapacityAssumption
<1>2. CASE Capacity!ReleaseHeld(l)
  <2>1. Capacity!HandsOver(l) BY <1>1, <1>2, Capacity!ReleaseHandsOver
  <2>2. waiters # <<>> => Head(waiters) # l
    BY <1>1, <1>2, Capacity!HeadWaits DEF Capacity!ReleaseHeld, Capacity!Waiting
  <2> QED BY <1>2, <2>1, <2>2 DEF Capacity!ReleaseHeld, Capacity!HandsOver, Capacity!connectionVars
<1>3. CASE Capacity!ReleaseWaiting(l)
  BY <1>3 DEF Capacity!ReleaseWaiting, Capacity!connectionVars
<1>4. CASE Capacity!ReleaseAgain(l)
  BY <1>4 DEF Capacity!ReleaseAgain, Capacity!vars, Capacity!LeaseInv, Capacity!SlotsExact
<1> QED BY <1>1, <1>2, <1>3, <1>4 DEF Capacity!Release

-----------------------------------------------------------------------------
(* Functions and sequences. *)

(* One entry of a function is changed. *)
LEMMA Update ==
  ASSUME NEW S, NEW f \in [Conns -> S], NEW c \in Conns, NEW v \in S
  PROVE  /\ [f EXCEPT ![c] = v] \in [Conns -> S] /\ [f EXCEPT ![c] = v][c] = v
         /\ \A d \in Conns \ {c} : [f EXCEPT ![c] = v][d] = f[d]
OBVIOUS

(* A session that was fed nothing is not None. *)
LEMMA EmptyIsNotNone == <<>> # None
<1>1. <<>> \in Seq(Nat) OBVIOUS
<1> QED BY <1>1, ServiceAssumption

(* The next packet continues a sequence of packets. *)
LEMMA AfterAppend ==
  ASSUME NEW s \in Seq(Nat), NEW k \in Nat, After(k, s)
  PROVE  /\ Append(s, k + Len(s) + 1) \in Seq(Nat)
         /\ Len(Append(s, k + Len(s) + 1)) = Len(s) + 1
         /\ After(k, Append(s, k + Len(s) + 1))
<1>1. Len(s) \in Nat /\ k + Len(s) + 1 \in Nat OBVIOUS
<1> DEFINE t == Append(s, k + Len(s) + 1)
<1>2. /\ t \in Seq(Nat) /\ Len(t) = Len(s) + 1 /\ t[Len(s) + 1] = k + Len(s) + 1
      /\ \A i \in 1..Len(s) : t[i] = s[i]
  BY <1>1
<1> HIDE DEF t
<1>3. After(k, t)
  <2> SUFFICES ASSUME NEW i \in 1..(Len(s) + 1) PROVE t[i] = k + i
    BY <1>2 DEF After
  <2>1. i \in 1..Len(s) \/ i = Len(s) + 1 BY <1>1
  <2>2. \A j \in 1..Len(s) : s[j] = k + j BY DEF After
  <2> QED BY <1>1, <1>2, <2>1, <2>2
<1> QED BY <1>2, <1>3 DEF t

(* The first of a sequence of packets, and the rest. *)
LEMMA AfterTail ==
  ASSUME NEW s \in Seq(Nat), NEW k \in Nat, After(k, s), s # <<>>
  PROVE  /\ Head(s) = k + 1 /\ Tail(s) \in Seq(Nat) /\ Len(Tail(s)) = Len(s) - 1 /\ Len(s) \in Nat \ {0}
         /\ After(k + 1, Tail(s))
<1>1. Len(s) \in Nat \ {0} /\ Tail(s) \in Seq(Nat) /\ Len(Tail(s)) = Len(s) - 1 /\ Head(s) = s[1]
  OBVIOUS
<1>2. \A i \in 1..Len(Tail(s)) : Tail(s)[i] = s[i + 1] BY HeadTailProperties
<1>3. ASSUME NEW i \in 1..Len(Tail(s)) PROVE Tail(s)[i] = (k + 1) + i
  <2>1. i + 1 \in 1..Len(s) /\ k + (i + 1) = (k + 1) + i BY <1>1
  <2>2. s[i + 1] = k + (i + 1) BY <2>1 DEF After
  <2> QED BY <1>2, <2>1, <2>2
<1>4. Head(s) = k + 1 BY <1>1 DEF After
<1> QED BY <1>1, <1>3, <1>4 DEF After

-----------------------------------------------------------------------------
(* What a step of one connection leaves alone. *)

OthersKept(c) ==
  \A d \in Conns \ {c} :
    /\ pc'[d] = pc[d] /\ link'[d] = link[d] /\ lease'[d] = lease[d] /\ session'[d] = session[d]
    /\ buffer'[d] = buffer[d] /\ failed'[d] = failed[d] /\ lock'[d] = lock[d]
    /\ task'[d] = task[d] /\ chunks'[d] = chunks[d] /\ sent'[d] = sent[d] /\ wire'[d] = wire[d]

LeaseMoves(c) == lease'[c] = lease[c] \/ lease'[c] = None \/ lease'[c] \notin made

OthersHold(c) ==
  \A d \in Conns \ {c} : lease[d] # None =>
    /\ lease[d] \in made => lease[d] \in made'
    /\ lease[d] \in holding => lease[d] \in holding'
    /\ lease[d] \in released' <=> lease[d] \in released

(* What a step of c keeps of every other connection. *)
LEMMA OthersStay ==
  ASSUME ServiceTypes, NEW c \in Conns, \A d \in Conns : ConnInv(d),
         OthersKept(c), LeaseMoves(c), OthersHold(c)
  PROVE  \A d \in Conns \ {c} : ConnInv(d)'
<1> TAKE d \in Conns \ {c}
<1>1. LeaseOwned(d) /\ LeaseOwned(d)'
  BY DEF ConnInv, LeaseOwned, OthersKept, LeaseMoves, OthersHold
<1>2. TaskInPlace(d)'
  BY <1>1 DEF ConnInv, TaskInPlace, LeaseOwned, TaskOver, OthersKept, OthersHold
<1>3. AudioKept(d)'
  <2>1. /\ pc'[d] = pc[d] /\ lease'[d] = lease[d] /\ session'[d] = session[d] /\ sent'[d] = sent[d]
        /\ buffer'[d] = buffer[d] /\ task'[d] = task[d] /\ chunks'[d] = chunks[d]
    BY DEF OthersKept
  <2>2. AudioKept(d) BY DEF ConnInv
  <2> QED BY ONLY <2>1, <2>2 DEF AudioKept, After
<1>4. WireInOrder(d)' BY DEF ConnInv, WireInOrder, OthersKept
<1>5. WireFollows(d)' BY DEF ConnInv, WireFollows, OthersKept
<1> QED BY <1>1, <1>2, <1>3, <1>4, <1>5 DEF ConnInv

(* The manager is built with the limits its proofs assume. *)
LEMMA CapAssumption == Capacity!CapacityAssumption
BY ServiceAssumption DEF Capacity!CapacityAssumption

(* A step of connection c that calls nothing of the manager keeps the
   invariant, if it keeps what is said of c. *)
LEMMA QuietStep ==
  ASSUME ServiceInv, NEW c \in Conns, UNCHANGED <<capacityVars, lease>>, ServiceTypes',
         OthersKept(c), ConnInv(c)', TaskStarted(c) => TaskStarted(c)'
  PROVE  ServiceInv'
<1>1. Capacity!LeaseInv'
  BY Capacity!StutterStep, CapAssumption DEF ServiceInv, capacityVars, Capacity!vars
<1>2. \A d \in Conns : ConnInv(d)'
  <2>1. LeaseMoves(c) /\ OthersHold(c) BY DEF LeaseMoves, OthersHold, capacityVars
  <2>2. \A d \in Conns \ {c} : ConnInv(d)' BY <2>1, OthersStay DEF ServiceInv
  <2> QED BY <2>2
<1>3. ASSUME NEW d \in Conns, TaskStarted(d) PROVE TaskStarted(d)'
  BY <1>3 DEF TaskStarted, OthersKept
<1>4. "start_blocks" \notin Faults => \A d \in Conns : TaskStarted(d)'
  BY <1>3 DEF ServiceInv
<1>5. "constructor_fails" \notin Faults => \A l \in made' \ released' : \E d \in Conns : lease'[d] = l
  BY DEF ServiceInv, capacityVars
<1> QED BY <1>1, <1>2, <1>4, <1>5, Zenon DEF ServiceInv

-----------------------------------------------------------------------------
(* What the client hears. *)

(* A conversation nothing is added to stays in order. *)
LEMMA NothingHeard ==
  ASSUME NEW c \in Conns, WireInOrder(c), wire'[c] = wire[c]
  PROVE  WireInOrder(c)'
BY DEF WireInOrder

(* What may come next in a conversation. *)
LEMMA OneMoreHeard ==
  ASSUME NEW c \in Conns, wire[c] \in Seq(Kinds), WireInOrder(c),
         NEW kind \in Kinds, wire'[c] = Append(wire[c], kind),
         kind \notin {"started", "queued"},
         kind = "active" => wire[c] = <<"queued">>,
         kind # "error" => /\ wire[c] # <<>>
                           /\ \A i \in 1..Len(wire[c]) : wire[c][i] \notin Ending,
         kind \in {"interim", "final"} /\ wire[c][1] = "queued" => Len(wire[c]) >= 2 /\ wire[c][2] = "active"
  PROVE  WireInOrder(c)'
<1> DEFINE n == Len(wire[c])
           w == wire'[c]
<1>1. /\ n \in Nat /\ Len(w) = n + 1 /\ w[n + 1] = kind
      /\ \A i \in 1..n : w[i] = wire[c][i]
  OBVIOUS
<1>2. ASSUME NEW i \in 1..n
      PROVE  /\ w[i] \in {"started", "queued"} => i = 1
             /\ w[i] = "active" => i = 2 /\ w[1] = "queued"
             /\ w[i] \in {"interim", "final"} /\ w[1] = "queued" => w[2] = "active"
             /\ w[i] \in Ending => \A j \in (i + 1)..(n + 1) : w[j] = "error"
  <2>1. w[i] = wire[c][i] /\ w[1] = wire[c][1] /\ n >= 1
    BY <1>1
  <2>2. w[i] \in {"interim", "final"} /\ w[1] = "queued" => n >= 2 /\ w[2] = wire[c][2]
    BY <1>1, <2>1 DEF WireInOrder
  <2>3. w[i] \in Ending => kind = "error"
    BY <2>1
  <2> QED BY <1>1, <2>1, <2>2, <2>3 DEF WireInOrder
<1>3. /\ kind = "active" => n + 1 = 2 /\ w[1] = "queued"
      /\ kind \in {"interim", "final"} /\ w[1] = "queued" => w[2] = "active"
      /\ \A j \in (n + 2)..(n + 1) : w[j] = "error"
  BY <1>1 DEF Ending
<1> HIDE DEF n, w
<1>4. \A i \in 1..(n + 1) :
        /\ w[i] \in {"started", "queued"} => i = 1
        /\ w[i] = "active" => i = 2 /\ w[1] = "queued"
        /\ w[i] \in {"interim", "final"} /\ w[1] = "queued" => w[2] = "active"
        /\ w[i] \in Ending => \A j \in (i + 1)..(n + 1) : w[j] = "error"
  <2> TAKE i \in 1..(n + 1)
  <2>1. CASE i \in 1..n BY <1>2, <2>1
  <2>2. CASE i = n + 1 BY <1>1, <1>3, <2>2
  <2> QED BY <1>1, <2>1, <2>2
<1> QED BY <1>1, <1>4 DEF WireInOrder, n, w

-----------------------------------------------------------------------------
(* The steps of a connection that call nothing of the manager. *)

(* The handler turns to its exit, or its connection goes. *)
Turns(c) ==
  \/ Disconnect(c) \/ BadMessage(c) \/ LoopEnds(c) \/ StartRefused(c)
  \/ StartSendFails(c) \/ AudioRejected(c) \/ CancelTask(c)

(* A protocol error, a refused start, a lost connection, the end of the loop. *)
LEMMA TurnsStep == ASSUME ServiceInv, NEW c \in Conns, Turns(c) PROVE ServiceInv'
<1>1. /\ UNCHANGED <<capacityVars, contextVars, sent, wire>>
      /\ \/ pc' = pc /\ link' = [link EXCEPT ![c] = "down"]
         \/ /\ UNCHANGED link
            /\ \/ pc[c] \in {"receive", "announce"} /\ pc' = [pc EXCEPT ![c] = "rejecting"]
               \/ pc[c] = "receive" /\ link[c] = "down" /\ pc' = [pc EXCEPT ![c] = "exit"]
               \/ pc[c] = "exit" /\ lease[c] # None /\ pc' = [pc EXCEPT ![c] = "cancelling"]
  BY DEF Turns, Disconnect, BadMessage, LoopEnds, StartRefused, StartSendFails, AudioRejected,
         CancelTask, Receiving, Goto, capacityVars, contextVars, Cap!ReserveRefused, Cap!vars
<1>2. ServiceTypes /\ ConnInv(c) BY DEF ServiceInv
<1> USE DEF contextVars, capacityVars
<1>3. ServiceTypes' BY <1>1, <1>2 DEF ServiceTypes
<1>4. OthersKept(c) BY <1>1, <1>2 DEF ServiceTypes, OthersKept
<1>5. LeaseOwned(c)' BY <1>1, <1>2 DEF ServiceTypes, ConnInv, LeaseOwned
<1>6. TaskInPlace(c)' BY <1>1, <1>2 DEF ServiceTypes, ConnInv, LeaseOwned, TaskInPlace, TaskOver
<1>7. AudioKept(c)' BY <1>1, <1>2 DEF ServiceTypes, ConnInv, AudioKept, After
<1>8. WireInOrder(c)' BY <1>1, <1>2, NothingHeard DEF ConnInv
<1>9. WireFollows(c)' BY <1>1, <1>2 DEF ServiceTypes, ConnInv, WireFollows
<1>10. TaskStarted(c) => TaskStarted(c)' BY <1>1, <1>2 DEF ServiceTypes, ConnInv, LeaseOwned, TaskStarted
<1> QED BY <1>1, <1>3, <1>4, <1>5, <1>6, <1>7, <1>8, <1>9, <1>10, QuietStep DEF ConnInv

(* start_activation() after a suspended utterance_started. *)
LEMMA StartAnnouncedStep == ASSUME ServiceInv, NEW c \in Conns, StartAnnounced(c) PROVE ServiceInv'
<1>1. ServiceTypes /\ ConnInv(c) BY DEF ServiceInv
<1> USE DEF StartAnnounced, ActivationTask, Goto, contextVars, capacityVars
<1>2. ServiceTypes' BY <1>1 DEF ServiceTypes
<1>3. OthersKept(c) BY <1>1 DEF ServiceTypes, OthersKept
<1>4. LeaseOwned(c)' BY <1>1 DEF ServiceTypes, ConnInv, LeaseOwned, TaskInPlace
<1>5. TaskInPlace(c)' BY <1>1 DEF ServiceTypes, ConnInv, LeaseOwned, TaskInPlace, TaskOver
<1>6. AudioKept(c)' BY <1>1 DEF ServiceTypes, ConnInv, TaskInPlace, AudioKept, After
<1>7. WireInOrder(c)' BY <1>1, NothingHeard DEF ServiceTypes, ConnInv
<1>8. WireFollows(c)' BY <1>1 DEF ServiceTypes, ConnInv, TaskInPlace, WireFollows
<1>9. TaskStarted(c) => TaskStarted(c)' BY <1>1 DEF ServiceTypes, ConnInv, LeaseOwned, TaskInPlace, TaskStarted
<1> QED BY <1>2, <1>3, <1>4, <1>5, <1>6, <1>7, <1>8, <1>9, QuietStep DEF ConnInv

(* A feed_pcm16() that raises. *)
LEMMA FeedFailsStep == ASSUME ServiceInv, NEW c \in Conns, FeedFails(c) PROVE ServiceInv'
<1>1. ServiceTypes /\ ConnInv(c) BY DEF ServiceInv
<1> USE DEF FeedFails, Goto, contextVars, capacityVars
<1>2. ServiceTypes' BY <1>1 DEF ServiceTypes
<1>3. OthersKept(c) BY <1>1 DEF ServiceTypes, OthersKept
<1>4. LeaseOwned(c)' BY <1>1 DEF ServiceTypes, ConnInv, LeaseOwned, TaskInPlace
<1>5. TaskInPlace(c)' BY <1>1 DEF ServiceTypes, ConnInv, LeaseOwned, TaskInPlace, TaskOver
<1>6. AudioKept(c)' BY <1>1 DEF ServiceTypes, ConnInv, TaskInPlace, AudioKept, After
<1>7. WireInOrder(c)' BY <1>1, NothingHeard DEF ServiceTypes, ConnInv
<1>8. WireFollows(c)' BY <1>1 DEF ServiceTypes, ConnInv, TaskInPlace, WireFollows
<1>9. TaskStarted(c) => TaskStarted(c)' BY <1>1 DEF ServiceTypes, ConnInv, LeaseOwned, TaskInPlace, TaskStarted
<1> QED BY <1>2, <1>3, <1>4, <1>5, <1>6, <1>7, <1>8, <1>9, QuietStep DEF ConnInv

(* end_utterance, with or without an activation task to wait for. *)
LEMMA EndStep == ASSUME ServiceInv, NEW c \in Conns, End(c) PROVE ServiceInv'
<1>1. ServiceTypes /\ ConnInv(c) BY DEF ServiceInv
<1> USE DEF End, FinishBody, TaskOver, Receiving, Goto, contextVars, capacityVars
<1>2. ServiceTypes' BY <1>1 DEF ServiceTypes
<1>3. OthersKept(c) BY <1>1 DEF ServiceTypes, OthersKept
<1>4. LeaseOwned(c)' BY <1>1 DEF ServiceTypes, ConnInv, LeaseOwned, TaskInPlace
<1>5. TaskInPlace(c)' BY <1>1 DEF ServiceTypes, ConnInv, LeaseOwned, TaskInPlace, TaskOver
<1>6. AudioKept(c)' BY <1>1 DEF ServiceTypes, ConnInv, TaskInPlace, AudioKept, After
<1>7. WireInOrder(c)' BY <1>1, NothingHeard DEF ServiceTypes, ConnInv
<1>8. WireFollows(c)' BY <1>1 DEF ServiceTypes, ConnInv, TaskInPlace, WireFollows
<1>9. TaskStarted(c) => TaskStarted(c)' BY <1>1 DEF ServiceTypes, ConnInv, LeaseOwned, TaskInPlace, TaskStarted
<1> QED BY <1>2, <1>3, <1>4, <1>5, <1>6, <1>7, <1>8, <1>9, QuietStep DEF ConnInv

(* finish() after the activation task. *)
LEMMA FinishWaitedStep == ASSUME ServiceInv, NEW c \in Conns, FinishWaited(c) PROVE ServiceInv'
<1>1. ServiceTypes /\ ConnInv(c) BY DEF ServiceInv
<1> USE DEF FinishWaited, FinishBody, TaskOver, Goto, contextVars, capacityVars
<1>2. ServiceTypes' BY <1>1 DEF ServiceTypes
<1>3. OthersKept(c) BY <1>1 DEF ServiceTypes, OthersKept
<1>4. LeaseOwned(c)' BY <1>1 DEF ServiceTypes, ConnInv, LeaseOwned, TaskInPlace
<1>5. TaskInPlace(c)' BY <1>1 DEF ServiceTypes, ConnInv, LeaseOwned, TaskInPlace, TaskOver
<1>6. AudioKept(c)' BY <1>1 DEF ServiceTypes, ConnInv, TaskInPlace, AudioKept, After
<1>7. WireInOrder(c)' BY <1>1, NothingHeard DEF ServiceTypes, ConnInv
<1>8. WireFollows(c)' BY <1>1 DEF ServiceTypes, ConnInv, TaskInPlace, WireFollows
<1>9. TaskStarted(c) => TaskStarted(c)' BY <1>1 DEF ServiceTypes, ConnInv, LeaseOwned, TaskInPlace, TaskStarted
<1> QED BY <1>2, <1>3, <1>4, <1>5, <1>6, <1>7, <1>8, <1>9, QuietStep DEF ConnInv

(* A finish() that raises. *)
LEMMA FinishFailsStep == ASSUME ServiceInv, NEW c \in Conns, FinishFails(c) PROVE ServiceInv'
<1>1. ServiceTypes /\ ConnInv(c) BY DEF ServiceInv
<1> USE DEF FinishFails, Goto, contextVars, capacityVars
<1>2. ServiceTypes' BY <1>1 DEF ServiceTypes
<1>3. OthersKept(c) BY <1>1 DEF ServiceTypes, OthersKept
<1>4. LeaseOwned(c)' BY <1>1 DEF ServiceTypes, ConnInv, LeaseOwned, TaskInPlace
<1>5. TaskInPlace(c)' BY <1>1 DEF ServiceTypes, ConnInv, LeaseOwned, TaskInPlace, TaskOver
<1>6. AudioKept(c)' BY <1>1 DEF ServiceTypes, ConnInv, TaskInPlace, AudioKept, After
<1>7. WireInOrder(c)' BY <1>1, NothingHeard DEF ServiceTypes, ConnInv
<1>8. WireFollows(c)' BY <1>1 DEF ServiceTypes, ConnInv, TaskInPlace, WireFollows
<1>9. TaskStarted(c) => TaskStarted(c)' BY <1>1 DEF ServiceTypes, ConnInv, LeaseOwned, TaskInPlace, TaskStarted
<1> QED BY <1>2, <1>3, <1>4, <1>5, <1>6, <1>7, <1>8, <1>9, QuietStep DEF ConnInv

(* The timeout's error is out and the connection closed. *)
LEMMA TaskFailedStep == ASSUME ServiceInv, NEW c \in Conns, TaskFailed(c) PROVE ServiceInv'
<1>1. ServiceTypes /\ ConnInv(c) BY DEF ServiceInv
<1> USE DEF TaskFailed, Running, TaskGoes, Goto, contextVars, capacityVars
<1>2. ServiceTypes' BY <1>1 DEF ServiceTypes
<1>3. OthersKept(c) BY <1>1 DEF ServiceTypes, OthersKept
<1>4. LeaseOwned(c)' BY <1>1 DEF ServiceTypes, ConnInv, LeaseOwned, TaskInPlace
<1>5. TaskInPlace(c)' BY <1>1 DEF ServiceTypes, ConnInv, LeaseOwned, TaskInPlace, TaskOver
<1>6. AudioKept(c)' BY <1>1 DEF ServiceTypes, ConnInv, TaskInPlace, AudioKept, After
<1>7. WireInOrder(c)' BY <1>1, NothingHeard DEF ServiceTypes, ConnInv
<1>8. WireFollows(c)' BY <1>1 DEF ServiceTypes, ConnInv, TaskInPlace, WireFollows
<1>9. TaskStarted(c) => TaskStarted(c)' BY <1>1 DEF ServiceTypes, ConnInv, LeaseOwned, TaskInPlace, TaskStarted
<1> QED BY <1>2, <1>3, <1>4, <1>5, <1>6, <1>7, <1>8, <1>9, QuietStep DEF ConnInv

(* _activate() raises before it has a session. *)
LEMMA TaskRaisesStep == ASSUME ServiceInv, NEW c \in Conns, TaskRaises(c) PROVE ServiceInv'
<1>1. ServiceTypes /\ ConnInv(c) BY DEF ServiceInv
<1> USE DEF TaskRaises, Running, TaskGoes, Goto, contextVars, capacityVars
<1>2. ServiceTypes' BY <1>1 DEF ServiceTypes
<1>3. OthersKept(c) BY <1>1 DEF ServiceTypes, OthersKept
<1>4. LeaseOwned(c)' BY <1>1 DEF ServiceTypes, ConnInv, LeaseOwned, TaskInPlace
<1>5. TaskInPlace(c)' BY <1>1 DEF ServiceTypes, ConnInv, LeaseOwned, TaskInPlace, TaskOver
<1>6. AudioKept(c)' BY <1>1 DEF ServiceTypes, ConnInv, TaskInPlace, AudioKept, After
<1>7. WireInOrder(c)' BY <1>1, NothingHeard DEF ServiceTypes, ConnInv
<1>8. WireFollows(c)' BY <1>1 DEF ServiceTypes, ConnInv, TaskInPlace, WireFollows
<1>9. TaskStarted(c) => TaskStarted(c)' BY <1>1 DEF ServiceTypes, ConnInv, LeaseOwned, TaskInPlace, TaskStarted
<1> QED BY <1>2, <1>3, <1>4, <1>5, <1>6, <1>7, <1>8, <1>9, QuietStep DEF ConnInv

(* _activate() raises while it catches up. *)
LEMMA TaskDrainFailsStep == ASSUME ServiceInv, NEW c \in Conns, TaskDrainFails(c) PROVE ServiceInv'
<1>1. ServiceTypes /\ ConnInv(c) BY DEF ServiceInv
<1> USE DEF TaskDrainFails, Running, TaskGoes, Goto, contextVars, capacityVars
<1>2. ServiceTypes' BY <1>1 DEF ServiceTypes
<1>3. OthersKept(c) BY <1>1 DEF ServiceTypes, OthersKept
<1>4. LeaseOwned(c)' BY <1>1 DEF ServiceTypes, ConnInv, LeaseOwned, TaskInPlace
<1>5. TaskInPlace(c)' BY <1>1 DEF ServiceTypes, ConnInv, LeaseOwned, TaskInPlace, TaskOver
<1>6. AudioKept(c)' BY <1>1 DEF ServiceTypes, ConnInv, TaskInPlace, AudioKept, After
<1>7. WireInOrder(c)' BY <1>1, NothingHeard DEF ServiceTypes, ConnInv
<1>8. WireFollows(c)' BY <1>1 DEF ServiceTypes, ConnInv, TaskInPlace, WireFollows
<1>9. TaskStarted(c) => TaskStarted(c)' BY <1>1 DEF ServiceTypes, ConnInv, LeaseOwned, TaskInPlace, TaskStarted
<1> QED BY <1>2, <1>3, <1>4, <1>5, <1>6, <1>7, <1>8, <1>9, QuietStep DEF ConnInv

(* close() cancels the activation task. *)
LEMMA TaskCancelledStep == ASSUME ServiceInv, NEW c \in Conns, TaskCancelled(c) PROVE ServiceInv'
<1>1. ServiceTypes /\ ConnInv(c) BY DEF ServiceInv
<1> USE DEF TaskCancelled, TaskOver, TaskGoes, Goto, contextVars, capacityVars
<1>2. ServiceTypes' BY <1>1 DEF ServiceTypes
<1>3. OthersKept(c) BY <1>1 DEF ServiceTypes, OthersKept
<1>4. LeaseOwned(c)' BY <1>1 DEF ServiceTypes, ConnInv, LeaseOwned, TaskInPlace
<1>5. TaskInPlace(c)' BY <1>1 DEF ServiceTypes, ConnInv, LeaseOwned, TaskInPlace, TaskOver
<1>6. AudioKept(c)' BY <1>1 DEF ServiceTypes, ConnInv, TaskInPlace, AudioKept, After
<1>7. WireInOrder(c)' BY <1>1, NothingHeard DEF ServiceTypes, ConnInv
<1>8. WireFollows(c)' BY <1>1 DEF ServiceTypes, ConnInv, TaskInPlace, WireFollows
<1>9. TaskStarted(c) => TaskStarted(c)' BY <1>1 DEF ServiceTypes, ConnInv, LeaseOwned, TaskInPlace, TaskStarted
<1> QED BY <1>2, <1>3, <1>4, <1>5, <1>6, <1>7, <1>8, <1>9, QuietStep DEF ConnInv

(* What _send() adds to a conversation. *)
LEMMA ReplyEffect ==
  ASSUME ServiceTypes, NEW c \in Conns, NEW kind \in Kinds, Reply(c, kind)
  PROVE  /\ wire' \in [Conns -> Seq(Kinds)] /\ \A d \in Conns \ {c} : wire'[d] = wire[d]
         /\ wire[c] \in Seq(Kinds)
         /\ link[c] = "up" => wire'[c] = Append(wire[c], kind)
         /\ link[c] # "up" => wire'[c] = wire[c]
<1>1. wire \in [Conns -> Seq(Kinds)] /\ wire[c] \in Seq(Kinds) BY DEF ServiceTypes
<1>2. Append(wire[c], kind) \in Seq(Kinds) BY <1>1
<1> QED BY <1>1, <1>2 DEF Reply

(* Interim results keep it in order, and come only before its end. *)
LEMMA InterimEffect ==
  ASSUME ServiceTypes, NEW c \in Conns, ConnInv(c), session[c] # None, Interim(c)
  PROVE  /\ wire' \in [Conns -> Seq(Kinds)] /\ \A d \in Conns \ {c} : wire'[d] = wire[d]
         /\ WireInOrder(c)'
         /\ link[c] = "up" =>
              /\ wire'[c] # <<>> /\ wire'[c][1] \in {"started", "queued"}
              /\ wire'[c][1] = "queued" => Len(wire'[c]) >= 2 /\ wire'[c][2] = "active"
              /\ \A i \in 1..Len(wire'[c]) : wire'[c][i] \notin Ending
<1>1. wire \in [Conns -> Seq(Kinds)] /\ wire[c] \in Seq(Kinds) /\ Len(wire[c]) \in Nat
  BY DEF ServiceTypes
<1>2. link[c] = "up" =>
        /\ wire[c] # <<>> /\ wire[c][1] \in {"started", "queued"}
        /\ \A i \in 1..Len(wire[c]) : wire[c][i] \notin Ending
        /\ wire[c][1] = "queued" => Len(wire[c]) >= 2 /\ wire[c][2] = "active"
  BY DEF ConnInv, WireFollows, LeaseOwned, TaskInPlace
<1>3. CASE wire' = wire BY <1>1, <1>2, <1>3, NothingHeard DEF ConnInv
<1>4. CASE Reply(c, "interim")
  <2>1. "interim" \in Kinds BY DEF Kinds
  <2>2. /\ wire' \in [Conns -> Seq(Kinds)] /\ \A d \in Conns \ {c} : wire'[d] = wire[d]
        /\ link[c] = "up" => wire'[c] = Append(wire[c], "interim")
        /\ link[c] # "up" => wire'[c] = wire[c]
    BY <1>4, <2>1, ReplyEffect
  <2>3. CASE link[c] = "up"
    <3>1. WireInOrder(c)' BY <1>1, <1>2, <2>1, <2>2, <2>3, OneMoreHeard DEF ConnInv
    <3>2. /\ Len(wire'[c]) = Len(wire[c]) + 1 /\ wire'[c][Len(wire[c]) + 1] = "interim"
          /\ \A i \in 1..Len(wire[c]) : wire'[c][i] = wire[c][i]
          /\ wire'[c] # <<>> /\ Len(wire[c]) >= 1
      BY <1>1, <1>2, <2>2, <2>3
    <3>3. ASSUME NEW i \in 1..Len(wire'[c]) PROVE wire'[c][i] \notin Ending
      <4>1. i \in 1..Len(wire[c]) \/ i = Len(wire[c]) + 1 BY <1>1, <3>2
      <4> QED BY <1>2, <2>3, <3>2, <4>1 DEF Ending
    <3>4. wire'[c][1] = wire[c][1] /\ (Len(wire[c]) >= 2 => wire'[c][2] = wire[c][2])
      BY <1>1, <3>2
    <3> QED BY <1>1, <1>2, <2>2, <2>3, <3>1, <3>2, <3>3, <3>4
  <2>4. CASE link[c] # "up" BY <2>2, <2>4, NothingHeard DEF ConnInv
  <2> QED BY <2>3, <2>4
<1> QED BY <1>3, <1>4 DEF Interim

(* feed_pcm16() returns: the packet in hand is the next of the session. *)
LEMMA FeedDoneStep == ASSUME ServiceInv, NEW c \in Conns, FeedDone(c) PROVE ServiceInv'
<1>1. ServiceTypes /\ ConnInv(c) BY DEF ServiceInv
<1>2. pc[c] = "feed" /\ session[c] # None /\ session[c] \in Seq(Nat) /\ sent[c] \in Nat /\ lease[c] # None
  BY <1>1 DEF FeedDone, ServiceTypes, ConnInv, LeaseOwned, TaskInPlace
<1>3. Append(session[c], sent[c]) \in Seq(Nat) /\ Append(session[c], sent[c]) # None
  <2>1. Append(session[c], sent[c]) \in Seq(Nat) BY <1>2
  <2> QED BY <2>1, ServiceAssumption
<1>4. Interim(c) BY DEF FeedDone
<1>5. /\ wire' \in [Conns -> Seq(Kinds)] /\ \A d \in Conns \ {c} : wire'[d] = wire[d]
      /\ WireInOrder(c)'
      /\ link[c] = "up" =>
           /\ wire'[c] # <<>> /\ wire'[c][1] \in {"started", "queued"}
           /\ wire'[c][1] = "queued" => Len(wire'[c]) >= 2 /\ wire'[c][2] = "active"
           /\ \A i \in 1..Len(wire'[c]) : wire'[c][i] \notin Ending
  BY <1>1, <1>2, <1>4, InterimEffect
<1> USE DEF FeedDone, Goto, capacityVars
<1>6. ServiceTypes' BY <1>1, <1>3, <1>5 DEF ServiceTypes
<1>7. OthersKept(c) BY <1>1, <1>5 DEF ServiceTypes, OthersKept
<1>8. LeaseOwned(c)' BY <1>1 DEF ServiceTypes, ConnInv, LeaseOwned
<1>9. TaskInPlace(c)' BY <1>1, <1>2, <1>3 DEF ServiceTypes, ConnInv, TaskInPlace, TaskOver
<1>10. AudioKept(c)'
  <2> SUFFICES ASSUME task[c] # "raised" PROVE AudioKept(c)'
    BY DEF AudioKept
  <2>1. /\ session'[c] = Append(session[c], sent[c]) /\ buffer'[c] = buffer[c] /\ chunks'[c] = <<>>
        /\ chunks[c] = <<>> /\ sent'[c] = sent[c] /\ pc'[c] = "receive"
    BY <1>1 DEF ServiceTypes, ConnInv, TaskInPlace
  <2>2. buffer[c] = <<>> /\ Len(session[c]) = sent[c] - 1 /\ After(0, session[c])
    BY <1>1, <1>2, <2>1 DEF ConnInv, AudioKept
  <2>3. 0 + Len(session[c]) + 1 = sent[c] BY <1>2, <2>2
  <2>4. /\ Len(Append(session[c], sent[c])) = sent[c] /\ After(0, Append(session[c], sent[c]))
    BY <1>2, <2>2, <2>3, AfterAppend
  <2>5. After(sent[c], <<>>) BY DEF After
  <2> QED BY <1>2, <1>3, <2>1, <2>2, <2>4, <2>5 DEF AudioKept
<1>11. WireFollows(c)'
  <2>1. session'[c] # None /\ link'[c] = link[c] /\ task'[c] = task[c]
    BY <1>1, <1>3 DEF ServiceTypes
  <2> QED BY <1>5, <2>1 DEF WireFollows
<1>12. TaskStarted(c) => TaskStarted(c)' BY <1>1, <1>3 DEF ServiceTypes, TaskStarted
<1> QED BY <1>5, <1>6, <1>7, <1>8, <1>9, <1>10, <1>11, <1>12, QuietStep DEF ConnInv

(* The error that closes a connection may follow anything. *)
LEMMA RejectedStep == ASSUME ServiceInv, NEW c \in Conns, Rejected(c) PROVE ServiceInv'
<1>1. ServiceTypes /\ ConnInv(c) BY DEF ServiceInv
<1>2. Reply(c, "error") /\ "error" \in Kinds BY DEF Rejected, Kinds
<1>3. /\ wire' \in [Conns -> Seq(Kinds)] /\ \A d \in Conns \ {c} : wire'[d] = wire[d]
      /\ wire[c] \in Seq(Kinds)
      /\ link[c] = "up" => wire'[c] = Append(wire[c], "error")
      /\ link[c] # "up" => wire'[c] = wire[c]
  BY <1>1, <1>2, ReplyEffect
<1> USE DEF Rejected, Goto, contextVars, capacityVars
<1>4. ServiceTypes' BY <1>1, <1>3 DEF ServiceTypes
<1>5. OthersKept(c) BY <1>1, <1>3 DEF ServiceTypes, OthersKept
<1>6. LeaseOwned(c)' BY <1>1 DEF ServiceTypes, ConnInv, LeaseOwned
<1>7. TaskInPlace(c)' BY <1>1 DEF ServiceTypes, ConnInv, LeaseOwned, TaskInPlace, TaskOver
<1>8. AudioKept(c)' BY <1>1 DEF ServiceTypes, AudioKept
<1>9. WireInOrder(c)'
  <2>1. CASE link[c] = "up" BY <1>1, <1>2, <1>3, <2>1, OneMoreHeard DEF ConnInv
  <2>2. CASE link[c] # "up" BY <1>1, <1>3, <2>2, NothingHeard DEF ConnInv
  <2> QED BY <2>1, <2>2
<1>10. WireFollows(c)' BY <1>1 DEF ServiceTypes, WireFollows
<1>11. TaskStarted(c) => TaskStarted(c)' BY <1>1 DEF ServiceTypes, TaskStarted
<1> QED BY <1>4, <1>5, <1>6, <1>7, <1>8, <1>9, <1>10, <1>11, QuietStep DEF ConnInv

(* utterance_active comes after utterance_queued, with the slot in hand
   (ReadyTellsTruth of the manager). *)
LEMMA TaskReadyStep == ASSUME ServiceInv, NEW c \in Conns, TaskReady(c) PROVE ServiceInv'
<1>1. ServiceTypes /\ ConnInv(c) BY DEF ServiceInv
<1>2. /\ lease[c] # None /\ session[c] = None /\ ~failed[c] /\ task[c] = "waiting"
      /\ lease[c] \in Leases \ released /\ ready[lease[c]] = "done"
  BY <1>1 DEF TaskReady, Running, ServiceTypes, ConnInv, LeaseOwned, TaskInPlace
<1>3. lease[c] \in holding
  <2>1. Capacity!ReadyTellsTruth BY DEF ServiceInv, Capacity!LeaseInv
  <2> QED BY <1>2, <2>1 DEF Capacity!ReadyTellsTruth
<1>4. link[c] = "up" => wire[c] = <<"queued">>
  BY <1>1, <1>2 DEF TaskReady, Running, ConnInv, WireFollows
<1>5. Reply(c, "active") /\ "active" \in Kinds BY DEF TaskReady, Kinds
<1>6. /\ wire' \in [Conns -> Seq(Kinds)] /\ \A d \in Conns \ {c} : wire'[d] = wire[d]
      /\ wire[c] \in Seq(Kinds)
      /\ link[c] = "up" => wire'[c] = Append(wire[c], "active")
      /\ link[c] # "up" => wire'[c] = wire[c]
  BY <1>1, <1>5, ReplyEffect
<1>7. link[c] = "up" => /\ Len(wire'[c]) = 2 /\ wire'[c][1] = "queued" /\ wire'[c][2] = "active"
                        /\ wire'[c] # <<>>
  <2> SUFFICES ASSUME link[c] = "up" PROVE /\ Len(wire'[c]) = 2 /\ wire'[c] # <<>>
                                           /\ wire'[c][1] = "queued" /\ wire'[c][2] = "active"
    OBVIOUS
  <2>1. wire'[c] = Append(wire[c], "active") /\ wire[c] \in Seq(Kinds) BY <1>6
  <2>2. Len(wire[c]) = 1 /\ wire[c][1] = "queued" BY <1>4
  <2> QED BY <1>5, <2>1, <2>2, AppendProperties
<1> USE DEF TaskReady, Running, TaskGoes, capacityVars
<1>8. ServiceTypes' BY <1>1, <1>6 DEF ServiceTypes
<1>9. OthersKept(c) BY <1>1, <1>6 DEF ServiceTypes, OthersKept
<1>10. LeaseOwned(c)' BY <1>1, <1>2 DEF ServiceTypes, ConnInv, LeaseOwned
<1>11. TaskInPlace(c)' BY <1>1, <1>2, <1>3 DEF ServiceTypes, ConnInv, LeaseOwned, TaskInPlace, TaskOver
<1>12. AudioKept(c)' BY <1>1, <1>2 DEF ServiceTypes, ConnInv, AudioKept, After
<1>13. WireInOrder(c)'
  <2>1. CASE link[c] = "up" BY <1>7, <2>1 DEF WireInOrder, Ending
  <2>2. CASE link[c] # "up" BY <1>1, <1>6, <2>2, NothingHeard DEF ConnInv
  <2> QED BY <2>1, <2>2
<1>14. WireFollows(c)'
  <2>1. link'[c] = link[c] /\ session'[c] = None /\ task'[c] = "announcing" BY <1>1, <1>2 DEF ServiceTypes
  <2>2. CASE link[c] = "up"
    <3>1. \A i \in 1..Len(wire'[c]) : wire'[c][i] \notin Ending BY <1>7, <2>2 DEF Ending
    <3> QED BY <1>7, <2>1, <2>2, <3>1 DEF WireFollows
  <2>3. CASE link[c] # "up" BY <2>1, <2>3 DEF WireFollows
  <2> QED BY <2>2, <2>3
<1>15. TaskStarted(c) => TaskStarted(c)' BY <1>1 DEF ServiceTypes, TaskStarted
<1> QED BY <1>8, <1>9, <1>10, <1>11, <1>12, <1>13, <1>14, <1>15, QuietStep DEF ConnInv

(* The session is opened and takes the buffer over. *)
LEMMA TaskOpensSessionStep == ASSUME ServiceInv, NEW c \in Conns, TaskOpensSession(c) PROVE ServiceInv'
<1>1. ServiceTypes /\ ConnInv(c) BY DEF ServiceInv
<1>2. <<>> # None /\ <<>> \in Seq(Nat) /\ Len(<<>>) = 0 BY EmptyIsNotNone
<1> USE DEF TaskOpensSession, Running, TaskGoes, capacityVars
<1>3. ServiceTypes'
  <2>1. buffer[c] \in Seq(Nat) BY <1>1 DEF ServiceTypes
  <2>2. /\ session' \in [Conns -> Seq(Nat) \union {None}] /\ chunks' \in [Conns -> Seq(Nat)]
        /\ buffer' \in [Conns -> Seq(Nat)]
    BY <1>1, <1>2, <2>1 DEF ServiceTypes
  <2> QED BY <1>1, <2>2 DEF ServiceTypes
<1>4. OthersKept(c) BY <1>1 DEF ServiceTypes, OthersKept
<1>5. LeaseOwned(c)' BY <1>1 DEF ServiceTypes, ConnInv, LeaseOwned, TaskInPlace
<1>6. TaskInPlace(c)' BY <1>1, <1>2 DEF ServiceTypes, ConnInv, LeaseOwned, TaskInPlace, TaskOver
<1>7. AudioKept(c)'
  <2>1. /\ session'[c] = <<>> /\ session[c] = None /\ chunks'[c] = buffer[c] /\ buffer'[c] = <<>>
        /\ lease'[c] = lease[c] /\ pc'[c] = pc[c] /\ sent'[c] = sent[c] /\ task[c] # "raised"
        /\ buffer[c] \in Seq(Nat)
    BY <1>1 DEF ServiceTypes, ConnInv, TaskInPlace
  <2> HIDE DEF TaskOpensSession
  <2> QED BY <1>1, <1>2, <2>1 DEF ConnInv, AudioKept, After
<1>8. WireInOrder(c)' BY <1>1, NothingHeard DEF ConnInv
<1>9. WireFollows(c)' BY <1>1, <1>2 DEF ServiceTypes, ConnInv, TaskInPlace, WireFollows
<1>10. TaskStarted(c) => TaskStarted(c)' BY <1>1, <1>2 DEF ServiceTypes, TaskStarted
<1> QED BY <1>3, <1>4, <1>5, <1>6, <1>7, <1>8, <1>9, <1>10, QuietStep DEF ConnInv

(* The last chunk. *)
LEMMA TailEmpties == ASSUME NEW s \in Seq(Nat), s # <<>> PROVE Tail(s) = <<>> <=> Len(s) = 1
<1>1. Tail(s) \in Seq(Nat) /\ Len(Tail(s)) = Len(s) - 1 /\ Len(s) \in Nat OBVIOUS
<1>2. Tail(s) = <<>> <=> Len(Tail(s)) = 0 BY <1>1, EmptySeq
<1>3. \A n \in Nat : n - 1 = 0 <=> n = 1 OBVIOUS
<1> QED BY <1>1, <1>2, <1>3, Zenon

(* A buffered chunk goes where it belongs in the session. *)
LEMMA TaskFeedsChunkStep == ASSUME ServiceInv, NEW c \in Conns, TaskFeedsChunk(c) PROVE ServiceInv'
<1>1. ServiceTypes /\ ConnInv(c) BY DEF ServiceInv
<1>2. /\ task[c] = "draining" /\ session[c] # None /\ chunks[c] # <<>> /\ lease[c] # None
      /\ session[c] \in Seq(Nat) /\ chunks[c] \in Seq(Nat) /\ lock[c] = "task" /\ ~failed[c]
  BY <1>1 DEF TaskFeedsChunk, Running, ServiceTypes, ConnInv, LeaseOwned, TaskInPlace
<1> DEFINE chunk == Head(chunks[c])
<1>3. /\ chunk \in Nat /\ Append(session[c], chunk) \in Seq(Nat) /\ Append(session[c], chunk) # None
      /\ Tail(chunks[c]) \in Seq(Nat) /\ Len(Tail(chunks[c])) = Len(chunks[c]) - 1
      /\ Len(chunks[c]) \in Nat /\ (Tail(chunks[c]) = <<>> <=> Len(chunks[c]) = 1)
  <2>1. /\ chunk \in Nat /\ Tail(chunks[c]) \in Seq(Nat) /\ Len(Tail(chunks[c])) = Len(chunks[c]) - 1
        /\ Len(chunks[c]) \in Nat
    BY <1>2
  <2>2. Append(session[c], chunk) \in Seq(Nat) BY <1>2, <2>1
  <2>3. Tail(chunks[c]) = <<>> <=> Len(chunks[c]) = 1 BY <1>2, TailEmpties
  <2> QED BY <2>1, <2>2, <2>3, ServiceAssumption
<1> HIDE DEF chunk
<1>4. Interim(c) BY DEF TaskFeedsChunk
<1>5. /\ wire' \in [Conns -> Seq(Kinds)] /\ \A d \in Conns \ {c} : wire'[d] = wire[d]
      /\ WireInOrder(c)'
      /\ link[c] = "up" =>
           /\ wire'[c] # <<>> /\ wire'[c][1] \in {"started", "queued"}
           /\ wire'[c][1] = "queued" => Len(wire'[c]) >= 2 /\ wire'[c][2] = "active"
           /\ \A i \in 1..Len(wire'[c]) : wire'[c][i] \notin Ending
  BY <1>1, <1>2, <1>4, InterimEffect
<1>6. /\ session' = [session EXCEPT ![c] = Append(session[c], chunk)]
      /\ chunks' = [chunks EXCEPT ![c] = Tail(chunks[c])]
      /\ \/ Len(chunks[c]) > 1 /\ UNCHANGED <<lock, task>>
         \/ /\ Len(chunks[c]) = 1
            /\ lock' = [lock EXCEPT ![c] = "free"] /\ task' = [task EXCEPT ![c] = "done"]
      /\ UNCHANGED <<capacityVars, pc, link, lease, buffer, failed, sent>>
  BY DEF TaskFeedsChunk, TaskGoes, chunk
<1> USE DEF capacityVars
<1>7. ServiceTypes' BY <1>1, <1>3, <1>5, <1>6 DEF ServiceTypes
<1>8. OthersKept(c) BY <1>1, <1>5, <1>6 DEF ServiceTypes, OthersKept
<1>9. /\ session'[c] = Append(session[c], chunk) /\ chunks'[c] = Tail(chunks[c])
      /\ \/ Len(chunks[c]) # 1 /\ lock'[c] = "task" /\ task'[c] = "draining"
         \/ Len(chunks[c]) = 1 /\ lock'[c] = "free" /\ task'[c] = "done"
      /\ pc'[c] = pc[c] /\ link'[c] = link[c] /\ lease'[c] = lease[c] /\ buffer'[c] = buffer[c]
      /\ failed'[c] = failed[c] /\ sent'[c] = sent[c] /\ session'[c] # None
  <2>1. \A n \in Nat : n > 1 => n # 1 OBVIOUS
  <2> QED BY <1>1, <1>2, <1>3, <1>6, <2>1 DEF ServiceTypes
<1>10. LeaseOwned(c)' BY <1>1, <1>2, <1>6, <1>9 DEF ConnInv, LeaseOwned
<1>11. TaskInPlace(c)'
  <2>1. chunks'[c] # <<>> <=> task'[c] = "draining" BY <1>3, <1>9, Zenon
  <2> QED BY <1>1, <1>2, <1>6, <1>9, <2>1 DEF ConnInv, TaskInPlace, TaskOver
<1>12. AudioKept(c)'
  <2> SUFFICES ASSUME pc[c] \notin {"rejecting", "exit", "cancelling"} PROVE AudioKept(c)'
    BY <1>9 DEF AudioKept
  <2> DEFINE kept == IF pc[c] \in {"feed_lock", "feed"} THEN sent[c] - 1 ELSE sent[c]
  <2>1. /\ kept \in Nat /\ buffer[c] = <<>> /\ Len(session[c]) + Len(chunks[c]) = kept
        /\ After(0, session[c]) /\ After(Len(session[c]), chunks[c])
    BY <1>1, <1>2 DEF ConnInv, AudioKept
  <2>2. /\ chunk = Len(session[c]) + 1 /\ After(Len(session[c]) + 1, Tail(chunks[c]))
        /\ Len(session[c]) \in Nat
    <3>1. Len(session[c]) \in Nat BY <1>2
    <3> QED BY <1>2, <2>1, <3>1, AfterTail DEF chunk
  <2>3. 0 + Len(session[c]) + 1 = chunk BY <2>2
  <2>4. Len(session'[c]) = Len(session[c]) + 1 /\ After(0, session'[c])
    BY <1>2, <1>9, <2>1, <2>3, AfterAppend
  <2> HIDE DEF kept
  <2>5. Len(session'[c]) + Len(chunks'[c]) = kept
    <3>1. Len(chunks'[c]) = Len(chunks[c]) - 1 BY <1>3, <1>9
    <3>2. \A m, n \in Nat : (m + 1) + (n - 1) = m + n OBVIOUS
    <3>3. (Len(session[c]) + 1) + (Len(chunks[c]) - 1) = Len(session[c]) + Len(chunks[c])
      BY <1>3, <2>2, <3>2, Zenon
    <3> QED BY <2>1, <2>4, <3>1, <3>3, Zenon
  <2> QED BY <1>9, <2>1, <2>2, <2>4, <2>5 DEF AudioKept, kept
<1>13. WireFollows(c)' BY <1>5, <1>9 DEF WireFollows
<1>14. TaskStarted(c) => TaskStarted(c)' BY <1>9 DEF TaskStarted
<1> QED BY <1>5, <1>6, <1>7, <1>8, <1>10, <1>11, <1>12, <1>13, <1>14, QuietStep DEF ConnInv

(* A packet comes, or gets the lock it has waited for. *)
LEMMA PacketStep == ASSUME ServiceInv, NEW c \in Conns, Audio(c) \/ FeedGetsLock(c) PROVE ServiceInv'
<1>1. ServiceTypes /\ ConnInv(c) BY DEF ServiceInv
<1>2. /\ \/ pc[c] = "receive" /\ sent'[c] = sent[c] + 1
         \/ pc[c] = "feed_lock" /\ sent'[c] = sent[c]
      /\ sent' \in [Conns -> Nat] /\ \A d \in Conns \ {c} : sent'[d] = sent[d]
  <2>1. sent \in [Conns -> Nat] /\ sent[c] \in Nat BY <1>1 DEF ServiceTypes
  <2>2. CASE Audio(c)
    <3>1. sent' = [sent EXCEPT ![c] = sent[c] + 1] /\ pc[c] = "receive"
      BY <2>2 DEF Audio, Receiving
    <3>2. sent[c] + 1 \in Nat BY <2>1
    <3>3. /\ sent' \in [Conns -> Nat] /\ sent'[c] = sent[c] + 1
          /\ \A d \in Conns \ {c} : sent'[d] = sent[d]
      BY <2>1, <3>1, <3>2
    <3> QED BY <3>1, <3>3
  <2>3. CASE FeedGetsLock(c) BY <2>1, <2>3 DEF FeedGetsLock
  <2> QED BY <2>2, <2>3
<1>3. /\ UNCHANGED <<capacityVars, link, lease, session, failed, task, chunks, wire>>
      /\ \/ /\ session[c] = None /\ lock' = lock
            /\ buffer' = [buffer EXCEPT ![c] = Append(buffer[c], sent'[c])]
            /\ pc' = [pc EXCEPT ![c] = "receive"]
         \/ /\ session[c] # None /\ lock[c] = "free" /\ buffer' = buffer
            /\ lock' = [lock EXCEPT ![c] = "handler"] /\ pc' = [pc EXCEPT ![c] = "feed"]
         \/ buffer' = buffer /\ lock' = lock /\ pc' = [pc EXCEPT ![c] = "feed_lock"]
  <2>1. CASE Audio(c)
    <3>1. sent'[c] = sent[c] + 1 BY <1>1, <2>1 DEF Audio, ServiceTypes
    <3> QED BY <2>1, <3>1 DEF Audio, FeedLocked, Goto
  <2>2. CASE FeedGetsLock(c) BY <2>2 DEF FeedGetsLock, FeedLocked, Goto
  <2> QED BY <2>1, <2>2
<1>4. lease[c] # None
  BY <1>1 DEF Audio, FeedGetsLock, ConnInv, LeaseOwned
<1>5. sent'[c] \in Nat /\ sent[c] \in Nat /\ buffer[c] \in Seq(Nat) BY <1>1, <1>2 DEF ServiceTypes
<1>6. ServiceTypes'
  <2>1. pc' \in [Conns -> {"away", "receive", "announce", "rejecting", "feed_lock", "feed",
                           "finish_wait", "finish", "exit", "cancelling", "leaving"}]
    BY <1>1, <1>3 DEF ServiceTypes
  <2>2. lock' \in [Conns -> {"free", "handler", "task"}]
    <3>1. lock' = lock \/ lock' = [lock EXCEPT ![c] = "handler"] BY <1>3
    <3>2. lock \in [Conns -> {"free", "handler", "task"}] BY <1>1 DEF ServiceTypes
    <3> QED BY <3>1, <3>2
  <2>3. Append(buffer[c], sent'[c]) \in Seq(Nat) BY <1>5
  <2>4. buffer \in [Conns -> Seq(Nat)] BY <1>1 DEF ServiceTypes
  <2>5. [buffer EXCEPT ![c] = Append(buffer[c], sent'[c])] \in [Conns -> Seq(Nat)] BY <2>3, <2>4
  <2>6. buffer' \in [Conns -> Seq(Nat)] BY <1>3, <2>4, <2>5
  <2> QED BY <1>1, <1>2, <1>3, <2>1, <2>2, <2>6 DEF ServiceTypes
<1>7. OthersKept(c) BY <1>1, <1>2, <1>3 DEF ServiceTypes, OthersKept
<1>8. /\ session'[c] = session[c] /\ lease'[c] = lease[c] /\ task'[c] = task[c] /\ chunks'[c] = chunks[c]
      /\ failed'[c] = failed[c] /\ wire'[c] = wire[c] /\ link'[c] = link[c] /\ holding' = holding
      /\ released' = released /\ made' = made /\ lease' = lease
      /\ \/ session[c] = None /\ lock'[c] = lock[c] /\ buffer'[c] = Append(buffer[c], sent'[c]) /\ pc'[c] = "receive"
         \/ session[c] # None /\ lock[c] = "free" /\ lock'[c] = "handler" /\ buffer'[c] = buffer[c] /\ pc'[c] = "feed"
         \/ lock'[c] = lock[c] /\ buffer'[c] = buffer[c] /\ pc'[c] = "feed_lock"
  BY <1>1, <1>3 DEF ServiceTypes, capacityVars
<1>9. pc[c] \in {"receive", "feed_lock"} BY <1>2
<1>10. LeaseOwned(c)' BY <1>1, <1>4, <1>8, <1>9 DEF ConnInv, LeaseOwned
<1>11. TaskInPlace(c)' BY <1>1, <1>8, <1>9 DEF ConnInv, TaskInPlace, TaskOver
<1>12. AudioKept(c)'
  <2> SUFFICES ASSUME task[c] # "raised" PROVE AudioKept(c)'
    BY <1>8 DEF AudioKept
  <2>1. /\ sent'[c] - 1 \in Nat
        /\ session[c] = None => Len(buffer[c]) = sent'[c] - 1 /\ After(0, buffer[c])
        /\ session[c] # None =>
             /\ buffer[c] = <<>>
             /\ Len(session[c]) + Len(chunks[c]) = sent'[c] - 1
             /\ After(0, session[c]) /\ After(Len(session[c]), chunks[c])
    <3>1. AudioKept(c) BY <1>1 DEF ConnInv
    <3>2. sent'[c] - 1 = IF pc[c] \in {"feed_lock", "feed"} THEN sent[c] - 1 ELSE sent[c]
      <4>1. CASE pc[c] = "receive" BY <1>2, <1>5, <4>1
      <4>2. CASE pc[c] = "feed_lock" BY <1>2, <1>5, <4>2
      <4> QED BY <1>9, <4>1, <4>2
    <3> QED BY <1>4, <1>9, <3>1, <3>2 DEF AudioKept
  <2>2. session[c] = None => /\ Len(Append(buffer[c], sent'[c])) = sent'[c]
                             /\ After(0, Append(buffer[c], sent'[c]))
    <3>1. CASE session[c] = None
      <4>1. 0 + Len(buffer[c]) + 1 = sent'[c] BY <1>5, <2>1, <3>1
      <4> QED BY <1>5, <2>1, <3>1, <4>1, AfterAppend
    <3> QED BY <3>1
  <2> QED BY <1>5, <1>8, <2>1, <2>2 DEF AudioKept
<1>13. WireInOrder(c)' BY <1>1, <1>8, NothingHeard DEF ConnInv
<1>14. WireFollows(c)' BY <1>1, <1>8, <1>9 DEF ConnInv, WireFollows
<1>15. TaskStarted(c) => TaskStarted(c)' BY <1>8, <1>9 DEF TaskStarted
<1> QED BY <1>3, <1>6, <1>7, <1>10, <1>11, <1>12, <1>13, <1>14, <1>15, QuietStep DEF ConnInv

-----------------------------------------------------------------------------
(* The steps of a connection that call the manager. *)

(* A step of connection c that calls the manager keeps the invariant, if it
   keeps what is said of c and takes nothing from the others. *)
LEMMA CallingStep ==
  ASSUME ServiceInv, NEW c \in Conns, Capacity!Next, ServiceTypes',
         OthersKept(c), LeaseMoves(c), OthersHold(c), ConnInv(c)',
         "start_blocks" \notin Faults /\ TaskStarted(c) => TaskStarted(c)',
         "constructor_fails" \notin Faults => \A l \in made' \ released' : \E d \in Conns : lease'[d] = l
  PROVE  ServiceInv'
<1>1. Capacity!LeaseInv'
  BY Capacity!NextLeaseInv, CapAssumption DEF ServiceInv
<1>2. \A d \in Conns : ConnInv(d)'
  <2>1. \A d \in Conns \ {c} : ConnInv(d)' BY OthersStay DEF ServiceInv
  <2> QED BY <2>1
<1>3. ASSUME NEW d \in Conns \ {c}, TaskStarted(d) PROVE TaskStarted(d)'
  BY <1>3 DEF TaskStarted, OthersKept
<1>4. "start_blocks" \notin Faults => \A d \in Conns : TaskStarted(d)'
  BY <1>3 DEF ServiceInv
<1> QED BY <1>1, <1>2, <1>4 DEF ServiceInv

(* open_connection(). *)
LEMMA OpenStep == ASSUME ServiceInv, NEW c \in Conns, Open(c) PROVE ServiceInv'
<1>1. ServiceTypes /\ ConnInv(c) BY DEF ServiceInv
<1>2. Capacity!OpenConnection(c) /\ Capacity!Next
  BY SameManager DEF Open, Capacity!Next
<1>3. UNCHANGED <<contextVars, sent, wire, made, holding, released>> /\ pc[c] = "away"
  BY <1>2 DEF Open, Capacity!OpenConnection, Capacity!leaseVars
<1>4. pc' = [pc EXCEPT ![c] = "receive"] /\ link' = [link EXCEPT ![c] = "up"]
  BY DEF Open, Goto
<1> USE DEF contextVars
<1>5. ServiceTypes' BY <1>1, <1>3, <1>4 DEF ServiceTypes
<1>6. OthersKept(c) BY <1>1, <1>3, <1>4 DEF ServiceTypes, OthersKept
<1>7. LeaseMoves(c) /\ OthersHold(c) BY <1>3 DEF LeaseMoves, OthersHold
<1>8. lease[c] = None BY <1>1, <1>3 DEF ConnInv, LeaseOwned
<1>9. LeaseOwned(c)' BY <1>1, <1>3, <1>4, <1>8 DEF ServiceTypes, ConnInv, LeaseOwned
<1>10. TaskInPlace(c)' BY <1>1, <1>3, <1>4, <1>8 DEF ServiceTypes, ConnInv, TaskInPlace, TaskOver
<1>11. AudioKept(c)' BY <1>3, <1>8 DEF AudioKept
<1>12. WireInOrder(c)' BY <1>1, <1>3, NothingHeard DEF ConnInv
<1>13. WireFollows(c)' BY <1>3, <1>8 DEF WireFollows
<1>14. TaskStarted(c) => TaskStarted(c)' BY <1>1, <1>3, <1>4, <1>8 DEF ServiceTypes, TaskStarted
<1>15. "constructor_fails" \notin Faults => \A l \in made' \ released' : \E d \in Conns : lease'[d] = l
  BY <1>3 DEF ServiceInv
<1> QED BY <1>2, <1>5, <1>6, <1>7, <1>9, <1>10, <1>11, <1>12, <1>13, <1>14, <1>15, CallingStep DEF ConnInv

(* close_connection(). *)
LEMMA LeaveStep == ASSUME ServiceInv, NEW c \in Conns, Leave(c) PROVE ServiceInv'
<1>1. ServiceTypes /\ ConnInv(c) BY DEF ServiceInv
<1>2. Capacity!CloseConnection(c) /\ Capacity!Next
  BY SameManager DEF Leave, Capacity!Next
<1>3. /\ UNCHANGED <<link, contextVars, sent, made, holding, released>>
      /\ lease[c] = None /\ pc[c] \in {"leaving", "exit"}
  BY <1>1, <1>2 DEF Leave, Capacity!CloseConnection, Capacity!leaseVars, ConnInv, LeaseOwned
<1>4. pc' = [pc EXCEPT ![c] = "away"] /\ wire' = [wire EXCEPT ![c] = <<>>]
  BY DEF Leave, Goto
<1> USE DEF contextVars
<1>5. ServiceTypes'
  <2>1. wire' \in [Conns -> Seq(Kinds)] BY <1>1, <1>4 DEF ServiceTypes
  <2> QED BY <1>1, <1>3, <1>4, <2>1 DEF ServiceTypes
<1>6. OthersKept(c) BY <1>1, <1>3, <1>4 DEF ServiceTypes, OthersKept
<1>7. LeaseMoves(c) /\ OthersHold(c) BY <1>3 DEF LeaseMoves, OthersHold
<1>8. LeaseOwned(c)' BY <1>1, <1>3, <1>4 DEF ServiceTypes, ConnInv, LeaseOwned
<1>9. TaskInPlace(c)' BY <1>1, <1>3, <1>4 DEF ServiceTypes, ConnInv, TaskInPlace, TaskOver
<1>10. AudioKept(c)' BY <1>3 DEF AudioKept
<1>11. WireInOrder(c)'
  <2>1. wire'[c] = <<>> BY <1>1, <1>4 DEF ServiceTypes
  <2> QED BY <2>1 DEF WireInOrder
<1>12. WireFollows(c)' BY <1>3 DEF WireFollows
<1>13. TaskStarted(c) => TaskStarted(c)' BY <1>1, <1>3, <1>4 DEF ServiceTypes, TaskStarted
<1>14. "constructor_fails" \notin Faults => \A l \in made' \ released' : \E d \in Conns : lease'[d] = l
  BY <1>3 DEF ServiceInv
<1> QED BY <1>2, <1>5, <1>6, <1>7, <1>8, <1>9, <1>10, <1>11, <1>12, <1>13, <1>14, CallingStep DEF ConnInv

(* new_session() raises in the constructor: the lease is lost. *)
LEMMA StartFailsStep == ASSUME ServiceInv, NEW c \in Conns, NEW l \in Leases, StartFails(c, l) PROVE ServiceInv'
<1>1. ServiceTypes /\ ConnInv(c) BY DEF ServiceInv
<1>2. Capacity!ReserveNow(l) /\ Capacity!Next
  BY SameManager DEF StartFails, Capacity!Next
<1>3. /\ UNCHANGED <<link, contextVars, sent, wire, released>> /\ lease[c] = None /\ pc[c] = "receive"
      /\ made' = made \union {l} /\ holding' = holding \union {l} /\ l \notin made
      /\ pc' = [pc EXCEPT ![c] = "rejecting"]
  BY <1>2 DEF StartFails, Capacity!ReserveNow, Receiving, Goto
<1> USE DEF contextVars
<1>4. ServiceTypes' BY <1>1, <1>3 DEF ServiceTypes
<1>5. OthersKept(c) BY <1>1, <1>3 DEF ServiceTypes, OthersKept
<1>6. LeaseMoves(c) /\ OthersHold(c) BY <1>3 DEF LeaseMoves, OthersHold
<1>7. LeaseOwned(c)' BY <1>1, <1>3 DEF ServiceTypes, ConnInv, LeaseOwned
<1>8. TaskInPlace(c)' BY <1>1, <1>3 DEF ServiceTypes, ConnInv, TaskInPlace, TaskOver
<1>9. AudioKept(c)' BY <1>3 DEF AudioKept
<1>10. WireInOrder(c)' BY <1>1, <1>3, NothingHeard DEF ConnInv
<1>11. WireFollows(c)' BY <1>3 DEF WireFollows
<1>12. TaskStarted(c) => TaskStarted(c)' BY <1>1, <1>3 DEF ServiceTypes, TaskStarted
<1>13. "constructor_fails" \in Faults BY DEF StartFails
<1> QED BY <1>2, <1>4, <1>5, <1>6, <1>7, <1>8, <1>9, <1>10, <1>11, <1>12, <1>13, CallingStep DEF ConnInv

(* A context with a new lease. *)
LEMMA StartStep == ASSUME ServiceInv, NEW c \in Conns, NEW l \in Leases, Start(c, l) PROVE ServiceInv'
<1>1. ServiceTypes /\ ConnInv(c) BY DEF ServiceInv
<1>2. PICK isActive \in BOOLEAN :
        /\ IF isActive THEN Capacity!ReserveNow(l) ELSE Capacity!ReserveQueued(l)
        /\ NewContext(c, l, isActive) /\ AnnounceStart(c, isActive)
  <2>1. CASE Cap!ReserveNow(l) /\ NewContext(c, l, TRUE) /\ AnnounceStart(c, TRUE)
    BY <2>1, SameManager
  <2>2. CASE Cap!ReserveQueued(l) /\ NewContext(c, l, FALSE) /\ AnnounceStart(c, FALSE)
    BY <2>2, SameManager
  <2> QED BY <2>1, <2>2 DEF Start
<1>3. Capacity!Next BY <1>2 DEF Capacity!Next
<1>4. /\ l \notin made /\ made' = made \union {l} /\ released' = released /\ holding \subseteq holding'
      /\ isActive => l \in holding'
  BY <1>2 DEF Capacity!ReserveNow, Capacity!ReserveQueued
<1>5. l # None /\ <<>> # None /\ <<>> \in Seq(Nat)
  BY EmptyIsNotNone, ServiceAssumption
<1>6. pc[c] = "receive" /\ link[c] = "up" /\ link' = link /\ lease[c] = None /\ released \subseteq made
  BY DEF Start, Receiving, ServiceInv, Capacity!LeaseInv, Capacity!TypeOK
<1>7. /\ lease' = [lease EXCEPT ![c] = l]
      /\ session' = [session EXCEPT ![c] = IF isActive THEN <<>> ELSE None]
      /\ buffer' = [buffer EXCEPT ![c] = <<>>] /\ failed' = [failed EXCEPT ![c] = FALSE]
      /\ lock' = [lock EXCEPT ![c] = "free"] /\ chunks' = [chunks EXCEPT ![c] = <<>>]
      /\ sent' = [sent EXCEPT ![c] = 0]
      /\ wire' = [wire EXCEPT ![c] = <<IF isActive THEN "started" ELSE "queued">>]
  BY <1>2 DEF NewContext
<1>8. \/ /\ pc' = [pc EXCEPT ![c] = "receive"]
         /\ task' = [task EXCEPT ![c] = IF isActive THEN "none" ELSE "waiting"]
      \/ /\ "start_blocks" \in Faults /\ pc' = [pc EXCEPT ![c] = "announce"]
         /\ task' = [task EXCEPT ![c] = "none"]
  BY <1>2 DEF AnnounceStart, ActivationTask, Goto, SlowReaders
<1>9. <<IF isActive THEN "started" ELSE "queued">> \in Seq(Kinds)
  BY DEF Kinds
<1>10. ServiceTypes'
  <2>1. /\ lease' \in [Conns -> Leases \union {None}] /\ session' \in [Conns -> Seq(Nat) \union {None}]
        /\ failed' \in [Conns -> BOOLEAN] /\ lock' \in [Conns -> {"free", "handler", "task"}]
    BY <1>1, <1>5, <1>7 DEF ServiceTypes
  <2>2. /\ buffer' \in [Conns -> Seq(Nat)] /\ chunks' \in [Conns -> Seq(Nat)]
        /\ sent' \in [Conns -> Nat] /\ wire' \in [Conns -> Seq(Kinds)]
    BY <1>1, <1>5, <1>7, <1>9 DEF ServiceTypes
  <2> QED BY <1>1, <1>6, <1>8, <2>1, <2>2 DEF ServiceTypes
<1>11. OthersKept(c) BY <1>1, <1>6, <1>7, <1>8 DEF ServiceTypes, OthersKept
<1>12. /\ lease'[c] = l /\ session'[c] = IF isActive THEN <<>> ELSE None
       /\ buffer'[c] = <<>> /\ failed'[c] = FALSE /\ lock'[c] = "free" /\ chunks'[c] = <<>>
       /\ sent'[c] = 0 /\ wire'[c] = <<IF isActive THEN "started" ELSE "queued">>
       /\ \/ pc'[c] = "receive" /\ task'[c] = IF isActive THEN "none" ELSE "waiting"
          \/ "start_blocks" \in Faults /\ pc'[c] = "announce" /\ task'[c] = "none"
  BY <1>1, <1>7, <1>8 DEF ServiceTypes
<1>13. LeaseMoves(c) /\ OthersHold(c) BY <1>4, <1>12 DEF LeaseMoves, OthersHold
<1>14. LeaseOwned(c)'
  <2>1. \A d \in Conns \ {c} : lease'[d] # l
    BY <1>4, <1>5, <1>11 DEF OthersKept, ServiceInv, ConnInv, LeaseOwned
  <2> QED BY <1>4, <1>5, <1>6, <1>12, <2>1 DEF LeaseOwned
<1>15. TaskInPlace(c)' BY <1>4, <1>5, <1>12 DEF TaskInPlace, TaskOver
<1>16. AudioKept(c)' BY <1>12 DEF AudioKept, After
<1>17. WireInOrder(c)' BY <1>12 DEF WireInOrder, Ending
<1>18. WireFollows(c)' BY <1>5, <1>12 DEF WireFollows, Ending
<1>19. "start_blocks" \notin Faults => TaskStarted(c)' BY <1>5, <1>12 DEF TaskStarted
<1>20. "constructor_fails" \notin Faults => \A m \in made' \ released' : \E d \in Conns : lease'[d] = m
  <2> SUFFICES ASSUME "constructor_fails" \notin Faults, NEW m \in made' \ released'
               PROVE  \E d \in Conns : lease'[d] = m
    OBVIOUS
  <2>1. CASE m = l BY <1>12, <2>1
  <2>2. CASE m # l
    <3>1. m \in made \ released BY <1>4, <2>2
    <3>2. PICK d \in Conns : lease[d] = m BY <3>1 DEF ServiceInv
    <3>3. m # None
      BY <3>1, ServiceAssumption DEF ServiceInv, Capacity!LeaseInv, Capacity!TypeOK
    <3> QED BY <1>6, <1>11, <3>2, <3>3 DEF OthersKept
  <2> QED BY <2>1, <2>2
<1> QED BY <1>3, <1>10, <1>11, <1>13, <1>14, <1>15, <1>16, <1>17, <1>18, <1>19, <1>20, CallingStep DEF ConnInv

(* What giving the lease of c back does to the rest. *)
LEMMA GivesBack ==
  ASSUME ServiceInv, NEW c \in Conns, lease[c] # None, Cap!Release(lease[c]), OthersKept(c),
         lease'[c] = lease[c] \/ lease'[c] = None
  PROVE  /\ Capacity!Next /\ LeaseMoves(c) /\ OthersHold(c)
         /\ made' = made /\ lease[c] \in made /\ lease[c] \in released' /\ lease[c] \notin holding'
         /\ "constructor_fails" \notin Faults => \A l \in made' \ released' : \E d \in Conns : lease'[d] = l
<1>1. lease[c] \in made /\ lease[c] \in Leases
  BY DEF ServiceInv, ConnInv, LeaseOwned, ServiceTypes
<1>2. Capacity!Next BY <1>1, SameManager DEF Capacity!Next
<1>3. /\ made' = made /\ released' = released \union {lease[c]}
      /\ holding \ {lease[c]} \subseteq holding' /\ lease[c] \notin holding'
  BY <1>1, ReleaseEffect DEF ServiceInv
<1>4. \A d \in Conns \ {c} : lease[d] # lease[c]
  BY DEF ServiceInv, ConnInv, LeaseOwned
<1>5. OthersHold(c) BY <1>3, <1>4 DEF OthersHold
<1>6. ASSUME "constructor_fails" \notin Faults, NEW l \in made' \ released'
      PROVE  \E d \in Conns : lease'[d] = l
  <2>1. l \in made \ released /\ l # lease[c] BY <1>3
  <2>2. PICK d \in Conns : lease[d] = l BY <1>6, <2>1 DEF ServiceInv
  <2> QED BY <2>1, <2>2 DEF OthersKept
<1> QED BY <1>1, <1>2, <1>3, <1>5, <1>6 DEF LeaseMoves

(* The context of c is gone, with its lease. *)
LEMMA ContextGoneStep ==
  ASSUME ServiceInv, NEW c \in Conns, lease[c] # None, ContextGone(c), Cap!Release(lease[c]),
         UNCHANGED <<link, chunks>>,
         pc'[c] \in {"receive", "leaving"}, lock'[c] = "free", chunks[c] = <<>>,
         ServiceTypes', OthersKept(c), WireInOrder(c)'
  PROVE  ServiceInv'
<1>1. ServiceTypes /\ ConnInv(c) BY DEF ServiceInv
<1>2. /\ lease'[c] = None /\ session'[c] = None /\ buffer'[c] = <<>> /\ task'[c] = "none"
      /\ failed'[c] = FALSE /\ sent'[c] = 0 /\ chunks'[c] = <<>>
  BY <1>1 DEF ContextGone, ServiceTypes
<1>3. /\ Capacity!Next /\ LeaseMoves(c) /\ OthersHold(c)
      /\ "constructor_fails" \notin Faults => \A l \in made' \ released' : \E d \in Conns : lease'[d] = l
  BY <1>2, GivesBack
<1>4. LeaseOwned(c)' BY <1>2 DEF LeaseOwned
<1>5. TaskInPlace(c)' BY <1>2 DEF TaskInPlace
<1>6. AudioKept(c)' BY <1>2 DEF AudioKept
<1>7. WireFollows(c)' BY <1>2 DEF WireFollows
<1>8. TaskStarted(c)' BY <1>2 DEF TaskStarted
<1> QED BY <1>3, <1>4, <1>5, <1>6, <1>7, <1>8, CallingStep DEF ConnInv

(* The final is sent and the context closed. *)
LEMMA FinishDoneStep == ASSUME ServiceInv, NEW c \in Conns, FinishDone(c) PROVE ServiceInv'
<1>1. ServiceTypes /\ ConnInv(c) BY DEF ServiceInv
<1>2. /\ pc[c] = "finish" /\ session[c] # None /\ lease[c] # None /\ ~failed[c]
      /\ task[c] \in {"none", "done"} /\ chunks[c] = <<>>
  BY <1>1 DEF FinishDone, ServiceTypes, ConnInv, LeaseOwned, TaskInPlace, TaskOver
<1>3. Reply(c, "final") /\ "final" \in Kinds BY DEF FinishDone, Kinds
<1>4. /\ wire' \in [Conns -> Seq(Kinds)] /\ \A d \in Conns \ {c} : wire'[d] = wire[d]
      /\ wire[c] \in Seq(Kinds)
      /\ link[c] = "up" => wire'[c] = Append(wire[c], "final")
      /\ link[c] # "up" => wire'[c] = wire[c]
  BY <1>1, <1>3, ReplyEffect
<1>5. /\ Cap!Release(lease[c]) /\ ContextGone(c) /\ UNCHANGED <<link, chunks>>
      /\ lock' = [lock EXCEPT ![c] = "free"] /\ pc' = [pc EXCEPT ![c] = "receive"]
  BY DEF FinishDone, Goto
<1>6. ServiceTypes'
  <2>1. <<>> \in Seq(Nat) BY EmptyIsNotNone
  <2> QED BY <1>1, <1>4, <1>5, <2>1 DEF ServiceTypes, ContextGone
<1>7. OthersKept(c) BY <1>1, <1>4, <1>5 DEF ServiceTypes, OthersKept, ContextGone
<1>8. WireInOrder(c)'
  <2>1. CASE link[c] = "up"
    <3>1. /\ wire[c] # <<>> /\ \A i \in 1..Len(wire[c]) : wire[c][i] \notin Ending
          /\ wire[c][1] = "queued" => Len(wire[c]) >= 2 /\ wire[c][2] = "active"
      BY <1>1, <1>2, <2>1 DEF ConnInv, WireFollows
    <3> QED BY <1>1, <1>3, <1>4, <2>1, <3>1, OneMoreHeard DEF ConnInv
  <2>2. CASE link[c] # "up" BY <1>1, <1>4, <2>2, NothingHeard DEF ConnInv
  <2> QED BY <2>1, <2>2
<1>9. pc'[c] = "receive" /\ lock'[c] = "free" BY <1>1, <1>5 DEF ServiceTypes
<1> QED BY <1>2, <1>5, <1>6, <1>7, <1>8, <1>9, ContextGoneStep

(* close() on the way out. *)
LEMMA CloseContextStep == ASSUME ServiceInv, NEW c \in Conns, CloseContext(c) PROVE ServiceInv'
<1>1. ServiceTypes /\ ConnInv(c) BY DEF ServiceInv
<1>2. /\ pc[c] \in {"exit", "cancelling"} /\ lease[c] # None /\ TaskOver(c)
      /\ Cap!Release(lease[c]) /\ ContextGone(c) /\ UNCHANGED <<link, lock, chunks, wire>>
      /\ pc' = [pc EXCEPT ![c] = "leaving"]
  BY DEF CloseContext, Goto
<1>3. chunks[c] = <<>> /\ lock[c] = "free"
  BY <1>1, <1>2 DEF ServiceTypes, ConnInv, TaskInPlace, TaskOver
<1>4. ServiceTypes'
  <2>1. <<>> \in Seq(Nat) BY EmptyIsNotNone
  <2> QED BY <1>1, <1>2, <2>1 DEF ServiceTypes, ContextGone
<1>5. OthersKept(c) BY <1>1, <1>2 DEF ServiceTypes, OthersKept, ContextGone
<1>6. WireInOrder(c)' BY <1>1, <1>2, NothingHeard DEF ConnInv
<1>7. pc'[c] = "leaving" /\ lock'[c] = "free" BY <1>1, <1>2, <1>3 DEF ServiceTypes
<1> QED BY <1>2, <1>3, <1>4, <1>5, <1>6, <1>7, ContextGoneStep

(* wait_ready() times out. *)
LEMMA TaskTimeoutStep == ASSUME ServiceInv, NEW c \in Conns, TaskTimeout(c) PROVE ServiceInv'
<1>1. ServiceTypes /\ ConnInv(c) BY DEF ServiceInv
<1>2. /\ task[c] = "waiting" /\ pc[c] # "cancelling" /\ session[c] = None /\ ~failed[c] /\ lease[c] # None
      /\ lock[c] # "task" /\ chunks[c] = <<>>
  BY <1>1 DEF TaskTimeout, Running, ServiceTypes, ConnInv, LeaseOwned, TaskInPlace
<1>3. Reply(c, "timeout") /\ "timeout" \in Kinds BY DEF TaskTimeout, Kinds
<1>4. /\ wire' \in [Conns -> Seq(Kinds)] /\ \A d \in Conns \ {c} : wire'[d] = wire[d]
      /\ wire[c] \in Seq(Kinds)
      /\ link[c] = "up" => wire'[c] = Append(wire[c], "timeout")
      /\ link[c] # "up" => wire'[c] = wire[c]
  BY <1>1, <1>3, ReplyEffect
<1>5. /\ Cap!Release(lease[c])
      /\ failed' = [failed EXCEPT ![c] = TRUE] /\ task' = [task EXCEPT ![c] = "failing"]
      /\ UNCHANGED <<pc, link, lease, session, buffer, lock, chunks, sent>>
  BY DEF TaskTimeout, TaskGoes
<1>6. ServiceTypes' BY <1>1, <1>4, <1>5 DEF ServiceTypes
<1>7. OthersKept(c) BY <1>1, <1>4, <1>5 DEF ServiceTypes, OthersKept
<1>8. /\ Capacity!Next /\ LeaseMoves(c) /\ OthersHold(c)
      /\ made' = made /\ lease[c] \in made /\ lease[c] \in released' /\ lease[c] \notin holding'
      /\ "constructor_fails" \notin Faults => \A l \in made' \ released' : \E d \in Conns : lease'[d] = l
  BY <1>2, <1>5, <1>7, GivesBack
<1>9. failed'[c] = TRUE /\ task'[c] = "failing" BY <1>1, <1>5 DEF ServiceTypes
<1>10. LeaseOwned(c)' BY <1>1, <1>2, <1>5, <1>8, <1>9 DEF ConnInv, LeaseOwned
<1>11. TaskInPlace(c)' BY <1>1, <1>2, <1>5, <1>9 DEF ConnInv, TaskInPlace, TaskOver
<1>12. AudioKept(c)' BY <1>1, <1>2, <1>5, <1>9 DEF ConnInv, AudioKept
<1>13. link[c] = "up" => wire[c] = <<"queued">>
  BY <1>1, <1>2 DEF ConnInv, WireFollows
<1>14. link[c] = "up" => /\ Len(wire'[c]) = 2 /\ wire'[c] # <<>>
                         /\ wire'[c][1] = "queued" /\ wire'[c][2] = "timeout"
  <2> SUFFICES ASSUME link[c] = "up" PROVE /\ Len(wire'[c]) = 2 /\ wire'[c] # <<>>
                                           /\ wire'[c][1] = "queued" /\ wire'[c][2] = "timeout"
    OBVIOUS
  <2>1. wire'[c] = Append(wire[c], "timeout") /\ wire[c] \in Seq(Kinds) BY <1>4
  <2>2. Len(wire[c]) = 1 /\ wire[c][1] = "queued" BY <1>13
  <2> QED BY <1>3, <2>1, <2>2, AppendProperties
<1>15. WireInOrder(c)'
  <2>1. CASE link[c] = "up" BY <1>14, <2>1 DEF WireInOrder, Ending
  <2>2. CASE link[c] # "up" BY <1>1, <1>4, <2>2, NothingHeard DEF ConnInv
  <2> QED BY <2>1, <2>2
<1>16. WireFollows(c)' BY <1>2, <1>5, <1>9, <1>14 DEF WireFollows
<1>17. TaskStarted(c) => TaskStarted(c)' BY <1>5, <1>9 DEF TaskStarted
<1> QED BY <1>6, <1>7, <1>8, <1>10, <1>11, <1>12, <1>15, <1>16, <1>17, CallingStep DEF ConnInv

-----------------------------------------------------------------------------
(* The invariant holds at the start, *)
LEMMA InitServiceInv == Init => ServiceInv
<1> SUFFICES ASSUME Init PROVE ServiceInv
  OBVIOUS
<1>1. Capacity!LeaseInv
  <2>1. Capacity!Init BY SameManager DEF Init
  <2> QED BY <2>1, CapAssumption, Capacity!InitLeaseInv
<1>2. ServiceTypes /\ made = {}
  BY EmptyIsNotNone DEF Init, Cap!Init, ServiceTypes
<1>3. ASSUME NEW c \in Conns PROVE ConnInv(c) /\ TaskStarted(c)
  BY <1>3 DEF Init, ConnInv, LeaseOwned, TaskInPlace, TaskOver, AudioKept, WireInOrder, WireFollows, TaskStarted
<1> QED BY <1>1, <1>2, <1>3 DEF ServiceInv

(* and every step keeps it. *)
LEMMA NextServiceInv == ServiceInv /\ [Next]_vars => ServiceInv'
<1> SUFFICES ASSUME ServiceInv, [Next]_vars PROVE ServiceInv'
  OBVIOUS
<1>1. ASSUME NEW c \in Conns, ClientStep(c) PROVE ServiceInv'
  <2>1. CASE Open(c) BY <2>1, OpenStep
  <2>2. ASSUME NEW l \in Leases, Start(c, l) PROVE ServiceInv' BY <2>2, StartStep
  <2>3. ASSUME NEW l \in Leases, StartFails(c, l) PROVE ServiceInv' BY <2>3, StartFailsStep
  <2>4. CASE Audio(c) BY <2>4, PacketStep
  <2>5. CASE End(c) BY <2>5, EndStep
  <2>6. CASE Disconnect(c) \/ BadMessage(c) \/ StartRefused(c) \/ AudioRejected(c)
    BY <2>6, TurnsStep DEF Turns
  <2> QED BY <1>1, <2>1, <2>2, <2>3, <2>4, <2>5, <2>6 DEF ClientStep
<1>2. ASSUME NEW c \in Conns, HandlerStep(c) PROVE ServiceInv'
  <2>1. CASE StartAnnounced(c) BY <2>1, StartAnnouncedStep
  <2>2. CASE FeedGetsLock(c) BY <2>2, PacketStep
  <2>3. CASE FeedDone(c) BY <2>3, FeedDoneStep
  <2>4. CASE FeedFails(c) BY <2>4, FeedFailsStep
  <2>5. CASE FinishWaited(c) BY <2>5, FinishWaitedStep
  <2>6. CASE FinishDone(c) BY <2>6, FinishDoneStep
  <2>7. CASE FinishFails(c) BY <2>7, FinishFailsStep
  <2>8. CASE Rejected(c) BY <2>8, RejectedStep
  <2>9. CASE CloseContext(c) BY <2>9, CloseContextStep
  <2>10. CASE Leave(c) BY <2>10, LeaveStep
  <2>11. CASE StartSendFails(c) \/ LoopEnds(c) \/ CancelTask(c) BY <2>11, TurnsStep DEF Turns
  <2> QED BY <1>2, <2>1, <2>2, <2>3, <2>4, <2>5, <2>6, <2>7, <2>8, <2>9, <2>10, <2>11 DEF HandlerStep
<1>3. ASSUME NEW c \in Conns, TaskStep(c) PROVE ServiceInv'
  <2>1. CASE TaskReady(c) BY <2>1, TaskReadyStep
  <2>2. CASE TaskTimeout(c) BY <2>2, TaskTimeoutStep
  <2>3. CASE TaskFailed(c) BY <2>3, TaskFailedStep
  <2>4. CASE TaskOpensSession(c) BY <2>4, TaskOpensSessionStep
  <2>5. CASE TaskRaises(c) BY <2>5, TaskRaisesStep
  <2>6. CASE TaskFeedsChunk(c) BY <2>6, TaskFeedsChunkStep
  <2>7. CASE TaskDrainFails(c) BY <2>7, TaskDrainFailsStep
  <2>8. CASE TaskCancelled(c) BY <2>8, TaskCancelledStep
  <2> QED BY <1>3, <2>1, <2>2, <2>3, <2>4, <2>5, <2>6, <2>7, <2>8 DEF TaskStep
<1>4. CASE UNCHANGED vars
  <2>1. UNCHANGED <<capacityVars, lease>> BY <1>4 DEF vars, capacityVars
  <2>2. Capacity!LeaseInv' BY <2>1, CapAssumption, Capacity!StutterStep DEF ServiceInv, capacityVars, Capacity!vars
  <2>3. ServiceTypes' BY <1>4 DEF ServiceInv, ServiceTypes, vars
  <2>4. ASSUME NEW c \in Conns PROVE ConnInv(c)' /\ (TaskStarted(c) => TaskStarted(c)')
    <3>1. ServiceTypes /\ ConnInv(c) BY DEF ServiceInv
    <3>2. LeaseOwned(c)' BY <1>4, <3>1 DEF vars, ConnInv, LeaseOwned
    <3>3. TaskInPlace(c)' BY <1>4, <3>1 DEF vars, ConnInv, TaskInPlace, TaskOver
    <3>4. AudioKept(c)' BY <1>4, <3>1 DEF vars, ConnInv, AudioKept, After
    <3>5. WireInOrder(c)' BY <1>4, <3>1, NothingHeard DEF vars, ConnInv
    <3>6. WireFollows(c)' BY <1>4, <3>1 DEF vars, ConnInv, WireFollows
    <3>7. TaskStarted(c) => TaskStarted(c)' BY <1>4 DEF vars, TaskStarted
    <3> QED BY <3>2, <3>3, <3>4, <3>5, <3>6, <3>7 DEF ConnInv
  <2> QED BY <2>1, <2>2, <2>3, <2>4 DEF ServiceInv, capacityVars
<1> QED BY <1>1, <1>2, <1>3, <1>4 DEF Next

(* What the service relies on, in every reachable state: types, leases with
   one owner, the lock and the task in step with the handler, no packet lost,
   and the conversation so far. *)
THEOREM ServiceCorrect == Spec => []ServiceInv
<1>1. Init => ServiceInv BY InitServiceInv
<1>2. ServiceInv /\ [Next]_vars => ServiceInv' BY NextServiceInv
<1> QED BY <1>1, <1>2, PTL DEF Spec

(* The recognizer is asked for a final over all the client has sent: every
   packet, once, in order. *)
THEOREM FinalCovers == Spec => []FinalCoversAudio
<1>1. ServiceInv => FinalCoversAudio
  <2> SUFFICES ASSUME ServiceInv, NEW c \in Conns, pc[c] = "finish"
               PROVE  session[c] = [i \in 1..sent[c] |-> i]
    BY DEF FinalCoversAudio
  <2>1. ServiceTypes /\ ConnInv(c) BY DEF ServiceInv
  <2>2. /\ lease[c] # None /\ session[c] # None /\ session[c] \in Seq(Nat) /\ sent[c] \in Nat
        /\ task[c] # "raised" /\ chunks[c] = <<>>
    BY <2>1 DEF ServiceTypes, ConnInv, LeaseOwned, TaskInPlace
  <2>3. Len(session[c]) = sent[c] /\ After(0, session[c])
    <3>1. Len(session[c]) + Len(chunks[c]) = sent[c] /\ After(0, session[c])
      BY <2>1, <2>2 DEF ConnInv, AudioKept
    <3>2. Len(chunks[c]) = 0 /\ Len(session[c]) \in Nat BY <2>2
    <3> QED BY <3>1, <3>2
  <2> DEFINE all == [i \in 1..sent[c] |-> i]
  <2>4. all \in Seq(Nat) /\ Len(all) = sent[c] /\ \A i \in 1..sent[c] : all[i] = i
    BY <2>2
  <2> HIDE DEF all
  <2>5. \A i \in 1..Len(session[c]) : session[c][i] = all[i]
    BY <2>2, <2>3, <2>4 DEF After
  <2>6. session[c] = all BY <2>2, <2>3, <2>4, <2>5, SeqEqual
  <2> QED BY <2>6 DEF all
<1> QED BY <1>1, ServiceCorrect, PTL

(* What a client hears of its utterance makes sense from left to right. *)
THEOREM RepliesOrdered == Spec => []RepliesInOrder
<1>1. ServiceInv => RepliesInOrder
  BY DEF ServiceInv, ConnInv, WireInOrder, RepliesInOrder, Ending
<1> QED BY <1>1, ServiceCorrect, PTL

(* No more sessions than slots, whatever fails. *)
THEOREM SessionsBounded == Spec => []SessionsWithinSlots
<1>1. ServiceInv => SessionsWithinSlots
  BY DEF ServiceInv, ConnInv, TaskInPlace, SessionsWithinSlots
<1> QED BY <1>1, ServiceCorrect, PTL

(* While new_session() does not raise in the constructor, no slot and no
   place in the queue is without an owner. *)
THEOREM SlotsOwned ==
  ASSUME "constructor_fails" \notin Faults
  PROVE  Spec => []SlotsAccounted
<1>1. ServiceInv => SlotOwned
  <2> SUFFICES ASSUME ServiceInv, NEW l \in made \ released
               PROVE  \E c \in Conns : lease[c] = l /\ \A d \in Conns : lease[d] = l => d = c
    BY DEF SlotOwned
  <2>1. PICK c \in Conns : lease[c] = l BY DEF ServiceInv
  <2>2. l # None
    BY ServiceAssumption DEF ServiceInv, Capacity!LeaseInv, Capacity!TypeOK
  <2>3. ConnInv(c) BY DEF ServiceInv
  <2>4. \A d \in Conns : lease[d] = l => d = c
    BY <2>1, <2>2, <2>3 DEF ConnInv, LeaseOwned
  <2> QED BY <2>1, <2>4
<1> QED BY <1>1, ServiceCorrect, SessionsBounded, PTL DEF SlotsAccounted

(* While announcing a start does not suspend, a promoted utterance gets its
   session. *)
THEOREM PromotedServed ==
  ASSUME "start_blocks" \notin Faults
  PROVE  Spec => []NoStranded
<1>1. ServiceInv => NoStranded
  <2> SUFFICES ASSUME ServiceInv, NEW c \in Conns, Receiving(c), lease[c] \in holding, session[c] = None
               PROVE  task[c] \in {"waiting", "announcing", "failing", "raised"}
    BY DEF NoStranded
  <2>1. ServiceTypes /\ ConnInv(c) /\ TaskStarted(c) BY DEF ServiceInv
  <2>2. lease[c] \notin released /\ lease[c] # None
    <3>1. holding \intersect released = {} /\ holding \subseteq Leases
      BY DEF ServiceInv, Capacity!LeaseInv, Capacity!SlotsExact, Capacity!TypeOK
    <3> QED BY <3>1, ServiceAssumption
  <2>3. ~failed[c] /\ pc[c] = "receive" BY <2>1, <2>2 DEF ConnInv, LeaseOwned, Receiving
  <2> QED BY <2>1, <2>2, <2>3 DEF ServiceTypes, ConnInv, TaskInPlace, TaskStarted
<1> QED BY <1>1, ServiceCorrect, PTL

-----------------------------------------------------------------------------
(* Every step of the service is one operation of the manager or none. *)
LEMMA ManagerStep == ServiceInv /\ [Next]_vars => [Capacity!Next]_(Capacity!vars)
<1> SUFFICES ASSUME ServiceInv, [Next]_vars PROVE Capacity!Next \/ UNCHANGED capacityVars
  BY DEF capacityVars, Capacity!vars
<1>1. ASSUME NEW c \in Conns, ClientStep(c) PROVE Capacity!Next \/ UNCHANGED capacityVars
  <2>1. CASE Open(c) BY <2>1, SameManager DEF Open, Capacity!Next
  <2>2. ASSUME NEW l \in Leases, Start(c, l) \/ StartFails(c, l) PROVE Capacity!Next
    BY <2>2, SameManager DEF Start, StartFails, Capacity!Next
  <2>3. CASE StartRefused(c) BY <2>3, SameManager DEF StartRefused, Capacity!Next
  <2> QED BY <1>1, <2>1, <2>2, <2>3 DEF ClientStep, Disconnect, BadMessage, Audio, AudioRejected, End
<1>2. ASSUME NEW c \in Conns, Cap!Release(lease[c]), lease[c] # None PROVE Capacity!Next
  <2>1. lease[c] \in Leases BY <1>2 DEF ServiceInv, ServiceTypes
  <2> QED BY <1>2, <2>1, SameManager DEF Capacity!Next
<1>3. ASSUME NEW c \in Conns, HandlerStep(c) PROVE Capacity!Next \/ UNCHANGED capacityVars
  <2>1. CASE FinishDone(c) BY <1>2, <2>1 DEF FinishDone, ServiceInv, ConnInv, LeaseOwned
  <2>2. CASE CloseContext(c) BY <1>2, <2>2 DEF CloseContext
  <2>3. CASE Leave(c) BY <2>3, SameManager DEF Leave, Capacity!Next
  <2> QED BY <1>3, <2>1, <2>2, <2>3 DEF HandlerStep, StartAnnounced, StartSendFails, FeedGetsLock, FeedDone,
             FeedFails, FinishWaited, FinishFails, Rejected, LoopEnds, CancelTask
<1>4. ASSUME NEW c \in Conns, TaskStep(c) PROVE Capacity!Next \/ UNCHANGED capacityVars
  <2>1. CASE TaskTimeout(c) BY <1>2, <2>1 DEF TaskTimeout, Running, ServiceInv, ConnInv, LeaseOwned
  <2> QED BY <1>4, <2>1 DEF TaskStep, TaskReady, TaskFailed, TaskOpensSession, TaskRaises, TaskFeedsChunk,
             TaskDrainFails, TaskCancelled
<1> QED BY <1>1, <1>3, <1>4 DEF Next, vars, capacityVars

(* The service uses the manager as the manager is meant to be used. *)
THEOREM UsesManager == Spec => Capacity!Spec
<1>1. Init => Capacity!Init BY SameManager DEF Init
<1>2. ServiceInv /\ [Next]_vars => [Capacity!Next]_(Capacity!vars) BY ManagerStep
<1> QED BY <1>1, <1>2, ServiceCorrect, PTL DEF Spec, Capacity!Spec

(* So the promises of the manager hold in the service, for any number of
   connections: its counters and its queue are exact, and slots are handed
   over first come, first served. *)
THEOREM ManagerPromisesHold ==
  Spec => []Capacity!BookkeepingExact /\ Capacity!KeepsAdmissionPromise
BY UsesManager, CapAssumption, Capacity!Bookkeeping, Capacity!ImplementsAdmission


=============================================================================
