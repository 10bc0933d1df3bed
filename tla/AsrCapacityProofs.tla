-------------------------- MODULE AsrCapacityProofs --------------------------
(***************************************************************************)
(* Theorems about AsrCapacity for any set of leases, any number of slots   *)
(* and any queue length.                                                   *)
(***************************************************************************)
EXTENDS AsrCapacity, SequenceTheorems, FiniteSetTheorems, TLAPS

-----------------------------------------------------------------------------
(* Lemmas about sequences. *)

\* A sequence without its k-th element, put together from its two parts.
LEMMA Splice ==
  ASSUME NEW S, NEW s \in Seq(S), NEW k \in 1..Len(s),
         NEW a \in Seq(S), Len(a) = k - 1, \A i \in 1..(k - 1) : a[i] = s[i],
         NEW b \in Seq(S), Len(b) = Len(s) - k,
         \A i \in 1..(Len(s) - k) : b[i] = s[k + i]
  PROVE  /\ a \o b \in Seq(S)
         /\ Len(a \o b) = Len(s) - 1
         /\ \A i \in 1..(Len(s) - 1) : (a \o b)[i] = IF i < k THEN s[i] ELSE s[i + 1]
<1>1. Len(s) \in Nat
  BY LenProperties
<1>2. /\ a \o b \in Seq(S)
      /\ Len(a \o b) = Len(a) + Len(b)
      /\ \A i \in 1..(Len(a) + Len(b)) :
           (a \o b)[i] = IF i <= Len(a) THEN a[i] ELSE b[i - Len(a)]
  BY ConcatProperties
<1>3. Len(a) + Len(b) = Len(s) - 1
  BY <1>1
<1>4. ASSUME NEW i \in 1..(Len(s) - 1)
      PROVE  (a \o b)[i] = IF i < k THEN s[i] ELSE s[i + 1]
  <2>1. (a \o b)[i] = IF i <= k - 1 THEN a[i] ELSE b[i - (k - 1)]
    BY <1>2, <1>3
  <2>2. CASE i < k
    BY <2>1, <2>2, <1>1
  <2>3. CASE ~(i < k)
    <3>1. i - (k - 1) \in 1..(Len(s) - k) /\ ~(i <= k - 1)
      BY <2>3, <1>1
    <3>2. k + (i - (k - 1)) = i + 1
      BY <1>1
    <3>3. QED
      BY <3>1, <3>2, <2>3, <2>1
  <2>4. QED
    BY <2>2, <2>3
<1>5. QED
  BY <1>2, <1>3, <1>4

\* A sequence without its k-th element.
LEMMA RemoveAtElements ==
  ASSUME NEW S, NEW s \in Seq(S), NEW k \in 1..Len(s)
  PROVE  /\ RemoveAt(s, k) \in Seq(S)
         /\ Len(RemoveAt(s, k)) = Len(s) - 1
         /\ \A i \in 1..(Len(s) - 1) :
              RemoveAt(s, k)[i] = IF i < k THEN s[i] ELSE s[i + 1]
<1> DEFINE Spliced(t) ==
      /\ t \in Seq(S)
      /\ Len(t) = Len(s) - 1
      /\ \A i \in 1..(Len(s) - 1) : t[i] = IF i < k THEN s[i] ELSE s[i + 1]
<1>1. /\ SubSeq(s, 1, k - 1) \in Seq(S)
      /\ Len(SubSeq(s, 1, k - 1)) = k - 1
      /\ \A i \in 1..(k - 1) : SubSeq(s, 1, k - 1)[i] = s[i]
  OBVIOUS
<1>2. /\ SubSeq(s, k + 1, Len(s)) \in Seq(S)
      /\ Len(SubSeq(s, k + 1, Len(s))) = Len(s) - k
      /\ \A i \in 1..(Len(s) - k) : SubSeq(s, k + 1, Len(s))[i] = s[k + i]
  OBVIOUS
<1>3. \A a, b : a = SubSeq(s, 1, k - 1) /\ b = SubSeq(s, k + 1, Len(s)) => Spliced(a \o b)
  <2> SUFFICES ASSUME NEW a, NEW b, a = SubSeq(s, 1, k - 1), b = SubSeq(s, k + 1, Len(s))
               PROVE  Spliced(a \o b)
    BY Zenon
  <2>1. a \in Seq(S) /\ Len(a) = k - 1 /\ \A i \in 1..(k - 1) : a[i] = s[i]
    BY <1>1
  <2>2. b \in Seq(S) /\ Len(b) = Len(s) - k /\ \A i \in 1..(Len(s) - k) : b[i] = s[k + i]
    BY <1>2
  <2>3. QED
    BY ONLY <2>1, <2>2, Splice, s \in Seq(S), k \in 1..Len(s), SMT
<1>4. QED
  BY ONLY <1>3 DEF RemoveAt

\* Taking one occurrence out of a sequence without repetitions.
LEMMA RemoveFirstOfDistinct ==
  ASSUME NEW S, NEW s \in Seq(S), NEW e,
         \A i, j \in 1..Len(s) : s[i] = s[j] => i = j,
         NEW k \in 1..Len(s), s[k] = e
  PROVE  /\ RemoveFirst(s, e) \in Seq(S)
         /\ Len(RemoveFirst(s, e)) = Len(s) - 1
         /\ \A i \in 1..(Len(s) - 1) :
              RemoveFirst(s, e)[i] = IF i < k THEN s[i] ELSE s[i + 1]
<1> DEFINE I == {i \in 1..Len(s) : s[i] = e}
<1>1. I = {k} /\ k \in Int
  OBVIOUS
<1>2. Min(I) = k
  BY <1>1 DEF Min
<1>3. SelectInSeq(s, LAMBDA v : v = e) = k
  BY <1>1, <1>2 DEF SelectInSeq
<1>4. RemoveFirst(s, e) = RemoveAt(s, k)
  BY <1>3 DEF RemoveFirst
<1>5. /\ RemoveAt(s, k) \in Seq(S)
      /\ Len(RemoveAt(s, k)) = Len(s) - 1
      /\ \A i \in 1..(Len(s) - 1) :
           RemoveAt(s, k)[i] = IF i < k THEN s[i] ELSE s[i + 1]
  BY ONLY RemoveAtElements, s \in Seq(S), k \in 1..Len(s)
<1>6. QED
  BY <1>4, <1>5

-----------------------------------------------------------------------------
(* Sequences without repetitions, and what they contain. *)
Distinct(s) == \A i, j \in 1..Len(s) : s[i] = s[j] => i = j

\* Taking the first element off a sequence without repetitions.
LEMMA TailOfDistinct ==
  ASSUME NEW S, NEW s \in Seq(S), s # <<>>, Distinct(s)
  PROVE  /\ Tail(s) \in Seq(S) /\ Len(Tail(s)) = Len(s) - 1
         /\ \A i \in 1..Len(Tail(s)) : Tail(s)[i] = s[i + 1]
         /\ Distinct(Tail(s))
         /\ ToSet(Tail(s)) = ToSet(s) \ {Head(s)}
<1>1. /\ Tail(s) \in Seq(S) /\ Len(Tail(s)) = Len(s) - 1 /\ Len(s) \in Nat \ {0}
      /\ \A i \in 1..(Len(s) - 1) : Tail(s)[i] = s[i + 1]
      /\ Head(s) = s[1]
  BY HeadTailProperties, EmptySeq
<1>2. Distinct(Tail(s))
  BY <1>1 DEF Distinct
<1>3. /\ ToSet(s) = {s[i] : i \in 1..Len(s)}
      /\ ToSet(Tail(s)) = {Tail(s)[i] : i \in 1..(Len(s) - 1)}
  <2>1. DOMAIN s = 1..Len(s)
    OBVIOUS
  <2>2. DOMAIN Tail(s) = 1..(Len(s) - 1)
    BY <1>1
  <2>3. QED
    BY ONLY <2>1, <2>2 DEF ToSet
<1>4. ASSUME NEW x \in ToSet(Tail(s)) PROVE x \in ToSet(s) \ {Head(s)}
  <2>1. PICK i \in 1..(Len(s) - 1) : x = s[i + 1]
    BY <1>1, <1>3
  <2>2. i + 1 \in 1..Len(s) /\ 1 \in 1..Len(s) /\ i + 1 # 1
    BY <1>1
  <2>3. QED
    BY <1>1, <1>3, <2>1, <2>2 DEF Distinct
<1>5. ASSUME NEW x \in ToSet(s) \ {Head(s)} PROVE x \in ToSet(Tail(s))
  <2>1. PICK i \in 1..Len(s) : x = s[i]
    BY <1>3
  <2>2. i # 1
    BY <1>1, <2>1
  <2>3. i - 1 \in 1..(Len(s) - 1) /\ (i - 1) + 1 = i
    BY <1>1, <2>2
  <2>4. x = Tail(s)[i - 1]
    BY <1>1, <2>1, <2>3
  <2>5. QED
    BY <1>3, <2>3, <2>4
<1>6. QED
  BY <1>1, <1>2, <1>4, <1>5

\* Adding a new element behind a sequence without repetitions.
LEMMA AppendToDistinct ==
  ASSUME NEW S, NEW s \in Seq(S), NEW e \in S, e \notin ToSet(s), Distinct(s)
  PROVE  /\ Append(s, e) \in Seq(S) /\ Len(Append(s, e)) = Len(s) + 1
         /\ \A i \in 1..Len(s) : Append(s, e)[i] = s[i]
         /\ Append(s, e)[Len(s) + 1] = e
         /\ Distinct(Append(s, e))
         /\ ToSet(Append(s, e)) = ToSet(s) \union {e}
<1>1. /\ Append(s, e) \in Seq(S) /\ Len(Append(s, e)) = Len(s) + 1 /\ Len(s) \in Nat
      /\ \A i \in 1..Len(s) : Append(s, e)[i] = s[i]
      /\ Append(s, e)[Len(s) + 1] = e
  BY AppendProperties, LenProperties
<1>2. ToSet(s) = {s[i] : i \in 1..Len(s)}
      /\ ToSet(Append(s, e)) = {Append(s, e)[i] : i \in 1..(Len(s) + 1)}
  BY <1>1 DEF ToSet
<1>3. Distinct(Append(s, e))
  <2>1. \A i \in 1..Len(s) : s[i] # e
    BY <1>2
  <2>2. QED
    BY <1>1, <2>1 DEF Distinct
<1>4. ToSet(Append(s, e)) = ToSet(s) \union {e}
  <2>1. \A i \in 1..(Len(s) + 1) : i \in 1..Len(s) \/ i = Len(s) + 1
    BY <1>1
  <2>2. (1..Len(s)) \subseteq 1..(Len(s) + 1) /\ Len(s) + 1 \in 1..(Len(s) + 1)
    BY <1>1
  <2>3. QED
    BY <1>1, <1>2, <2>1, <2>2
<1>5. QED
  BY <1>1, <1>3, <1>4

\* The same for RemoveFirst, in terms of what the sequence contains.
LEMMA RemoveFromDistinct ==
  ASSUME NEW S, NEW s \in Seq(S), NEW e \in ToSet(s), Distinct(s)
  PROVE  /\ RemoveFirst(s, e) \in Seq(S)
         /\ Len(s) \in Nat \ {0} /\ Len(RemoveFirst(s, e)) = Len(s) - 1
         /\ Distinct(RemoveFirst(s, e))
         /\ ToSet(RemoveFirst(s, e)) = ToSet(s) \ {e}
         /\ \A i \in 1..(Len(s) - 1) :
              RemoveFirst(s, e)[i] = s[i] \/ RemoveFirst(s, e)[i] = s[i + 1]
<1>1. Len(s) \in Nat /\ ToSet(s) = {s[i] : i \in 1..Len(s)}
  BY LenProperties DEF ToSet
<1>2. PICK k \in 1..Len(s) : s[k] = e
  BY <1>1
<1> DEFINE r == RemoveFirst(s, e)
<1>3. /\ r \in Seq(S) /\ Len(r) = Len(s) - 1
      /\ \A i \in 1..(Len(s) - 1) : r[i] = IF i < k THEN s[i] ELSE s[i + 1]
  <2>1. \A i, j \in 1..Len(s) : s[i] = s[j] => i = j
    BY DEF Distinct
  <2>2. QED
    BY ONLY RemoveFirstOfDistinct, <1>2, <2>1, s \in Seq(S)
<1> HIDE DEF r
<1>4. ToSet(r) = {r[i] : i \in 1..(Len(s) - 1)}
  BY <1>1, <1>3 DEF ToSet
<1>5. Distinct(r)
  <2> SUFFICES ASSUME NEW i \in 1..(Len(s) - 1), NEW j \in 1..(Len(s) - 1), r[i] = r[j]
               PROVE  i = j
    BY <1>3 DEF Distinct
  <2>1. /\ i \in 1..Len(s) /\ i + 1 \in 1..Len(s)
        /\ j \in 1..Len(s) /\ j + 1 \in 1..Len(s)
    BY <1>1
  <2>2. QED
    BY <1>3, <2>1 DEF Distinct
<1>6. ASSUME NEW x \in ToSet(r) PROVE x \in ToSet(s) \ {e}
  <2>1. PICK i \in 1..(Len(s) - 1) : x = r[i]
    BY <1>4
  <2>2. i \in 1..Len(s) /\ i + 1 \in 1..Len(s)
    BY <1>1
  <2>3. QED
    BY <1>1, <1>2, <1>3, <2>1, <2>2 DEF Distinct
<1>7. ASSUME NEW x \in ToSet(s) \ {e} PROVE x \in ToSet(r)
  <2>1. PICK i \in 1..Len(s) : x = s[i]
    BY <1>1
  <2>2. i # k
    BY <1>2, <2>1
  <2>3. CASE i < k
    <3>1. i \in 1..(Len(s) - 1) /\ r[i] = s[i]
      BY <1>1, <1>3, <2>3
    <3>2. QED
      BY <1>4, <2>1, <3>1
  <2>4. CASE i > k
    <3>1. i - 1 \in 1..(Len(s) - 1) /\ ~(i - 1 < k) /\ (i - 1) + 1 = i
      BY <1>1, <2>4
    <3>2. r[i - 1] = s[i]
      BY <1>3, <3>1
    <3>3. QED
      BY <1>4, <2>1, <3>1, <3>2
  <2>5. QED
    BY <2>2, <2>3, <2>4, <1>1
<1>8. QED
  BY <1>1, <1>3, <1>5, <1>6, <1>7 DEF r

-----------------------------------------------------------------------------
(* The inductive invariant of the lease bookkeeping.  NoIdleSlot alone is not
   inductive: that a release promotes somebody needs the queue to hold only
   leases that can be promoted (WaitersExact, ReadyTellsTruth), and that it
   promotes within the slots needs the counter to be exact (SlotsExact). *)
LeaseInv ==
  /\ TypeOK
  /\ SlotsExact
  /\ NoIdleSlot
  /\ WaitersExact
  /\ ReadyTellsTruth
  /\ PositionIsBound

\* What a release of a held slot does, the skipping loop resolved: under the
\* invariant the first waiter, if there is one, takes the slot over.
HandsOver(l) ==
  \/ /\ waiters = <<>>
     /\ waiters' = <<>>
     /\ holding' = holding \ {l}
     /\ active' = active - 1
     /\ ready' = ready
  \/ /\ waiters # <<>>
     /\ waiters' = Tail(waiters)
     /\ holding' = (holding \ {l}) \union {Head(waiters)}
     /\ active' = active
     /\ ready' = [ready EXCEPT ![Head(waiters)] = "done"]

\* A held lease is released only while it is counted.
LEMMA HolderIsCounted ==
  ASSUME LeaseInv, NEW l \in holding
  PROVE  /\ active \in Nat /\ active > 0 /\ active <= Slots /\ Slots \in Nat
         /\ Decrement(active) = active - 1
<1>1. IsFiniteSet(holding) /\ active = Cardinality(holding) /\ active <= Slots
  BY DEF LeaseInv, SlotsExact
<1>2. Cardinality(holding) \in Nat /\ Cardinality(holding) # 0
  BY <1>1, FS_CardinalityType, FS_EmptySet
<1>3. QED
  BY <1>1, <1>2, CapacityAssumption DEF Decrement

\* The first waiter is a lease that waits.
LEMMA HeadWaits ==
  ASSUME LeaseInv, waiters # <<>>
  PROVE  /\ waiters \in Seq(Leases) /\ Len(waiters) \in Nat \ {0}
         /\ waiters[1] = Head(waiters)
         /\ waiters[1] \in Leases /\ waiters[1] \in Waiting
         /\ ready[waiters[1]] = "pending"
<1>1. waiters \in Seq(Leases) /\ Len(waiters) \in Nat \ {0} /\ 1 \in 1..Len(waiters)
  BY EmptySeq DEF LeaseInv, TypeOK
<1>2. waiters[1] = Head(waiters) /\ waiters[1] \in Leases /\ waiters[1] \in ToSet(waiters)
  BY <1>1 DEF ToSet
<1>3. QED
  BY <1>1, <1>2 DEF LeaseInv, WaitersExact, ReadyTellsTruth, Waiting

\* While somebody waits, the promotion skips nobody.
LEMMA FirstIsPromotable ==
  ASSUME NEW gone, Len(waiters) \in Nat \ {0}, Promotable(waiters[1], gone)
  PROVE  NextPromotable(gone) = 1
<1> DEFINE I == {i \in 1..Len(waiters) : Promotable(waiters[i], gone)}
<1>1. 1 \in I /\ \A i \in I : i \in Int /\ 1 <= i
  OBVIOUS
<1>2. Min(I) = 1
  BY <1>1 DEF Min
<1>3. QED
  BY <1>1, <1>2 DEF NextPromotable, SelectInSeq

\* With nobody waiting there is nobody to promote.
LEMMA NobodyPromotable ==
  ASSUME NEW gone, waiters = <<>>
  PROVE  NextPromotable(gone) = 0
  BY DEF NextPromotable, SelectInSeq

\* What release() of a held lease does, its promotion worked out.
LEMMA ReleaseHandsOver ==
  ASSUME LeaseInv, NEW l \in Leases, ReleaseHeld(l)
  PROVE  HandsOver(l)
<1> DEFINE gone == released \union {l}
<1>1. /\ l \in holding /\ l \in made \ released
      /\ PromoteNext(holding \ {l}, active - 1, gone)
      /\ active - 1 < Slots /\ ~(active - 1 >= Slots) /\ (active - 1) + 1 = active
  BY HolderIsCounted DEF ReleaseHeld
<1>2. CASE waiters = <<>>
  BY <1>1, <1>2, NobodyPromotable DEF PromoteNext, HandsOver
<1>3. CASE waiters # <<>>
  <2>1. /\ Len(waiters) \in Nat \ {0} /\ waiters \in Seq(Leases)
        /\ waiters[1] = Head(waiters) /\ Promotable(waiters[1], gone)
    BY <1>1, <1>3, HeadWaits DEF Promotable, Waiting
  <2>2. NextPromotable(gone) = 1
    BY <2>1, FirstIsPromotable
  <2>3. SubSeq(waiters, 1 + 1, Len(waiters)) = Tail(waiters)
    BY <2>1, <1>3
  <2>4. /\ waiters' = SubSeq(waiters, 1 + 1, Len(waiters))
        /\ holding' = (holding \ {l}) \union {waiters[1]}
        /\ active' = (active - 1) + 1
        /\ ready' = [ready EXCEPT ![waiters[1]] = "done"]
    <3> HIDE DEF gone
    <3>1. QED
      BY ONLY <1>1, <2>2 DEF PromoteNext
  <2>5. QED
    BY <1>1, <1>3, <2>1, <2>3, <2>4 DEF HandsOver
<1>4. QED
  BY <1>2, <1>3

-----------------------------------------------------------------------------
(* Every operation preserves the invariant. *)

\* The invariant holds of a manager that was just made.
LEMMA InitLeaseInv == Init => LeaseInv
<1> SUFFICES ASSUME Init PROVE LeaseInv
  OBVIOUS
<1>1. IsFiniteSet({}) /\ Cardinality({}) = 0
  BY FS_EmptySet
<1>2. ToSet(<<>>) = {} /\ Len(<<>>) = 0
  BY DEF ToSet
<1>3. TypeOK
  BY DEF Init, TypeOK
<1>4. SlotsExact
  BY <1>1, CapacityAssumption DEF Init, SlotsExact
<1>5. WaitersExact /\ NoIdleSlot /\ ReadyTellsTruth /\ PositionIsBound
  BY <1>2, CapacityAssumption
     DEF Init, WaitersExact, Waiting, NoIdleSlot, ReadyTellsTruth, PositionIsBound
<1>6. QED
  BY <1>3, <1>4, <1>5 DEF LeaseInv

\* reserve() with a slot free keeps the invariant.
LEMMA ReserveNowStep ==
  ASSUME LeaseInv, NEW l \in Leases, ReserveNow(l)
  PROVE  LeaseInv'
<1>1. l \notin holding /\ l \notin released /\ l \notin Waiting
  BY DEF LeaseInv, TypeOK, ReserveNow, Waiting
<1>2. TypeOK'
  BY DEF LeaseInv, TypeOK, ReserveNow, connectionVars
<1>3. IsFiniteSet(holding') /\ Cardinality(holding') = Cardinality(holding) + 1
  BY <1>1, FS_AddElement DEF LeaseInv, SlotsExact, ReserveNow
<1>4. SlotsExact'
  BY <1>1, <1>3, CapacityAssumption DEF LeaseInv, TypeOK, SlotsExact, ReserveNow
<1>5. waiters = <<>>
  BY CapacityAssumption DEF LeaseInv, NoIdleSlot, ReserveNow, TypeOK
<1>6. Waiting' = Waiting
  BY <1>1 DEF Waiting, ReserveNow, LeaseInv, TypeOK
<1>7. (NoIdleSlot /\ WaitersExact /\ PositionIsBound)'
  BY <1>5, <1>6 DEF LeaseInv, NoIdleSlot, WaitersExact, PositionIsBound, ReserveNow
<1>8. ReadyTellsTruth'
  BY DEF LeaseInv, TypeOK, ReadyTellsTruth, ReserveNow
<1>9. QED
  BY <1>2, <1>4, <1>7, <1>8 DEF LeaseInv

\* reserve() into the queue keeps the invariant.
LEMMA ReserveQueuedStep ==
  ASSUME LeaseInv, NEW l \in Leases, ReserveQueued(l)
  PROVE  LeaseInv'
<1>1. /\ l \notin holding /\ l \notin released /\ l \notin Waiting
      /\ l \notin ToSet(waiters) /\ ready[l] \in {"pending", "done", "cancelled"}
  BY DEF LeaseInv, TypeOK, WaitersExact, ReserveQueued, Waiting
<1>2. waiters \in Seq(Leases) /\ Distinct(waiters) /\ Len(waiters) \in Nat
  BY LenProperties DEF LeaseInv, TypeOK, WaitersExact, Distinct
<1>3. /\ waiters' \in Seq(Leases) /\ Len(waiters') = Len(waiters) + 1
      /\ \A i \in 1..Len(waiters) : waiters'[i] = waiters[i]
      /\ waiters'[Len(waiters) + 1] = l
      /\ Distinct(waiters')
      /\ ToSet(waiters') = ToSet(waiters) \union {l}
  BY <1>1, <1>2, AppendToDistinct DEF ReserveQueued
<1>4. TypeOK'
  BY <1>2, <1>3 DEF LeaseInv, TypeOK, ReserveQueued, connectionVars
<1>5. SlotsExact'
  BY DEF LeaseInv, SlotsExact, ReserveQueued
<1>6. active = Slots
  BY CapacityAssumption DEF LeaseInv, SlotsExact, TypeOK, ReserveQueued
<1>7. NoIdleSlot'
  BY <1>6 DEF NoIdleSlot, ReserveQueued
<1>8. Waiting' = Waiting \union {l}
  BY <1>1 DEF Waiting, ReserveQueued, LeaseInv, TypeOK
<1>9. WaitersExact'
  BY <1>2, <1>3, <1>8, CapacityAssumption
     DEF LeaseInv, WaitersExact, Distinct, ReserveQueued
<1>10. ReadyTellsTruth'
  BY DEF LeaseInv, ReadyTellsTruth, ReserveQueued
<1>11. PositionIsBound'
  <2>1. /\ position'[l] = Len(waiters) + 1
        /\ \A i \in 1..Len(waiters) : position'[waiters[i]] = position[waiters[i]]
    <3>1. \A i \in 1..Len(waiters) : waiters[i] # l /\ waiters[i] \in Leases
      BY <1>1, <1>2, ElementOfSeq DEF ToSet
    <3>2. QED
      BY <3>1 DEF LeaseInv, TypeOK, ReserveQueued
  <2>2. \A i \in 1..(Len(waiters) + 1) : i \in 1..Len(waiters) \/ i = Len(waiters) + 1
    BY <1>2
  <2>3. QED
    BY <1>2, <1>3, <2>1, <2>2 DEF LeaseInv, PositionIsBound
<1>12. QED
  BY <1>4, <1>5, <1>7, <1>9, <1>10, <1>11 DEF LeaseInv

\* release() of a slot holder keeps the invariant.
LEMMA ReleaseHeldStep ==
  ASSUME LeaseInv, NEW l \in Leases, ReleaseHeld(l)
  PROVE  LeaseInv'
<1>1. /\ l \in holding /\ l \in made \ released /\ released' = released \union {l}
      /\ UNCHANGED <<made, position, connectionVars>>
  BY DEF ReleaseHeld
<1>2. HandsOver(l)
  BY ReleaseHandsOver
<1>3. /\ active \in Nat /\ active > 0 /\ active <= Slots /\ Slots \in Nat
      /\ active = Cardinality(holding) /\ IsFiniteSet(holding)
  BY <1>1, HolderIsCounted DEF LeaseInv, SlotsExact
<1>4. IsFiniteSet(holding \ {l}) /\ Cardinality(holding \ {l}) = active - 1
  BY <1>1, <1>3, FS_RemoveElement
<1>5. CASE waiters = <<>>
  <2>1. /\ waiters' = <<>> /\ holding' = holding \ {l} /\ active' = active - 1
        /\ ready' = ready
    BY <1>2, <1>5 DEF HandsOver
  <2>2. TypeOK'
    BY <1>1, <1>3, <2>1 DEF LeaseInv, TypeOK, connectionVars
  <2>3. SlotsExact'
    BY <1>1, <1>3, <1>4, <2>1 DEF LeaseInv, SlotsExact
  <2>4. Waiting' = Waiting
    BY <1>1, <2>1 DEF Waiting
  <2>5. (NoIdleSlot /\ WaitersExact /\ PositionIsBound)'
    BY <1>1, <1>5, <2>1, <2>4 DEF LeaseInv, NoIdleSlot, WaitersExact, PositionIsBound
  <2>6. ReadyTellsTruth'
    BY <1>1, <2>1 DEF LeaseInv, ReadyTellsTruth
  <2>7. QED
    BY <2>2, <2>3, <2>5, <2>6 DEF LeaseInv
<1>6. CASE waiters # <<>>
  <2> DEFINE w == Head(waiters)
  <2>1. /\ waiters' = Tail(waiters) /\ holding' = (holding \ {l}) \union {w}
        /\ active' = active /\ ready' = [ready EXCEPT ![w] = "done"]
    BY <1>2, <1>6 DEF HandsOver
  <2>2. /\ waiters \in Seq(Leases) /\ Len(waiters) \in Nat \ {0} /\ w \in Leases
        /\ w \in Waiting /\ w \in made /\ w \notin holding /\ w \notin released /\ w # l
    BY <1>1, <1>6, HeadWaits DEF Waiting
  <2>3. Distinct(waiters)
    BY DEF LeaseInv, WaitersExact, Distinct
  <2>4. /\ waiters' \in Seq(Leases) /\ Len(waiters') = Len(waiters) - 1
        /\ \A i \in 1..(Len(waiters) - 1) : waiters'[i] = waiters[i + 1]
        /\ Distinct(waiters')
        /\ ToSet(waiters') = ToSet(waiters) \ {w}
    BY <1>6, <2>1, <2>2, <2>3, TailOfDistinct
  <2> HIDE DEF w
  <2>5. TypeOK'
    BY <1>1, <2>1, <2>2, <2>4 DEF LeaseInv, TypeOK, connectionVars
  <2>6. IsFiniteSet(holding') /\ Cardinality(holding') = active
    <3>1. w \notin holding \ {l}
      BY <2>2
    <3>2. /\ IsFiniteSet((holding \ {l}) \union {w})
          /\ Cardinality((holding \ {l}) \union {w}) = Cardinality(holding \ {l}) + 1
      BY <1>4, <3>1, FS_AddElement
    <3>3. QED
      BY <1>3, <1>4, <2>1, <3>2
  <2>7. SlotsExact'
    BY <1>1, <1>3, <2>1, <2>2, <2>6 DEF LeaseInv, SlotsExact
  <2>8. active = Slots
    BY <1>6 DEF LeaseInv, NoIdleSlot
  <2>9. NoIdleSlot'
    BY <2>1, <2>8 DEF NoIdleSlot
  <2>10. Waiting' = Waiting \ {w}
    BY <1>1, <2>1, <2>2 DEF Waiting
  <2>11. WaitersExact'
    BY <2>2, <2>4, <2>10, CapacityAssumption DEF LeaseInv, WaitersExact, Distinct
  <2>12. ReadyTellsTruth'
    BY <1>1, <2>1, <2>2 DEF LeaseInv, TypeOK, ReadyTellsTruth
  <2>13. PositionIsBound'
    <3> SUFFICES ASSUME NEW i \in 1..(Len(waiters) - 1)
                 PROVE  i <= position[waiters[i + 1]]
      BY <1>1, <2>4 DEF PositionIsBound
    <3>1. i + 1 \in 1..Len(waiters) /\ waiters[i + 1] \in Leases
      BY <2>2, ElementOfSeq
    <3>2. i + 1 <= position[waiters[i + 1]] /\ position[waiters[i + 1]] \in Nat
      BY <3>1 DEF LeaseInv, PositionIsBound, TypeOK
    <3>3. QED
      BY <3>2
  <2>14. QED
    BY <2>5, <2>7, <2>9, <2>11, <2>12, <2>13 DEF LeaseInv
<1>7. QED
  BY <1>5, <1>6

\* release() of a waiter keeps the invariant.
LEMMA ReleaseWaitingStep ==
  ASSUME LeaseInv, NEW l \in Leases, ReleaseWaiting(l)
  PROVE  LeaseInv'
<1>1. /\ l \in made \ released /\ l \notin holding /\ released' = released \union {l}
      /\ waiters' = RemoveFirst(waiters, l)
      /\ UNCHANGED <<made, holding, active, position, connectionVars>>
      /\ ready' = [ready EXCEPT ![l] = IF @ = "pending" THEN "cancelled" ELSE @]
  BY DEF ReleaseWaiting
<1>2. l \in ToSet(waiters) /\ waiters \in Seq(Leases) /\ Distinct(waiters)
  BY <1>1 DEF LeaseInv, TypeOK, WaitersExact, Waiting, Distinct
<1>3. /\ waiters' \in Seq(Leases)
      /\ Len(waiters) \in Nat \ {0} /\ Len(waiters') = Len(waiters) - 1
      /\ Distinct(waiters')
      /\ ToSet(waiters') = ToSet(waiters) \ {l}
      /\ \A i \in 1..(Len(waiters) - 1) :
           waiters'[i] = waiters[i] \/ waiters'[i] = waiters[i + 1]
  BY <1>1, <1>2, RemoveFromDistinct
<1>4. TypeOK'
  BY <1>1, <1>3 DEF LeaseInv, TypeOK, connectionVars
<1>5. SlotsExact'
  BY <1>1 DEF LeaseInv, SlotsExact
<1>6. waiters # <<>>
  BY <1>3
<1>7. NoIdleSlot'
  BY <1>1, <1>6 DEF LeaseInv, NoIdleSlot
<1>8. Waiting' = Waiting \ {l}
  BY <1>1 DEF Waiting
<1>9. WaitersExact'
  BY <1>3, <1>8, CapacityAssumption DEF LeaseInv, WaitersExact, Distinct
<1>10. ReadyTellsTruth'
  BY <1>1 DEF LeaseInv, TypeOK, ReadyTellsTruth
<1>11. PositionIsBound'
  <2> SUFFICES ASSUME NEW i \in 1..(Len(waiters) - 1)
               PROVE  i <= position[waiters'[i]]
    BY <1>1, <1>3 DEF PositionIsBound
  <2>1. /\ i \in 1..Len(waiters) /\ i + 1 \in 1..Len(waiters)
        /\ waiters[i] \in Leases /\ waiters[i + 1] \in Leases
    BY <1>2, <1>3, ElementOfSeq
  <2>2. /\ i <= position[waiters[i]] /\ position[waiters[i]] \in Nat
        /\ i + 1 <= position[waiters[i + 1]] /\ position[waiters[i + 1]] \in Nat
    BY <2>1 DEF LeaseInv, PositionIsBound, TypeOK
  <2>3. QED
    BY <1>3, <2>2
<1>12. QED
  BY <1>4, <1>5, <1>7, <1>9, <1>10, <1>11 DEF LeaseInv

\* Opening and closing connections does not touch the leases.
LEMMA ConnectionStep ==
  ASSUME LeaseInv, NEW h \in Handlers,
         OpenConnection(h) \/ RefuseConnection(h) \/ CloseConnection(h)
  PROVE  LeaseInv'
<1>1. UNCHANGED leaseVars /\ connections' \in Nat /\ admitted' \subseteq Handlers
  BY DEF OpenConnection, RefuseConnection, CloseConnection, Decrement, vars, leaseVars,
         LeaseInv, TypeOK
<1>2. QED
  BY <1>1 DEF leaseVars, LeaseInv, TypeOK, SlotsExact, NoIdleSlot, WaitersExact, Waiting,
              ReadyTellsTruth, PositionIsBound

\* Neither does a step that changes nothing.
LEMMA StutterStep == LeaseInv /\ UNCHANGED vars => LeaseInv'
  BY DEF vars, LeaseInv, TypeOK, SlotsExact, NoIdleSlot, WaitersExact, Waiting,
         ReadyTellsTruth, PositionIsBound

\* The invariant is inductive.
LEMMA NextLeaseInv == LeaseInv /\ [Next]_vars => LeaseInv'
<1> SUFFICES ASSUME LeaseInv, [Next]_vars PROVE LeaseInv'
  OBVIOUS
<1>1. ASSUME NEW h \in Handlers,
             OpenConnection(h) \/ RefuseConnection(h) \/ CloseConnection(h)
      PROVE  LeaseInv'
  BY <1>1, ConnectionStep
<1>2. ASSUME NEW l \in Leases, ReserveNow(l) PROVE LeaseInv'
  BY <1>2, ReserveNowStep
<1>3. ASSUME NEW l \in Leases, ReserveQueued(l) PROVE LeaseInv'
  BY <1>3, ReserveQueuedStep
<1>4. CASE ReserveRefused
  BY <1>4, StutterStep DEF ReserveRefused
<1>5. ASSUME NEW l \in Leases, ReleaseHeld(l) PROVE LeaseInv'
  BY <1>5, ReleaseHeldStep
<1>6. ASSUME NEW l \in Leases, ReleaseWaiting(l) PROVE LeaseInv'
  BY <1>6, ReleaseWaitingStep
<1>7. ASSUME NEW l \in Leases, ReleaseAgain(l) PROVE LeaseInv'
  BY <1>7, StutterStep DEF ReleaseAgain
<1>8. CASE UNCHANGED vars
  BY <1>8, StutterStep
<1>9. QED
  BY <1>1, <1>2, <1>3, <1>4, <1>5, <1>6, <1>7, <1>8 DEF Next, Release

-----------------------------------------------------------------------------
(* The lease bookkeeping of CapacityManager is exact in every reachable state:
   types, counter against flags, no idle slot behind a queue, no lost or
   doubled waiter, futures that tell the truth, positions that only fall. *)
THEOREM LeasesCorrect == Spec => []LeaseInv
<1>1. Init => LeaseInv
  BY InitLeaseInv
<1>2. LeaseInv /\ [Next]_vars => LeaseInv'
  BY NextLeaseInv
<1>3. QED
  BY <1>1, <1>2, PTL DEF Spec

(* Every variable of the manager keeps its type. *)
THEOREM CapacityTypes == Spec => []TypeOK
<1>1. LeaseInv => TypeOK
  BY DEF LeaseInv
<1>2. QED
  BY <1>1, LeasesCorrect, PTL

(* The slot counter equals the number of leases flagged active and never
   exceeds realtime_slots, for any number of slots, waiters and callers. *)
THEOREM SlotAccounting == Spec => []SlotsExact
<1>1. LeaseInv => SlotsExact
  BY DEF LeaseInv
<1>2. QED
  BY <1>1, LeasesCorrect, PTL

(* A slot is never free while an utterance waits for one. *)
THEOREM WorkConserving == Spec => []NoIdleSlot
<1>1. LeaseInv => NoIdleSlot
  BY DEF LeaseInv
<1>2. QED
  BY <1>1, LeasesCorrect, PTL

(* The queue holds exactly the leases that wait, each once, within its limit. *)
THEOREM NoWaiterLost == Spec => []WaitersExact
<1>1. LeaseInv => WaitersExact
  BY DEF LeaseInv
<1>2. QED
  BY <1>1, LeasesCorrect, PTL

(* The `ready` future of a lease is done exactly when its owner may proceed. *)
THEOREM FuturesTellTruth == Spec => []ReadyTellsTruth
<1>1. LeaseInv => ReadyTellsTruth
  BY DEF LeaseInv
<1>2. QED
  BY <1>1, LeasesCorrect, PTL

(* The queue position a client was told is never exceeded later. *)
THEOREM PositionsOnlyFall == Spec => []PositionIsBound
<1>1. LeaseInv => PositionIsBound
  BY DEF LeaseInv
<1>2. QED
  BY <1>1, LeasesCorrect, PTL

-----------------------------------------------------------------------------
(* The connection counter. *)

\* Opening and closing keep the counter equal to the handlers admitted.
LEMMA ConnectionCount ==
  ASSUME TypeOK, ConnectionsExact, NEW h \in Handlers,
         OpenConnection(h) \/ CloseConnection(h)
  PROVE  ConnectionsExact'
<1>1. /\ connections \in Nat /\ connections = Cardinality(admitted)
      /\ IsFiniteSet(admitted) /\ connections <= MaxConnections /\ MaxConnections \in Nat
  BY CapacityAssumption DEF TypeOK, ConnectionsExact
<1>2. CASE OpenConnection(h)
  <2>1. /\ h \notin admitted /\ admitted' = admitted \union {h}
        /\ connections' = connections + 1 /\ connections < MaxConnections
    BY <1>2 DEF OpenConnection
  <2>2. IsFiniteSet(admitted') /\ Cardinality(admitted') = Cardinality(admitted) + 1
    BY <1>1, <2>1, FS_AddElement
  <2>3. QED
    BY <1>1, <2>1, <2>2 DEF ConnectionsExact
<1>3. CASE CloseConnection(h)
  <2>1. /\ h \in admitted /\ admitted' = admitted \ {h}
        /\ connections' = Decrement(connections)
    BY <1>3 DEF CloseConnection
  <2>2. IsFiniteSet(admitted') /\ Cardinality(admitted') = Cardinality(admitted) - 1
    BY <1>1, <2>1, FS_RemoveElement
  <2>3. connections # 0
    BY <1>1, <2>1, FS_EmptySet
  <2>4. connections' = connections - 1
    BY <1>1, <2>1, <2>3 DEF Decrement
  <2>5. QED
    BY <1>1, <2>2, <2>4 DEF ConnectionsExact
<1>4. QED
  BY <1>2, <1>3

(* The connection counter is the number of handlers between open_connection()
   and close_connection(), so max(0, ...) in close_connection() is never what
   keeps it from going negative. *)
THEOREM ConnectionAccounting == Spec => []ConnectionsExact
<1>1. Init => ConnectionsExact
  BY FS_EmptySet, CapacityAssumption DEF Init, ConnectionsExact
<1>2. ASSUME TypeOK, ConnectionsExact, [Next]_vars PROVE ConnectionsExact'
  <2>1. ASSUME NEW h \in Handlers, OpenConnection(h) \/ CloseConnection(h)
        PROVE  ConnectionsExact'
    BY <1>2, <2>1, ConnectionCount
  <2>2. CASE UNCHANGED connectionVars
    BY <1>2, <2>2 DEF connectionVars, ConnectionsExact
  <2>3. ASSUME NEW l \in Leases,
               ReserveNow(l) \/ ReserveQueued(l) \/ Release(l)
        PROVE  UNCHANGED connectionVars
    BY <2>3 DEF ReserveNow, ReserveQueued, Release, ReleaseHeld,
                ReleaseWaiting, ReleaseAgain, vars, connectionVars
  <2>4. ASSUME NEW h \in Handlers, RefuseConnection(h)
        PROVE  UNCHANGED connectionVars
    BY <2>4 DEF RefuseConnection, vars, connectionVars
  <2>5. CASE ReserveRefused \/ UNCHANGED vars
    BY <2>2, <2>5 DEF ReserveRefused, vars, connectionVars
  <2>6. QED
    BY <1>2, <2>1, <2>2, <2>3, <2>4, <2>5 DEF Next
<1>3. QED
  BY <1>1, <1>2, CapacityTypes, PTL DEF Spec

(* The counter of slots, the deque and the counter of connections agree with
   the leases and handlers they are kept for, whatever is called when. *)
THEOREM Bookkeeping == Spec => []BookkeepingExact
  BY SlotAccounting, NoWaiterLost, ConnectionAccounting, PTL DEF BookkeepingExact

-----------------------------------------------------------------------------
(* The manager implements the abstract admission rule. *)

\* AsrAdmission and AsrCapacity use the same library operators.
LEMMA SameLibrary ==
  /\ \A S : Admission!Cardinality(S) = Cardinality(S)
  /\ \A s, e : Admission!Contains(s, e) = Contains(s, e)
  /\ \A s, e : Admission!RemoveFirst(s, e) = RemoveFirst(s, e)
<1>1. \A S : Admission!Cardinality(S) = Cardinality(S)
  BY Zenon DEF Cardinality, Admission!Cardinality
<1>2. \A s, e : Admission!Contains(s, e) = Contains(s, e)
  BY Zenon DEF Contains, Admission!Contains
<1>3. \A s, e : Admission!RemoveFirst(s, e) = RemoveFirst(s, e)
  BY Zenon DEF RemoveFirst, RemoveAt, SelectInSeq, Min, Admission!RemoveFirst,
     Admission!RemoveAt, Admission!SelectInSeq, Admission!Min
<1>4. QED
  BY <1>1, <1>2, <1>3

\* A lease not made yet is unknown to the admission policy.
LEMMA NewcomerUnknown ==
  ASSUME LeaseInv, NEW l \in Leases, l \notin made
  PROVE  ~Admission!Known(l)
<1>1. l \notin holding /\ l \notin released /\ l \notin ToSet(waiters)
  BY DEF LeaseInv, TypeOK, WaitersExact, Waiting
<1>2. ~Contains(waiters, l)
  <2>1. waiters \in Seq(Leases)
    BY DEF LeaseInv, TypeOK
  <2>2. QED
    BY <1>1, <2>1, LenProperties DEF Contains, ToSet
<1>3. QED
  BY <1>1, <1>2, SameLibrary DEF Admission!Known

(* Every operation of the manager is one step of AsrAdmission, or none. *)
LEMMA StepKeepsPromise ==
  ASSUME LeaseInv, [Next]_vars
  PROVE  [Admission!AdmissionNext]_(Admission!admissionVars)
<1> USE DEF Admission!AdmissionNext, Admission!admissionVars
<1>1. ASSUME NEW l \in Leases, ReserveNow(l) PROVE Admission!Enter(l)
  <2>1. l \notin made /\ active < Slots /\ active = Cardinality(holding) /\ active \in Nat
    BY <1>1 DEF ReserveNow, LeaseInv, SlotsExact, TypeOK
  <2>2. waiters = <<>>
    BY <2>1, CapacityAssumption DEF LeaseInv, NoIdleSlot
  <2>3. QED
    BY <1>1, <2>1, <2>2, NewcomerUnknown, SameLibrary DEF Admission!Enter, ReserveNow
<1>2. ASSUME NEW l \in Leases, ReserveQueued(l) PROVE Admission!Join(l)
  <2>1. l \notin made /\ active = Slots /\ active = Cardinality(holding)
    BY <1>2, CapacityAssumption DEF ReserveQueued, LeaseInv, SlotsExact, TypeOK
  <2>2. QED
    BY <1>2, <2>1, NewcomerUnknown, SameLibrary DEF Admission!Join, ReserveQueued
<1>3. ASSUME NEW l \in Leases, ReleaseHeld(l) PROVE Admission!Leave(l)
  <2>1. HandsOver(l) /\ l \in holding /\ released' = released \union {l}
    BY <1>3, ReleaseHandsOver DEF ReleaseHeld
  <2>2. QED
    BY <2>1 DEF HandsOver, Admission!Leave
<1>4. ASSUME NEW l \in Leases, ReleaseWaiting(l) PROVE Admission!GiveUp(l)
  <2>1. l \in ToSet(waiters) /\ waiters \in Seq(Leases)
    BY <1>4 DEF ReleaseWaiting, LeaseInv, TypeOK, WaitersExact, Waiting
  <2>2. Contains(waiters, l)
    BY <2>1, LenProperties DEF Contains, ToSet
  <2>3. QED
    BY <1>4, <2>2, SameLibrary DEF ReleaseWaiting, Admission!GiveUp
<1>5. ASSUME NEW l \in Leases, ReleaseAgain(l)
      PROVE  UNCHANGED <<holding, waiters, released>>
  BY <1>5 DEF ReleaseAgain, vars
<1>6. ASSUME NEW h \in Handlers,
             OpenConnection(h) \/ RefuseConnection(h) \/ CloseConnection(h)
      PROVE  UNCHANGED <<holding, waiters, released>>
  BY <1>6 DEF OpenConnection, RefuseConnection, CloseConnection, leaseVars, vars
<1>7. CASE ReserveRefused \/ UNCHANGED vars
  BY <1>7 DEF ReserveRefused, vars
<1>8. QED
  BY <1>1, <1>2, <1>3, <1>4, <1>5, <1>6, <1>7 DEF Next, Release

(* CapacityManager implements first-come-first-served admission: whatever the
   interleaving of reserve() and release(), a newcomer never takes a slot past
   the queue, and a freed slot goes to the first waiter in the same step. *)
THEOREM ImplementsAdmission == Spec => KeepsAdmissionPromise
<1>1. Init => Admission!AdmissionInit
  BY DEF Init, Admission!AdmissionInit
<1>2. LeaseInv /\ [Next]_vars => [Admission!AdmissionNext]_(Admission!admissionVars)
  BY StepKeepsPromise
<1>3. QED
  BY <1>1, <1>2, LeasesCorrect, PTL
     DEF Spec, KeepsAdmissionPromise, Admission!AdmissionSpec

=============================================================================
