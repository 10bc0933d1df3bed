--------------------------- MODULE EvaluationProofs ---------------------------
(***************************************************************************)
(* Theorems about what is measured and judged: the frozen households of    *)
(* RealEval, the reports of SmartHomeEval, the measurement of two services *)
(* by SideBySide, what the clients of AsrClients report, and the schedules *)
(* of NpuBench.  OfflineProofs has what they rest on of numbers, sequences *)
(* and the gates of a pipeline.                                            *)
(***************************************************************************)
EXTENDS OfflineProofs, SmartHomeEval, SideBySide, AsrClients

-----------------------------------------------------------------------------
(* RealEval: the division of the households *)

\* Numbers that are bounded have a greatest.
LEMMA GreatestNumber ==
  ASSUME NEW n \in Nat, NEW T, T \subseteq 0..n, T # {}
  PROVE  \E x \in T : \A y \in T : y <= x
<1> DEFINE U == {n - x : x \in T}
<1>1. U \subseteq Nat /\ U # {}
  <2>1. \A x \in T : x \in 0..n
    OBVIOUS
  <2>2. \A x \in 0..n : n - x \in Nat
    OBVIOUS
  <2>3. \E x : x \in T
    OBVIOUS
  <2> QED
    BY <2>1, <2>2, <2>3
<1>2. PICK u \in U : \A v \in U : u <= v
  BY <1>1, LeastNumber
<1>3. PICK x \in T : u = n - x
  BY <1>2
<1>4. ASSUME NEW y \in T PROVE y <= x
  <2>1. n - x <= n - y
    BY <1>2, <1>3
  <2>2. x \in Nat /\ y \in Nat
    OBVIOUS
  <2> QED
    BY <2>1, <2>2
<1> QED
  BY <1>4

\* A finite set of at least one element has an element of least hash and one
\* of greatest.
LEMMA HashBounds ==
  ASSUME NEW homes, IsFiniteSet(homes), homes # {}, \A h \in homes : HashOf[h] \in Nat,
         \A g, h \in homes : HashOf[g] = HashOf[h] => g = h
  PROVE  /\ \E h \in homes : {g \in homes : HashOf[g] < HashOf[h]} = {}
         /\ \E h \in homes : {g \in homes : HashOf[g] < HashOf[h]} = homes \ {h}
<1> DEFINE H == {HashOf[h] : h \in homes}
           Lower(h) == {g \in homes : HashOf[g] < HashOf[h]}
           C == {Cardinality(Lower(h)) : h \in homes}
<1>1. \E h \in homes : Lower(h) = {}
  <2>1. H \subseteq Nat /\ H # {}
    OBVIOUS
  <2>2. PICK x \in H : \A y \in H : x <= y
    BY <2>1, LeastNumber
  <2>3. PICK h \in homes : x = HashOf[h]
    BY <2>2
  <2>4. \A g \in homes : ~(HashOf[g] < HashOf[h])
    BY <2>1, <2>2, <2>3
  <2> QED
    BY <2>4
<1>2. \A h \in homes : /\ IsFiniteSet(Lower(h)) /\ Cardinality(Lower(h)) \in Nat
                       /\ Cardinality(Lower(h)) < Cardinality(homes)
  <2>1. TAKE h \in homes
  <2>2. Lower(h) \subseteq homes /\ h \notin Lower(h)
    OBVIOUS
  <2> HIDE DEF Lower
  <2>3. IsFiniteSet(Lower(h)) /\ Cardinality(Lower(h)) <= Cardinality(homes)
        /\ (Cardinality(Lower(h)) = Cardinality(homes) => Lower(h) = homes)
    BY <2>2, FS_Subset
  <2>4. Cardinality(Lower(h)) \in Nat /\ Cardinality(homes) \in Nat
    BY <2>3, FS_CardinalityType
  <2> QED
    BY <2>2, <2>3, <2>4
<1>3. Cardinality(homes) \in Nat
  BY FS_CardinalityType
<1>4. C \subseteq 0..Cardinality(homes) /\ C # {}
  <2> HIDE DEF Lower
  <2>1. \A n, m \in Nat : n < m => n \in 0..m
    OBVIOUS
  <2> QED
    BY <1>2, <1>3, <2>1
<1>5. PICK c \in C : \A d \in C : d <= c
  BY <1>3, <1>4, GreatestNumber
<1>6. PICK h \in homes : c = Cardinality(Lower(h))
  BY <1>5
<1>7. \A g \in homes : Cardinality(Lower(g)) <= Cardinality(Lower(h))
  <2> HIDE DEF Lower
  <2> QED
    BY <1>5, <1>6
<1>8. ASSUME NEW g \in homes, g # h, ~(HashOf[g] < HashOf[h]) PROVE FALSE
  <2>1. HashOf[h] < HashOf[g]
    <3>1. HashOf[g] \in Nat /\ HashOf[h] \in Nat /\ HashOf[g] # HashOf[h]
      BY <1>8
    <3> QED
      BY <1>8, <3>1
  <2>2. Lower(h) \subseteq Lower(g)
    <3>1. SUFFICES ASSUME NEW f \in homes, HashOf[f] < HashOf[h] PROVE HashOf[f] < HashOf[g]
      OBVIOUS
    <3>2. HashOf[f] \in Nat /\ HashOf[h] \in Nat /\ HashOf[g] \in Nat
      OBVIOUS
    <3> QED
      BY <2>1, <3>1, <3>2
  <2>3. h \in Lower(g) /\ h \notin Lower(h)
    BY <2>1
  <2> HIDE DEF Lower
  <2>4. Cardinality(Lower(h)) <= Cardinality(Lower(g))
        /\ (Cardinality(Lower(h)) = Cardinality(Lower(g)) => Lower(h) = Lower(g))
    BY <1>2, <2>2, FS_Subset
  <2> QED
    BY <1>2, <1>7, <2>3, <2>4
<1>9. Lower(h) = homes \ {h}
  BY <1>8
<1> QED
  BY <1>1, <1>9

\* Two households or more are divided: both sides have one.
LEMMA BothSides ==
  ASSUME NEW homes, IsFiniteSet(homes), Cardinality(homes) >= 2, \A h \in homes : HashOf[h] \in Nat,
         \A g, h \in homes : HashOf[g] = HashOf[h] => g = h
  PROVE  (\E h \in homes : h \in TestHomes(homes)) /\ (\E h \in homes : h \notin TestHomes(homes))
<1>1. PICK c \in Nat : c = Cardinality(homes) /\ c >= 2 /\ homes # {}
  <2>1. Cardinality(homes) \in Nat /\ homes # {}
    BY FS_CardinalityType, FS_EmptySet
  <2> QED
    BY <2>1
<1>2. PICK s \in Int : s = Share(homes)
  BY <1>1, RealAssumption DEF Share
<1>3. PICK n \in 1..(c - 1) : TestHomes(homes) = FirstHomes(homes, n)
  <2>1. TestHomes(homes) = FirstHomes(homes, IF (IF s < 1 THEN 1 ELSE s) < c - 1 THEN (IF s < 1 THEN 1 ELSE s) ELSE c - 1)
    BY <1>1, <1>2 DEF TestHomes
  <2>2. PICK n \in Int : n = IF (IF s < 1 THEN 1 ELSE s) < c - 1 THEN (IF s < 1 THEN 1 ELSE s) ELSE c - 1
    BY <1>1, <1>2
  <2>3. n \in 1..(c - 1)
    BY <1>1, <1>2, <2>2
  <2> QED
    BY <2>1, <2>2, <2>3
<1>4. \E h \in homes : h \in FirstHomes(homes, n)
  <2>1. PICK h \in homes : {g \in homes : HashOf[g] < HashOf[h]} = {}
    BY <1>1, HashBounds
  <2>2. Cardinality({g \in homes : HashOf[g] < HashOf[h]}) = 0
    BY <2>1, FS_EmptySet
  <2> QED
    BY <1>3, <2>2 DEF FirstHomes
<1>5. \E h \in homes : h \notin FirstHomes(homes, n)
  <2>1. PICK h \in homes : {g \in homes : HashOf[g] < HashOf[h]} = homes \ {h}
    BY <1>1, HashBounds
  <2>2. Cardinality(homes \ {h}) = c - 1
    BY <1>1, FS_RemoveElement
  <2>3. Cardinality({g \in homes : HashOf[g] < HashOf[h]}) = c - 1
    BY <2>1, <2>2
  <2>4. ~(c - 1 < n)
    BY <1>1, <1>3
  <2> QED
    BY <2>3, <2>4 DEF FirstHomes
<1> QED
  BY <1>3, <1>4, <1>5

-----------------------------------------------------------------------------
(* RealEval: the invariant *)

InTest(r) == r.home \in freezing.tests

\* Only a directory that was begun has files to come; the manifest is the last.
FreezePlace ==
  /\ DOMAIN freeze = {"made", "dev", "test", "manifest", "pilot", "digest"}
  /\ DOMAIN freezing = {"left", "records", "tests", "pilot"}
  /\ freezing.left \in {<<>>, <<"manifest">>, IF freezing.pilot THEN <<"dev", "manifest">> ELSE <<"test", "manifest">>,
                        IF freezing.pilot THEN <<"dev", "manifest">> ELSE <<"dev", "test", "manifest">>}
  /\ freeze.manifest => freeze.made /\ freezing.left = <<>>
  /\ freezing.left # <<>> => freeze.made

\* What is to be written has both sides, and what is written has its own.
SidesWritten ==
  freezing.left # <<>> /\ ~freezing.pilot =>
    /\ \E r \in freezing.records : InTest(r)
    /\ \E r \in freezing.records : ~InTest(r)
    /\ freezing.left # <<"dev", "test", "manifest">> => freeze.dev = {r \in freezing.records : ~InTest(r)}
    /\ freezing.left = <<"manifest">> => freeze.test = {r \in freezing.records : InTest(r)}

\* Who passed was judged on the test of the manifest, which is not written again.
PassedOnFrozen == judgement.passed => freeze.manifest

RowsScored == \A id \in DOMAIN scored.rows : scored.rows[id] \in ScoredAs

RealInv == FreezePlace /\ SidesWritten /\ HouseholdsApart /\ PassedOnFrozen /\ PassIsProven /\ RowsScored

\* The files in the order they are written.
LEMMA FilesLeft ==
  /\ <<"dev", "test", "manifest">> # <<>> /\ <<"test", "manifest">> # <<>> /\ <<"dev", "manifest">> # <<>> /\ <<"manifest">> # <<>>
  /\ Head(<<"dev", "test", "manifest">>) = "dev" /\ Tail(<<"dev", "test", "manifest">>) = <<"test", "manifest">>
  /\ Head(<<"test", "manifest">>) = "test" /\ Tail(<<"test", "manifest">>) = <<"manifest">>
  /\ Head(<<"dev", "manifest">>) = "dev" /\ Tail(<<"dev", "manifest">>) = <<"manifest">>
  /\ Head(<<"manifest">>) = "manifest" /\ Tail(<<"manifest">>) = <<>>
  /\ <<"manifest">> # <<"test", "manifest">> /\ <<"manifest">> # <<"dev", "test", "manifest">>
  /\ <<"test", "manifest">> # <<"dev", "test", "manifest">> /\ <<"manifest">> # <<"dev", "manifest">>
OBVIOUS

\* Nothing is frozen and nothing judged.
LEMMA RealBegins == RealInit => RealInv
<1>1. SUFFICES ASSUME RealInit PROVE RealInv
  OBVIOUS
<1>2. FreezePlace /\ SidesWritten /\ HouseholdsApart
  BY <1>1 DEF RealInit, NotFrozen, NotFreezing, FreezePlace, SidesWritten, HouseholdsApart
<1>3. PassedOnFrozen /\ PassIsProven
  BY <1>1 DEF RealInit, NotJudged, PassedOnFrozen, PassIsProven
<1>4. RowsScored
  <2>1. scored.rows = <<>>
    BY <1>1 DEF RealInit, NotScored
  <2>2. DOMAIN <<>> = {}
    OBVIOUS
  <2> QED
    BY <2>1, <2>2 DEF RowsScored
<1> QED
  BY <1>2, <1>3, <1>4 DEF RealInv

\* The judgement and what it judged stay.
LEMMA JudgedStays ==
  ASSUME UNCHANGED judgement, freeze'.digest = freeze.digest \/ ~judgement.passed
  PROVE  PassIsProven => PassIsProven'
BY DEF PassIsProven, PolicyBranch, Allowed, AnswerStatus

\* A directory is begun with both sides in hand, unless it is for a pilot.
LEMMA PrepareKeeps ==
  ASSUME RealInv, NEW f \in EventFiles, NEW complete \in BOOLEAN, NEW pilot \in BOOLEAN,
         Prepare(f.events, f.labels, complete, pilot)
  PROVE  RealInv'
<1> DEFINE events == f.events
           homes == Homes(events)
           records == {EventRecord(events[i], f.labels) : i \in DOMAIN events}
<1>1. /\ ~freeze.made /\ (Cardinality(homes) >= 2 \/ pilot) /\ freeze' = [freeze EXCEPT !.made = TRUE]
      /\ freezing' = [left |-> IF pilot THEN <<"dev", "manifest">> ELSE <<"dev", "test", "manifest">>,
                      records |-> records, tests |-> IF pilot THEN {} ELSE TestHomes(homes), pilot |-> pilot]
      /\ UNCHANGED <<scored, judgement>>
  BY DEF Prepare
<1>2. FreezePlace /\ ~freeze.manifest /\ ~judgement.passed /\ RowsScored /\ PassIsProven
  BY <1>1 DEF RealInv, FreezePlace, PassedOnFrozen
<1>3. /\ freeze'.made /\ ~freeze'.manifest /\ DOMAIN freeze' = DOMAIN freeze
  BY <1>1, <1>2 DEF FreezePlace
<1>4. FreezePlace'
  BY <1>1, <1>2, <1>3 DEF FreezePlace
<1>5. ASSUME ~pilot PROVE (\E r \in records : r.home \in TestHomes(homes)) /\ (\E r \in records : r.home \notin TestHomes(homes))
  <2>1. events \in Seq({events[i] : i \in DOMAIN events})
    BY RealAssumption
  <2>2. PICK n \in Nat : DOMAIN events = 1..n
    <3> DEFINE S == {events[i] : i \in DOMAIN events}
    <3>1. events \in Seq(S)
      BY <2>1
    <3> HIDE DEF S
    <3>2. Len(events) \in Nat /\ DOMAIN events = 1..Len(events)
      BY <3>1
    <3> QED
      BY <3>2
  <2>3. IsFiniteSet(homes)
    <3>1. homes = {events[i].home : i \in 1..n}
      BY <2>2 DEF Homes
    <3>2. [i \in 1..n |-> events[i].home] \in Surjection(1..n, homes)
      BY <3>1 DEF Surjection
    <3> HIDE DEF homes
    <3> QED
      BY <2>2, <3>2, FS_NatSurjection DEF ExistsSurjection
  <2>4. /\ \A h \in homes : HashOf[h] \in Nat
        /\ \A g, h \in homes : HashOf[g] = HashOf[h] => g = h
    <3>1. \A i, j \in DOMAIN events :
            /\ HashOf[events[i].home] \in Nat
            /\ HashOf[events[i].home] = HashOf[events[j].home] => events[i].home = events[j].home
      BY RealAssumption
    <3>2. homes = {events[i].home : i \in DOMAIN events}
      BY DEF Homes
    <3> HIDE DEF homes, events
    <3> QED
      BY <3>1, <3>2
  <2>5. (\E h \in homes : h \in TestHomes(homes)) /\ (\E h \in homes : h \notin TestHomes(homes))
    <3> HIDE DEF homes
    <3> QED
      BY <1>1, <1>5, <2>3, <2>4, BothSides
  <2>6. \A h \in homes : \E r \in records : r.home = h
    <3>1. SUFFICES ASSUME NEW i \in DOMAIN events PROVE EventRecord(events[i], f.labels).home = events[i].home
      BY DEF Homes
    <3> QED
      BY DEF EventRecord
  <2> QED
    BY <2>5, <2>6
<1>6. SidesWritten'
  <2>1. SUFFICES ASSUME ~pilot
                 PROVE  /\ \E r \in records : r.home \in TestHomes(homes)
                        /\ \E r \in records : r.home \notin TestHomes(homes)
    BY <1>1, FilesLeft DEF SidesWritten, InTest
  <2> QED
    BY <1>5, <2>1
<1>7. HouseholdsApart'
  BY <1>3 DEF HouseholdsApart
<1>8. PassedOnFrozen' /\ PassIsProven' /\ RowsScored'
  BY <1>1, <1>2 DEF PassedOnFrozen, PassIsProven, RowsScored
<1> QED
  BY <1>4, <1>6, <1>7, <1>8 DEF RealInv

\* One file more: each has its side of the records.
LEMMA WriteNextKeeps == ASSUME RealInv, WriteNextFile PROVE RealInv'
<1> DEFINE tests == {r \in freezing.records : r.home \in freezing.tests}
<1>1. /\ freezing.left # <<>> /\ freezing' = [freezing EXCEPT !.left = Tail(@)]
      /\ freeze' = CASE Head(freezing.left) = "dev" -> [freeze EXCEPT !.dev = freezing.records \ tests]
                     [] Head(freezing.left) = "test" -> [freeze EXCEPT !.test = tests]
                     [] OTHER -> [freeze EXCEPT !.manifest = TRUE, !.pilot = freezing.pilot, !.digest = freeze.test]
      /\ UNCHANGED <<scored, judgement>>
  BY DEF WriteNextFile
<1>2. FreezePlace /\ SidesWritten /\ RowsScored
  BY DEF RealInv
<1>3. freeze.made /\ ~freeze.manifest /\ ~judgement.passed
  BY <1>1, <1>2 DEF RealInv, FreezePlace, PassedOnFrozen
<1>4. /\ DOMAIN freezing' = DOMAIN freezing /\ freezing'.left = Tail(freezing.left)
      /\ freezing'.records = freezing.records /\ freezing'.tests = freezing.tests /\ freezing'.pilot = freezing.pilot
  BY <1>1, <1>2 DEF FreezePlace
<1>5. /\ \A r : InTest(r)' <=> InTest(r)
      /\ tests = {r \in freezing.records : InTest(r)} /\ freezing.records \ tests = {r \in freezing.records : ~InTest(r)}
  BY <1>4 DEF InTest
<1>6. PassedOnFrozen' /\ PassIsProven' /\ RowsScored'
  BY <1>1, <1>2, <1>3 DEF PassedOnFrozen, PassIsProven, RowsScored
<1>7. CASE freezing.left = <<"manifest">>
  <2>1. freeze' = [freeze EXCEPT !.manifest = TRUE, !.pilot = freezing.pilot, !.digest = freeze.test]
    BY <1>1, <1>7, FilesLeft
  <2>2. freeze' = [[[freeze EXCEPT !.manifest = TRUE] EXCEPT !.pilot = freezing.pilot] EXCEPT !.digest = freeze.test]
    BY <1>2, <2>1 DEF FreezePlace
  <2>3. /\ DOMAIN freeze' = DOMAIN freeze /\ freeze'.made = freeze.made /\ freeze'.manifest /\ freeze'.pilot = freezing.pilot
        /\ freeze'.digest = freeze.test /\ freeze'.dev = freeze.dev
    BY <1>2, <2>2 DEF FreezePlace
  <2>4. freezing'.left = <<>>
    BY <1>4, <1>7, FilesLeft
  <2>5. FreezePlace'
    BY <1>2, <1>3, <1>4, <2>3, <2>4 DEF FreezePlace
  <2>6. SidesWritten'
    BY <2>4 DEF SidesWritten
  <2>7. ASSUME ~freezing.pilot
        PROVE  /\ \E r \in freezing.records : InTest(r)
               /\ \E r \in freezing.records : ~InTest(r)
               /\ freeze.dev = {r \in freezing.records : ~InTest(r)}
               /\ freeze.test = {r \in freezing.records : InTest(r)}
    BY <1>2, <1>7, <2>7, FilesLeft DEF SidesWritten
  <2>8. HouseholdsApart'
    <3>1. SUFFICES ASSUME ~freezing.pilot
                   PROVE  /\ freeze.test # {} /\ freeze.dev # {}
                          /\ {r.home : r \in freeze.test} \intersect {r.home : r \in freeze.dev} = {}
      BY <2>3 DEF HouseholdsApart
    <3> QED
      BY <2>7, <3>1 DEF InTest
  <2> QED
    BY <1>6, <2>5, <2>6, <2>8 DEF RealInv
<1>8. CASE freezing.left = <<"dev", "manifest">> \/ freezing.left = <<"dev", "test", "manifest">>
  <2>1. freeze' = [freeze EXCEPT !.dev = freezing.records \ tests]
    BY <1>1, <1>8, FilesLeft
  <2>2. /\ DOMAIN freeze' = DOMAIN freeze /\ freeze'.made = freeze.made /\ freeze'.manifest = freeze.manifest
        /\ freeze'.dev = freezing.records \ tests /\ freeze'.test = freeze.test
    BY <1>2, <2>1 DEF FreezePlace
  <2>3. freezing'.left = IF freezing.pilot THEN <<"manifest">> ELSE <<"test", "manifest">>
    BY <1>2, <1>4, <1>8, FilesLeft DEF FreezePlace
  <2>4. FreezePlace'
    BY <1>2, <1>3, <1>4, <2>2, <2>3 DEF FreezePlace
  <2>5. SidesWritten'
    <3>1. SUFFICES ASSUME ~freezing.pilot
                   PROVE  /\ \E r \in freezing.records : InTest(r)
                          /\ \E r \in freezing.records : ~InTest(r)
                          /\ freezing.records \ tests = {r \in freezing.records : ~InTest(r)}
      BY <1>4, <1>5, <2>2, <2>3, FilesLeft DEF SidesWritten
    <3> QED
      BY <1>1, <1>2, <1>5, <3>1 DEF SidesWritten
  <2>6. HouseholdsApart'
    BY <1>3, <2>2 DEF HouseholdsApart
  <2> QED
    BY <1>6, <2>4, <2>5, <2>6 DEF RealInv
<1>9. CASE freezing.left = <<"test", "manifest">>
  <2>1. freeze' = [freeze EXCEPT !.test = tests]
    BY <1>1, <1>9, FilesLeft
  <2>2. /\ DOMAIN freeze' = DOMAIN freeze /\ freeze'.made = freeze.made /\ freeze'.manifest = freeze.manifest
        /\ freeze'.dev = freeze.dev /\ freeze'.test = tests
    BY <1>2, <2>1 DEF FreezePlace
  <2>3. freezing'.left = <<"manifest">> /\ ~freezing.pilot
    <3>1. <<"test", "manifest">> # <<"dev", "manifest">>
      OBVIOUS
    <3> QED
      BY <1>2, <1>4, <1>9, <3>1, FilesLeft DEF FreezePlace
  <2>4. FreezePlace'
    BY <1>2, <1>3, <1>4, <2>2, <2>3 DEF FreezePlace
  <2>5. SidesWritten'
    <3>1. /\ \E r \in freezing.records : InTest(r)
          /\ \E r \in freezing.records : ~InTest(r)
          /\ freeze.dev = {r \in freezing.records : ~InTest(r)}
      BY <1>1, <1>2, <1>9, <2>3, FilesLeft DEF SidesWritten
    <3> QED
      BY <1>4, <1>5, <2>2, <2>3, <3>1, FilesLeft DEF SidesWritten
  <2>6. HouseholdsApart'
    BY <1>3, <2>2 DEF HouseholdsApart
  <2> QED
    BY <1>6, <2>4, <2>5, <2>6 DEF RealInv
<1> QED
  BY <1>1, <1>2, <1>7, <1>8, <1>9 DEF FreezePlace

\* What is left unwritten after a kill stays so.
LEMMA KillFreezeKeeps == ASSUME RealInv, KillFreeze PROVE RealInv'
<1>1. freezing' = NotFreezing /\ UNCHANGED <<freeze, scored, judgement>>
  BY DEF KillFreeze
<1>2. FreezePlace' /\ SidesWritten' /\ HouseholdsApart'
  BY <1>1 DEF RealInv, FreezePlace, SidesWritten, HouseholdsApart, NotFreezing
<1>3. PassedOnFrozen' /\ PassIsProven' /\ RowsScored'
  BY <1>1, JudgedStays DEF RealInv, PassedOnFrozen, RowsScored
<1> QED
  BY <1>2, <1>3 DEF RealInv

\* The manifest tells what the test was.
LEMMA EditKeeps == ASSUME RealInv, EditTest PROVE RealInv'
<1>1. PICK t : freeze' = [freeze EXCEPT !.test = t] /\ freezing.left = <<>> /\ UNCHANGED <<freezing, scored, judgement>>
  <2>1. PICK r \in freeze.test : freeze' \in
          {[freeze EXCEPT !.test = @ \ {r}],
           [freeze EXCEPT !.test = (@ \ {r}) \union {[r EXCEPT !.gold = [intent |-> "none"], !.complete = TRUE]}]}
    BY DEF EditTest
  <2>2. \E t : freeze' = [freeze EXCEPT !.test = t]
    BY <2>1
  <2> QED
    BY <2>2 DEF EditTest
<1>2. /\ DOMAIN freeze' = DOMAIN freeze /\ freeze'.made = freeze.made /\ freeze'.manifest = freeze.manifest
      /\ freeze'.pilot = freeze.pilot /\ freeze'.dev = freeze.dev /\ freeze'.digest = freeze.digest
  BY <1>1 DEF RealInv, FreezePlace
<1>3. FreezePlace' /\ SidesWritten' /\ HouseholdsApart'
  BY <1>1, <1>2 DEF RealInv, FreezePlace, SidesWritten, HouseholdsApart
<1>4. PassedOnFrozen' /\ PassIsProven' /\ RowsScored'
  BY <1>1, <1>2, JudgedStays DEF RealInv, PassedOnFrozen, RowsScored
<1> QED
  BY <1>3, <1>4 DEF RealInv

\* A report has what the model answered.
LEMMA ScoreKeeps ==
  ASSUME RealInv, NEW of, NEW keep \in BOOLEAN, NEW provenance \in BOOLEAN, Score(of, keep, provenance)
  PROVE  RealInv'
<1>1. UNCHANGED <<freezing, freeze, judgement>>
  BY DEF Score
<1>2. FreezePlace' /\ SidesWritten' /\ HouseholdsApart'
  BY <1>1 DEF RealInv, FreezePlace, SidesWritten, HouseholdsApart, InTest
<1>3. PassedOnFrozen' /\ PassIsProven'
  BY <1>1, JudgedStays DEF RealInv, PassedOnFrozen
<1>4. RowsScored'
  <2>1. PICK given \in [{r.id : r \in freeze.test} -> ScoredAs] :
          scored' = [of |-> of, rows |-> IF keep THEN given ELSE <<>>, provenance |-> provenance]
    BY DEF Score
  <2>2. DOMAIN <<>> = {}
    OBVIOUS
  <2> QED
    BY <2>1, <2>2 DEF RowsScored
<1> QED
  BY <1>2, <1>3, <1>4 DEF RealInv

\* Only what is proven of the test that was frozen passes.
LEMMA JudgeKeeps == ASSUME RealInv, NEW taus \in Thresholds, Judge(taus) PROVE RealInv'
<1>1. /\ judgement' = [taus |-> taus, rows |-> scored.rows, passed |-> Proven(taus)] /\ Judgeable
      /\ UNCHANGED <<freezing, freeze, scored>>
  BY DEF Judge
<1>2. FreezePlace' /\ SidesWritten' /\ HouseholdsApart' /\ RowsScored'
  BY <1>1 DEF RealInv, FreezePlace, SidesWritten, HouseholdsApart, InTest, RowsScored
<1>3. PassedOnFrozen'
  BY <1>1 DEF PassedOnFrozen, Judgeable
<1>4. PassIsProven'
  <2> DEFINE executed == {r \in freeze.test : PolicyBranch(scored.rows[r.id], taus) = "execute"}
             right == {r \in executed : Allowed(r) /\ AnswerStatus(scored.rows[r.id], r.gold) = "right"}
             wrong == {r \in executed : AnswerStatus(scored.rows[r.id], r.gold) # "right"}
  <2>1. SUFFICES ASSUME Proven(taus)
                 PROVE  /\ DOMAIN scored.rows = {r.id : r \in freeze.test}
                        /\ \A r \in executed : Allowed(r) /\ scored.rows[r.id].device \notin Exits
                        /\ Cardinality(wrong) <= MissesAllowed[Cardinality(executed)]
    <3>1. freeze.digest = freeze.test /\ freeze'.digest = freeze.test
      BY <1>1 DEF Judgeable
    <3>2. judgement'.rows = scored.rows /\ judgement'.taus = taus /\ judgement'.passed = Proven(taus)
      BY <1>1
    <3> QED
      BY <3>1, <3>2 DEF PassIsProven
  <2>2. (\A r \in executed : Allowed(r)) /\ Cardinality(executed \ right) <= MissesAllowed[Cardinality(executed)]
    BY <2>1 DEF Proven
  <2>3. executed \ right = wrong
    BY <2>2
  <2>4. \A r \in executed : scored.rows[r.id].device \notin Exits
    BY DEF PolicyBranch
  <2>5. DOMAIN scored.rows = {r.id : r \in freeze.test}
    BY <1>1 DEF Judgeable
  <2> QED
    BY <2>2, <2>3, <2>4, <2>5
<1> QED
  BY <1>2, <1>3, <1>4 DEF RealInv

\* Stricter thresholds move answers from execute to confirm and nowhere else.
LEMMA SweepRight == RowsScored => StricterOnlyConfirms
<1>1. SUFFICES ASSUME RowsScored, NEW s \in Thresholds, NEW t \in Thresholds
               PROVE  /\ t.intent >= s.intent /\ t.slots >= s.slots /\ t.confirm = s.confirm =>
                           /\ PolicyMetrics(t).execute \subseteq PolicyMetrics(s).execute
                           /\ PolicyMetrics(t).ignore = PolicyMetrics(s).ignore
                      /\ \A id \in PolicyMetrics([t EXCEPT !.slots = t.intent]).execute :
                           AutoExecute(scored.rows[id], t.intent)
  BY DEF StricterOnlyConfirms
<1>2. \A id \in DOMAIN scored.rows : scored.rows[id].p \in Nat /\ scored.rows[id].sure \in Nat
  BY <1>1, RealAssumption DEF RowsScored
<1>3. /\ s.intent \in Nat /\ s.slots \in Nat /\ s.confirm \in Nat
      /\ t.intent \in Nat /\ t.slots \in Nat /\ t.confirm \in Nat
  BY RealAssumption
<1>4. /\ [t EXCEPT !.slots = t.intent].intent = t.intent
      /\ [t EXCEPT !.slots = t.intent].slots = t.intent
  BY RealAssumption
<1>5. \A taus : /\ PolicyMetrics(taus).execute = {id \in DOMAIN scored.rows : PolicyBranch(scored.rows[id], taus) = "execute"}
                /\ PolicyMetrics(taus).ignore = {id \in DOMAIN scored.rows : PolicyBranch(scored.rows[id], taus) = "ignore"}
  BY DEF PolicyMetrics
<1>6. ASSUME t.intent >= s.intent, t.slots >= s.slots, t.confirm = s.confirm, NEW id \in DOMAIN scored.rows
      PROVE  /\ PolicyBranch(scored.rows[id], t) = "execute" => PolicyBranch(scored.rows[id], s) = "execute"
             /\ PolicyBranch(scored.rows[id], t) = "ignore" <=> PolicyBranch(scored.rows[id], s) = "ignore"
  <2>1. /\ scored.rows[id].p >= t.intent => scored.rows[id].p >= s.intent
        /\ scored.rows[id].sure >= t.slots => scored.rows[id].sure >= s.slots
    BY <1>2, <1>3, <1>6
  <2> QED
    BY <1>6, <2>1 DEF PolicyBranch
<1>7. ASSUME NEW id \in DOMAIN scored.rows, PolicyBranch(scored.rows[id], [t EXCEPT !.slots = t.intent]) = "execute"
      PROVE  AutoExecute(scored.rows[id], t.intent)
  BY <1>4, <1>7 DEF PolicyBranch, AutoExecute
<1> QED
  BY <1>5, <1>6, <1>7

\* Whatever is frozen has both sides or is a pilot's, wherever the freeze was
\* killed, and who passed was judged on what the manifest says.
THEOREM FreezeCorrect == RealSpec => []RealInv
<1>1. RealInit => RealInv
  BY RealBegins
<1>2. RealInv /\ [RealNext]_realVars => RealInv'
  <2>1. SUFFICES ASSUME RealInv, [RealNext]_realVars PROVE RealInv'
    OBVIOUS
  <2>2. CASE UNCHANGED realVars
    <3>1. UNCHANGED <<freezing, freeze, scored, judgement>>
      BY <2>2 DEF realVars
    <3> QED
      BY <2>1, <3>1, JudgedStays DEF RealInv, FreezePlace, SidesWritten, HouseholdsApart, InTest, PassedOnFrozen, RowsScored
  <2>3. CASE \E f \in EventFiles, complete, pilot \in BOOLEAN : Prepare(f.events, f.labels, complete, pilot)
    BY <2>1, <2>3, PrepareKeeps
  <2>4. CASE \E of \in {"the test", "a copy"}, keep, provenance \in BOOLEAN : Score(of, keep, provenance)
    BY <2>1, <2>4, ScoreKeeps
  <2> QED
    BY <2>1, <2>2, <2>3, <2>4, WriteNextKeeps, KillFreezeKeeps, EditKeeps, JudgeKeeps DEF RealNext
<1> QED
  BY <1>1, <1>2, PTL DEF RealSpec

\* The evaluation on recorded households can be trusted, for any events, labels,
\* answers and thresholds.
THEOREM RealEvaluationHonest == RealSpec => []EvaluationHonest
<1>1. RealInv => EvaluationHonest
  BY SweepRight DEF RealInv, EvaluationHonest
<1> QED
  BY <1>1, FreezeCorrect, PTL

-----------------------------------------------------------------------------
(* SmartHomeEval: what the rows and the counts of them are *)

\* The rows of a run: of each case its answer, and the scores of it.
RowsAre(table) ==
  /\ DOMAIN table \subseteq DOMAIN Cases
  /\ \A id \in DOMAIN table : table[id] = PredRow(id, table[id].pred)

\* The cases that have a question, and those of them answered right.
AskedOf(table, d) == {id \in DOMAIN table : d \in Scored(Cases[id])}
RightOf(table, d) == {id \in AskedOf(table, d) : Right(Cases[id], table[id].pred, d)}
AllRight(table) ==
  {id \in DOMAIN table : Cases[id].intent = "control" /\ \A d \in Scored(Cases[id]) : Right(Cases[id], table[id].pred, d)}

\* A case is scored on the intent and on what is given.
LEMMA ScoredIs ==
  ASSUME NEW c
  PROVE  /\ "intent" \in Scored(c) /\ Scored(c) \subseteq DimSet
         /\ \A d \in DimSet : d \in Scored(c) <=> Gold(c, d) # {}
<1>1. Gold(c, "intent") = {c.intent} /\ Gold(c, "device") = c.devices /\ Gold(c, "action") = c.actions
  BY DEF Gold
<1>2. /\ "intent" \in Scored(c) /\ Scored(c) \subseteq DimSet
      /\ "device" \in Scored(c) <=> c.devices # {}
      /\ "action" \in Scored(c) <=> c.actions # {}
  BY DEF Scored, DimSet
<1> QED
  BY <1>1, <1>2 DEF DimSet

\* What a row says of a question it is scored on, and of the case as a whole.
LEMMA ScoreIs ==
  ASSUME NEW table, RowsAre(table), NEW id \in DOMAIN table
  PROVE  /\ \A d \in DimSet : d \in DOMAIN table[id].score <=> d \in Scored(Cases[id])
         /\ \A d \in Scored(Cases[id]) : table[id].score[d] <=> Right(Cases[id], table[id].pred, d)
         /\ "e2e" \in DOMAIN table[id].score <=> Cases[id].intent = "control"
         /\ Cases[id].intent = "control" =>
              (table[id].score["e2e"] <=> \A d \in Scored(Cases[id]) : Right(Cases[id], table[id].pred, d))
<1> DEFINE c == Cases[id]
           p == table[id].pred
<1>1. table[id].score = ScoreOf(c, p)
  BY DEF RowsAre, PredRow
<1>2. /\ Scored(c) \subseteq DimSet /\ "e2e" \notin DimSet
      /\ EndToEnd(c) = (IF c.intent = "control" THEN {"e2e"} ELSE {})
  BY ScoredIs DEF DimSet, EndToEnd
<1>3. DOMAIN ScoreOf(c, p) = Scored(c) \union EndToEnd(c)
  BY DEF ScoreOf
<1>4. \A d \in Scored(c) : ScoreOf(c, p)[d] <=> Right(c, p, d)
  BY <1>2 DEF ScoreOf
<1>5. c.intent = "control" => (ScoreOf(c, p)["e2e"] <=> \A d \in Scored(c) : Right(c, p, d))
  BY <1>2 DEF ScoreOf
<1> HIDE DEF c, p
<1>6. /\ \A d \in DimSet : d \in DOMAIN table[id].score <=> d \in Scored(c)
      /\ "e2e" \in DOMAIN table[id].score <=> c.intent = "control"
  BY <1>1, <1>2, <1>3
<1> QED
  BY <1>1, <1>4, <1>5, <1>6 DEF c, p

\* The rates of a summary count the cases asked and right.
LEMMA RatesAre ==
  ASSUME NEW table, RowsAre(table)
  PROVE  LET rates == Summary(table).model.rates
         IN  /\ rates["intent"].n = Cardinality(DOMAIN table)
             /\ \A d \in DimSet : rates[d].right = Cardinality(RightOf(table, d))
             /\ rates["e2e"].right = Cardinality(AllRight(table))
<1> DEFINE rates == Summary(table).model.rates
<1>1. rates = [k \in {"intent", "device", "action", "e2e"} |-> Rate(table, k, "score")]
  BY DEF Summary, Metrics
<1>2. \A k : Rate(table, k, "score").n = Cardinality(Of(table, k, "score"))
             /\ Rate(table, k, "score").right = Cardinality({id \in Of(table, k, "score") : table[id]["score"][k]})
  BY DEF Rate
<1>3. \A d \in DimSet : Of(table, d, "score") = AskedOf(table, d)
  BY ScoreIs DEF Of, AskedOf
<1>4. Of(table, "intent", "score") = DOMAIN table
  BY <1>3, ScoredIs DEF AskedOf, DimSet
<1>5. \A d \in DimSet : {id \in Of(table, d, "score") : table[id]["score"][d]} = RightOf(table, d)
  <2>1. TAKE d \in DimSet
  <2>2. \A id \in AskedOf(table, d) : table[id]["score"][d] <=> Right(Cases[id], table[id].pred, d)
    BY ScoreIs DEF AskedOf
  <2> QED
    BY <1>3, <2>2 DEF RightOf
<1>6. {id \in Of(table, "e2e", "score") : table[id]["score"]["e2e"]} = AllRight(table)
  BY ScoreIs DEF Of, AllRight
<1> HIDE DEF rates
<1>7. /\ rates["intent"].n = Cardinality(DOMAIN table)
      /\ \A d \in DimSet : rates[d].right = Cardinality(RightOf(table, d))
      /\ rates["e2e"].right = Cardinality(AllRight(table))
  BY <1>1, <1>2, <1>4, <1>5, <1>6 DEF DimSet
<1> QED
  BY <1>7 DEF rates

\* What is in one of two finite sets is what is in the other, and what was won
\* and lost.
LEMMA WonAndLost ==
  ASSUME NEW S, NEW T, IsFiniteSet(S), IsFiniteSet(T)
  PROVE  Cardinality(S) = Cardinality(T) + Cardinality(S \ T) - Cardinality(T \ S)
<1>1. /\ Cardinality(S \ T) = Cardinality(S) - Cardinality(S \cap T)
      /\ Cardinality(T \ S) = Cardinality(T) - Cardinality(T \cap S)
  BY FS_Difference
<1>2. T \cap S = S \cap T
  OBVIOUS
<1>3. Cardinality(T \ S) = Cardinality(T) - Cardinality(S \cap T)
  BY ONLY <1>1, <1>2
<1>4. IsFiniteSet(S \cap T)
  BY FS_Intersection
<1>5. Cardinality(S) \in Nat /\ Cardinality(T) \in Nat /\ Cardinality(S \cap T) \in Nat
  BY <1>4, FS_CardinalityType
<1> DEFINE m == Cardinality(S \cap T)
           won == Cardinality(S \ T)
           lost == Cardinality(T \ S)
<1>6. won = Cardinality(S) - m /\ lost = Cardinality(T) - m /\ m \in Nat
  BY <1>1, <1>3, <1>5
<1> HIDE DEF m, won, lost
<1>7. Cardinality(S) = Cardinality(T) + won - lost
  BY <1>5, <1>6
<1> QED
  BY <1>7 DEF won, lost

\* As many cases of a set that has them all are the same cases.
LEMMA SameCases ==
  ASSUME NEW a, NEW b, RowsAre(a), RowsAre(b), DOMAIN a \subseteq DOMAIN b, Cardinality(DOMAIN a) = Cardinality(DOMAIN b)
  PROVE  DOMAIN a = DOMAIN b
<1>1. IsFiniteSet(DOMAIN b)
  BY EvalAssumption, FS_Subset DEF RowsAre
<1> QED
  BY <1>1, FS_Subset

-----------------------------------------------------------------------------
(* SmartHomeEval: the two reports *)

\* A run that has rows of the same cases as the base: the table of what it won
\* and lost, its answers put together, and what anybody knows.
LEMMA ComparedRight ==
  ASSUME NEW a, NEW b, RowsAre(a), RowsAre(b), DOMAIN a = DOMAIN b
  PROVE  \A d \in DimSet :
           LET those == AskedOf(a, d)
           IN  /\ Cardinality(RightOf(b, d)) =
                    Cardinality(RightOf(a, d)) + Cardinality({id \in those : ~a[id].score[d] /\ b[id].score[d]})
                                               - Cardinality({id \in those : a[id].score[d] /\ ~b[id].score[d]})
               /\ \A any : any \subseteq DOMAIN a /\ RightOf(b, d) \subseteq any => Cardinality(RightOf(b, d)) <= Cardinality(any)
<1>1. TAKE d \in DimSet
<1> DEFINE those == AskedOf(a, d)
<1>2. those = AskedOf(b, d)
  BY DEF AskedOf
<1>3. \A id \in those : /\ a[id].score[d] <=> Right(Cases[id], a[id].pred, d)
                        /\ b[id].score[d] <=> Right(Cases[id], b[id].pred, d)
  BY ScoreIs DEF AskedOf
<1>4. /\ {id \in those : ~a[id].score[d] /\ b[id].score[d]} = RightOf(b, d) \ RightOf(a, d)
      /\ {id \in those : a[id].score[d] /\ ~b[id].score[d]} = RightOf(a, d) \ RightOf(b, d)
  <2> HIDE DEF those
  <2>1. RightOf(a, d) = {id \in those : Right(Cases[id], a[id].pred, d)}
    BY DEF RightOf, those
  <2>2. RightOf(b, d) = {id \in those : Right(Cases[id], b[id].pred, d)}
    BY <1>2 DEF RightOf
  <2> QED
    BY <1>3, <2>1, <2>2
<1>5. IsFiniteSet(DOMAIN a)
  BY EvalAssumption, FS_Subset DEF RowsAre
<1>6. RightOf(a, d) \subseteq DOMAIN a /\ RightOf(b, d) \subseteq DOMAIN a
  BY DEF RightOf, AskedOf
<1>7. IsFiniteSet(RightOf(a, d)) /\ IsFiniteSet(RightOf(b, d))
  BY <1>5, <1>6, FS_Subset
<1>8. \A any : any \subseteq DOMAIN a /\ RightOf(b, d) \subseteq any => Cardinality(RightOf(b, d)) <= Cardinality(any)
  BY <1>5, FS_Subset
<1>9. Cardinality(RightOf(b, d)) =
        Cardinality(RightOf(a, d)) + Cardinality(RightOf(b, d) \ RightOf(a, d)) - Cardinality(RightOf(a, d) \ RightOf(b, d))
  BY <1>7, WonAndLost
<1> QED
  BY <1>4, <1>8, <1>9

\* The files of a run that is whole are of one run.
WholeRight ==
  \A m \in whole : RowsAre(RowsOf(m)) /\ results[m].summary = Summary(RowsOf(m))

\* The answers of one run put together are its own.
LEMMA OneRunCombined ==
  ASSUME NEW m, RowsAre(RowsOf(m)), NEW id \in DOMAIN RowsOf(m)
  PROVE  Combined(id, [k \in 1 .. 3 |-> m]) <=>
           \A d \in Scored(Cases[id]) : Right(Cases[id], RowsOf(m)[id].pred, d)
<1> DEFINE c == Cases[id]
           p == RowsOf(m)[id].pred
<1>1. Combined(id, [k \in 1 .. 3 |-> m]) <=> \A k \in 1 .. 3 : Gold(c, Dims[k]) # {} => p[Dims[k]] \in Gold(c, Dims[k])
  BY DEF Combined
<1>2. Dims[1] = "intent" /\ Dims[2] = "device" /\ Dims[3] = "action"
  BY DEF Dims
<1>3. (\A k \in 1 .. 3 : Gold(c, Dims[k]) # {} => p[Dims[k]] \in Gold(c, Dims[k])) <=>
        \A d \in DimSet : Gold(c, d) # {} => p[d] \in Gold(c, d)
  <2> HIDE DEF c, p
  <2>1. \A k \in 1..3 : k = 1 \/ k = 2 \/ k = 3
    OBVIOUS
  <2> QED
    BY <1>2, <2>1 DEF DimSet
<1>4. /\ Scored(c) \subseteq DimSet
      /\ \A d \in DimSet : d \in Scored(c) <=> Gold(c, d) # {}
  BY ScoredIs
<1> HIDE DEF c, p
<1>5. (\A d \in DimSet : Gold(c, d) # {} => p[d] \in Gold(c, d)) <=> \A d \in Scored(c) : Right(c, p, d)
  BY <1>4 DEF Right
<1> QED
  BY <1>1, <1>3, <1>5 DEF c, p

\* The comparison of whole runs adds up.
LEMMA CompareAddsUp == ASSUME WholeRight, Compare PROVE ComparisonAddsUp'
<1>1. SUFFICES ASSUME PresentRuns \subseteq whole PROVE ComparisonAddsUp'
  BY DEF Compare, ComparisonAddsUp
<1>2. /\ RunsThere # {} /\ PresentRuns # {} /\ \A m \in PresentRuns : DOMAIN Base \subseteq DOMAIN RowsOf(m)
  BY DEF Compare, Comparable, PresentRuns
<1>3. BaseRun \in PresentRuns
  <2>1. RunsThere \subseteq Nat
    BY EvalAssumption DEF RunsThere
  <2>2. \E i \in RunsThere : \A j \in RunsThere : i <= j
    BY <1>2, <2>1, LeastNumber
  <2>3. EarliestOf(RunsThere) \in RunsThere
    BY <2>2 DEF EarliestOf
  <2> QED
    BY <2>3 DEF BaseRun, PresentRuns
<1>4. \A m \in PresentRuns : RowsAre(RowsOf(m)) /\ results[m].summary = Summary(RowsOf(m))
  BY <1>1 DEF WholeRight
<1>5. /\ comparison'.summaries = [m \in PresentRuns |-> results[m].summary.model.rates]
      /\ comparison'.base = BaseRun
      /\ comparison'.cases = Cardinality(DOMAIN Base)
      /\ comparison'.fixed = [m \in PresentRuns |-> [d \in DimSet |->
           Cardinality({id \in ScoredOn(d) : ~Base[id].score[d] /\ Ok(m, id, d)})]]
      /\ comparison'.broke = [m \in PresentRuns |-> [d \in DimSet |->
           Cardinality({id \in ScoredOn(d) : Base[id].score[d] /\ ~Ok(m, id, d)})]]
      /\ comparison'.combos = [pick \in [1 .. 3 -> PresentRuns] |-> Cardinality({id \in Controls : Combined(id, pick)})]
      /\ comparison'.oracle = [d \in DimSet |-> Cardinality({id \in ScoredOn(d) : AnyOk(id, d)})]
  BY DEF Compare
<1>6. SUFFICES ASSUME NEW m \in PresentRuns, comparison'.summaries[m]["intent"].n = comparison'.cases
               PROVE  /\ \A d \in DimSet :
                           comparison'.summaries[m][d].right = comparison'.summaries[BaseRun][d].right
                                            + comparison'.fixed[m][d] - comparison'.broke[m][d]
                      /\ comparison'.combos[[k \in 1 .. 3 |-> m]] = comparison'.summaries[m]["e2e"].right
                      /\ \A d \in DimSet : comparison'.summaries[m][d].right <= comparison'.oracle[d]
  <2>1. DOMAIN comparison'.summaries = PresentRuns /\ comparison'.base = BaseRun
    BY <1>5
  <2> QED
    BY <2>1 DEF ComparisonAddsUp
<1>7. /\ comparison'.summaries[m] = Summary(RowsOf(m)).model.rates
      /\ comparison'.summaries[BaseRun] = Summary(Base).model.rates
      /\ RowsAre(RowsOf(m)) /\ RowsAre(Base)
  BY <1>3, <1>4, <1>5 DEF Base
<1>8. DOMAIN Base = DOMAIN RowsOf(m)
  BY <1>2, <1>5, <1>6, <1>7, RatesAre, SameCases
<1>9. \A d \in DimSet : ScoredOn(d) = AskedOf(Base, d)
  BY <1>7, ScoreIs DEF ScoredOn, AskedOf
<1>10. ASSUME NEW d \in DimSet
       PROVE  comparison'.summaries[m][d].right = comparison'.summaries[BaseRun][d].right
                                            + comparison'.fixed[m][d] - comparison'.broke[m][d]
  <2>1. /\ comparison'.fixed[m][d] = Cardinality({id \in AskedOf(Base, d) : ~Base[id].score[d] /\ RowsOf(m)[id].score[d]})
        /\ comparison'.broke[m][d] = Cardinality({id \in AskedOf(Base, d) : Base[id].score[d] /\ ~RowsOf(m)[id].score[d]})
    <3>1. /\ comparison'.fixed[m][d] = Cardinality({id \in ScoredOn(d) : ~Base[id].score[d] /\ Ok(m, id, d)})
          /\ comparison'.broke[m][d] = Cardinality({id \in ScoredOn(d) : Base[id].score[d] /\ ~Ok(m, id, d)})
      BY <1>5
    <3>2. ScoredOn(d) = AskedOf(Base, d) /\ \A id : Ok(m, id, d) <=> RowsOf(m)[id].score[d]
      BY <1>9 DEF Ok
    <3>3. /\ {id \in ScoredOn(d) : ~Base[id].score[d] /\ Ok(m, id, d)} =
               {id \in AskedOf(Base, d) : ~Base[id].score[d] /\ RowsOf(m)[id].score[d]}
          /\ {id \in ScoredOn(d) : Base[id].score[d] /\ ~Ok(m, id, d)} =
               {id \in AskedOf(Base, d) : Base[id].score[d] /\ ~RowsOf(m)[id].score[d]}
      BY <3>2
    <3> QED
      BY <3>1, <3>3
  <2>2. Cardinality(RightOf(RowsOf(m), d)) =
          Cardinality(RightOf(Base, d)) + Cardinality({id \in AskedOf(Base, d) : ~Base[id].score[d] /\ RowsOf(m)[id].score[d]})
                                        - Cardinality({id \in AskedOf(Base, d) : Base[id].score[d] /\ ~RowsOf(m)[id].score[d]})
    BY <1>7, <1>8, ComparedRight
  <2>3. /\ comparison'.summaries[m][d].right = Cardinality(RightOf(RowsOf(m), d))
        /\ comparison'.summaries[BaseRun][d].right = Cardinality(RightOf(Base, d))
    BY <1>7, RatesAre
  <2> QED
    BY <2>1, <2>2, <2>3
<1>11. comparison'.combos[[k \in 1 .. 3 |-> m]] = comparison'.summaries[m]["e2e"].right
  <2>1. comparison'.combos[[k \in 1 .. 3 |-> m]] = Cardinality({id \in Controls : Combined(id, [k \in 1 .. 3 |-> m])})
    BY <1>5
  <2>2. {id \in Controls : Combined(id, [k \in 1 .. 3 |-> m])} = AllRight(RowsOf(m))
    BY <1>7, <1>8, OneRunCombined DEF Controls, AllRight
  <2> QED
    BY <1>7, <2>1, <2>2, RatesAre
<1>12. ASSUME NEW d \in DimSet PROVE comparison'.summaries[m][d].right <= comparison'.oracle[d]
  <2> DEFINE any == {id \in AskedOf(Base, d) : AnyOk(id, d)}
  <2>1. comparison'.oracle[d] = Cardinality(any)
    BY <1>5, <1>9
  <2>2. any \subseteq DOMAIN Base
    BY DEF AskedOf
  <2>3. RightOf(RowsOf(m), d) \subseteq any
    <3>1. SUFFICES ASSUME NEW id \in RightOf(RowsOf(m), d) PROVE id \in AskedOf(Base, d) /\ Ok(m, id, d)
      BY DEF AnyOk
    <3>2. id \in DOMAIN RowsOf(m) /\ d \in Scored(Cases[id]) /\ Right(Cases[id], RowsOf(m)[id].pred, d)
      BY DEF RightOf, AskedOf
    <3>3. RowsOf(m)[id].score[d]
      BY <1>7, <3>2, ScoreIs
    <3> QED
      BY <1>8, <3>2, <3>3 DEF AskedOf, Ok
  <2> HIDE DEF any
  <2>4. Cardinality(RightOf(RowsOf(m), d)) <= Cardinality(any)
    BY <1>7, <1>8, <2>2, <2>3, ComparedRight
  <2> QED
    BY <1>7, <2>1, <2>4, RatesAre
<1> QED
  BY <1>10, <1>11, <1>12

\* The same answers to the same cases have the same rates.
LEMMA SameRates ==
  ASSUME NEW a, NEW b, DOMAIN a = DOMAIN b, \A id \in DOMAIN a : a[id] = b[id]
  PROVE  Summary(a).model.rates = Summary(b).model.rates
<1>1. \A k : Of(a, k, "score") = Of(b, k, "score")
  BY DEF Of
<1>2. \A k : {id \in Of(a, k, "score") : a[id]["score"][k]} = {id \in Of(b, k, "score") : b[id]["score"][k]}
  BY <1>1 DEF Of
<1>3. \A k : Rate(a, k, "score") = Rate(b, k, "score")
  BY <1>1, <1>2 DEF Rate
<1> QED
  BY <1>3 DEF Summary, Metrics

\* The report of whole runs: who answers as the primary has its rates.
LEMMA ReportIsRight == ASSUME WholeRight, Report PROVE ReportAgrees'
<1>1. SUFFICES ASSUME Plain \subseteq whole PROVE ReportAgrees'
  BY DEF Report, ReportAgrees
<1> DEFINE primary == Models[1]
           agreed(m) == {id \in DOMAIN RowsOf(m) : RowsOf(m)[id].pred = RowsOf(primary)[id].pred}
<1>2. /\ primary \in Plain /\ \A m \in Plain : DOMAIN RowsOf(m) \subseteq DOMAIN RowsOf(primary)
      /\ comparison'.cases = [m \in Plain |-> Cardinality(DOMAIN RowsOf(m))]
      /\ comparison'.summaries = [m \in Plain |-> results[m].summary.model.rates]
      /\ comparison'.same = [m \in Plain |-> Cardinality(agreed(m))]
  BY DEF Report
<1>3. \A m \in Plain : RowsAre(RowsOf(m)) /\ results[m].summary = Summary(RowsOf(m))
  BY <1>1 DEF WholeRight
<1>4. SUFFICES ASSUME NEW m \in Plain, Cardinality(agreed(m)) = Cardinality(DOMAIN RowsOf(m)),
                      Cardinality(DOMAIN RowsOf(m)) = Cardinality(DOMAIN RowsOf(primary))
               PROVE  Summary(RowsOf(m)).model.rates = Summary(RowsOf(primary)).model.rates
  <2>1. /\ DOMAIN comparison'.same = Plain /\ \A m \in Plain : comparison'.same[m] = Cardinality(agreed(m))
        /\ \A m \in Plain : comparison'.cases[m] = Cardinality(DOMAIN RowsOf(m))
        /\ \A m \in Plain : comparison'.summaries[m] = Summary(RowsOf(m)).model.rates
    <3> HIDE DEF agreed
    <3> QED
      BY <1>2, <1>3
  <2> HIDE DEF agreed
  <2> QED
    BY <1>2, <1>4, <2>1 DEF ReportAgrees
<1>5. DOMAIN RowsOf(m) = DOMAIN RowsOf(primary)
  BY <1>2, <1>3, <1>4, SameCases
<1>6. agreed(m) = DOMAIN RowsOf(m)
  <2>1. IsFiniteSet(DOMAIN RowsOf(m)) /\ agreed(m) \subseteq DOMAIN RowsOf(m)
    BY <1>3, EvalAssumption, FS_Subset DEF RowsAre
  <2> HIDE DEF agreed
  <2> QED
    BY <1>4, <2>1, FS_Subset
<1>7. \A id \in DOMAIN RowsOf(m) : RowsOf(m)[id] = RowsOf(primary)[id]
  <2>1. TAKE id \in DOMAIN RowsOf(m)
  <2>2. RowsOf(m)[id].pred = RowsOf(primary)[id].pred
    BY <1>6
  <2> QED
    BY <1>2, <1>3, <1>5, <2>2 DEF RowsAre
<1> QED
  BY <1>5, <1>7, SameRates

\* The word lists answer with a device of the home or with none or several.
LEMMA BaselineOffered ==
  ASSUME NEW text, NEW home, DOMAIN home \subseteq Nat
  PROVE  RuleBaseline(text, home).device \in DeviceOptions(home)
<1> DEFINE named == {i \in DOMAIN home : TypeHit(text, home[i])}
           roomed == {i \in named : RoomHit(text, home[i])}
           places == IF roomed # {} THEN roomed ELSE named
<1>1. ASSUME named # {} PROVE BestNamed(text, home) \in DeviceOptions(home)
  <2>1. places \subseteq DOMAIN home /\ places # {} /\ BestNamed(text, home) = home[EarliestOf(places)].name
    BY <1>1 DEF BestNamed
  <2> HIDE DEF places
  <2>2. \E i \in places : \A j \in places : i <= j
    BY <2>1, LeastNumber
  <2>3. EarliestOf(places) \in DOMAIN home
    BY <2>1, <2>2 DEF EarliestOf
  <2> QED
    BY <2>1, <2>3 DEF DeviceOptions
<1>2. BaselineDevice(text, home) \in DeviceOptions(home) \/ BaselineDevice(text, home) = "nothing"
  BY <1>1 DEF BaselineDevice, DeviceOptions
<1>3. RuleBaseline(text, home).device = IF BaselineDevice(text, home) = "nothing" THEN None ELSE BaselineDevice(text, home)
  BY DEF RuleBaseline
<1>4. None \in DeviceOptions(home)
  BY DEF DeviceOptions
<1> QED
  BY <1>2, <1>3, <1>4

-----------------------------------------------------------------------------
(* SmartHomeEval: the invariant *)

\* What is in hand is of one run, and so is what it has written.
RunRight ==
  \/ evalRun = Nobody
  \/ /\ DOMAIN evalRun = {"at", "label", "rows"} /\ evalRun.label \in RunLabels /\ RowsAre(evalRun.rows)
     /\ evalRun.at = "predictions" => RowsOf(evalRun.label) = evalRun.rows

ResultFiles ==
  /\ DOMAIN results = RunLabels /\ \A m \in RunLabels : DOMAIN results[m] = {"preds", "summary"}
  /\ whole \subseteq RunLabels

HomeInv == RunRight /\ ResultFiles /\ WholeRight /\ ComparisonAddsUp /\ ReportAgrees

\* No model has been run.
LEMMA HomeBegins == HomeInit => HomeInv
<1>1. SUFFICES ASSUME HomeInit PROVE HomeInv
  OBVIOUS
<1>2. RunRight /\ ResultFiles /\ WholeRight
  BY <1>1 DEF HomeInit, RunRight, ResultFiles, WholeRight
<1>3. comparison.is = "none"
  BY <1>1 DEF HomeInit, NoFile
<1> QED
  BY <1>2, <1>3 DEF HomeInv, ComparisonAddsUp, ReportAgrees

\* Every case is scored as it was answered.
LEMMA AskKeeps == ASSUME HomeInv, AskCases PROVE HomeInv'
<1>1. PICK label \in RunLabels, only \in ScenarioSets :
        \E pred \in {f \in [LoadCases(only) -> UNION {Says[label][id] : id \in LoadCases(only)}] :
                       \A id \in LoadCases(only) : f[id] \in Says[label][id]} :
           evalRun' = [at |-> "asked", label |-> label, rows |-> [id \in LoadCases(only) |-> PredRow(id, pred[id])]]
  BY DEF AskCases
<1>2. PICK pred : evalRun' = [at |-> "asked", label |-> label, rows |-> [id \in LoadCases(only) |-> PredRow(id, pred[id])]]
  BY <1>1
<1> DEFINE answered == [id \in LoadCases(only) |-> PredRow(id, pred[id])]
<1>3. RowsAre(answered)
  <2>1. LoadCases(only) \subseteq DOMAIN Cases
    BY DEF LoadCases
  <2>2. \A id : PredRow(id, pred[id]).pred = pred[id]
    BY DEF PredRow
  <2>3. DOMAIN answered = LoadCases(only) /\ \A id \in LoadCases(only) : answered[id] = PredRow(id, pred[id])
    OBVIOUS
  <2> HIDE DEF answered
  <2> QED
    BY <2>1, <2>2, <2>3 DEF RowsAre
<1>4. evalRun' = [at |-> "asked", label |-> label, rows |-> answered]
  BY <1>2
<1> HIDE DEF answered
<1>5. RunRight'
  BY <1>3, <1>4 DEF RunRight
<1>6. UNCHANGED <<results, whole>> /\ comparison'.is = "none"
  BY DEF AskCases, NoFile
<1>7. ResultFiles' /\ WholeRight'
  BY <1>6 DEF HomeInv, ResultFiles, WholeRight, RowsOf
<1> QED
  BY <1>5, <1>6, <1>7 DEF HomeInv, ComparisonAddsUp, ReportAgrees

\* The comparison does not change with the files it was made from.
LEMMA ComparisonStays ==
  ASSUME UNCHANGED comparison PROVE ComparisonAddsUp /\ ReportAgrees => ComparisonAddsUp' /\ ReportAgrees'
BY DEF ComparisonAddsUp, ReportAgrees

\* The predictions are on disk and the summary is of another run.
LEMMA PredictionsKeep == ASSUME HomeInv, WritePredictions PROVE HomeInv'
<1>1. /\ evalRun.at = "asked" /\ UNCHANGED comparison /\ whole' = whole \ {evalRun.label}
      /\ results' = [results EXCEPT ![evalRun.label].preds = [is |-> "rows", rows |-> evalRun.rows]]
      /\ evalRun' = [evalRun EXCEPT !.at = "predictions"]
  BY DEF WritePredictions
<1>2. /\ DOMAIN evalRun = {"at", "label", "rows"} /\ evalRun.label \in RunLabels /\ RowsAre(evalRun.rows)
      /\ ResultFiles /\ WholeRight
  <2>1. evalRun # Nobody
    BY <1>1 DEF Nobody
  <2> QED
    BY <2>1 DEF HomeInv, RunRight
<1>3. /\ DOMAIN evalRun' = {"at", "label", "rows"} /\ evalRun'.label = evalRun.label /\ evalRun'.rows = evalRun.rows
  BY <1>1, <1>2
<1>4. /\ DOMAIN results' = RunLabels /\ \A m \in RunLabels : DOMAIN results'[m] = {"preds", "summary"}
      /\ \A m \in RunLabels \ {evalRun.label} : results'[m] = results[m]
      /\ results'[evalRun.label].preds.rows = evalRun.rows
  BY <1>1, <1>2 DEF ResultFiles
<1>5. RunRight'
  BY <1>2, <1>3, <1>4 DEF RunRight, RowsOf
<1>6. ResultFiles' /\ WholeRight'
  BY <1>1, <1>2, <1>4 DEF ResultFiles, WholeRight, RowsOf
<1> QED
  BY <1>1, <1>5, <1>6, ComparisonStays DEF HomeInv

\* Now both files are of one run.
LEMMA SummaryKeeps == ASSUME HomeInv, WriteSummary PROVE HomeInv'
<1>1. /\ evalRun.at = "predictions" /\ UNCHANGED comparison /\ whole' = whole \union {evalRun.label}
      /\ results' = [results EXCEPT ![evalRun.label].summary = Summary(evalRun.rows)]
      /\ evalRun' = Nobody
  BY DEF WriteSummary
<1>2. /\ evalRun.label \in RunLabels /\ RowsAre(evalRun.rows) /\ RowsOf(evalRun.label) = evalRun.rows
      /\ ResultFiles /\ WholeRight
  <2>1. evalRun # Nobody
    BY <1>1 DEF Nobody
  <2> QED
    BY <1>1, <2>1 DEF HomeInv, RunRight
<1>3. /\ DOMAIN results' = RunLabels /\ \A m \in RunLabels : DOMAIN results'[m] = {"preds", "summary"}
      /\ \A m \in RunLabels \ {evalRun.label} : results'[m] = results[m]
      /\ results'[evalRun.label].preds = results[evalRun.label].preds
      /\ results'[evalRun.label].summary = Summary(evalRun.rows)
  BY <1>1, <1>2 DEF ResultFiles
<1>4. RunRight'
  BY <1>1 DEF RunRight, Nobody
<1>5. ResultFiles' /\ WholeRight'
  BY <1>1, <1>2, <1>3 DEF ResultFiles, WholeRight, RowsOf
<1> QED
  BY <1>1, <1>4, <1>5, ComparisonStays DEF HomeInv

\* What the two files of a model say is of one run wherever they are read as such.
THEOREM HomeCorrect == HomeSpec => []HomeInv
<1>1. HomeInit => HomeInv
  BY HomeBegins
<1>2. HomeInv /\ [HomeNext]_homeVars => HomeInv'
  <2>1. SUFFICES ASSUME HomeInv, [HomeNext]_homeVars PROVE HomeInv'
    OBVIOUS
  <2>2. CASE UNCHANGED homeVars
    <3>1. UNCHANGED <<results, evalRun, whole, comparison>>
      BY <2>2 DEF homeVars
    <3> QED
      BY <2>1, <3>1, ComparisonStays DEF HomeInv, RunRight, ResultFiles, WholeRight, RowsOf
  <2>3. CASE EvalKilled
    <3>1. evalRun' = Nobody /\ UNCHANGED <<results, whole, comparison>>
      BY <2>3 DEF EvalKilled
    <3> QED
      BY <2>1, <3>1, ComparisonStays DEF HomeInv, RunRight, ResultFiles, WholeRight, RowsOf
  <2>4. CASE Compare
    <3>1. UNCHANGED <<results, evalRun, whole>> /\ comparison'.is = "comparison"
      BY <2>4 DEF Compare
    <3>2. ComparisonAddsUp' /\ ReportAgrees'
      BY <2>1, <2>4, <3>1, CompareAddsUp DEF HomeInv, ReportAgrees
    <3> QED
      BY <2>1, <3>1, <3>2 DEF HomeInv, RunRight, ResultFiles, WholeRight, RowsOf
  <2>5. CASE Report
    <3>1. UNCHANGED <<results, evalRun, whole>> /\ comparison'.is = "report"
      BY <2>5 DEF Report
    <3>2. ComparisonAddsUp' /\ ReportAgrees'
      BY <2>1, <2>5, <3>1, ReportIsRight DEF HomeInv, ComparisonAddsUp
    <3> QED
      BY <2>1, <3>1, <3>2 DEF HomeInv, RunRight, ResultFiles, WholeRight, RowsOf
  <2> QED
    BY <2>1, <2>2, <2>3, <2>4, <2>5, AskKeeps, PredictionsKeep, SummaryKeeps DEF HomeNext
<1> QED
  BY <1>1, <1>2, PTL DEF HomeSpec

\* The reports of the smart-home evaluation agree, for any cases, homes, models
\* and answers, wherever a run was killed.
THEOREM HomeReportsRight == HomeSpec => []HomeReportsAgree
<1>1. HomeInv => HomeReportsAgree
  <2>1. SUFFICES ASSUME HomeInv PROVE BaselineInOptions
    BY DEF HomeInv, HomeReportsAgree
  <2>2. SUFFICES ASSUME evalRun.at # "idle", NEW id \in DOMAIN evalRun.rows
                 PROVE  evalRun.rows[id].basePred.device \in DeviceOptions(CaseHomes[Cases[id].home])
    BY DEF BaselineInOptions
  <2>3. RowsAre(evalRun.rows)
    BY <2>1, <2>2 DEF HomeInv, RunRight, Nobody
  <2>4. /\ id \in DOMAIN Cases
        /\ evalRun.rows[id].basePred = RuleBaseline(Cases[id].text, CaseHomes[Cases[id].home])
    <3>1. id \in DOMAIN Cases /\ evalRun.rows[id] = PredRow(id, evalRun.rows[id].pred)
      BY <2>2, <2>3 DEF RowsAre
    <3>2. \A p : PredRow(id, p).basePred = RuleBaseline(Cases[id].text, CaseHomes[Cases[id].home])
      BY DEF PredRow
    <3> QED
      BY <3>1, <3>2
  <2>5. DOMAIN CaseHomes[Cases[id].home] \subseteq Nat
    BY <2>4, EvalAssumption
  <2> QED
    BY <2>4, <2>5, BaselineOffered
<1> QED
  BY <1>1, HomeCorrect, PTL

\* What the three evaluations report can be trusted, whichever of them runs.
THEOREM EvaluationsAreHonest == RealSpec /\ HomeSpec /\ RunSpec => []EvaluationsHonest
<1>1. EvaluationHonest /\ HomeReportsAgree /\ GateMonotone => EvaluationsHonest
  BY DEF EvaluationsHonest
<1> QED
  BY <1>1, RealEvaluationHonest, HomeReportsRight, GatesMonotone, PTL

-----------------------------------------------------------------------------
(* SideBySide: places in an order *)

\* The numbers that come before another among finitely many different ones:
\* their number is the place it has, and every place is taken, once.
LEMMA Places ==
  ASSUME NEW n \in Nat, NEW f \in [1..n -> Nat], \A i, j \in 1..n : f[i] = f[j] => i = j
  PROVE  /\ \A i, j \in 1..n : Cardinality({l \in 1..n : f[l] < f[i]}) = Cardinality({l \in 1..n : f[l] < f[j]}) => i = j
         /\ \A k \in 1..n : \E i \in 1..n : Cardinality({l \in 1..n : f[l] < f[i]}) = k - 1
<1> DEFINE Ix == 1..n
           Low(i) == {l \in Ix : f[l] < f[i]}
           P == [i \in Ix |-> Cardinality(Low(i)) + 1]
<1>1. IsFiniteSet(Ix) /\ Cardinality(Ix) = n
  BY FS_Interval
<1>2. \A i \in Ix : f[i] \in Nat
  OBVIOUS
<1>3. \A i \in Ix : /\ IsFiniteSet(Low(i)) /\ Cardinality(Low(i)) \in Nat
                   /\ Cardinality(Low(i)) < n
  <2>1. TAKE i \in Ix
  <2>2. Low(i) \subseteq Ix /\ i \notin Low(i) /\ i \in Ix
    BY <1>2
  <2> HIDE DEF Low, Ix
  <2>3. IsFiniteSet(Low(i)) /\ Cardinality(Low(i)) <= Cardinality(Ix)
        /\ (Cardinality(Ix) = Cardinality(Low(i)) => Ix = Low(i))
    BY <1>1, <2>2, FS_Subset
  <2>4. Cardinality(Low(i)) \in Nat
    BY <2>3, FS_CardinalityType
  <2> QED
    BY <1>1, <2>2, <2>3, <2>4
<1>4. ASSUME NEW i \in Ix, NEW j \in Ix, f[i] < f[j]
      PROVE  Cardinality(Low(i)) < Cardinality(Low(j))
  <2>1. Low(i) \subseteq Low(j)
    <3>1. SUFFICES ASSUME NEW l \in Ix, f[l] < f[i] PROVE f[l] < f[j]
      OBVIOUS
    <3>2. f[l] \in Nat /\ f[i] \in Nat /\ f[j] \in Nat
      BY <1>2
    <3> QED
      BY <1>4, <3>1, <3>2
  <2>2. i \in Low(j) /\ i \notin Low(i)
    BY <1>2, <1>4
  <2> HIDE DEF Low, Ix
  <2>3. Cardinality(Low(i)) <= Cardinality(Low(j))
        /\ (Cardinality(Low(j)) = Cardinality(Low(i)) => Low(j) = Low(i))
    BY <1>3, <2>1, FS_Subset
  <2> QED
    BY <1>3, <2>2, <2>3
<1>5. \A i, j \in Ix : Cardinality(Low(i)) = Cardinality(Low(j)) => i = j
  <2>1. SUFFICES ASSUME NEW i \in Ix, NEW j \in Ix, i # j PROVE Cardinality(Low(i)) # Cardinality(Low(j))
    OBVIOUS
  <2>2. f[i] < f[j] \/ f[j] < f[i]
    <3>1. f[i] \in Nat /\ f[j] \in Nat /\ f[i] # f[j]
      BY <1>2, <2>1
    <3> QED
      BY <3>1
  <2> HIDE DEF Low, Ix
  <2> QED
    BY <1>3, <1>4, <2>2
<1>6. P \in [Ix -> Ix] /\ \A i, j \in Ix : P[i] = P[j] => i = j
  <2>1. \A c \in Nat : c < n => c + 1 \in 1..n
    OBVIOUS
  <2>2. \A c, d \in Nat : c + 1 = d + 1 => c = d
    OBVIOUS
  <2>3. \A i \in Ix : P[i] = Cardinality(Low(i)) + 1
    OBVIOUS
  <2>4. \A i \in Ix : P[i] \in Ix
    <3>1. TAKE i \in Ix
    <3> HIDE DEF Low
    <3> QED
      BY <1>3, <2>1
  <2> HIDE DEF Low
  <2>5. \A i, j \in Ix : P[i] = P[j] => i = j
    <3> HIDE DEF Ix, P
    <3> QED
      BY <1>3, <1>5, <2>2, <2>3
  <2> QED
    BY <2>4, <2>5
<1>7. \A k \in Ix : \E i \in Ix : P[i] = k
  <2> HIDE DEF P, Low, Ix
  <2>1. P \in Injection(Ix, Ix)
    BY <1>6 DEF Injection, IsInjective
  <2>2. P \in Surjection(Ix, Ix)
    BY <1>1, <2>1, FS_Injection
  <2> QED
    BY <2>2 DEF Surjection
<1>8. \A k \in Ix : \E i \in Ix : Cardinality(Low(i)) = k - 1
  <2>1. TAKE k \in Ix
  <2>2. PICK i \in Ix : P[i] = k
    BY <1>7
  <2>3. P[i] = Cardinality(Low(i)) + 1
    OBVIOUS
  <2>4. \A c \in Nat, x \in 1..n : x = c + 1 => c = x - 1
    OBVIOUS
  <2> HIDE DEF Low, P
  <2>5. Cardinality(Low(i)) = k - 1
    BY <1>3, <2>2, <2>3, <2>4
  <2> QED
    BY <2>5
<1> QED
  BY <1>5, <1>8

-----------------------------------------------------------------------------
(* SideBySide: the invariant *)

HomeCall == [by : {"main", "team", "first", "second"}, kind : {"home"}, item : DOMAIN HomeItems, start : Nat]
TeamCall == [by : {"main", "team", "first", "second"}, kind : {"team"}, item : DOMAIN TeamItems, start : Nat]

\* What a row is: the answer to a call.
IsRow(r) ==
  /\ r.start \in Nat /\ r.kind \in {"home", "team"}
  /\ r.kind = "home" => r.item \in DOMAIN HomeItems /\ r.reply \in HomeItems[r.item].replies
  /\ r.kind = "team" => r.item \in DOMAIN TeamItems

SideTypes ==
  /\ scenario \in Mixes
  /\ mainAt \in {"call", "join", "written", "raised"}
  /\ asked \in Nat /\ begun \in Nat
  /\ DOMAIN teamAt = {"at", "made"} /\ teamAt.at \in {"off", "call", "set", "dead"} /\ teamAt.made \in Nat
  /\ inFlight \subseteq HomeCall \union TeamCall
  /\ IsSequence(rows)
  /\ \A i \in DOMAIN rows : IsRow(rows[i])

\* No two calls began at once.
StartsApart ==
  /\ \A c \in inFlight : c.start < begun
  /\ \A i \in DOMAIN rows : rows[i].start < begun
  /\ \A c, d \in inFlight : c.start = d.start => c = d
  /\ \A i, j \in DOMAIN rows : rows[i].start = rows[j].start => i = j
  /\ \A c \in inFlight, i \in DOMAIN rows : c.start # rows[i].start

\* Each thread has one call at a time, and none when the main thread joined.
Callers ==
  /\ scenario \in {"home-alone", "part-alone"} => \A c \in inFlight : c.by = "main"
  /\ scenario = "both" => \A c \in inFlight : c.by \in {"main", "team"}
  /\ \A c, d \in inFlight : c.by = d.by => c = d
  /\ \A c \in inFlight : c.by = "main" => mainAt = "call"
  /\ \A c \in inFlight : c.by = "team" => teamAt.at = "call"
  /\ teamAt.at = "off" <=> scenario # "both"
  /\ mainAt \in {"join", "written"} => inFlight = {} /\ teamAt.at \in {"off", "set"}

\* Alone: what has been asked is a row or in flight, unless the thread raised.
AloneRight(kind, n) ==
  /\ begun = asked /\ asked <= n
  /\ \A c \in inFlight : c.kind = kind /\ c.item = c.start + 1
  /\ \A i \in DOMAIN rows : rows[i].kind = kind /\ rows[i].item = rows[i].start + 1
  /\ mainAt # "raised" =>
       \A k \in 1..asked : (\E i \in DOMAIN rows : rows[i].item = k) \/ (\E c \in inFlight : c.item = k)
  /\ mainAt \in {"join", "written"} => asked = n

\* Beside: the same of the decisions of the team thread.
BesideRight ==
  /\ teamAt.made <= Len(TeamItems)
  /\ \A c \in inFlight : c.kind = "team" <=> c.by = "team"
  /\ \A c \in inFlight : c.kind = "team" => c.item = teamAt.made
  /\ \A i \in DOMAIN rows : rows[i].kind = "team" =>
       /\ rows[i].item <= teamAt.made
       /\ \A c \in inFlight : c.kind = "team" => rows[i].item < c.item
  /\ \A i, j \in DOMAIN rows :
       rows[i].kind = "team" /\ rows[j].kind = "team" /\ rows[i].item = rows[j].item => i = j
  /\ teamAt.at # "dead" =>
       \A k \in 1..teamAt.made : \/ \E i \in DOMAIN rows : rows[i].kind = "team" /\ rows[i].item = k
                                 \/ \E c \in inFlight : c.kind = "team" /\ c.item = k
  /\ teamAt.at = "set" => teamAt.made = Len(TeamItems)

\* The file is the rows in their order.
WrittenRight ==
  /\ mainAt # "written" => outcomes = <<>>
  /\ mainAt = "written" => outcomes = [k \in DOMAIN rows |-> [row |-> Nth(k), outcome |-> Outcome(Nth(k))]]

SideInv ==
  /\ SideTypes /\ StartsApart /\ Callers /\ WrittenRight
  /\ scenario = "home-alone" => AloneRight("home", Len(HomeItems))
  /\ scenario = "part-alone" => AloneRight("team", Len(TeamItems))
  /\ scenario = "both" => BesideRight

\* Nothing has been asked.
LEMMA SideBegins == SideInit => SideInv
<1>1. SUFFICES ASSUME SideInit PROVE SideInv
  OBVIOUS
<1>2. SideTypes /\ StartsApart /\ Callers /\ WrittenRight
  <2>1. rows = <<>> /\ DOMAIN rows = {} /\ IsSequence(rows)
    <3>1. <<>> \in Seq({})
      OBVIOUS
    <3>2. IsSequence(<<>>)
      BY <3>1, SequenceIs
    <3> QED
      BY <1>1, <3>2 DEF SideInit
  <2> QED
    BY <1>1, <2>1 DEF SideInit, SideTypes, StartsApart, Callers, WrittenRight, Mixes
<1>3. \A kind : \A n \in Nat : AloneRight(kind, n)
  BY <1>1 DEF SideInit, AloneRight
<1>4. scenario = "both" => BesideRight
  BY <1>1, SideAssumption DEF SideInit, BesideRight
<1> QED
  BY <1>2, <1>3, <1>4, SideAssumption DEF SideInv

\* Standing still changes nothing.
LEMMA SideStutters == SideInv /\ UNCHANGED sideVars => SideInv'
<1>1. SUFFICES ASSUME SideInv, UNCHANGED sideVars PROVE SideInv'
  OBVIOUS
<1>2. SideTypes' /\ StartsApart' /\ Callers'
  BY <1>1 DEF SideInv, sideVars, SideTypes, StartsApart, Callers, IsRow, IsSequence, ToSet
<1>3. (\A kind, n : AloneRight(kind, n) => AloneRight(kind, n)') /\ (BesideRight => BesideRight')
  BY <1>1 DEF sideVars, AloneRight, BesideRight
<1>4. WrittenRight'
  <2>1. \A k : Nth(k)' = Nth(k)
    BY <1>1 DEF Nth, StartedBefore, sideVars
  <2> QED
    BY <1>1, <2>1 DEF SideInv, sideVars, WrittenRight, Outcome
<1> QED
  BY <1>1, <1>2, <1>3, <1>4 DEF SideInv, sideVars

-----------------------------------------------------------------------------
(* SideBySide: calls end *)

\* An answered call is a row.
LEMMA ReplyKeeps == SideInv /\ Reply => SideInv'
<1>1. SUFFICES ASSUME SideInv, Reply PROVE SideInv'
  OBVIOUS
<1>2. PICK c \in inFlight :
        \E reply \in IF c.kind = "home" THEN HomeItems[c.item].replies ELSE TeamItems[c.item].replies :
          /\ rows' = Append(rows, [kind |-> c.kind, item |-> c.item, start |-> c.start, reply |-> reply])
          /\ inFlight' = inFlight \ {c}
          /\ UNCHANGED <<scenario, mainAt, asked, teamAt, begun, outcomes>>
  BY <1>1 DEF Reply
<1>3. PICK r : /\ r.kind = c.kind /\ r.item = c.item /\ r.start = c.start /\ IsRow(r)
               /\ rows' = Append(rows, r) /\ inFlight' = inFlight \ {c}
               /\ UNCHANGED <<scenario, mainAt, asked, teamAt, begun, outcomes>>
  <2>1. PICK reply \in IF c.kind = "home" THEN HomeItems[c.item].replies ELSE TeamItems[c.item].replies :
          /\ rows' = Append(rows, [kind |-> c.kind, item |-> c.item, start |-> c.start, reply |-> reply])
          /\ inFlight' = inFlight \ {c}
          /\ UNCHANGED <<scenario, mainAt, asked, teamAt, begun, outcomes>>
    BY <1>2
  <2>2. c \in HomeCall \union TeamCall
    BY <1>1 DEF SideInv, SideTypes
  <2>3. IsRow([kind |-> c.kind, item |-> c.item, start |-> c.start, reply |-> reply])
    BY <2>1, <2>2 DEF IsRow, HomeCall, TeamCall
  <2> QED
    BY <2>1, <2>3
<1> DEFINE n == Len(rows)
<1>4. /\ IsSequence(rows) /\ IsSequence(rows') /\ n \in Nat /\ DOMAIN rows = 1..n
      /\ DOMAIN rows' = 1..(n + 1) /\ rows'[n + 1] = r
      /\ \A i \in 1..n : rows'[i] = rows[i]
  BY <1>1, <1>3, AppendedIs DEF SideInv, SideTypes
<1>5. PICK m : m \notin DOMAIN rows /\ DOMAIN rows' = DOMAIN rows \union {m} /\ rows'[m] = r
               /\ \A i \in DOMAIN rows : rows'[i] = rows[i]
  <2>1. n + 1 \notin 1..n /\ 1..(n + 1) = 1..n \union {n + 1}
    BY <1>4
  <2> QED
    BY <1>4, <2>1
<1>6. SideTypes'
  BY <1>1, <1>3, <1>4, <1>5 DEF SideInv, SideTypes
<1>7. StartsApart'
  BY <1>1, <1>3, <1>5 DEF SideInv, StartsApart
<1>8. Callers'
  BY <1>1, <1>3 DEF SideInv, Callers
<1>9. mainAt \notin {"join", "written"}
  BY <1>1 DEF SideInv, Callers
<1>10. WrittenRight'
  BY <1>1, <1>3, <1>9 DEF SideInv, WrittenRight
<1>11. ASSUME NEW kind, NEW k \in Nat, AloneRight(kind, k) PROVE AloneRight(kind, k)'
  BY <1>3, <1>5, <1>9, <1>11 DEF AloneRight
<1>12. ASSUME BesideRight PROVE BesideRight'
  <2>1. \A d \in inFlight' : d \in inFlight /\ d # c
    BY <1>3
  <2>2. r.kind = "team" => \A d \in inFlight' : d.kind # "team"
    <3>1. \A d \in inFlight : c.by = d.by => c = d
      BY <1>1 DEF SideInv, Callers
    <3>2. \A d \in inFlight : d.kind = "team" => d.by = "team"
      BY <1>12 DEF BesideRight
    <3>3. c \in inFlight /\ r.kind = c.kind
      BY <1>3
    <3> QED
      BY <2>1, <3>1, <3>2, <3>3
  <2>3. r.kind = "team" => r.item = teamAt.made /\ \A i \in DOMAIN rows : rows[i].kind = "team" => rows[i].item < r.item
    BY <1>3, <1>12 DEF BesideRight
  <2>4. teamAt.made \in Nat /\ \A i \in DOMAIN rows : rows[i].kind = "team" => rows[i].item \in Nat
    BY <1>1, SideAssumption DEF SideInv, SideTypes, IsRow
  <2>5. \A i \in DOMAIN rows' : rows'[i].kind = "team" =>
          rows'[i].item <= teamAt.made /\ \A d \in inFlight' : d.kind = "team" => rows'[i].item < d.item
    BY <1>5, <1>12, <2>1, <2>2, <2>3, <2>4 DEF BesideRight
  <2>6. \A i, j \in DOMAIN rows' :
          rows'[i].kind = "team" /\ rows'[j].kind = "team" /\ rows'[i].item = rows'[j].item => i = j
    BY <1>5, <1>12, <2>3, <2>4 DEF BesideRight
  <2>7. teamAt.at # "dead" =>
          \A k \in 1..teamAt.made : \/ \E i \in DOMAIN rows' : rows'[i].kind = "team" /\ rows'[i].item = k
                                    \/ \E d \in inFlight' : d.kind = "team" /\ d.item = k
    <3>1. SUFFICES ASSUME teamAt.at # "dead", NEW k \in 1..teamAt.made,
                          ~ \E d \in inFlight' : d.kind = "team" /\ d.item = k
                   PROVE  \E i \in DOMAIN rows' : rows'[i].kind = "team" /\ rows'[i].item = k
      OBVIOUS
    <3>2. CASE \E i \in DOMAIN rows : rows[i].kind = "team" /\ rows[i].item = k
      BY <1>5, <3>2
    <3>3. CASE \E d \in inFlight : d.kind = "team" /\ d.item = k
      BY <1>3, <1>5, <3>1, <3>3
    <3> QED
      BY <1>12, <3>1, <3>2, <3>3 DEF BesideRight
  <2> QED
    BY <1>3, <1>12, <2>1, <2>5, <2>6, <2>7 DEF BesideRight
<1> QED
  BY <1>1, <1>3, <1>6, <1>7, <1>8, <1>10, <1>11, <1>12, SideAssumption DEF SideInv

\* A call that raises ends its thread.
LEMMA RaiseKeeps == SideInv /\ CallRaises => SideInv'
<1>1. SUFFICES ASSUME SideInv, CallRaises PROVE SideInv'
  OBVIOUS
<1>2. PICK c \in inFlight :
        /\ inFlight' = inFlight \ {c}
        /\ mainAt' = IF c.by = "main" THEN "raised" ELSE mainAt
        /\ teamAt' = IF c.by = "team" THEN [teamAt EXCEPT !.at = "dead"] ELSE teamAt
        /\ UNCHANGED <<scenario, asked, begun, rows, outcomes>>
  BY <1>1 DEF CallRaises
<1>3. /\ DOMAIN teamAt' = {"at", "made"} /\ teamAt'.made = teamAt.made
      /\ teamAt'.at = IF c.by = "team" THEN "dead" ELSE teamAt.at
  BY <1>1, <1>2 DEF SideInv, SideTypes
<1>4. SideTypes'
  BY <1>1, <1>2, <1>3 DEF SideInv, SideTypes, IsSequence, ToSet
<1>5. StartsApart'
  BY <1>1, <1>2 DEF SideInv, StartsApart
<1>6. Callers'
  BY <1>1, <1>2, <1>3 DEF SideInv, Callers
<1>7. mainAt \notin {"join", "written"}
  BY <1>1 DEF SideInv, Callers
<1>8. WrittenRight'
  BY <1>1, <1>2, <1>7 DEF SideInv, WrittenRight
<1>9. ASSUME NEW kind, NEW k \in Nat, AloneRight(kind, k), \A d \in inFlight : d.by = "main" PROVE AloneRight(kind, k)'
  BY <1>2, <1>7, <1>9 DEF AloneRight
<1>10. ASSUME BesideRight PROVE BesideRight'
  BY <1>2, <1>3, <1>10 DEF BesideRight
<1> QED
  BY <1>1, <1>2, <1>4, <1>5, <1>6, <1>8, <1>9, <1>10, SideAssumption DEF SideInv, Callers

-----------------------------------------------------------------------------
(* SideBySide: calls begin *)

\* A call of the main thread, one after the other, and the end of the list.
LEMMA AloneKeeps == SideInv /\ Alone => SideInv'
<1>1. SUFFICES ASSUME SideInv, Alone PROVE SideInv'
  OBVIOUS
<1>2. PICK kind, n : /\ n \in Nat /\ AloneRight(kind, n)
                     /\ \/ scenario = "home-alone" /\ kind = "home" /\ n = Len(HomeItems)
                        \/ scenario = "part-alone" /\ kind = "team" /\ n = Len(TeamItems)
                     /\ IF asked = n THEN mainAt' = "join" /\ UNCHANGED <<inFlight, begun, asked>>
                        ELSE /\ inFlight' = inFlight \union {CallOf("main", kind, asked + 1, begun)}
                             /\ begun' = begun + 1 /\ asked' = asked + 1 /\ UNCHANGED mainAt
  <2>1. CASE scenario = "home-alone"
    BY <1>1, <2>1, SideAssumption DEF Alone, SideInv
  <2>2. CASE scenario = "part-alone"
    BY <1>1, <2>2, SideAssumption DEF Alone, SideInv
  <2> QED
    BY <1>1, <2>1, <2>2 DEF Alone
<1>3. /\ mainAt = "call" /\ OfMain = {} /\ UNCHANGED <<scenario, teamAt, rows, outcomes>>
      /\ inFlight = {} /\ scenario # "both"
      /\ asked \in Nat /\ begun \in Nat /\ begun = asked /\ asked <= n
  <2>1. \A c \in inFlight : c.by = "main"
    BY <1>1, <1>2 DEF SideInv, Callers
  <2> QED
    BY <1>1, <1>2, <2>1 DEF Alone, OfMain, SideInv, SideTypes, AloneRight
<1> DEFINE c == CallOf("main", kind, asked + 1, begun)
<1>4. c.by = "main" /\ c.kind = kind /\ c.item = asked + 1 /\ c.start = begun
  BY DEF CallOf
<1>5. CASE asked = n
  <2>1. mainAt' = "join" /\ UNCHANGED <<inFlight, begun, asked, scenario, teamAt, rows, outcomes>>
    BY <1>2, <1>3, <1>5
  <2>2. SideTypes' /\ StartsApart'
    BY <1>1, <2>1 DEF SideInv, SideTypes, StartsApart, IsSequence, ToSet
  <2>3. Callers' /\ WrittenRight'
    BY <1>1, <1>3, <2>1 DEF SideInv, SideTypes, Callers, WrittenRight
  <2>4. AloneRight(kind, n)'
    BY <1>2, <1>3, <1>5, <2>1 DEF AloneRight
  <2> QED
    BY <1>2, <1>3, <2>1, <2>2, <2>3, <2>4 DEF SideInv
<1>6. CASE asked # n
  <2>1. /\ inFlight' = {c} /\ begun' = begun + 1 /\ asked' = asked + 1
        /\ UNCHANGED <<mainAt, scenario, teamAt, rows, outcomes>>
    BY <1>2, <1>3, <1>6
  <2>2. c \in HomeCall \union TeamCall
    <3>1. asked + 1 \in 1..n
      BY <1>2, <1>3, <1>6
    <3>2. \/ kind = "home" /\ asked + 1 \in DOMAIN HomeItems
          \/ kind = "team" /\ asked + 1 \in DOMAIN TeamItems
      BY <1>2, <3>1, SideAssumption
    <3> QED
      BY <1>3, <3>2 DEF CallOf, HomeCall, TeamCall
  <2> HIDE DEF c
  <2>3. SideTypes'
    BY <1>1, <1>3, <2>1, <2>2 DEF SideInv, SideTypes, IsSequence, ToSet
  <2>4. StartsApart'
    <3>1. \A i \in DOMAIN rows : rows[i].start < begun /\ rows[i].start \in Nat
      BY <1>1 DEF SideInv, SideTypes, StartsApart, IsRow
    <3>2. \A i \in DOMAIN rows : rows[i].start < begun + 1 /\ rows[i].start # begun
      BY <1>3, <3>1
    <3>3. begun < begun + 1
      BY <1>3
    <3> QED
      BY <1>1, <1>4, <2>1, <3>2, <3>3 DEF SideInv, StartsApart
  <2>5. Callers' /\ WrittenRight'
    <3>1. WrittenRight'
      BY <1>1, <1>3, <2>1 DEF SideInv, WrittenRight
    <3>2. teamAt.at = "off"
      BY <1>1, <1>3 DEF SideInv, Callers
    <3>3. \A d \in inFlight' : d = c
      BY <2>1
    <3> QED
      BY <1>3, <1>4, <2>1, <3>1, <3>2, <3>3 DEF Callers
  <2>6. AloneRight(kind, n)'
    <3>1. asked + 1 <= n /\ (\A k \in 1..(asked + 1) : k \in 1..asked \/ k = asked + 1)
      BY <1>2, <1>3, <1>6
    <3>2. \A k \in 1..asked : \E i \in DOMAIN rows : rows[i].item = k
      BY <1>2, <1>3 DEF AloneRight
    <3> QED
      BY <1>2, <1>3, <1>4, <2>1, <3>1, <3>2 DEF AloneRight
  <2> QED
    BY <1>2, <1>3, <2>1, <2>3, <2>4, <2>5, <2>6 DEF SideInv
<1> QED
  BY <1>5, <1>6

\* Which of the items comes next when they are taken over and over.
LEMMA RoundIsItem ==
  /\ \A n \in Nat : Round(n, HomeItems) \in DOMAIN HomeItems
  /\ \A n \in Nat : Round(n, TeamItems) \in DOMAIN TeamItems
<1>1. \A n \in Nat, l \in Nat \ {0} : (n % l) + 1 \in 1..l
  OBVIOUS
<1> QED
  BY <1>1, SideAssumption DEF Round

\* New calls of threads that have none, each with the next start.
LEMMA CallsBegin ==
  ASSUME SideInv, NEW new, new \subseteq HomeCall \union TeamCall, begun' \in Nat,
         inFlight' = inFlight \union new, UNCHANGED <<scenario, rows, outcomes>>, mainAt' = mainAt, mainAt = "call",
         asked' \in Nat, DOMAIN teamAt' = {"at", "made"}, teamAt'.at = teamAt.at, teamAt'.made \in Nat,
         begun <= begun',
         \A c \in new : c.start >= begun /\ c.start < begun',
         \A c, d \in new : c.start = d.start => c = d,
         \A c, d \in new : c.by = d.by => c = d,
         \A c \in new, d \in inFlight : c.by # d.by,
         \A c \in new : c.by = "team" => teamAt.at = "call",
         scenario \in {"home-alone", "part-alone"} => \A c \in new : c.by = "main",
         scenario = "both" => \A c \in new : c.by \in {"main", "team"}
  PROVE  SideTypes' /\ StartsApart' /\ Callers' /\ WrittenRight'
<1>1. SideTypes'
  BY DEF SideInv, SideTypes, IsSequence, ToSet
<1>2. /\ begun \in Nat /\ begun' \in Nat
      /\ \A c \in inFlight : c.start \in Nat /\ c.start < begun
      /\ \A c \in new : c.start \in Nat
      /\ \A i \in DOMAIN rows : rows[i].start \in Nat /\ rows[i].start < begun
  BY DEF SideInv, SideTypes, StartsApart, IsRow, HomeCall, TeamCall
<1>3. \A x \in Nat : x < begun => x < begun' /\ \A c \in new : c.start # x
  BY <1>2
<1>4. StartsApart'
  <2>1. \A c \in inFlight' : c.start < begun'
    BY <1>2, <1>3
  <2>2. \A i \in DOMAIN rows' : rows'[i].start < begun'
    BY <1>2, <1>3
  <2>3. \A c, d \in inFlight' : c.start = d.start => c = d
    BY <1>2, <1>3 DEF SideInv, StartsApart
  <2>4. \A c \in inFlight', i \in DOMAIN rows' : c.start # rows'[i].start
    BY <1>2, <1>3 DEF SideInv, StartsApart
  <2> QED
    BY <2>1, <2>2, <2>3, <2>4 DEF SideInv, StartsApart
<1>5. Callers'
  <2>1. \A c, d \in inFlight' : c.by = d.by => c = d
    BY DEF SideInv, Callers
  <2> QED
    BY <2>1 DEF SideInv, Callers
<1>6. WrittenRight'
  BY DEF SideInv, WrittenRight
<1> QED
  BY <1>1, <1>4, <1>5, <1>6

\* A decision of the team thread begins, or the thread is done.
LEMMA TeamKeeps == SideInv /\ Team => SideInv'
<1>1. SUFFICES ASSUME SideInv, Team PROVE SideInv'
  OBVIOUS
<1>2. /\ teamAt.at = "call" /\ (\A c \in inFlight : c.by # "team")
      /\ UNCHANGED <<scenario, mainAt, asked, rows, outcomes>>
      /\ scenario = "both" /\ BesideRight /\ mainAt \notin {"join", "written"}
      /\ teamAt.made \in Nat /\ DOMAIN teamAt = {"at", "made"} /\ begun \in Nat
  <2>1. /\ teamAt.at = "call" /\ {c \in inFlight : c.by = "team"} = {}
        /\ UNCHANGED <<scenario, mainAt, asked, rows, outcomes>>
    BY <1>1 DEF Team
  <2> QED
    BY <1>1, <2>1 DEF SideInv, SideTypes, Callers
<1>3. CASE teamAt.made = Len(TeamItems)
  <2>1. teamAt' = [teamAt EXCEPT !.at = "set"] /\ UNCHANGED <<inFlight, begun>>
    BY <1>1, <1>3 DEF Team
  <2>2. DOMAIN teamAt' = {"at", "made"} /\ teamAt'.at = "set" /\ teamAt'.made = teamAt.made
    BY <1>2, <2>1
  <2>3. SideTypes' /\ StartsApart'
    BY <1>1, <1>2, <2>1, <2>2 DEF SideInv, SideTypes, StartsApart, IsSequence, ToSet
  <2>4. Callers' /\ WrittenRight'
    BY <1>1, <1>2, <2>1, <2>2 DEF SideInv, Callers, WrittenRight
  <2>5. BesideRight'
    BY <1>2, <1>3, <2>1, <2>2 DEF BesideRight
  <2> QED
    BY <1>2, <2>3, <2>4, <2>5 DEF SideInv
<1>4. CASE teamAt.made # Len(TeamItems)
  <2> DEFINE c == CallOf("team", "team", teamAt.made + 1, begun)
  <2>1. inFlight' = inFlight \union {c} /\ begun' = begun + 1 /\ teamAt' = [teamAt EXCEPT !.made = @ + 1]
    BY <1>1, <1>4 DEF Team
  <2>2. DOMAIN teamAt' = {"at", "made"} /\ teamAt'.at = teamAt.at /\ teamAt'.made = teamAt.made + 1
    BY <1>2, <2>1
  <2>3. c.by = "team" /\ c.kind = "team" /\ c.item = teamAt.made + 1 /\ c.start = begun
    BY DEF CallOf
  <2>4. teamAt.made <= Len(TeamItems)
    BY <1>2 DEF BesideRight
  <2>5. c \in HomeCall \union TeamCall
    <3>1. teamAt.made + 1 \in DOMAIN TeamItems
      BY <1>2, <1>4, <2>4, SideAssumption
    <3> QED
      BY <1>2, <3>1 DEF CallOf, TeamCall
  <2> HIDE DEF c
  <2>6. begun' \in Nat /\ begun <= begun' /\ begun < begun' /\ teamAt'.made \in Nat
    BY <1>2, <2>1, <2>2
  <2>7. SideTypes' /\ StartsApart'
    <3>1. SideTypes'
      BY <1>1, <1>2, <2>1, <2>2, <2>5, <2>6 DEF SideInv, SideTypes, IsSequence, ToSet
    <3>2. /\ \A d \in inFlight : d.start \in Nat /\ d.start < begun
          /\ \A i \in DOMAIN rows : rows[i].start \in Nat /\ rows[i].start < begun
      BY <1>1 DEF SideInv, SideTypes, StartsApart, IsRow, HomeCall, TeamCall
    <3>3. \A x \in Nat : x < begun => x < begun' /\ x # begun
      BY <1>2, <2>1
    <3> QED
      BY <1>1, <1>2, <2>1, <2>3, <2>6, <3>1, <3>2, <3>3 DEF SideInv, StartsApart
  <2>8. Callers'
    BY <1>1, <1>2, <2>1, <2>2, <2>3 DEF SideInv, Callers
  <2>9. WrittenRight'
    BY <1>1, <1>2 DEF SideInv, WrittenRight
  <2>10. BesideRight'
    <3>1. \A d \in inFlight : d.kind # "team"
      BY <1>2 DEF BesideRight
    <3>2. /\ teamAt.made + 1 <= Len(TeamItems)
          /\ \A k \in 1..(teamAt.made + 1) : k \in 1..teamAt.made \/ k = teamAt.made + 1
      BY <1>2, <1>4, <2>4, SideAssumption
    <3>3. \A x \in Nat : x <= teamAt.made => x <= teamAt.made + 1 /\ x < teamAt.made + 1
      BY <1>2
    <3>4. \A i \in DOMAIN rows : rows[i].kind = "team" => rows[i].item \in Nat
      BY <1>1, SideAssumption DEF SideInv, SideTypes, IsRow
    <3>5. \A d \in inFlight' : d.kind = "team" => d = c
      BY <2>1, <3>1
    <3>6. \A i \in DOMAIN rows' : rows'[i].kind = "team" =>
            rows'[i].item <= teamAt'.made /\ \A d \in inFlight' : d.kind = "team" => rows'[i].item < d.item
      BY <1>2, <2>2, <2>3, <3>3, <3>4, <3>5 DEF BesideRight
    <3>7. \A k \in 1..teamAt'.made : \/ \E i \in DOMAIN rows' : rows'[i].kind = "team" /\ rows'[i].item = k
                                     \/ \E d \in inFlight' : d.kind = "team" /\ d.item = k
      BY <1>2, <2>1, <2>2, <2>3, <3>1, <3>2 DEF BesideRight
    <3>8. \A d \in inFlight' : (d.kind = "team" <=> d.by = "team") /\ (d.kind = "team" => d.item = teamAt'.made)
      BY <1>2, <2>1, <2>2, <2>3, <3>5 DEF BesideRight
    <3>9. teamAt'.made <= Len(TeamItems) /\ teamAt'.at # "set"
      BY <1>2, <2>2, <3>2
    <3> QED
      BY <1>2, <3>6, <3>7, <3>8, <3>9 DEF BesideRight
  <2> QED
    BY <1>2, <2>7, <2>8, <2>9, <2>10 DEF SideInv
<1> QED
  BY <1>3, <1>4

\* A home call beside the team thread, or the end of both.
LEMMA MainKeeps == SideInv /\ Beside => SideInv'
<1>1. SUFFICES ASSUME SideInv, Beside PROVE SideInv'
  OBVIOUS
<1>2. /\ scenario = "both" /\ mainAt = "call" /\ (\A c \in inFlight : c.by # "main")
      /\ UNCHANGED <<scenario, teamAt, rows, outcomes>> /\ BesideRight
      /\ asked \in Nat /\ begun \in Nat /\ DOMAIN teamAt = {"at", "made"} /\ teamAt.made \in Nat
  <2>1. OfMain = {}
    BY <1>1 DEF Beside
  <2>2. \A c \in inFlight : c.by # "main"
    BY <2>1 DEF OfMain
  <2> QED
    BY <1>1, <2>2 DEF Beside, SideInv, SideTypes
<1>3. CASE teamAt.at = "set"
  <2>1. mainAt' = "join" /\ UNCHANGED <<inFlight, begun, asked>>
    BY <1>1, <1>3 DEF Beside
  <2>2. inFlight = {}
    <3>1. \A c \in inFlight : c.by \in {"main", "team"} /\ (c.by = "team" => teamAt.at = "call")
      BY <1>1, <1>2 DEF SideInv, Callers
    <3> QED
      BY <1>2, <1>3, <3>1
  <2>3. SideTypes' /\ StartsApart'
    BY <1>1, <1>2, <2>1 DEF SideInv, SideTypes, StartsApart, IsSequence, ToSet
  <2>4. Callers' /\ WrittenRight'
    BY <1>1, <1>2, <1>3, <2>1, <2>2 DEF SideInv, Callers, WrittenRight
  <2>5. BesideRight'
    BY <1>2, <2>1 DEF BesideRight
  <2> QED
    BY <1>2, <2>3, <2>4, <2>5 DEF SideInv
<1>4. CASE teamAt.at # "set"
  <2> DEFINE c == CallOf("main", "home", Round(asked, HomeItems), begun)
  <2>1. inFlight' = inFlight \union {c} /\ begun' = begun + 1 /\ asked' = asked + 1 /\ UNCHANGED mainAt
    BY <1>1, <1>4 DEF Beside
  <2>2. c.by = "main" /\ c.kind = "home" /\ c.start = begun
    BY DEF CallOf
  <2>3. c \in HomeCall \union TeamCall
    BY <1>2, RoundIsItem DEF CallOf, HomeCall
  <2> HIDE DEF c
  <2>4. /\ begun' \in Nat /\ begun <= begun' /\ begun < begun' /\ begun >= begun
        /\ asked' \in Nat
    BY <1>2, <2>1
  <2>5. SideTypes' /\ StartsApart' /\ Callers' /\ WrittenRight'
    <3> DEFINE new == {c}
    <3>1. new \subseteq HomeCall \union TeamCall /\ inFlight' = inFlight \union new
      BY <2>1, <2>3
    <3>2. /\ \A d \in new : d.start >= begun /\ d.start < begun'
          /\ \A d, e \in new : d.start = e.start => d = e
          /\ \A d, e \in new : d.by = e.by => d = e
          /\ \A d \in new, e \in inFlight : d.by # e.by
          /\ \A d \in new : d.by = "main"
      BY <1>2, <2>2, <2>4
    <3> HIDE DEF new
    <3> QED
      BY <1>1, <1>2, <2>1, <2>4, <3>1, <3>2, CallsBegin
  <2>6. BesideRight'
    BY <1>2, <2>1, <2>2 DEF BesideRight
  <2> QED
    BY <1>2, <2>5, <2>6 DEF SideInv
<1> QED
  BY <1>3, <1>4

\* Two calls begin together, when those of the pair before have ended.
LEMMA PairKeeps == SideInv /\ Pair => SideInv'
<1>1. SUFFICES ASSUME SideInv, Pair PROVE SideInv'
  OBVIOUS
<1>2. /\ scenario \in {"collide", "home-collide"} /\ mainAt = "call" /\ inFlight = {}
      /\ UNCHANGED <<scenario, teamAt, rows, outcomes>>
      /\ asked \in Nat /\ begun \in Nat /\ DOMAIN teamAt = {"at", "made"} /\ teamAt.made \in Nat
  BY <1>1 DEF Pair, Colliding, SideInv, SideTypes
<1>3. CASE asked = Pairs
  <2>1. mainAt' = "join" /\ UNCHANGED <<inFlight, begun, asked>>
    BY <1>1, <1>3 DEF Pair
  <2>2. SideTypes' /\ StartsApart'
    BY <1>1, <1>2, <2>1 DEF SideInv, SideTypes, StartsApart, IsSequence, ToSet
  <2>3. Callers' /\ WrittenRight'
    BY <1>1, <1>2, <2>1 DEF SideInv, Callers, WrittenRight
  <2> QED
    BY <1>2, <2>2, <2>3 DEF SideInv
<1>4. CASE asked # Pairs
  <2>1. PICK c, d : /\ c \in HomeCall \union TeamCall /\ d \in HomeCall \union TeamCall
                    /\ c.by = "first" /\ d.by = "second" /\ c.start = begun /\ d.start = begun + 1
                    /\ inFlight' = inFlight \union {c, d}
                    /\ begun' = begun + 2 /\ asked' = asked + 1 /\ UNCHANGED mainAt
    <3> DEFINE step == Len(TeamItems) \div Pairs
               turn == asked * (IF step = 0 THEN 1 ELSE step)
               first == CallOf("first", "home", Round(asked, HomeItems), begun)
               twin == CallOf("second", "home", Round(asked + 1, HomeItems), begun + 1)
               other == CallOf("second", "team", Round(turn, TeamItems), begun + 1)
    <3>1. first \in HomeCall
      BY <1>2, RoundIsItem DEF CallOf, HomeCall
    <3>2. twin \in HomeCall
      <4>1. asked + 1 \in Nat /\ begun + 1 \in Nat
        BY <1>2
      <4> QED
        BY <4>1, RoundIsItem DEF CallOf, HomeCall
    <3>3. other \in TeamCall
      <4>1. step \in Nat
        BY SideAssumption
      <4>2. turn \in Nat /\ begun + 1 \in Nat
        BY <1>2, <4>1
      <4> HIDE DEF turn
      <4> QED
        BY <4>2, RoundIsItem DEF CallOf, TeamCall
    <3>4. \E e \in {twin, other} :
            /\ inFlight' = inFlight \union {first, e}
            /\ begun' = begun + 2 /\ asked' = asked + 1 /\ UNCHANGED mainAt
      BY <1>1, <1>4 DEF Pair
    <3>5. /\ first.by = "first" /\ first.start = begun
          /\ \A e \in {twin, other} : e.by = "second" /\ e.start = begun + 1
      BY DEF CallOf
    <3> HIDE DEF first, twin, other
    <3> QED
      BY <3>1, <3>2, <3>3, <3>4, <3>5
  <2> DEFINE new == {c, d}
  <2>2. /\ begun' \in Nat /\ begun <= begun' /\ asked' \in Nat
        /\ begun < begun' /\ begun + 1 < begun' /\ begun >= begun /\ begun + 1 >= begun /\ begun # begun + 1
    BY <1>2, <2>1
  <2>3. /\ new \subseteq HomeCall \union TeamCall /\ inFlight' = inFlight \union new
        /\ \A e \in new : e.start >= begun /\ e.start < begun'
        /\ \A e, f \in new : e.start = f.start => e = f
        /\ \A e, f \in new : e.by = f.by => e = f
        /\ \A e \in new, f \in inFlight : e.by # f.by
        /\ \A e \in new : e.by # "team"
    BY <1>2, <2>1, <2>2
  <2> HIDE DEF new
  <2>4. SideTypes' /\ StartsApart' /\ Callers' /\ WrittenRight'
    BY <1>1, <1>2, <2>1, <2>2, <2>3, CallsBegin
  <2> QED
    BY <1>2, <2>4 DEF SideInv
<1> QED
  BY <1>3, <1>4

\* The file is written when every thread has been joined.
LEMMA WriteRowsKeeps == SideInv /\ WriteRows => SideInv'
<1>1. SUFFICES ASSUME SideInv, WriteRows PROVE SideInv'
  OBVIOUS
<1>2. /\ mainAt = "join" /\ mainAt' = "written" /\ UNCHANGED <<scenario, asked, teamAt, inFlight, begun, rows>>
      /\ outcomes' = [k \in DOMAIN rows |-> [row |-> Nth(k), outcome |-> Outcome(Nth(k))]]
  BY <1>1 DEF WriteRows
<1>3. SideTypes' /\ StartsApart'
  BY <1>1, <1>2 DEF SideInv, SideTypes, StartsApart, IsSequence, ToSet
<1>4. Callers'
  BY <1>1, <1>2 DEF SideInv, Callers
<1>5. WrittenRight'
  <2>1. \A k : Nth(k)' = Nth(k)
    BY <1>2 DEF Nth, StartedBefore
  <2> QED
    BY <1>2, <2>1 DEF WrittenRight, Outcome
<1>6. (\A kind, n : AloneRight(kind, n) => AloneRight(kind, n)') /\ (BesideRight => BesideRight')
  BY <1>2 DEF AloneRight, BesideRight
<1> QED
  BY <1>1, <1>2, <1>3, <1>4, <1>5, <1>6 DEF SideInv

\* The invariant of the measurement, for any items, replies and scenario: a call
\* that was begun is a row, is in flight or ended its thread.
THEOREM SideCorrect == SideSpec => []SideInv
<1>1. SideInv /\ [SideNext]_sideVars => SideInv'
  BY SideStutters, ReplyKeeps, RaiseKeeps, AloneKeeps, TeamKeeps, MainKeeps, PairKeeps, WriteRowsKeeps DEF SideNext
<1> QED
  BY <1>1, SideBegins, PTL DEF SideSpec

\* Every row is in the file, once, and each is at a place of the file.
LEMMA FileIsRows ==
  ASSUME SideInv, mainAt = "written"
  PROVE  \E at : /\ at \in [DOMAIN rows -> DOMAIN rows] /\ DOMAIN outcomes = DOMAIN rows
                 /\ \A k \in DOMAIN rows : /\ outcomes[k].row = rows[at[k]]
                                           /\ outcomes[k].outcome = Outcome(rows[at[k]])
                                           /\ Cardinality(StartedBefore(at[k])) = k - 1
                 /\ \A i \in DOMAIN rows : \E k \in DOMAIN rows : at[k] = i
                 /\ \A k, l \in DOMAIN rows : at[k] = at[l] => k = l
<1> DEFINE n == Len(rows)
           f == [i \in 1..n |-> rows[i].start]
           at == [k \in 1..n |-> CHOOSE i \in DOMAIN rows : Cardinality(StartedBefore(i)) = k - 1]
<1>1. n \in Nat /\ DOMAIN rows = 1..n
  <2>1. rows \in Seq(ToSet(rows))
    BY DEF SideInv, SideTypes, IsSequence
  <2> QED
    BY <2>1, SequenceIs
<1>2. f \in [1..n -> Nat] /\ \A i, j \in 1..n : f[i] = f[j] => i = j
  BY <1>1 DEF SideInv, SideTypes, StartsApart, IsRow
<1>3. \A i \in 1..n : StartedBefore(i) = {l \in 1..n : f[l] < f[i]}
  BY <1>1 DEF StartedBefore
<1>4. /\ \A i, j \in 1..n : Cardinality(StartedBefore(i)) = Cardinality(StartedBefore(j)) => i = j
      /\ \A k \in 1..n : \E i \in 1..n : Cardinality(StartedBefore(i)) = k - 1
  <2> HIDE DEF f
  <2>1. /\ \A i, j \in 1..n : Cardinality({l \in 1..n : f[l] < f[i]}) = Cardinality({l \in 1..n : f[l] < f[j]}) => i = j
        /\ \A k \in 1..n : \E i \in 1..n : Cardinality({l \in 1..n : f[l] < f[i]}) = k - 1
    BY <1>1, <1>2, Places
  <2> QED
    BY <1>3, <2>1
<1>5. \A k \in 1..n : at[k] \in 1..n /\ Cardinality(StartedBefore(at[k])) = k - 1
  BY <1>1, <1>4
<1>6. at \in [DOMAIN rows -> DOMAIN rows]
  BY <1>1, <1>5
<1>7. \A k \in DOMAIN rows : Nth(k) = rows[at[k]]
  BY <1>1 DEF Nth
<1>8. outcomes = [k \in DOMAIN rows |-> [row |-> Nth(k), outcome |-> Outcome(Nth(k))]]
  BY DEF SideInv, WrittenRight
<1>9. \A k, l \in 1..n : k - 1 = l - 1 => k = l
  OBVIOUS
<1> HIDE DEF at, f, n
<1>10. \A k, l \in DOMAIN rows : at[k] = at[l] => k = l
  BY <1>1, <1>5, <1>9
<1>11. \A i \in DOMAIN rows : \E k \in DOMAIN rows : at[k] = i
  <2>1. at \in Injection(DOMAIN rows, DOMAIN rows)
    BY <1>6, <1>10 DEF Injection, IsInjective
  <2>2. IsFiniteSet(DOMAIN rows)
    BY <1>1, FS_Interval
  <2>3. at \in Surjection(DOMAIN rows, DOMAIN rows)
    BY <2>1, <2>2, FS_Injection
  <2> QED
    BY <2>3 DEF Surjection
<1> QED
  BY <1>1, <1>5, <1>6, <1>7, <1>8, <1>10, <1>11

\* A list of items, asked once each, is there item by item.
LEMMA ListInOrder ==
  ASSUME SideInv, mainAt = "written", NEW kind, NEW n \in Nat, AloneRight(kind, n)
  PROVE  /\ DOMAIN outcomes = 1..n
         /\ \A k \in 1..n : outcomes[k].row.item = k /\ outcomes[k].row.kind = kind
<1> DEFINE m == Len(rows)
           item == [i \in DOMAIN rows |-> rows[i].item]
<1>1. m \in Nat /\ DOMAIN rows = 1..m
  <2>1. rows \in Seq(ToSet(rows))
    BY DEF SideInv, SideTypes, IsSequence
  <2> QED
    BY <2>1, SequenceIs
<1>2. /\ inFlight = {} /\ asked = n /\ begun = n
      /\ \A i \in DOMAIN rows : /\ rows[i].kind = kind /\ rows[i].item = rows[i].start + 1
                                /\ rows[i].start \in Nat /\ rows[i].start < n
      /\ \A i, j \in DOMAIN rows : rows[i].start = rows[j].start => i = j
      /\ \A k \in 1..n : \E i \in DOMAIN rows : rows[i].item = k
  BY DEF SideInv, SideTypes, StartsApart, Callers, AloneRight, IsRow
<1>3. \A x \in Nat : x < n => x + 1 \in 1..n
  OBVIOUS
<1>4. \A x, y \in Nat : x + 1 = y + 1 => x = y
  OBVIOUS
<1>5. item \in Injection(DOMAIN rows, 1..n) /\ item \in Surjection(DOMAIN rows, 1..n)
  <2>1. item \in [DOMAIN rows -> 1..n]
    BY <1>2, <1>3
  <2>2. \A i, j \in DOMAIN rows : item[i] = item[j] => i = j
    BY <1>2, <1>4
  <2>3. \A k \in 1..n : \E i \in DOMAIN rows : item[i] = k
    BY <1>2
  <2> HIDE DEF item
  <2> QED
    BY <2>1, <2>2, <2>3 DEF Injection, IsInjective, Surjection
<1>6. DOMAIN rows = 1..n
  <2> HIDE DEF item, m
  <2>1. IsFiniteSet(1..m) /\ Cardinality(1..m) = m /\ Cardinality(1..n) = n
    BY <1>1, FS_Interval
  <2>2. Cardinality(DOMAIN rows) = Cardinality(1..n)
    BY <1>1, <1>5, <2>1, FS_Surjection
  <2> QED
    BY <1>1, <2>1, <2>2
<1>7. \A i \in DOMAIN rows : Cardinality(StartedBefore(i)) = rows[i].start
  <2>1. TAKE i \in DOMAIN rows
  <2>2. PICK s \in Nat : s = rows[i].start /\ s < n
    BY <1>2
  <2> DEFINE g == [j \in StartedBefore(i) |-> rows[j].item]
  <2>3. StartedBefore(i) \subseteq DOMAIN rows
    BY DEF StartedBefore
  <2>4. \A j \in DOMAIN rows : j \in StartedBefore(i) <=> rows[j].item \in 1..s
    <3>1. \A x \in Nat : x < s <=> x + 1 \in 1..s
      BY <2>2
    <3> QED
      BY <1>2, <2>2, <3>1 DEF StartedBefore
  <2>5. g \in [StartedBefore(i) -> 1..s]
    BY <2>3, <2>4
  <2>6. \A j, l \in StartedBefore(i) : g[j] = g[l] => j = l
    BY <1>2, <1>4, <2>3
  <2>7. \A k \in 1..s : \E j \in StartedBefore(i) : g[j] = k
    <3>1. \A k \in 1..s : k \in 1..n
      BY <2>2
    <3> QED
      BY <1>2, <2>4, <3>1
  <2> HIDE DEF g
  <2>8. g \in Injection(StartedBefore(i), 1..s) /\ g \in Surjection(StartedBefore(i), 1..s)
    BY <2>5, <2>6, <2>7 DEF Injection, IsInjective, Surjection
  <2>9. IsFiniteSet(1..s) /\ Cardinality(1..s) = s
    <3>1. IsFiniteSet(1..s) /\ Cardinality(1..s) = IF 1 > s THEN 0 ELSE s - 1 + 1
      BY FS_Interval
    <3>2. \A x \in Nat : (IF 1 > x THEN 0 ELSE x - 1 + 1) = x
      OBVIOUS
    <3> QED
      BY <3>1, <3>2
  <2>10. Cardinality(StartedBefore(i)) = Cardinality(1..s)
    BY <2>8, <2>9, FS_Injection
  <2> QED
    BY <2>2, <2>9, <2>10
<1>8. PICK at : /\ at \in [DOMAIN rows -> DOMAIN rows] /\ DOMAIN outcomes = DOMAIN rows
                /\ \A k \in DOMAIN rows : /\ outcomes[k].row = rows[at[k]]
                                          /\ Cardinality(StartedBefore(at[k])) = k - 1
  BY FileIsRows
<1>9. \A k \in 1..n : outcomes[k].row.item = k /\ outcomes[k].row.kind = kind
  <2>1. TAKE k \in 1..n
  <2>2. at[k] \in DOMAIN rows /\ outcomes[k].row = rows[at[k]] /\ rows[at[k]].start = k - 1
    BY <1>6, <1>7, <1>8
  <2>3. k - 1 + 1 = k
    OBVIOUS
  <2> QED
    BY <1>2, <2>2, <2>3
<1> QED
  BY <1>6, <1>8, <1>9

\* What is of the team in the file is every decision, once.
LEMMA DecisionsThere ==
  ASSUME SideInv, mainAt = "written",
         \A k \in 1..Len(TeamItems) : \E i \in DOMAIN rows : rows[i].kind = "team" /\ rows[i].item = k,
         \A i, j \in DOMAIN rows :
           rows[i].kind = "team" /\ rows[j].kind = "team" /\ rows[i].item = rows[j].item => i = j
  PROVE  /\ Cardinality(Rows("team")) = Len(TeamItems)
         /\ {outcomes[i].row.item : i \in Rows("team")} = DOMAIN TeamItems
<1>1. PICK at : /\ at \in [DOMAIN rows -> DOMAIN rows] /\ DOMAIN outcomes = DOMAIN rows
                /\ \A k \in DOMAIN rows : outcomes[k].row = rows[at[k]]
                /\ \A i \in DOMAIN rows : \E k \in DOMAIN rows : at[k] = i
                /\ \A k, l \in DOMAIN rows : at[k] = at[l] => k = l
  BY FileIsRows
<1> DEFINE T == Rows("team")
           g == [k \in T |-> outcomes[k].row.item]
<1>2. T = {k \in DOMAIN rows : rows[at[k]].kind = "team"}
  BY <1>1 DEF Rows
<1>3. \A i \in DOMAIN rows : rows[i].kind = "team" => rows[i].item \in DOMAIN TeamItems
  BY DEF SideInv, SideTypes, IsRow
<1>4. g \in [T -> DOMAIN TeamItems]
  BY <1>1, <1>2, <1>3
<1>5. \A k, l \in T : g[k] = g[l] => k = l
  BY <1>1, <1>2
<1>6. \A x \in DOMAIN TeamItems : \E k \in T : g[k] = x
  BY <1>1, <1>2, SideAssumption
<1>7. {outcomes[k].row.item : k \in T} = DOMAIN TeamItems
  <2>1. \A k \in T : outcomes[k].row.item = g[k] /\ g[k] \in DOMAIN TeamItems
    BY <1>4
  <2> HIDE DEF T, g
  <2>2. \A y \in {outcomes[k].row.item : k \in T} : y \in DOMAIN TeamItems
    BY <2>1
  <2>3. \A x \in DOMAIN TeamItems : x \in {outcomes[k].row.item : k \in T}
    BY <1>6, <2>1
  <2> QED
    BY <2>2, <2>3
<1>8. Cardinality(T) = Len(TeamItems)
  <2> HIDE DEF T, g
  <2>1. g \in Injection(T, DOMAIN TeamItems) /\ g \in Surjection(T, DOMAIN TeamItems)
    BY <1>4, <1>5, <1>6 DEF Injection, IsInjective, Surjection
  <2>2. IsFiniteSet(DOMAIN TeamItems) /\ Cardinality(DOMAIN TeamItems) = Len(TeamItems)
    BY SideAssumption, FS_Interval
  <2> QED
    BY <2>1, <2>2, FS_Injection
<1> QED
  BY <1>7, <1>8

\* Nothing that was measured is missing from the file.
LEMMA CompleteFile == SideInv => FileComplete
<1>1. SUFFICES ASSUME SideInv, mainAt = "written" PROVE FileComplete
  BY DEF FileComplete
<1>2. inFlight = {} /\ teamAt.at \in {"off", "set"} /\ (teamAt.at = "off" <=> scenario # "both")
  BY <1>1 DEF SideInv, Callers
<1>3. ASSUME scenario = "home-alone"
      PROVE  [i \in DOMAIN outcomes |-> outcomes[i].row.item] = [i \in DOMAIN HomeItems |-> i]
  <2>1. AloneRight("home", Len(HomeItems))
    BY <1>1, <1>3 DEF SideInv
  <2>2. /\ DOMAIN outcomes = 1..Len(HomeItems)
        /\ \A k \in 1..Len(HomeItems) : outcomes[k].row.item = k
    BY <1>1, <2>1, ListInOrder, SideAssumption
  <2> QED
    BY <2>2, SideAssumption
<1>4. ASSUME scenario \in {"both", "part-alone"}
      PROVE  /\ Cardinality(Rows("team")) = Len(TeamItems)
             /\ {outcomes[i].row.item : i \in Rows("team")} = DOMAIN TeamItems
  <2>1. /\ \A k \in 1..Len(TeamItems) : \E i \in DOMAIN rows : rows[i].kind = "team" /\ rows[i].item = k
        /\ \A i, j \in DOMAIN rows :
             rows[i].kind = "team" /\ rows[j].kind = "team" /\ rows[i].item = rows[j].item => i = j
    <3>1. CASE scenario = "both"
      BY <1>1, <1>2, <3>1 DEF SideInv, BesideRight
    <3>2. CASE scenario = "part-alone"
      <4>1. AloneRight("team", Len(TeamItems))
        BY <1>1, <3>2 DEF SideInv
      <4>2. \A i, j \in DOMAIN rows : /\ rows[i].start \in Nat /\ rows[j].start \in Nat
                                      /\ (rows[i].start = rows[j].start => i = j)
        BY <1>1 DEF SideInv, SideTypes, StartsApart, IsRow
      <4>3. \A x, y \in Nat : x + 1 = y + 1 => x = y
        OBVIOUS
      <4> QED
        BY <1>1, <1>2, <4>1, <4>2, <4>3 DEF AloneRight
    <3> QED
      BY <1>4, <3>1, <3>2
  <2> QED
    BY <1>1, <2>1, DecisionsThere
<1> QED
  BY <1>2, <1>3, <1>4 DEF FileComplete

\* What home_outcome() calls decided is what the Agent would have done.
LEMMA DecidedHome ==
  ASSUME NEW reply, NEW gold, HomeOutcome(reply, gold).is = "decided", reply.http = 200 => HomeAnswers(reply)
  PROVE  /\ reply.http = 200 /\ ~reply.late /\ ~reply.truncated
         /\ "intent" \in DOMAIN reply.answers =>
              \A q \in {"device", "action"} :
                \/ Said(reply, q).p >= MinP /\ (q = "device" => Said(reply, q).choice # "several")
                \/ Said(reply, "intent").choice = "none"
                \/ q = "action" /\ Said(reply, "intent").choice = "query"
         /\ Said(reply, "pick").choice # "redo"
<1>1. Not("error").is # "decided" /\ Not("timeout").is # "decided" /\ Not("abstain").is # "decided"
  BY DEF Not
<1>2. reply.http = 200 /\ ~reply.late /\ ~reply.truncated
  BY <1>1 DEF HomeOutcome
<1>3. HomeAnswers(reply)
  BY <1>2
<1>4. ASSUME "pick" \in DOMAIN reply.answers PROVE Said(reply, "pick").choice # "redo"
  <2>1. Continued(reply, gold, "pick").is = "decided"
    BY <1>1, <1>2, <1>4 DEF HomeOutcome
  <2> QED
    BY <2>1 DEF Continued
<1>5. Said(reply, "pick").choice # "redo"
  BY <1>4 DEF Said
<1>6. ASSUME "intent" \in DOMAIN reply.answers, NEW q \in {"device", "action"},
             Said(reply, "intent").choice # "none",
             ~(q = "action" /\ Said(reply, "intent").choice = "query")
      PROVE  Said(reply, q).p >= MinP /\ (q = "device" => Said(reply, q).choice # "several")
  <2>1. "pick" \notin DOMAIN reply.answers /\ "follow" \notin DOMAIN reply.answers
    BY <1>3, <1>6 DEF HomeAnswers
  <2>2. ~ \/ Said(reply, "intent").choice # "none" /\ Said(reply, "device").choice = "several"
          \/ \E x \in HomeKeys(Said(reply, "intent").choice) : Said(reply, x).p < MinP
    BY <1>1, <1>2, <2>1 DEF HomeOutcome
  <2>3. Said(reply, "intent").choice \in {"control", "query"}
    BY <1>3, <1>6 DEF HomeAnswers, Said
  <2>4. q \in HomeKeys(Said(reply, "intent").choice)
    BY <1>6, <2>3 DEF HomeKeys
  <2>5. Said(reply, q).p \in Nat
    BY <1>3 DEF HomeAnswers, Said
  <2>6. ~(Said(reply, q).p < MinP)
    BY <2>2, <2>4
  <2> QED
    BY <1>6, <2>2, <2>5, <2>6 DEF MinP
<1> QED
  BY <1>2, <1>5, <1>6

\* What part_outcome() calls right violates no stop and loses no right turn.
LEMMA DecidedTeam ==
  ASSUME NEW reply, NEW gold, TeamOutcome(reply, gold).is = "decided"
  PROVE  /\ WholeTurn(reply, gold) => TeamOutcome(reply, gold).correct
         /\ StopViolated(reply, gold) => ~TeamOutcome(reply, gold).correct
<1>1. /\ Not("busy").is # "decided" /\ Not("timeout").is # "decided"
      /\ Not("error").is # "decided" /\ Not("abstain").is # "decided"
  BY DEF Not
<1>2. TeamOutcome(reply, gold) = [is |-> "decided", correct |-> reply.action = gold.action]
  BY <1>1 DEF TeamOutcome
<1>3. TeamOutcome(reply, gold).correct <=> reply.action = gold.action
  <2>1. (reply.action = gold.action) \in BOOLEAN
    OBVIOUS
  <2>2. PICK b \in BOOLEAN : b = (reply.action = gold.action)
    BY <2>1, Zenon
  <2>3. TeamOutcome(reply, gold) = [is |-> "decided", correct |-> b]
    BY <1>2, <2>2, Zenon
  <2>4. TeamOutcome(reply, gold).correct = b
    BY <2>3
  <2> QED
    BY <2>2, <2>4
<1>4. WholeTurn(reply, gold) => reply.action = gold.action
  BY DEF WholeTurn
<1>5. StopViolated(reply, gold) => reply.action # gold.action
  BY DEF StopViolated
<1> QED
  BY <1>3, <1>4, <1>5

\* The measurement of two services side by side is whole and judged as the
\* Agent would act, for any items, replies and scenario.
THEOREM MeasuresAsAgent == SideSpec => []MeasuredAsAgent
<1>1. SideInv => JudgedAsAgent
  <2>1. SUFFICES ASSUME SideInv, NEW k \in DOMAIN outcomes
                 PROVE  LET reply == outcomes[k].row.reply
                            out == outcomes[k].outcome
                            one == outcomes[k].row.item
                        IN  /\ out.is = "decided" /\ outcomes[k].row.kind = "home" =>
                                 /\ reply.http = 200 /\ ~reply.late /\ ~reply.truncated
                                 /\ "intent" \in DOMAIN reply.answers =>
                                      \A q \in {"device", "action"} :
                                        \/ Said(reply, q).p >= MinP /\ (q = "device" => Said(reply, q).choice # "several")
                                        \/ Said(reply, "intent").choice = "none"
                                        \/ q = "action" /\ Said(reply, "intent").choice = "query"
                                 /\ Said(reply, "pick").choice # "redo"
                            /\ out.is = "decided" /\ outcomes[k].row.kind = "team" =>
                                 /\ WholeTurn(reply, TeamItems[one].gold) => out.correct
                                 /\ StopViolated(reply, TeamItems[one].gold) => ~out.correct
    BY DEF JudgedAsAgent
  <2>2. mainAt = "written"
    BY <2>1 DEF SideInv, WrittenRight
  <2>3. PICK r : outcomes[k].row = r /\ outcomes[k].outcome = Outcome(r) /\ IsRow(r)
    <3>1. PICK at : /\ at \in [DOMAIN rows -> DOMAIN rows] /\ DOMAIN outcomes = DOMAIN rows
                    /\ \A l \in DOMAIN rows : outcomes[l].row = rows[at[l]] /\ outcomes[l].outcome = Outcome(rows[at[l]])
      BY <2>1, <2>2, FileIsRows
    <3> QED
      BY <2>1, <3>1 DEF SideInv, SideTypes
  <2>4. CASE r.kind = "home"
    <3>1. r.reply.http = 200 => HomeAnswers(r.reply)
      BY <2>3, <2>4, SideAssumption DEF IsRow
    <3>2. Outcome(r) = HomeOutcome(r.reply, HomeItems[r.item].gold)
      BY <2>4 DEF Outcome
    <3> QED
      BY <2>3, <2>4, <3>1, <3>2, DecidedHome
  <2>5. CASE r.kind = "team"
    <3>1. Outcome(r) = TeamOutcome(r.reply, TeamItems[r.item].gold)
      BY <2>5 DEF Outcome
    <3> QED
      BY <2>3, <2>5, <3>1, DecidedTeam
  <2> QED
    BY <2>3, <2>4, <2>5 DEF IsRow
<1> QED
  BY <1>1, SideCorrect, CompleteFile, PTL DEF MeasuredAsAgent

-----------------------------------------------------------------------------
(* AsrClients: percentile() *)

\* A value is counted where it stands, and no more are counted than there are.
LEMMA CountsUp ==
  ASSUME NEW n \in Nat, NEW f \in [1 .. n -> Nat], NEW x \in Nat
  PROVE  AtMost(f, x) \in 0 .. n /\ Below(f, x) \in 0 .. n
<1>1. IsFiniteSet(1 .. n) /\ Cardinality(1 .. n) = n
  <2>1. IsFiniteSet(1 .. n) /\ Cardinality(1 .. n) = IF 1 > n THEN 0 ELSE n - 1 + 1
    BY FS_Interval
  <2>2. QED BY <2>1
<1>2. ASSUME NEW S \in SUBSET (1 .. n)
      PROVE  IsFiniteSet(S) /\ Cardinality(S) \in 0 .. n
  <2>1. IsFiniteSet(S) /\ Cardinality(S) <= Cardinality(1 .. n)
    BY <1>1, FS_Subset
  <2>2. Cardinality(S) \in Nat
    BY <2>1, FS_CardinalityType
  <2>3. QED BY <1>1, <2>1, <2>2
<1>3. {i \in DOMAIN f : f[i] <= x} \subseteq 1 .. n /\ {i \in DOMAIN f : f[i] < x} \subseteq 1 .. n
  OBVIOUS
<1>4. QED BY <1>2, <1>3 DEF AtMost, Below

\* Of n numbers there is one of every rank up to n.
LEMMA RankExists ==
  ASSUME NEW n \in Nat \ {0}, NEW f \in [1 .. n -> Nat], NEW rank \in 1 .. n
  PROVE  \E x \in ValuesOf(f) : Below(f, x) < rank /\ rank <= AtMost(f, x)
<1> DEFINE G == {x \in ValuesOf(f) : rank <= AtMost(f, x)}
<1>1. ValuesOf(f) \subseteq Nat
  BY DEF ValuesOf
<1>2. \E top \in ValuesOf(f) : \A y \in ValuesOf(f) : y <= top
  <2>1. \A top \in Nat : (\A y \in ValuesOf(f) : y <= top) => \E t \in ValuesOf(f) : \A y \in ValuesOf(f) : y <= t
    <3> SUFFICES ASSUME NEW top \in Nat, \A y \in ValuesOf(f) : y <= top
                 PROVE  \E t \in ValuesOf(f) : \A y \in ValuesOf(f) : y <= t
      OBVIOUS
    <3>1. ValuesOf(f) \subseteq 0 .. top
      BY <1>1
    <3>2. ValuesOf(f) # {}
      BY DEF ValuesOf
    <3>3. QED BY <3>1, <3>2, GreatestNumber
  <2>2. \E top \in Nat : \A y \in ValuesOf(f) : y <= top
    <3> DEFINE V(k) == {f[i] : i \in 1 .. k}
               T == {k \in 0 .. n : \E top \in Nat : \A y \in V(k) : y <= top}
    <3>1. 0 \in T
      <4>1. V(0) = {}
        OBVIOUS
      <4>2. \A y \in V(0) : y <= 0
        BY <4>1
      <4>3. QED BY <4>2
    <3>2. PICK last \in T : \A y \in T : y <= last
      BY <3>1, GreatestNumber
    <3>3. last = n
      <4>1. SUFFICES ASSUME last # n PROVE FALSE
        OBVIOUS
      <4>2. last \in 0 .. n /\ last + 1 \in 1 .. n
        BY <4>1
      <4>3. PICK top \in Nat : \A y \in V(last) : y <= top
        OBVIOUS
      <4>4. f[last + 1] \in Nat
        BY <4>2
      <4>5. V(last + 1) = V(last) \union {f[last + 1]}
        <5>1. 1 .. (last + 1) = (1 .. last) \union {last + 1}
          BY <4>2
        <5>2. QED BY <5>1
      <4>6. \A y \in V(last) : y \in Nat
        BY <4>2
      <4>7. \A y \in V(last + 1) : y <= top + f[last + 1]
        <5> HIDE DEF V
        <5>1. \A y \in Nat : y <= top => y <= top + f[last + 1]
          BY <4>3, <4>4
        <5>2. f[last + 1] <= top + f[last + 1]
          BY <4>3, <4>4
        <5>3. QED BY <4>3, <4>5, <4>6, <5>1, <5>2
      <4>8. top + f[last + 1] \in Nat
        BY <4>4
      <4>9. last + 1 \in T
        <5> HIDE DEF V
        <5> QED BY <4>2, <4>7, <4>8
      <4>10. QED
        <5> HIDE DEF T
        <5> QED BY <4>9, <4>2, <3>2
    <3>4. V(n) = ValuesOf(f)
      BY DEF ValuesOf
    <3>5. QED BY <3>3, <3>4
  <2>3. QED BY <2>1, <2>2
<1>3. PICK top \in ValuesOf(f) : \A y \in ValuesOf(f) : y <= top
  BY <1>2
<1>4. AtMost(f, top) = n
  <2>1. {i \in DOMAIN f : f[i] <= top} = 1 .. n
    BY <1>3 DEF ValuesOf
  <2>2. Cardinality(1 .. n) = n
    <3>1. Cardinality(1 .. n) = IF 1 > n THEN 0 ELSE n - 1 + 1
      BY FS_Interval
    <3>2. QED BY <3>1
  <2>3. QED BY <2>1, <2>2 DEF AtMost
<1>5. G \subseteq Nat /\ top \in G
  BY <1>1, <1>3, <1>4
<1>6. PICK x \in G : \A y \in G : x <= y
  BY <1>5, LeastNumber
<1>7. x \in ValuesOf(f) /\ x \in Nat /\ rank <= AtMost(f, x)
  BY <1>5
<1>8. Below(f, x) < rank
  <2> DEFINE B == {i \in DOMAIN f : f[i] < x}
             W == {f[i] : i \in B}
  <2>1. CASE B = {}
    <3>1. Cardinality(B) = 0
      BY <2>1, FS_EmptySet
    <3> HIDE DEF B
    <3>2. Cardinality(B) < rank
      BY <3>1
    <3>3. QED BY <3>2 DEF B, Below
  <2>2. CASE B # {}
    <3>1. W \subseteq 0 .. x /\ W # {}
      BY <2>2, <1>7
    <3>2. PICK w \in W : \A y \in W : y <= w
      BY <3>1, <1>7, GreatestNumber
    <3>3. w \in ValuesOf(f) /\ w \in Nat /\ w < x
      BY <1>7 DEF ValuesOf
    <3>4. {i \in DOMAIN f : f[i] <= w} = B
      <4>1. \A i \in DOMAIN f : f[i] <= w => f[i] < x
        BY <3>3, <1>7
      <4>2. \A i \in B : f[i] <= w
        BY <3>2
      <4>3. QED BY <4>1, <4>2
    <3>5. ~ (rank <= AtMost(f, w))
      <4>1. w \notin G
        BY <1>6, <3>3, <1>7
      <4>2. QED BY <4>1, <3>3
    <3>6. AtMost(f, w) = Cardinality(B)
      BY <3>4 DEF AtMost
    <3>7. AtMost(f, w) \in Nat
      <4>1. AtMost(f, w) \in 0 .. n
        BY CountsUp, <3>3
      <4>2. QED BY <4>1
    <3>8. Below(f, x) = Cardinality(B)
      BY DEF Below
    <3> HIDE DEF B
    <3>9. QED BY <3>5, <3>6, <3>7, <3>8
  <2>3. QED BY <2>1, <2>2
<1>9. QED BY <1>7, <1>8

\* percentile() gives the value that the quantile asks for: enough are at or
\* below it, and of no smaller one are.
LEMMA PercentileIs ==
  ASSUME NEW n \in Nat \ {0}, NEW f \in [1 .. n -> Nat], NEW q \in {50, 95}
  PROVE  LET p == Percentile(f, q)
         IN  /\ p \in ValuesOf(f) /\ 100 * AtMost(f, p) >= q * n
             /\ \A x \in ValuesOf(f) : x < p => 100 * AtMost(f, x) < q * n
<1>0. \A y \in Nat : AtMost(f, y) \in 0 .. n /\ Below(f, y) \in 0 .. n
  BY CountsUp, Zenon
<1> DEFINE rank == RankOf(f, q)
           p == Percentile(f, q)
<1>1. Len(f) = n
  OBVIOUS
<1>2. rank \in 1 .. n /\ 100 * rank >= q * n /\ 100 * (rank - 1) < q * n
  <2>1. CASE q = 50
    BY <1>1, <2>1 DEF RankOf
  <2>2. CASE q = 95
    BY <1>1, <2>2 DEF RankOf
  <2>3. QED BY <2>1, <2>2
<1> HIDE DEF rank
<1>3. /\ p \in ValuesOf(f) /\ rank <= AtMost(f, p)
      /\ Below(f, p) < rank
  <2>1. p = Ranked(f, rank)
    BY DEF Percentile, rank
  <2>2. \E x \in ValuesOf(f) : Below(f, x) < rank /\ rank <= AtMost(f, x)
    BY <1>2, RankExists
  <2>3. QED BY <2>1, <2>2 DEF Ranked
<1> HIDE DEF p
<1>4. ValuesOf(f) \subseteq Nat
  BY DEF ValuesOf
<1>5. p \in Nat /\ AtMost(f, p) \in Nat
  <2>1. p \in Nat
    BY <1>3, <1>4
  <2>2. AtMost(f, p) \in 0 .. n
    BY <2>1, <1>0
  <2>3. QED BY <2>1, <2>2
<1>6. 100 * AtMost(f, p) >= q * n
  <2>1. \A a, b \in Nat : a <= b => 100 * a <= 100 * b
    OBVIOUS
  <2>2. 100 * rank <= 100 * AtMost(f, p)
    BY <2>1, <1>2, <1>3, <1>5
  <2>3. \A a, b, c \in Nat : a >= b /\ a <= c => c >= b
    OBVIOUS
  <2>4. q * n \in Nat /\ 100 * rank \in Nat /\ 100 * AtMost(f, p) \in Nat
    BY <1>2, <1>5
  <2>5. QED BY <2>2, <2>3, <2>4, <1>2
<1>7. ASSUME NEW x \in ValuesOf(f), x < p PROVE 100 * AtMost(f, x) < q * n
  <2> DEFINE B == {i \in DOMAIN f : f[i] < p}
  <2>1. x \in Nat
    BY <1>4
  <2>2. {i \in DOMAIN f : f[i] <= x} \subseteq B
    BY <2>1, <1>5, <1>7
  <2>3. IsFiniteSet(B) /\ Cardinality(B) \in Nat /\ Cardinality(B) < rank /\ AtMost(f, x) \in Nat
    <3>1. IsFiniteSet(B)
      <4>1. IsFiniteSet(1 .. n) /\ B \subseteq 1 .. n
        BY FS_Interval
      <4>2. QED BY <4>1, FS_Subset
    <3>2. AtMost(f, x) \in 0 .. n /\ Below(f, p) \in 0 .. n
      BY <2>1, <1>0, <1>5
    <3>3. Below(f, p) = Cardinality(B)
      BY DEF Below
    <3> HIDE DEF B
    <3>4. QED BY <3>1, <3>2, <3>3, <1>3
  <2>4. AtMost(f, x) <= Cardinality(B)
    BY <2>2, <2>3, FS_Subset DEF AtMost
  <2>5. AtMost(f, x) <= rank - 1
    <3> HIDE DEF B
    <3>1. \A a, b, c \in Nat : a <= b /\ b < c => a <= c - 1
      OBVIOUS
    <3>2. QED BY <3>1, <2>3, <2>4, <1>2
  <2>6. \A a, c \in Nat : a <= c - 1 => 100 * a <= 100 * (c - 1)
    OBVIOUS
  <2>7. 100 * AtMost(f, x) <= 100 * (rank - 1)
    BY <2>3, <2>5, <2>6, <1>2
  <2>8. \A a, b, c \in Int : a <= b /\ b < c => a < c
    OBVIOUS
  <2>9. 100 * AtMost(f, x) \in Int /\ 100 * (rank - 1) \in Int /\ q * n \in Int
    BY <2>3, <1>2
  <2>10. QED BY <2>7, <2>8, <2>9, <1>2
<1>8. QED
  BY <1>3, <1>6, <1>7 DEF p

-----------------------------------------------------------------------------
(* AsrClients: what a stream was told, and what it made of it *)

ClientMessages ==
  [type : {"started", "started_queued", "active", "interim", "final", "error", "close"}, audio : Nat]
Marks == {"end", "active", "interim", "final"}
ClientPlaces ==
  [at : {"idle", "starting", "sending", "polling", "ended", "done"},
   receiver : {"none", "reading", "returned", "raised"}, sent : Nat, queued : BOOLEAN,
   interims : Nat, noted : Seq(Marks), events : Seq(ClientMessages), heard : Nat]
ServicePlaces ==
  [at : {"none", "asked", "queued", "granted", "active", "open", "closed"}, fed : Nat, interims : Nat]

InterimsOf(log, n) == {k \in 1 .. n : log[k].type = "interim"}

\* All the messages of a stream so far: one opening, then the slot, then what is
\* heard, none of it taken back, and at most one way to end.
LogOk(log, v) ==
  /\ log \in Seq(ClientMessages)
  /\ \A k \in 1 .. Len(log) :
       /\ log[k].type \in {"started", "started_queued"} => k = 1
       /\ k = 1 => log[k].type \in {"started", "started_queued", "error"}
       /\ log[k].type = "active" => k = 2
       /\ log[k].type \in {"interim", "final"} => k >= 3 /\ log[2].type = "active"
       /\ log[k].type = "final" => k = Len(log) /\ v.at = "open" /\ log[k].audio = v.fed
       /\ log[k].type = "error" => v.at = "closed"
       /\ log[k].type = "close" => v.at = "closed" /\ k = Len(log)
       /\ log[k].audio <= v.fed
       /\ \A m \in 1 .. Len(log) :
            k < m /\ log[m].type \notin {"error", "close"} =>
              log[k].type # "error" /\ log[k].audio <= log[m].audio
  /\ v.at \in {"none", "asked"} => Len(log) = 0
  /\ v.at \in {"queued", "granted"} => Len(log) = 1
  /\ v.at \in {"none", "asked", "queued", "granted"} => v.fed = 0
  /\ v.at = "active" => Len(log) >= 2 /\ log[2].type = "active"
  /\ v.at = "open" => Len(log) >= 3 /\ log[Len(log)].type = "final"
  /\ v.interims = Cardinality(InterimsOf(log, Len(log)))

\* Of these n were taken and the rest are on their way.
BoxOk(box, log, n) ==
  /\ box \in Seq(ClientMessages) /\ n \in 0 .. Len(log) /\ Len(box) = Len(log) - n
  /\ \A k \in 1 .. Len(box) : box[k] = log[n + k]

\* A client and the service agree how far they are.
PlaceOk(c, v, n, frames) ==
  /\ c.at = "idle" => v.at = "none"
  /\ c.at \in {"idle", "starting"} => n = 0
  /\ c.at \notin {"idle", "starting"} => n >= 1
  /\ v.fed <= c.sent /\ c.sent <= frames
  /\ c.at \in {"ended", "done"} => c.sent = frames
  /\ v.at = "open" => c.at \in {"ended", "done"} /\ v.fed = frames

HasMark(s, y) == \E k \in 1 .. Len(s) : s[k] = y
MarksInOrder(s) ==
  \A k, m \in 1 .. Len(s) : k < m =>
    s[k] # s[m] /\ s[k] # "final" /\ (s[m] = "active" => s[k] # "interim")

\* What a stream of the benchmark has noted of what it took.
NotedOk(c, v, log, n) ==
  /\ c.at # "polling"
  /\ c.receiver = "none" <=> c.at \in {"idle", "starting"}
  /\ c.receiver = "returned" => n = Len(log) /\ n >= 1 /\ log[n].type = "final" /\ c.heard = v.fed
  /\ c.at = "done" => c.receiver = "returned"
  /\ c.interims = Cardinality(InterimsOf(log, n))
  /\ HasMark(c.noted, "end") <=> c.at \in {"ended", "done"}
  /\ HasMark(c.noted, "active") <=> n >= 2 /\ log[2].type = "active"
  /\ HasMark(c.noted, "interim") <=> c.interims # 0
  /\ HasMark(c.noted, "final") <=> c.receiver = "returned"
  /\ MarksInOrder(c.noted)

\* What a probe has kept of it.
EventsOk(c, log, n) ==
  /\ c.receiver = "none"
  /\ n = 0 => c.events = <<>>
  /\ n >= 1 => Len(c.events) = n - 1
  /\ \A k \in 1 .. Len(c.events) : c.events[k] = log[k + 1]
  /\ \A k \in 1 .. n : log[k].type # "close"
  /\ c.at = "done" => n = Len(log) /\ n >= 1 /\ log[n].type = "final"

StreamAt(c, v, box, log, n, tool, frames) ==
  /\ LogOk(log, v) /\ BoxOk(box, log, n) /\ PlaceOk(c, v, n, frames)
  /\ tool = "bench" => NotedOk(c, v, log, n)
  /\ tool = "probe" => EventsOk(c, log, n)

StreamOk(c, v, box, tool, frames) ==
  \E log \in Seq(ClientMessages) : \E n \in 0 .. Len(log) : StreamAt(c, v, box, log, n, tool, frames)

\* Nothing is said after a final, and nothing is taken back but by an error.
EventsInOrder(events) ==
  \A k, m \in 1 .. Len(events) : k < m =>
    events[k].type # "final" /\ (events[m].type = "error" \/ events[k].audio <= events[m].audio)

ClientsInv ==
  /\ setup \in Setups /\ level \in {"running", "reported", "failed"}
  /\ cl \in [Streams -> ClientPlaces] /\ svc \in [Streams -> ServicePlaces]
  /\ inbox \in [Streams -> Seq(ClientMessages)]
  /\ level # "failed" =>
       \A i \in Streams : StreamOk(cl[i], svc[i], inbox[i], setup.tool, setup.frames)
  /\ level = "reported" => \A i \in Streams : cl[i].at = "done"
  /\ setup.tool = "probe" => EventsInOrder(cl[1].events)

\* Counting further by one message.
LEMMA InterimsMore ==
  ASSUME NEW log \in Seq(ClientMessages), NEW n \in Nat, n + 1 \in 1 .. Len(log)
  PROVE  /\ Cardinality(InterimsOf(log, n)) \in Nat
         /\ Cardinality(InterimsOf(log, n + 1)) =
              Cardinality(InterimsOf(log, n)) + IF log[n + 1].type = "interim" THEN 1 ELSE 0
<1>1. 1 .. (n + 1) = (1 .. n) \union {n + 1} /\ n + 1 \notin 1 .. n
  OBVIOUS
<1>2. IsFiniteSet(InterimsOf(log, n)) /\ Cardinality(InterimsOf(log, n)) \in Nat
  <2>1. IsFiniteSet(1 .. n) /\ InterimsOf(log, n) \subseteq 1 .. n
    BY FS_Interval DEF InterimsOf
  <2>2. IsFiniteSet(InterimsOf(log, n))
    BY <2>1, FS_Subset
  <2>3. QED BY <2>2, FS_CardinalityType
<1>3. CASE log[n + 1].type = "interim"
  <2>1. InterimsOf(log, n + 1) = InterimsOf(log, n) \union {n + 1} /\ n + 1 \notin InterimsOf(log, n)
    BY <1>1, <1>3 DEF InterimsOf
  <2>2. Cardinality(InterimsOf(log, n + 1)) = Cardinality(InterimsOf(log, n)) + 1
    BY <2>1, <1>2, FS_AddElement
  <2>3. QED BY <2>2, <1>2, <1>3
<1>4. CASE log[n + 1].type # "interim"
  <2>1. InterimsOf(log, n + 1) = InterimsOf(log, n)
    BY <1>1, <1>4 DEF InterimsOf
  <2>2. QED BY <2>1, <1>2, <1>4
<1>5. QED BY <1>3, <1>4

\* What was told stays told.
LEMMA LogGrows ==
  ASSUME NEW log \in Seq(ClientMessages), NEW m \in ClientMessages
  PROVE  /\ Append(log, m) \in Seq(ClientMessages) /\ Len(log) \in Nat
         /\ Len(Append(log, m)) = Len(log) + 1 /\ Append(log, m)[Len(log) + 1] = m
         /\ \A k \in 1 .. Len(log) : Append(log, m)[k] = log[k] /\ log[k] \in ClientMessages
         /\ \A n \in 0 .. Len(log) : InterimsOf(Append(log, m), n) = InterimsOf(log, n)
         /\ Cardinality(InterimsOf(log, Len(log))) \in Nat
         /\ Cardinality(InterimsOf(Append(log, m), Len(log) + 1)) =
              Cardinality(InterimsOf(log, Len(log))) + IF m.type = "interim" THEN 1 ELSE 0
<1>1. /\ Append(log, m) \in Seq(ClientMessages) /\ Len(log) \in Nat
      /\ Len(Append(log, m)) = Len(log) + 1 /\ Append(log, m)[Len(log) + 1] = m
      /\ \A k \in 1 .. Len(log) : Append(log, m)[k] = log[k] /\ log[k] \in ClientMessages
  OBVIOUS
<1>2. ASSUME NEW n \in 0 .. Len(log) PROVE InterimsOf(Append(log, m), n) = InterimsOf(log, n)
  <2>1. \A k \in 1 .. n : Append(log, m)[k] = log[k]
    BY <1>1
  <2>2. QED BY <2>1 DEF InterimsOf
<1>3. InterimsOf(Append(log, m), Len(log)) = InterimsOf(log, Len(log))
  BY <1>1, <1>2
<1>4. Len(log) + 1 \in 1 .. Len(Append(log, m))
  BY <1>1
<1>5. /\ Cardinality(InterimsOf(Append(log, m), Len(log))) \in Nat
      /\ Cardinality(InterimsOf(Append(log, m), Len(log) + 1)) =
           Cardinality(InterimsOf(Append(log, m), Len(log))) + IF m.type = "interim" THEN 1 ELSE 0
  <2> DEFINE longer == Append(log, m)
             n == Len(log)
  <2>1. longer \in Seq(ClientMessages) /\ n \in Nat /\ n + 1 \in 1 .. Len(longer) /\ longer[n + 1] = m
    BY <1>1, <1>4
  <2> HIDE DEF longer, n
  <2>2. /\ Cardinality(InterimsOf(longer, n)) \in Nat
        /\ Cardinality(InterimsOf(longer, n + 1)) =
             Cardinality(InterimsOf(longer, n)) + IF longer[n + 1].type = "interim" THEN 1 ELSE 0
    BY <2>1, InterimsMore
  <2>3. QED BY <2>1, <2>2 DEF longer, n
<1>6. QED
  BY <1>1, <1>2, <1>3, <1>5

\* A message told is one more on its way.
LEMMA BoxGrows ==
  ASSUME NEW box, NEW log \in Seq(ClientMessages), NEW n, BoxOk(box, log, n), NEW m \in ClientMessages
  PROVE  BoxOk(Append(box, m), Append(log, m), n)
<1>1. /\ Append(log, m) \in Seq(ClientMessages) /\ Len(log) \in Nat
      /\ Len(Append(log, m)) = Len(log) + 1 /\ Append(log, m)[Len(log) + 1] = m
      /\ \A k \in 1 .. Len(log) : Append(log, m)[k] = log[k]
  BY LogGrows
<1>2. box \in Seq(ClientMessages) /\ Len(box) = Len(log) - n /\ n \in 0 .. Len(log)
      /\ \A k \in 1 .. Len(box) : box[k] = log[n + k]
  BY DEF BoxOk
<1>3. /\ Append(box, m) \in Seq(ClientMessages) /\ Len(box) \in Nat
      /\ Len(Append(box, m)) = Len(box) + 1 /\ Append(box, m)[Len(box) + 1] = m
      /\ \A k \in 1 .. Len(box) : Append(box, m)[k] = box[k]
  BY <1>2, LogGrows
<1>4. ASSUME NEW k \in 1 .. Len(box) + 1 PROVE Append(box, m)[k] = Append(log, m)[n + k]
  <2>1. CASE k = Len(box) + 1
    <3>1. n + k = Len(log) + 1
      BY <2>1, <1>1, <1>2, <1>3
    <3>2. QED BY <3>1, <2>1, <1>1, <1>3
  <2>2. CASE k # Len(box) + 1
    <3>1. k \in 1 .. Len(box) /\ n + k \in 1 .. Len(log)
      BY <2>2, <1>1, <1>2, <1>3
    <3>2. QED BY <3>1, <1>1, <1>2, <1>3
  <2>3. QED BY <2>1, <2>2
<1>5. n \in 0 .. Len(log) + 1 /\ Len(box) + 1 = Len(log) + 1 - n
  BY <1>1, <1>2
<1> DEFINE box2 == Append(box, m)
           log2 == Append(log, m)
<1>6. box2 \in Seq(ClientMessages) /\ Len(box2) = Len(log2) - n /\ n \in 0 .. Len(log2)
  BY <1>1, <1>3, <1>5
<1>7. \A k \in 1 .. Len(box2) : box2[k] = log2[n + k]
  BY <1>3, <1>4
<1> HIDE DEF box2, log2
<1>8. BoxOk(box2, log2, n)
  BY <1>6, <1>7 DEF BoxOk
<1>9. QED BY <1>8 DEF box2, log2

\* The first one on its way is the next to be taken.
LEMMA BoxTaken ==
  ASSUME NEW box, NEW log \in Seq(ClientMessages), NEW n, BoxOk(box, log, n), box # <<>>
  PROVE  /\ n \in Nat /\ n + 1 \in 1 .. Len(log) /\ Head(box) = log[n + 1] /\ Head(box) \in ClientMessages
         /\ BoxOk(Tail(box), log, n + 1)
<1>1. box \in Seq(ClientMessages) /\ Len(box) = Len(log) - n /\ n \in 0 .. Len(log)
      /\ \A k \in 1 .. Len(box) : box[k] = log[n + k]
  BY DEF BoxOk
<1>2. Len(box) \in Nat /\ Len(box) > 0 /\ Head(box) = box[1] /\ box[1] \in ClientMessages /\ Len(log) \in Nat
  BY <1>1
<1>3. n \in Nat /\ n + 1 \in 1 .. Len(log)
  BY <1>1, <1>2
<1>4. Head(box) = log[n + 1]
  BY <1>1, <1>2
<1>5. Tail(box) \in Seq(ClientMessages) /\ Len(Tail(box)) = Len(box) - 1
      /\ \A k \in 1 .. Len(box) - 1 : Tail(box)[k] = box[k + 1]
  BY <1>1, <1>2
<1>6. ASSUME NEW k \in 1 .. Len(box) - 1 PROVE Tail(box)[k] = log[n + 1 + k]
  <2>1. k + 1 \in 1 .. Len(box) /\ n + (k + 1) = n + 1 + k
    BY <1>2, <1>3
  <2>2. QED BY <2>1, <1>1, <1>5
<1>7. Len(box) - 1 = Len(log) - (n + 1) /\ n + 1 \in 0 .. Len(log)
  BY <1>1, <1>2, <1>3
<1>8. QED BY <1>2, <1>3, <1>4, <1>5, <1>6, <1>7 DEF BoxOk

(* What the service may say next. *)
LEMMA LogSaysMore ==
  ASSUME NEW log \in Seq(ClientMessages), NEW v \in ServicePlaces, LogOk(log, v),
         NEW m \in ClientMessages, NEW w \in ServicePlaces,
         \A k \in 1 .. Len(log) : log[k].type \notin {"final", "close"},
         m.type \notin {"error", "close"} => v.at # "closed" /\ v.fed <= m.audio,
         m.type \in {"error", "close"} => w.at = "closed",
         v.fed <= w.fed, m.audio <= w.fed,
         m.type \in {"started", "started_queued"} => Len(log) = 0,
         Len(log) = 0 => m.type \in {"started", "started_queued", "error"},
         m.type = "active" => Len(log) = 1,
         m.type \in {"interim", "final"} => v.at = "active",
         m.type = "final" => w.at = "open" /\ m.audio = w.fed,
         v.at = "closed" => w.at = "closed",
         w.at \notin {"none", "asked"},
         w.at \in {"queued", "granted"} => Len(log) = 0 /\ w.fed = 0,
         w.at = "active" => v.at = "active" \/ m.type = "active",
         w.at = "open" => v.at = "active" /\ m.type = "final",
         w.interims = v.interims + IF m.type = "interim" THEN 1 ELSE 0
  PROVE  LogOk(Append(log, m), w)
<1> DEFINE more == Append(log, m)
           L == Len(log)
<1>1. /\ more \in Seq(ClientMessages) /\ L \in Nat /\ Len(more) = L + 1 /\ more[L + 1] = m
      /\ \A k \in 1 .. L : more[k] = log[k] /\ log[k] \in ClientMessages
      /\ Cardinality(InterimsOf(more, L + 1)) =
           Cardinality(InterimsOf(log, L)) + IF m.type = "interim" THEN 1 ELSE 0
  BY LogGrows
<1>2. \A x \in ClientMessages : x.audio \in Nat
  BY DEF ClientMessages
<1>3. v.fed \in Nat /\ w.fed \in Nat /\ v.interims \in Nat
  BY DEF ServicePlaces
<1>a. \A k \in 1 .. L + 1 : k = L + 1 \/ k \in 1 .. L
  BY <1>1
<1> HIDE DEF more, L
<1>4. v.at = "active" => L >= 2 /\ log[2].type = "active"
  BY DEF LogOk, L
<1>5. ASSUME NEW k \in 1 .. L
      PROVE  /\ more[k].type \in {"started", "started_queued"} => k = 1
             /\ k = 1 => more[k].type \in {"started", "started_queued", "error"}
             /\ more[k].type = "active" => k = 2
             /\ more[k].type \in {"interim", "final"} => k >= 3 /\ more[2].type = "active"
             /\ more[k].type \notin {"final", "close"}
             /\ more[k].type = "error" => v.at = "closed"
             /\ more[k].audio <= v.fed
             /\ \A j \in 1 .. L : k < j /\ more[j].type \notin {"error", "close"} =>
                    more[k].type # "error" /\ more[k].audio <= more[j].audio
  <2>1. more[k] = log[k] /\ (k >= 3 => more[2] = log[2])
    BY <1>1
  <2>2. \A j \in 1 .. L : more[j] = log[j]
    BY <1>1
  <2>3. QED BY <2>1, <2>2 DEF LogOk, L
<1>6. ASSUME NEW k \in 1 .. L + 1
      PROVE  /\ more[k].type \in {"started", "started_queued"} => k = 1
             /\ k = 1 => more[k].type \in {"started", "started_queued", "error"}
             /\ more[k].type = "active" => k = 2
             /\ more[k].type \in {"interim", "final"} => k >= 3 /\ more[2].type = "active"
             /\ more[k].type = "final" => k = L + 1 /\ w.at = "open" /\ more[k].audio = w.fed
             /\ more[k].type = "error" => w.at = "closed"
             /\ more[k].type = "close" => w.at = "closed" /\ k = L + 1
             /\ more[k].audio <= w.fed
  <2>1. CASE k = L + 1
    <3>1. more[k] = m /\ (k = 1 <=> L = 0) /\ (L = 1 => k = 2) /\ (L >= 2 => k >= 3 /\ more[2] = log[2])
      BY <2>1, <1>1
    <3>2. /\ L = 0 => m.type \in {"started", "started_queued", "error"}
          /\ m.type \in {"started", "started_queued"} => L = 0
          /\ m.type = "active" => L = 1
      BY DEF L
    <3>3. m.audio <= w.fed
      OBVIOUS
    <3>4. /\ m.type \in {"interim", "final"} => k >= 3 /\ more[2].type = "active"
          /\ m.type = "final" => w.at = "open" /\ m.audio = w.fed
          /\ m.type \in {"error", "close"} => w.at = "closed"
      BY <3>1, <1>4
    <3>5. m.type = "active" => k = 2
      BY <3>1, <3>2
    <3>6. m.type = "close" => w.at = "closed" /\ k = L + 1
      BY <3>4, <2>1
    <3>7. m.type \in {"started", "started_queued"} => k = 1
      BY <3>1, <3>2
    <3>8. k = 1 => m.type \in {"started", "started_queued", "error"}
      BY <3>1, <3>2
    <3>9. more[k] = m
      BY <3>1
    <3>10. QED BY <3>9, <3>3, <3>4, <3>5, <3>6, <3>7, <3>8, <2>1
  <2>2. CASE k \in 1 .. L
    <3>1. more[k].audio <= w.fed
      <4>1. more[k].audio \in Nat
        BY <2>2, <1>1, <1>2
      <4>2. QED BY <4>1, <2>2, <1>5, <1>3
    <3>2. QED BY <3>1, <2>2, <1>5
  <2>3. QED BY <2>1, <2>2, <1>a
<1>7. ASSUME NEW k \in 1 .. L + 1, NEW j \in 1 .. L + 1, k < j, more[j].type \notin {"error", "close"}
      PROVE  more[k].type # "error" /\ more[k].audio <= more[j].audio
  <2>1. k \in 1 .. L
    BY <1>7, <1>1, <1>a
  <2>2. CASE j = L + 1
    <3>1. more[j] = m /\ v.at # "closed" /\ v.fed <= m.audio
      BY <1>1, <1>7, <2>2
    <3>2. more[k].audio \in Nat /\ m.audio \in Nat
      BY <2>1, <1>1, <1>2
    <3>3. QED BY <3>1, <3>2, <2>1, <1>5, <1>3
  <2>3. CASE j \in 1 .. L
    BY <2>1, <2>3, <1>5, <1>7
  <2>4. QED BY <2>2, <2>3, <1>a
<1>8. w.interims = Cardinality(InterimsOf(more, L + 1))
  BY <1>1 DEF LogOk, L
<1>9. /\ w.at = "active" => L + 1 >= 2 /\ more[2].type = "active"
      /\ w.at = "open" => L + 1 >= 3 /\ more[L + 1].type = "final"
  <2>1. v.at = "active" => L + 1 >= 3 /\ more[2] = log[2]
    BY <1>4, <1>1
  <2>2. m.type = "active" => L + 1 = 2 /\ more[2] = m
    <3>1. m.type = "active" => L = 1
      BY DEF L
    <3>2. L = 1 => more[2] = more[L + 1] /\ L + 1 = 2
      BY <1>1
    <3>3. QED BY <3>1, <3>2, <1>1
  <2>3. L + 1 >= 3 => L + 1 >= 2
    BY <1>1
  <2>4. more[L + 1] = m
    BY <1>1
  <2>5. QED BY <2>1, <2>2, <2>3, <2>4, <1>4
<1>10. w.at \in {"queued", "granted"} => L + 1 = 1 /\ w.fed = 0
  BY <1>1 DEF L
<1>11. LogOk(more, w)
  <2>1. Len(more) = L + 1 /\ more \in Seq(ClientMessages)
    BY <1>1
  <2>2. w.at \notin {"none", "asked"}
    OBVIOUS
  <2>3. \A k \in 1 .. Len(more) : \A j \in 1 .. Len(more) :
          k < j /\ more[j].type \notin {"error", "close"} =>
            more[k].type # "error" /\ more[k].audio <= more[j].audio
    BY <2>1, <1>7
  <2>4. \A k \in 1 .. Len(more) :
          /\ more[k].type \in {"started", "started_queued"} => k = 1
          /\ k = 1 => more[k].type \in {"started", "started_queued", "error"}
          /\ more[k].type = "active" => k = 2
          /\ more[k].type \in {"interim", "final"} => k >= 3 /\ more[2].type = "active"
          /\ more[k].type = "final" => k = Len(more) /\ w.at = "open" /\ more[k].audio = w.fed
          /\ more[k].type = "error" => w.at = "closed"
          /\ more[k].type = "close" => w.at = "closed" /\ k = Len(more)
          /\ more[k].audio <= w.fed
    BY <2>1, <1>6
  <2>5. w.interims = Cardinality(InterimsOf(more, Len(more)))
    BY <2>1, <1>8
  <2>6. QED BY <2>1, <2>2, <2>3, <2>4, <2>5, <1>9, <1>10 DEF LogOk
<1>12. QED BY <1>11 DEF more

\* Saying nothing, the service may still move on.
LEMMA LogSaysNothing ==
  ASSUME NEW log \in Seq(ClientMessages), NEW v \in ServicePlaces, LogOk(log, v),
         NEW w \in ServicePlaces, w.interims = v.interims,
         \/ v.at = "none" /\ w.at = "asked" /\ w.fed = v.fed
         \/ v.at = "queued" /\ w.at = "granted" /\ w.fed = v.fed
         \/ v.at = "active" /\ w.at = "active" /\ v.fed <= w.fed
  PROVE  LogOk(log, w)
<1>1. ASSUME NEW k \in 1 .. Len(log) PROVE log[k] \in ClientMessages /\ log[k].audio \in Nat
  <2>1. log[k] \in ClientMessages
    OBVIOUS
  <2>2. QED BY <2>1 DEF ClientMessages
<1>2. v.fed \in Nat /\ w.fed \in Nat
  BY DEF ServicePlaces
<1>3. ASSUME NEW k \in 1 .. Len(log)
      PROVE  /\ log[k].audio <= w.fed /\ log[k].type \notin {"final", "error", "close"}
             /\ log[k].type \in {"started", "started_queued"} => k = 1
             /\ k = 1 => log[k].type \in {"started", "started_queued", "error"}
             /\ log[k].type = "active" => k = 2
             /\ log[k].type \in {"interim", "final"} => k >= 3 /\ log[2].type = "active"
             /\ \A m \in 1 .. Len(log) :
                  k < m /\ log[m].type \notin {"error", "close"} =>
                    log[k].type # "error" /\ log[k].audio <= log[m].audio
  <2>1. log[k].audio <= v.fed /\ v.fed <= w.fed /\ log[k].audio \in Nat
    BY <1>1, <1>2 DEF LogOk
  <2>2. log[k].audio <= w.fed
    BY <2>1, <1>2
  <2>3. QED BY <2>2 DEF LogOk
<1>4. /\ w.at \in {"none", "asked"} => Len(log) = 0
      /\ w.at \in {"queued", "granted"} => Len(log) = 1
      /\ w.at \in {"none", "asked", "queued", "granted"} => w.fed = 0
      /\ w.at = "active" => Len(log) >= 2 /\ log[2].type = "active"
      /\ w.at \notin {"open", "closed"}
      /\ w.interims = Cardinality(InterimsOf(log, Len(log)))
  BY <1>2 DEF LogOk
<1>5. QED BY <1>3, <1>4 DEF LogOk

\* A final is the last word of a service that is open again.
LEMMA FinalIsLast ==
  ASSUME NEW log \in Seq(ClientMessages), NEW v, LogOk(log, v), NEW n \in 1 .. Len(log),
         log[n].type = "final"
  PROVE  v.at = "open" /\ n = Len(log)
BY DEF LogOk

\* What a client has noted or kept is not touched by what the service says next.
LEMMA ClientUntouched ==
  ASSUME NEW log \in Seq(ClientMessages), NEW v, LogOk(log, v), v.at # "open",
         NEW m \in ClientMessages, NEW n \in 0 .. Len(log), NEW c, NEW w
  PROVE  /\ NotedOk(c, v, log, n) => NotedOk(c, w, Append(log, m), n) /\ NotedOk(c, w, log, n)
         /\ EventsOk(c, log, n) => EventsOk(c, Append(log, m), n)
<1> DEFINE more == Append(log, m)
<1>1. /\ Len(log) \in Nat /\ Len(more) = Len(log) + 1
      /\ \A k \in 1 .. Len(log) : more[k] = log[k]
      /\ InterimsOf(more, n) = InterimsOf(log, n)
  BY LogGrows
<1>2. n >= 1 => log[n].type # "final"
  BY <1>1, FinalIsLast
<1>3. n >= 2 => more[2] = log[2]
  BY <1>1
<1>4. \A k \in 1 .. n : more[k] = log[k]
  BY <1>1
<1> HIDE DEF more
<1>5. ASSUME NotedOk(c, v, log, n) PROVE NotedOk(c, w, more, n) /\ NotedOk(c, w, log, n)
  <2>1. c.receiver # "returned"
    BY <1>5, <1>2 DEF NotedOk
  <2>2. c.interims = Cardinality(InterimsOf(more, n))
    BY <1>5, <1>1 DEF NotedOk
  <2>3. (n >= 2 /\ more[2].type = "active") <=> (n >= 2 /\ log[2].type = "active")
    BY <1>3
  <2>4. NotedOk(c, w, log, n)
    BY <1>5, <2>1 DEF NotedOk
  <2>5. NotedOk(c, w, more, n)
    BY <1>5, <2>1, <2>2, <2>3 DEF NotedOk
  <2>6. QED BY <2>4, <2>5
<1>6. ASSUME EventsOk(c, log, n) PROVE EventsOk(c, more, n)
  <2>1. c.at # "done"
    BY <1>6, <1>2 DEF EventsOk
  <2>2. \A k \in 1 .. n : more[k].type # "close"
    BY <1>6, <1>4 DEF EventsOk
  <2>3. \A k \in 1 .. Len(c.events) : c.events[k] = more[k + 1]
    <3>1. ASSUME NEW k \in 1 .. Len(c.events) PROVE k + 1 \in 1 .. n
      <4>1. n = 0 => c.events = <<>>
        BY <1>6 DEF EventsOk
      <4>2. n >= 1 => Len(c.events) = n - 1
        BY <1>6 DEF EventsOk
      <4>3. QED BY <4>1, <4>2
    <3>2. \A k \in 1 .. Len(c.events) : c.events[k] = log[k + 1]
      BY <1>6 DEF EventsOk
    <3>3. QED BY <3>1, <3>2, <1>4
  <2>4. QED BY <1>6, <2>1, <2>2, <2>3 DEF EventsOk
<1>7. QED BY <1>5, <1>6 DEF more

\* What the service says, with the place it is at and the one it gets to.
MaySay(v, c, m, w) ==
  \/ /\ v.at = "asked" /\ m.type \in {"started", "started_queued"} /\ m.audio = 0
     /\ w.at \in {"granted", "queued"} /\ w.fed = v.fed /\ w.interims = v.interims
  \/ /\ v.at = "granted" /\ m.type = "active" /\ m.audio = 0
     /\ w.at = "active" /\ w.fed = v.fed /\ w.interims = v.interims
  \/ /\ v.at = "active" /\ m.type = "interim" /\ m.audio = v.fed + 1 /\ v.fed < c.sent
     /\ w.at = "active" /\ w.fed = v.fed + 1 /\ w.interims = v.interims + 1
  \/ /\ v.at = "active" /\ m.type = "final" /\ m.audio = v.fed /\ v.fed = c.sent /\ c.at = "ended"
     /\ w.at = "open" /\ w.fed = v.fed /\ w.interims = v.interims
  \/ /\ v.at \in {"asked", "queued", "active"} /\ m.type = "error" /\ m.audio = 0
     /\ w.at = "closed" /\ w.fed = v.fed /\ w.interims = v.interims

(* One more message of the service to a stream. *)
LEMMA ServiceSays ==
  ASSUME NEW log \in Seq(ClientMessages), NEW n \in 0 .. Len(log), NEW box, NEW tool, NEW frames \in Nat,
         NEW c \in ClientPlaces, NEW v \in ServicePlaces, StreamAt(c, v, box, log, n, tool, frames),
         NEW w \in ServicePlaces, NEW m \in ClientMessages,
         MaySay(v, c, m, w)
  PROVE  /\ StreamAt(c, w, Append(box, m), Append(log, m), n, tool, frames)
         /\ \A k \in 1 .. Len(log) : log[k].type \notin {"final", "close"}
<1>1. /\ LogOk(log, v) /\ BoxOk(box, log, n) /\ PlaceOk(c, v, n, frames)
      /\ tool = "bench" => NotedOk(c, v, log, n)
      /\ tool = "probe" => EventsOk(c, log, n)
  BY DEF StreamAt
<1>2. \A k \in 1 .. Len(log) : log[k].type \notin {"final", "close"}
  BY <1>1 DEF LogOk, MaySay
<1>3. /\ v.at = "asked" => Len(log) = 0 /\ v.fed = 0
      /\ v.at \in {"queued", "granted"} => Len(log) = 1 /\ v.fed = 0
      /\ v.at = "active" => Len(log) # 0 /\ Len(log) # 1
  BY <1>1 DEF LogOk
<1>4. v.fed \in Nat /\ w.fed \in Nat /\ c.sent \in Nat /\ m.audio \in Nat /\ v.interims \in Nat
  BY DEF ServicePlaces, ClientPlaces, ClientMessages
<1>5. LogOk(Append(log, m), w)
  <2>1. v.fed <= w.fed /\ m.audio <= w.fed
    BY <1>3, <1>4 DEF MaySay
  <2>2. m.type \notin {"error", "close"} => v.at # "closed" /\ v.fed <= m.audio
    BY <1>3, <1>4 DEF MaySay
  <2>3. w.interims = v.interims + IF m.type = "interim" THEN 1 ELSE 0
    BY <1>4 DEF MaySay
  <2>4. /\ m.type \in {"started", "started_queued"} => Len(log) = 0
        /\ Len(log) = 0 => m.type \in {"started", "started_queued", "error"}
        /\ m.type = "active" => Len(log) = 1
        /\ w.at \in {"queued", "granted"} => Len(log) = 0 /\ w.fed = 0
    <3>1. Len(log) = 0 => v.at = "asked"
      <4>1. Len(log) = 0 => Len(log) # 1
        BY DEF MaySay
      <4>2. QED BY <4>1, <1>3 DEF MaySay
    <3>2. m.type \in {"started", "started_queued"} => v.at = "asked"
      BY DEF MaySay
    <3>3. v.at = "asked" => m.type \in {"started", "started_queued", "error"}
      BY DEF MaySay
    <3>4. m.type = "active" => v.at = "granted"
      BY DEF MaySay
    <3>5. w.at \in {"queued", "granted"} => v.at = "asked" /\ w.fed = v.fed
      BY DEF MaySay
    <3>6. QED BY <3>1, <3>2, <3>3, <3>4, <3>5, <1>3
  <2>5. /\ m.type \in {"error", "close"} => w.at = "closed"
        /\ m.type \in {"interim", "final"} => v.at = "active"
        /\ m.type = "final" => w.at = "open" /\ m.audio = w.fed
        /\ v.at = "closed" => w.at = "closed"
        /\ w.at \notin {"none", "asked"}
        /\ w.at = "active" => v.at = "active" \/ m.type = "active"
        /\ w.at = "open" => v.at = "active" /\ m.type = "final"
    BY DEF MaySay
  <2>6. QED BY <1>1, <1>2, <2>1, <2>2, <2>3, <2>4, <2>5, LogSaysMore
<1>6. BoxOk(Append(box, m), Append(log, m), n)
  BY <1>1, BoxGrows
<1>7. PlaceOk(c, w, n, frames)
  <2>1. v.at # "none" /\ v.fed <= c.sent /\ c.sent <= frames
    BY <1>1 DEF PlaceOk, MaySay
  <2>2. w.fed <= c.sent
    BY <2>1, <1>4 DEF MaySay
  <2>3. w.at = "open" => c.at = "ended" /\ w.fed = c.sent
    BY DEF MaySay
  <2>4. c.at = "idle" => v.at = "none"
    BY <1>1 DEF PlaceOk
  <2>5. c.at # "idle"
    BY <2>1, <2>4
  <2>6. QED BY <1>1, <2>2, <2>3, <2>5 DEF PlaceOk
<1>8. v.at # "open"
  BY DEF MaySay
<1>9. /\ tool = "bench" => NotedOk(c, w, Append(log, m), n)
      /\ tool = "probe" => EventsOk(c, Append(log, m), n)
  BY <1>1, <1>8, ClientUntouched
<1>10. QED BY <1>2, <1>5, <1>6, <1>7, <1>9 DEF StreamAt

(* Moving on without a word. *)
LEMMA ServiceQuiet ==
  ASSUME NEW log \in Seq(ClientMessages), NEW n \in 0 .. Len(log), NEW box, NEW tool, NEW frames \in Nat,
         NEW c \in ClientPlaces, NEW v \in ServicePlaces, StreamAt(c, v, box, log, n, tool, frames),
         NEW w \in ServicePlaces, w.interims = v.interims,
         \/ v.at = "queued" /\ w.at = "granted" /\ w.fed = v.fed
         \/ v.at = "active" /\ w.at = "active" /\ w.fed = v.fed + 1 /\ v.fed < c.sent
  PROVE  StreamAt(c, w, box, log, n, tool, frames)
<1>1. /\ LogOk(log, v) /\ BoxOk(box, log, n) /\ PlaceOk(c, v, n, frames)
      /\ tool = "bench" => NotedOk(c, v, log, n)
      /\ tool = "probe" => EventsOk(c, log, n)
  BY DEF StreamAt
<1>2. v.fed \in Nat /\ w.fed \in Nat /\ c.sent \in Nat
  BY DEF ServicePlaces, ClientPlaces
<1>3. LogOk(log, w)
  <2>1. v.at = "active" /\ w.at = "active" /\ w.fed = v.fed + 1 => v.fed <= w.fed
    BY <1>2
  <2>2. \/ v.at = "none" /\ w.at = "asked" /\ w.fed = v.fed
        \/ v.at = "queued" /\ w.at = "granted" /\ w.fed = v.fed
        \/ v.at = "active" /\ w.at = "active" /\ v.fed <= w.fed
    BY <2>1
  <2>3. QED BY <1>1, <2>2, LogSaysNothing
<1>4. PlaceOk(c, w, n, frames)
  <2>1. w.fed <= c.sent
    BY <1>1, <1>2 DEF PlaceOk
  <2>2. c.at # "idle"
    BY <1>1 DEF PlaceOk
  <2>3. QED BY <1>1, <2>1, <2>2 DEF PlaceOk
<1>5. v.at # "open"
  OBVIOUS
<1>6. [type |-> "error", audio |-> 0] \in ClientMessages
  BY DEF ClientMessages
<1>7. tool = "bench" => NotedOk(c, w, log, n)
  BY <1>1, <1>5, <1>6, ClientUntouched
<1>8. QED BY <1>1, <1>3, <1>4, <1>7 DEF StreamAt

(* An error, and the connection is closed. *)
LEMMA ServiceCloses ==
  ASSUME NEW log \in Seq(ClientMessages), NEW n \in 0 .. Len(log), NEW box, NEW tool, NEW frames \in Nat,
         NEW c \in ClientPlaces, NEW v \in ServicePlaces, StreamAt(c, v, box, log, n, tool, frames),
         NEW w \in ServicePlaces, v.at \in {"asked", "queued", "active"},
         w.at = "closed", w.fed = v.fed, w.interims = v.interims,
         NEW e \in ClientMessages, e.type = "error", e.audio = 0,
         NEW d \in ClientMessages, d.type = "close", d.audio = 0
  PROVE  StreamAt(c, w, Append(Append(box, e), d), Append(Append(log, e), d), n, tool, frames)
<1> DEFINE more == Append(log, e)
           moreBox == Append(box, e)
<1>1. /\ StreamAt(c, w, moreBox, more, n, tool, frames)
      /\ \A k \in 1 .. Len(log) : log[k].type \notin {"final", "close"}
  <2>1. MaySay(v, c, e, w)
    BY DEF MaySay
  <2> HIDE DEF more, moreBox
  <2>2. /\ StreamAt(c, w, Append(box, e), Append(log, e), n, tool, frames)
        /\ \A k \in 1 .. Len(log) : log[k].type \notin {"final", "close"}
    BY <2>1, ServiceSays
  <2>3. QED BY <2>2 DEF more, moreBox
<1>2. /\ more \in Seq(ClientMessages) /\ Len(log) \in Nat /\ Len(more) = Len(log) + 1
      /\ \A k \in 1 .. Len(log) : more[k] = log[k]
      /\ more[Len(log) + 1] = e
  BY LogGrows
<1> HIDE DEF more, moreBox
<1>3. /\ LogOk(more, w) /\ BoxOk(moreBox, more, n) /\ PlaceOk(c, w, n, frames)
      /\ tool = "bench" => NotedOk(c, w, more, n)
      /\ tool = "probe" => EventsOk(c, more, n)
  BY <1>1 DEF StreamAt
<1>4. \A k \in 1 .. Len(more) : more[k].type \notin {"final", "close"}
  <2>1. \A k \in 1 .. Len(more) : k = Len(log) + 1 \/ k \in 1 .. Len(log)
    BY <1>2
  <2>2. QED BY <2>1, <1>1, <1>2
<1>5. w.fed \in Nat /\ d.audio \in Nat /\ w.interims \in Nat /\ Len(more) # 0 /\ n \in 0 .. Len(more)
  BY <1>2 DEF ServicePlaces
<1>6. LogOk(Append(more, d), w)
  <2>1. w.fed <= w.fed /\ d.audio <= w.fed /\ w.interims = w.interims + IF d.type = "interim" THEN 1 ELSE 0
    BY <1>5
  <2>2. QED BY <1>2, <1>3, <1>4, <1>5, <2>1, LogSaysMore
<1>7. BoxOk(Append(moreBox, d), Append(more, d), n)
  BY <1>2, <1>3, BoxGrows
<1>8. w.at # "open"
  OBVIOUS
<1>9. /\ tool = "bench" => NotedOk(c, w, Append(more, d), n)
      /\ tool = "probe" => EventsOk(c, Append(more, d), n)
  BY <1>2, <1>3, <1>5, <1>8, ClientUntouched
<1>10. StreamAt(c, w, Append(moreBox, d), Append(more, d), n, tool, frames)
  BY <1>3, <1>6, <1>7, <1>9 DEF StreamAt
<1>11. QED BY <1>10 DEF more, moreBox

\* One mark more.
LEMMA MarksMore ==
  ASSUME NEW s \in Seq(Marks), NEW x \in Marks
  PROVE  /\ Append(s, x) \in Seq(Marks)
         /\ \A y : HasMark(Append(s, x), y) <=> HasMark(s, y) \/ y = x
         /\ MarksInOrder(s) /\ ~HasMark(s, x) /\ ~HasMark(s, "final")
              /\ (x = "active" => ~HasMark(s, "interim")) => MarksInOrder(Append(s, x))
<1> DEFINE more == Append(s, x)
<1>1. /\ more \in Seq(Marks) /\ Len(s) \in Nat /\ Len(more) = Len(s) + 1 /\ more[Len(s) + 1] = x
      /\ \A k \in 1 .. Len(s) : more[k] = s[k]
  OBVIOUS
<1>2. \A k \in 1 .. Len(more) : k \in 1 .. Len(s) \/ k = Len(s) + 1
  BY <1>1
<1> HIDE DEF more
<1>3. ASSUME NEW y PROVE HasMark(more, y) <=> HasMark(s, y) \/ y = x
  <2>1. ASSUME HasMark(more, y) PROVE HasMark(s, y) \/ y = x
    <3>1. PICK k \in 1 .. Len(more) : more[k] = y
      BY <2>1 DEF HasMark
    <3>2. QED BY <3>1, <1>1, <1>2 DEF HasMark
  <2>2. ASSUME HasMark(s, y) \/ y = x PROVE HasMark(more, y)
    <3>1. \A k \in 1 .. Len(s) : k \in 1 .. Len(more)
      BY <1>1
    <3>2. Len(s) + 1 \in 1 .. Len(more)
      BY <1>1
    <3>3. QED BY <3>1, <3>2, <2>2, <1>1 DEF HasMark
  <2>3. QED BY <2>1, <2>2
<1>4. ASSUME MarksInOrder(s), ~HasMark(s, x), ~HasMark(s, "final"), x = "active" => ~HasMark(s, "interim")
      PROVE  MarksInOrder(more)
  <2>1. ASSUME NEW k \in 1 .. Len(more), NEW m \in 1 .. Len(more), k < m
        PROVE  more[k] # more[m] /\ more[k] # "final" /\ (more[m] = "active" => more[k] # "interim")
    <3>1. k \in 1 .. Len(s)
      BY <1>1, <2>1
    <3>2. CASE m \in 1 .. Len(s)
      BY <3>1, <3>2, <2>1, <1>1, <1>4 DEF MarksInOrder
    <3>3. CASE m = Len(s) + 1
      BY <3>1, <3>3, <1>1, <1>4 DEF HasMark
    <3>4. QED BY <3>2, <3>3, <1>2
  <2>2. QED BY <2>1 DEF MarksInOrder
<1>5. QED BY <1>1, <1>3, <1>4 DEF more

\* An empty list of marks.
LEMMA NoMarks == /\ \A y : ~HasMark(<<>>, y)
                 /\ MarksInOrder(<<>>)
BY DEF HasMark, MarksInOrder

(* A client connects, and the service is asked. *)
LEMMA ClientAsks ==
  ASSUME NEW log \in Seq(ClientMessages), NEW n \in 0 .. Len(log), NEW box, NEW tool, NEW frames \in Nat,
         NEW c \in ClientPlaces, NEW v \in ServicePlaces, StreamAt(c, v, box, log, n, tool, frames),
         NEW d \in ClientPlaces, NEW w \in ServicePlaces, c.at = "idle",
         d.at = "starting", d.receiver = c.receiver, d.sent = c.sent, d.interims = c.interims,
         d.noted = c.noted, d.events = c.events, d.heard = c.heard,
         w.at = "asked", w.fed = v.fed, w.interims = v.interims
  PROVE  StreamAt(d, w, box, log, n, tool, frames)
<1>1. /\ LogOk(log, v) /\ BoxOk(box, log, n) /\ PlaceOk(c, v, n, frames)
      /\ tool = "bench" => NotedOk(c, v, log, n)
      /\ tool = "probe" => EventsOk(c, log, n)
  BY DEF StreamAt
<1>2. v.at = "none" /\ n = 0
  BY <1>1 DEF PlaceOk
<1>3. LogOk(log, w)
  BY <1>1, <1>2, LogSaysNothing
<1>4. PlaceOk(d, w, n, frames)
  BY <1>1, <1>2 DEF PlaceOk
<1>5. tool = "bench" => NotedOk(d, w, log, n)
  BY <1>1, <1>2 DEF NotedOk
<1>6. tool = "probe" => EventsOk(d, log, n)
  BY <1>1, <1>2 DEF EventsOk
<1>7. QED BY <1>1, <1>3, <1>4, <1>5, <1>6 DEF StreamAt

(* It takes the first answer and starts to send. *)
LEMMA ClientStarts ==
  ASSUME NEW log \in Seq(ClientMessages), NEW n \in 0 .. Len(log), NEW box, NEW tool, NEW frames \in Nat,
         NEW c \in ClientPlaces, NEW v \in ServicePlaces, StreamAt(c, v, box, log, n, tool, frames),
         NEW d \in ClientPlaces, c.at = "starting", box # <<>>,
         d.at = "sending", d.receiver = IF tool = "bench" THEN "reading" ELSE "none", d.sent = c.sent,
         d.interims = c.interims, d.noted = c.noted, d.events = c.events, d.heard = c.heard
  PROVE  /\ n + 1 \in 0 .. Len(log)
         /\ StreamAt(d, v, Tail(box), log, n + 1, tool, frames)
<1>1. /\ LogOk(log, v) /\ BoxOk(box, log, n) /\ PlaceOk(c, v, n, frames)
      /\ tool = "bench" => NotedOk(c, v, log, n)
      /\ tool = "probe" => EventsOk(c, log, n)
  BY DEF StreamAt
<1>2. n = 0
  BY <1>1 DEF PlaceOk
<1>3. n + 1 \in 1 .. Len(log) /\ BoxOk(Tail(box), log, n + 1) /\ Head(box) = log[n + 1]
  BY <1>1, BoxTaken
<1>4. v.at \notin {"none", "open"}
  <2>1. Len(log) # 0
    BY <1>3
  <2>2. v.at = "open" => c.at \in {"ended", "done"}
    BY <1>1 DEF PlaceOk
  <2>3. QED BY <2>1, <2>2, <1>1 DEF LogOk
<1>5. PlaceOk(d, v, n + 1, frames)
  BY <1>1, <1>2, <1>4 DEF PlaceOk
<1>6. log[1].type \in {"started", "started_queued", "error"} /\ 1 \in 1 .. Len(log)
  BY <1>1, <1>2, <1>3 DEF LogOk
<1>7. ASSUME tool = "bench" PROVE NotedOk(d, v, log, n + 1)
  <2>1. Cardinality(InterimsOf(log, n + 1)) = Cardinality(InterimsOf(log, n))
    <3>1. /\ Cardinality(InterimsOf(log, n)) \in Nat
          /\ Cardinality(InterimsOf(log, n + 1)) =
               Cardinality(InterimsOf(log, n)) + IF log[n + 1].type = "interim" THEN 1 ELSE 0
      BY <1>3, InterimsMore
    <3>2. log[n + 1].type # "interim"
      BY <1>2, <1>6
    <3>3. QED BY <3>1, <3>2
  <2>2. d.receiver = "reading" /\ c.receiver = "none"
    BY <1>1, <1>7 DEF NotedOk
  <2>3. ~(n >= 2) /\ ~(n + 1 >= 2)
    BY <1>2
  <2>4. QED BY <1>1, <1>7, <2>1, <2>2, <2>3 DEF NotedOk
<1>8. ASSUME tool = "probe" PROVE EventsOk(d, log, n + 1)
  <2>1. d.events = <<>>
    BY <1>1, <1>2, <1>8 DEF EventsOk
  <2>2. \A k \in 1 .. n + 1 : log[k].type # "close"
    BY <1>2, <1>6
  <2>3. Len(d.events) = (n + 1) - 1 /\ \A k \in 1 .. Len(d.events) : d.events[k] = log[k + 1]
    BY <2>1, <1>2
  <2>4. d.receiver = "none" /\ n + 1 # 0
    BY <1>8, <1>2
  <2>5. QED BY <2>1, <2>2, <2>3, <2>4 DEF EventsOk
<1>9. QED BY <1>1, <1>3, <1>5, <1>7, <1>8 DEF StreamAt

(* It sends: a frame, or the end, which a benchmark notes. *)
LEMMA ClientSends ==
  ASSUME NEW log \in Seq(ClientMessages), NEW n \in 0 .. Len(log), NEW box, NEW tool, NEW frames \in Nat,
         NEW c \in ClientPlaces, NEW v \in ServicePlaces, StreamAt(c, v, box, log, n, tool, frames),
         NEW d \in ClientPlaces, c.at = "sending",
         \/ /\ c.sent < frames /\ d.sent = c.sent + 1 /\ d.noted = c.noted
            /\ d.at = IF tool = "probe" THEN "polling" ELSE "sending"
         \/ c.sent = frames /\ d.sent = c.sent /\ d.noted = Append(c.noted, "end") /\ d.at = "ended",
         d.receiver = c.receiver, d.interims = c.interims, d.events = c.events, d.heard = c.heard
  PROVE  StreamAt(d, v, box, log, n, tool, frames)
<1>1. /\ LogOk(log, v) /\ BoxOk(box, log, n) /\ PlaceOk(c, v, n, frames)
      /\ tool = "bench" => NotedOk(c, v, log, n)
      /\ tool = "probe" => EventsOk(c, log, n)
  BY DEF StreamAt
<1>2. c.sent \in Nat /\ d.sent \in Nat /\ v.fed \in Nat /\ c.noted \in Seq(Marks)
  BY DEF ClientPlaces, ServicePlaces
<1>3. n >= 1 /\ v.at # "open" /\ v.fed <= c.sent /\ c.sent <= frames
  BY <1>1 DEF PlaceOk
<1>4. log[n].type # "final"
  <2>1. n \in 1 .. Len(log)
    BY <1>3
  <2>2. QED BY <2>1, <1>1, <1>3, FinalIsLast
<1>5. PlaceOk(d, v, n, frames)
  <2>1. v.fed <= d.sent /\ d.sent <= frames
    BY <1>2, <1>3
  <2>2. d.at \in {"polling", "sending", "ended"} /\ (d.at = "ended" => d.sent = frames)
    BY <1>2
  <2>3. QED BY <1>3, <2>1, <2>2 DEF PlaceOk
<1>6. ASSUME tool = "bench" PROVE NotedOk(d, v, log, n)
  <2>1. c.receiver \notin {"none", "returned"}
    BY <1>1, <1>6, <1>4 DEF NotedOk
  <2>2. CASE c.sent < frames /\ d.noted = c.noted /\ d.at = "sending"
    BY <1>1, <1>6, <2>1, <2>2 DEF NotedOk
  <2>3. CASE d.noted = Append(c.noted, "end") /\ d.at = "ended"
    <3>1. "end" \in Marks
      BY DEF Marks
    <3>2. ~HasMark(c.noted, "end") /\ ~HasMark(c.noted, "final") /\ MarksInOrder(c.noted)
      BY <1>1, <1>6, <2>1 DEF NotedOk
    <3>3. /\ \A y : HasMark(d.noted, y) <=> HasMark(c.noted, y) \/ y = "end"
          /\ MarksInOrder(d.noted)
      BY <1>2, <3>1, <3>2, <2>3, MarksMore
    <3>4. QED BY <1>1, <1>6, <2>1, <2>3, <3>3 DEF NotedOk
  <2>4. QED BY <1>6, <2>2, <2>3
<1>7. tool = "probe" => EventsOk(d, log, n)
  BY <1>1 DEF EventsOk
<1>8. QED BY <1>1, <1>5, <1>6, <1>7 DEF StreamAt

\* What becomes of a benchmark stream with a message, and of a probe.
Takes(c, m, d) ==
  /\ c.receiver = "reading" /\ d.at = c.at /\ d.sent = c.sent
  /\ m.type = "interim" => /\ d.interims = c.interims + 1 /\ d.receiver = c.receiver
                           /\ d.noted = IF c.interims = 0 THEN Append(c.noted, "interim") ELSE c.noted
  /\ m.type # "interim" => d.interims = c.interims
  /\ m.type = "active" => d.noted = Append(c.noted, "active") /\ d.receiver = c.receiver
  /\ m.type = "final" => d.noted = Append(c.noted, "final") /\ d.receiver = "returned" /\ d.heard = m.audio
  /\ m.type \in {"error", "close"} => d.noted = c.noted /\ d.receiver = "raised"
Keeps(c, m, d) ==
  /\ c.at \in {"polling", "ended"} /\ m.type # "close"
  /\ d.at = c.at \/ (c.at = "ended" /\ m.type = "final" /\ d.at = "done")
  /\ d.receiver = c.receiver /\ d.sent = c.sent /\ d.events = Append(c.events, m)

(* The receiver of a benchmark stream takes what has come. *)
LEMMA ReceiverTakes ==
  ASSUME NEW log \in Seq(ClientMessages), NEW n \in 0 .. Len(log), NEW box, NEW frames \in Nat,
         NEW c \in ClientPlaces, NEW v \in ServicePlaces, StreamAt(c, v, box, log, n, "bench", frames),
         NEW d \in ClientPlaces, box # <<>>, Takes(c, Head(box), d)
  PROVE  /\ n + 1 \in 0 .. Len(log)
         /\ StreamAt(d, v, Tail(box), log, n + 1, "bench", frames)
<1> DEFINE m == Head(box)
<1>1. LogOk(log, v) /\ BoxOk(box, log, n) /\ PlaceOk(c, v, n, frames) /\ NotedOk(c, v, log, n)
  BY DEF StreamAt
<1>2. /\ n \in Nat /\ n + 1 \in 1 .. Len(log) /\ m = log[n + 1] /\ m \in ClientMessages
      /\ BoxOk(Tail(box), log, n + 1)
  BY <1>1, BoxTaken
<1> HIDE DEF m
<1>a. /\ c.receiver = "reading" /\ d.at = c.at /\ d.sent = c.sent
      /\ m.type = "interim" => /\ d.interims = c.interims + 1 /\ d.receiver = c.receiver
                               /\ d.noted = IF c.interims = 0 THEN Append(c.noted, "interim") ELSE c.noted
      /\ m.type # "interim" => d.interims = c.interims
      /\ m.type = "active" => d.noted = Append(c.noted, "active") /\ d.receiver = c.receiver
      /\ m.type = "final" => d.noted = Append(c.noted, "final") /\ d.receiver = "returned" /\ d.heard = m.audio
      /\ m.type \in {"error", "close"} => d.noted = c.noted /\ d.receiver = "raised"
  BY DEF Takes, m
<1> USE <1>a
<1>3. n >= 1 /\ c.at \notin {"idle", "starting", "polling", "done"}
  BY <1>1 DEF PlaceOk, NotedOk
<1>4. PlaceOk(d, v, n + 1, frames)
  <2>1. n + 1 >= 1
    BY <1>2
  <2>2. QED BY <1>1, <1>3, <2>1 DEF PlaceOk
<1>5. /\ c.noted \in Seq(Marks) /\ c.interims \in Nat
      /\ "active" \in Marks /\ "interim" \in Marks /\ "final" \in Marks
  BY DEF ClientPlaces, Marks
<1>6. m.type \in {"active", "interim", "final", "error", "close"}
  <2>1. m.type \in {"started", "started_queued"} => n + 1 = 1
    BY <1>1, <1>2 DEF LogOk
  <2>2. n + 1 # 1
    BY <1>2, <1>3
  <2>3. QED BY <1>2, <2>1, <2>2 DEF ClientMessages
<1>7. /\ Cardinality(InterimsOf(log, n)) = c.interims
      /\ Cardinality(InterimsOf(log, n + 1)) = c.interims + IF m.type = "interim" THEN 1 ELSE 0
      /\ Cardinality(InterimsOf(log, n + 1)) = d.interims
  <2>1. /\ Cardinality(InterimsOf(log, n)) = c.interims
        /\ Cardinality(InterimsOf(log, n + 1)) =
             Cardinality(InterimsOf(log, n)) + IF log[n + 1].type = "interim" THEN 1 ELSE 0
    BY <1>1, <1>2, InterimsMore DEF NotedOk
  <2>2. QED BY <2>1, <1>2, <1>5
<1>8. /\ ~HasMark(c.noted, "final") /\ MarksInOrder(c.noted)
      /\ HasMark(c.noted, "end") <=> c.at \in {"ended", "done"}
      /\ HasMark(c.noted, "active") <=> n >= 2 /\ log[2].type = "active"
      /\ HasMark(c.noted, "interim") <=> c.interims # 0
  BY <1>1 DEF NotedOk
<1>9. /\ HasMark(d.noted, "end") <=> d.at \in {"ended", "done"}
      /\ HasMark(d.noted, "active") <=> n + 1 >= 2 /\ log[2].type = "active"
      /\ HasMark(d.noted, "interim") <=> d.interims # 0
      /\ HasMark(d.noted, "final") <=> d.receiver = "returned"
      /\ MarksInOrder(d.noted)
  <2>1. CASE m.type = "active"
    <3>1. n + 1 = 2
      BY <1>1, <1>2, <2>1 DEF LogOk
    <3>2. n + 1 >= 2 /\ ~(n >= 2) /\ log[2].type = "active"
      BY <3>1, <1>2, <2>1
    <3>3. c.interims = 0
      <4>1. InterimsOf(log, n) = {}
        <5>1. \A k \in 1 .. n : k \in 1 .. Len(log) /\ ~(k >= 3)
          BY <3>1, <1>2
        <5>2. QED BY <5>1, <1>1 DEF InterimsOf, LogOk
      <4>2. QED BY <4>1, <1>7, FS_EmptySet
    <3>4. ~HasMark(c.noted, "active") /\ ~HasMark(c.noted, "interim")
      BY <1>8, <3>2, <3>3
    <3>5. /\ \A y : HasMark(d.noted, y) <=> HasMark(c.noted, y) \/ y = "active"
          /\ MarksInOrder(d.noted)
      <4>1. d.noted = Append(c.noted, "active")
        BY <2>1
      <4>2. QED BY <1>5, <1>8, <3>4, <4>1, MarksMore
    <3>6. QED BY <1>8, <2>1, <3>2, <3>5
  <2>2. CASE m.type = "interim"
    <3>1. n + 1 >= 3 /\ log[2].type = "active"
      BY <1>1, <1>2, <2>2 DEF LogOk
    <3>2. n >= 2 /\ n + 1 >= 2 /\ d.interims # 0
      BY <3>1, <1>2, <2>2, <1>5
    <3>3. CASE c.interims = 0
      <4>1. ~HasMark(c.noted, "interim") /\ d.noted = Append(c.noted, "interim")
        BY <1>8, <3>3, <2>2
      <4>2. /\ \A y : HasMark(d.noted, y) <=> HasMark(c.noted, y) \/ y = "interim"
            /\ MarksInOrder(d.noted)
        BY <1>5, <1>8, <4>1, MarksMore
      <4>3. QED BY <1>8, <2>2, <3>1, <3>2, <4>2
    <3>4. CASE c.interims # 0
      BY <1>8, <2>2, <3>1, <3>2, <3>4
    <3>5. QED BY <3>3, <3>4
  <2>3. CASE m.type = "final"
    <3>1. n + 1 >= 3
      BY <1>1, <1>2, <2>3 DEF LogOk
    <3>2. n >= 2 /\ n + 1 >= 2
      BY <3>1, <1>2
    <3>3. /\ \A y : HasMark(d.noted, y) <=> HasMark(c.noted, y) \/ y = "final"
          /\ MarksInOrder(d.noted)
      <4>1. d.noted = Append(c.noted, "final")
        BY <2>3
      <4>2. QED BY <1>5, <1>8, <4>1, MarksMore
    <3>4. QED BY <1>8, <2>3, <3>2, <3>3
  <2>4. CASE m.type \in {"error", "close"}
    <3>1. n + 1 >= 2 /\ log[2].type = "active" => n >= 2
      <4>1. n + 1 = 2 => log[2] = m
        BY <1>2
      <4>2. n + 1 >= 2 => n >= 2 \/ n + 1 = 2
        BY <1>2
      <4>3. QED BY <4>1, <4>2, <2>4
    <3>2. n >= 2 => n + 1 >= 2
      BY <1>2
    <3>3. QED BY <1>8, <2>4, <3>1, <3>2
  <2>5. QED BY <2>1, <2>2, <2>3, <2>4, <1>6
<1>10. d.receiver = "returned" =>
         n + 1 = Len(log) /\ n + 1 >= 1 /\ log[n + 1].type = "final" /\ d.heard = v.fed
  <2>1. d.receiver = "returned" => m.type = "final"
    BY <1>6
  <2>2. m.type = "final" => n + 1 = Len(log) /\ m.audio = v.fed
    BY <1>1, <1>2 DEF LogOk
  <2>3. n + 1 >= 1
    BY <1>2
  <2>4. QED BY <2>1, <2>2, <2>3, <1>2
<1>11. d.receiver # "none"
  BY <1>6
<1>12. NotedOk(d, v, log, n + 1)
  BY <1>3, <1>7, <1>9, <1>10, <1>11 DEF NotedOk
<1>13. n + 1 \in 0 .. Len(log)
  BY <1>2
<1>14. QED BY <1>1, <1>2, <1>4, <1>12, <1>13 DEF StreamAt

(* A benchmark stream stops reading, or looks at what its receiver returned. *)
LEMMA ReceiverEnds ==
  ASSUME NEW log \in Seq(ClientMessages), NEW n \in 0 .. Len(log), NEW box, NEW frames \in Nat,
         NEW c \in ClientPlaces, NEW v \in ServicePlaces, StreamAt(c, v, box, log, n, "bench", frames),
         NEW d \in ClientPlaces,
         \/ c.receiver = "reading" /\ d.receiver = "raised" /\ d.at = c.at
         \/ c.at = "ended" /\ c.receiver = "returned" /\ d.receiver = "returned" /\ d.at = "done",
         d.sent = c.sent, d.interims = c.interims, d.noted = c.noted, d.heard = c.heard
  PROVE  StreamAt(d, v, box, log, n, "bench", frames)
<1>1. LogOk(log, v) /\ BoxOk(box, log, n) /\ PlaceOk(c, v, n, frames) /\ NotedOk(c, v, log, n)
  BY DEF StreamAt
<1>2. PlaceOk(d, v, n, frames)
  BY <1>1 DEF PlaceOk
<1>3. NotedOk(d, v, log, n)
  BY <1>1 DEF NotedOk
<1>4. QED BY <1>1, <1>2, <1>3 DEF StreamAt

(* A probe keeps what has come. *)
LEMMA ProbeKeeps ==
  ASSUME NEW log \in Seq(ClientMessages), NEW n \in 0 .. Len(log), NEW box, NEW frames \in Nat,
         NEW c \in ClientPlaces, NEW v \in ServicePlaces, StreamAt(c, v, box, log, n, "probe", frames),
         NEW d \in ClientPlaces, box # <<>>, Keeps(c, Head(box), d)
  PROVE  /\ n + 1 \in 0 .. Len(log)
         /\ StreamAt(d, v, Tail(box), log, n + 1, "probe", frames)
         /\ EventsInOrder(c.events) => EventsInOrder(d.events)
<1>a. /\ c.at \in {"polling", "ended"} /\ Head(box).type # "close"
      /\ d.at = c.at \/ (c.at = "ended" /\ Head(box).type = "final" /\ d.at = "done")
      /\ d.receiver = c.receiver /\ d.sent = c.sent /\ d.events = Append(c.events, Head(box))
  BY DEF Keeps
<1> USE <1>a
<1>1. LogOk(log, v) /\ BoxOk(box, log, n) /\ PlaceOk(c, v, n, frames) /\ EventsOk(c, log, n)
  BY DEF StreamAt
<1>2. /\ n \in Nat /\ n + 1 \in 1 .. Len(log) /\ Head(box) = log[n + 1] /\ Head(box) \in ClientMessages
      /\ BoxOk(Tail(box), log, n + 1)
  BY <1>1, BoxTaken
<1>3. n >= 1
  BY <1>1 DEF PlaceOk
<1>4. PlaceOk(d, v, n + 1, frames)
  <2>1. n + 1 >= 1
    BY <1>2
  <2>2. d.at \notin {"idle", "starting"} /\ (d.at \in {"ended", "done"} <=> c.at \in {"ended", "done"})
    OBVIOUS
  <2>3. QED BY <1>1, <2>1, <2>2 DEF PlaceOk
<1>5. /\ c.events \in Seq(ClientMessages) /\ Len(c.events) = n - 1
      /\ \A k \in 1 .. Len(c.events) : c.events[k] = log[k + 1]
      /\ \A k \in 1 .. n : log[k].type # "close"
  BY <1>1, <1>3 DEF EventsOk, ClientPlaces
<1>6. /\ Len(d.events) = n /\ d.events[n] = log[n + 1]
      /\ \A k \in 1 .. n - 1 : d.events[k] = c.events[k]
  <2>1. /\ Len(d.events) = Len(c.events) + 1 /\ d.events[Len(c.events) + 1] = Head(box)
        /\ \A k \in 1 .. Len(c.events) : d.events[k] = c.events[k]
    BY <1>2, <1>5
  <2>2. Len(c.events) + 1 = n
    BY <1>2, <1>5
  <2>3. QED BY <2>1, <2>2, <1>2, <1>5
<1>7. \A k \in 1 .. n : d.events[k] = log[k + 1]
  <2>1. \A k \in 1 .. n : k = n \/ k \in 1 .. n - 1
    BY <1>2
  <2>2. QED BY <2>1, <1>5, <1>6
<1>8. \A k \in 1 .. n + 1 : log[k].type # "close"
  <2>1. \A k \in 1 .. n + 1 : k = n + 1 \/ k \in 1 .. n
    BY <1>2
  <2>2. QED BY <2>1, <1>2, <1>5
<1>9. d.at = "done" => n + 1 = Len(log) /\ n + 1 >= 1 /\ log[n + 1].type = "final"
  <2>1. d.at = "done" => log[n + 1].type = "final"
    BY <1>2
  <2>2. log[n + 1].type = "final" => n + 1 = Len(log)
    BY <1>1, <1>2, FinalIsLast
  <2>3. n + 1 >= 1
    BY <1>2
  <2>4. QED BY <2>1, <2>2, <2>3
<1>10. EventsOk(d, log, n + 1)
  <2>1. Len(d.events) = (n + 1) - 1 /\ n + 1 # 0
    BY <1>6, <1>2
  <2>2. d.receiver = "none"
    BY <1>1 DEF EventsOk
  <2>3. QED BY <2>1, <2>2, <1>6, <1>7, <1>8, <1>9 DEF EventsOk
<1>11. ASSUME NEW k \in 1 .. Len(d.events), NEW m \in 1 .. Len(d.events), k < m
       PROVE  /\ d.events[k].type # "final"
              /\ d.events[m].type = "error" \/ d.events[k].audio <= d.events[m].audio
  <2>1. k + 1 \in 1 .. Len(log) /\ m + 1 \in 1 .. Len(log) /\ k + 1 < m + 1 /\ k + 1 # Len(log)
    BY <1>2, <1>6, <1>11
  <2>2. d.events[k] = log[k + 1] /\ d.events[m] = log[m + 1] /\ log[m + 1].type # "close"
    BY <1>2, <1>6, <1>7, <1>8
  <2>3. log[k + 1].type # "final"
    BY <1>1, <2>1, FinalIsLast
  <2>4. log[m + 1].type = "error" \/ log[k + 1].audio <= log[m + 1].audio
    BY <1>1, <2>1, <2>2 DEF LogOk
  <2>5. QED BY <2>2, <2>3, <2>4
<1>12. EventsInOrder(d.events)
  BY <1>11 DEF EventsInOrder
<1>13. n + 1 \in 0 .. Len(log)
  BY <1>2
<1>14. QED BY <1>1, <1>2, <1>4, <1>10, <1>12, <1>13 DEF StreamAt

(* A probe goes on to send. *)
LEMMA ProbeGoesOn ==
  ASSUME NEW log \in Seq(ClientMessages), NEW n \in 0 .. Len(log), NEW box, NEW frames \in Nat,
         NEW c \in ClientPlaces, NEW v \in ServicePlaces, StreamAt(c, v, box, log, n, "probe", frames),
         NEW d \in ClientPlaces, c.at = "polling", d.at = "sending",
         d.receiver = c.receiver, d.sent = c.sent, d.events = c.events
  PROVE  StreamAt(d, v, box, log, n, "probe", frames)
<1>1. LogOk(log, v) /\ BoxOk(box, log, n) /\ PlaceOk(c, v, n, frames) /\ EventsOk(c, log, n)
  BY DEF StreamAt
<1>2. PlaceOk(d, v, n, frames)
  BY <1>1 DEF PlaceOk
<1>3. EventsOk(d, log, n)
  BY <1>1 DEF EventsOk
<1>4. QED BY <1>1, <1>2, <1>3 DEF StreamAt

\* A message or two at the end of what is on its way.
LEMMA MessagesTold ==
  ASSUME NEW s \in Seq(ClientMessages), NEW a \in ClientMessages, NEW b \in ClientMessages
  PROVE  /\ s \o <<a>> = Append(s, a) /\ Append(s, a) \in Seq(ClientMessages)
         /\ s \o <<a, b>> = Append(Append(s, a), b) /\ Append(Append(s, a), b) \in Seq(ClientMessages)
<1>1. Append(s, a) \in Seq(ClientMessages) /\ Append(Append(s, a), b) \in Seq(ClientMessages)
  OBVIOUS
<1>2. s \o <<a>> = Append(s, a)
  BY AppendIsConcat
<1>3. s \o <<a, b>> = Append(Append(s, a), b)
  <2>1. Append(Append(s, a), b) = Append(s, a) \o <<b>>
    BY <1>1, AppendIsConcat
  <2>2. Append(s, a) \o <<b>> = (s \o <<a>>) \o <<b>>
    BY <1>2
  <2>3. (s \o <<a>>) \o <<b>> = s \o (<<a>> \o <<b>>)
    BY ConcatAssociative
  <2>4. <<a>> \o <<b>> = <<a, b>>
    <3>1. Append(<<a>>, b) = <<a>> \o <<b>> /\ <<a>> \in Seq(ClientMessages)
      BY AppendIsConcat
    <3>2. /\ Append(<<a>>, b) \in Seq(ClientMessages) /\ <<a, b>> \in Seq(ClientMessages)
          /\ Len(Append(<<a>>, b)) = 2 /\ Len(<<a, b>>) = 2
          /\ Append(<<a>>, b)[1] = a /\ Append(<<a>>, b)[2] = b /\ <<a, b>>[1] = a /\ <<a, b>>[2] = b
      OBVIOUS
    <3>3. \A k \in 1 .. 2 : Append(<<a>>, b)[k] = <<a, b>>[k]
      <4>1. \A k \in 1 .. 2 : k = 1 \/ k = 2
        OBVIOUS
      <4>2. QED BY <3>2, <4>1
    <3>4. Append(<<a>>, b) = <<a, b>>
      BY <3>2, <3>3, SeqEqual
    <3>5. QED BY <3>1, <3>4
  <2>5. QED BY <2>1, <2>2, <2>3, <2>4
<1>4. QED BY <1>1, <1>2, <1>3

(* Only one stream moves. *)
LEMMA OneStream ==
  ASSUME ClientsInv, NEW i \in Streams, setup' = setup, level' = level,
         NEW d \in ClientPlaces, NEW w \in ServicePlaces, NEW b \in Seq(ClientMessages),
         cl' = [cl EXCEPT ![i] = d], svc' = [svc EXCEPT ![i] = w], inbox' = [inbox EXCEPT ![i] = b],
         level # "failed" => StreamOk(d, w, b, setup.tool, setup.frames),
         level = "reported" => d.at = "done",
         setup.tool = "probe" => EventsInOrder(d.events)
  PROVE  ClientsInv'
<1>1. Streams' = Streams
  BY DEF Streams
<1>2. /\ setup' \in Setups /\ level' \in {"running", "reported", "failed"}
      /\ cl' \in [Streams' -> ClientPlaces] /\ svc' \in [Streams' -> ServicePlaces]
      /\ inbox' \in [Streams' -> Seq(ClientMessages)]
  BY <1>1 DEF ClientsInv
<1>3. \A k \in Streams : IF k = i THEN cl'[k] = d /\ svc'[k] = w /\ inbox'[k] = b
                         ELSE cl'[k] = cl[k] /\ svc'[k] = svc[k] /\ inbox'[k] = inbox[k]
  BY DEF ClientsInv
<1>4. ASSUME level' # "failed", NEW k \in Streams
      PROVE  StreamOk(cl'[k], svc'[k], inbox'[k], setup'.tool, setup'.frames)
  <2>1. CASE k = i
    <3>1. cl'[k] = d /\ svc'[k] = w /\ inbox'[k] = b
      BY <1>3, <2>1
    <3>2. StreamOk(d, w, b, setup.tool, setup.frames)
      BY <1>4
    <3>3. QED BY <3>1, <3>2
  <2>2. CASE k # i
    <3>1. cl'[k] = cl[k] /\ svc'[k] = svc[k] /\ inbox'[k] = inbox[k]
      BY <1>3, <2>2
    <3>2. StreamOk(cl[k], svc[k], inbox[k], setup.tool, setup.frames)
      BY <1>4 DEF ClientsInv
    <3>3. QED BY <3>1, <3>2
  <2>3. QED BY <2>1, <2>2
<1>5. level' = "reported" => \A k \in Streams : cl'[k].at = "done"
  BY <1>3 DEF ClientsInv
<1>6. setup'.tool = "probe" => EventsInOrder(cl'[1].events)
  <2>1. ASSUME setup.tool = "probe" PROVE EventsInOrder(cl'[1].events)
    <3>1. Streams = 1 .. 1
      BY <2>1, ClientsAssumption DEF ClientsInv, Streams
    <3>2. i = 1
      BY <3>1
    <3>3. cl'[1] = d
      BY <1>3, <3>2
    <3>4. QED BY <2>1, <3>3
  <2>2. QED BY <2>1
<1>7. QED BY <1>1, <1>2, <1>4, <1>5, <1>6 DEF ClientsInv

(* When a stream raises, the level is over. *)
LEMMA FailsKeeps ==
  ASSUME ClientsInv, setup' = setup, level' = "failed", cl' = cl,
         svc' \in [Streams -> ServicePlaces], inbox' \in [Streams -> Seq(ClientMessages)]
  PROVE  ClientsInv'
<1>1. Streams' = Streams
  BY DEF Streams
<1>2. QED BY <1>1 DEF ClientsInv

\* Where all is before anything was sent.
LEMMA ClientsBegin == ClientsInit => ClientsInv
<1> SUFFICES ASSUME ClientsInit PROVE ClientsInv
  OBVIOUS
<1>1. setup.frames \in Nat /\ setup \in Setups
  BY ClientsAssumption DEF ClientsInit
<1>2. NewClient \in ClientPlaces /\ NewService \in ServicePlaces /\ <<>> \in Seq(ClientMessages)
  BY DEF NewClient, NewService, ClientPlaces, ServicePlaces
<1>3. /\ NewClient.at = "idle" /\ NewClient.receiver = "none" /\ NewClient.sent = 0
      /\ NewClient.interims = 0 /\ NewClient.noted = <<>> /\ NewClient.events = <<>>
      /\ NewService.at = "none" /\ NewService.fed = 0 /\ NewService.interims = 0
  BY DEF NewClient, NewService
<1>4. Cardinality(InterimsOf(<<>>, 0)) = 0
  <2>1. InterimsOf(<<>>, 0) = {}
    BY DEF InterimsOf
  <2>2. QED BY <2>1, FS_EmptySet
<1>5. Len(<<>>) = 0
  OBVIOUS
<1>6. LogOk(<<>>, NewService)
  BY <1>2, <1>3, <1>4, <1>5 DEF LogOk
<1>7. BoxOk(<<>>, <<>>, 0)
  BY <1>2, <1>5 DEF BoxOk
<1>8. PlaceOk(NewClient, NewService, 0, setup.frames)
  BY <1>1, <1>3 DEF PlaceOk
<1>9. NotedOk(NewClient, NewService, <<>>, 0)
  BY <1>3, <1>4, NoMarks DEF NotedOk
<1>10. EventsOk(NewClient, <<>>, 0)
  BY <1>3, <1>5 DEF EventsOk
<1>11. StreamAt(NewClient, NewService, <<>>, <<>>, 0, setup.tool, setup.frames)
  BY <1>6, <1>7, <1>8, <1>9, <1>10 DEF StreamAt
<1>12. StreamOk(NewClient, NewService, <<>>, setup.tool, setup.frames)
  <2>1. <<>> \in Seq(ClientMessages) /\ 0 \in 0 .. Len(<<>>)
    BY <1>5
  <2>2. \E n \in 0 .. Len(<<>>) :
          StreamAt(NewClient, NewService, <<>>, <<>>, n, setup.tool, setup.frames)
    BY <1>11, <2>1
  <2>3. QED BY <2>1, <2>2 DEF StreamOk
<1>13. /\ \A i \in Streams : cl[i] = NewClient /\ svc[i] = NewService /\ inbox[i] = <<>>
       /\ cl \in [Streams -> ClientPlaces] /\ svc \in [Streams -> ServicePlaces]
       /\ inbox \in [Streams -> Seq(ClientMessages)]
  BY <1>2 DEF ClientsInit
<1>14. EventsInOrder(NewClient.events)
  BY <1>3, <1>5 DEF EventsInOrder
<1>15. setup.tool = "probe" => EventsInOrder(cl[1].events)
  <2>1. 1 \in Streams
    BY <1>1, ClientsAssumption DEF Streams
  <2>2. QED BY <2>1, <1>13, <1>14
<1>16. level = "running"
  BY DEF ClientsInit
<1>17. QED BY <1>1, <1>12, <1>13, <1>15, <1>16 DEF ClientsInv

\* What the invariant says of one stream.
LEMMA StreamTyped ==
  ASSUME ClientsInv, NEW i \in Streams
  PROVE  /\ cl[i] \in ClientPlaces /\ svc[i] \in ServicePlaces /\ inbox[i] \in Seq(ClientMessages)
         /\ setup.frames \in Nat /\ setup.tool \in {"bench", "probe"}
         /\ cl = [cl EXCEPT ![i] = cl[i]] /\ svc = [svc EXCEPT ![i] = svc[i]]
         /\ inbox = [inbox EXCEPT ![i] = inbox[i]]
         /\ level = "reported" => cl[i].at = "done"
         /\ setup.tool = "probe" => EventsInOrder(cl[i].events)
         /\ level # "failed" => StreamOk(cl[i], svc[i], inbox[i], setup.tool, setup.frames)
<1>1. /\ cl[i] \in ClientPlaces /\ svc[i] \in ServicePlaces /\ inbox[i] \in Seq(ClientMessages)
      /\ cl = [cl EXCEPT ![i] = cl[i]] /\ svc = [svc EXCEPT ![i] = svc[i]]
      /\ inbox = [inbox EXCEPT ![i] = inbox[i]]
  BY DEF ClientsInv
<1>2. setup.frames \in Nat /\ setup.tool \in {"bench", "probe"}
  BY ClientsAssumption DEF ClientsInv
<1>3. /\ level = "reported" => cl[i].at = "done"
      /\ level # "failed" => StreamOk(cl[i], svc[i], inbox[i], setup.tool, setup.frames)
  BY DEF ClientsInv
<1>4. setup.tool = "probe" => EventsInOrder(cl[i].events)
  <2>1. setup.tool = "probe" => i = 1
    BY ClientsAssumption DEF ClientsInv, Streams
  <2>2. QED BY <2>1 DEF ClientsInv
<1>5. QED BY <1>1, <1>2, <1>3, <1>4

\* One message said, none, or an error and the end.
LEMMA SayingKeeps ==
  ASSUME ClientsInv, NEW i \in Streams, UNCHANGED <<setup, level, cl>>,
         NEW w \in ServicePlaces, svc' = [svc EXCEPT ![i] = w],
         \/ \E m \in ClientMessages :
              MaySay(svc[i], cl[i], m, w) /\ inbox' = [inbox EXCEPT ![i] = @ \o <<m>>]
         \/ /\ w.interims = svc[i].interims /\ inbox' = inbox
            /\ \/ svc[i].at = "queued" /\ w.at = "granted" /\ w.fed = svc[i].fed
               \/ /\ svc[i].at = "active" /\ w.at = "active" /\ w.fed = svc[i].fed + 1
                  /\ svc[i].fed < cl[i].sent
         \/ /\ svc[i].at \in {"asked", "queued", "active"} /\ w.at = "closed" /\ w.fed = svc[i].fed
            /\ w.interims = svc[i].interims /\ inbox' = [inbox EXCEPT ![i] = @ \o ErrorAndClose]
  PROVE  ClientsInv'
<1>1. /\ cl[i] \in ClientPlaces /\ svc[i] \in ServicePlaces /\ inbox[i] \in Seq(ClientMessages)
      /\ setup.frames \in Nat
      /\ cl = [cl EXCEPT ![i] = cl[i]] /\ inbox = [inbox EXCEPT ![i] = inbox[i]]
      /\ level = "reported" => cl[i].at = "done"
      /\ setup.tool = "probe" => EventsInOrder(cl[i].events)
      /\ level # "failed" => StreamOk(cl[i], svc[i], inbox[i], setup.tool, setup.frames)
  BY StreamTyped
<1>2. ASSUME NEW b \in Seq(ClientMessages), inbox' = [inbox EXCEPT ![i] = b],
             level # "failed" => StreamOk(cl[i], w, b, setup.tool, setup.frames)
      PROVE  ClientsInv'
  BY <1>1, <1>2, OneStream
<1>3. ASSUME level # "failed"
      PROVE  \E log \in Seq(ClientMessages) : \E n \in 0 .. Len(log) :
               StreamAt(cl[i], svc[i], inbox[i], log, n, setup.tool, setup.frames)
  BY <1>1, <1>3 DEF StreamOk
<1>4. CASE \E m \in ClientMessages :
             MaySay(svc[i], cl[i], m, w) /\ inbox' = [inbox EXCEPT ![i] = @ \o <<m>>]
  <2>1. PICK m \in ClientMessages : MaySay(svc[i], cl[i], m, w) /\ inbox' = [inbox EXCEPT ![i] = inbox[i] \o <<m>>]
    BY <1>4
  <2>2. inbox[i] \o <<m>> = Append(inbox[i], m) /\ Append(inbox[i], m) \in Seq(ClientMessages)
    BY <1>1, MessagesTold
  <2>3. ASSUME level # "failed"
        PROVE  StreamOk(cl[i], w, Append(inbox[i], m), setup.tool, setup.frames)
    <3>1. PICK log \in Seq(ClientMessages) : \E n \in 0 .. Len(log) :
            StreamAt(cl[i], svc[i], inbox[i], log, n, setup.tool, setup.frames)
      BY <1>3, <2>3
    <3>1a. PICK n \in 0 .. Len(log) :
            StreamAt(cl[i], svc[i], inbox[i], log, n, setup.tool, setup.frames)
      BY <3>1
    <3>2. StreamAt(cl[i], w, Append(inbox[i], m), Append(log, m), n, setup.tool, setup.frames)
      BY <1>1, <2>1, <3>1a, ServiceSays
    <3>3. Append(log, m) \in Seq(ClientMessages) /\ n \in 0 .. Len(Append(log, m))
      <4>1. Append(log, m) \in Seq(ClientMessages) /\ Len(log) \in Nat /\ Len(Append(log, m)) = Len(log) + 1
        BY LogGrows
      <4>2. QED BY <4>1
    <3>4. QED BY <3>2, <3>3 DEF StreamOk
  <2>4. QED BY <1>2, <2>1, <2>2, <2>3
<1>5. CASE /\ w.interims = svc[i].interims /\ inbox' = inbox
           /\ \/ svc[i].at = "queued" /\ w.at = "granted" /\ w.fed = svc[i].fed
              \/ /\ svc[i].at = "active" /\ w.at = "active" /\ w.fed = svc[i].fed + 1
                 /\ svc[i].fed < cl[i].sent
  <2>1. ASSUME level # "failed"
        PROVE  StreamOk(cl[i], w, inbox[i], setup.tool, setup.frames)
    <3>1. PICK log \in Seq(ClientMessages) : \E n \in 0 .. Len(log) :
            StreamAt(cl[i], svc[i], inbox[i], log, n, setup.tool, setup.frames)
      BY <1>3, <2>1
    <3>1a. PICK n \in 0 .. Len(log) :
            StreamAt(cl[i], svc[i], inbox[i], log, n, setup.tool, setup.frames)
      BY <3>1
    <3>2. StreamAt(cl[i], w, inbox[i], log, n, setup.tool, setup.frames)
      BY <1>1, <1>5, <3>1a, ServiceQuiet
    <3>3. QED BY <3>2 DEF StreamOk
  <2>2. inbox' = [inbox EXCEPT ![i] = inbox[i]]
    BY <1>1, <1>5
  <2>3. QED BY <1>1, <1>2, <2>1, <2>2
<1>6. CASE /\ svc[i].at \in {"asked", "queued", "active"} /\ w.at = "closed" /\ w.fed = svc[i].fed
           /\ w.interims = svc[i].interims /\ inbox' = [inbox EXCEPT ![i] = @ \o ErrorAndClose]
  <2>1. PICK e \in ClientMessages, d \in ClientMessages :
          /\ e.type = "error" /\ e.audio = 0 /\ d.type = "close" /\ d.audio = 0 /\ ErrorAndClose = <<e, d>>
    <3>1. Bare("error") \in ClientMessages /\ Bare("close") \in ClientMessages
      BY DEF Bare, ClientMessage, ClientMessages
    <3>2. /\ Bare("error").type = "error" /\ Bare("error").audio = 0
          /\ Bare("close").type = "close" /\ Bare("close").audio = 0
      BY DEF Bare, ClientMessage
    <3>3. QED BY <3>1, <3>2 DEF ErrorAndClose
  <2>2. /\ inbox[i] \o ErrorAndClose = Append(Append(inbox[i], e), d)
        /\ Append(Append(inbox[i], e), d) \in Seq(ClientMessages)
    BY <1>1, <2>1, MessagesTold
  <2>3. ASSUME level # "failed"
        PROVE  StreamOk(cl[i], w, Append(Append(inbox[i], e), d), setup.tool, setup.frames)
    <3>1. PICK log \in Seq(ClientMessages) : \E n \in 0 .. Len(log) :
            StreamAt(cl[i], svc[i], inbox[i], log, n, setup.tool, setup.frames)
      BY <1>3, <2>3
    <3>1a. PICK n \in 0 .. Len(log) :
            StreamAt(cl[i], svc[i], inbox[i], log, n, setup.tool, setup.frames)
      BY <3>1
    <3>2. StreamAt(cl[i], w, Append(Append(inbox[i], e), d), Append(Append(log, e), d), n,
                   setup.tool, setup.frames)
      BY <1>1, <1>6, <2>1, <3>1a, ServiceCloses
    <3>3. Append(Append(log, e), d) \in Seq(ClientMessages) /\ n \in 0 .. Len(Append(Append(log, e), d))
      <4>1. Append(log, e) \in Seq(ClientMessages) /\ Len(log) \in Nat /\ Len(Append(log, e)) = Len(log) + 1
        BY LogGrows
      <4>2. /\ Append(Append(log, e), d) \in Seq(ClientMessages)
            /\ Len(Append(Append(log, e), d)) = Len(Append(log, e)) + 1
        BY <4>1, LogGrows
      <4>3. QED BY <4>1, <4>2
    <3>4. QED BY <3>2, <3>3 DEF StreamOk
  <2>4. inbox' = [inbox EXCEPT ![i] = Append(Append(inbox[i], e), d)]
    BY <1>6, <2>2
  <2>5. QED BY <1>2, <2>2, <2>3, <2>4
<1>7. QED BY <1>4, <1>5, <1>6

(* Every step of the service. *)
LEMMA ServiceKeeps ==
  ASSUME ClientsInv, NEW i \in Streams, ServiceStep(i)
  PROVE  ClientsInv'
<1>1. /\ svc[i] \in ServicePlaces /\ svc \in [Streams -> ServicePlaces]
      /\ svc[i].fed \in Nat /\ svc[i].interims \in Nat
  BY DEF ClientsInv, ServicePlaces
<1>2. \A type \in {"started", "started_queued", "active", "interim", "final"} : \A n \in Nat :
        /\ ClientMessage(type, n) \in ClientMessages
        /\ ClientMessage(type, n).type = type /\ ClientMessage(type, n).audio = n
  BY DEF ClientMessage, ClientMessages
<1>3. \A type : Bare(type) = ClientMessage(type, 0)
  BY DEF Bare
<1>4. ASSUME NEW to \in {"queued", "granted", "active", "open", "closed"}
      PROVE  /\ [svc[i] EXCEPT !.at = to] \in ServicePlaces
             /\ [svc[i] EXCEPT !.at = to].at = to
             /\ [svc[i] EXCEPT !.at = to].fed = svc[i].fed
             /\ [svc[i] EXCEPT !.at = to].interims = svc[i].interims
  BY <1>1 DEF ServicePlaces
<1>5. CASE ServiceStarts(i)
  <2>1. UNCHANGED <<setup, level, cl>> /\ svc[i].at = "asked"
    BY <1>5 DEF ServiceStarts
  <2>2. \/ svc' = [svc EXCEPT ![i].at = "granted"] /\ Tell(i, <<Bare("started")>>)
        \/ svc' = [svc EXCEPT ![i].at = "queued"] /\ Tell(i, <<Bare("started_queued")>>)
        \/ svc' = [svc EXCEPT ![i].at = "closed"] /\ Tell(i, ErrorAndClose)
    BY <1>5 DEF ServiceStarts
  <2>3. CASE svc' = [svc EXCEPT ![i].at = "granted"] /\ Tell(i, <<Bare("started")>>)
    <3> DEFINE w == [svc[i] EXCEPT !.at = "granted"]
    <3>1. w \in ServicePlaces /\ w.at = "granted" /\ w.fed = svc[i].fed /\ w.interims = svc[i].interims
      BY <1>4
    <3>2. svc' = [svc EXCEPT ![i] = w]
      BY <2>3
    <3> HIDE DEF w
    <3>3. MaySay(svc[i], cl[i], Bare("started"), w) /\ Bare("started") \in ClientMessages
      BY <1>2, <1>3, <2>1, <3>1 DEF MaySay
    <3>4. inbox' = [inbox EXCEPT ![i] = @ \o <<Bare("started")>>]
      BY <2>3 DEF Tell
    <3>5. QED BY <2>1, <3>1, <3>2, <3>3, <3>4, SayingKeeps
  <2>4. CASE svc' = [svc EXCEPT ![i].at = "queued"] /\ Tell(i, <<Bare("started_queued")>>)
    <3> DEFINE w == [svc[i] EXCEPT !.at = "queued"]
    <3>1. w \in ServicePlaces /\ w.at = "queued" /\ w.fed = svc[i].fed /\ w.interims = svc[i].interims
      BY <1>4
    <3>2. svc' = [svc EXCEPT ![i] = w]
      BY <2>4
    <3> HIDE DEF w
    <3>3. MaySay(svc[i], cl[i], Bare("started_queued"), w) /\ Bare("started_queued") \in ClientMessages
      BY <1>2, <1>3, <2>1, <3>1 DEF MaySay
    <3>4. inbox' = [inbox EXCEPT ![i] = @ \o <<Bare("started_queued")>>]
      BY <2>4 DEF Tell
    <3>5. QED BY <2>1, <3>1, <3>2, <3>3, <3>4, SayingKeeps
  <2>5. CASE svc' = [svc EXCEPT ![i].at = "closed"] /\ Tell(i, ErrorAndClose)
    <3> DEFINE w == [svc[i] EXCEPT !.at = "closed"]
    <3>1. w \in ServicePlaces /\ w.at = "closed" /\ w.fed = svc[i].fed /\ w.interims = svc[i].interims
      BY <1>4
    <3>2. svc' = [svc EXCEPT ![i] = w]
      BY <2>5
    <3> HIDE DEF w
    <3>3. inbox' = [inbox EXCEPT ![i] = @ \o ErrorAndClose]
      BY <2>5 DEF Tell
    <3>4. svc[i].at \in {"asked", "queued", "active"}
      BY <2>1
    <3>5. QED BY <2>1, <3>1, <3>2, <3>3, <3>4, SayingKeeps
  <2>6. QED BY <2>2, <2>3, <2>4, <2>5
<1>6. CASE ServicePromotes(i)
  <2> DEFINE w == [svc[i] EXCEPT !.at = "granted"]
  <2>1. w \in ServicePlaces /\ w.at = "granted" /\ w.fed = svc[i].fed /\ w.interims = svc[i].interims
    BY <1>4
  <2>2. /\ svc' = [svc EXCEPT ![i] = w] /\ svc[i].at = "queued" /\ inbox' = inbox
        /\ UNCHANGED <<setup, level, cl>>
    BY <1>6 DEF ServicePromotes, Waiting
  <2> HIDE DEF w
  <2>3. QED BY <2>1, <2>2, SayingKeeps
<1>7. CASE ServiceActivates(i)
  <2> DEFINE w == [svc[i] EXCEPT !.at = "active"]
  <2>1. w \in ServicePlaces /\ w.at = "active" /\ w.fed = svc[i].fed /\ w.interims = svc[i].interims
    BY <1>4
  <2>2. /\ svc' = [svc EXCEPT ![i] = w] /\ svc[i].at = "granted" /\ UNCHANGED <<setup, level, cl>>
        /\ inbox' = [inbox EXCEPT ![i] = @ \o <<Bare("active")>>]
    BY <1>7 DEF ServiceActivates, Tell
  <2> HIDE DEF w
  <2>3. MaySay(svc[i], cl[i], Bare("active"), w) /\ Bare("active") \in ClientMessages
    BY <1>2, <1>3, <2>1, <2>2 DEF MaySay
  <2>4. QED BY <2>1, <2>2, <2>3, SayingKeeps
<1>8. CASE ServiceFeeds(i)
  <2>1. svc[i].at = "active" /\ svc[i].fed < cl[i].sent /\ UNCHANGED <<setup, level, cl>>
    BY <1>8 DEF ServiceFeeds
  <2>2. CASE svc' = [svc EXCEPT ![i].fed = @ + 1] /\ UNCHANGED inbox
    <3> DEFINE w == [svc[i] EXCEPT !.fed = svc[i].fed + 1]
    <3>1. w \in ServicePlaces /\ w.at = svc[i].at /\ w.fed = svc[i].fed + 1 /\ w.interims = svc[i].interims
      BY <1>1 DEF ServicePlaces
    <3>2. svc' = [svc EXCEPT ![i] = w]
      BY <2>2
    <3> HIDE DEF w
    <3>3. QED BY <2>1, <2>2, <3>1, <3>2, SayingKeeps
  <2>3. CASE /\ svc' = [svc EXCEPT ![i].fed = @ + 1, ![i].interims = @ + 1]
             /\ Tell(i, <<ClientMessage("interim", svc[i].fed + 1)>>)
    <3> DEFINE u == [svc[i] EXCEPT !.fed = svc[i].fed + 1]
               w == [u EXCEPT !.interims = svc[i].interims + 1]
    <3>1. u \in ServicePlaces /\ u.at = svc[i].at /\ u.fed = svc[i].fed + 1 /\ u.interims = svc[i].interims
      BY <1>1 DEF ServicePlaces
    <3>2. w \in ServicePlaces /\ w.at = svc[i].at /\ w.fed = svc[i].fed + 1 /\ w.interims = svc[i].interims + 1
      <4> HIDE DEF u
      <4>1. QED BY <1>1, <3>1 DEF ServicePlaces
    <3>3. svc' = [svc EXCEPT ![i] = w]
      <4>1. svc' = [[svc EXCEPT ![i] = u] EXCEPT ![i] = [u EXCEPT !.interims = u.interims + 1]]
        BY <1>1, <2>3
      <4>2. u.interims = svc[i].interims
        BY <3>1
      <4> HIDE DEF u
      <4>3. QED BY <1>1, <4>1, <4>2
    <3> HIDE DEF w, u
    <3>4. /\ MaySay(svc[i], cl[i], ClientMessage("interim", svc[i].fed + 1), w)
          /\ ClientMessage("interim", svc[i].fed + 1) \in ClientMessages
      <4>1. svc[i].fed + 1 \in Nat
        BY <1>1
      <4>2. QED BY <1>2, <2>1, <3>2, <4>1 DEF MaySay
    <3>5. inbox' = [inbox EXCEPT ![i] = @ \o <<ClientMessage("interim", svc[i].fed + 1)>>]
      BY <2>3 DEF Tell
    <3>6. QED BY <2>1, <3>2, <3>3, <3>4, <3>5, SayingKeeps
  <2>4. QED BY <1>8, <2>2, <2>3 DEF ServiceFeeds
<1>9. CASE ServiceEnds(i)
  <2> DEFINE w == [svc[i] EXCEPT !.at = "open"]
  <2>1. w \in ServicePlaces /\ w.at = "open" /\ w.fed = svc[i].fed /\ w.interims = svc[i].interims
    BY <1>4
  <2>2. /\ svc' = [svc EXCEPT ![i] = w] /\ UNCHANGED <<setup, level, cl>>
        /\ svc[i].at = "active" /\ svc[i].fed = cl[i].sent /\ cl[i].at = "ended"
        /\ inbox' = [inbox EXCEPT ![i] = @ \o <<ClientMessage("final", svc[i].fed)>>]
    BY <1>9 DEF ServiceEnds, Tell
  <2> HIDE DEF w
  <2>3. /\ MaySay(svc[i], cl[i], ClientMessage("final", svc[i].fed), w)
        /\ ClientMessage("final", svc[i].fed) \in ClientMessages
    BY <1>1, <1>2, <2>1, <2>2 DEF MaySay
  <2>4. QED BY <2>1, <2>2, <2>3, SayingKeeps
<1>10. CASE ServiceRefuses(i)
  <2> DEFINE w == [svc[i] EXCEPT !.at = "closed"]
  <2>1. w \in ServicePlaces /\ w.at = "closed" /\ w.fed = svc[i].fed /\ w.interims = svc[i].interims
    BY <1>4
  <2>2. /\ svc' = [svc EXCEPT ![i] = w] /\ UNCHANGED <<setup, level, cl>>
        /\ svc[i].at \in {"asked", "queued", "active"}
        /\ inbox' = [inbox EXCEPT ![i] = @ \o ErrorAndClose]
    BY <1>10 DEF ServiceRefuses, Tell
  <2> HIDE DEF w
  <2>3. QED BY <2>1, <2>2, SayingKeeps
<1>11. QED
  BY <1>5, <1>6, <1>7, <1>8, <1>9, <1>10 DEF ServiceStep

\* One client moves, and perhaps takes a message.
LEMMA MovingKeeps ==
  ASSUME ClientsInv, NEW i \in Streams, setup' = setup, level = "running", NEW d \in ClientPlaces,
         Becomes(i, d), NEW w \in ServicePlaces, svc' = [svc EXCEPT ![i] = w],
         NEW b \in Seq(ClientMessages), inbox' = [inbox EXCEPT ![i] = b],
         setup.tool = "probe" => EventsInOrder(d.events),
         NEW log \in Seq(ClientMessages), NEW n \in 0 .. Len(log),
         StreamAt(d, w, b, log, n, setup.tool, setup.frames)
  PROVE  ClientsInv'
<1>1. StreamOk(d, w, b, setup.tool, setup.frames)
  BY DEF StreamOk
<1>2. level' = level /\ cl' = [cl EXCEPT ![i] = d]
  BY DEF Becomes
<1>3. QED BY <1>1, <1>2, OneStream

(* Every step of a client. *)
LEMMA ClientKeeps ==
  ASSUME ClientsInv, NEW i \in Streams, ClientStep(i)
  PROVE  ClientsInv'
<1> DEFINE c == cl[i]
           v == svc[i]
           box == inbox[i]
<1>1. /\ c \in ClientPlaces /\ v \in ServicePlaces /\ box \in Seq(ClientMessages)
      /\ setup.frames \in Nat /\ setup.tool \in {"bench", "probe"}
      /\ cl = [cl EXCEPT ![i] = c] /\ svc = [svc EXCEPT ![i] = v] /\ inbox = [inbox EXCEPT ![i] = box]
      /\ setup.tool = "probe" => EventsInOrder(c.events)
      /\ level # "failed" => StreamOk(c, v, box, setup.tool, setup.frames)
  BY StreamTyped
<1>2. /\ svc \in [Streams -> ServicePlaces] /\ inbox \in [Streams -> Seq(ClientMessages)]
      /\ cl \in [Streams -> ClientPlaces]
      /\ setup' = setup /\ level = "running"
      /\ box # <<>> => Tail(box) \in Seq(ClientMessages) /\ Head(box) \in ClientMessages
  <2>1. setup' = setup /\ level = "running"
    BY DEF ClientStep, Connect, Started, SendFrame, SendEnd, Receive, ReceiveTimesOut, AwaitFinal, Poll,
       PollTimesOut, ReadToFinal, FinalTimesOut
  <2>2. box # <<>> => Tail(box) \in Seq(ClientMessages) /\ Head(box) \in ClientMessages
    BY <1>1
  <2>3. QED BY <2>1, <2>2 DEF ClientsInv
<1>3. PICK log \in Seq(ClientMessages) :
        \E n \in 0 .. Len(log) : StreamAt(c, v, box, log, n, setup.tool, setup.frames)
  BY <1>1, <1>2 DEF StreamOk
<1>4. PICK n \in 0 .. Len(log) : StreamAt(c, v, box, log, n, setup.tool, setup.frames)
  BY <1>3
<1>5. /\ setup.tool = "bench" => NotedOk(c, v, log, n)
      /\ setup.tool = "probe" => EventsOk(c, log, n)
      /\ PlaceOk(c, v, n, setup.frames)
  BY <1>4 DEF StreamAt
<1>6. c.at \in {"idle", "starting", "sending", "polling", "ended", "done"} /\ c.sent \in Nat
      /\ c.interims \in Nat /\ c.noted \in Seq(Marks) /\ c.events \in Seq(ClientMessages)
  BY <1>1 DEF ClientPlaces
<1>7. ASSUME Fails, svc' = svc, inbox' \in [Streams -> Seq(ClientMessages)] PROVE ClientsInv'
  BY <1>2, <1>7, FailsKeeps DEF Fails
<1>8. box # <<>> => [inbox EXCEPT ![i] = Tail(box)] \in [Streams -> Seq(ClientMessages)]
  BY <1>2
<1>9. CASE Connect(i)
  <2>1. c.at = "idle" /\ inbox' = inbox
    BY <1>9 DEF Connect
  <2>2. \/ Becomes(i, [cl[i] EXCEPT !.at = "starting"]) /\ svc' = [svc EXCEPT ![i].at = "asked"]
        \/ Fails /\ UNCHANGED svc
    BY <1>9 DEF Connect
  <2>3. CASE Becomes(i, [cl[i] EXCEPT !.at = "starting"]) /\ svc' = [svc EXCEPT ![i].at = "asked"]
    <3> DEFINE d == [c EXCEPT !.at = "starting"]
               w == [v EXCEPT !.at = "asked"]
    <3>1. /\ d \in ClientPlaces /\ d.at = "starting" /\ d.receiver = c.receiver /\ d.sent = c.sent
          /\ d.interims = c.interims /\ d.noted = c.noted /\ d.events = c.events /\ d.heard = c.heard
      BY <1>1 DEF ClientPlaces
    <3>2. w \in ServicePlaces /\ w.at = "asked" /\ w.fed = v.fed /\ w.interims = v.interims
      BY <1>1 DEF ServicePlaces
    <3>3. Becomes(i, d) /\ svc' = [svc EXCEPT ![i] = w] /\ inbox' = [inbox EXCEPT ![i] = box]
      BY <1>1, <2>1, <2>3
    <3> HIDE DEF c, v, box, d, w
    <3>4. StreamAt(d, w, box, log, n, setup.tool, setup.frames)
      BY <1>1, <1>4, <2>1, <3>1, <3>2, ClientAsks
    <3>5. QED BY <1>1, <1>2, <3>1, <3>2, <3>3, <3>4, MovingKeeps
  <2>4. QED BY <1>2, <1>7, <2>1, <2>2, <2>3
<1>10. CASE Started(i)
  <2>1. c.at = "starting" /\ box # <<>> /\ svc' = svc /\ inbox' = [inbox EXCEPT ![i] = Tail(box)]
    BY <1>10 DEF Started
  <2>2. PICK q \in BOOLEAN : q = (Head(inbox[i]).type = "started_queued")
    BY Zenon
  <2>3. \/ Fails
        \/ Becomes(i, [cl[i] EXCEPT !.at = "sending",
                                    !.receiver = IF setup.tool = "bench" THEN "reading" ELSE "none",
                                    !.queued = q])
    <3>1. \/ Fails
          \/ Becomes(i, [cl[i] EXCEPT !.at = "sending",
                                      !.receiver = IF setup.tool = "bench" THEN "reading" ELSE "none",
                                      !.queued = Head(inbox[i]).type = "started_queued"])
      BY <1>10, Zenon DEF Started
    <3>2. QED BY <2>2, <3>1, Zenon
  <2>4. CASE Becomes(i, [cl[i] EXCEPT !.at = "sending",
                                      !.receiver = IF setup.tool = "bench" THEN "reading" ELSE "none",
                                      !.queued = q])
    <3> DEFINE r == IF setup.tool = "bench" THEN "reading" ELSE "none"
               d == [c EXCEPT !.at = "sending", !.receiver = r, !.queued = q]
    <3>1. r \in {"none", "reading", "returned", "raised"}
      OBVIOUS
    <3>2. /\ d \in ClientPlaces /\ d.at = "sending" /\ d.receiver = r /\ d.sent = c.sent
          /\ d.interims = c.interims /\ d.noted = c.noted /\ d.events = c.events /\ d.heard = c.heard
      <4> HIDE DEF r, c
      <4>1. QED BY <1>1, <3>1 DEF ClientPlaces
    <3>3. Becomes(i, d)
      BY <2>4
    <3> HIDE DEF c, v, box, d
    <3>4. /\ n + 1 \in 0 .. Len(log)
          /\ StreamAt(d, v, Tail(box), log, n + 1, setup.tool, setup.frames)
      BY <1>1, <1>4, <2>1, <3>2, ClientStarts
    <3>5. QED BY <1>1, <1>2, <2>1, <3>2, <3>3, <3>4, MovingKeeps
  <2>5. QED BY <1>7, <1>8, <2>1, <2>3, <2>4
<1>11. CASE SendFrame(i)
  <2> DEFINE a == IF setup.tool = "probe" THEN "polling" ELSE c.at
             more == c.sent + 1
             d == [c EXCEPT !.sent = more, !.at = a]
  <2>1. c.at = "sending" /\ c.sent < setup.frames /\ svc' = svc /\ inbox' = inbox
    BY <1>11 DEF SendFrame
  <2>2. Becomes(i, d) \/ Fails
    BY <1>11 DEF SendFrame, SendOver
  <2>3. a \in {"idle", "starting", "sending", "polling", "ended", "done"}
    BY <1>6
  <2>4. /\ d \in ClientPlaces /\ d.at = a /\ d.receiver = c.receiver /\ d.sent = c.sent + 1
        /\ d.interims = c.interims /\ d.noted = c.noted /\ d.events = c.events /\ d.heard = c.heard
    <3>1. more \in Nat /\ more = c.sent + 1
      BY <1>6
    <3> HIDE DEF a, c, more
    <3>2. /\ d \in ClientPlaces /\ d.at = a /\ d.receiver = c.receiver /\ d.sent = more
          /\ d.interims = c.interims /\ d.noted = c.noted /\ d.events = c.events /\ d.heard = c.heard
      BY <1>1, <2>3, <3>1 DEF ClientPlaces
    <3>3. QED BY <3>1, <3>2
  <2>5. a = IF setup.tool = "probe" THEN "polling" ELSE "sending"
    BY <2>1
  <2> HIDE DEF c, v, box, d, a
  <2>6. StreamAt(d, v, box, log, n, setup.tool, setup.frames)
    BY <1>1, <1>4, <2>1, <2>4, <2>5, ClientSends
  <2>7. ASSUME Becomes(i, d) PROVE ClientsInv'
    BY <1>1, <1>2, <2>1, <2>4, <2>6, <2>7, MovingKeeps
  <2>8. QED BY <1>2, <1>7, <2>1, <2>2, <2>7
<1>12. CASE SendEnd(i)
  <2> DEFINE s == Append(c.noted, "end")
             d == [c EXCEPT !.at = "ended", !.noted = s]
  <2>1. c.at = "sending" /\ c.sent = setup.frames /\ svc' = svc /\ inbox' = inbox
    BY <1>12 DEF SendEnd
  <2>2. Becomes(i, d) \/ Fails
    BY <1>12 DEF SendEnd, SendOver
  <2>3. s \in Seq(Marks)
    BY <1>6 DEF Marks
  <2>4. /\ d \in ClientPlaces /\ d.at = "ended" /\ d.receiver = c.receiver /\ d.sent = c.sent
        /\ d.interims = c.interims /\ d.noted = s /\ d.events = c.events /\ d.heard = c.heard
    <3> HIDE DEF s, c
    <3>1. QED BY <1>1, <2>3 DEF ClientPlaces
  <2> HIDE DEF c, v, box, d
  <2>5. StreamAt(d, v, box, log, n, setup.tool, setup.frames)
    BY <1>1, <1>4, <2>1, <2>4, ClientSends
  <2>6. ASSUME Becomes(i, d) PROVE ClientsInv'
    BY <1>1, <1>2, <2>1, <2>4, <2>5, <2>6, MovingKeeps
  <2>7. QED BY <1>2, <1>7, <2>1, <2>2, <2>6
<1>13. CASE Receive(i)
  <2> DEFINE m == Head(box)
  <2>1. /\ c.receiver = "reading" /\ box # <<>> /\ svc' = svc /\ inbox' = [inbox EXCEPT ![i] = Tail(box)]
        /\ Becomes(i, Taken(c, m))
    BY <1>13 DEF Receive
  <2>2. setup.tool = "bench"
    BY <1>1, <1>5, <2>1 DEF EventsOk
  <2>3. m \in ClientMessages /\ m.audio \in Nat
    BY <1>2, <2>1 DEF ClientMessages
  <2>4. m.type \in {"interim", "active", "final", "error", "close"}
    <3>1. n + 1 \in 1 .. Len(log) /\ m = log[n + 1] /\ LogOk(log, v) /\ n \in Nat
      BY <1>4, <2>1, BoxTaken DEF StreamAt
    <3>2. n >= 1
      BY <1>5, <2>1, <2>2 DEF PlaceOk, NotedOk
    <3>3. m.type \in {"started", "started_queued"} => n + 1 = 1
      BY <3>1 DEF LogOk
    <3>4. n + 1 # 1
      BY <3>1, <3>2
    <3>5. QED BY <2>3, <3>3, <3>4 DEF ClientMessages
  <2> HIDE DEF m, c, v, box
  <2>5. /\ Append(c.noted, "interim") \in Seq(Marks) /\ Append(c.noted, "active") \in Seq(Marks)
        /\ Append(c.noted, "final") \in Seq(Marks)
    BY <1>6 DEF Marks
  <2>6. PICK d \in ClientPlaces :
          d = Taken(c, m) /\ Takes(c, m, d)
    <3>1. CASE m.type = "interim"
      <4> DEFINE s == IF c.interims = 0 THEN Append(c.noted, "interim") ELSE c.noted
                 more == c.interims + 1
                 d == [c EXCEPT !.interims = more, !.noted = s]
      <4>1. s \in Seq(Marks) /\ more \in Nat
        BY <1>6, <2>5
      <4>2. d = Taken(c, m)
        BY <3>1 DEF Taken
      <4> HIDE DEF s, more
      <4>3. /\ d \in ClientPlaces /\ d.at = c.at /\ d.sent = c.sent
            /\ d.interims = more /\ d.receiver = c.receiver /\ d.noted = s
        BY <1>1, <4>1 DEF ClientPlaces
      <4> HIDE DEF d
      <4>4. QED BY <2>1, <3>1, <4>2, <4>3 DEF s, more, Takes
    <3>2. CASE m.type = "active"
      <4> DEFINE d == [c EXCEPT !.noted = Append(c.noted, "active")]
      <4>1. d = Taken(c, m)
        BY <3>2 DEF Taken
      <4>2. /\ d \in ClientPlaces /\ d.at = c.at /\ d.sent = c.sent /\ d.interims = c.interims
            /\ d.receiver = c.receiver /\ d.noted = Append(c.noted, "active")
        BY <1>1, <1>6, <2>5 DEF ClientPlaces
      <4> HIDE DEF d
      <4>3. QED BY <2>1, <3>2, <4>1, <4>2 DEF Takes
    <3>3. CASE m.type = "final"
      <4> DEFINE d == [c EXCEPT !.receiver = "returned", !.noted = Append(c.noted, "final"), !.heard = m.audio]
      <4>1. d = Taken(c, m)
        BY <3>3 DEF Taken
      <4>2. /\ d \in ClientPlaces /\ d.at = c.at /\ d.sent = c.sent /\ d.interims = c.interims
            /\ d.receiver = "returned" /\ d.noted = Append(c.noted, "final") /\ d.heard = m.audio
        BY <1>1, <1>6, <2>3, <2>5 DEF ClientPlaces
      <4> HIDE DEF d
      <4>3. QED BY <2>1, <3>3, <4>1, <4>2 DEF Takes
    <3>4. CASE m.type \in {"error", "close"}
      <4> DEFINE d == [c EXCEPT !.receiver = "raised"]
      <4>1. d = Taken(c, m)
        BY <3>4 DEF Taken
      <4>2. /\ d \in ClientPlaces /\ d.at = c.at /\ d.sent = c.sent /\ d.interims = c.interims
            /\ d.receiver = "raised" /\ d.noted = c.noted
        BY <1>1, <1>6 DEF ClientPlaces
      <4> HIDE DEF d
      <4>3. QED BY <2>1, <3>4, <4>1, <4>2 DEF Takes
    <3>5. QED BY <2>4, <3>1, <3>2, <3>3, <3>4
  <2>7. m = Head(box) /\ StreamAt(c, v, box, log, n, "bench", setup.frames)
    BY <1>4, <2>2 DEF m
  <2>8. /\ n + 1 \in 0 .. Len(log)
        /\ StreamAt(d, v, Tail(box), log, n + 1, "bench", setup.frames)
    <3>1. Takes(c, Head(box), d)
      BY <2>6, <2>7
    <3>2. box # <<>> /\ setup.frames \in Nat
      BY <1>1, <2>1
    <3>3. QED BY <1>1, <2>7, <3>1, <3>2, ReceiverTakes
  <2>9. Becomes(i, d) /\ StreamAt(d, v, Tail(box), log, n + 1, setup.tool, setup.frames)
    BY <2>1, <2>2, <2>6, <2>8
  <2>10. QED BY <1>1, <1>2, <2>1, <2>2, <2>6, <2>8, <2>9, MovingKeeps
<1>14. CASE ReceiveTimesOut(i)
  <2> DEFINE d == [c EXCEPT !.receiver = "raised"]
  <2>1. c.receiver = "reading" /\ svc' = svc /\ inbox' = inbox /\ Becomes(i, d)
    BY <1>14 DEF ReceiveTimesOut
  <2>2. setup.tool = "bench"
    BY <1>1, <1>5, <2>1 DEF EventsOk
  <2>3. /\ d \in ClientPlaces /\ d.at = c.at /\ d.receiver = "raised" /\ d.sent = c.sent
        /\ d.interims = c.interims /\ d.noted = c.noted /\ d.heard = c.heard
    BY <1>1 DEF ClientPlaces
  <2> HIDE DEF c, v, box, d
  <2>4. StreamAt(d, v, box, log, n, setup.tool, setup.frames)
    BY <1>1, <1>4, <2>1, <2>2, <2>3, ReceiverEnds
  <2>5. QED BY <1>1, <1>2, <2>1, <2>2, <2>3, <2>4, MovingKeeps
<1>15. CASE AwaitFinal(i)
  <2> DEFINE d == [c EXCEPT !.at = "done"]
  <2>1. /\ c.at = "ended" /\ svc' = svc /\ inbox' = inbox
        /\ (c.receiver = "returned" /\ Becomes(i, d)) \/ Fails
    BY <1>15 DEF AwaitFinal
  <2>2. /\ d \in ClientPlaces /\ d.at = "done" /\ d.receiver = c.receiver /\ d.sent = c.sent
        /\ d.interims = c.interims /\ d.noted = c.noted /\ d.heard = c.heard
    BY <1>1 DEF ClientPlaces
  <2> HIDE DEF c, v, box, d
  <2>3. ASSUME c.receiver = "returned", Becomes(i, d) PROVE ClientsInv'
    <3>1. setup.tool = "bench"
      BY <1>1, <1>5, <2>3 DEF EventsOk
    <3>2. StreamAt(d, v, box, log, n, setup.tool, setup.frames)
      BY <1>1, <1>4, <2>1, <2>2, <2>3, <3>1, ReceiverEnds
    <3>3. QED BY <1>1, <1>2, <2>1, <2>2, <2>3, <3>1, <3>2, MovingKeeps
  <2>4. QED BY <1>2, <1>7, <2>1, <2>3
<1>16. CASE Poll(i)
  <2>1. /\ c.at = "polling" /\ box # <<>> /\ svc' = svc
        /\ inbox' = [inbox EXCEPT ![i] = IF Head(box).type = "close" THEN box ELSE Tail(box)]
        /\ IF Head(box).type = "close"
           THEN Becomes(i, [c EXCEPT !.at = "sending"])
           ELSE Becomes(i, Kept1(c, Head(box)))
    BY <1>16 DEF Poll
  <2>2. setup.tool = "probe"
    BY <1>1, <1>5, <2>1 DEF NotedOk
  <2>3. StreamAt(c, v, box, log, n, "probe", setup.frames)
    BY <1>4, <2>2
  <2>4. CASE Head(box).type = "close"
    <3> DEFINE d == [c EXCEPT !.at = "sending"]
    <3>1. /\ d \in ClientPlaces /\ d.at = "sending" /\ d.receiver = c.receiver /\ d.sent = c.sent
          /\ d.events = c.events
      BY <1>1 DEF ClientPlaces
    <3>2. Becomes(i, d) /\ inbox' = [inbox EXCEPT ![i] = box]
      BY <2>1, <2>4
    <3> HIDE DEF c, v, box, d
    <3>3. StreamAt(d, v, box, log, n, "probe", setup.frames)
      <4>1. c.at = "polling" /\ c \in ClientPlaces /\ v \in ServicePlaces /\ setup.frames \in Nat
        BY <1>1, <2>1
      <4>2. QED BY <4>1, <1>4, <2>2, <3>1, ProbeGoesOn
    <3>4. /\ svc' = [svc EXCEPT ![i] = v] /\ setup' = setup /\ level = "running"
          /\ box \in Seq(ClientMessages) /\ v \in ServicePlaces
          /\ setup.tool = "probe" => EventsInOrder(d.events)
      BY <1>1, <1>2, <2>1, <3>1
    <3>5. QED BY <2>2, <2>3, <3>1, <3>2, <3>3, <3>4, MovingKeeps
  <2>5. CASE Head(box).type # "close"
    <3> DEFINE e == Append(c.events, Head(box))
               d == [c EXCEPT !.events = e]
    <3>1. e \in Seq(ClientMessages)
      BY <1>2, <1>6, <2>1
    <3>2. /\ d \in ClientPlaces /\ d.at = c.at /\ d.receiver = c.receiver /\ d.sent = c.sent
          /\ d.events = e
      <4> HIDE DEF e, c
      <4>1. QED BY <1>1, <3>1 DEF ClientPlaces
    <3>3. Becomes(i, d) /\ inbox' = [inbox EXCEPT ![i] = Tail(box)]
      BY <2>1, <2>5 DEF Kept1
    <3> HIDE DEF c, v, box, d
    <3>4. /\ n + 1 \in 0 .. Len(log)
          /\ StreamAt(d, v, Tail(box), log, n + 1, "probe", setup.frames)
          /\ EventsInOrder(c.events) => EventsInOrder(d.events)
      <4>1. Keeps(c, Head(box), d)
        BY <2>1, <2>5, <3>2 DEF Keeps
      <4>2. box # <<>> /\ c \in ClientPlaces /\ v \in ServicePlaces /\ setup.frames \in Nat
        BY <1>1, <2>1
      <4>3. QED BY <2>3, <3>2, <4>1, <4>2, ProbeKeeps
    <3>5. /\ svc' = [svc EXCEPT ![i] = v] /\ setup' = setup /\ level = "running"
          /\ Tail(box) \in Seq(ClientMessages) /\ v \in ServicePlaces
          /\ setup.tool = "probe" => EventsInOrder(d.events)
          /\ StreamAt(d, v, Tail(box), log, n + 1, setup.tool, setup.frames)
      BY <1>1, <1>2, <2>1, <2>2, <3>4
    <3>6. QED BY <3>2, <3>3, <3>4, <3>5, MovingKeeps
  <2>6. QED BY <2>4, <2>5
<1>17. CASE PollTimesOut(i)
  <2> DEFINE d == [c EXCEPT !.at = "sending"]
  <2>1. c.at = "polling" /\ svc' = svc /\ inbox' = inbox /\ Becomes(i, d)
    BY <1>17 DEF PollTimesOut
  <2>2. setup.tool = "probe"
    BY <1>1, <1>5, <2>1 DEF NotedOk
  <2>3. /\ d \in ClientPlaces /\ d.at = "sending" /\ d.receiver = c.receiver /\ d.sent = c.sent
        /\ d.events = c.events
    BY <1>1 DEF ClientPlaces
  <2> HIDE DEF c, v, box, d
  <2>4. StreamAt(d, v, box, log, n, "probe", setup.frames)
    BY <1>1, <1>4, <2>1, <2>2, <2>3, ProbeGoesOn
  <2>5. QED BY <1>1, <1>2, <2>1, <2>2, <2>3, <2>4, MovingKeeps
<1>18. CASE ReadToFinal(i)
  <2>1. /\ setup.tool = "probe" /\ c.at = "ended" /\ box # <<>> /\ svc' = svc
        /\ inbox' = [inbox EXCEPT ![i] = Tail(box)]
        /\ IF Head(box).type = "close" THEN Fails
           ELSE Becomes(i, [Kept1(c, Head(box)) EXCEPT !.at = IF Head(box).type = "final" THEN "done" ELSE @,
                                                       !.heard = Head(box).audio])
    BY <1>18 DEF ReadToFinal
  <2>2. StreamAt(c, v, box, log, n, "probe", setup.frames)
    BY <1>4, <2>1
  <2>3. CASE Head(box).type # "close"
    <3> DEFINE e == Append(c.events, Head(box))
               k == [c EXCEPT !.events = e]
               a == IF Head(box).type = "final" THEN "done" ELSE c.at
               d == [k EXCEPT !.at = a, !.heard = Head(box).audio]
    <3>1. e \in Seq(ClientMessages) /\ Head(box).audio \in Nat
      BY <1>2, <1>6, <2>1 DEF ClientMessages
    <3>2. /\ k \in ClientPlaces /\ k.at = c.at /\ k.receiver = c.receiver /\ k.sent = c.sent
          /\ k.events = e
      <4> HIDE DEF e, c
      <4>1. QED BY <1>1, <3>1 DEF ClientPlaces
    <3>3. a \in {"idle", "starting", "sending", "polling", "ended", "done"}
      BY <1>6
    <3>4. /\ d \in ClientPlaces /\ d.at = a /\ d.receiver = c.receiver /\ d.sent = c.sent
          /\ d.events = e
      <4> HIDE DEF k, a, box, e, c
      <4>1. QED BY <3>1, <3>2, <3>3 DEF ClientPlaces
    <3>5. Becomes(i, d)
      <4>1. k = Kept1(c, Head(box)) /\ k.at = c.at
        BY <3>2 DEF Kept1
      <4> HIDE DEF k
      <4>2. QED BY <2>1, <2>3, <4>1
    <3> HIDE DEF c, v, box, d, k
    <3>6. d.at = c.at \/ (c.at = "ended" /\ Head(box).type = "final" /\ d.at = "done")
      BY <2>1, <3>4
    <3>7. /\ n + 1 \in 0 .. Len(log)
          /\ StreamAt(d, v, Tail(box), log, n + 1, "probe", setup.frames)
          /\ EventsInOrder(c.events) => EventsInOrder(d.events)
      <4>1. Keeps(c, Head(box), d)
        BY <2>1, <2>3, <3>4, <3>6 DEF Keeps
      <4>2. box # <<>> /\ c \in ClientPlaces /\ v \in ServicePlaces /\ setup.frames \in Nat
        BY <1>1, <2>1
      <4>3. QED BY <2>2, <3>4, <4>1, <4>2, ProbeKeeps
    <3>8. /\ svc' = [svc EXCEPT ![i] = v] /\ setup' = setup /\ level = "running"
          /\ Tail(box) \in Seq(ClientMessages) /\ v \in ServicePlaces
          /\ setup.tool = "probe" => EventsInOrder(d.events)
          /\ StreamAt(d, v, Tail(box), log, n + 1, setup.tool, setup.frames)
          /\ inbox' = [inbox EXCEPT ![i] = Tail(box)]
      BY <1>1, <1>2, <2>1, <3>7
    <3>9. QED BY <3>4, <3>5, <3>7, <3>8, MovingKeeps
  <2>4. CASE Head(box).type = "close"
    BY <1>7, <1>8, <2>1, <2>4
  <2>5. QED BY <2>3, <2>4
<1>19. CASE FinalTimesOut(i)
  BY <1>2, <1>7, <1>19 DEF FinalTimesOut
<1>20. QED
  BY <1>9, <1>10, <1>11, <1>12, <1>13, <1>14, <1>15, <1>16, <1>17, <1>18, <1>19 DEF ClientStep

(* The invariant holds of every run of the clients. *)
LEMMA ClientsKeep == ASSUME ClientsInv, [ClientsNext]_clientVars PROVE ClientsInv'
<1>1. CASE OthersLeave
  <2>1. UNCHANGED <<setup, level, cl, svc, inbox>>
    BY <1>1 DEF OthersLeave
  <2>2. Streams' = Streams
    BY <2>1 DEF Streams
  <2>3. QED BY <2>1, <2>2 DEF ClientsInv
<1>2. CASE ReportLevel
  <2>1. UNCHANGED <<setup, cl, svc, inbox>> /\ level = "running" /\ level' = "reported"
    BY <1>2 DEF ReportLevel
  <2>2. \A i \in Streams : cl[i].at = "done"
    BY <1>2 DEF ReportLevel
  <2>3. Streams' = Streams
    BY <2>1 DEF Streams
  <2>4. QED BY <2>1, <2>2, <2>3 DEF ClientsInv
<1>3. CASE \E i \in Streams : ServiceStep(i) \/ ClientStep(i)
  BY <1>3, ServiceKeeps, ClientKeeps
<1>4. CASE UNCHANGED clientVars
  <2>1. UNCHANGED <<setup, level, cl, svc, inbox>>
    BY <1>4 DEF clientVars
  <2>2. Streams' = Streams
    BY <2>1 DEF Streams
  <2>3. QED BY <2>1, <2>2 DEF ClientsInv
<1>5. QED BY <1>1, <1>2, <1>3, <1>4 DEF ClientsNext

(* Every stream of `eidolon-asr bench` and `probe` keeps step with the       *)
(* service: what was said to it is one opening, a slot, what was heard and   *)
(* one end, and what it noted or kept is the part of it that it has taken.   *)
THEOREM ClientsCorrect == ClientsSpec => []ClientsInv
BY ClientsBegin, ClientsKeep, PTL DEF ClientsSpec

\* What is marked once stands in one place, and in order with the rest.
LEMMA MarkedBefore ==
  ASSUME NEW s \in Seq(Marks), MarksInOrder(s), NEW x, NEW y, HasMark(s, x), HasMark(s, y), x # y,
         y = "final" \/ (x = "active" /\ y = "interim")
  PROVE  (CHOOSE k \in DOMAIN s : s[k] = x) < (CHOOSE k \in DOMAIN s : s[k] = y)
<1>1. DOMAIN s = 1 .. Len(s) /\ Len(s) \in Nat
  OBVIOUS
<1>2. PICK a \in 1 .. Len(s) : s[a] = x
  BY DEF HasMark
<1>3. PICK b \in 1 .. Len(s) : s[b] = y
  BY DEF HasMark
<1>4. ASSUME NEW k \in 1 .. Len(s), NEW m \in 1 .. Len(s), s[k] = s[m] PROVE k = m
  BY <1>4 DEF MarksInOrder
<1>5. (CHOOSE k \in DOMAIN s : s[k] = x) = a
  BY <1>1, <1>2, <1>4
<1>6. (CHOOSE k \in DOMAIN s : s[k] = y) = b
  BY <1>1, <1>3, <1>4
<1>7. ~(b < a) /\ a # b
  BY <1>2, <1>3 DEF MarksInOrder
<1>8. a < b
  BY <1>7
<1>9. QED BY <1>5, <1>6, <1>8

(* What is reported of a bench level was measured to the end. *)
LEMMA ReportsMeasured == ASSUME ClientsInv PROVE StreamsMeasured
<1>1. SUFFICES ASSUME level = "reported", setup.tool = "bench", NEW i \in Streams
               PROVE  LET c == cl[i]
                          at(mark) == CHOOSE k \in DOMAIN c.noted : c.noted[k] = mark
                      IN  /\ c.heard = setup.frames /\ c.interims = svc[i].interims
                          /\ {"active", "end", "final"} \subseteq ValuesOf(c.noted)
                          /\ at("end") < at("final") /\ at("active") < at("final")
                          /\ c.interims > 0 => at("active") < at("interim") /\ at("interim") < at("final")
  BY DEF StreamsMeasured
<1>2. cl[i] \in ClientPlaces /\ svc[i] \in ServicePlaces /\ cl[i].at = "done"
      /\ StreamOk(cl[i], svc[i], inbox[i], setup.tool, setup.frames)
  BY <1>1, StreamTyped
<1> DEFINE c == cl[i]
           v == svc[i]
<1>3. PICK log \in Seq(ClientMessages) : \E m \in 0 .. Len(log) :
        StreamAt(c, v, inbox[i], log, m, setup.tool, setup.frames)
  BY <1>2 DEF StreamOk
<1>4. PICK n \in 0 .. Len(log) : StreamAt(c, v, inbox[i], log, n, setup.tool, setup.frames)
  BY <1>3
<1>5. LogOk(log, v) /\ PlaceOk(c, v, n, setup.frames) /\ NotedOk(c, v, log, n)
  BY <1>1, <1>4 DEF StreamAt
<1> HIDE DEF c, v
<1>6. c.at = "done" /\ c.noted \in Seq(Marks) /\ c.interims \in Nat
  BY <1>2 DEF c, ClientPlaces
<1>7. n = Len(log) /\ n >= 1 /\ log[n].type = "final" /\ c.heard = v.fed /\ c.receiver = "returned"
  BY <1>5, <1>6 DEF NotedOk
<1>8. n \in 1 .. Len(log)
  BY <1>7
<1>9. v.at = "open" /\ n >= 3 /\ log[2].type = "active"
  BY <1>5, <1>7, <1>8 DEF LogOk
<1>10. c.heard = setup.frames
  BY <1>5, <1>7, <1>9 DEF PlaceOk
<1>11. c.interims = v.interims
  BY <1>5, <1>7 DEF LogOk, NotedOk
<1>12. n >= 2
  BY <1>8, <1>9
<1>13. /\ HasMark(c.noted, "end") /\ HasMark(c.noted, "active") /\ HasMark(c.noted, "final")
       /\ c.interims # 0 => HasMark(c.noted, "interim")
       /\ MarksInOrder(c.noted)
  BY <1>5, <1>6, <1>7, <1>9, <1>12 DEF NotedOk
<1>14. ASSUME NEW y, HasMark(c.noted, y) PROVE y \in ValuesOf(c.noted)
  <2>1. DOMAIN c.noted = 1 .. Len(c.noted)
    BY <1>6
  <2>2. QED BY <2>1, <1>14 DEF HasMark, ValuesOf
<1>15. {"active", "end", "final"} \subseteq ValuesOf(c.noted)
  BY <1>13, <1>14
<1> DEFINE at(mark) == CHOOSE k \in DOMAIN c.noted : c.noted[k] = mark
<1>16. at("end") < at("final") /\ at("active") < at("final")
  BY <1>6, <1>13, MarkedBefore
<1>17. ASSUME c.interims > 0 PROVE at("active") < at("interim") /\ at("interim") < at("final")
  <2>1. HasMark(c.noted, "interim")
    BY <1>6, <1>13, <1>17
  <2>2. QED BY <2>1, <1>6, <1>13, MarkedBefore
<1>18. QED
  BY <1>10, <1>11, <1>15, <1>16, <1>17 DEF c, v

(* What a probe prints is all that was said. *)
LEMMA ProbePrintsAll == ASSUME ClientsInv PROVE ProbeHeardAll
<1>1. SUFFICES ASSUME setup.tool = "probe"
               PROVE  /\ \A k \in DOMAIN cl[1].events : \A m \in DOMAIN cl[1].events :
                           k < m => /\ cl[1].events[k].type # "final"
                                    /\ cl[1].events[m].type = "error"
                                         \/ cl[1].events[k].audio <= cl[1].events[m].audio
                      /\ level = "reported" =>
                           /\ Head(cl[1].events).type = "active"
                           /\ cl[1].events[Len(cl[1].events)] = ClientMessage("final", setup.frames)
                           /\ Cardinality({k \in DOMAIN cl[1].events : cl[1].events[k].type = "interim"}) =
                                svc[1].interims
  BY DEF ProbeHeardAll
<1>2. 1 \in Streams
  BY <1>1, ClientsAssumption DEF ClientsInv, Streams
<1>3. /\ cl[1] \in ClientPlaces /\ svc[1] \in ServicePlaces /\ EventsInOrder(cl[1].events)
      /\ level = "reported" => cl[1].at = "done"
      /\ level # "failed" => StreamOk(cl[1], svc[1], inbox[1], setup.tool, setup.frames)
  BY <1>1, <1>2, StreamTyped
<1> DEFINE c == cl[1]
           v == svc[1]
           events == c.events
<1>4. events \in Seq(ClientMessages) /\ DOMAIN events = 1 .. Len(events) /\ Len(events) \in Nat
  BY <1>3 DEF ClientPlaces
<1>5. \A k \in DOMAIN events : \A m \in DOMAIN events :
        k < m => events[k].type # "final" /\ (events[m].type = "error" \/ events[k].audio <= events[m].audio)
  BY <1>3, <1>4 DEF EventsInOrder
<1>6. ASSUME level = "reported"
      PROVE  /\ Head(events).type = "active"
             /\ events[Len(events)] = ClientMessage("final", setup.frames)
             /\ Cardinality({k \in DOMAIN events : events[k].type = "interim"}) = v.interims
  <2>1. c.at = "done" /\ StreamOk(c, v, inbox[1], setup.tool, setup.frames)
    BY <1>3, <1>6
  <2>2. PICK log \in Seq(ClientMessages) : \E m \in 0 .. Len(log) :
          StreamAt(c, v, inbox[1], log, m, setup.tool, setup.frames)
    BY <2>1 DEF StreamOk
  <2>3. PICK n \in 0 .. Len(log) : StreamAt(c, v, inbox[1], log, n, setup.tool, setup.frames)
    BY <2>2
  <2>4. LogOk(log, v) /\ PlaceOk(c, v, n, setup.frames) /\ EventsOk(c, log, n)
    BY <1>1, <2>3 DEF StreamAt
  <2>5. n = Len(log) /\ n >= 1 /\ log[n].type = "final"
    BY <2>1, <2>4 DEF EventsOk
  <2>6. n \in 1 .. Len(log)
    BY <2>5
  <2>7. /\ v.at = "open" /\ n >= 3 /\ log[2].type = "active" /\ log[n].audio = v.fed
        /\ v.interims = Cardinality(InterimsOf(log, n))
        /\ log[1].type # "interim"
    BY <2>4, <2>5, <2>6 DEF LogOk
  <2>8. v.fed = setup.frames
    BY <2>4, <2>7 DEF PlaceOk
  <2>9. Len(events) = n - 1 /\ \A k \in 1 .. Len(events) : events[k] = log[k + 1]
    BY <2>4, <2>5 DEF EventsOk
  <2> HIDE DEF events, c, v
  <2>10. Head(events).type = "active"
    <3>1. Len(events) >= 2 /\ 1 \in 1 .. Len(events)
      BY <2>6, <2>7, <2>9
    <3>2. Head(events) = events[1] /\ events[1] = log[1 + 1]
      BY <1>4, <3>1, <2>9
    <3>3. QED BY <3>2, <2>7
  <2>11. events[Len(events)] = ClientMessage("final", setup.frames)
    <3>1. Len(events) \in 1 .. Len(events) /\ Len(events) + 1 = n
      BY <2>6, <2>7, <2>9
    <3>2. events[Len(events)] = log[n] /\ log[n] \in ClientMessages
      BY <3>1, <2>6, <2>9
    <3>3. log[n] = [type |-> "final", audio |-> setup.frames]
      BY <3>2, <2>5, <2>7, <2>8 DEF ClientMessages
    <3>4. QED BY <3>2, <3>3 DEF ClientMessage
  <2>12. Cardinality({k \in DOMAIN events : events[k].type = "interim"}) = v.interims
    <3> DEFINE A == {k \in DOMAIN events : events[k].type = "interim"}
               B == InterimsOf(log, n)
               f == [k \in A |-> k + 1]
    <3>1. \A k \in A : k \in 1 .. n - 1 /\ log[k + 1].type = "interim"
      BY <1>4, <2>9
    <3>2. \A k \in A : k + 1 \in B
      BY <3>1, <2>6 DEF InterimsOf
    <3>3. \A m \in B : m - 1 \in A /\ m = (m - 1) + 1
      <4>1. \A m \in B : m \in 1 .. n /\ log[m].type = "interim" /\ m # 1
        BY <2>7 DEF InterimsOf
      <4>2. ASSUME NEW m \in B PROVE m - 1 \in A /\ m = (m - 1) + 1
        <5>1. m - 1 \in 1 .. n - 1 /\ m = (m - 1) + 1
          BY <4>1, <2>6
        <5>2. events[m - 1] = log[m]
          BY <5>1, <2>9
        <5>3. QED BY <5>1, <5>2, <4>1, <1>4, <2>9
      <4>3. QED BY <4>2
    <3>4. IsFiniteSet(A) /\ IsFiniteSet(B)
      <4>1. IsFiniteSet(1 .. n) /\ IsFiniteSet(DOMAIN events)
        BY <1>4, <2>6, FS_Interval
      <4>2. A \subseteq DOMAIN events /\ B \subseteq 1 .. n
        BY DEF InterimsOf
      <4>3. QED BY <4>1, <4>2, FS_Subset
    <3>5. f \in [A -> B] /\ \A k \in A : f[k] = k + 1
      BY <3>2
    <3>6. \A k, m \in A : f[k] = f[m] => k = m
      <4>1. \A k, m \in 1 .. n - 1 : k + 1 = m + 1 => k = m
        OBVIOUS
      <4>2. QED BY <4>1, <3>1, <3>5
    <3>7. \A m \in B : \E k \in A : f[k] = m
      BY <3>3, <3>5
    <3> HIDE DEF A, B, f
    <3>8. f \in Injection(A, B) /\ f \in Surjection(A, B)
      BY <3>5, <3>6, <3>7 DEF Injection, IsInjective, Surjection
    <3>9. Cardinality(A) = Cardinality(B)
      <4>1. Cardinality(A) <= Cardinality(B)
        BY <3>4, <3>8, FS_Injection
      <4>2. Cardinality(B) <= Cardinality(A)
        BY <3>4, <3>8, FS_Surjection
      <4>3. Cardinality(A) \in Nat /\ Cardinality(B) \in Nat
        BY <3>4, FS_CardinalityType
      <4>4. QED BY <4>1, <4>2, <4>3
    <3>10. QED BY <3>9, <2>7 DEF A, B
  <2>13. QED BY <2>10, <2>11, <2>12
<1>7. QED BY <1>5, <1>6

(* The percentiles of a summary are values of its streams. *)
LEMMA ReportsPercentiles == ASSUME ClientsInv PROVE PercentilesRight
<1>1. setup.streams \in Nat \ {0}
  BY ClientsAssumption DEF ClientsInv
<1>2. InterimCounts \in [1 .. setup.streams -> Nat]
  <2>1. \A i \in Streams : cl[i].interims \in Nat
    BY StreamTyped DEF ClientPlaces
  <2>2. QED BY <2>1 DEF InterimCounts, Streams
<1>3. Len(InterimCounts) = setup.streams
  BY <1>1, <1>2
<1>4. ASSUME NEW q \in {50, 95}
      PROVE  LET p == Percentile(InterimCounts, q)
             IN  /\ p \in ValuesOf(InterimCounts)
                 /\ 100 * AtMost(InterimCounts, p) >= q * Len(InterimCounts)
                 /\ \A x \in ValuesOf(InterimCounts) :
                      x < p => 100 * AtMost(InterimCounts, x) < q * Len(InterimCounts)
  BY <1>1, <1>2, <1>3, PercentileIs
<1>5. QED BY <1>4 DEF PercentilesRight

(* `eidolon-asr bench` reports only streams that it measured to the end,     *)
(* with percentiles that are values of them, and `probe` prints all that the *)
(* service said, for any number of streams, frames, slots and connections.   *)
THEOREM ClientsHonestAlways == ClientsSpec => []ClientsHonest
<1>1. ClientsInv => ClientsHonest
  BY ReportsMeasured, ProbePrintsAll, ReportsPercentiles DEF ClientsHonest
<1>2. QED BY <1>1, ClientsCorrect, PTL

-----------------------------------------------------------------------------
(* NpuBench: what a comprehension keeps *)

Ranks(K, i) == Cardinality({j \in K : j <= i})

\* Of a finite set of numbers each has a rank of its own, and there are no gaps.
LEMMA RankOfEach ==
  ASSUME NEW n \in Nat, NEW K, K \subseteq 1 .. n
  PROVE  /\ IsFiniteSet(K) /\ Cardinality(K) \in 0 .. n
         /\ \A i \in K : Ranks(K, i) \in 1 .. Cardinality(K)
         /\ \A i, j \in K : i < j => Ranks(K, i) < Ranks(K, j)
<1>1. IsFiniteSet(1 .. n) /\ Cardinality(1 .. n) = n
  <2>1. IsFiniteSet(1 .. n) /\ Cardinality(1 .. n) = IF 1 > n THEN 0 ELSE n - 1 + 1
    BY FS_Interval
  <2>2. QED BY <2>1
<1>2. IsFiniteSet(K) /\ Cardinality(K) \in 0 .. n
  <2>1. IsFiniteSet(K) /\ Cardinality(K) <= Cardinality(1 .. n)
    BY <1>1, FS_Subset
  <2>2. Cardinality(K) \in Nat
    BY <2>1, FS_CardinalityType
  <2>3. QED BY <1>1, <2>1, <2>2
<1>3. ASSUME NEW i PROVE IsFiniteSet({j \in K : j <= i}) /\ Ranks(K, i) \in 0 .. Cardinality(K)
  <2> DEFINE U == {j \in K : j <= i}
  <2>1. U \subseteq K
    OBVIOUS
  <2> HIDE DEF U
  <2>2. IsFiniteSet(U) /\ Cardinality(U) <= Cardinality(K)
    BY <1>2, <2>1, FS_Subset
  <2>3. Cardinality(U) \in Nat /\ Cardinality(K) \in Nat
    BY <1>2, <2>2, FS_CardinalityType
  <2>4. QED BY <2>2, <2>3 DEF U, Ranks
<1>4. ASSUME NEW i \in K, NEW j \in K, i < j PROVE Ranks(K, i) < Ranks(K, j)
  <2> DEFINE U == {x \in K : x <= i}
             V == {x \in K : x <= j}
  <2>1. U \subseteq V /\ j \in V /\ j \notin U
    <3>1. i \in Nat /\ j \in Nat /\ \A x \in K : x \in Nat
      OBVIOUS
    <3>2. \A x \in Nat : x <= i => x <= j
      BY <3>1, <1>4
    <3>3. ~ (j <= i) /\ j <= j
      BY <3>1, <1>4
    <3>4. QED BY <3>1, <3>2, <3>3
  <2>2. IsFiniteSet(V)
    BY <1>3
  <2> HIDE DEF U, V
  <2>3. U # V
    BY <2>1
  <2>4. Cardinality(U) < Cardinality(V)
    <3>1. Cardinality(U) <= Cardinality(V) /\ (Cardinality(U) = Cardinality(V) => U = V) /\ IsFiniteSet(U)
      BY <2>1, <2>2, FS_Subset
    <3>2. Cardinality(U) \in Nat /\ Cardinality(V) \in Nat
      BY <2>2, <3>1, FS_CardinalityType
    <3>3. QED BY <2>3, <3>1, <3>2
  <2>5. QED BY <2>4 DEF U, V, Ranks
<1>5. ASSUME NEW i \in K PROVE Ranks(K, i) # 0
  <2>1. i \in {j \in K : j <= i}
    <3>1. i \in Nat
      OBVIOUS
    <3>2. QED BY <3>1
  <2>2. {j \in K : j <= i} # {}
    BY <2>1
  <2>3. Cardinality({j \in K : j <= i}) # 0
    BY <1>3, <2>2, FS_EmptySet
  <2>4. QED BY <2>3 DEF Ranks
<1>6. ASSUME NEW i \in K PROVE Ranks(K, i) \in 1 .. Cardinality(K)
  <2>1. \A c \in 0 .. n : \A r \in 0 .. c : r # 0 => r \in 1 .. c
    OBVIOUS
  <2>2. QED BY <2>1, <1>2, <1>3, <1>5
<1>7. QED BY <1>2, <1>4, <1>6

\* And each number up to the size of the set is the rank of one of it.
LEMMA EachRank ==
  ASSUME NEW n \in Nat, NEW K, K \subseteq 1 .. n, NEW k \in 1 .. Cardinality(K)
  PROVE  \E i \in K : Ranks(K, i) = k
<1> DEFINE G == {i \in K : k <= Ranks(K, i)}
<1>1. IsFiniteSet(K) /\ Cardinality(K) \in Nat /\ k \in Nat /\ k >= 1 /\ k <= Cardinality(K)
  <2> DEFINE c == Cardinality(K)
  <2>1. IsFiniteSet(K) /\ c \in 0 .. n /\ k \in 1 .. c
    <3>1. IsFiniteSet(K) /\ Cardinality(K) \in 0 .. n
      BY RankOfEach
    <3>2. QED BY <3>1
  <2> HIDE DEF c
  <2>2. c \in Nat /\ k \in Nat /\ k >= 1 /\ k <= c
    BY <2>1
  <2>3. QED BY <2>1, <2>2 DEF c
<1>2. K # {}
  BY <1>1, FS_EmptySet
<1>3. PICK top \in K : \A y \in K : y <= top
  <2>1. K \subseteq 0 .. n
    OBVIOUS
  <2>2. QED BY <2>1, <1>2, GreatestNumber
<1>4. Ranks(K, top) = Cardinality(K)
  <2>1. {j \in K : j <= top} = K
    BY <1>3
  <2>2. QED BY <2>1 DEF Ranks
<1>5. G \subseteq Nat /\ G # {}
  <2>1. G \subseteq K /\ K \subseteq Nat
    OBVIOUS
  <2>2. top \in G
    BY <1>1, <1>4
  <2>3. QED BY <2>1, <2>2
<1>6. PICK i \in G : \A y \in G : i <= y
  BY <1>5, LeastNumber
<1>7. i \in K /\ i \in Nat /\ k <= Ranks(K, i) /\ Ranks(K, i) \in Nat
  <2>1. i \in K /\ k <= Ranks(K, i) /\ i \in 1 .. n
    OBVIOUS
  <2>2. Ranks(K, i) \in 1 .. Cardinality(K)
    BY <2>1, RankOfEach
  <2>3. QED BY <2>1, <2>2, <1>1
<1> DEFINE B == {j \in K : j < i}
<1>8. Cardinality(B) < k /\ IsFiniteSet(B) /\ Cardinality(B) \in Nat
  <2>1. IsFiniteSet(B)
    BY <1>1, FS_Subset
  <2>2. Cardinality(B) \in Nat
    BY <2>1, FS_CardinalityType
  <2>3. CASE B = {}
    <3>1. Cardinality(B) = 0
      BY <2>3, FS_EmptySet
    <3> QED BY <3>1, <2>1, <1>1
  <2>4. CASE B # {}
    <3>1. B \subseteq 0 .. n
      <4>1. B \subseteq K /\ 1 .. n \subseteq 0 .. n
        OBVIOUS
      <4>2. QED BY <4>1
    <3>2. PICK w \in B : \A y \in B : y <= w
      BY <3>1, <2>4, GreatestNumber
    <3>3. w \in K /\ w \in Nat /\ w < i
      OBVIOUS
    <3>4. {j \in K : j <= w} = B
      <4>1. \A j \in K : j <= w => j < i
        BY <3>3, <1>7
      <4>2. QED BY <4>1, <3>2
    <3>5. Ranks(K, w) = Cardinality(B)
      BY <3>4 DEF Ranks
    <3>6. w \notin G
      BY <1>6, <3>3, <1>7
    <3> HIDE DEF B
    <3>7. QED BY <1>1, <2>1, <2>2, <3>3, <3>5, <3>6
  <2>5. QED BY <2>3, <2>4
<1>9. Ranks(K, i) = Cardinality(B) + 1
  <2>1. {j \in K : j <= i} = B \union {i} /\ i \notin B
    <3>1. \A j \in K : j \in Nat
      OBVIOUS
    <3>2. \A j \in Nat : (j <= i <=> j < i \/ j = i)
      BY <1>7
    <3>3. ~ (i < i)
      BY <1>7
    <3>4. QED BY <3>1, <3>2, <3>3, <1>7
  <2> HIDE DEF B
  <2>2. Cardinality(B \union {i}) = Cardinality(B) + 1
    BY <1>8, <2>1, FS_AddElement
  <2>3. QED BY <2>1, <2>2 DEF Ranks
<1> HIDE DEF B
<1>10. Ranks(K, i) = k
  BY <1>1, <1>7, <1>8, <1>9
<1>11. QED BY <1>7, <1>10

\* [x for x in s if x in S] has the elements of s that are in S, each as often.
LEMMA AmongIs ==
  ASSUME NEW T, NEW s \in Seq(T), NEW S
  PROVE  /\ Among(s, S) \in Seq(T) /\ Len(Among(s, S)) <= Len(s)
         /\ \A k \in DOMAIN Among(s, S) : Among(s, S)[k] \in S /\ \E i \in DOMAIN s : s[i] = Among(s, S)[k]
         /\ \A i \in DOMAIN s : s[i] \in S => \E k \in DOMAIN Among(s, S) : Among(s, S)[k] = s[i]
         /\ (\A i, j \in DOMAIN s : s[i] = s[j] => i = j) =>
              \A i, j \in DOMAIN Among(s, S) : Among(s, S)[i] = Among(s, S)[j] => i = j
<1> DEFINE n == Len(s)
           K == {i \in DOMAIN s : s[i] \in S}
           nth(k) == CHOOSE i \in K : Ranks(K, i) = k
           among == Among(s, S)
<1>1. n \in Nat /\ DOMAIN s = 1 .. n /\ \A i \in 1 .. n : s[i] \in T
  OBVIOUS
<1>2. K \subseteq 1 .. n /\ \A i \in K : s[i] \in S
  BY <1>1
<1>3. among = [k \in 1 .. Cardinality(K) |-> s[nth(k)]]
  BY DEF Among, Ranks
<1>4. \A i \in 1 .. n : s[i] \in S => i \in K
  BY <1>1
<1> HIDE DEF n, K
<1>5. /\ Cardinality(K) \in 0 .. n
      /\ \A i \in K : Ranks(K, i) \in 1 .. Cardinality(K)
      /\ \A i, j \in K : i < j => Ranks(K, i) < Ranks(K, j)
  BY <1>1, <1>2, RankOfEach
<1>6. \A k \in 1 .. Cardinality(K) : nth(k) \in K /\ Ranks(K, nth(k)) = k
  <2> SUFFICES ASSUME NEW k \in 1 .. Cardinality(K) PROVE nth(k) \in K /\ Ranks(K, nth(k)) = k
    OBVIOUS
  <2>1. \E i \in K : Ranks(K, i) = k
    BY <1>1, <1>2, EachRank
  <2>2. QED BY <2>1
<1>7. \A i, j \in K : Ranks(K, i) = Ranks(K, j) => i = j
  <2> SUFFICES ASSUME NEW i \in K, NEW j \in K, Ranks(K, i) = Ranks(K, j) PROVE i = j
    OBVIOUS
  <2>1. i \in Nat /\ j \in Nat /\ Ranks(K, i) \in Nat
    <3>1. i \in 1 .. n /\ j \in 1 .. n /\ Ranks(K, i) \in 1 .. Cardinality(K)
      BY <1>2, <1>5
    <3>2. QED BY <3>1
  <2>2. ~ (i < j) /\ ~ (j < i)
    BY <1>5, <2>1
  <2>3. QED BY <2>1, <2>2
<1> HIDE DEF nth, among
<1> DEFINE c == Cardinality(K)
<1>8. c \in Nat /\ c <= n /\ DOMAIN among = 1 .. c /\ \A k \in 1 .. c : among[k] = s[nth(k)]
  BY <1>1, <1>3, <1>5
<1>9. \A k \in 1 .. c : nth(k) \in K /\ Ranks(K, nth(k)) = k
  BY <1>6
<1>10. \A i \in K : Ranks(K, i) \in 1 .. c
  BY <1>5
<1> HIDE DEF c
<1>11. among \in Seq(T) /\ Len(among) = c
  <2>1. among = [k \in 1 .. c |-> s[nth(k)]]
    BY <1>3 DEF c
  <2>2. \A k \in 1 .. c : s[nth(k)] \in T
    BY <1>1, <1>2, <1>9
  <2>3. QED BY <2>1, <2>2, <1>8
<1>12. ASSUME NEW k \in DOMAIN among PROVE among[k] \in S /\ \E i \in DOMAIN s : s[i] = among[k]
  <2>1. nth(k) \in K /\ among[k] = s[nth(k)]
    BY <1>8, <1>9
  <2>2. QED BY <2>1, <1>1, <1>2
<1>13. ASSUME NEW i \in DOMAIN s, s[i] \in S PROVE \E k \in DOMAIN among : among[k] = s[i]
  <2>1. i \in K
    BY <1>1, <1>4, <1>13
  <2>2. Ranks(K, i) \in 1 .. c /\ nth(Ranks(K, i)) = i
    BY <2>1, <1>7, <1>9, <1>10
  <2>3. QED BY <2>2, <1>8
<1>14. ASSUME \A i, j \in DOMAIN s : s[i] = s[j] => i = j, NEW i \in DOMAIN among, NEW j \in DOMAIN among,
              among[i] = among[j]
       PROVE  i = j
  <2>1. nth(i) \in DOMAIN s /\ nth(j) \in DOMAIN s /\ s[nth(i)] = s[nth(j)]
    BY <1>14, <1>1, <1>2, <1>8, <1>9
  <2>2. nth(i) = nth(j)
    BY <1>14, <2>1
  <2>3. QED BY <2>2, <1>8, <1>9
<1>15. QED BY <1>8, <1>11, <1>12, <1>13, <1>14 DEF among, n

\* A finite set of numbers has a greatest.
LEMMA GreatestOfFinite ==
  ASSUME NEW U, U \subseteq Nat, IsFiniteSet(U), U # {} PROVE \E b \in U : \A a \in U : a <= b
<1>1. IsFiniteSet(U)
  OBVIOUS
<1>2. PICK n \in Nat : ExistsBijection(1 .. n, U)
  BY FS_NatBijection
<1>2a. PICK f \in Bijection(1 .. n, U) : TRUE
  BY <1>2 DEF ExistsBijection
<1>2b. f \in [1 .. n -> U] /\ \A u \in U : \E i \in 1 .. n : f[i] = u
  BY <1>2a DEF Bijection, Surjection
<1> DEFINE V(k) == {f[i] : i \in 1 .. k}
           T == {k \in 1 .. n : \E b \in V(k) : \A a \in V(k) : a <= b}
<1>2c. \A k \in 1 .. n : f[k] \in Nat /\ V(k) \subseteq Nat
  <2>0. \A k \in 1 .. n : f[k] \in U
    BY <1>2b
  <2>1. \A k \in 1 .. n : f[k] \in Nat
    BY <2>0
  <2>2. ASSUME NEW k \in 1 .. n PROVE V(k) \subseteq Nat
    <3>1. \A i \in 1 .. k : f[i] \in Nat
      <4>1. \A i \in 1 .. k : i \in 1 .. n
        OBVIOUS
      <4>2. QED BY <2>1, <4>1
    <3>2. QED BY <3>1
  <2>3. QED BY <2>1, <2>2
<1>3. 1 \in T
  <2>1. 1 \in 1 .. n
    <3>1. PICK u \in U : TRUE
      OBVIOUS
    <3>2. PICK i \in 1 .. n : f[i] = u
      BY <1>2b
    <3>3. QED BY <3>2
  <2>2. V(1) = {f[1]} /\ f[1] \in Nat
    <3>1. 1 .. 1 = {1}
      OBVIOUS
    <3>2. f[1] \in U
      BY <2>1, <1>2b
    <3>3. QED BY <3>1, <3>2
  <2>3. \A a \in V(1) : a <= f[1]
    BY <2>2
  <2>4. f[1] \in V(1)
    BY <2>2
  <2>5. QED BY <2>1, <2>3, <2>4
<1>4. PICK last \in T : \A y \in T : y <= last
  <2>1. T \subseteq 0 .. n
    <3>1. T \subseteq 1 .. n /\ 1 .. n \subseteq 0 .. n
      OBVIOUS
    <3>2. QED BY <3>1
  <2> HIDE DEF T
  <2>2. QED BY <1>3, <2>1, GreatestNumber
<1>5. last \in 1 .. n
  OBVIOUS
<1>6. PICK top \in V(last) : \A a \in V(last) : a <= top
  OBVIOUS
<1>8. ASSUME last # n PROVE FALSE
  <2>1. last + 1 \in 1 .. n
    BY <1>5, <1>8
  <2>2. V(last + 1) = V(last) \union {f[last + 1]}
    <3>1. 1 .. (last + 1) = (1 .. last) \union {last + 1}
      BY <1>5
    <3>2. QED BY <3>1
  <2>3. \A a \in V(last) : a \in Nat
    BY <1>5, <1>2c
  <2>4. f[last + 1] \in Nat
    BY <2>1, <1>2c
  <2> HIDE DEF V
  <2>5. CASE f[last + 1] <= top
    <3>1. \A a \in V(last + 1) : a <= top
      BY <2>2, <2>5, <1>6
    <3>2. top \in V(last + 1)
      BY <2>2
    <3>3. last + 1 \in T
      BY <2>1, <3>1, <3>2
    <3>4. QED BY <3>3, <1>4, <1>5
  <2>6. CASE ~ (f[last + 1] <= top)
    <3>1. \A a \in V(last) : a <= f[last + 1]
      BY <2>3, <2>4, <2>6, <1>6
    <3>2. \A a \in V(last + 1) : a <= f[last + 1]
      BY <2>2, <2>4, <3>1
    <3>3. f[last + 1] \in V(last + 1)
      BY <2>2
    <3>4. last + 1 \in T
      BY <2>1, <3>2, <3>3
    <3>5. QED BY <3>4, <1>4, <1>5
  <2>7. QED BY <2>5, <2>6
<1>9. V(n) = U
  BY <1>2b
<1>10. QED BY <1>6, <1>8, <1>9

-----------------------------------------------------------------------------
(* NpuBench: records, questions and buckets *)

NoneTwice(qs) == \A i, j \in DOMAIN qs : qs[i] = qs[j] => i = j
In(qs, q) == \E i \in DOMAIN qs : qs[i] = q

\* The order of the gate has each question once, the first in front.
LEMMA OrderIs ==
  /\ Order \in Seq(Questions) /\ NoneTwice(Order) /\ Len(Order) \in Nat \ {0} /\ Order[1] = GateFirst
  /\ \A q \in Questions : In(Order, q)
<1>1. Order \in GateOrders
  BY BenchAssumption DEF Order
<1>2. Cardinality(Questions) \in Nat
  BY BenchAssumption, FS_CardinalityType
<1>3. /\ Order \in [1 .. Cardinality(Questions) -> Questions] /\ Order[1] = GateFirst
      /\ \A q \in Questions : \E i \in DOMAIN Order : Order[i] = q
      /\ \A i, j \in DOMAIN Order : Order[i] = Order[j] => i = j
  BY <1>1 DEF GateOrders
<1>4. Order \in Seq(Questions)
  BY <1>2, <1>3
<1>5. GateFirst \in Questions
  BY DEF Questions
<1>6. PICK i \in DOMAIN Order : Order[i] = GateFirst
  BY <1>3, <1>5
<1>7. Len(Order) \in Nat \ {0}
  BY <1>4, <1>6
<1>8. QED BY <1>3, <1>4, <1>7 DEF NoneTwice, In

\* Each question has a core of its own.
LEMMA CoresApart ==
  ASSUME NEW p \in Questions, NEW q \in Questions
  PROVE  CoreOf(p) \in Nat /\ (CoreOf(p) = CoreOf(q) => p = q)
<1> DEFINE at1(x) == CHOOSE i \in DOMAIN Order : Order[i] = x
<1>1. \A x \in Questions : at1(x) \in DOMAIN Order /\ Order[at1(x)] = x
  BY OrderIs DEF In
<1>2. \A x \in Questions : at1(x) \in Nat \ {0} /\ CoreOf(x) = at1(x) - 1
  <2>1. DOMAIN Order \subseteq Nat \ {0}
    BY OrderIs
  <2>2. \A x \in Questions : at1(x) \in Nat \ {0}
    BY <1>1, <2>1
  <2>3. QED BY <2>2 DEF CoreOf
<1> HIDE DEF at1
<1>3. CoreOf(p) = CoreOf(q) => at1(p) = at1(q)
  BY <1>2
<1>4. QED BY <1>1, <1>2, <1>3

\* A length that fits a bucket has the smallest it fits.
LEMMA BucketThere ==
  ASSUME NEW n \in Nat, n <= Longest(BenchBuckets)
  PROVE  BucketOf(n) \in BenchBuckets
<1>1. \E b \in BenchBuckets : \A a \in BenchBuckets : a <= b
  <2>1. BenchBuckets \subseteq Nat /\ IsFiniteSet(BenchBuckets) /\ BenchBuckets # {}
    BY BenchAssumption
  <2>2. QED BY <2>1, GreatestOfFinite
<1>2. Longest(BenchBuckets) \in BenchBuckets
  BY <1>1 DEF Longest
<1> DEFINE U == {b \in BenchBuckets : n <= b}
<1>3. U \subseteq Nat /\ U # {}
  BY <1>2, BenchAssumption
<1>4. PICK b \in U : \A a \in U : b <= a
  BY <1>3, LeastNumber
<1>5. b \in BenchBuckets /\ n <= b /\ \A a \in BenchBuckets : n <= a => b <= a
  BY <1>4
<1>6. QED BY <1>5 DEF BucketOf

RecordOk(r) ==
  /\ r.answer \in DOMAIN GateThen /\ r.len \in [DOMAIN r.len -> Nat] /\ DOMAIN r.len \subseteq Questions
  /\ \A q \in DOMAIN r.len : r.len[q] <= Longest(BenchBuckets)

RecordsFor(how, rs) ==
  /\ rs \in Seq({rs[i] : i \in DOMAIN rs})
  /\ \A i \in DOMAIN rs : RecordOk(rs[i]) /\ (how # "run" => GateFirst \in DOMAIN rs[i].len)

\* A sequence cut short is of the same elements.
LEMMA CutToIs ==
  ASSUME NEW T, NEW s \in Seq(T), NEW n \in Nat
  PROVE  CutTo(s, n) \in Seq(T) /\ \A k \in DOMAIN CutTo(s, n) : k \in DOMAIN s /\ CutTo(s, n)[k] = s[k]
<1> DEFINE m == IF Len(s) < n THEN Len(s) ELSE n
<1>1. m \in 0 .. Len(s) /\ Len(s) \in Nat
  OBVIOUS
<1>2. CutTo(s, n) = SubSeq(s, 1, m)
  BY DEF CutTo
<1> HIDE DEF m
<1>3. SubSeq(s, 1, m) = [k \in 1 .. m |-> s[k]]
  BY <1>1
<1>4. \A k \in 1 .. m : k \in DOMAIN s /\ s[k] \in T
  BY <1>1
<1>5. QED BY <1>1, <1>2, <1>3, <1>4

\* What is spread out over a sequence is of it.
LEMMA SpacedIs ==
  ASSUME NEW T, NEW s \in Seq(T), NEW n \in Nat
  PROVE  Spaced(s, n) \in Seq(T) /\ \A k \in DOMAIN Spaced(s, n) : \E i \in DOMAIN s : Spaced(s, n)[k] = s[i]
<1> DEFINE stride == IF Len(s) \div n = 0 THEN 1 ELSE Len(s) \div n
           all == [i \in DOMAIN s |-> i]
           hits == Among(all, {i \in DOMAIN s : (i - 1) % stride = 0})
           places == CutTo(hits, n)
<1>1. all \in Seq(DOMAIN s) /\ \A i \in DOMAIN s : s[i] \in T
  OBVIOUS
<1>2. Spaced(s, n) = [k \in DOMAIN places |-> s[places[k]]]
  BY DEF Spaced
<1> HIDE DEF all
<1>3. hits \in Seq(DOMAIN s)
  BY <1>1, AmongIs
<1> HIDE DEF hits
<1>4. places \in Seq(DOMAIN s)
  BY <1>3, CutToIs
<1> HIDE DEF places
<1>5. \A k \in DOMAIN places : places[k] \in DOMAIN s
  BY <1>4
<1>6. Spaced(s, n) \in Seq(T)
  <2>1. Len(places) \in Nat /\ DOMAIN places = 1 .. Len(places)
    BY <1>4
  <2>2. \A k \in 1 .. Len(places) : s[places[k]] \in T
    BY <1>1, <1>5, <2>1
  <2>3. QED BY <1>2, <2>1, <2>2
<1>7. QED BY <1>2, <1>5, <1>6

\* Of whatever a command selects, records are measured that fit the buckets, and
\* in all but run, where questions are left out, they ask the first question.
LEMMA SelectedFits ==
  ASSUME NEW how, NEW all \in BOOLEAN PROVE RecordsFor(how, Selected(how, all))
<1> DEFINE T == {BenchRecords[i] : i \in DOMAIN BenchRecords}
           F == {BenchRecords[i] : i \in {k \in DOMAIN BenchRecords : FitsBucket(BenchRecords[k])}}
           fit == Among(BenchRecords, F)
           full == Longest({Cardinality(DOMAIN fit[i].len) : i \in DOMAIN fit})
           fulls == Among(fit, {fit[i] : i \in {k \in DOMAIN fit : Cardinality(DOMAIN fit[k].len) = full}})
<1>1. BenchRecords \in Seq(T) /\ HowMany \in Nat
  BY BenchAssumption
<1>2. \A r \in T : /\ r = [answer |-> r.answer, len |-> r.len] /\ r.answer \in DOMAIN GateThen
                   /\ r.len \in [DOMAIN r.len -> Nat] /\ GateFirst \in DOMAIN r.len /\ DOMAIN r.len \subseteq Questions
  BY BenchAssumption
<1>3. \A r \in F : RecordOk(r) /\ GateFirst \in DOMAIN r.len
  <2>1. \A r \in F : r \in T /\ FitsBucket(r)
    OBVIOUS
  <2> HIDE DEF F, T
  <2>2. QED BY <1>2, <2>1 DEF RecordOk, FitsBucket
<1>4. fit \in Seq(T) /\ \A k \in DOMAIN fit : fit[k] \in F
  <2> HIDE DEF F, T
  <2>1. QED BY <1>1, AmongIs
<1>5. fit \in Seq(F)
  <2> HIDE DEF F, T, fit
  <2>1. QED BY <1>4
<1>6. Selected(how, all) =
        IF how = "run" THEN [i \in DOMAIN BenchRecords |-> OnlyFitting(BenchRecords[i])]
        ELSE IF how \in OnSets \/ all THEN Spaced(fit, HowMany) ELSE CutTo(fulls, HowMany)
  BY DEF Selected
<1>7. CASE how = "run"
  <2> DEFINE rs == [i \in DOMAIN BenchRecords |-> OnlyFitting(BenchRecords[i])]
  <2>1. ASSUME NEW r \in T PROVE RecordOk(OnlyFitting(r))
    <3> DEFINE keep == {p \in DOMAIN r.len : r.len[p] <= Longest(BenchBuckets)}
               len2 == [q \in keep |-> r.len[q]]
    <3>1. OnlyFitting(r) = [answer |-> r.answer, len |-> len2]
      BY <1>2 DEF OnlyFitting
    <3>2. keep \subseteq DOMAIN r.len /\ \A q \in keep : r.len[q] \in Nat /\ r.len[q] <= Longest(BenchBuckets)
      BY <1>2
    <3> HIDE DEF keep
    <3>3. len2 \in [DOMAIN len2 -> Nat] /\ DOMAIN len2 \subseteq Questions
          /\ \A q \in DOMAIN len2 : len2[q] <= Longest(BenchBuckets)
      BY <3>2, <1>2
    <3> HIDE DEF len2
    <3>4. QED BY <3>1, <3>3, <1>2 DEF RecordOk
  <2>2. \A i \in DOMAIN rs : RecordOk(rs[i])
    <3> HIDE DEF T
    <3>1. \A i \in DOMAIN BenchRecords : BenchRecords[i] \in T
      BY DEF T
    <3>2. QED BY <2>1, <3>1
  <2>3. rs \in Seq({rs[i] : i \in DOMAIN rs})
    <3>1. DOMAIN BenchRecords = 1 .. Len(BenchRecords) /\ Len(BenchRecords) \in Nat
      BY <1>1
    <3>2. QED BY <3>1
  <2> HIDE DEF rs
  <2>4. QED BY <1>6, <1>7, <2>2, <2>3 DEF rs, RecordsFor
<1>8. ASSUME how # "run" PROVE Selected(how, all) \in Seq(F)
  <2> HIDE DEF F, fit, full
  <2>1. Spaced(fit, HowMany) \in Seq(F)
    BY <1>1, <1>5, SpacedIs
  <2>2. fulls \in Seq(F)
    BY <1>5, AmongIs
  <2> HIDE DEF fulls
  <2>3. CutTo(fulls, HowMany) \in Seq(F)
    BY <1>1, <2>2, CutToIs
  <2>4. QED BY <1>6, <1>8, <2>1, <2>3
<1>9. CASE how # "run"
  <2> DEFINE rs == Selected(how, all)
  <2>1. rs \in Seq(F)
    BY <1>8, <1>9
  <2> HIDE DEF rs, F
  <2>2. rs \in Seq({rs[i] : i \in DOMAIN rs}) /\ \A i \in DOMAIN rs : rs[i] \in F
    BY <2>1
  <2>3. QED BY <1>3, <2>2 DEF rs, RecordsFor
<1>10. QED BY <1>7, <1>9

-----------------------------------------------------------------------------
(* NpuBench: what is true of a program, wherever the main thread is in it *)

Tasks(r) == [q : DOMAIN r.len, place : Nat, by : {"main", "pool"}]
Wanted(r) == {q \in DOMAIN r.len : q = GateFirst \/ In(Needed(r), q)}

\* Going on after it, the main thread has these answers.
AnsweredBy(s, q) == s.do \in {"run", "wait"} /\ q \in s.for

\* Tasks of one step: each in a runtime there is, and those of the pool, unless
\* it has one thread only, each in another.
Fine(s, r, W, loaded) ==
  /\ s.tasks \in Seq(Tasks(r))
  /\ \A i \in DOMAIN s.tasks : /\ Runtime(r, s.tasks[i]) \in loaded
                               /\ s.tasks[i].by = IF s.do = "run" THEN "main" ELSE "pool"
  /\ \A i, j \in DOMAIN s.tasks : s.tasks[i].q = s.tasks[j].q => i = j
  /\ s.do # "run" /\ W # 1 =>
       \A i, j \in DOMAIN s.tasks : Runtime(r, s.tasks[i]) = Runtime(r, s.tasks[j]) => i = j

\* A question is asked once and waited for; a runtime is used again only after
\* the answer of its last user; the clock is stopped on all that is wanted.
ProgramOk(P, r, W, loaded) ==
  /\ Len(P) \in Nat /\ DOMAIN P = 1 .. Len(P)
  /\ \A k \in DOMAIN P : Fine(P[k], r, W, loaded) /\ (P[k].tasks # <<>> => P[k].do \in {"run", "submit"})
  /\ \A k, l \in DOMAIN P : \A i \in DOMAIN P[k].tasks, j \in DOMAIN P[l].tasks :
       P[k].tasks[i].q = P[l].tasks[j].q => k = l
  /\ \A k, l \in DOMAIN P : \A i \in DOMAIN P[k].tasks, j \in DOMAIN P[l].tasks :
       k < l /\ Runtime(r, P[k].tasks[i]) = Runtime(r, P[l].tasks[j]) =>
         \E m \in DOMAIN P : k <= m /\ m < l /\ AnsweredBy(P[m], P[k].tasks[i].q)
  /\ \A k \in DOMAIN P : \A i \in DOMAIN P[k].tasks :
       \E m \in DOMAIN P : k <= m /\ AnsweredBy(P[m], P[k].tasks[i].q)
  /\ \A k \in DOMAIN P : P[k].do = "stop" =>
       \A q \in Wanted(r) : \E m \in DOMAIN P : m < k /\ AnsweredBy(P[m], q)

\* A program in which two steps, or one, have tasks.
TwoSteps(P, r, W, loaded, a, b) ==
  /\ Len(P) \in Nat /\ DOMAIN P = 1 .. Len(P) /\ a \in DOMAIN P /\ b \in DOMAIN P /\ a <= b
  /\ \A k \in DOMAIN P : k = a \/ k = b \/ P[k].tasks = <<>>
  /\ Fine(P[a], r, W, loaded) /\ Fine(P[b], r, W, loaded)
  /\ P[a].do \in {"run", "submit"} /\ P[b].do \in {"run", "submit"}
  /\ a # b => \A i \in DOMAIN P[a].tasks, j \in DOMAIN P[b].tasks :
       /\ P[a].tasks[i].q # P[b].tasks[j].q
       /\ Runtime(r, P[a].tasks[i]) = Runtime(r, P[b].tasks[j]) =>
            \E m \in DOMAIN P : a <= m /\ m < b /\ AnsweredBy(P[m], P[a].tasks[i].q)
  /\ \A i \in DOMAIN P[a].tasks : \E m \in DOMAIN P : a <= m /\ AnsweredBy(P[m], P[a].tasks[i].q)
  /\ \A i \in DOMAIN P[b].tasks : \E m \in DOMAIN P : b <= m /\ AnsweredBy(P[m], P[b].tasks[i].q)
  /\ \A k \in DOMAIN P : P[k].do = "stop" =>
       \A q \in Wanted(r) : \E m \in DOMAIN P : m < k /\ AnsweredBy(P[m], q)

\* So is every program of which two steps are kept apart from each other.
LEMMA ProgramFrom ==
  ASSUME NEW P, NEW r, NEW W, NEW loaded, NEW a, NEW b, TwoSteps(P, r, W, loaded, a, b)
  PROVE  ProgramOk(P, r, W, loaded)
<1>1. /\ Len(P) \in Nat /\ DOMAIN P = 1 .. Len(P) /\ a \in DOMAIN P /\ b \in DOMAIN P /\ a <= b
      /\ \A k \in DOMAIN P : k = a \/ k = b \/ P[k].tasks = <<>>
      /\ a \in Nat /\ b \in Nat
  BY DEF TwoSteps
<1>2. \A k \in DOMAIN P : P[k].tasks = <<>> => DOMAIN P[k].tasks = {}
  OBVIOUS
<1>3. \A k \in DOMAIN P : \A i \in DOMAIN P[k].tasks : k = a \/ k = b
  BY <1>1, <1>2
<1>4. ASSUME NEW k \in DOMAIN P
      PROVE  Fine(P[k], r, W, loaded) /\ (P[k].tasks # <<>> => P[k].do \in {"run", "submit"})
  <2>1. CASE k = a \/ k = b
    BY <2>1 DEF TwoSteps
  <2>2. CASE P[k].tasks = <<>>
    <3>1. P[k].tasks \in Seq(Tasks(r))
      BY <2>2
    <3>2. QED BY <1>2, <2>2, <3>1 DEF Fine
  <2>3. QED BY <2>1, <2>2, <1>1
<1>5. ASSUME NEW k \in DOMAIN P, NEW l \in DOMAIN P, NEW i \in DOMAIN P[k].tasks, NEW j \in DOMAIN P[l].tasks
      PROVE  /\ P[k].tasks[i].q = P[l].tasks[j].q => k = l
             /\ k < l /\ Runtime(r, P[k].tasks[i]) = Runtime(r, P[l].tasks[j]) =>
                  \E m \in DOMAIN P : k <= m /\ m < l /\ AnsweredBy(P[m], P[k].tasks[i].q)
  <2>1. (k = a \/ k = b) /\ (l = a \/ l = b)
    BY <1>3
  <2>2. CASE k = l
    BY <2>2, <1>1
  <2>3. CASE k = a /\ l = b /\ a # b
    BY <2>3 DEF TwoSteps
  <2>4. CASE k = b /\ l = a /\ a # b
    <3>1. ~ (k < l)
      BY <2>4, <1>1
    <3>2. P[a].tasks[j].q # P[b].tasks[i].q
      BY <2>4 DEF TwoSteps
    <3>3. QED BY <3>1, <3>2, <2>4
  <2>5. QED BY <2>1, <2>2, <2>3, <2>4
<1>6. ASSUME NEW k \in DOMAIN P, NEW i \in DOMAIN P[k].tasks
      PROVE  \E m \in DOMAIN P : k <= m /\ AnsweredBy(P[m], P[k].tasks[i].q)
  BY <1>3 DEF TwoSteps
<1>7. \A k \in DOMAIN P : P[k].do = "stop" =>
        \A q \in Wanted(r) : \E m \in DOMAIN P : m < k /\ AnsweredBy(P[m], q)
  BY DEF TwoSteps
<1>8. QED BY <1>1, <1>4, <1>5, <1>6, <1>7 DEF ProgramOk

-----------------------------------------------------------------------------
(* NpuBench: the steps of the programs *)

\* Questions that a record has, none twice.
Askable(qs, r) == qs \in Seq(DOMAIN r.len) /\ NoneTwice(qs)

\* Has keeps the questions that the record has.
LEMMA HasIs ==
  ASSUME NEW r, NEW qs \in Seq(Questions), NoneTwice(qs)
  PROVE  /\ Askable(Has(r, qs), r) /\ Len(Has(r, qs)) <= Len(qs)
         /\ \A q : In(Has(r, qs), q) <=> In(qs, q) /\ q \in DOMAIN r.len
<1> DEFINE had == Has(r, qs)
<1>1. /\ had \in Seq(Questions) /\ Len(had) <= Len(qs)
      /\ \A k \in DOMAIN had : had[k] \in DOMAIN r.len /\ \E i \in DOMAIN qs : qs[i] = had[k]
      /\ \A i \in DOMAIN qs : qs[i] \in DOMAIN r.len => \E k \in DOMAIN had : had[k] = qs[i]
      /\ \A i, j \in DOMAIN had : had[i] = had[j] => i = j
  BY AmongIs DEF Has, NoneTwice
<1> HIDE DEF had
<1>2. had \in Seq(DOMAIN r.len)
  BY <1>1
<1>3. \A q : In(had, q) <=> In(qs, q) /\ q \in DOMAIN r.len
  BY <1>1 DEF In
<1>4. QED BY <1>1, <1>2, <1>3 DEF had, Askable, NoneTwice

\* What the answer calls for is two questions at most, and not the first.
LEMMA NeededIs ==
  ASSUME NEW r, RecordOk(r)
  PROVE  /\ Askable(Needed(r), r) /\ Len(Needed(r)) <= 2 /\ Needed(r) \in Seq(Questions)
         /\ \A q : In(Needed(r), q) => q # GateFirst /\ q \in Questions
<1> DEFINE qs == GateThen[r.answer]
<1>1. qs \in Seq(Questions \ {GateFirst}) /\ Len(qs) <= 2 /\ NoneTwice(qs)
  BY BenchAssumption DEF RecordOk, NoneTwice
<1> HIDE DEF qs
<1>2. qs \in Seq(Questions) /\ \A q : In(qs, q) => q # GateFirst /\ q \in Questions
  BY <1>1 DEF In
<1>3. /\ Askable(Has(r, qs), r) /\ Len(Has(r, qs)) <= Len(qs)
      /\ \A q : In(Has(r, qs), q) <=> In(qs, q) /\ q \in DOMAIN r.len
  BY <1>1, <1>2, HasIs
<1>4. Needed(r) = Has(r, qs)
  BY DEF Needed, qs
<1>5. Len(Has(r, qs)) <= 2
  <2>1. Len(qs) \in Nat /\ Len(Has(r, qs)) \in Nat
    BY <1>1, <1>3 DEF Askable
  <2>2. QED BY <2>1, <1>1, <1>3
<1>6. Has(r, qs) \in Seq(Questions)
  BY <1>3 DEF Askable, RecordOk
<1>7. QED BY <1>2, <1>3, <1>4, <1>5, <1>6

\* A place at which the graph of every question is loaded.
LoadedAt(place, r, loaded) ==
  place \in Nat /\ \A q \in DOMAIN r.len : <<place, BucketOf(r.len[q])>> \in loaded

\* The main thread runs questions at one place.
LEMMA RunFine ==
  ASSUME NEW r, NEW W, NEW loaded, NEW qs, Askable(qs, r), NEW place, LoadedAt(place, r, loaded)
  PROVE  /\ Fine(RunAll(qs, place), r, W, loaded) /\ RunAll(qs, place).do = "run"
         /\ \A q : In(qs, q) => AnsweredBy(RunAll(qs, place), q)
         /\ \A i \in DOMAIN RunAll(qs, place).tasks :
              /\ i \in DOMAIN qs /\ RunAll(qs, place).tasks[i].q = qs[i] /\ RunAll(qs, place).tasks[i].place = place
<1> DEFINE ts == [i \in DOMAIN qs |-> [q |-> qs[i], place |-> place, by |-> "main"]]
           s == RunAll(qs, place)
<1>0. place \in Nat /\ \A q \in DOMAIN r.len : <<place, BucketOf(r.len[q])>> \in loaded
  BY DEF LoadedAt
<1>1. s.tasks = ts /\ s.do = "run" /\ s.for = AskedBy(ts)
  <2>1. \A x : [Task(x, place) EXCEPT !.by = "main"] = [q |-> x, place |-> place, by |-> "main"]
    BY DEF Task
  <2>2. [i \in DOMAIN qs |-> [Task(qs[i], place) EXCEPT !.by = "main"]] = ts
    BY <2>1
  <2>3. s = BenchStep("run", ts, AskedBy(ts))
    BY <2>2 DEF RunAll
  <2>4. QED BY <2>3 DEF BenchStep
<1>2. qs \in Seq(DOMAIN r.len) /\ DOMAIN ts = DOMAIN qs /\ \A i \in DOMAIN qs : qs[i] \in DOMAIN r.len
  BY DEF Askable
<1>3. \A i \in DOMAIN ts : /\ ts[i].q = qs[i] /\ ts[i].place = place /\ ts[i].by = "main"
                           /\ ts[i] \in Tasks(r)
  BY <1>0, <1>2 DEF Tasks
<1>4. ts \in Seq(Tasks(r))
  BY <1>2, <1>3
<1> HIDE DEF ts, s
<1>5. \A i \in DOMAIN ts : Runtime(r, ts[i]) \in loaded
  BY <1>0, <1>2, <1>3 DEF Runtime
<1>6. \A i, j \in DOMAIN ts : ts[i].q = ts[j].q => i = j
  BY <1>2, <1>3 DEF Askable, NoneTwice
<1>7. Fine(s, r, W, loaded)
  BY <1>1, <1>3, <1>4, <1>5, <1>6 DEF Fine
<1>8. \A q : In(qs, q) => AnsweredBy(s, q)
  BY <1>1, <1>2, <1>3 DEF In, AskedBy, AnsweredBy
<1>9. QED BY <1>1, <1>2, <1>3, <1>7, <1>8 DEF s

\* What is handed to the pool.
PoolTasks(ts, r, loaded) ==
  /\ ts \in Seq(Tasks(r))
  /\ \A i \in DOMAIN ts : Runtime(r, ts[i]) \in loaded /\ ts[i].by = "pool"
  /\ \A i, j \in DOMAIN ts : ts[i].q = ts[j].q => i = j

\* The pool is handed tasks.
LEMMA SubmitFine ==
  ASSUME NEW r, NEW W, NEW loaded, NEW ts, PoolTasks(ts, r, loaded),
         W # 1 => \A i, j \in DOMAIN ts : Runtime(r, ts[i]) = Runtime(r, ts[j]) => i = j
  PROVE  /\ Fine(Submit(ts), r, W, loaded) /\ Submit(ts).do = "submit" /\ Submit(ts).tasks = ts
<1>1. Submit(ts).tasks = ts /\ Submit(ts).do = "submit"
  BY DEF Submit, BenchStep
<1>2. QED BY <1>1 DEF Fine, PoolTasks

\* Questions that are each given a core of their own.
LEMMA OwnCoresFine ==
  ASSUME NEW r, RecordOk(r), NEW loaded, NEW qs, Askable(qs, r),
         \A q \in DOMAIN r.len : <<CoreOf(q), BucketOf(r.len[q])>> \in loaded
  PROVE  /\ PoolTasks(OnOwnCore(qs), r, loaded)
         /\ \A i, j \in DOMAIN OnOwnCore(qs) : Runtime(r, OnOwnCore(qs)[i]) = Runtime(r, OnOwnCore(qs)[j]) => i = j
         /\ DOMAIN OnOwnCore(qs) = DOMAIN qs /\ \A i \in DOMAIN qs : OnOwnCore(qs)[i].q = qs[i]
<1> DEFINE ts == OnOwnCore(qs)
<1>1. /\ qs \in Seq(DOMAIN r.len) /\ \A i \in DOMAIN qs : qs[i] \in DOMAIN r.len /\ qs[i] \in Questions
      /\ ts = [i \in DOMAIN qs |-> [q |-> qs[i], place |-> CoreOf(qs[i]), by |-> "pool"]]
  BY DEF Askable, OnOwnCore, Task, RecordOk
<1>2. \A i \in DOMAIN qs : CoreOf(qs[i]) \in Nat
  BY <1>1, CoresApart
<1> HIDE DEF ts
<1>3. DOMAIN ts = DOMAIN qs /\ \A i \in DOMAIN ts : /\ ts[i].q = qs[i] /\ ts[i].place = CoreOf(qs[i])
                                                   /\ ts[i].by = "pool" /\ ts[i] \in Tasks(r)
  BY <1>1, <1>2 DEF Tasks
<1>4. ts \in Seq(Tasks(r))
  BY <1>1, <1>3
<1>5. \A i \in DOMAIN ts : Runtime(r, ts[i]) = <<CoreOf(qs[i]), BucketOf(r.len[qs[i]])>>
  BY <1>3 DEF Runtime
<1>6. \A i, j \in DOMAIN ts : qs[i] = qs[j] => i = j
  BY <1>3 DEF Askable, NoneTwice
<1>7. \A i, j \in DOMAIN ts : Runtime(r, ts[i]) = Runtime(r, ts[j]) => i = j
  <2> SUFFICES ASSUME NEW i \in DOMAIN ts, NEW j \in DOMAIN ts, Runtime(r, ts[i]) = Runtime(r, ts[j])
               PROVE  i = j
    OBVIOUS
  <2>1. CoreOf(qs[i]) = CoreOf(qs[j])
    BY <1>5
  <2>2. qs[i] = qs[j]
    BY <2>1, <1>1, <1>3, CoresApart
  <2>3. QED BY <2>2, <1>6
<1>8. PoolTasks(ts, r, loaded)
  BY <1>1, <1>3, <1>4, <1>5, <1>6 DEF PoolTasks
<1>9. QED BY <1>3, <1>7, <1>8 DEF ts

\* Two questions at most are spread over the sets.
LEMMA SpreadFine ==
  ASSUME NEW r, NEW loaded, NEW qs, Askable(qs, r), Len(qs) <= 2, NEW n \in 1 .. 3,
         \A p \in 0 .. n - 1 : LoadedAt(p, r, loaded)
  PROVE  /\ PoolTasks(SpreadOver(qs, n), r, loaded)
         /\ n # 1 => \A i, j \in DOMAIN SpreadOver(qs, n) :
              Runtime(r, SpreadOver(qs, n)[i]) = Runtime(r, SpreadOver(qs, n)[j]) => i = j
         /\ DOMAIN SpreadOver(qs, n) = DOMAIN qs /\ \A i \in DOMAIN qs : SpreadOver(qs, n)[i].q = qs[i]
<1> DEFINE ts == SpreadOver(qs, n)
           place(i) == (i - 1) % n
<1>1. /\ qs \in Seq(DOMAIN r.len) /\ \A i \in DOMAIN qs : qs[i] \in DOMAIN r.len
      /\ ts = [i \in DOMAIN qs |-> [q |-> qs[i], place |-> place(i), by |-> "pool"]]
  BY DEF Askable, SpreadOver, Task
<1>2. \A i \in DOMAIN qs : i = 1 \/ i = 2
  <2>1. DOMAIN qs = 1 .. Len(qs) /\ Len(qs) \in Nat
    BY <1>1
  <2>2. QED BY <2>1
<1>3. place(1) = 0 /\ (n # 1 => place(2) = 1) /\ (n = 1 => place(2) = 0)
  <2>1. n = 1 \/ n = 2 \/ n = 3
    OBVIOUS
  <2>2. QED BY <2>1
<1>4. \A i \in DOMAIN qs : place(i) \in 0 .. n - 1 /\ place(i) \in Nat
  <2>1. 0 \in 0 .. n - 1 /\ (n # 1 => 1 \in 0 .. n - 1)
    OBVIOUS
  <2> HIDE DEF place
  <2>2. QED BY <1>2, <1>3, <2>1
<1> HIDE DEF ts, place
<1>5. DOMAIN ts = DOMAIN qs /\ \A i \in DOMAIN ts : /\ ts[i].q = qs[i] /\ ts[i].place = place(i)
                                                   /\ ts[i].by = "pool" /\ ts[i] \in Tasks(r)
  BY <1>1, <1>4 DEF Tasks
<1>6. ts \in Seq(Tasks(r))
  BY <1>1, <1>5
<1>7. \A i \in DOMAIN ts : Runtime(r, ts[i]) = <<place(i), BucketOf(r.len[qs[i]])>>
  BY <1>5 DEF Runtime
<1>8. \A i, j \in DOMAIN ts : qs[i] = qs[j] => i = j
  BY <1>5 DEF Askable, NoneTwice
<1>9. PoolTasks(ts, r, loaded)
  BY <1>1, <1>4, <1>5, <1>6, <1>7, <1>8 DEF PoolTasks, LoadedAt
<1>10. n # 1 => \A i, j \in DOMAIN ts : Runtime(r, ts[i]) = Runtime(r, ts[j]) => i = j
  <2>1. n # 1 => \A i, j \in DOMAIN ts : place(i) = place(j) => i = j
    BY <1>2, <1>3, <1>5
  <2>2. QED BY <1>7, <2>1
<1>11. QED BY <1>5, <1>9, <1>10 DEF ts

\* The first question and the next ones of the gate are each on a set of their own.
LEMMA GuessedFine ==
  ASSUME NEW r, RecordOk(r), GateFirst \in DOMAIN r.len, NEW loaded, NEW n \in 1 .. 3,
         \A p \in 0 .. n - 1 : LoadedAt(p, r, loaded)
  PROVE  /\ PoolTasks(Guessed(r, n), r, loaded)
         /\ \A i, j \in DOMAIN Guessed(r, n) :
              Runtime(r, Guessed(r, n)[i]) = Runtime(r, Guessed(r, n)[j]) => i = j
         /\ GateFirst \in AskedBy(Guessed(r, n))
         /\ \A i \in DOMAIN Guessed(r, n) : Guessed(r, n)[i].place = 0 => Guessed(r, n)[i].q = GateFirst
<1> DEFINE m == IF n < Len(Order) THEN n ELSE Len(Order)
           next == SubSeq(Order, 2, m)
           guess == Has(r, next)
           ts == Guessed(r, n)
           called(k) == IF k = 1 THEN GateFirst ELSE guess[k - 1]
<1>1. /\ Order \in Seq(Questions) /\ NoneTwice(Order) /\ Len(Order) \in Nat \ {0} /\ Order[1] = GateFirst
  BY OrderIs
<1>2. m \in 1 .. n /\ m \in 1 .. Len(Order) /\ m \in Nat
  BY <1>1
<1> HIDE DEF m
<1>3. next = [i \in 1 .. m - 1 |-> Order[i + 1]]
  <2>1. Len(next) = m - 1 /\ DOMAIN next = 1 .. m - 1
    BY <1>1, <1>2
  <2>2. \A i \in 1 .. m - 1 : next[i] = Order[i + 1]
    BY <1>1, <1>2
  <2>3. next \in Seq(Questions)
    BY <1>1, <1>2
  <2> HIDE DEF next
  <2>4. QED BY <2>1, <2>2, <2>3
<1> HIDE DEF next
<1>4. \A i \in 1 .. m - 1 : i + 1 \in DOMAIN Order /\ i + 1 # 1
  BY <1>1, <1>2
<1>5. next \in Seq(Questions) /\ NoneTwice(next) /\ Len(next) = m - 1 /\ ~ In(next, GateFirst)
  <2>1. DOMAIN next = 1 .. m - 1 /\ m - 1 \in Nat /\ \A i \in 1 .. m - 1 : next[i] = Order[i + 1] /\ next[i] \in Questions
    BY <1>1, <1>2, <1>3, <1>4
  <2>2. next \in Seq(Questions) /\ Len(next) = m - 1
    BY <1>3, <2>1
  <2>3. ~ In(next, GateFirst)
    <3>1. \A i \in 1 .. m - 1 : Order[i + 1] # GateFirst
      <4>1. 1 \in DOMAIN Order
        BY <1>1
      <4>2. QED BY <4>1, <1>1, <1>4 DEF NoneTwice
    <3>2. QED BY <2>1, <3>1 DEF In
  <2>4. NoneTwice(next)
    <3>1. \A i, j \in 1 .. m - 1 : i + 1 = j + 1 => i = j
      OBVIOUS
    <3>2. QED BY <2>1, <3>1, <1>1, <1>4 DEF NoneTwice
  <2>5. QED BY <2>2, <2>3, <2>4
<1>6. Askable(guess, r) /\ Len(guess) <= m - 1 /\ \A q : In(guess, q) => In(next, q) /\ q \in DOMAIN r.len
  BY <1>5, HasIs
<1>7. /\ guess \in Seq(DOMAIN r.len) /\ Len(guess) \in Nat /\ DOMAIN guess = 1 .. Len(guess)
      /\ \A i \in DOMAIN guess : guess[i] \in DOMAIN r.len /\ guess[i] # GateFirst
  BY <1>5, <1>6 DEF Askable, In
<1>8. \A k \in 1 .. Len(guess) + 1 : k # 1 => k - 1 \in DOMAIN guess
  BY <1>7
<1>9. ts = [k \in 1 .. Len(guess) + 1 |-> [q |-> called(k), place |-> k - 1, by |-> "pool"]]
  <2> DEFINE rest == [i \in DOMAIN guess |-> Task(guess[i], i)]
  <2>1. ts = <<Task(GateFirst, 0)>> \o rest
    BY DEF Guessed, guess, next, m
  <2> HIDE DEF ts, guess
  <2>2. rest \in Seq([q : DOMAIN r.len, place : Nat, by : {"pool"}])
    <3>1. \A i \in DOMAIN guess : rest[i] \in [q : DOMAIN r.len, place : Nat, by : {"pool"}]
      BY <1>7 DEF Task
    <3>2. QED BY <3>1, <1>7
  <2>3. Len(rest) = Len(guess)
    BY <1>7
  <2>4. ts = [k \in 1 .. Len(guess) + 1 |-> IF k = 1 THEN Task(GateFirst, 0) ELSE rest[k - 1]]
    <3> HIDE DEF rest
    <3>1. Len(<<Task(GateFirst, 0)>>) = 1 /\ <<Task(GateFirst, 0)>>[1] = Task(GateFirst, 0)
      OBVIOUS
    <3>2. <<Task(GateFirst, 0)>> \in Seq({Task(GateFirst, 0)})
      OBVIOUS
    <3>3. ts = [k \in 1 .. 1 + Len(rest) |-> IF k <= 1 THEN <<Task(GateFirst, 0)>>[k] ELSE rest[k - 1]]
      BY <2>1, <2>2, <3>1, <3>2
    <3>4. \A k \in 1 .. 1 + Len(rest) : k <= 1 <=> k = 1
      BY <2>2
    <3>5. 1 .. 1 + Len(rest) = 1 .. Len(guess) + 1
      BY <2>2, <2>3, <1>7
    <3>6. QED BY <3>1, <3>3, <3>4, <3>5
  <2>5. \A k \in 1 .. Len(guess) + 1 : (IF k = 1 THEN Task(GateFirst, 0) ELSE rest[k - 1])
                                        = [q |-> called(k), place |-> k - 1, by |-> "pool"]
    BY <1>8 DEF Task
  <2>6. QED BY <2>4, <2>5
<1> HIDE DEF guess, ts
<1>10. \A k \in 1 .. Len(guess) + 1 : /\ called(k) \in DOMAIN r.len /\ k - 1 \in Nat /\ k - 1 \in 0 .. n - 1
                                      /\ k # 1 => called(k) # GateFirst /\ k - 1 # 0
  <2> TAKE k \in 1 .. Len(guess) + 1
  <2>1. k - 1 \in Nat /\ k - 1 <= Len(guess) /\ Len(guess) <= m - 1 /\ m <= n /\ n \in Nat /\ m \in Nat
    BY <1>2, <1>6, <1>7
  <2>2. k - 1 \in 0 .. n - 1
    BY <2>1, <1>7
  <2>3. QED BY <2>1, <2>2, <1>7, <1>8
<1>11. \A i, j \in 1 .. Len(guess) + 1 : called(i) = called(j) => i = j
  <2> SUFFICES ASSUME NEW i \in 1 .. Len(guess) + 1, NEW j \in 1 .. Len(guess) + 1, called(i) = called(j)
               PROVE  i = j
    OBVIOUS
  <2>1. CASE i = 1 \/ j = 1
    BY <2>1, <1>10
  <2>2. CASE i # 1 /\ j # 1
    <3>1. i - 1 = j - 1
      BY <2>2, <1>6, <1>8 DEF Askable, NoneTwice
    <3>2. QED BY <3>1
  <2>3. QED BY <2>1, <2>2
<1> HIDE DEF called
<1>12. DOMAIN ts = 1 .. Len(guess) + 1
       /\ \A k \in DOMAIN ts : /\ ts[k].q = called(k) /\ ts[k].place = k - 1 /\ ts[k].by = "pool" /\ ts[k] \in Tasks(r)
  BY <1>9, <1>10 DEF Tasks
<1>13. ts \in Seq(Tasks(r))
  BY <1>7, <1>9, <1>12
<1>14. \A k \in DOMAIN ts : Runtime(r, ts[k]) = <<k - 1, BucketOf(r.len[called(k)])>> /\ Runtime(r, ts[k]) \in loaded
  BY <1>10, <1>12 DEF Runtime, LoadedAt
<1>15. PoolTasks(ts, r, loaded)
  BY <1>11, <1>12, <1>13, <1>14 DEF PoolTasks
<1>16. \A i, j \in DOMAIN ts : Runtime(r, ts[i]) = Runtime(r, ts[j]) => i = j
  <2>1. \A i, j \in DOMAIN ts : i - 1 = j - 1 => i = j
    BY <1>12
  <2>2. QED BY <2>1, <1>14
<1>17. called(1) = GateFirst /\ 1 \in DOMAIN ts
  BY <1>7, <1>12 DEF called
<1>18. GateFirst \in AskedBy(ts)
  BY <1>12, <1>17 DEF AskedBy
<1>19. ASSUME NEW i \in DOMAIN ts, ts[i].place = 0 PROVE ts[i].q = GateFirst
  <2>1. i - 1 = 0 /\ i \in Nat
    BY <1>12, <1>19
  <2>2. i = 1
    BY <2>1
  <2>3. QED BY <2>2, <1>12, <1>17
<1>20. QED BY <1>15, <1>16, <1>18, <1>19 DEF ts

\* The main thread runs the first question.
LEMMA FirstFine ==
  ASSUME NEW r, RecordOk(r), GateFirst \in DOMAIN r.len, NEW W, NEW loaded, NEW place \in Nat,
         <<place, BucketOf(r.len[GateFirst])>> \in loaded
  PROVE  /\ Fine(RunFirst(place), r, W, loaded) /\ RunFirst(place).do = "run"
         /\ AnsweredBy(RunFirst(place), GateFirst)
         /\ \A i \in DOMAIN RunFirst(place).tasks : RunFirst(place).tasks[i].q = GateFirst
<1> DEFINE ts == <<[q |-> GateFirst, place |-> place, by |-> "main"]>>
           s == RunFirst(place)
<1>1. s.tasks = ts /\ s.do = "run" /\ s.for = AskedBy(ts)
  <2>1. [i \in DOMAIN <<GateFirst>> |-> [Task(<<GateFirst>>[i], place) EXCEPT !.by = "main"]] = ts
    <3>1. \A x : [Task(x, place) EXCEPT !.by = "main"] = [q |-> x, place |-> place, by |-> "main"]
      BY DEF Task
    <3>2. DOMAIN <<GateFirst>> = 1 .. 1 /\ <<GateFirst>>[1] = GateFirst
      OBVIOUS
    <3>3. \A i \in 1 .. 1 : i = 1
      OBVIOUS
    <3>4. QED BY <3>1, <3>2, <3>3
  <2>2. s = BenchStep("run", ts, AskedBy(ts))
    BY <2>1 DEF RunFirst, RunAll
  <2>3. QED BY <2>2 DEF BenchStep
<1>2. /\ DOMAIN ts = {1} /\ ts[1].q = GateFirst /\ ts[1].place = place /\ ts[1].by = "main"
      /\ ts \in Seq(Tasks(r))
  <2>1. [q |-> GateFirst, place |-> place, by |-> "main"] \in Tasks(r)
    BY DEF Tasks
  <2>2. QED BY <2>1
<1> HIDE DEF ts, s
<1>3. Runtime(r, ts[1]) \in loaded
  BY <1>2 DEF Runtime
<1>4. Fine(s, r, W, loaded)
  BY <1>1, <1>2, <1>3 DEF Fine
<1>5. AnsweredBy(s, GateFirst)
  BY <1>1, <1>2 DEF AnsweredBy, AskedBy
<1>6. QED BY <1>1, <1>2, <1>4, <1>5 DEF s

-----------------------------------------------------------------------------
(* NpuBench: the programs *)

\* The steps that have no tasks, and what is answered after each.
LEMMA PlainSteps ==
  /\ StopClock.do = "stop" /\ StopClock.tasks = <<>> /\ \A q : ~ AnsweredBy(StopClock, q)
  /\ \A qs : /\ WaitFor(qs).do = "wait" /\ WaitFor(qs).tasks = <<>>
             /\ \A q : AnsweredBy(WaitFor(qs), q) <=> q \in qs
  /\ \A ts : \A q : ~ AnsweredBy(Submit(ts), q)
BY DEF StopClock, WaitFor, Submit, BenchStep, AnsweredBy

\* All the questions of a record, in the order of the gate.
LEMMA AllIs ==
  ASSUME NEW r, RecordOk(r)
  PROVE  /\ Askable(Has(r, Order), r) /\ \A q \in DOMAIN r.len : In(Has(r, Order), q)
         /\ \A q \in Wanted(r) : In(Has(r, Order), q)
<1>1. /\ Askable(Has(r, Order), r)
      /\ \A q : In(Has(r, Order), q) <=> In(Order, q) /\ q \in DOMAIN r.len
  BY OrderIs, HasIs
<1>2. \A q \in DOMAIN r.len : In(Order, q)
  BY OrderIs DEF RecordOk
<1>3. QED BY <1>1, <1>2 DEF Wanted

\* cmd_run, and bench on one core.
LEMMA SequentialOk ==
  ASSUME NEW r, RecordOk(r), NEW W, NEW n, NEW loaded, NEW how \in {"run", "one_core"},
         LoadedAt(0, r, loaded)
  PROVE  ProgramOk(ProgramOf(how, r, n), r, W, loaded)
<1> DEFINE all == Has(r, Order)
           one == RunAll(all, 0)
           P == ProgramOf(how, r, n)
<1>1. P = <<one, StopClock>>
  BY DEF ProgramOf
<1>2. Askable(all, r) /\ \A q \in Wanted(r) : In(all, q)
  BY AllIs
<1> HIDE DEF all
<1>3. /\ Fine(one, r, W, loaded) /\ one.do = "run"
      /\ \A q : In(all, q) => AnsweredBy(one, q)
      /\ \A i \in DOMAIN one.tasks : i \in DOMAIN all /\ one.tasks[i].q = all[i]
  BY <1>2, RunFine
<1> HIDE DEF one, P
<1>4. /\ Len(P) \in Nat /\ DOMAIN P = 1 .. Len(P) /\ 1 \in DOMAIN P /\ 2 \in DOMAIN P
      /\ P[1] = one /\ P[2] = StopClock /\ \A k \in DOMAIN P : k = 1 \/ k = 2
  <2>1. \A k \in 1 .. 2 : k = 1 \/ k = 2
    OBVIOUS
  <2>2. QED BY <1>1, <2>1
<1>5. \A i \in DOMAIN one.tasks : AnsweredBy(one, one.tasks[i].q)
  BY <1>3 DEF In
<1>6. \A q \in Wanted(r) : AnsweredBy(one, q)
  BY <1>2, <1>3
<1>7. TwoSteps(P, r, W, loaded, 1, 1)
  BY <1>3, <1>4, <1>5, <1>6, PlainSteps DEF TwoSteps
<1>8. QED BY <1>7, ProgramFrom DEF P

\* bench with every question on its own core.
LEMMA PerQuestionOk ==
  ASSUME NEW r, RecordOk(r), NEW W, NEW n, NEW loaded,
         \A q \in DOMAIN r.len : <<CoreOf(q), BucketOf(r.len[q])>> \in loaded
  PROVE  ProgramOk(ProgramOf("per_question", r, n), r, W, loaded)
<1> DEFINE all == Has(r, Order)
           ts == OnOwnCore(all)
           named == {all[i] : i \in DOMAIN all}
           P == ProgramOf("per_question", r, n)
<1>1. P = <<Submit(ts), WaitFor(named), StopClock>>
  BY DEF ProgramOf
<1>2. Askable(all, r) /\ \A q \in Wanted(r) : In(all, q)
  BY AllIs
<1>3. \A q : In(all, q) => q \in named
  BY DEF In
<1> HIDE DEF all, named
<1>4. /\ PoolTasks(ts, r, loaded)
      /\ \A i, j \in DOMAIN ts : Runtime(r, ts[i]) = Runtime(r, ts[j]) => i = j
      /\ DOMAIN ts = DOMAIN all /\ \A i \in DOMAIN all : ts[i].q = all[i]
  BY <1>2, OwnCoresFine
<1> HIDE DEF ts, P
<1>5. Fine(Submit(ts), r, W, loaded) /\ Submit(ts).do = "submit" /\ Submit(ts).tasks = ts
  BY <1>4, SubmitFine
<1>6. /\ Len(P) \in Nat /\ DOMAIN P = 1 .. Len(P) /\ 1 \in DOMAIN P /\ 2 \in DOMAIN P /\ 3 \in DOMAIN P
      /\ P[1] = Submit(ts) /\ P[2] = WaitFor(named) /\ P[3] = StopClock /\ \A k \in DOMAIN P : k = 1 \/ k = 2 \/ k = 3
  BY <1>1
<1>7. \A i \in DOMAIN ts : AnsweredBy(P[2], ts[i].q)
  BY <1>3, <1>4, <1>6, PlainSteps DEF In
<1>8. \A q \in Wanted(r) : AnsweredBy(P[2], q)
  BY <1>2, <1>3, <1>6, PlainSteps
<1>9. TwoSteps(P, r, W, loaded, 1, 1)
  <2>1. \A k \in DOMAIN P : k = 1 \/ P[k].tasks = <<>>
    BY <1>6, PlainSteps
  <2>2. \A i \in DOMAIN P[1].tasks : \E m \in DOMAIN P : 1 <= m /\ AnsweredBy(P[m], P[1].tasks[i].q)
    BY <1>5, <1>6, <1>7
  <2>3. \A k \in DOMAIN P : P[k].do = "stop" => k = 3
    BY <1>5, <1>6, PlainSteps
  <2>4. \A q \in Wanted(r) : \E m \in DOMAIN P : m < 3 /\ AnsweredBy(P[m], q)
    BY <1>6, <1>8
  <2>5. QED BY <1>5, <1>6, <2>1, <2>2, <2>3, <2>4 DEF TwoSteps
<1>10. QED BY <1>9, ProgramFrom DEF P

\* bench with the first question alone.
LEMMA EarlyExitOk ==
  ASSUME NEW r, RecordOk(r), GateFirst \in DOMAIN r.len, NEW W, NEW n, NEW loaded,
         \A q \in DOMAIN r.len : <<CoreOf(q), BucketOf(r.len[q])>> \in loaded
  PROVE  ProgramOk(ProgramOf("early_exit", r, n), r, W, loaded)
<1> DEFINE need == Needed(r)
           one == RunFirst(CoreOf(GateFirst))
           ts == OnOwnCore(need)
           named == {need[i] : i \in DOMAIN need}
           P == ProgramOf("early_exit", r, n)
<1>1. P = <<one, Submit(ts), WaitFor(named), StopClock>>
  BY DEF ProgramOf
<1>2. Askable(need, r) /\ \A q : In(need, q) => q # GateFirst
  BY NeededIs
<1>3. (\A q : In(need, q) => q \in named) /\ \A q \in Wanted(r) : q = GateFirst \/ q \in named
  BY DEF In, Wanted
<1> HIDE DEF need, named
<1>4. /\ PoolTasks(ts, r, loaded)
      /\ \A i, j \in DOMAIN ts : Runtime(r, ts[i]) = Runtime(r, ts[j]) => i = j
      /\ DOMAIN ts = DOMAIN need /\ \A i \in DOMAIN need : ts[i].q = need[i]
  BY <1>2, OwnCoresFine
<1> HIDE DEF ts, P
<1>5. Fine(Submit(ts), r, W, loaded) /\ Submit(ts).do = "submit" /\ Submit(ts).tasks = ts
  BY <1>4, SubmitFine
<1>6. /\ Fine(one, r, W, loaded) /\ one.do = "run" /\ AnsweredBy(one, GateFirst)
      /\ \A i \in DOMAIN one.tasks : one.tasks[i].q = GateFirst
  <2>1. CoreOf(GateFirst) \in Nat
    BY CoresApart DEF RecordOk
  <2>2. QED BY <2>1, FirstFine
<1> HIDE DEF one
<1>7. /\ Len(P) \in Nat /\ DOMAIN P = 1 .. Len(P) /\ 1 \in DOMAIN P /\ 2 \in DOMAIN P /\ 3 \in DOMAIN P /\ 4 \in DOMAIN P
      /\ P[1] = one /\ P[2] = Submit(ts) /\ P[3] = WaitFor(named) /\ P[4] = StopClock
      /\ \A k \in DOMAIN P : k = 1 \/ k = 2 \/ k = 3 \/ k = 4
  BY <1>1
<1>8. \A i \in DOMAIN ts : AnsweredBy(P[3], ts[i].q) /\ ts[i].q # GateFirst
  BY <1>2, <1>3, <1>4, <1>7, PlainSteps DEF In
<1>9. \A q \in Wanted(r) : AnsweredBy(P[1], q) \/ AnsweredBy(P[3], q)
  BY <1>3, <1>6, <1>7, PlainSteps
<1>10. TwoSteps(P, r, W, loaded, 1, 2)
  <2>1. \A k \in DOMAIN P : k = 1 \/ k = 2 \/ P[k].tasks = <<>>
    BY <1>7, PlainSteps
  <2>2. \A i \in DOMAIN P[1].tasks, j \in DOMAIN P[2].tasks :
          /\ P[1].tasks[i].q # P[2].tasks[j].q
          /\ \E m \in DOMAIN P : 1 <= m /\ m < 2 /\ AnsweredBy(P[m], P[1].tasks[i].q)
    BY <1>5, <1>6, <1>7, <1>8
  <2>3. \A i \in DOMAIN P[1].tasks : \E m \in DOMAIN P : 1 <= m /\ AnsweredBy(P[m], P[1].tasks[i].q)
    BY <1>6, <1>7
  <2>4. \A i \in DOMAIN P[2].tasks : \E m \in DOMAIN P : 2 <= m /\ AnsweredBy(P[m], P[2].tasks[i].q)
    BY <1>5, <1>7, <1>8
  <2>5. \A k \in DOMAIN P : P[k].do = "stop" => k = 4
    BY <1>5, <1>6, <1>7, PlainSteps
  <2>6. \A q \in Wanted(r) : \E m \in DOMAIN P : m < 4 /\ AnsweredBy(P[m], q)
    BY <1>7, <1>9
  <2>7. 1 <= 2
    OBVIOUS
  <2>8. QED BY <1>5, <1>6, <1>7, <2>1, <2>2, <2>3, <2>4, <2>5, <2>6, <2>7 DEF TwoSteps
<1>11. QED BY <1>10, ProgramFrom DEF P

\* bench with all questions at once, those that are not wanted dropped.
LEMMA SpeculativeOk ==
  ASSUME NEW r, RecordOk(r), NEW W, NEW n, NEW loaded,
         \A q \in DOMAIN r.len : <<CoreOf(q), BucketOf(r.len[q])>> \in loaded
  PROVE  ProgramOk(ProgramOf("speculative", r, n), r, W, loaded)
<1> DEFINE all == Has(r, Order)
           need == Needed(r)
           ts == OnOwnCore(all)
           named == {all[i] : i \in DOMAIN all}
           wanted == {need[i] : i \in DOMAIN need}
           P == ProgramOf("speculative", r, n)
<1>1. P = <<Submit(ts), WaitFor({GateFirst}), WaitFor(wanted), StopClock, WaitFor(named)>>
  BY DEF ProgramOf
<1>2. Askable(all, r)
  BY AllIs
<1>3. (\A q : In(all, q) => q \in named) /\ \A q \in Wanted(r) : q = GateFirst \/ q \in wanted
  BY DEF In, Wanted
<1> HIDE DEF all, named, wanted
<1>4. /\ PoolTasks(ts, r, loaded)
      /\ \A i, j \in DOMAIN ts : Runtime(r, ts[i]) = Runtime(r, ts[j]) => i = j
      /\ DOMAIN ts = DOMAIN all /\ \A i \in DOMAIN all : ts[i].q = all[i]
  BY <1>2, OwnCoresFine
<1> HIDE DEF ts, P
<1>5. Fine(Submit(ts), r, W, loaded) /\ Submit(ts).do = "submit" /\ Submit(ts).tasks = ts
  BY <1>4, SubmitFine
<1>6. /\ Len(P) \in Nat /\ DOMAIN P = 1 .. Len(P)
      /\ 1 \in DOMAIN P /\ 2 \in DOMAIN P /\ 3 \in DOMAIN P /\ 4 \in DOMAIN P /\ 5 \in DOMAIN P
      /\ P[1] = Submit(ts) /\ P[2] = WaitFor({GateFirst}) /\ P[3] = WaitFor(wanted) /\ P[4] = StopClock
      /\ P[5] = WaitFor(named) /\ \A k \in DOMAIN P : k = 1 \/ k = 2 \/ k = 3 \/ k = 4 \/ k = 5
  BY <1>1
<1>7. \A i \in DOMAIN ts : AnsweredBy(P[5], ts[i].q)
  BY <1>3, <1>4, <1>6, PlainSteps DEF In
<1>8. \A q \in Wanted(r) : AnsweredBy(P[2], q) \/ AnsweredBy(P[3], q)
  BY <1>3, <1>6, PlainSteps
<1>9. TwoSteps(P, r, W, loaded, 1, 1)
  <2>1. \A k \in DOMAIN P : k = 1 \/ P[k].tasks = <<>>
    BY <1>6, PlainSteps
  <2>2. \A i \in DOMAIN P[1].tasks : \E m \in DOMAIN P : 1 <= m /\ AnsweredBy(P[m], P[1].tasks[i].q)
    BY <1>5, <1>6, <1>7
  <2>3. \A k \in DOMAIN P : P[k].do = "stop" => k = 4
    BY <1>5, <1>6, PlainSteps
  <2>4. ASSUME NEW q \in Wanted(r) PROVE \E m \in DOMAIN P : m < 4 /\ AnsweredBy(P[m], q)
    <3>1. 2 < 4 /\ 3 < 4
      OBVIOUS
    <3>2. QED BY <3>1, <1>6, <1>8
  <2>5. QED BY <1>5, <1>6, <2>1, <2>2, <2>3, <2>4 DEF TwoSteps
<1>10. QED BY <1>9, ProgramFrom DEF P

\* bench-sets, staged: the first question, then what its answer needs.
LEMMA StagedOk ==
  ASSUME NEW r, RecordOk(r), GateFirst \in DOMAIN r.len, NEW n \in 1 .. 3, NEW loaded,
         \A p \in 0 .. n - 1 : LoadedAt(p, r, loaded)
  PROVE  ProgramOk(ProgramOf("staged", r, n), r, n, loaded)
<1> DEFINE need == Needed(r)
           one == RunFirst(0)
           ts == SpreadOver(need, n)
           named == {need[i] : i \in DOMAIN need}
           P == ProgramOf("staged", r, n)
<1>1. P = <<one, Submit(ts), WaitFor(named), StopClock>>
  BY DEF ProgramOf
<1>2. Askable(need, r) /\ Len(need) <= 2 /\ \A q : In(need, q) => q # GateFirst
  BY NeededIs
<1>3. (\A q : In(need, q) => q \in named) /\ \A q \in Wanted(r) : q = GateFirst \/ q \in named
  BY DEF In, Wanted
<1> HIDE DEF need, named
<1>4. /\ PoolTasks(ts, r, loaded)
      /\ n # 1 => \A i, j \in DOMAIN ts : Runtime(r, ts[i]) = Runtime(r, ts[j]) => i = j
      /\ DOMAIN ts = DOMAIN need /\ \A i \in DOMAIN need : ts[i].q = need[i]
  <2>1. Askable(need, r) /\ Len(need) <= 2 /\ \A p \in 0 .. n - 1 : LoadedAt(p, r, loaded)
    BY <1>2
  <2>2. QED BY <2>1, SpreadFine
<1> HIDE DEF ts, P
<1>5. Fine(Submit(ts), r, n, loaded) /\ Submit(ts).do = "submit" /\ Submit(ts).tasks = ts
  BY <1>4, SubmitFine
<1>6. /\ Fine(one, r, n, loaded) /\ one.do = "run" /\ AnsweredBy(one, GateFirst)
      /\ \A i \in DOMAIN one.tasks : one.tasks[i].q = GateFirst
  <2>1. <<0, BucketOf(r.len[GateFirst])>> \in loaded
    BY DEF LoadedAt
  <2>2. QED BY <2>1, FirstFine
<1> HIDE DEF one
<1>7. /\ Len(P) \in Nat /\ DOMAIN P = 1 .. Len(P) /\ 1 \in DOMAIN P /\ 2 \in DOMAIN P /\ 3 \in DOMAIN P /\ 4 \in DOMAIN P
      /\ P[1] = one /\ P[2] = Submit(ts) /\ P[3] = WaitFor(named) /\ P[4] = StopClock
      /\ \A k \in DOMAIN P : k = 1 \/ k = 2 \/ k = 3 \/ k = 4
  BY <1>1
<1>8. \A i \in DOMAIN ts : AnsweredBy(P[3], ts[i].q) /\ ts[i].q # GateFirst
  BY <1>2, <1>3, <1>4, <1>7, PlainSteps DEF In
<1>9. \A q \in Wanted(r) : AnsweredBy(P[1], q) \/ AnsweredBy(P[3], q)
  BY <1>3, <1>6, <1>7, PlainSteps
<1>10. TwoSteps(P, r, n, loaded, 1, 2)
  <2>1. \A k \in DOMAIN P : k = 1 \/ k = 2 \/ P[k].tasks = <<>>
    BY <1>7, PlainSteps
  <2>2. \A i \in DOMAIN P[1].tasks, j \in DOMAIN P[2].tasks :
          /\ P[1].tasks[i].q # P[2].tasks[j].q
          /\ \E m \in DOMAIN P : 1 <= m /\ m < 2 /\ AnsweredBy(P[m], P[1].tasks[i].q)
    BY <1>5, <1>6, <1>7, <1>8
  <2>3. \A i \in DOMAIN P[1].tasks : \E m \in DOMAIN P : 1 <= m /\ AnsweredBy(P[m], P[1].tasks[i].q)
    BY <1>6, <1>7
  <2>4. \A i \in DOMAIN P[2].tasks : \E m \in DOMAIN P : 2 <= m /\ AnsweredBy(P[m], P[2].tasks[i].q)
    BY <1>5, <1>7, <1>8
  <2>5. \A k \in DOMAIN P : P[k].do = "stop" => k = 4
    BY <1>5, <1>6, <1>7, PlainSteps
  <2>6. \A q \in Wanted(r) : \E m \in DOMAIN P : m < 4 /\ AnsweredBy(P[m], q)
    BY <1>7, <1>9
  <2>7. 1 <= 2
    OBVIOUS
  <2>8. QED BY <1>5, <1>6, <1>7, <2>1, <2>2, <2>3, <2>4, <2>5, <2>6, <2>7 DEF TwoSteps
<1>11. QED BY <1>10, ProgramFrom DEF P

\* bench-sets, speculative: guesses on the sets behind the first, and on set 0,
\* free again, what was not guessed.
LEMMA OnSetsOk ==
  ASSUME NEW r, RecordOk(r), GateFirst \in DOMAIN r.len, NEW n \in 1 .. 3, NEW loaded,
         \A p \in 0 .. n - 1 : LoadedAt(p, r, loaded)
  PROVE  ProgramOk(ProgramOf("on_sets", r, n), r, n, loaded)
<1> DEFINE need == Needed(r)
           ts == Guessed(r, n)
           guessed == AskedBy(ts)
           named == {need[i] : i \in DOMAIN need}
           rest == Among(need, named \ guessed)
           one == RunAll(rest, 0)
           P == ProgramOf("on_sets", r, n)
<1>1. P = <<Submit(ts), WaitFor({GateFirst}), WaitFor(named \intersect guessed), one, StopClock, WaitFor(guessed)>>
  BY DEF ProgramOf
<1>2. Askable(need, r) /\ \A q : In(need, q) => q # GateFirst
  BY NeededIs
<1>3. /\ \A q : In(need, q) => q \in named
      /\ \A q \in Wanted(r) : q = GateFirst \/ q \in named
      /\ \A q \in named : In(need, q)
  BY DEF In, Wanted
<1>4. /\ PoolTasks(ts, r, loaded)
      /\ \A i, j \in DOMAIN ts : Runtime(r, ts[i]) = Runtime(r, ts[j]) => i = j
      /\ GateFirst \in guessed
      /\ \A i \in DOMAIN ts : ts[i].place = 0 => ts[i].q = GateFirst
  BY GuessedFine
<1>5. \A i \in DOMAIN ts : ts[i].q \in guessed
  BY DEF AskedBy
<1> HIDE DEF need, named, ts, guessed
<1>6. /\ Askable(rest, r)
      /\ \A i \in DOMAIN rest : rest[i] \in named /\ rest[i] \notin guessed
      /\ \A q \in named : q \notin guessed => In(rest, q)
  <2>1. need \in Seq(DOMAIN r.len) /\ \A i, j \in DOMAIN need : need[i] = need[j] => i = j
    BY <1>2 DEF Askable, NoneTwice
  <2>2. /\ rest \in Seq(DOMAIN r.len) /\ \A k \in DOMAIN rest : rest[k] \in named \ guessed
        /\ \A i \in DOMAIN need : need[i] \in named \ guessed => \E k \in DOMAIN rest : rest[k] = need[i]
        /\ \A i, j \in DOMAIN rest : rest[i] = rest[j] => i = j
    BY <2>1, AmongIs
  <2> HIDE DEF rest
  <2>3. \A q \in named : q \notin guessed => In(rest, q)
    BY <1>3, <2>2 DEF In
  <2>4. QED BY <2>2, <2>3 DEF Askable, NoneTwice
<1> HIDE DEF rest, P
<1>7. Fine(Submit(ts), r, n, loaded) /\ Submit(ts).do = "submit" /\ Submit(ts).tasks = ts
  BY <1>4, SubmitFine
<1>8. /\ Fine(one, r, n, loaded) /\ one.do = "run" /\ \A q : In(rest, q) => AnsweredBy(one, q)
      /\ \A i \in DOMAIN one.tasks : i \in DOMAIN rest /\ one.tasks[i].q = rest[i] /\ one.tasks[i].place = 0
  <2>1. LoadedAt(0, r, loaded)
    OBVIOUS
  <2>2. QED BY <2>1, <1>6, RunFine
<1> HIDE DEF one
<1>9. /\ Len(P) \in Nat /\ DOMAIN P = 1 .. Len(P)
      /\ 1 \in DOMAIN P /\ 2 \in DOMAIN P /\ 3 \in DOMAIN P /\ 4 \in DOMAIN P /\ 5 \in DOMAIN P /\ 6 \in DOMAIN P
      /\ P[1] = Submit(ts) /\ P[2] = WaitFor({GateFirst}) /\ P[3] = WaitFor(named \intersect guessed)
      /\ P[4] = one /\ P[5] = StopClock /\ P[6] = WaitFor(guessed)
      /\ \A k \in DOMAIN P : k = 1 \/ k = 2 \/ k = 3 \/ k = 4 \/ k = 5 \/ k = 6
  BY <1>1
<1>10. AnsweredBy(P[2], GateFirst) /\ \A i \in DOMAIN ts : AnsweredBy(P[6], ts[i].q)
  BY <1>5, <1>9, PlainSteps
<1>11. \A i \in DOMAIN one.tasks : one.tasks[i].q \notin guessed /\ AnsweredBy(P[4], one.tasks[i].q)
  BY <1>6, <1>8, <1>9 DEF In
<1>12. \A q \in Wanted(r) : AnsweredBy(P[2], q) \/ AnsweredBy(P[3], q) \/ AnsweredBy(P[4], q)
  <2> SUFFICES ASSUME NEW q \in Wanted(r) PROVE AnsweredBy(P[2], q) \/ AnsweredBy(P[3], q) \/ AnsweredBy(P[4], q)
    OBVIOUS
  <2>1. CASE q = GateFirst
    BY <2>1, <1>10
  <2>2. CASE q \in named /\ q \in guessed
    BY <2>2, <1>9, PlainSteps
  <2>3. CASE q \in named /\ q \notin guessed
    BY <2>3, <1>6, <1>8, <1>9
  <2>4. QED BY <2>1, <2>2, <2>3, <1>3
<1>13. TwoSteps(P, r, n, loaded, 1, 4)
  <2>1. \A k \in DOMAIN P : k = 1 \/ k = 4 \/ P[k].tasks = <<>>
    BY <1>9, PlainSteps
  <2>2. ASSUME NEW i \in DOMAIN P[1].tasks, NEW j \in DOMAIN P[4].tasks
        PROVE  /\ P[1].tasks[i].q # P[4].tasks[j].q
               /\ Runtime(r, P[1].tasks[i]) = Runtime(r, P[4].tasks[j]) =>
                    \E m \in DOMAIN P : 1 <= m /\ m < 4 /\ AnsweredBy(P[m], P[1].tasks[i].q)
    <3>1. P[1].tasks = ts /\ P[4].tasks = one.tasks
      BY <1>7, <1>9
    <3>2. ts[i].q # one.tasks[j].q
      BY <3>1, <1>5, <1>11
    <3>3. ASSUME Runtime(r, ts[i]) = Runtime(r, one.tasks[j]) PROVE ts[i].q = GateFirst
      <4>1. ts[i].place = 0
        BY <3>1, <3>3, <1>8 DEF Runtime
      <4>2. QED BY <3>1, <4>1, <1>4
    <3>4. 1 <= 2 /\ 2 < 4
      OBVIOUS
    <3>5. QED BY <3>1, <3>2, <3>3, <3>4, <1>9, <1>10
  <2>3. \A i \in DOMAIN P[1].tasks : \E m \in DOMAIN P : 1 <= m /\ AnsweredBy(P[m], P[1].tasks[i].q)
    BY <1>7, <1>9, <1>10
  <2>4. \A i \in DOMAIN P[4].tasks : \E m \in DOMAIN P : 4 <= m /\ AnsweredBy(P[m], P[4].tasks[i].q)
    BY <1>9, <1>11
  <2>5. \A k \in DOMAIN P : P[k].do = "stop" => k = 5
    BY <1>7, <1>8, <1>9, PlainSteps
  <2>6. ASSUME NEW q \in Wanted(r) PROVE \E m \in DOMAIN P : m < 5 /\ AnsweredBy(P[m], q)
    <3>1. 2 < 5 /\ 3 < 5 /\ 4 < 5
      OBVIOUS
    <3>2. AnsweredBy(P[2], q) \/ AnsweredBy(P[3], q) \/ AnsweredBy(P[4], q)
      BY <1>12
    <3>3. QED BY <3>1, <3>2, <1>9
  <2>7. 1 <= 4
    OBVIOUS
  <2>8. QED BY <1>7, <1>8, <1>9, <2>1, <2>2, <2>3, <2>4, <2>5, <2>6, <2>7 DEF TwoSteps
<1>14. QED BY <1>13, ProgramFrom DEF P

\* What is loaded is enough for every record of the run, and so every program
\* the main thread goes through is one that keeps its tasks apart.
LEMMA ProgramSound ==
  ASSUME schedule \in Schedules, sets \in SetCounts, RecordsFor(schedule, recs), NEW i \in DOMAIN recs
  PROVE  ProgramOk(ProgramOf(schedule, recs[i], sets), recs[i], Workers, Loaded)
<1> DEFINE r == recs[i]
<1>1. RecordOk(r) /\ (schedule # "run" => GateFirst \in DOMAIN r.len)
  BY DEF RecordsFor
<1>2. \A q \in DOMAIN r.len : BucketOf(r.len[q]) \in BenchBuckets
  <2> SUFFICES ASSUME NEW q \in DOMAIN r.len PROVE BucketOf(r.len[q]) \in BenchBuckets
    OBVIOUS
  <2>1. r.len[q] \in Nat /\ r.len[q] <= Longest(BenchBuckets)
    BY <1>1 DEF RecordOk
  <2>2. QED BY <2>1, BucketThere
<1>3. sets \in 1 .. 3
  BY BenchAssumption
<1>4. CASE schedule \in {"run", "one_core"}
  <2>1. Loaded = {0} \X BenchBuckets
    BY <1>4 DEF Loaded, OnSets
  <2>2. LoadedAt(0, r, Loaded)
    BY <2>1, <1>2 DEF LoadedAt
  <2>3. QED BY <1>1, <1>4, <2>2, SequentialOk
<1>5. CASE schedule \in {"per_question", "early_exit", "speculative"}
  <2>1. Loaded = UNION {{<<CoreOf(q), BucketOf(recs[k].len[q])>> : q \in DOMAIN recs[k].len} : k \in DOMAIN recs}
    <3>1. schedule \notin OnSets /\ schedule \notin {"run", "one_core"}
      BY <1>5 DEF OnSets
    <3>2. QED BY <3>1 DEF Loaded
  <2>2. \A q \in DOMAIN r.len : <<CoreOf(q), BucketOf(r.len[q])>> \in Loaded
    BY <2>1
  <2>3. GateFirst \in DOMAIN r.len
    BY <1>1, <1>5
  <2>4. QED BY <1>1, <1>5, <2>2, <2>3, PerQuestionOk, EarlyExitOk, SpeculativeOk
<1>6. CASE schedule \in OnSets
  <2>1. Loaded = (0 .. sets - 1) \X BenchBuckets /\ Workers = sets
    <3>1. Loaded = (0 .. sets - 1) \X BenchBuckets
      BY <1>6 DEF Loaded
    <3>2. schedule # "early_exit"
      BY <1>6 DEF OnSets
    <3>3. Workers = sets
      BY <1>6, <3>2 DEF Workers
    <3>4. QED BY <3>1, <3>3
  <2>2. \A p \in 0 .. sets - 1 : LoadedAt(p, r, Loaded)
    BY <2>1, <1>2, <1>3 DEF LoadedAt
  <2>3. GateFirst \in DOMAIN r.len
    BY <1>1, <1>6 DEF OnSets
  <2>4. ProgramOk(ProgramOf("staged", r, sets), r, sets, Loaded) /\ ProgramOk(ProgramOf("on_sets", r, sets), r, sets, Loaded)
    BY <1>1, <1>3, <2>2, <2>3, StagedOk, OnSetsOk
  <2>5. QED BY <1>6, <2>1, <2>4 DEF OnSets
<1>7. QED BY <1>4, <1>5, <1>6 DEF Schedules, OnSets

-----------------------------------------------------------------------------
(* NpuBench: where its tasks are *)

TaskOf(P, t, k) == k \in DOMAIN P /\ \E i \in DOMAIN P[k].tasks : P[k].tasks[i] = t

\* A step whose tasks have been started: it is behind, or the main thread is in it.
Begun(P, now, k) == k < now \/ (k = now /\ P[k].do = "run")

\* The program of the record of the round, and nothing before the first record.
RoundOk ==
  /\ schedule \in Schedules /\ sets \in SetCounts /\ RecordsFor(schedule, recs)
  /\ recAt \in 0 .. Len(recs) /\ mainStep \in 1 .. Len(Program) + 1

\* A task in the queue, or in a runtime, has been handed over or started and has
\* no answer yet, and is in one place only.
TasksOk ==
  /\ queue \in Seq({queue[n] : n \in DOMAIN queue}) /\ IsFiniteSet(running)
  /\ \A n \in DOMAIN queue : /\ queue[n].q \notin ended
                             /\ \E k \in DOMAIN Program : TaskOf(Program, queue[n], k) /\ k < mainStep /\ Program[k].do = "submit"
  /\ \A t \in running : /\ t.q \notin ended
                        /\ \E k \in DOMAIN Program : TaskOf(Program, t, k) /\ Begun(Program, mainStep, k)
  /\ \A m, n \in DOMAIN queue : queue[m].q = queue[n].q => m = n
  /\ \A n \in DOMAIN queue, t \in running : queue[n].q # t.q

\* The main thread is in one runtime at a time, and so is the pool that has one
\* thread.
ThreadsOk ==
  /\ \A s, t \in running : s.by = "main" /\ t.by = "main" => s = t
  /\ Workers = 1 => \A s, t \in running : s.by = "pool" /\ t.by = "pool" => s = t

\* What it waited for is answered, and only what was started.
AnswersOk ==
  /\ \A k \in DOMAIN Program : k < mainStep => \A q : AnsweredBy(Program[k], q) => q \in ended
  /\ \A q \in ended : \E k \in DOMAIN Program : Begun(Program, mainStep, k) /\ \E t : TaskOf(Program, t, k) /\ t.q = q

ClockOk == recAt > 0 /\ clock = "off" => \E k \in DOMAIN Program : k < mainStep /\ Program[k].do = "stop"

BenchInv == RoundOk /\ TasksOk /\ ThreadsOk /\ AnswersOk /\ ClockOk

\* What the program says of its tasks, as the steps need it.
Apart(P, r, W, loaded) ==
  /\ Len(P) \in Nat /\ DOMAIN P = 1 .. Len(P)
  /\ \A k \in DOMAIN P : /\ P[k].tasks \in Seq({P[k].tasks[i] : i \in DOMAIN P[k].tasks})
                         /\ \A i, j \in DOMAIN P[k].tasks : P[k].tasks[i].q = P[k].tasks[j].q => i = j
  /\ \A s, t, k, l : TaskOf(P, s, k) /\ TaskOf(P, t, l) /\ s.q = t.q => s = t /\ k = l
  /\ \A s, t, k, l : TaskOf(P, s, k) /\ TaskOf(P, t, l) /\ k < l /\ Runtime(r, s) = Runtime(r, t) =>
       \E m \in DOMAIN P : k <= m /\ m < l /\ AnsweredBy(P[m], s.q)
  /\ \A t, k : TaskOf(P, t, k) =>
       /\ Runtime(r, t) \in loaded /\ t.by = (IF P[k].do = "run" THEN "main" ELSE "pool")
       /\ P[k].do \in {"run", "submit"}
       /\ \E m \in DOMAIN P : k <= m /\ AnsweredBy(P[m], t.q)
  /\ \A s, t, k : TaskOf(P, s, k) /\ TaskOf(P, t, k) /\ P[k].do # "run" /\ W # 1 /\ Runtime(r, s) = Runtime(r, t) => s = t

\* A program that is as it should be says so of its tasks.
LEMMA TasksApart ==
  ASSUME NEW P, NEW r, NEW W, NEW loaded, ProgramOk(P, r, W, loaded)
  PROVE  Apart(P, r, W, loaded)
<1>1. /\ Len(P) \in Nat /\ DOMAIN P = 1 .. Len(P)
      /\ \A k \in DOMAIN P : Fine(P[k], r, W, loaded) /\ (P[k].tasks # <<>> => P[k].do \in {"run", "submit"})
  BY DEF ProgramOk
<1>2. ASSUME NEW k \in DOMAIN P
      PROVE  /\ P[k].tasks \in Seq({P[k].tasks[i] : i \in DOMAIN P[k].tasks})
             /\ \A i, j \in DOMAIN P[k].tasks : P[k].tasks[i].q = P[k].tasks[j].q => i = j
  BY <1>1 DEF Fine
<1>3. ASSUME NEW s, NEW t, NEW k, NEW l, TaskOf(P, s, k), TaskOf(P, t, l)
      PROVE  /\ s.q = t.q => s = t /\ k = l
             /\ k < l /\ Runtime(r, s) = Runtime(r, t) => \E m \in DOMAIN P : k <= m /\ m < l /\ AnsweredBy(P[m], s.q)
             /\ k = l /\ P[k].do # "run" /\ W # 1 /\ Runtime(r, s) = Runtime(r, t) => s = t
  <2>1. k \in DOMAIN P /\ l \in DOMAIN P
    BY <1>3 DEF TaskOf
  <2>2. PICK i \in DOMAIN P[k].tasks : P[k].tasks[i] = s
    BY <1>3 DEF TaskOf
  <2>3. PICK j \in DOMAIN P[l].tasks : P[l].tasks[j] = t
    BY <1>3 DEF TaskOf
  <2>4. s.q = t.q => k = l
    BY <2>1, <2>2, <2>3 DEF ProgramOk
  <2>5. s.q = t.q => s = t
    BY <2>1, <2>2, <2>3, <2>4, <1>2
  <2>6. k < l /\ Runtime(r, s) = Runtime(r, t) => \E m \in DOMAIN P : k <= m /\ m < l /\ AnsweredBy(P[m], s.q)
    BY <2>1, <2>2, <2>3 DEF ProgramOk
  <2>7. k = l /\ P[k].do # "run" /\ W # 1 /\ Runtime(r, s) = Runtime(r, t) => s = t
    BY <2>1, <2>2, <2>3, <1>1 DEF Fine
  <2>8. QED BY <2>4, <2>5, <2>6, <2>7
<1>4. ASSUME NEW t, NEW k, TaskOf(P, t, k)
      PROVE  /\ Runtime(r, t) \in loaded /\ t.by = (IF P[k].do = "run" THEN "main" ELSE "pool")
             /\ P[k].do \in {"run", "submit"}
             /\ \E m \in DOMAIN P : k <= m /\ AnsweredBy(P[m], t.q)
  <2>1. k \in DOMAIN P
    BY <1>4 DEF TaskOf
  <2>2. PICK i \in DOMAIN P[k].tasks : P[k].tasks[i] = t
    BY <1>4 DEF TaskOf
  <2>3. Runtime(r, t) \in loaded /\ t.by = (IF P[k].do = "run" THEN "main" ELSE "pool")
    BY <2>1, <2>2, <1>1 DEF Fine
  <2>4. P[k].tasks # <<>>
    BY <2>2
  <2>5. \E m \in DOMAIN P : k <= m /\ AnsweredBy(P[m], t.q)
    BY <2>1, <2>2 DEF ProgramOk
  <2>6. QED BY <2>1, <2>3, <2>4, <2>5, <1>1
<1>5. QED BY <1>1, <1>2, <1>3, <1>4 DEF Apart

\* Before the first record there are none.
LEMMA NoTasksApart == ASSUME NEW r, NEW W, NEW loaded PROVE Apart(<<>>, r, W, loaded)
<1>1. Len(<<>>) = 0 /\ DOMAIN <<>> = {} /\ 1 .. 0 = {}
  OBVIOUS
<1>2. \A t, k : ~ TaskOf(<<>>, t, k)
  BY <1>1 DEF TaskOf
<1>3. QED BY <1>1, <1>2 DEF Apart

\* The program of the round is as it should be.
LEMMA NowApart ==
  ASSUME RoundOk
  PROVE  /\ Apart(Program, recs[recAt], Workers, Loaded)
         /\ recAt > 0 => ProgramOk(Program, recs[recAt], Workers, Loaded)
<1>1. Len(recs) \in Nat /\ DOMAIN recs = 1 .. Len(recs) /\ recAt \in 0 .. Len(recs)
  BY DEF RoundOk, RecordsFor
<1>2. CASE recAt = 0
  BY <1>1, <1>2, NoTasksApart DEF Program
<1>3. CASE recAt # 0
  <2>1. recAt \in DOMAIN recs /\ recAt > 0
    BY <1>1, <1>3
  <2>2. Program = ProgramOf(schedule, recs[recAt], sets)
    BY <1>3 DEF Program
  <2>3. ProgramOk(Program, recs[recAt], Workers, Loaded)
    BY <2>1, <2>2, ProgramSound DEF RoundOk
  <2>4. QED BY <2>3, TasksApart
<1>4. QED BY <1>2, <1>3

\* A program gone through leaves nothing behind it.
LEMMA NothingLeft == ASSUME BenchInv, Through PROVE running = {} /\ queue = <<>>
<1>1. Apart(Program, recs[recAt], Workers, Loaded) /\ mainStep \in 1 .. Len(Program) + 1
  BY NowApart DEF BenchInv, RoundOk
<1>2. mainStep > Len(Program)
  BY DEF Through
<1> HIDE DEF Program
<1>3. \A t, k : ~ (TaskOf(Program, t, k) /\ t.q \notin ended)
  <2> SUFFICES ASSUME NEW t, NEW k, TaskOf(Program, t, k) PROVE t.q \in ended
    OBVIOUS
  <2>1. PICK m \in DOMAIN Program : AnsweredBy(Program[m], t.q)
    BY <1>1 DEF Apart
  <2>2. m < mainStep
    BY <1>1, <1>2 DEF Apart
  <2>3. QED BY <2>1, <2>2 DEF BenchInv, AnswersOk
<1>4. running = {}
  BY <1>3 DEF BenchInv, TasksOk
<1>5. DOMAIN queue = {}
  BY <1>3 DEF BenchInv, TasksOk
<1>6. QED BY <1>4, <1>5 DEF BenchInv, TasksOk

-----------------------------------------------------------------------------
(* NpuBench: every step keeps its tasks apart *)

\* Whatever is selected, the first record is ahead and nothing runs.
LEMMA BenchStarts == ASSUME BenchInit PROVE BenchInv
<1>1. recAt = 0 /\ mainStep = 1 /\ queue = <<>> /\ running = {} /\ ended = {}
  BY DEF BenchInit
<1>2. Program = <<>> /\ Len(Program) = 0 /\ DOMAIN Program = {}
  BY <1>1 DEF Program
<1> HIDE DEF Program
<1>3. schedule \in Schedules /\ sets \in SetCounts /\ RecordsFor(schedule, recs)
  BY SelectedFits DEF BenchInit
<1>4. recAt \in 0 .. Len(recs) /\ mainStep \in 1 .. Len(Program) + 1
  <2>1. Len(recs) \in Nat
    BY <1>3 DEF RecordsFor
  <2>2. QED BY <2>1, <1>1, <1>2
<1>5. TasksOk
  BY <1>1, FS_EmptySet DEF TasksOk
<1>6. ThreadsOk /\ AnswersOk /\ ClockOk
  BY <1>1, <1>2 DEF ThreadsOk, AnswersOk, ClockOk
<1>7. QED BY <1>3, <1>4, <1>5, <1>6 DEF BenchInv, RoundOk

\* Where the round stays where it is, so does its program.
LEMMA RoundStays ==
  ASSUME BenchInv, UNCHANGED <<schedule, sets, recs, recAt>>, mainStep' \in 1 .. Len(Program) + 1
  PROVE  Program' = Program /\ Workers' = Workers /\ RoundOk'
<1>1. Program' = Program /\ Workers' = Workers
  BY DEF Program, Workers
<1>2. QED BY <1>1 DEF BenchInv, RoundOk

\* The next record begins with empty runtimes, all that it may use loaded.
LEMMA NextRecordStep == ASSUME BenchInv, NextRecord PROVE BenchInv'
<1>1. /\ Through /\ recAt < Len(recs) /\ recAt' = recAt + 1 /\ mainStep' = 1 /\ ended' = {} /\ clock' = "on"
      /\ schedule' = schedule /\ sets' = sets /\ recs' = recs /\ queue' = queue /\ running' = running
  BY DEF NextRecord
<1>2. running = {} /\ queue = <<>>
  BY <1>1, NothingLeft
<1>3. /\ Len(recs) \in Nat /\ DOMAIN recs = 1 .. Len(recs) /\ recAt \in 0 .. Len(recs)
      /\ schedule \in Schedules /\ sets \in SetCounts /\ RecordsFor(schedule, recs)
  BY DEF BenchInv, RoundOk, RecordsFor
<1>4. recAt + 1 \in DOMAIN recs /\ recAt + 1 \in 0 .. Len(recs) /\ recAt' # 0
  BY <1>1, <1>3
<1>5. Program' = ProgramOf(schedule, recs[recAt + 1], sets)
  BY <1>1, <1>4 DEF Program
<1>6. Len(Program') \in Nat /\ DOMAIN Program' = 1 .. Len(Program')
  BY <1>3, <1>4, <1>5, ProgramSound DEF ProgramOk
<1> HIDE DEF Program
<1>7. RoundOk'
  BY <1>1, <1>3, <1>4, <1>6 DEF RoundOk
<1>8. TasksOk'
  <2>1. running' = {} /\ queue' = <<>>
    BY <1>1, <1>2
  <2>2. QED BY <2>1, FS_EmptySet DEF TasksOk
<1>9. ThreadsOk' /\ AnswersOk' /\ ClockOk'
  <2>1. \A k \in DOMAIN Program' : ~ (k < mainStep')
    BY <1>1, <1>6
  <2>2. QED BY <2>1, <1>1, <1>2 DEF ThreadsOk, AnswersOk, ClockOk
<1>10. QED BY <1>7, <1>8, <1>9 DEF BenchInv

\* The main thread enters a runtime only for a question nobody has started.
LEMMA RunHereStep == ASSUME BenchInv, RunHere PROVE BenchInv'
<1>1. /\ ~ Through /\ Program[mainStep].do = "run" /\ \A t \in running : t.by = "pool"
      /\ schedule' = schedule /\ sets' = sets /\ recs' = recs /\ recAt' = recAt /\ mainStep' = mainStep
      /\ queue' = queue /\ ended' = ended /\ clock' = clock
  BY DEF RunHere, At
<1>2. PICK i \in DOMAIN Program[mainStep].tasks :
        Program[mainStep].tasks[i].q \notin ended /\ running' = running \union {Program[mainStep].tasks[i]}
  BY DEF RunHere
<1>3. Apart(Program, recs[recAt], Workers, Loaded) /\ RoundOk
  BY NowApart DEF BenchInv
<1>4. mainStep \in DOMAIN Program /\ mainStep \in 1 .. Len(Program) + 1
  BY <1>1, <1>3 DEF Apart, RoundOk, Through
<1>5. Program' = Program /\ Workers' = Workers /\ RoundOk'
  BY <1>1, <1>4, RoundStays
<1> HIDE DEF Program
<1> DEFINE new == Program[mainStep].tasks[i]
<1>6. TaskOf(Program, new, mainStep) /\ new.by = "main" /\ new.q \notin ended /\ running' = running \union {new}
  <2>1. TaskOf(Program, new, mainStep)
    BY <1>2, <1>4 DEF TaskOf
  <2>2. QED BY <2>1, <1>1, <1>2, <1>3 DEF Apart
<1> HIDE DEF new
<1>7. TasksOk'
  <2>1. IsFiniteSet(running')
    BY <1>6, FS_AddElement DEF BenchInv, TasksOk
  <2>2. \A n \in DOMAIN queue : queue[n].q # new.q
    <3> SUFFICES ASSUME NEW n \in DOMAIN queue, queue[n].q = new.q PROVE FALSE
      OBVIOUS
    <3>1. PICK k \in DOMAIN Program : TaskOf(Program, queue[n], k) /\ k < mainStep
      BY DEF BenchInv, TasksOk
    <3>2. k = mainStep
      BY <3>1, <1>3, <1>6 DEF Apart
    <3>3. QED BY <3>1, <3>2, <1>4
  <2>3. \A t \in running' : /\ t.q \notin ended
                            /\ \E k \in DOMAIN Program : TaskOf(Program, t, k) /\ Begun(Program, mainStep, k)
    <3>1. Begun(Program, mainStep, mainStep)
      BY <1>1 DEF Begun
    <3>2. QED BY <3>1, <1>4, <1>6 DEF BenchInv, TasksOk
  <2>4. QED BY <2>1, <2>2, <2>3, <1>1, <1>5, <1>6 DEF BenchInv, TasksOk
<1>8. ThreadsOk'
  <2>1. \A s, t \in running' : s.by = "main" /\ t.by = "main" => s = t
    BY <1>1, <1>6
  <2>2. Workers = 1 => \A s, t \in running' : s.by = "pool" /\ t.by = "pool" => s = t
    BY <1>6 DEF BenchInv, ThreadsOk
  <2>3. QED BY <2>1, <2>2, <1>5 DEF ThreadsOk
<1>9. AnswersOk' /\ ClockOk'
  BY <1>1, <1>5 DEF BenchInv, AnswersOk, ClockOk
<1>10. QED BY <1>5, <1>7, <1>8, <1>9 DEF BenchInv

\* What is handed to the pool has not been started before.
LEMMA HandOverStep == ASSUME BenchInv, HandOver PROVE BenchInv'
<1>1. /\ ~ Through /\ Program[mainStep].do = "submit" /\ mainStep' = mainStep + 1 /\ queue' = queue \o Program[mainStep].tasks
      /\ schedule' = schedule /\ sets' = sets /\ recs' = recs /\ recAt' = recAt
      /\ running' = running /\ ended' = ended /\ clock' = clock
  BY DEF HandOver, At, GoesOn
<1>2. Apart(Program, recs[recAt], Workers, Loaded) /\ RoundOk
  BY NowApart DEF BenchInv
<1>3. mainStep \in DOMAIN Program /\ mainStep \in 1 .. Len(Program) /\ mainStep' \in 1 .. Len(Program) + 1
      /\ Len(Program) \in Nat /\ DOMAIN Program = 1 .. Len(Program)
  BY <1>1, <1>2 DEF Apart, RoundOk, Through
<1>4. Program' = Program /\ Workers' = Workers /\ RoundOk'
  BY <1>1, <1>3, RoundStays
<1> HIDE DEF Program
<1> DEFINE ts == Program[mainStep].tasks
<1>5. /\ ts \in Seq({ts[i] : i \in DOMAIN ts}) /\ \A i, j \in DOMAIN ts : ts[i].q = ts[j].q => i = j
      /\ \A i \in DOMAIN ts : TaskOf(Program, ts[i], mainStep)
  BY <1>2, <1>3 DEF Apart, TaskOf
<1>6. queue' = queue \o ts
  BY <1>1
<1> HIDE DEF ts
 \* Nothing of this step has been started.
<1>7. \A k \in DOMAIN Program : Begun(Program, mainStep, k) => k < mainStep
  BY <1>1 DEF Begun
<1>8. ASSUME NEW i \in DOMAIN ts
      PROVE  /\ ts[i].q \notin ended /\ \A t \in running : t.q # ts[i].q
             /\ \A n \in DOMAIN queue : queue[n].q # ts[i].q
  <2>1. \A t, k : k \in DOMAIN Program /\ TaskOf(Program, t, k) /\ k < mainStep => t.q # ts[i].q
    BY <1>2, <1>3, <1>5 DEF Apart
  <2>2. ts[i].q \notin ended
    BY <2>1, <1>7 DEF BenchInv, AnswersOk
  <2>3. \A t \in running : t.q # ts[i].q
    BY <2>1, <1>7 DEF BenchInv, TasksOk
  <2>4. \A n \in DOMAIN queue : queue[n].q # ts[i].q
    BY <2>1 DEF BenchInv, TasksOk
  <2>5. QED BY <2>2, <2>3, <2>4
<1>9. /\ \A k \in DOMAIN Program : k < mainStep => k < mainStep'
      /\ \A k \in DOMAIN Program : k < mainStep' => k < mainStep \/ k = mainStep
      /\ \A k \in DOMAIN Program : Begun(Program, mainStep, k) => Begun(Program, mainStep', k)
  BY <1>1, <1>3 DEF Begun
<1>10. TasksOk'
  <2> DEFINE from == {queue[n] : n \in DOMAIN queue} \union {ts[i] : i \in DOMAIN ts}
  <2>1. queue \in Seq(from) /\ ts \in Seq(from)
    BY <1>5 DEF BenchInv, TasksOk
  <2>2. /\ queue' \in Seq(from) /\ Len(queue') = Len(queue) + Len(ts) /\ DOMAIN queue' = 1 .. Len(queue')
        /\ Len(queue) \in Nat /\ Len(ts) \in Nat /\ DOMAIN queue = 1 .. Len(queue) /\ DOMAIN ts = 1 .. Len(ts)
        /\ \A n \in DOMAIN queue' : queue'[n] = IF n <= Len(queue) THEN queue[n] ELSE ts[n - Len(queue)]
    BY <2>1, <1>6
  <2> HIDE DEF from
  <2>3. queue' \in Seq({queue'[n] : n \in DOMAIN queue'})
    BY <2>2
  <2>4. \A n \in DOMAIN queue' : \/ n \in DOMAIN queue /\ queue'[n] = queue[n]
                                 \/ n > Len(queue) /\ n - Len(queue) \in DOMAIN ts /\ queue'[n] = ts[n - Len(queue)]
    BY <2>2
  <2>5. ASSUME NEW n \in DOMAIN queue'
        PROVE  /\ queue'[n].q \notin ended /\ \A t \in running : queue'[n].q # t.q
               /\ \E k \in DOMAIN Program : TaskOf(Program, queue'[n], k) /\ k < mainStep' /\ Program[k].do = "submit"
    <3>1. CASE n \in DOMAIN queue /\ queue'[n] = queue[n]
      BY <3>1, <1>9 DEF BenchInv, TasksOk
    <3>2. CASE n - Len(queue) \in DOMAIN ts /\ queue'[n] = ts[n - Len(queue)]
      <4>1. mainStep < mainStep'
        BY <1>1, <1>3
      <4>2. QED BY <4>1, <3>2, <1>1, <1>3, <1>5, <1>8
    <3>3. QED BY <2>4, <3>1, <3>2
  <2>6. ASSUME NEW m \in DOMAIN queue', NEW n \in DOMAIN queue', queue'[m].q = queue'[n].q PROVE m = n
    <3>1. CASE m \in DOMAIN queue /\ n \in DOMAIN queue /\ queue'[m] = queue[m] /\ queue'[n] = queue[n]
      BY <3>1, <2>6 DEF BenchInv, TasksOk
    <3>2. CASE m \in DOMAIN queue /\ queue'[m] = queue[m] /\ n - Len(queue) \in DOMAIN ts /\ queue'[n] = ts[n - Len(queue)]
      BY <3>2, <2>6, <1>8
    <3>3. CASE n \in DOMAIN queue /\ queue'[n] = queue[n] /\ m - Len(queue) \in DOMAIN ts /\ queue'[m] = ts[m - Len(queue)]
      BY <3>3, <2>6, <1>8
    <3>4. CASE /\ m - Len(queue) \in DOMAIN ts /\ queue'[m] = ts[m - Len(queue)]
               /\ n - Len(queue) \in DOMAIN ts /\ queue'[n] = ts[n - Len(queue)]
      <4>1. m - Len(queue) = n - Len(queue)
        BY <3>4, <2>6, <1>5
      <4>2. m \in Nat /\ n \in Nat
        BY <2>2
      <4>3. QED BY <4>1, <4>2, <2>2
    <3>5. QED BY <2>4, <3>1, <3>2, <3>3, <3>4
  <2>7. /\ IsFiniteSet(running)
        /\ \A t \in running : /\ t.q \notin ended
                              /\ \E k \in DOMAIN Program : TaskOf(Program, t, k) /\ Begun(Program, mainStep', k)
    BY <1>9 DEF BenchInv, TasksOk
  <2>8. QED BY <2>3, <2>5, <2>6, <2>7, <1>1, <1>4 DEF TasksOk
<1>11. ThreadsOk'
  BY <1>1, <1>4 DEF BenchInv, ThreadsOk
<1>12. AnswersOk'
  <2>1. \A q : ~ AnsweredBy(Program[mainStep], q)
    BY <1>1 DEF AnsweredBy
  <2>2. \A k \in DOMAIN Program : k < mainStep' => \A q : AnsweredBy(Program[k], q) => q \in ended
    BY <2>1, <1>9 DEF BenchInv, AnswersOk
  <2>3. \A q \in ended : \E k \in DOMAIN Program : Begun(Program, mainStep', k) /\ \E t : TaskOf(Program, t, k) /\ t.q = q
    BY <1>9 DEF BenchInv, AnswersOk
  <2>4. QED BY <2>2, <2>3, <1>1, <1>4 DEF AnswersOk
<1>13. ClockOk'
  BY <1>1, <1>4, <1>9 DEF BenchInv, ClockOk
<1>14. QED BY <1>4, <1>10, <1>11, <1>12, <1>13 DEF BenchInv

\* Going on behind a step that has no task of the pool to start.
LEMMA GoesOnKeeps ==
  ASSUME BenchInv, ~ Through, mainStep' = mainStep + 1, Program[mainStep].do # "submit",
         UNCHANGED <<schedule, sets, recs, recAt, queue, running, ended>>,
         \A q : AnsweredBy(Program[mainStep], q) => q \in ended
  PROVE  /\ RoundOk' /\ TasksOk' /\ ThreadsOk' /\ AnswersOk' /\ Program' = Program
         /\ \A k \in DOMAIN Program : k < mainStep => k < mainStep'
         /\ mainStep \in DOMAIN Program /\ mainStep < mainStep'
<1>1. Apart(Program, recs[recAt], Workers, Loaded) /\ RoundOk
  BY NowApart DEF BenchInv
<1>2. mainStep \in DOMAIN Program /\ mainStep \in 1 .. Len(Program) /\ mainStep' \in 1 .. Len(Program) + 1
      /\ Len(Program) \in Nat /\ DOMAIN Program = 1 .. Len(Program)
  BY <1>1 DEF Apart, RoundOk, Through
<1>3. Program' = Program /\ Workers' = Workers /\ RoundOk'
  BY <1>2, RoundStays
<1> HIDE DEF Program
<1>4. /\ mainStep < mainStep' /\ \A k \in DOMAIN Program : k < mainStep => k < mainStep'
      /\ \A k \in DOMAIN Program : k < mainStep' => k < mainStep \/ k = mainStep
      /\ \A k \in DOMAIN Program : Begun(Program, mainStep, k) => Begun(Program, mainStep', k)
  BY <1>2 DEF Begun
<1>5. TasksOk'
  BY <1>3, <1>4 DEF BenchInv, TasksOk
<1>6. ThreadsOk'
  BY <1>3 DEF BenchInv, ThreadsOk
<1>7. AnswersOk'
  BY <1>3, <1>4 DEF BenchInv, AnswersOk
<1>8. QED BY <1>2, <1>3, <1>4, <1>5, <1>6, <1>7

\* Behind a wait, what it waited for has its answer.
LEMMA WaitedStep == ASSUME BenchInv, Waited PROVE BenchInv'
<1>1. /\ ~ Through /\ Program[mainStep].do \in {"wait", "run"} /\ Program[mainStep].for \subseteq ended
      /\ mainStep' = mainStep + 1 /\ clock' = clock
      /\ UNCHANGED <<schedule, sets, recs, recAt, queue, running, ended>>
  BY DEF Waited, At, GoesOn
<1>2. \A q : AnsweredBy(Program[mainStep], q) => q \in ended
  BY <1>1 DEF AnsweredBy
<1>3. /\ RoundOk' /\ TasksOk' /\ ThreadsOk' /\ AnswersOk' /\ Program' = Program
      /\ \A k \in DOMAIN Program : k < mainStep => k < mainStep'
  BY <1>1, <1>2, GoesOnKeeps
<1>4. ClockOk'
  BY <1>1, <1>3 DEF BenchInv, ClockOk
<1>5. QED BY <1>3, <1>4 DEF BenchInv

\* Behind the stop, the clock may be off.
LEMMA StoppedStep == ASSUME BenchInv, Stopped PROVE BenchInv'
<1>1. /\ ~ Through /\ Program[mainStep].do = "stop" /\ mainStep' = mainStep + 1
      /\ UNCHANGED <<schedule, sets, recs, recAt, queue, running, ended>>
  BY DEF Stopped, At, GoesOn
<1>2. \A q : ~ AnsweredBy(Program[mainStep], q)
  BY <1>1 DEF AnsweredBy
<1>3. /\ RoundOk' /\ TasksOk' /\ ThreadsOk' /\ AnswersOk' /\ Program' = Program
      /\ mainStep \in DOMAIN Program /\ mainStep < mainStep'
  BY <1>1, <1>2, GoesOnKeeps
<1>4. ClockOk'
  BY <1>1, <1>3 DEF ClockOk
<1>5. QED BY <1>3, <1>4 DEF BenchInv

\* A task is taken from the queue by a thread that is free.
LEMMA TakeTaskStep == ASSUME BenchInv, TakeTask PROVE BenchInv'
<1>1. /\ queue # <<>> /\ Cardinality({t \in running : t.by = "pool"}) < Workers
      /\ running' = running \union {Head(queue)} /\ queue' = Tail(queue)
      /\ schedule' = schedule /\ sets' = sets /\ recs' = recs /\ recAt' = recAt /\ mainStep' = mainStep
      /\ ended' = ended /\ clock' = clock
  BY DEF TakeTask
<1>2. Apart(Program, recs[recAt], Workers, Loaded) /\ RoundOk
  BY NowApart DEF BenchInv
<1>3. Program' = Program /\ Workers' = Workers /\ RoundOk'
  BY <1>1, <1>2, RoundStays DEF RoundOk
<1> HIDE DEF Program
<1> DEFINE new == Head(queue)
<1>4. /\ Len(queue) \in Nat /\ DOMAIN queue = 1 .. Len(queue) /\ 1 \in DOMAIN queue /\ new = queue[1]
      /\ queue' \in Seq({queue[n] : n \in DOMAIN queue}) /\ Len(queue') = Len(queue) - 1
      /\ DOMAIN queue' = 1 .. Len(queue')
      /\ \A n \in DOMAIN queue' : n + 1 \in DOMAIN queue /\ queue'[n] = queue[n + 1] /\ n + 1 # 1
  BY <1>1 DEF BenchInv, TasksOk
<1>5. PICK k \in DOMAIN Program : TaskOf(Program, new, k) /\ k < mainStep /\ Program[k].do = "submit"
  BY <1>4 DEF BenchInv, TasksOk
<1>6. new.q \notin ended /\ new.by = "pool" /\ \A t \in running : new.q # t.q
  <2>1. new.by = "pool"
    BY <1>2, <1>5 DEF Apart
  <2>2. QED BY <2>1, <1>4 DEF BenchInv, TasksOk
<1> HIDE DEF new
<1>7. running' = running \union {new}
  BY <1>1 DEF new
<1>8. TasksOk'
  <2>1. IsFiniteSet(running')
    BY <1>7, FS_AddElement DEF BenchInv, TasksOk
  <2>2. queue' \in Seq({queue'[n] : n \in DOMAIN queue'})
    BY <1>4
  <2>3. ASSUME NEW n \in DOMAIN queue'
        PROVE  /\ queue'[n].q \notin ended /\ \A t \in running' : queue'[n].q # t.q
               /\ \E l \in DOMAIN Program : TaskOf(Program, queue'[n], l) /\ l < mainStep /\ Program[l].do = "submit"
    <3>1. queue'[n] = queue[n + 1] /\ n + 1 \in DOMAIN queue /\ n + 1 # 1
      BY <1>4
    <3>2. queue[n + 1].q # new.q
      BY <3>1, <1>4 DEF BenchInv, TasksOk
    <3>3. QED BY <3>1, <3>2, <1>7 DEF BenchInv, TasksOk
  <2>4. ASSUME NEW m \in DOMAIN queue', NEW n \in DOMAIN queue', queue'[m].q = queue'[n].q PROVE m = n
    <3>1. /\ m + 1 \in DOMAIN queue /\ n + 1 \in DOMAIN queue /\ queue[m + 1].q = queue[n + 1].q
          /\ m \in Int /\ n \in Int
      BY <1>4, <2>4
    <3>2. m + 1 = n + 1
      BY <3>1 DEF BenchInv, TasksOk
    <3>3. QED BY <3>1, <3>2
  <2>5. \A t \in running' : /\ t.q \notin ended
                            /\ \E l \in DOMAIN Program : TaskOf(Program, t, l) /\ Begun(Program, mainStep, l)
    BY <1>5, <1>6, <1>7 DEF BenchInv, TasksOk, Begun
  <2>6. QED BY <2>1, <2>2, <2>3, <2>4, <2>5, <1>1, <1>3 DEF TasksOk
<1>9. ThreadsOk'
  <2>1. \A s, t \in running' : s.by = "main" /\ t.by = "main" => s = t
    BY <1>6, <1>7 DEF BenchInv, ThreadsOk
  <2>2. ASSUME Workers = 1 PROVE \A s, t \in running' : s.by = "pool" /\ t.by = "pool" => s = t
    <3> DEFINE busy == {t \in running : t.by = "pool"}
    <3>1. IsFiniteSet(busy)
      BY FS_Subset DEF BenchInv, TasksOk
    <3>2. Cardinality(busy) \in Nat
      BY <3>1, FS_CardinalityType
    <3>3. Cardinality(busy) < Workers
      BY <1>1
    <3> HIDE DEF busy
    <3>4. Cardinality(busy) = 0
      BY <3>2, <3>3, <2>2
    <3>5. busy = {}
      BY <3>1, <3>4, FS_EmptySet
    <3>6. QED BY <3>5, <1>7 DEF busy
  <2>3. QED BY <2>1, <2>2, <1>3 DEF ThreadsOk
<1>10. AnswersOk' /\ ClockOk'
  BY <1>1, <1>3 DEF BenchInv, AnswersOk, ClockOk
<1>11. QED BY <1>3, <1>8, <1>9, <1>10 DEF BenchInv

\* A task that ends is the one of its question, and leaves its runtime.
LEMMA EndTaskStep == ASSUME BenchInv, EndTask PROVE BenchInv'
<1>1. PICK task \in running : running' = running \ {task} /\ ended' = ended \union {task.q}
  BY DEF EndTask
<1>2. /\ schedule' = schedule /\ sets' = sets /\ recs' = recs /\ recAt' = recAt /\ mainStep' = mainStep
      /\ queue' = queue /\ clock' = clock
  BY DEF EndTask
<1>3. Apart(Program, recs[recAt], Workers, Loaded) /\ RoundOk
  BY NowApart DEF BenchInv
<1>4. Program' = Program /\ Workers' = Workers /\ RoundOk'
  BY <1>2, <1>3, RoundStays DEF RoundOk
<1> HIDE DEF Program
<1>5. PICK k \in DOMAIN Program : TaskOf(Program, task, k) /\ Begun(Program, mainStep, k)
  BY DEF BenchInv, TasksOk
<1>6. \A t \in running : t.q = task.q => t = task
  BY <1>3, <1>5 DEF BenchInv, TasksOk, Apart
<1>7. TasksOk'
  <2>1. IsFiniteSet(running')
    BY <1>1, FS_Subset DEF BenchInv, TasksOk
  <2>2. \A t \in running' : t \in running /\ t.q \notin ended'
    BY <1>1, <1>6 DEF BenchInv, TasksOk
  <2>3. \A n \in DOMAIN queue : queue[n].q \notin ended'
    BY <1>1 DEF BenchInv, TasksOk
  <2>4. QED BY <2>1, <2>2, <2>3, <1>2, <1>4 DEF BenchInv, TasksOk
<1>8. ThreadsOk'
  BY <1>1, <1>4 DEF BenchInv, ThreadsOk
<1>9. AnswersOk'
  <2>1. \A q \in ended' : \E l \in DOMAIN Program : Begun(Program, mainStep, l) /\ \E t : TaskOf(Program, t, l) /\ t.q = q
    BY <1>1, <1>5 DEF BenchInv, AnswersOk
  <2>2. QED BY <2>1, <1>1, <1>2, <1>4 DEF BenchInv, AnswersOk
<1>10. ClockOk'
  BY <1>2, <1>4 DEF BenchInv, ClockOk
<1>11. QED BY <1>4, <1>7, <1>8, <1>9, <1>10 DEF BenchInv

\* laya_npu.py: of every schedule, on every board and for every gate, the tasks
\* are those of one record, each handed out once and answered once.
THEOREM BenchCorrect == BenchSpec => []BenchInv
<1>1. BenchInit => BenchInv
  BY BenchStarts
<1>2. BenchInv /\ [BenchNext]_benchVars => BenchInv'
  <2> SUFFICES ASSUME BenchInv, [BenchNext]_benchVars PROVE BenchInv'
    OBVIOUS
  <2>1. CASE NextRecord
    BY <2>1, NextRecordStep
  <2>2. CASE RunHere
    BY <2>2, RunHereStep
  <2>3. CASE HandOver
    BY <2>3, HandOverStep
  <2>4. CASE Waited
    BY <2>4, WaitedStep
  <2>5. CASE Stopped
    BY <2>5, StoppedStep
  <2>6. CASE TakeTask
    BY <2>6, TakeTaskStep
  <2>7. CASE EndTask
    BY <2>7, EndTaskStep
  <2>8. CASE UNCHANGED benchVars
    <3>1. Program' = Program /\ Workers' = Workers
      BY <2>8 DEF benchVars, Program, Workers
    <3>2. RoundOk' /\ ThreadsOk' /\ AnswersOk' /\ ClockOk'
      BY <2>8, <3>1 DEF benchVars, BenchInv, RoundOk, ThreadsOk, AnswersOk, ClockOk
    <3>3. TasksOk'
      BY <2>8, <3>1 DEF benchVars, BenchInv, TasksOk
    <3>4. QED BY <3>2, <3>3 DEF BenchInv
  <2>9. QED BY <2>1, <2>2, <2>3, <2>4, <2>5, <2>6, <2>7, <2>8 DEF BenchNext
<1>3. QED BY <1>1, <1>2, PTL DEF BenchSpec

-----------------------------------------------------------------------------
(* NpuBench: what a schedule's time is the time of *)

\* Two tasks that run are in two runtimes: the earlier one would have its answer
\* before the later could start.
LEMMA NoRuntimeTwice ==
  ASSUME BenchInv, NEW s \in running, NEW t \in running, Runtime(recs[recAt], s) = Runtime(recs[recAt], t)
  PROVE  s = t
<1>1. Apart(Program, recs[recAt], Workers, Loaded) /\ RoundOk
  BY NowApart DEF BenchInv
<1>2. DOMAIN Program \subseteq Nat /\ mainStep \in Nat
  BY <1>1 DEF Apart, RoundOk
<1> HIDE DEF Program
<1>3. PICK k \in DOMAIN Program : TaskOf(Program, s, k) /\ Begun(Program, mainStep, k)
  BY DEF BenchInv, TasksOk
<1>4. PICK l \in DOMAIN Program : TaskOf(Program, t, l) /\ Begun(Program, mainStep, l)
  BY DEF BenchInv, TasksOk
<1>5. s.q \notin ended /\ t.q \notin ended
  BY DEF BenchInv, TasksOk
<1>6. \A m \in DOMAIN Program : m < mainStep => \A q : AnsweredBy(Program[m], q) => q \in ended
  BY DEF BenchInv, AnswersOk
<1>7. k <= mainStep /\ l <= mainStep
  BY <1>2, <1>3, <1>4 DEF Begun
<1>8. CASE k < l
  <2>1. PICK m \in DOMAIN Program : m < l /\ AnsweredBy(Program[m], s.q)
    BY <1>1, <1>3, <1>4, <1>8 DEF Apart
  <2>2. m < mainStep
    BY <2>1, <1>2, <1>7
  <2>3. QED BY <2>1, <2>2, <1>5, <1>6
<1>9. CASE l < k
  <2>1. PICK m \in DOMAIN Program : m < k /\ AnsweredBy(Program[m], t.q)
    BY <1>1, <1>3, <1>4, <1>9 DEF Apart
  <2>2. m < mainStep
    BY <2>1, <1>2, <1>7
  <2>3. QED BY <2>1, <2>2, <1>5, <1>6
<1>10. CASE k = l
  <2>1. CASE Program[k].do = "run"
    <3>1. s.by = "main" /\ t.by = "main"
      BY <2>1, <1>1, <1>3, <1>4, <1>10 DEF Apart
    <3>2. QED BY <3>1 DEF BenchInv, ThreadsOk
  <2>2. CASE Program[k].do # "run" /\ Workers = 1
    <3>1. s.by = "pool" /\ t.by = "pool"
      BY <2>2, <1>1, <1>3, <1>4, <1>10 DEF Apart
    <3>2. QED BY <3>1, <2>2 DEF BenchInv, ThreadsOk
  <2>3. CASE Program[k].do # "run" /\ Workers # 1
    BY <2>3, <1>1, <1>3, <1>4, <1>10 DEF Apart
  <2>4. QED BY <2>1, <2>2, <2>3
<1>11. QED BY <1>2, <1>8, <1>9, <1>10

\* laya_npu.py bench and bench-sets: the latency of a schedule is that of one
\* whole decision, alone on runtimes no two threads share.
THEOREM BenchHonestAlways == BenchSpec => []BenchHonest
<1>1. BenchInv => BenchHonest
  <2> SUFFICES ASSUME BenchInv PROVE BenchHonest
    OBVIOUS
  <2>1. Apart(Program, recs[recAt], Workers, Loaded) /\ RoundOk
    BY NowApart DEF BenchInv
  <2>2. \A t \in running : Runtime(recs[recAt], t) \in Loaded
    BY <2>1 DEF BenchInv, TasksOk, Apart
  <2>3. RuntimesApart
    BY <2>2, NoRuntimeTwice DEF RuntimesApart
  <2>4. ASSUME recAt > 0, clock = "off", NEW q \in DOMAIN recs[recAt].len,
               q = GateFirst \/ (\E i \in DOMAIN Needed(recs[recAt]) : Needed(recs[recAt])[i] = q)
        PROVE  q \in ended
    <3>1. PICK k \in DOMAIN Program : k < mainStep /\ Program[k].do = "stop"
      BY <2>4 DEF BenchInv, ClockOk
    <3>2. q \in Wanted(recs[recAt])
      BY <2>4 DEF Wanted, In
    <3>3. ProgramOk(Program, recs[recAt], Workers, Loaded)
      BY <2>4, NowApart DEF BenchInv
    <3>4. PICK m \in DOMAIN Program : m < k /\ AnsweredBy(Program[m], q)
      BY <3>1, <3>2, <3>3 DEF ProgramOk
    <3>5. m < mainStep
      BY <3>1, <3>4, <2>1 DEF Apart, RoundOk
    <3>6. QED BY <3>4, <3>5 DEF BenchInv, AnswersOk
  <2>5. Through => running = {} /\ queue = <<>>
    BY NothingLeft
  <2>6. QED BY <2>3, <2>4, <2>5 DEF BenchHonest, OneDecisionTimed
<1>2. QED BY <1>1, BenchCorrect, PTL

-----------------------------------------------------------------------------
(* All that is measured *)

\* laya_npu.py, concurrency.py and the ASR service's clients: what each of them
\* reports is what it measured, and is measured as it is reported.
THEOREM MeasurementsAreHonest ==
  BenchSpec /\ SideSpec /\ ClientsSpec => []MeasuredHonestly
<1>1. BenchHonest /\ MeasuredAsAgent /\ ClientsHonest => MeasuredHonestly
  BY DEF MeasuredHonestly
<1>2. QED BY <1>1, BenchHonestAlways, MeasuresAsAgent, ClientsHonestAlways, PTL
=============================================================================
