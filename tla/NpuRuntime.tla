------------------------------ MODULE NpuRuntime ------------------------------
(***************************************************************************)
(* RknnBackend.__init__ of eidolon_models_laya/backends.py and the         *)
(* contexts of rknn_runtime.py: how the compiled graphs are loaded onto    *)
(* the cores of the NPU.                                                   *)
(*                                                                         *)
(* A graph is initialised once, on the first core that is to have it, and  *)
(* duplicated onto the others, which then share its weights.  Every call   *)
(* into the runtime may fail: the memory of the NPU is shared with every   *)
(* other model on the board.                                               *)
(*                                                                         *)
(* Not here: the numbers of a tensor, and infer(), which LayaEngine runs.  *)
(***************************************************************************)
EXTENDS Naturals, Sequences, FiniteSets, SequencesExt

CONSTANTS
  CompiledSets,    (* the buckets with a hidden_l*.rknn, as sets          *)
  PlacementTexts,  (* EIDOLON_LAYA_NPU_PLACEMENT: parts of a core and its
                      buckets, or the empty sequence when it is not given *)
  DefaultParts,    (* RknnBackend.PLACEMENT                               *)
  CopiesThatFit    (* copies of the weights the address space holds       *)

ASSUME NpuAssumption ==
  /\ CopiesThatFit \in Nat
  /\ \A files \in CompiledSets : IsFiniteSet(files)
  /\ \A i \in DOMAIN DefaultParts : DefaultParts[i].core \in 0 .. 2

VARIABLES
  compiled,        (* the buckets found in the directory                  *)
  places,          (* _placement: the visits of the two loops             *)
  toLoad,          (* those still to come                                 *)
  rt,              (* _rt, in the order of insertion                      *)
  hand,            (* the context RknnRuntime or dup() is working on      *)
  alive,           (* contexts that exist in the driver                   *)
  npuAt            (* how far __init__ is                                 *)

npuVars == <<compiled, places, toLoad, rt, hand, alive, npuAt>>

\* A context, told from others by the visit that made it.
NoContext == [at |-> <<0, 0>>, core |-> 9, bucket |-> 0, dup |-> FALSE]
NpuCores == 0 .. 2

-----------------------------------------------------------------------------
(* parse_placement(): a dictionary, so a core named twice keeps its place
   and has the buckets of the last part.  A bucket named twice for one core
   stays twice, and the loops visit it twice. *)
BadPart(p) == p.buckets = <<>> \/ p.core \notin NpuCores

NamesCore(text, i) == \A j \in DOMAIN text : text[j].core = text[i].core => i <= j

LastPart(text, c) ==
  text[CHOOSE i \in DOMAIN text :
         text[i].core = c /\ \A j \in DOMAIN text : text[j].core = c => j <= i].buckets

\* {core: buckets}, each bucket that has a file at its place in the loops.
Visits(text, files) ==
  LET buckets(i) == LastPart(text, text[i].core)
  IN  UNION {{[at |-> <<i, k>>, core |-> text[i].core, bucket |-> buckets(i)[k]] :
                k \in {k \in DOMAIN buckets(i) : buckets(i)[k] \in files}} :
             i \in {i \in DOMAIN text : NamesCore(text, i)}}

Placed(visits) == {v.bucket : v \in visits}

NpuInit ==
  /\ compiled \in CompiledSets
  /\ \E text \in PlacementTexts :
       LET parts == IF text = <<>> THEN DefaultParts ELSE text
           bad == \E i \in DOMAIN text : BadPart(text[i])
           visits == IF bad THEN {} ELSE Visits(parts, compiled)
       IN  /\ places = visits /\ toLoad = visits
           /\ npuAt = IF bad \/ compiled = {} \/ compiled # Placed(visits)
                      THEN "refused" ELSE "loading"
  /\ rt = <<>> /\ hand = NoContext /\ alive = {}

-----------------------------------------------------------------------------
(* RknnRuntime.__init__ and dup() *)

FirstCopies == {x \in alive : ~x.dup}
First(L) == \E i \in DOMAIN rt : rt[i].bucket = L
Held == {rt[i] : i \in DOMAIN rt}
OneKey(x, y) == x.core = y.core /\ x.bucket = y.bucket

\* Core after core, and bucket after bucket of a core.
IsNext(v) ==
  \A w \in toLoad \ {v} : v.at[1] < w.at[1] \/ (v.at[1] = w.at[1] /\ v.at[2] < w.at[2])

\* A context for the next place, alive from here on.
Take(v, dup) ==
  /\ npuAt = "loading" /\ hand = NoContext /\ IsNext(v)
  /\ hand' = [at |-> v.at, core |-> v.core, bucket |-> v.bucket, dup |-> dup]
  /\ alive' = alive \union {hand'}
  /\ toLoad' = toLoad \ {v}
  /\ UNCHANGED <<compiled, places, rt, npuAt>>

\* rknn_init(): another copy of the weights.
InitContext ==
  \E v \in toLoad : ~First(v.bucket) /\ Cardinality(FirstCopies) < CopiesThatFit /\ Take(v, FALSE)

\* rknn_dup_context() on the first context of this bucket.
DupContext == \E v \in toLoad : First(v.bucket) /\ Take(v, TRUE)

\* Neither made a context.
CreateFails ==
  /\ npuAt = "loading" /\ hand = NoContext /\ toLoad # {}
  /\ npuAt' = "unwinding"
  /\ UNCHANGED <<compiled, places, toLoad, rt, hand, alive>>

\* The core mask and the queries, and the context is in _rt[(core, L)]: behind
\* the others, or where another of its place was, which is then nobody's: no
\* reference to it is left, and nothing closes it.
Configure ==
  /\ npuAt = "loading" /\ hand # NoContext
  /\ \/ /\ \A j \in DOMAIN rt : ~OneKey(rt[j], hand)
        /\ rt' = Append(rt, hand)
     \/ \E j \in DOMAIN rt : OneKey(rt[j], hand) /\ rt' = [rt EXCEPT ![j] = hand]
  /\ hand' = NoContext
  /\ UNCHANGED <<compiled, places, toLoad, alive, npuAt>>

\* One of them fails: the context closes itself.
ConfigureFails ==
  /\ npuAt = "loading" /\ hand # NoContext
  /\ alive' = alive \ {hand} /\ hand' = NoContext
  /\ npuAt' = "unwinding"
  /\ UNCHANGED <<compiled, places, toLoad, rt>>

\* Mutant: the contexts are closed in the order of their making.
UnwindForwards ==
  /\ npuAt = "unwinding"
  /\ IF rt = <<>> THEN npuAt' = "failed" /\ UNCHANGED <<rt, alive>>
     ELSE rt' = Tail(rt) /\ alive' = alive \ {Head(rt)} /\ UNCHANGED npuAt
  /\ UNCHANGED <<compiled, places, toLoad, hand>>

\* for runtime in reversed(_rt): duplicates before the originals.
Unwind ==
  /\ npuAt = "unwinding"
  /\ IF rt = <<>> THEN npuAt' = "failed" /\ UNCHANGED <<rt, alive>>
     ELSE rt' = Front(rt) /\ alive' = alive \ {Last(rt)} /\ UNCHANGED npuAt
  /\ UNCHANGED <<compiled, places, toLoad, hand>>

\* The embeddings and the heads are read, outside the try: when a file is
\* missing nobody closes the contexts, and they last as long as the process.
LoadHeads ==
  /\ npuAt = "loading" /\ hand = NoContext /\ toLoad = {}
  /\ npuAt' \in {"ready", "abandoned"}
  /\ UNCHANGED <<compiled, places, toLoad, rt, hand, alive>>

NpuNext ==
  \/ InitContext \/ DupContext \/ CreateFails \/ Configure \/ ConfigureFails
  \/ Unwind \/ LoadHeads

NpuSpec == NpuInit /\ [][NpuNext]_npuVars

-----------------------------------------------------------------------------
(* Properties *)

\* The contexts whose place in _rt another visit of the same core and bucket
\* took: there are some only where a placement names a bucket twice for a core.
Replaced ==
  {x \in alive \ (Held \union {hand}) : \E v \in places : v.at # x.at /\ OneKey(v, x)}

\* Weights are not destroyed under a duplicate that reads them ("Close
\* duplicates first"), save under one that _rt has lost.
WeightsUnderDuplicates ==
  \A x \in alive \ Replaced : x.dup => \E y \in FirstCopies : y.bucket = x.bucket

\* A placement that is refused takes nothing.  When the runtime fails, all is
\* given back but the contexts _rt has lost: with a bucket at most once on a
\* core, all.  Once the loops are through, every bucket is on a core, with one
\* copy of its weights, and what is alive is what _rt holds, again but for the
\* lost ones.  A load whose heads then cannot be read (abandoned) holds the same:
\* it gives nothing back.
LoadedOrGivenBack ==
  /\ npuAt = "refused" => alive = {}
  /\ npuAt = "failed" => alive = Replaced
  /\ npuAt \in {"ready", "abandoned"} =>
       /\ {x.bucket : x \in alive} = compiled
       /\ Cardinality(FirstCopies) = Cardinality(compiled)
       /\ alive = Held \union Replaced

\* RknnBackend(): whichever call fails, and wherever, no context in use outlives
\* what it shares, and none is left behind but those a repeated bucket pushed out
\* of _rt; the memory of the NPU is spent once per bucket on weights.
NpuLoadSound == WeightsUnderDuplicates /\ LoadedOrGivenBack
=============================================================================
