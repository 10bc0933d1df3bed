---------------------------- MODULE AsrAdmission ----------------------------
(***************************************************************************)
(* What the ASR service promises about admission, without the counters,    *)
(* futures and flags that implement it: at most Slots utterances hold a    *)
(* realtime slot, at most MaxQueued stand in line, a newcomer may take a   *)
(* slot only when nobody is in line, and a slot that falls free while      *)
(* somebody waits goes to the first in line in the same step.              *)
(***************************************************************************)
EXTENDS Integers, Sequences, FiniteSets, SequencesExt

CONSTANTS
  Leases,     (* utterance leases, one per accepted start request *)
  Slots,      (* realtime slots                                   *)
  MaxQueued   (* places in the waiting line                       *)

VARIABLES
  holding,    (* the leases that hold a slot                      *)
  line,       (* the leases waiting, first come first             *)
  gone        (* the leases that have left for good               *)

admissionVars == <<holding, line, gone>>

Known(l) == l \in holding \/ l \in gone \/ Contains(line, l)

AdmissionInit ==
  /\ holding = {}
  /\ line = <<>>
  /\ gone = {}

(* A newcomer takes a free slot; it cannot overtake anybody. *)
Enter(l) ==
  /\ ~Known(l)
  /\ line = <<>>
  /\ Cardinality(holding) < Slots
  /\ holding' = holding \union {l}
  /\ UNCHANGED <<line, gone>>

(* A newcomer joins the line, which forms only behind a full house. *)
Join(l) ==
  /\ ~Known(l)
  /\ Cardinality(holding) = Slots
  /\ Len(line) < MaxQueued
  /\ line' = Append(line, l)
  /\ UNCHANGED <<holding, gone>>

(* A holder leaves and hands its slot to the first in line, if any. *)
Leave(l) ==
  /\ l \in holding
  /\ gone' = gone \union {l}
  /\ \/ /\ line = <<>>
        /\ holding' = holding \ {l}
        /\ UNCHANGED line
     \/ /\ line # <<>>
        /\ holding' = (holding \ {l}) \union {Head(line)}
        /\ line' = Tail(line)

(* Somebody in line gives up; the others keep their order. *)
GiveUp(l) ==
  /\ Contains(line, l)
  /\ line' = RemoveFirst(line, l)
  /\ gone' = gone \union {l}
  /\ UNCHANGED holding

AdmissionNext == \E l \in Leases : Enter(l) \/ Join(l) \/ Leave(l) \/ GiveUp(l)

AdmissionSpec == AdmissionInit /\ [][AdmissionNext]_admissionVars

=============================================================================
