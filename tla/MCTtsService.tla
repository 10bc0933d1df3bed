----------------------------- MODULE MCTtsService -----------------------------
(* Small instances of the TTS service for TLC; the cfg files differ in the    *)
(* faults they allow.                                                         *)
EXTENDS TtsService, TLC

Symmetry == Permutations(Calls) \union Permutations(Handlers)

=============================================================================
