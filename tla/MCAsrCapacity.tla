---------------------------- MODULE MCAsrCapacity ----------------------------
(* AsrCapacity for TLC: six leases for two slots and three queue places, two *)
(* connections for three handlers.                                           *)
EXTENDS AsrCapacity, TLC

Symmetry == Permutations(Leases) \union Permutations(Handlers)

=============================================================================
