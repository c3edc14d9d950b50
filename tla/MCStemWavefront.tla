-------------------------- MODULE MCStemWavefront --------------------------
(* Instances of StemWavefront for TLC. *)
EXTENDS StemWavefront, TLC

CONSTANTS s1, s2, c1, c2, g

Interchangeable == Permutations(Stems) \cup Permutations(CPUConsumers)
============================================================================
