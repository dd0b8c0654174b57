------------------------------ MODULE MCSoldust ------------------------------
(* Finite instances of Soldust for TLC.  One step is 4 lamports, of which   *)
(* the house takes 1; a nursery is 2 steps and a hole 4 or 5.               *)
EXTENDS SoldustDocs, TLC

Symmetry == Permutations(Seeds) \cup Permutations(Players)
=============================================================================
