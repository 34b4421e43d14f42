------------------------------ MODULE MCBooks ------------------------------
(***************************************************************************)
(* Books for TLC: the symmetry of processes and of order ids.              *)
(***************************************************************************)
EXTENDS Books, TLC

Interchangeable == Permutations(Brokers) \cup Permutations(Coids)
============================================================================
