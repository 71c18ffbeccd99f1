----------------------------- MODULE MCSlowTcp -----------------------------
(* SlowTcp for TLC: connection addresses and handles are interchangeable.  *)
EXTENDS SlowTcp

Symmetry == Permutations(Conns) \cup Permutations(Handles)
=============================================================================
