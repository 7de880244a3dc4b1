----------------------------- MODULE MCConnPool -----------------------------
(***************************************************************************)
(* ConnPool for TLC, with the mutants of its actions: each is the code with*)
(* one plausible mistake.                                                  *)
(***************************************************************************)
EXTENDS ConnPool, TLC

Symmetry == Permutations(Procs) \cup Permutations(Conns)
=============================================================================
