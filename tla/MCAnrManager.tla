---------------------------- MODULE MCAnrManager ----------------------------
(* AnrManager for TLC: sessions are interchangeable.                       *)
EXTENDS AnrManager, TLC

Symmetry == Permutations(Sessions)
=============================================================================
