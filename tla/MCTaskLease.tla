----------------------------- MODULE MCTaskLease -----------------------------
(* TaskLease for TLC: two interchangeable principals, one grant, one head, *)
(* a short clock.                                                          *)
EXTENDS TaskLease, TLC

PrincipalSymmetry == Permutations(Principals)

=============================================================================
