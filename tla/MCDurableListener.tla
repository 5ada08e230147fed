------------------------- MODULE MCDurableListener -------------------------
(* DurableListener with interchangeable signals. *)
EXTENDS DurableListener, TLC

SignalSymmetry == Permutations(Signals)
=============================================================================
