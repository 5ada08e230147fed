-------------------------- MODULE MCSignalDelivery --------------------------
(* SignalDelivery with interchangeable signals and sessions. *)
EXTENDS SignalDelivery, TLC

DeliverySymmetry == Permutations(Signals) \cup Permutations(Sessions)
=============================================================================
