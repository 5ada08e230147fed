-------------------------- MODULE MCCommandStream --------------------------
(* CommandStream with interchangeable requests, streams and command ids. *)
EXTENDS CommandStream, TLC

StreamSymmetry == Permutations(Requests) \cup Permutations(Streams) \cup Permutations(Ids)
=============================================================================
