--------------------------- MODULE MCTokenRenewal ---------------------------
(* Two processes of one agent, in one state directory or in two.           *)
EXTENDS TokenRenewal
=============================================================================
