------------------------ MODULE MCWorkspaceAuthority ------------------------
(* Small instances of WorkspaceAuthority for TLC. *)
EXTENDS WorkspaceAuthority, TLC

\* People and invitations are interchangeable.
PeopleSymmetry == Permutations(Users) \cup Permutations(Invitations)

=============================================================================
