--------------------------- MODULE FencedAuthority ---------------------------
(***************************************************************************)
(* What a task lease promises, without tasks, reviews, clocks or grants:   *)
(* "an authority token, not a file lock" (docs/design/SWARM-CLOUD.md 2.2). *)
(* Authority is issued under a fresh epoch, one above every earlier one,   *)
(* or withdrawn; the set of issued pairs only grows, so an epoch read off  *)
(* an old command identifies the one principal it was issued to.           *)
(***************************************************************************)
EXTENDS Integers

CONSTANTS Principals, Nobody

VARIABLES
    epoch,   \* the last epoch issued, 0 before the first
    holder,  \* who holds the authority now, or Nobody
    issued   \* every <<epoch, principal>> ever issued

vars == <<epoch, holder, issued>>

Init ==
    /\ epoch = 0
    /\ holder = Nobody
    /\ issued = {}

Issue(p) ==
    /\ epoch' = epoch + 1
    /\ holder' = p
    /\ issued' = issued \cup {<<epoch + 1, p>>}

Withdraw ==
    /\ holder' = Nobody
    /\ UNCHANGED <<epoch, issued>>

Next == Withdraw \/ \E p \in Principals : Issue(p)

Spec == Init /\ [][Next]_vars

=============================================================================
