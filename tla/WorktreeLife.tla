---------------------------- MODULE WorktreeLife ----------------------------
(***************************************************************************)
(* What jtp add and jtp remove promise of the places under base_dir.  A    *)
(* place is free, holds a live worktree, or holds the leftover files of a  *)
(* worktree that jj no longer knows.  A worktree is only made at a free    *)
(* place and only deleted after jj has forgotten it, so a place is never   *)
(* dangling: known to jj with its files gone.                              *)
(***************************************************************************)
CONSTANT Places

VARIABLE life

Lifes == {"free", "live", "leftover", "dangling"}

Init == life = [d \in Places |-> "free"]

\* jj workspace add succeeds.
Create(d) == life[d] = "free" /\ life' = [life EXCEPT ![d] = "live"]

\* jj workspace forget succeeds.
Forget(d) == life[d] = "live" /\ life' = [life EXCEPT ![d] = "leftover"]

\* os.RemoveAll comes to an end.
Delete(d) == life[d] = "leftover" /\ life' = [life EXCEPT ![d] = "free"]

Next == \E d \in Places : Create(d) \/ Forget(d) \/ Delete(d)

Spec == Init /\ [][Next]_life
=============================================================================
