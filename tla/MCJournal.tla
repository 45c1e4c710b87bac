----------------------------- MODULE MCJournal -----------------------------
(* Journal for TLC: the requests clients send in each run. *)
EXTENDS Journal, TLC

JobSymmetry == Permutations(Jobs)
Mod == [val |-> Unset, env |-> Unset, restart |-> FALSE]
NoMods == {}
SomeMods == {[Mod EXCEPT !.val = 1], [Mod EXCEPT !.restart = TRUE]}
=============================================================================
