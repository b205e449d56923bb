----------------------------- MODULE MCConsole ------------------------------
(* Instances of Console for TLC. *)
EXTENDS Console, TLC

\* Every request from a did of its own, of the same name.
OwnDid == [v \in Vcs |-> v]

Symmetry == Permutations(Slots)
=============================================================================
