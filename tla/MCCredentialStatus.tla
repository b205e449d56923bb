-------------------------- MODULE MCCredentialStatus --------------------------
(* Instances of CredentialStatus for TLC. *)
EXTENDS CredentialStatus, TLC

\* Ids and positions are interchangeable: nothing compares them.
Symmetry == Permutations(Credentials) \cup Permutations(Lists)
            \cup Permutations(Entries) \cup Permutations(Indices) \cup Permutations(Slots)
=============================================================================
