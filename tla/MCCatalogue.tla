---------------------------- MODULE MCCatalogue -----------------------------
(* Instances of Catalogue for TLC. *)
EXTENDS Catalogue, TLC

TwoDefaults == <<"studentId", "verification">>

\* Requests are interchangeable.
Symmetry == Permutations(Slots)
=============================================================================
