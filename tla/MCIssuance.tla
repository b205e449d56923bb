----------------------------- MODULE MCIssuance -----------------------------
(* Instances of Issuance for TLC. *)
EXTENDS Issuance, TLC

Auth(k) == [grant |-> "auth", kind |-> k]
Pre(k)  == [grant |-> "pre", kind |-> k]

NoForms    == {}
AuthPlain  == {Auth("plain")}
PlainForms == {Auth("plain"), Pre("plain")}
ScopeForms == {Auth("plain"), Pre("ctInTime"), Auth("itDeferred")}

\* Ids are interchangeable: nothing compares them, but for the mock client.
Symmetry == Permutations(Clients \ {MockClient}) \cup Permutations(Offers)
            \cup Permutations(Sessions) \cup Permutations(Vcs) \cup Permutations(Slots)
=============================================================================
