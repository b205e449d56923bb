------------------------------ MODULE MCOffers -------------------------------
(* Instances of Offers for TLC. *)
EXTENDS Offers, TLC

\* One offer with an issuer state and one with a code.
AuthThenPre == <<"auth", "pre">>
=============================================================================
