------------------------------- MODULE Registry -------------------------------
(***************************************************************************)
(* What the status endpoints promise: a credential is issued once and not  *)
(* revoked, it is revoked one at a time and on its own, and it stays so.   *)
(***************************************************************************)
CONSTANT Credentials
VARIABLES issued, revoked

Init == issued = {} /\ revoked = {}

Issue(c) ==
    /\ c \notin issued
    /\ issued' = issued \cup {c}
    /\ UNCHANGED revoked

Revoke(c) ==
    /\ c \in issued \ revoked
    /\ revoked' = revoked \cup {c}
    /\ UNCHANGED issued

Next == \E c \in Credentials : Issue(c) \/ Revoke(c)

Spec == Init /\ [][Next]_<<issued, revoked>>
=============================================================================
