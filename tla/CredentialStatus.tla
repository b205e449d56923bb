--------------------------- MODULE CredentialStatus ---------------------------
(***************************************************************************)
(* The revocation registry of the backend: the status lists and entries of *)
(* credential-status.service.ts, the part of issueVerifiableCredential     *)
(* that adds a credential to a list, and the revoke endpoint.              *)
(*                                                                         *)
(* As in Issuance an action is the code between two database calls, and a  *)
(* Slot is a handler in flight with what it has read.                      *)
(***************************************************************************)
EXTENDS Naturals, FiniteSets

CONSTANTS
    Credentials,  \* ids of verifiable_credential rows
    Lists,        \* uuids of credential_status_list rows
    Entries,      \* uuids of credential_status_entry rows
    Indices,      \* positions that randomInt draws: LIST_SIZE - 1 of them
    Capacity,     \* a list with this many entries takes no new handler
    Slots,        \* requests in flight
    Reissue,      \* whether credentials are reopened and approved again
    MaxFaults,    \* bound: handlers that die before they answer
    None

ASSUME StatusAssumption ==
    /\ IsFiniteSet(Lists) /\ IsFiniteSet(Entries) /\ IsFiniteSet(Slots)
    /\ Capacity \in Nat \ {0} /\ MaxFaults \in Nat /\ Reissue \in BOOLEAN
    /\ None \notin Credentials \cup Lists \cup Entries \cup [list : Lists, index : Indices]

VARIABLES
    lists,      \* credential_status_list: age (0 before its insert) and bits
    entries,    \* credential_status_entry
    stored,     \* credentialStatus in the credential column, once issued
    open,       \* credentials whose status is not ISSUED
    held,       \* signed credentials that were handed out
    requested,  \* credentials whose revocation was begun
    answered,   \* credentials reported as REVOKED
    req,        \* handlers in flight
    faults      \* handlers that died so far

vars == <<lists, entries, stored, open, held, requested, answered, req, faults>>

-----------------------------------------------------------------------------
Refs == [list : Lists, index : Indices]

List  == [age : Nat, bits : SUBSET Indices]
Entry == [cred : Credentials \cup {None}, ref : Refs \cup {None}, revoked : BOOLEAN]

\* A signed credential and the credentialStatus it carries.
Jwt == [cred : Credentials, ref : Refs \cup {None}]

Slot == [pc : {"idle", "sign", "getList", "createList", "addRead", "addSave",
               "store", "revokeRead", "listSave", "entrySave"},
         cred : Credentials \cup {None}, list : Lists \cup {None},
         ref : Refs \cup {None}, signed : Refs \cup {None},
         entry : Entries \cup {None}, bits : SUBSET Indices]

NoList  == [age |-> 0, bits |-> {}]
NoEntry == [cred |-> None, ref |-> None, revoked |-> FALSE]
Idle    == [pc |-> "idle", cred |-> None, list |-> None, ref |-> None,
            signed |-> None, entry |-> None, bits |-> {}]

IsBorn(e)    == entries[e].cred # None
EntriesIn(l) == {e \in Entries : IsBorn(e) /\ entries[e].ref.list = l}
EntriesOf(c) == {e \in Entries : entries[e].cred = c}
BitSet(ref)  == ref.index \in lists[ref.list].bits

\* getStatusList, what verifiers fetch.
Published(l) == lists[l].bits

\* The newest list, by createdAt.
Newest(l) == lists[l].age > 0 /\ \A k \in Lists : lists[k].age <= lists[l].age

Busy(r, pc) == req[r].pc = pc
Goto(r, pc) == req' = [req EXCEPT ![r].pc = pc]
End(r)      == req' = [req EXCEPT ![r] = Idle]

\* Bounds: a handler starts only when an id is left for the row it inserts.
Issuing(r) == req[r].pc \in {"sign", "getList", "createList", "addRead", "addSave"}
SpareEntry == Cardinality({e \in Entries : ~IsBorn(e)})
                 > Cardinality({r \in Slots : Issuing(r)})
SpareList  == \/ \E l \in Lists : lists[l].age > 0 /\ Cardinality(EntriesIn(l)) < Capacity
              \/ Cardinality({l \in Lists : lists[l].age = 0})
                    > Cardinality({r \in Slots : Issuing(r)})

\* A rejected database call, a restart, or a lost connection.
Fail(r) ==
    /\ ~Busy(r, "idle")
    /\ faults < MaxFaults
    /\ faults' = faults + 1
    /\ End(r)
    /\ UNCHANGED <<lists, entries, stored, open, held, requested, answered>>

-----------------------------------------------------------------------------
(***************************************************************************)
(* issueVerifiableCredential                                               *)
(***************************************************************************)

\* The credential must not be issued already.
Issue(r, c) ==
    /\ Busy(r, "idle")
    /\ c \in open
    /\ SpareEntry /\ SpareList
    /\ req' = [req EXCEPT ![r] = [Idle EXCEPT !.pc = "sign", !.cred = c]]
    /\ UNCHANGED <<lists, entries, stored, open, held, requested, answered, faults>>

\* generateAndSignCredential signs the credential as it is now: the status
\* reference is put into the object later.
Sign(r) ==
    /\ Busy(r, "sign")
    /\ req' = [req EXCEPT ![r].pc = "getList", ![r].signed = req[r].ref]
    /\ UNCHANGED <<lists, entries, stored, open, held, requested, answered, faults>>

\* Mutant of GetList: the newest list, however full.
GetListUnchecked(r, l) ==
    /\ Busy(r, "getList")
    /\ Newest(l)
    /\ req' = [req EXCEPT ![r].pc = "addRead", ![r].list = l]
    /\ UNCHANGED <<lists, entries, stored, open, held, requested, answered, faults>>

\* getOrCreateStatusList: the newest list, unless it is full by now.
GetList(r, l) ==
    /\ Busy(r, "getList")
    /\ Newest(l)
    /\ Cardinality(EntriesIn(l)) < Capacity
    /\ req' = [req EXCEPT ![r].pc = "addRead", ![r].list = l]
    /\ UNCHANGED <<lists, entries, stored, open, held, requested, answered, faults>>

NoListToGet(r) ==
    /\ Busy(r, "getList")
    /\ \A l \in Lists : Newest(l) => Cardinality(EntriesIn(l)) >= Capacity
    /\ Goto(r, "createList")
    /\ UNCHANGED <<lists, entries, stored, open, held, requested, answered, faults>>

CreateList(r, l) ==
    /\ Busy(r, "createList")
    /\ lists[l].age = 0
    /\ lists' = [lists EXCEPT ![l].age = 1 + Cardinality({k \in Lists : lists[k].age > 0})]
    /\ req' = [req EXCEPT ![r].pc = "addRead", ![r].list = l]
    /\ UNCHANGED <<entries, stored, open, held, requested, answered, faults>>

\* addCredential: read the list with its entries and draw an unused index.
Used(l) == {entries[e].ref.index : e \in EntriesIn(l)}

\* Mutant of AddRead: the indices in use are not looked at.
AddReadAny(r, i) ==
    /\ Busy(r, "addRead")
    /\ req' = [req EXCEPT ![r].pc = "addSave",
                          ![r].ref = [list |-> req[r].list, index |-> i]]
    /\ UNCHANGED <<lists, entries, stored, open, held, requested, answered, faults>>

AddRead(r, i) ==
    /\ Busy(r, "addRead")
    /\ i \notin Used(req[r].list)
    /\ req' = [req EXCEPT ![r].pc = "addSave",
                          ![r].ref = [list |-> req[r].list, index |-> i]]
    /\ UNCHANGED <<lists, entries, stored, open, held, requested, answered, faults>>

\* A hundred draws hit indices in use.
TooFull(r) ==
    /\ Busy(r, "addRead")
    /\ Used(req[r].list) # {}
    /\ End(r)
    /\ UNCHANGED <<lists, entries, stored, open, held, requested, answered, faults>>

AddSave(r, e) ==
    /\ Busy(r, "addSave")
    /\ ~IsBorn(e)
    /\ entries' = [entries EXCEPT ![e] = [cred |-> req[r].cred, ref |-> req[r].ref,
                                          revoked |-> FALSE]]
    /\ Goto(r, "store")
    /\ UNCHANGED <<lists, stored, open, held, requested, answered, faults>>

\* Mutant of Store: the reference names the list without the index.
StoreList(r) ==
    LET c == req[r].cred IN
    /\ Busy(r, "store")
    /\ stored' = [stored EXCEPT ![c] = req[r].list]
    /\ open' = open \ {c}
    /\ held' = held \cup {[cred |-> c, ref |-> req[r].signed]}
    /\ End(r)
    /\ UNCHANGED <<lists, entries, requested, answered, faults>>

\* updateVerifiableCredential stores the object.  The holder is given the JWT, or
\* later one that credentilDeferred signs from the same template.
Store(r) ==
    LET c == req[r].cred IN
    /\ Busy(r, "store")
    /\ stored' = [stored EXCEPT ![c] = req[r].ref]
    /\ open' = open \ {c}
    /\ held' = held \cup {[cred |-> c, ref |-> req[r].signed]}
    /\ End(r)
    /\ UNCHANGED <<lists, entries, requested, answered, faults>>

\* PATCH :id/status with any status but ISSUED.
Reopen(c) ==
    /\ Reissue
    /\ c \notin open
    /\ open' = open \cup {c}
    /\ UNCHANGED <<lists, entries, stored, held, requested, answered, req, faults>>

-----------------------------------------------------------------------------
(***************************************************************************)
(* The revoke endpoint.  findOne returns any one entry of the credential.  *)
(***************************************************************************)

\* verifyCredentialStatus finds the bit set: the answer is REVOKED.
RevokeAgain(c, e) ==
    /\ e \in EntriesOf(c)
    /\ BitSet(entries[e].ref)
    /\ requested' = requested \cup {c}
    /\ answered' = answered \cup {c}
    /\ UNCHANGED <<lists, entries, stored, open, held, req, faults>>

Revoke(r, c, e) ==
    /\ Busy(r, "idle")
    /\ e \in EntriesOf(c)
    /\ ~BitSet(entries[e].ref)
    /\ req' = [req EXCEPT ![r] = [Idle EXCEPT !.pc = "revokeRead", !.cred = c]]
    /\ requested' = requested \cup {c}
    /\ UNCHANGED <<lists, entries, stored, open, held, answered, faults>>

\* Mutants of RevokeRead: it finds an entry of any credential, and it starts
\* from an empty list.
RevokeReadAny(r, e) ==
    LET ref == entries[e].ref IN
    /\ Busy(r, "revokeRead")
    /\ IsBorn(e)
    /\ req' = [req EXCEPT ![r].pc = "listSave", ![r].entry = e, ![r].ref = ref,
                          ![r].bits = lists[ref.list].bits \cup {ref.index}]
    /\ UNCHANGED <<lists, entries, stored, open, held, requested, answered, faults>>

RevokeReadFresh(r, e) ==
    LET ref == entries[e].ref IN
    /\ Busy(r, "revokeRead")
    /\ e \in EntriesOf(req[r].cred)
    /\ req' = [req EXCEPT ![r].pc = "listSave", ![r].entry = e, ![r].ref = ref,
                          ![r].bits = {ref.index}]
    /\ UNCHANGED <<lists, entries, stored, open, held, requested, answered, faults>>

\* revokeCredential reads an entry with its list and sets the bit in memory.
RevokeRead(r, e) ==
    LET ref == entries[e].ref IN
    /\ Busy(r, "revokeRead")
    /\ e \in EntriesOf(req[r].cred)
    /\ req' = [req EXCEPT ![r].pc = "listSave", ![r].entry = e, ![r].ref = ref,
                          ![r].bits = lists[ref.list].bits \cup {ref.index}]
    /\ UNCHANGED <<lists, entries, stored, open, held, requested, answered, faults>>

\* Mutant of ListSave: the list is changed in memory only.
ListSaveForgotten(r) ==
    /\ Busy(r, "listSave")
    /\ Goto(r, "entrySave")
    /\ UNCHANGED <<lists, entries, stored, open, held, requested, answered, faults>>

ListSave(r) ==
    /\ Busy(r, "listSave")
    /\ lists' = [lists EXCEPT ![req[r].ref.list].bits = req[r].bits]
    /\ Goto(r, "entrySave")
    /\ UNCHANGED <<entries, stored, open, held, requested, answered, faults>>

EntrySave(r) ==
    /\ Busy(r, "entrySave")
    /\ entries' = [entries EXCEPT ![req[r].entry].revoked = TRUE]
    /\ answered' = answered \cup {req[r].cred}
    /\ End(r)
    /\ UNCHANGED <<lists, stored, open, held, requested, faults>>

-----------------------------------------------------------------------------
Init ==
    /\ lists = [l \in Lists |-> NoList]
    /\ entries = [e \in Entries |-> NoEntry]
    /\ stored = [c \in Credentials |-> None]
    /\ open = Credentials
    /\ held = {} /\ requested = {} /\ answered = {}
    /\ req = [r \in Slots |-> Idle]
    /\ faults = 0

Step(r) ==
    \/ Sign(r) \/ NoListToGet(r) \/ TooFull(r) \/ Store(r)
    \/ \E l \in Lists : GetList(r, l) \/ CreateList(r, l)
    \/ \E i \in Indices : AddRead(r, i)
    \/ \E e \in Entries : AddSave(r, e) \/ RevokeRead(r, e)
    \/ ListSave(r) \/ EntrySave(r)

Next ==
    \/ \E r \in Slots, c \in Credentials : Issue(r, c)
    \/ \E r \in Slots, c \in Credentials, e \in Entries : Revoke(r, c, e)
    \/ \E c \in Credentials, e \in Entries : RevokeAgain(c, e)
    \/ \E c \in Credentials : Reopen(c)
    \/ \E r \in Slots : Step(r) \/ Fail(r)

Spec == Init /\ [][Next]_vars

\* Node resumes a handler after every await.
FairSpec == Spec /\ \A r \in Slots : WF_vars(Step(r))
-----------------------------------------------------------------------------
(***************************************************************************)
(* Properties.                                                             *)
(***************************************************************************)

\* Every variable holds what its table or slot can hold.
TypeOK ==
    /\ lists \in [Lists -> List]
    /\ entries \in [Entries -> Entry]
    /\ stored \in [Credentials -> Refs \cup {None}]
    /\ open \subseteq Credentials
    /\ held \subseteq Jwt
    /\ requested \subseteq Credentials /\ answered \subseteq Credentials
    /\ req \in [Slots -> Slot]
    /\ faults \in Nat

\* No bit is set in a list but for a credential whose revocation was begun,
\* whatever handlers wrote back lists they had read earlier (revokeCredential)
\* and even where addCredential gave one index to two credentials.
NobodyElseRevoked ==
    \A l \in Lists : \A i \in lists[l].bits :
        \E e \in EntriesIn(l) : entries[e].ref.index = i /\ entries[e].cred \in requested

\* getOrCreateStatusList checks the size of a list long before addCredential
\* adds to it; the list outgrows its threshold by the handlers in flight at
\* most, so the fifth that the code keeps free is enough for them.
ListHasRoom ==
    \A l \in Lists : Cardinality(EntriesIn(l)) < Capacity + Cardinality(Slots)

\* An entry is marked as revoked only if its bit is set: a crash between the
\* two saves of revokeCredential leaves the list ahead of the entry.
MarkedIsListed ==
    \A e \in Entries : IsBorn(e) /\ entries[e].revoked => BitSet(entries[e].ref)

\* A credential that the revoke endpoint reported as REVOKED ("Credential
\* revoked successfully") has an entry whose bit is set in its list.
AnsweredIsListed ==
    \A c \in answered : \E e \in EntriesOf(c) : BitSet(entries[e].ref)

\* isCredentialRevoked rejects a signed credential that carries a status whose
\* bit is set; once a credential was reported as REVOKED it rejects every copy.
Rejected(jwt) == jwt.ref # None /\ jwt.ref.index \in Published(jwt.ref.list)
AnsweredIsRejected == \A jwt \in held : jwt.cred \in answered => Rejected(jwt)

\* A revocation that was begun is completed, and nothing undoes it, unless a
\* handler died.
RevocationLasts ==
    \A c \in Credentials :
        c \in requested ~> [](\/ faults > 0
                             \/ \A e \in EntriesOf(c) : BitSet(entries[e].ref))

\* The registry that the tables implement.
Promise == INSTANCE Registry
               WITH issued  <- {c \in Credentials : stored[c] # None},
                    revoked <- {c \in Credentials : stored[c] # None /\ BitSet(stored[c])}
RegistrySpec == Promise!Spec
=============================================================================
