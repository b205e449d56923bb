------------------------------ MODULE Issuance ------------------------------
(***************************************************************************)
(* The credential issuance core of the backend: the tables that            *)
(* credential-offer.service.ts, state.service.ts and vc.service.ts keep,   *)
(* and the request handlers of auth.service.ts that read and write them.   *)
(*                                                                         *)
(* Node runs one handler at a time between two awaits, so an action is the *)
(* code from one database call to the next.  A handler in flight is a      *)
(* Slot: its program counter, the ids it works on, and the row it read     *)
(* earlier and may write back after other handlers have changed it.        *)
(***************************************************************************)
EXTENDS Naturals, FiniteSets

CONSTANTS
    Clients,     \* holder DIDs
    Offers,      \* uuids of credential_offers rows
    Sessions,    \* serial ids of state rows
    Vcs,         \* serial ids of verifiable_credential rows
    Slots,       \* requests the server has in flight at once
    OfferForms,  \* the [grant, kind] combinations administrators offer
    VpKind,      \* type mapped to a presentation scope, or "unmapped"
    OpenidKind,  \* type mapped to the scope "openid", or "unmapped"
    AdminOps,    \* the operations the administrator uses
    MockClient,  \* DID of the conformance suite's holder, or None
    MaxMinted,   \* bound: random strings generated per session
    MaxEntries,  \* bound: approvals start only below this many entries
    MaxFaults,   \* bound: handlers that die before they answer
    None

(***************************************************************************)
(* Kinds of requested types, as far as the handlers branch on them:        *)
(* CTWallet... (conformance) and IT... (interop) names, or anything else.  *)
(***************************************************************************)
Kinds  == {"plain", "ctInTime", "ctDeferred", "itInTime", "itDeferred"}
Grants == {"auth", "pre"}
Forms  == [grant : Grants, kind : Kinds]

ASSUME ConstantsAssumption ==
    /\ OfferForms \subseteq Forms
    /\ VpKind \in Kinds \cup {"unmapped"}
    /\ OpenidKind \in Kinds \cup {"unmapped"}
    /\ AdminOps \subseteq {"approve", "reject", "reopen", "delete", "detach"}
    /\ MockClient \in Clients \cup {None}
    /\ MaxMinted \in Nat /\ MaxEntries \in Nat /\ MaxFaults \in Nat
    /\ None \notin Clients \cup Offers \cup Sessions \cup Vcs

VARIABLES
    offers,    \* credential_offers
    sessions,  \* state
    vcs,       \* verifiable_credential
    dids,      \* did, and whether a student owns it
    entries,   \* number of credential_status_entry rows per credential
    req,       \* handlers in flight
    wallet,    \* answers that reached a holder's wallet
    minted,    \* random strings generated so far for a session
    faults     \* handlers that died so far

tables == <<offers, sessions, vcs, dids, entries>>
vars   == <<offers, sessions, vcs, dids, entries, req, wallet, minted, faults>>

-----------------------------------------------------------------------------
(***************************************************************************)
(* Rows.  An id is unborn until its row is inserted; a deleted row stays   *)
(* as "gone", because serial ids and uuids are never reused.               *)
(***************************************************************************)
Lives == {"unborn", "live", "gone"}

OfferRow == [live : Lives, grant : Grants, kind : Kinds,
             client : Clients \cup {None}]

Row == [live : Lives, client : Clients \cup {None},
        scope : {"openid", "vp", "none", "mock"}, offer : Offers \cup {None},
        kind : Kinds \cup {"unmapped"},
        step : {"authorize", "authResponse", "tokenRequest", "deferredRequest"},
        status : {"unclaimed", "claimed"}, code : Nat, nonce : Nat]

VcRow == [status : {"unborn", "pending", "issued", "rejected", "gone"},
          client : Clients \cup {None}, offer : Offers \cup {None}, kind : Kinds]

Message == [type : {"state", "code", "nonce", "token", "inTime", "deferred",
                    "denied"},
            s : Sessions \cup {None}, n : Nat, v : Vcs \cup {None}]

Pc == {"idle", "scopeOffer", "insertState", "postRead", "postSave", "mockCheck",
       "mockInsert", "mockFind", "tokenRead", "tokenSave", "findDid", "insertDid", "ensureStudent", "insertVc", "issueRead",
       "addEntry", "markIssued", "markAgain", "claimRead", "claimSave", "deferRead",
       "deferSave", "confRead", "confMark", "itDeferMark", "reply"}

NoOffer == [live |-> "unborn", grant |-> "auth", kind |-> "plain",
            client |-> None]
NoRow   == [live |-> "unborn", client |-> None, scope |-> "none",
            offer |-> None, kind |-> "unmapped", step |-> "authorize",
            status |-> "unclaimed", code |-> 0, nonce |-> 0]
NoVc    == [status |-> "unborn", client |-> None, offer |-> None,
            kind |-> "plain"]
Msg(t, s, n, v) == [type |-> t, s |-> s, n |-> n, v |-> v]
NoMsg   == Msg("state", None, 0, None)
Idle    == [pc |-> "idle", s |-> None, v |-> None, n |-> 0, row |-> NoRow,
            msg |-> NoMsg]

Slot == [pc : Pc, s : Sessions \cup {None}, v : Vcs \cup {None}, n : Nat,
         row : Row, msg : Message]

LiveOffer(o)   == offers[o].live = "live"
LiveSession(s) == sessions[s].live = "live"
\* The foreign key: a reference to an offer is NULL or names a row.
OfferHolds(ref) == \A o \in Offers : o = ref => LiveOffer(o)
LiveVc(v)      == vcs[v].status \in {"pending", "issued", "rejected"}

\* A state row as createAuthState and createPreAuthorisedAndPinCode build it.
NewRow(c, scope, o, k, step) ==
    [NoRow EXCEPT !.live = "live", !.client = c, !.scope = scope, !.offer = o,
                  !.kind = k, !.step = step]

\* repository.save(row): every loaded column is written back over what is
\* there now.  The offer relation was not loaded, so a live row keeps its
\* offer, and a row deleted in the meantime is inserted again without one.
Saved(s, row) ==
    [sessions EXCEPT ![s] =
        [row EXCEPT !.live = "live",
                    !.offer = IF LiveSession(s) THEN sessions[s].offer ELSE None]]

\* Mutant of Marked: an upsert where the code has an update.
MarkedUpserts(v, status) ==
    [vcs EXCEPT ![v].status = IF @ = "unborn" THEN @ ELSE status]

\* repository.update(v, {status}): nothing happens when the row is missing.
Marked(v, status) ==
    [vcs EXCEPT ![v].status = IF LiveVc(v) THEN status ELSE @]

-----------------------------------------------------------------------------
(***************************************************************************)
(* Slots.                                                                  *)
(***************************************************************************)
Busy(r, pc) == req[r].pc = pc
Start(r, f) == Busy(r, "idle") /\ req' = [req EXCEPT ![r] = f]
Goto(r, pc) == req' = [req EXCEPT ![r].pc = pc]
End(r)      == req' = [req EXCEPT ![r] = Idle]
Answer(r, m) == req' = [req EXCEPT ![r] = [Idle EXCEPT !.pc = "reply", !.msg = m]]

\* Bound: a handler starts only when an id is left for each row it inserts.
SpareOffer   == Cardinality({o \in Offers : offers[o].live = "unborn"})
                  > Cardinality({r \in Slots : Busy(r, "scopeOffer")})
SpareSession == Cardinality({s \in Sessions : sessions[s].live = "unborn"})
                  > Cardinality({r \in Slots : req[r].pc \in {"scopeOffer", "insertState",
                                                              "mockCheck", "mockInsert"}})
SpareVc      == Cardinality({v \in Vcs : vcs[v].status = "unborn"})
                  > Cardinality({r \in Slots : req[r].pc \in {"findDid", "insertDid",
                                                         "ensureStudent", "insertVc"}})

\* The response reaches the wallet.
Reply(r) ==
    /\ Busy(r, "reply")
    /\ wallet' = wallet \cup {req[r].msg}
    /\ End(r)
    /\ UNCHANGED <<tables, minted, faults>>

\* A rejected database call, a failed signature or credential template, a
\* restart of the process, or a response lost on its way: the handler ends
\* here and what it wrote so far stays.
Fail(r) ==
    /\ ~Busy(r, "idle")
    /\ faults < MaxFaults
    /\ faults' = faults + 1
    /\ End(r)
    /\ UNCHANGED <<tables, wallet, minted>>

-----------------------------------------------------------------------------
(***************************************************************************)
(* Administration of offers, students and credentials.                     *)
(***************************************************************************)

\* createOffer: an offer for the authorization code flow is complete once its
\* row is inserted; a pre-authorised one still needs its state row.
CreateOffer(r, o, f, c) ==
    /\ SpareOffer
    /\ offers[o].live = "unborn"
    /\ offers' = [offers EXCEPT ![o] = [live |-> "live", grant |-> f.grant,
                                        kind |-> f.kind, client |-> c]]
    /\ IF f.grant = "pre"
       THEN SpareSession
            /\ Start(r, [Idle EXCEPT !.pc = "insertState",
                                     !.row = NewRow(c, "none", o, f.kind, "tokenRequest")])
       ELSE UNCHANGED req
    /\ UNCHANGED <<sessions, vcs, dids, entries, wallet, minted, faults>>

\* Mutant of DeleteOffer: verifiable_credential does not cascade.
DeleteOfferOnly(o) ==
    /\ "delete" \in AdminOps
    /\ LiveOffer(o)
    /\ offers' = [offers EXCEPT ![o].live = "gone"]
    /\ UNCHANGED <<sessions, vcs, dids, entries, req, wallet, minted, faults>>

\* deleteOffer: the foreign keys of state and verifiable_credential cascade.
DeleteOffer(o) ==
    /\ "delete" \in AdminOps
    /\ LiveOffer(o)
    /\ offers' = [offers EXCEPT ![o].live = "gone"]
    /\ sessions' = [s \in Sessions |->
                      IF LiveSession(s) /\ sessions[s].offer = o
                      THEN [sessions[s] EXCEPT !.live = "gone"] ELSE sessions[s]]
    /\ vcs' = [v \in Vcs |->
                 IF LiveVc(v) /\ vcs[v].offer = o
                 THEN [vcs[v] EXCEPT !.status = "gone"] ELSE vcs[v]]
    /\ UNCHANGED <<dids, entries, req, wallet, minted, faults>>

\* removeDidFromStudent: the did row stays, without a student.
DetachDid(c) ==
    /\ "detach" \in AdminOps
    /\ dids[c] = "owned"
    /\ dids' = [dids EXCEPT ![c] = "bare"]
    /\ UNCHANGED <<offers, sessions, vcs, entries, req, wallet, minted, faults>>

\* PATCH :id/status with ISSUED.  Such a slot has no session.
Approve(r, v) ==
    /\ "approve" \in AdminOps
    /\ LiveVc(v)
    /\ entries[v] < MaxEntries
    /\ Start(r, [Idle EXCEPT !.pc = "issueRead", !.v = v])
    /\ UNCHANGED <<tables, wallet, minted, faults>>

\* PATCH :id/status with any other status is one unconditional update.
SetStatus(v, op, status) ==
    /\ op \in AdminOps
    /\ LiveVc(v)
    /\ vcs' = Marked(v, status)
    /\ UNCHANGED <<offers, sessions, dids, entries, req, wallet, minted, faults>>

\* Mutants of Reject and Reopen: the body's status is not validated, and
\* ISSUED is not told apart from the statuses that are a plain update.
RejectUnvalidated(v) == SetStatus(v, "reject", "revoked")
ReopenAsIssued(v) == SetStatus(v, "reopen", "issued")

Reject(v) == SetStatus(v, "reject", "rejected")
Reopen(v) == SetStatus(v, "reopen", "pending")

-----------------------------------------------------------------------------
(***************************************************************************)
(* authorize                                                               *)
(***************************************************************************)

\* Mutant of AuthorizeOffer: any client may redeem the offer.
AuthorizeOfferAnyClient(r, c, o) ==
    /\ LiveOffer(o)
    /\ offers[o].grant = "auth"
    /\ SpareSession
    /\ Start(r, [Idle EXCEPT !.pc = "insertState",
                   !.row = NewRow(c, "openid", o, offers[o].kind, "authorize")])
    /\ UNCHANGED <<tables, wallet, minted, faults>>

\* scope "openid" with an issuer_state: the offer is found by it, and the
\* client has to be the one the offer was made to.
AuthorizeOffer(r, c, o) ==
    /\ LiveOffer(o)
    /\ offers[o].grant = "auth"
    /\ offers[o].client = c
    /\ SpareSession
    /\ Start(r, [Idle EXCEPT !.pc = "insertState",
                   !.row = NewRow(c, "openid", o, offers[o].kind, "authorize")])
    /\ UNCHANGED <<tables, wallet, minted, faults>>

\* scope "openid" alone: no offer, and nothing in the payload names a type.
AuthorizeOpenid(r, c) ==
    /\ SpareSession
    /\ Start(r, [Idle EXCEPT !.pc = "insertState",
                   !.row = NewRow(c, "openid", None, "unmapped", "authorize")])
    /\ UNCHANGED <<tables, wallet, minted, faults>>

\* A presentation scope: the mapped schema gets an offer of its own.
AuthorizeScope(r, c) ==
    /\ VpKind # "unmapped"
    /\ SpareOffer /\ SpareSession
    /\ Start(r, [Idle EXCEPT !.pc = "scopeOffer",
                   !.row = NewRow(c, "vp", None, VpKind, "authorize")])
    /\ UNCHANGED <<tables, wallet, minted, faults>>

InsertScopeOffer(r, o) ==
    /\ Busy(r, "scopeOffer")
    /\ offers[o].live = "unborn"
    /\ offers' = [offers EXCEPT ![o] = [live |-> "live", grant |-> "auth",
                                        kind |-> req[r].row.kind, client |-> None]]
    /\ req' = [req EXCEPT ![r].pc = "insertState", ![r].row.offer = o]
    /\ UNCHANGED <<sessions, vcs, dids, entries, wallet, minted, faults>>

\* The insert fails on the foreign key when the offer was deleted meanwhile.
\* A wallet is redirected with the state; an administrator's offer is done.
InsertState(r, s) ==
    LET row == req[r].row IN
    /\ Busy(r, "insertState")
    /\ sessions[s].live = "unborn"
    /\ OfferHolds(row.offer)
    /\ sessions' = [sessions EXCEPT ![s] = row]
    /\ IF row.scope = "none" THEN End(r) ELSE Answer(r, Msg("state", s, 0, None))
    /\ UNCHANGED <<offers, vcs, dids, entries, wallet, minted, faults>>

InsertStateFails(r) ==
    /\ Busy(r, "insertState")
    /\ ~OfferHolds(req[r].row.offer)
    /\ End(r)
    /\ UNCHANGED <<tables, wallet, minted, faults>>

-----------------------------------------------------------------------------
(***************************************************************************)
(* directPost and token.  Each looks the row up by a value the wallet      *)
(* presents, makes a random string, reads the row again by id, and saves   *)
(* it.  getByField ignores the step and the status it is given, so a row   *)
(* can be taken back to an earlier step.                                   *)
(***************************************************************************)
Mint(r, s, pc) ==
    /\ minted[s] < MaxMinted
    /\ minted' = [minted EXCEPT ![s] = @ + 1]
    /\ Start(r, [Idle EXCEPT !.pc = pc, !.s = s, !.n = minted[s] + 1])
    /\ UNCHANGED <<tables, wallet, faults>>

\* An ID token or a presentation for this state verified.
DirectPost(r, s) ==
    /\ Msg("state", s, 0, None) \in wallet
    /\ LiveSession(s)
    /\ Mint(r, s, "postRead")

\* createAuthResponseNonce finds no row: its result is ignored and the code
\* is answered all the same.
PostRead(r) ==
    LET s == req[r].s IN
    /\ Busy(r, "postRead")
    /\ IF LiveSession(s)
       THEN req' = [req EXCEPT ![r].pc = "postSave",
                       ![r].row = [sessions[s] EXCEPT !.step = "authResponse",
                                      !.status = "unclaimed", !.code = req[r].n]]
       ELSE Answer(r, Msg("code", s, req[r].n, None))
    /\ UNCHANGED <<tables, wallet, minted, faults>>

PostSave(r) ==
    LET s == req[r].s IN
    /\ Busy(r, "postSave")
    /\ sessions' = Saved(s, req[r].row)
    /\ Answer(r, Msg("code", s, req[r].n, None))
    /\ UNCHANGED <<offers, vcs, dids, entries, wallet, minted, faults>>

\* handleStandardTokenRequest: the code and its challenge are right.
StandardToken(r, s) ==
    /\ LiveSession(s)
    /\ Msg("code", s, sessions[s].code, None) \in wallet
    /\ Mint(r, s, "tokenRead")

\* handlePreAuthorizedCode: the row is found by pre-authorised code and pin,
\* which the holder has from the offer; nothing records that it was used.
PreAuthToken(r, s) ==
    /\ LiveSession(s)
    /\ sessions[s].scope = "none"
    /\ Mint(r, s, "tokenRead")

\* The conformance suite's code and pin name no offer: the rows they left
\* before are deleted and a new one is made, looked up, and used.  Two such
\* requests at once delete, miss or find each other's row.
MockRows(k) == {s \in Sessions : LiveSession(s) /\ sessions[s].scope = "mock"
                                   /\ sessions[s].kind = k}

MockToken(r, k) ==
    /\ MockClient # None
    /\ SpareSession
    /\ sessions' = [s \in Sessions |->
                      IF s \in MockRows(k) THEN [sessions[s] EXCEPT !.live = "gone"]
                      ELSE sessions[s]]
    /\ Start(r, [Idle EXCEPT !.pc = "mockCheck",
                    !.row = NewRow(MockClient, "mock", None, k, "tokenRequest")])
    /\ UNCHANGED <<offers, vcs, dids, entries, wallet, minted, faults>>

MockCheck(r) ==
    /\ Busy(r, "mockCheck")
    /\ IF MockRows(req[r].row.kind) = {} THEN Goto(r, "mockInsert") ELSE End(r)
    /\ UNCHANGED <<tables, wallet, minted, faults>>

MockInsert(r, s) ==
    /\ Busy(r, "mockInsert")
    /\ sessions[s].live = "unborn"
    /\ sessions' = [sessions EXCEPT ![s] = req[r].row]
    /\ Goto(r, "mockFind")
    /\ UNCHANGED <<offers, vcs, dids, entries, wallet, minted, faults>>

MockFind(r, s) ==
    /\ Busy(r, "mockFind")
    /\ s \in MockRows(req[r].row.kind)
    /\ minted' = [minted EXCEPT ![s] = @ + 1]
    /\ req' = [req EXCEPT ![r] = [Idle EXCEPT !.pc = "tokenRead", !.s = s,
                                              !.n = minted[s] + 1]]
    /\ UNCHANGED <<tables, wallet, faults>>

MockMissing(r) ==
    /\ Busy(r, "mockFind")
    /\ MockRows(req[r].row.kind) = {}
    /\ End(r)
    /\ UNCHANGED <<tables, wallet, minted, faults>>

\* Mutant of TokenRead: the offer counts as claimed once it was redeemed.
TokenReadClaims(r) ==
    LET s == req[r].s IN
    /\ Busy(r, "tokenRead")
    /\ LiveSession(s)
    /\ req' = [req EXCEPT ![r].pc = "tokenSave",
                  ![r].row = [sessions[s] EXCEPT !.step = "tokenRequest",
                                 !.status = "claimed", !.nonce = req[r].n]]
    /\ UNCHANGED <<tables, wallet, minted, faults>>

TokenRead(r) ==
    LET s == req[r].s IN
    /\ Busy(r, "tokenRead")
    /\ IF LiveSession(s)
       THEN req' = [req EXCEPT ![r].pc = "tokenSave",
                       ![r].row = [sessions[s] EXCEPT !.step = "tokenRequest",
                                      !.status = "unclaimed", !.nonce = req[r].n]]
       ELSE Answer(r, Msg("nonce", s, req[r].n, None))
    /\ UNCHANGED <<tables, wallet, minted, faults>>

TokenSave(r) ==
    LET s == req[r].s IN
    /\ Busy(r, "tokenSave")
    /\ sessions' = Saved(s, req[r].row)
    /\ Answer(r, Msg("nonce", s, req[r].n, None))
    /\ UNCHANGED <<offers, vcs, dids, entries, wallet, minted, faults>>

-----------------------------------------------------------------------------
(***************************************************************************)
(* credentail                                                              *)
(***************************************************************************)

\* Types come from the payload, else from the schema mapped to the scope; a
\* scope without a mapping is an error before anything is written.
KindOf(row) ==
    IF row.kind # "unmapped" THEN row.kind
    ELSE IF row.scope = "openid" THEN OpenidKind ELSE "unmapped"

\* The row is found by the c_nonce, whatever its step and status are now, and
\* its client has to be the issuer of the proof.
CanRequest(s) ==
    /\ LiveSession(s)
    /\ Msg("nonce", s, sessions[s].nonce, None) \in wallet
    /\ KindOf(sessions[s]) # "unmapped"

Credential(r, s) ==
    LET row == sessions[s] IN
    /\ CanRequest(s)
    /\ SpareVc
    /\ Start(r, [Idle EXCEPT !.pc = "findDid", !.s = s,
                             !.row = [row EXCEPT !.kind = KindOf(row)]])
    /\ UNCHANGED <<tables, wallet, minted, faults>>

\* createVerifiableCredentialRecord: find or create the did row, whose
\* identifier is unique, then a student that owns it, then the credential.
FindDid(r) ==
    /\ Busy(r, "findDid")
    /\ Goto(r, IF dids[req[r].row.client] = "none" THEN "insertDid" ELSE "ensureStudent")
    /\ UNCHANGED <<tables, wallet, minted, faults>>

InsertDid(r) ==
    LET c == req[r].row.client IN
    /\ Busy(r, "insertDid")
    /\ dids' = [dids EXCEPT ![c] = IF @ = "none" THEN "bare" ELSE @]
    /\ IF dids[c] = "none" THEN Goto(r, "ensureStudent") ELSE End(r)
    /\ UNCHANGED <<offers, sessions, vcs, entries, wallet, minted, faults>>

EnsureStudent(r) ==
    /\ Busy(r, "ensureStudent")
    /\ dids' = [dids EXCEPT ![req[r].row.client] = "owned"]
    /\ Goto(r, "insertVc")
    /\ UNCHANGED <<offers, sessions, vcs, entries, wallet, minted, faults>>

\* Mutant of Insertable: the relation to the offer is many to one.
InsertableTwice(ref) == OfferHolds(ref)

\* The foreign key to the offer, and the unique constraint on offerId.
Insertable(ref) ==
    /\ OfferHolds(ref)
    /\ \A w \in Vcs : LiveVc(w) /\ vcs[w].offer = ref => ref = None

\* createCredentialResponse answers at once unless the flow is deferred.
AtOnce(row) ==
    \/ row.offer # None /\ offers[row.offer].grant = "pre"
    \/ row.scope # "openid"

\* Mutant of Branch: a credential from a template is taken for a test one.
BranchAnyKind(row) == IF row.kind = "itDeferred" THEN "itDeferMark" ELSE "confRead"

\* Which response the handler builds for the new credential.
Branch(row) ==
    CASE row.kind = "plain"      -> IF AtOnce(row) THEN "issueRead" ELSE "deferRead"
      [] row.kind = "itDeferred" -> "itDeferMark"
      [] OTHER                   -> "confRead"

InsertVc(r, v) ==
    LET row == req[r].row IN
    /\ Busy(r, "insertVc")
    /\ vcs[v].status = "unborn"
    /\ Insertable(row.offer)
    /\ vcs' = [vcs EXCEPT ![v] = [status |-> "pending", client |-> row.client,
                                  offer |-> row.offer, kind |-> row.kind]]
    /\ req' = [req EXCEPT ![r].pc = Branch(row), ![r].v = v]
    /\ UNCHANGED <<offers, sessions, dids, entries, wallet, minted, faults>>

InsertVcFails(r) ==
    /\ Busy(r, "insertVc")
    /\ ~Insertable(req[r].row.offer)
    /\ End(r)
    /\ UNCHANGED <<tables, wallet, minted, faults>>

\* Mutant of IssueRead: issue without a status list entry.
IssueReadNoEntry(r) ==
    /\ Busy(r, "issueRead")
    /\ IF vcs[req[r].v].status \in {"pending", "rejected"}
       THEN Goto(r, "markIssued") ELSE End(r)
    /\ UNCHANGED <<tables, wallet, minted, faults>>

\* issueVerifiableCredential, for the holder's request and for Approve.  The
\* row must exist, have a student, not be issued, and have the offer data.
IssueRead(r) ==
    LET vc == vcs[req[r].v] IN
    /\ Busy(r, "issueRead")
    /\ IF vc.status \in {"pending", "rejected"} /\ dids[vc.client] = "owned"
          /\ vc.offer # None
       THEN Goto(r, "addEntry") ELSE End(r)
    /\ UNCHANGED <<tables, wallet, minted, faults>>

\* getOrCreateStatusList and addCredential: CredentialStatus has the detail.
AddEntry(r) ==
    /\ Busy(r, "addEntry")
    /\ entries' = [entries EXCEPT ![req[r].v] = @ + 1]
    /\ Goto(r, "markIssued")
    /\ UNCHANGED <<offers, sessions, vcs, dids, wallet, minted, faults>>

\* updateVerifiableCredential; the administrator's request is over.
MarkIssued(r) ==
    /\ Busy(r, "markIssued")
    /\ vcs' = Marked(req[r].v, "issued")
    /\ IF req[r].s = None THEN End(r) ELSE Goto(r, "markAgain")
    /\ UNCHANGED <<offers, sessions, dids, entries, wallet, minted, faults>>

\* createCredentialResponse updates the credential a second time.
MarkAgain(r) ==
    /\ Busy(r, "markAgain")
    /\ vcs' = Marked(req[r].v, "issued")
    /\ Goto(r, "claimRead")
    /\ UNCHANGED <<offers, sessions, dids, entries, wallet, minted, faults>>

\* updateStatus(id, CLAIMED); a missing row is ignored.
ClaimRead(r) ==
    LET s == req[r].s IN
    /\ Busy(r, "claimRead")
    /\ IF LiveSession(s)
       THEN req' = [req EXCEPT ![r].pc = "claimSave",
                               ![r].row = [sessions[s] EXCEPT !.status = "claimed"]]
       ELSE Answer(r, Msg("inTime", None, 0, req[r].v))
    /\ UNCHANGED <<tables, wallet, minted, faults>>

ClaimSave(r) ==
    /\ Busy(r, "claimSave")
    /\ sessions' = Saved(req[r].s, req[r].row)
    /\ Answer(r, Msg("inTime", None, 0, req[r].v))
    /\ UNCHANGED <<offers, vcs, dids, entries, wallet, minted, faults>>

\* createDeferredResoponse, and the acceptance token for the credential.
DeferRead(r) ==
    LET s == req[r].s IN
    /\ Busy(r, "deferRead")
    /\ IF LiveSession(s)
       THEN req' = [req EXCEPT ![r].pc = "deferSave",
                       ![r].row = [sessions[s] EXCEPT !.step = "deferredRequest",
                                                      !.status = "unclaimed"]]
       ELSE Answer(r, Msg("token", None, 0, req[r].v))
    /\ UNCHANGED <<tables, wallet, minted, faults>>

DeferSave(r) ==
    /\ Busy(r, "deferSave")
    /\ sessions' = Saved(req[r].s, req[r].row)
    /\ Answer(r, Msg("token", None, 0, req[r].v))
    /\ UNCHANGED <<offers, vcs, dids, entries, wallet, minted, faults>>

\* CONFORMANCE_issueVerifiableCredential: no offer data, no student and no
\* status list entry are needed.
ConfRead(r) ==
    /\ Busy(r, "confRead")
    /\ IF LiveVc(req[r].v) THEN Goto(r, "confMark") ELSE End(r)
    /\ UNCHANGED <<tables, wallet, minted, faults>>

\* An interop request without an offer fails after it issued, where the claim
\* is looked up; the claim itself is changed in memory only.
ConfMark(r) ==
    LET row == req[r].row  v == req[r].v IN
    /\ Busy(r, "confMark")
    /\ vcs' = Marked(v, "issued")
    /\ CASE row.kind = "ctDeferred" -> Answer(r, Msg("token", None, 0, v))
         [] row.kind = "itInTime" /\ row.offer = None -> End(r)
         [] OTHER -> Answer(r, Msg("inTime", None, 0, v))
    /\ UNCHANGED <<offers, sessions, dids, entries, wallet, minted, faults>>

\* The deferred interop credential is marked as issued without being issued.
ItDeferMark(r) ==
    /\ Busy(r, "itDeferMark")
    /\ vcs' = Marked(req[r].v, "issued")
    /\ Answer(r, Msg("token", None, 0, req[r].v))
    /\ UNCHANGED <<offers, sessions, dids, entries, wallet, minted, faults>>

-----------------------------------------------------------------------------
(***************************************************************************)
(* credentilDeferred.  A pending or missing credential is answered without *)
(* a change; conformance credentials come from the row, any other is       *)
(* generated again from the offer data.                                    *)
(***************************************************************************)
Poll(r, v, t) ==
    /\ Msg("token", None, 0, v) \in wallet
    /\ Start(r, [Idle EXCEPT !.pc = "reply", !.msg = Msg(t, None, 0, v)])
    /\ UNCHANGED <<tables, wallet, minted, faults>>

\* Mutants of PollIssued and PollRejected: the status is not looked at, and a
\* rejected credential is answered like a pending one.
PollUnchecked(r, v) ==
    /\ vcs[v].offer # None
    /\ Poll(r, v, "deferred")

PollKeepsSilent(r, v) == vcs[v].status = "rejected" /\ Poll(r, v, "token")

PollIssued(r, v) ==
    /\ vcs[v].status = "issued"
    /\ vcs[v].kind \in {"ctInTime", "ctDeferred"} \/ vcs[v].offer # None
    /\ Poll(r, v, "deferred")

PollRejected(r, v) == vcs[v].status = "rejected" /\ Poll(r, v, "denied")

-----------------------------------------------------------------------------
Init ==
    /\ offers = [o \in Offers |-> NoOffer]
    /\ sessions = [s \in Sessions |-> NoRow]
    /\ vcs = [v \in Vcs |-> NoVc]
    /\ dids = [c \in Clients |-> "none"]
    /\ entries = [v \in Vcs |-> 0]
    /\ req = [r \in Slots |-> Idle]
    /\ wallet = {}
    /\ minted = [s \in Sessions |-> 0]
    /\ faults = 0

AdminNext ==
    \/ \E r \in Slots, o \in Offers, f \in OfferForms, c \in Clients :
          CreateOffer(r, o, f, c)
    \/ \E r \in Slots, v \in Vcs : Approve(r, v)
    \/ \E v \in Vcs : Reject(v) \/ Reopen(v)
    \/ \E o \in Offers : DeleteOffer(o)
    \/ \E c \in Clients : DetachDid(c)

WalletNext ==
    \/ \E r \in Slots, c \in Clients :
          AuthorizeOpenid(r, c) \/ AuthorizeScope(r, c)
    \/ \E r \in Slots, c \in Clients, o \in Offers : AuthorizeOffer(r, c, o)
    \/ \E r \in Slots, s \in Sessions :
          \/ DirectPost(r, s) \/ StandardToken(r, s) \/ PreAuthToken(r, s)
          \/ Credential(r, s)
    \/ \E r \in Slots, k \in {"ctInTime", "ctDeferred"} : MockToken(r, k)
    \/ \E r \in Slots, v \in Vcs : PollIssued(r, v) \/ PollRejected(r, v)

\* What a handler does next once it has started.
Step(r) ==
    \/ \E o \in Offers : InsertScopeOffer(r, o)
    \/ \E s \in Sessions : InsertState(r, s) \/ MockInsert(r, s) \/ MockFind(r, s)
    \/ InsertStateFails(r) \/ MockCheck(r) \/ MockMissing(r)
    \/ PostRead(r) \/ PostSave(r) \/ TokenRead(r) \/ TokenSave(r)
    \/ FindDid(r) \/ InsertDid(r) \/ EnsureStudent(r)
    \/ \E v \in Vcs : InsertVc(r, v)
    \/ InsertVcFails(r)
    \/ IssueRead(r) \/ AddEntry(r) \/ MarkIssued(r) \/ MarkAgain(r)
    \/ ClaimRead(r) \/ ClaimSave(r) \/ DeferRead(r) \/ DeferSave(r)
    \/ ConfRead(r) \/ ConfMark(r) \/ ItDeferMark(r)
    \/ Reply(r)

Next == AdminNext \/ WalletNext \/ \E r \in Slots : Step(r) \/ Fail(r)

Spec == Init /\ [][Next]_vars

\* A handler that has started goes on: node resumes it after every await.  The
\* people in the user flow go on too: an administrator decides about a pending
\* credential, and a wallet uses its nonce and asks again with its token.  The
\* server takes any number of requests, the model only as many as it has
\* slots, so their requests are strongly fair.
Decide(v) ==
    /\ vcs[v].status = "pending"
    /\ Reject(v) \/ \E r \in Slots : Approve(r, v)

FairSpec ==
    /\ Spec
    /\ \A r \in Slots : WF_vars(Step(r))
    /\ \A s \in Sessions : SF_vars(\E r \in Slots : Credential(r, s))
    /\ \A v \in Vcs :
          /\ SF_vars(Decide(v))
          /\ SF_vars(\E r \in Slots : PollIssued(r, v) \/ PollRejected(r, v))

-----------------------------------------------------------------------------
(***************************************************************************)
(* Properties.                                                             *)
(***************************************************************************)

\* Every variable holds what its table, slot or channel can hold.
TypeOK ==
    /\ offers \in [Offers -> OfferRow]
    /\ sessions \in [Sessions -> Row]
    /\ vcs \in [Vcs -> VcRow]
    /\ dids \in [Clients -> {"none", "bare", "owned"}]
    /\ entries \in [Vcs -> Nat]
    /\ req \in [Slots -> Slot]
    /\ wallet \subseteq Message
    /\ minted \in [Sessions -> Nat]
    /\ faults \in Nat

Deliveries == {m \in wallet : m.type \in {"inTime", "deferred"}}

\* A credential issued from a schema template can be revoked: whichever
\* handlers issued it, marked it again, rejected or reopened it meanwhile, the
\* credential is never "issued" without a status list entry
\* (issueVerifiableCredential, createCredentialResponse, updateStatus).
IssuedHasStatusEntry ==
    \A v \in Vcs :
        vcs[v].status = "issued" /\ vcs[v].kind = "plain" => entries[v] > 0

\* The same of what a wallet holds, in the in-time answer of credentail as in
\* the deferred one of credentilDeferred: it has a status list entry, even
\* when the row was deleted or reopened after it was read.
DeliveredHasStatusEntry ==
    \A m \in Deliveries : vcs[m.v].kind = "plain" => entries[m.v] > 0

\* A template credential is issued for an offer that still exists.  A session
\* row that a late save brought back after deleteOffer has lost its offer, so
\* no handler may get from it to an issued credential.
IssuedBackedByOffer ==
    \A v \in Vcs :
        vcs[v].status = "issued" /\ vcs[v].kind = "plain"
            => vcs[v].offer # None /\ LiveOffer(vcs[v].offer)

\* However often codes, nonces and credential requests of one offer are
\* repeated, in one session or several at once, wallets receive one
\* credential for it (createVerifiableCredentialRecord, REL on offerId).
OneCredentialPerOffer ==
    \A m1, m2 \in Deliveries :
        vcs[m1.v].offer = vcs[m2.v].offer /\ vcs[m1.v].offer # None => m1.v = m2.v

\* A credential for an offer made to a holder is about that holder, through
\* issuer state, session row and credential record.
SubjectIsOfferee ==
    \A m \in Deliveries :
        LET o == vcs[m.v].offer IN
        o # None /\ offers[o].client # None => vcs[m.v].client = offers[o].client

\* A session that is marked CLAIMED and still has its offer was served: a
\* credential record for that offer got its status list entry.  Saves of
\* stale rows by token and direct_post may clear the mark, never set it.
ClaimedWasIssued ==
    \A s \in Sessions :
        LiveSession(s) /\ sessions[s].status = "claimed" /\ sessions[s].offer # None
            => \E v \in Vcs : vcs[v].offer = sessions[s].offer /\ vcs[v].status # "unborn"
                                 /\ (vcs[v].kind = "plain" => entries[v] > 0)

\* A credential record deleted with its offer does not come back, although
\* handlers and administrators that read it before still write to it.
DeletedStaysDeleted ==
    [][\A v \in Vcs : vcs[v].status = "gone" => vcs'[v].status = "gone"]_vars

\* The user flow of the README: a holder who is always able again to request a
\* credential, because the nonce in the wallet is the one in the session row,
\* in the end receives it or is told that it was denied.
HolderIsServed ==
    \A c \in Clients :
        []<>(\E s \in Sessions : sessions[s].client = c /\ CanRequest(s))
        => <>(\E m \in wallet : /\ m.type \in {"inTime", "deferred", "denied"}
                                /\ vcs[m.v].client = c)
=============================================================================
