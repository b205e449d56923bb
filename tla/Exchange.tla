------------------------------ MODULE Exchange -------------------------------
(***************************************************************************)
(* The conversation between wallets built with the composers of            *)
(* kredential-core and the endpoints of the backend, from the first        *)
(* request to the credential: what each message carries, which answer it   *)
(* is told apart by, and what is checked before it is served.              *)
(*                                                                         *)
(* Redirects reach the wallet through a browser: which attempt one is for  *)
(* can only be told from the state it carries.  Messages overtake each     *)
(* other, one that is never taken is lost, and one may be taken twice.     *)
(* Handlers are whole here but for the request for a credential, which two *)
(* attempts can be in at once; Issuance takes them apart.                  *)
(***************************************************************************)
EXTENDS Naturals, FiniteSets

CONSTANTS
    Attempts,     \* attempts of wallets to get a credential
    HolderOf,     \* the did an attempt is made with
    Plans,        \* what the wallets may set in their composers
    Conformance,  \* EBSI_NETWORK is the conformance network
    OpenidMapped, \* a type is mapped to the scope openid
    States,       \* serverDefinedState of state rows
    Creds,        \* ids of credential records
    Offers,       \* offers that administrators made, each for one did
    Workers,      \* bound: requests for a credential under way at once
    MaxAgain,     \* bound: messages taken twice
    Nobody

Scopes == {"openid", "presentation", "unmapped", "vpTest", "idTest"}

\* redirect: a redirect_uri that is not empty; challenge: the method named;
\* offer: the one its issuer_state is of.
Plan == [how : {"holder", "service", "uri", "pre"}, did : BOOLEAN, state : BOOLEAN,
         redirect : BOOLEAN, scope : Scopes, challenge : {"s256", "other"},
         types : {"supported", "unsupported", "none"}, vpType : BOOLEAN,
         offer : Offers \cup {Nobody}, pin : BOOLEAN]

Holders == {HolderOf[a] : a \in Attempts}

ASSUME ExchangeAssumption ==
    /\ Plans \subseteq [Attempts -> Plan]
    /\ Conformance \in BOOLEAN /\ OpenidMapped \in BOOLEAN
    /\ MaxAgain \in Nat /\ Workers \subseteq Nat
    /\ Nobody \notin Attempts \cup States \cup Creds \cup Offers
    /\ Offers \cap States = {}

\* The issuer_state names the did that the offer is for, and authorize refuses
\* every other client.
ASSUME OffersAreForOne ==
    \A p \in Plans : \A a, b \in Attempts :
        p[a].offer # Nobody /\ p[a].offer = p[b].offer => HolderOf[a] = HolderOf[b]

VARIABLES
    plan,    \* what the wallet set for an attempt
    wallet,  \* the wallet's side of an attempt
    row,     \* state rows by serverDefinedState
    cred,    \* credential records: whose row asked, their offer and their status
    wire,    \* messages on their way, and requests for a credential under way
    maker,   \* the attempt whose request made the did row of a holder
    found,   \* attempts whose request found a did row
    again,   \* messages taken twice so far
    clean    \* attempts none of whose messages was taken twice or came late

didVars      == <<maker, found>>
exchangeVars == <<plan, wallet, row, cred, wire, didVars, again, clean>>

-----------------------------------------------------------------------------
NoRow   == [live |-> FALSE, by |-> Nobody, told |-> Nobody, challenge |-> Nobody,
            pre |-> FALSE, offer |-> Nobody, code |-> 0, nonce |-> 0, claimed |-> FALSE]
NoCred  == [s |-> Nobody, offer |-> Nobody, status |-> "none"]
Waiting == [phase |-> "new", s |-> Nobody, code |-> 0, nonce |-> 0, v |-> Nobody]

\* a: who sent it or gets the answer, or the attempt its state stands for.
Message(kind, a, s, n) == [kind |-> kind, a |-> a, s |-> s, n |-> n]
No(a) == Message("no", a, Nobody, 0)

Ended == {"refused", "failed", "denied", "done"}

-----------------------------------------------------------------------------
(***************************************************************************)
(* What the composers make of a plan.                                      *)
(***************************************************************************)
\* A service gives neither state nor challenge.
GivesState(p)     == p.how = "holder" /\ p.state
GivesChallenge(p) == p.how = "holder"

Tests == {"vpTest", "idTest"}
\* With a request_uri no other parameter but the client is sent.
Complete(p) == p.how # "uri" /\ p.did

\* verifyAuthorizeRequest: for the scope openid only.
Verified(p) ==
    /\ p.redirect
    /\ GivesChallenge(p) => p.challenge = "s256"
    /\ p.types = "supported"

Admitted(p) ==
    /\ Complete(p)
    /\ p.scope \in Tests => Conformance
    /\ p.scope # "unmapped"
    /\ p.scope = "openid" => Verified(p)

-----------------------------------------------------------------------------
(***************************************************************************)
(* Messages.                                                               *)
(***************************************************************************)
Of(m) == IF m.a = Nobody /\ m.s # Nobody THEN row[m.s].by ELSE m.a

\* A message, or a request under way, gives way to what comes of it.
Becomes(m, more) == wire' = (wire \ {m}) \cup more /\ UNCHANGED <<again, clean>>

\* A message is taken, and may come again.
Taken(m, more) ==
    \/ Becomes(m, more)
    \/ /\ again < MaxAgain /\ again' = again + 1
       /\ clean' = clean \ {Of(m)}
       /\ wire' = wire \cup more

Refuse(m) == Taken(m, {No(Of(m))}) /\ UNCHANGED <<plan, wallet, row, cred, didVars>>

\* What carries a token that verifyJwt refuses once it has expired.
Lapsing == {"idPost", "vpPost", "poll"}

\* Expired on the way, or a did that cannot be resolved just now.
Late(m) ==
    /\ m.kind \in Lapsing
    /\ wire' = (wire \ {m}) \cup {No(Of(m))}
    /\ clean' = clean \ {Of(m)}
    /\ UNCHANGED <<plan, wallet, row, cred, didVars, again>>

-----------------------------------------------------------------------------
(***************************************************************************)
(* The backend.                                                            *)
(***************************************************************************)
\* A new row's random serverDefinedState: which one makes no difference.
Unused == {s \in States : ~row[s].live}
NewRow == CHOOSE s \in Unused : TRUE

\* IdTokenRequestComposer and prepareVPTokenRequest: the row's own state, and
\* nothing that the wallet gave.
IdRequest(s) == Message("idRequest", Nobody, s, 0)
VpRequest(s) == Message("vpRequest", Nobody, s, 0)

\* handleAuthorizationRequest: a presentation is asked for, or an ID token.
AskedFor(p, s) == IF p.scope \in {"openid", "idTest"} THEN IdRequest(s) ELSE VpRequest(s)

\* createAuthState: the wallet's state, or a random one that it never sees.  A
\* presentation gets an offer of its own, named by its row.
AuthState(a, s) ==
    [NoRow EXCEPT !.live = TRUE, !.by = a,
                  !.told = IF GivesState(plan[a]) THEN a ELSE Nobody,
                  !.challenge = IF GivesChallenge(plan[a]) THEN a ELSE Nobody,
                  !.offer = CASE plan[a].scope = "openid" -> plan[a].offer
                              [] plan[a].scope = "presentation" -> s
                              [] OTHER -> Nobody]

\* authorize.  That a presentation test must ask for one is seen too late: the
\* row is there.
Authorize(m) ==
    LET p == plan[m.a]
    IN  /\ m.kind = "authorize"
        /\ IF ~Admitted(p) THEN Refuse(m)
           ELSE /\ Unused # {}
                /\ row' = [row EXCEPT ![NewRow] = AuthState(m.a, NewRow)]
                /\ Taken(m, IF p.scope = "vpTest" /\ ~p.vpType THEN {No(m.a)}
                            ELSE {AskedFor(p, NewRow)})
                /\ UNCHANGED <<plan, wallet, cred, didVars>>

\* createAuthResponseNonce and the redirect with the code and the state that
\* the wallet gave.
Coded(m, s) ==
    /\ row' = [row EXCEPT ![s].code = @ + 1]
    /\ Taken(m, IF plan[row[s].by].redirect
                THEN {Message("code", row[s].told, s, row'[s].code)}
                ELSE {No(row[s].by)})
    /\ UNCHANGED <<plan, wallet, cred, didVars>>

\* Mutant of PostId: the row is found by the did that signed.
PostIdByDid(m) ==
    /\ m.kind = "idPost"
    /\ \E s \in States :
         /\ row[s].live /\ HolderOf[row[s].by] = HolderOf[row[m.s].by]
         /\ Coded(m, s)

\* handleIdTokenResponse: the row is found by the state alone.  Without a
\* redirect_uri the code is made and told to nobody.
PostId(m) == m.kind = "idPost" /\ Coded(m, m.s)

\* verifyVP: a presentation that does not satisfy the definition, or holds a
\* credential that is revoked or out of date, is answered with an error.
Denied(m) ==
    /\ Taken(m, {Message("error", row[m.s].told, m.s, 0)})
    /\ UNCHANGED <<plan, wallet, row, cred, didVars>>

\* handleVpTokenResponse: without a redirect_uri nothing is made.
PostVp(m) ==
    /\ m.kind = "vpPost"
    /\ IF ~plan[row[m.s].by].redirect THEN Refuse(m) ELSE Coded(m, m.s) \/ Denied(m)

\* createTokenRequestCNonce: an older nonce is overwritten.
Tokened(m, s) ==
    /\ row' = [row EXCEPT ![s].nonce = @ + 1]
    /\ Taken(m, {Message("nonce", m.a, s, row'[s].nonce)})
    /\ UNCHANGED <<plan, wallet, cred, didVars>>

\* validateCodeChallenge: a's verifier is hashed.
Verifies(a, s) == row[s].challenge = a

\* Mutant of Token: a challenge is checked only if one was given.
TokenUnchallenged(m) ==
    /\ m.kind = "token"
    /\ IF row[m.s].code = m.n /\ row[m.s].challenge \in {m.a, Nobody}
       THEN Tokened(m, m.s) ELSE Refuse(m)

\* handleStandardTokenRequest: the newest code of a row, and the verifier of
\* its challenge.
Token(m) ==
    /\ m.kind = "token"
    /\ IF row[m.s].code = m.n /\ Verifies(m.a, m.s)
       THEN Tokened(m, m.s) ELSE Refuse(m)

\* validatePreAuthorisedAndPinCode: nothing marks a code as used.
PinRight(m) == plan[m.a].pin

\* handlePreAuthorizedCode: the row was made with the offer.
PreToken(m) ==
    /\ m.kind = "preToken"
    /\ IF PinRight(m) THEN Tokened(m, m.s) ELSE Refuse(m)

\* What is issued: the offer's types, or those mapped to the scope.
TypesKnown(s) ==
    \/ row[s].offer # Nobody
    \/ plan[row[s].by].scope = "openid" /\ OpenidMapped

InTime(s) == row[s].pre \/ plan[row[s].by].scope # "openid"

\* decodeCredentialRequest: the row is found by the nonce of the proof, whose
\* issuer must be the row's client.
Proven(m) == row[m.s].nonce = m.n /\ HolderOf[m.a] = HolderOf[row[m.s].by]

\* A request under way, n being its worker.
UnderWay == {"adding", "recording", "issuing"}
FreeWorkers == {n \in Workers : \A m \in wire : m.kind \in UnderWay => m.n # n}

FailRequest(m) == Becomes(m, {No(m.a)}) /\ UNCHANGED <<plan, wallet, row, cred, didVars>>

\* credentail, up to findByDid.
Credential(m) ==
    /\ m.kind = "credential"
    /\ IF ~Proven(m) \/ ~TypesKnown(m.s) THEN Refuse(m)
       ELSE LET known == maker[HolderOf[m.a]] # Nobody
                n     == CHOOSE x \in FreeWorkers : TRUE
            IN  /\ FreeWorkers # {}
                /\ found' = IF known THEN found \cup {m.a} ELSE found
                /\ Taken(m, {Message(IF known THEN "recording" ELSE "adding", m.a, m.s, n)})
                /\ UNCHANGED <<plan, wallet, row, cred, maker>>

\* DidService.create: identifiers are unique.
AddDid(m) ==
    /\ m.kind = "adding"
    /\ LET h == HolderOf[m.a]
       IN  IF maker[h] # Nobody THEN FailRequest(m)
           ELSE /\ maker' = [maker EXCEPT ![h] = m.a]
                /\ Becomes(m, {Message("recording", m.a, m.s, m.n)})
                /\ UNCHANGED <<plan, wallet, row, cred, found>>

\* VcService.create: an offer has one record, and those without an offer are
\* apart.  A deferred response is a token to ask with.
Store(m) ==
    /\ m.kind = "recording"
    /\ LET offer == row[m.s].offer
           free  == {v \in Creds : cred[v] = NoCred}
           v     == CHOOSE x \in free : TRUE
       IN  IF offer # Nobody /\ \E x \in Creds : cred[x].offer = offer THEN FailRequest(m)
           ELSE /\ free # {}
                /\ cred' = [cred EXCEPT ![v] = [s |-> m.s, offer |-> offer, status |-> "pending"]]
                /\ Becomes(m, {IF InTime(m.s) THEN Message("issuing", m.a, v, m.n)
                               ELSE Message("deferred", m.a, v, 0)})
                /\ UNCHANGED <<plan, wallet, row, didVars>>

\* createCredentialResponse in time: a record that has been issued is refused.
Issue(m) ==
    /\ m.kind = "issuing"
    /\ IF cred[m.s].status = "issued" THEN FailRequest(m)
       ELSE /\ cred' = [cred EXCEPT ![m.s].status = "issued"]
            /\ row' = [row EXCEPT ![cred[m.s].s].claimed = TRUE]
            /\ Becomes(m, {Message("inTime", m.a, m.s, 0)})
            /\ UNCHANGED <<plan, wallet, didVars>>

\* credentilDeferred.
Deferred(m) ==
    /\ m.kind = "poll"
    /\ Taken(m, {Message(cred[m.s].status, m.a, m.s, 0)})
    /\ UNCHANGED <<plan, wallet, row, cred, didVars>>

Endpoint(m) ==
    \/ Authorize(m) \/ PostId(m) \/ PostVp(m) \/ Token(m) \/ PreToken(m)
    \/ Credential(m) \/ AddDid(m) \/ Store(m) \/ Issue(m) \/ Deferred(m) \/ Late(m)

\* The administrator, who decides about a record once; nothing can be issued
\* without an offer.
Rule(v, status) ==
    /\ cred[v].status = "pending"
    /\ status = "issued" => cred[v].offer # Nobody
    /\ cred' = [cred EXCEPT ![v].status = status]
    /\ UNCHANGED <<plan, wallet, row, wire, didVars, again, clean>>

-----------------------------------------------------------------------------
(***************************************************************************)
(* The wallet.                                                             *)
(***************************************************************************)
Got(a, m, next, more) ==
    /\ wallet' = [wallet EXCEPT ![a] = next]
    /\ Taken(m, more)
    /\ UNCHANGED <<plan, row, cred, didVars>>

\* The first message.  A pre-authorised code came with an offer, whose row was
\* made with it.
StartAttempt(a) ==
    /\ wallet[a].phase = "new"
    /\ wallet' = [wallet EXCEPT ![a].phase = "asked"]
    /\ IF plan[a].how = "pre"
       THEN /\ Unused # {}
            /\ row' = [row EXCEPT ![NewRow] =
                         [NoRow EXCEPT !.live = TRUE, !.by = a, !.pre = TRUE, !.offer = NewRow]]
            /\ wire' = wire \cup {Message("preToken", a, NewRow, 0)}
       ELSE wire' = wire \cup {Message("authorize", a, Nobody, 0)} /\ UNCHANGED row
    /\ UNCHANGED <<plan, cred, didVars, again, clean>>

\* A request for an ID token or a presentation is answered with the state it
\* came with, by the did it is for: it does not say for which attempt it is.
AnswerIdRequest(m) ==
    /\ m.kind = "idRequest"
    /\ Taken(m, {Message("idPost", Nobody, m.s, 0)})
    /\ UNCHANGED <<plan, wallet, row, cred, didVars>>

AnswerVpRequest(m) ==
    /\ m.kind = "vpRequest"
    /\ Taken(m, {Message("vpPost", Nobody, m.s, 0)})
    /\ UNCHANGED <<plan, wallet, row, cred, didVars>>

\* The attempt that a redirect is for: the one that gave its state, or some
\* attempt that gave none.
Meant(m, a) ==
    IF m.a # Nobody THEN a = m.a
    ELSE ~GivesState(plan[a]) /\ plan[a].how # "pre"

\* The token request is composed with the verifier of that attempt: without
\* one there is none.
TakeCode(m, a) ==
    /\ m.kind = "code" /\ Meant(m, a) /\ wallet[a].phase \in {"asked", "coded"}
    /\ IF GivesChallenge(plan[a])
       THEN Got(a, m, [wallet[a] EXCEPT !.phase = "coded", !.s = m.s, !.code = m.n],
                {Message("token", a, m.s, m.n)})
       ELSE Got(a, m, [wallet[a] EXCEPT !.phase = "failed"], {})

TakeError(m, a) ==
    /\ m.kind = "error" /\ Meant(m, a) /\ wallet[a].phase = "asked"
    /\ Got(a, m, [wallet[a] EXCEPT !.phase = "denied"], {})

\* The proof is made with the nonce that came, by the attempt's did.
TakeNonce(m) ==
    /\ m.kind = "nonce" /\ wallet[m.a].phase \notin Ended
    /\ Got(m.a, m, [wallet[m.a] EXCEPT !.phase = "proved", !.s = m.s, !.nonce = m.n],
           {Message("credential", m.a, m.s, m.n)})

TakeCredential(m) ==
    /\ m.kind \in {"inTime", "issued"} /\ wallet[m.a].phase \notin Ended
    /\ Got(m.a, m, [wallet[m.a] EXCEPT !.phase = "done", !.v = m.s], {})

\* With the acceptance token, until the credential is decided about.
TakeDeferred(m) ==
    /\ m.kind \in {"deferred", "pending"} /\ wallet[m.a].phase \notin Ended
    /\ Got(m.a, m, [wallet[m.a] EXCEPT !.v = m.s], {Message("poll", m.a, m.s, 0)})

TakeRejected(m) ==
    /\ m.kind = "rejected" /\ wallet[m.a].phase \notin Ended
    /\ Got(m.a, m, [wallet[m.a] EXCEPT !.phase = "denied"], {})

TakeNo(m) ==
    /\ m.kind = "no" /\ wallet[m.a].phase \notin Ended
    /\ Got(m.a, m, [wallet[m.a] EXCEPT !.phase = "refused"], {})

Take(m) ==
    \/ AnswerIdRequest(m) \/ AnswerVpRequest(m) \/ TakeNonce(m) \/ TakeCredential(m) \/ TakeDeferred(m)
    \/ TakeRejected(m) \/ TakeNo(m)
    \/ \E a \in Attempts : TakeCode(m, a) \/ TakeError(m, a)

-----------------------------------------------------------------------------
ExchangeInit ==
    /\ plan \in Plans
    /\ wallet = [a \in Attempts |-> Waiting]
    /\ row = [s \in States |-> NoRow]
    /\ cred = [v \in Creds |-> NoCred]
    /\ wire = {} /\ again = 0 /\ clean = Attempts
    /\ maker = [h \in Holders |-> Nobody] /\ found = {}

ExchangeNext ==
    \/ \E a \in Attempts : StartAttempt(a)
    \/ \E m \in wire : Endpoint(m) \/ Take(m)
    \/ \E v \in Creds : Rule(v, "issued") \/ Rule(v, "rejected")

ExchangeSpec == ExchangeInit /\ [][ExchangeNext]_exchangeVars

-----------------------------------------------------------------------------
\* A code that a wallet takes for an attempt is that attempt's, if it gave a
\* state, and every nonce and credential it gets is, whatever redirects of its
\* other attempts came in between, came twice or overtook each other.
HoldsItsOwn ==
    \A a \in Attempts :
        LET w == wallet[a]
        IN  /\ w.code # 0 /\ GivesState(plan[a]) => row[w.s].by = a
            /\ w.nonce # 0 => row[w.s].by = a
            /\ w.v # Nobody => row[cred[w.v].s].by = a

\* A wallet that sets what the endpoints ask for, and whose own messages come
\* once and in time, is never left without a message to wait for or a request
\* under way.  It is refused for three reasons only, all of them what others did
\* in the meantime: its request had found no did row and another attempt of the
\* holder made it; another attempt has the record of its offer; the
\* administrator issued its record before its request did.
Sensible(p) ==
    /\ Admitted(p) /\ p.scope \notin Tests
    /\ p.scope = "openid" => p.offer # Nobody \/ OpenidMapped
    /\ p.redirect /\ GivesState(p) /\ p.challenge = "s256"

DidMadeByAnother(a) == a \notin found /\ maker[HolderOf[a]] \notin {a, Nobody}

OfferIsAnothers(a) ==
    \E s \in States, v \in Creds :
        /\ row[s].live /\ row[s].by = a /\ row[s].offer # Nobody
        /\ cred[v].offer = row[s].offer /\ row[cred[v].s].by # a

IssuedByHand(a) == \E v \in Creds : cred[v].status = "issued" /\ row[cred[v].s].by = a

InOrderIsServed ==
    \A a \in clean :
        Sensible(plan[a]) =>
            /\ wallet[a].phase # "failed"
            /\ wallet[a].phase = "refused" =>
                 DidMadeByAnother(a) \/ OfferIsAnothers(a) \/ IssuedByHand(a)
            /\ wallet[a].phase \in {"asked", "coded", "proved"} => \E m \in wire : Of(m) = a
=============================================================================
