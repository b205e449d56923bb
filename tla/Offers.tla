-------------------------------- MODULE Offers --------------------------------
(***************************************************************************)
(* Credential offers: how one is made in several database calls, handed    *)
(* out, marked used, taken up by an authorization request, expires and is  *)
(* deleted; the API keys that let a client ask for one, the interoperability *)
(* claims that point at one, and the console's tables of offers and keys.  *)
(*                                                                         *)
(* A slot is a request that the backend works on, or that the console      *)
(* waits for.  An action is one database call with the code up to the next. *)
(***************************************************************************)
EXTENDS Naturals, Sequences, FiniteSets, FiniteSetsExt

CONSTANTS
    Offers,      \* serial ids of offers
    Keys,        \* serial ids of API keys
    Slots,       \* requests under way at once
    Makers,      \* who asks for offers here: some of Askers
    Batch,       \* createTestCredentials: the grants of the offers it makes
    Old,         \* offers that clients may have been given before
    Life,        \* expiresIn, in seconds
    MaxTime,     \* bound: seconds
    MaxFaults,   \* bound: failed database calls and lists
    MaxEvents,   \* bound: those and what people ask for
    None

Items  == Offers \cup Keys
Tables == {"offers", "keys"}
Askers == {"desk", "client", "interop", "scope"}
Grants == {"auth", "pre"}

ASSUME OffersAssumption ==
    /\ Offers \subseteq Nat /\ Keys \subseteq Nat /\ Offers \cap Keys = {}
    /\ Old \subseteq Offers
    /\ Makers \subseteq Askers
    /\ Batch \in Seq(Grants) /\ Batch # <<>>
    /\ Life \in Nat \ {0}
    /\ MaxTime \in Nat /\ MaxFaults \in Nat /\ MaxEvents \in Nat
    /\ None \notin Items

VARIABLES
    clock,    \* Date.now, in seconds
    offers,   \* credential_offers, with its row of credential_offer_data
    rows,     \* offers that a row of the session table refers to
    claims,   \* offers that a credential_claim refers to
    keys,     \* api_key
    req,      \* requests
    marks,    \* updates to USED that nobody awaits
    view,     \* the console's tables
    ghost,    \* what was answered to whom
    count     \* what was asked for and what failed so far

vars == <<clock, offers, rows, claims, keys, req, marks, view, ghost, count>>

-----------------------------------------------------------------------------
Lives == {"unborn", "data", "live", "gone"}

\* expires: expires_at; exp: the claim of the issuer state or code.
Offer == [life : Lives, by : Askers, grant : Grants, status : {"PENDING", "USED"},
          expires : Nat, exp : Nat]

Unborn == [life |-> "unborn", by |-> "desk", grant |-> "auth", status |-> "PENDING",
           expires |-> 0, exp |-> 0]

\* n: the offer of the batch that is being made; got: claims made so far.
Req == [op : {"none", "make", "makeKey", "delete", "fetch", "authorize"},
        at : {"idle", "work", "compute", "data", "offer", "row", "state", "link",
              "claim", "ok", "failed"},
        by : Askers \cup {"other"}, grant : Grants, n : 0 .. Len(Batch),
        i : Items \cup {None}, expires : Nat, exp : Nat, got : SUBSET Offers]

Idle == [op |-> "none", at |-> "idle", by |-> "other", grant |-> "auth", n |-> 0,
         i |-> None, expires |-> 0, exp |-> 0, got |-> {}]

\* closed: the page was not opened yet; loaded: a list was shown; failed: the list
\* could not be fetched since the last change; shared: items made while the first
\* fetch was under way, and no fetch was begun since.
View == [shown : SUBSET Items, at : {"closed", "idle", "wire", "answer"},
         seen : SUBSET Items, loaded : BOOLEAN, failed : BOOLEAN, shared : SUBSET Items]

\* told: items handed over to who asked for them; joined: offers that an
\* authorization request was answered about; handed: offers fetched by a
\* wallet; dropped: items the desk deleted; lost: updates a crash undid.
Ghost == [told : SUBSET Items, joined : SUBSET Offers, handed : SUBSET Offers,
          dropped : SUBSET Items, lost : SUBSET Offers]

Stored(o)   == offers[o].life = "live"
TableOf(i)  == IF i \in Offers THEN "offers" ELSE "keys"
Listed(t)   == IF t = "offers" THEN {o \in Offers : Stored(o)}
                               ELSE {k \in Keys : keys[k] = "live"}
Unmade      == {o \in Offers : offers[o].life = "unborn"}
UnmadeKeys  == {k \in Keys : keys[k] = "unborn"}
First(S)    == {x \in S : \A y \in S : x <= y}

At(r, op, at)  == req[r].op = op /\ req[r].at = at
Free(r)        == req[r].at = "idle"
Put(r, q)      == req' = [req EXCEPT ![r] = q]
Go(r, at)      == Put(r, [req[r] EXCEPT !.at = at])
End(r)         == Put(r, Idle)

Events == count.asked + count.faults
Asked  == Events < MaxEvents /\ count' = [count EXCEPT !.asked = @ + 1]
Fault  == /\ Events < MaxEvents /\ count.faults < MaxFaults
          /\ count' = [count EXCEPT !.faults = @ + 1]

\* The desk waits for the answer and does something about it.
Answer(r, at) == IF req[r].by = "desk" THEN Go(r, at) ELSE End(r)

Tick == /\ clock < MaxTime
        /\ clock' = clock + 1
        /\ UNCHANGED <<offers, rows, claims, keys, req, marks, view, ghost, count>>

-----------------------------------------------------------------------------
(***************************************************************************)
(* Asking.                                                                 *)
(***************************************************************************)
OnlyAsked == UNCHANGED <<clock, offers, rows, claims, keys, marks, view, ghost>>

Start(r, q) == Free(r) /\ Asked /\ Put(r, q) /\ OnlyAsked

\* Bound: an id is left for every offer that a request is to make.
Needs(q) == IF q.op # "make" THEN 0
            ELSE (IF q.at \in {"work", "compute", "data"} THEN 1 ELSE 0)
                 + (IF q.by = "interop" THEN Len(Batch) - q.n ELSE 0)

SpareOffers(q) ==
    Needs(q) + MapThenSumSet(LAMBDA r : Needs(req[r]), Slots)
        <= Cardinality(Unmade)

Making(by, g) == [Idle EXCEPT !.op = "make", !.at = "compute", !.by = by, !.grant = g]

\* The dialog asks for a pre-authorized offer, whatever was filled in.
AskAtDesk(r) ==
    /\ "desk" \in Makers /\ view["offers"].at # "closed"
    /\ SpareOffers(Making("desk", "pre"))
    /\ Start(r, Making("desk", "pre"))

\* A client needs a key that is there when its request comes in.
AskWithKey(r, k, g) ==
    /\ "client" \in Makers /\ keys[k] = "live" /\ SpareOffers(Making("client", g))
    /\ Start(r, Making("client", g))

AskInterop(r) ==
    LET q == [Making("interop", Batch[1]) EXCEPT !.n = 1]
    IN  "interop" \in Makers /\ SpareOffers(q) /\ Start(r, q)

\* An authorization request with a scope of its own has an offer made for it.
AskScope(r) ==
    /\ "scope" \in Makers /\ SpareOffers(Making("scope", "auth"))
    /\ Start(r, Making("scope", "auth"))

AskKey(r) ==
    /\ view["keys"].at # "closed"
    /\ \A s \in Slots : req[s].op # "makeKey"
    /\ UnmadeKeys # {}
    /\ Start(r, [Idle EXCEPT !.op = "makeKey", !.at = "work", !.by = "desk"])

\* At the desk what the table shows can be deleted; elsewhere what there is.
AskDelete(r, i, by) ==
    /\ i \in IF by = "desk" THEN view[TableOf(i)].shown ELSE Listed(TableOf(i))
    /\ Start(r, [Idle EXCEPT !.op = "delete", !.at = "work", !.by = by, !.i = i])

-----------------------------------------------------------------------------
(***************************************************************************)
(* Making an offer.                                                        *)
(***************************************************************************)
Step(r, at) == At(r, "make", at) /\ UNCHANGED <<marks, keys, view>>

\* Mutant of NextOfBatch: one offer too many.
NextOfBatchOnce(r, got) ==
    LET q == req[r]
        g == IF q.n < Len(Batch) THEN Batch[q.n + 1] ELSE "auth"
    IN  IF q.n <= Len(Batch)
        THEN /\ Put(r, [Making("interop", g) EXCEPT !.n = q.n + 1, !.got = got])
             /\ UNCHANGED ghost
        ELSE End(r) /\ ghost' = [ghost EXCEPT !.told = @ \cup got]

\* The next offer of the batch, or the answer with the claims that were made.
NextOfBatch(r, got) ==
    LET q == req[r]
    IN  IF q.n < Len(Batch)
        THEN /\ Put(r, [Making("interop", Batch[q.n + 1]) EXCEPT !.n = q.n + 1, !.got = got])
             /\ UNCHANGED ghost
        ELSE End(r) /\ ghost' = [ghost EXCEPT !.told = @ \cup got]

\* Mutant of Broken: a row that cannot be stored is passed over.
BrokenPassedOver(r) ==
    IF req[r].at = "row" THEN Go(r, "link") /\ UNCHANGED ghost
    ELSE IF req[r].by = "interop" THEN NextOfBatch(r, req[r].got)
    ELSE Answer(r, "failed") /\ UNCHANGED ghost

\* A failed call ends a request; of a batch it ends the one offer.
Broken(r) ==
    IF req[r].by = "interop" THEN NextOfBatch(r, req[r].got)
    ELSE Answer(r, "failed") /\ UNCHANGED ghost

\* The exp of the issuer state or code, signed by a second reading of the clock.
Signed(late) == clock + late + Life

\* expires_at is made from the first.
Compute(r) ==
    /\ Step(r, "compute")
    /\ \E late \in {0, 1} :
         /\ clock + late <= MaxTime
         /\ clock' = clock + late
         /\ Put(r, [req[r] EXCEPT !.at = "data", !.expires = clock + Life, !.exp = Signed(late)])
    /\ UNCHANGED <<offers, rows, claims, ghost, count>>

SaveData(r) ==
    /\ Step(r, "data")
    /\ \E o \in First(Unmade) :
         /\ offers' = [offers EXCEPT ![o].life = "data"]
         /\ Put(r, [req[r] EXCEPT !.at = "offer", !.i = o])
    /\ UNCHANGED <<clock, rows, claims, ghost, count>>

\* Only a code is stored before the offer is given away, and for a scope the
\* session of the authorization request.
AfterOffer(q) == IF q.grant = "pre" THEN "row" ELSE IF q.by = "scope" THEN "state" ELSE "link"

\* Mutant of SaveOffer: the clock is read again for expires_at.
SaveOfferLater(r) ==
    LET q == req[r]
    IN  /\ Step(r, "offer")
        /\ offers' = [offers EXCEPT ![q.i] =
              [life |-> "live", by |-> q.by, grant |-> q.grant,
               status |-> IF q.by = "scope" THEN "USED" ELSE "PENDING",
               expires |-> clock + Life, exp |-> q.exp]]
        /\ Go(r, AfterOffer(q))
        /\ UNCHANGED <<clock, rows, claims, ghost, count>>

SaveOffer(r) ==
    LET q == req[r]
    IN  /\ Step(r, "offer")
        /\ offers' = [offers EXCEPT ![q.i] =
              [life |-> "live", by |-> q.by, grant |-> q.grant,
               status |-> IF q.by = "scope" THEN "USED" ELSE "PENDING",
               expires |-> q.expires, exp |-> q.exp]]
        /\ Go(r, AfterOffer(q))
        /\ UNCHANGED <<clock, rows, claims, ghost, count>>

\* The code's row refers to the offer, which must still be there.
SaveRow(r) ==
    /\ Step(r, "row")
    /\ IF Stored(req[r].i)
       THEN rows' = rows \cup {req[r].i} /\ Go(r, "link") /\ UNCHANGED ghost
       ELSE Broken(r) /\ UNCHANGED rows
    /\ UNCHANGED <<clock, offers, claims, count>>

\* The link and its QR code, which end the request of a client.
Link(r) ==
    /\ Step(r, "link")
    /\ CASE req[r].by = "interop" -> Go(r, "claim") /\ UNCHANGED ghost
         [] req[r].by = "desk"    -> Go(r, "ok") /\ UNCHANGED ghost
         [] OTHER -> End(r) /\ ghost' = [ghost EXCEPT !.told = @ \cup {req[r].i}]
    /\ UNCHANGED <<clock, offers, rows, claims, count>>

\* credential_claim.offer is a foreign key that may not be null.
Claimable(o) == Stored(o)

SaveClaim(r) ==
    /\ Step(r, "claim")
    /\ IF Claimable(req[r].i)
       THEN /\ claims' = claims \cup {req[r].i}
            /\ NextOfBatch(r, req[r].got \cup {req[r].i})
       ELSE Broken(r) /\ UNCHANGED claims
    /\ UNCHANGED <<clock, offers, rows, count>>

\* A database call of a request fails.
CallFails(r) ==
    /\ req[r].at \in {"work", "data", "offer", "row", "state", "claim"}
    /\ Fault
    /\ Broken(r)
    /\ UNCHANGED <<clock, offers, rows, claims, keys, marks, view>>

-----------------------------------------------------------------------------
(***************************************************************************)
(* Wallets.                                                                *)
(***************************************************************************)
OnlyRequests == UNCHANGED <<clock, offers, claims, keys, view, count>>

\* getOfferById of an offer whose link was given away reads the offer ...
Fetch(r, o) ==
    /\ Free(r)
    /\ o \in ghost.told /\ Stored(o)
    /\ Asked
    /\ Put(r, [Idle EXCEPT !.op = "fetch", !.at = "work", !.i = o])
    /\ OnlyAsked

IsExpired(o) == offers[o].expires <= clock

\* Mutants of HandOut: the update is started before the check, ...
HandOutFirst(r) ==
    LET o == req[r].i
    IN  /\ At(r, "fetch", "work")
        /\ marks' = marks \cup {o}
        /\ ghost' = IF IsExpired(o) THEN ghost ELSE [ghost EXCEPT !.handed = @ \cup {o}]
        /\ End(r)
        /\ OnlyRequests /\ UNCHANGED rows

\* ... or not at all.
HandOutUnmarked(r) ==
    LET o == req[r].i
    IN  /\ At(r, "fetch", "work")
        /\ ghost' = IF IsExpired(o) THEN ghost ELSE [ghost EXCEPT !.handed = @ \cup {o}]
        /\ End(r)
        /\ OnlyRequests /\ UNCHANGED <<rows, marks>>

\* ... and, unless it is expired, starts the update and answers at once.
HandOut(r) ==
    LET o == req[r].i
    IN  /\ At(r, "fetch", "work")
        /\ IF IsExpired(o) THEN UNCHANGED <<marks, ghost>>
           ELSE /\ marks' = marks \cup {o}
                /\ ghost' = [ghost EXCEPT !.handed = @ \cup {o}]
        /\ End(r)
        /\ OnlyRequests /\ UNCHANGED rows

\* Mutant of MarkUsed: the row that was read is saved.
MarkUsedSaves(o) ==
    /\ o \in marks
    /\ marks' = marks \ {o}
    /\ offers' = [offers EXCEPT ![o].status = "USED", ![o].life = "live"]
    /\ UNCHANGED <<clock, rows, claims, keys, req, view, ghost, count>>

\* The update is done some time; of a deleted offer it changes nothing.
MarkUsed(o) ==
    /\ o \in marks
    /\ marks' = marks \ {o}
    /\ offers' = IF Stored(o) THEN [offers EXCEPT ![o].status = "USED"] ELSE offers
    /\ UNCHANGED <<clock, rows, claims, keys, req, view, ghost, count>>

\* Its failure is a rejection that nobody handles: the process ends and is
\* started again.  What it worked on is lost, and the desk's calls fail.
MarkFails(o) ==
    /\ o \in marks
    /\ Fault
    /\ marks' = {}
    /\ ghost' = [ghost EXCEPT !.lost = @ \cup marks]
    /\ req' = [r \in Slots |-> IF req[r].at \in {"ok", "failed"} THEN req[r]
                               ELSE IF req[r].by = "desk" THEN [req[r] EXCEPT !.at = "failed"]
                               ELSE Idle]
    /\ view' = [t \in Tables |-> IF view[t].at = "wire"
                                 THEN [view[t] EXCEPT !.at = "idle", !.failed = TRUE]
                                 ELSE view[t]]
    /\ UNCHANGED <<clock, offers, rows, claims, keys>>

StateExpired(o) == offers[o].exp < clock

\* authorize with the issuer state of an offer that was handed out.
Authorize(r, o) ==
    /\ Free(r)
    /\ o \in ghost.handed /\ offers[o].grant = "auth" /\ Stored(o)
    /\ ~StateExpired(o)
    /\ Asked
    /\ Put(r, [Idle EXCEPT !.op = "authorize", !.at = "state", !.i = o])
    /\ OnlyAsked

\* createAuthState, of both kinds of authorization request.
SaveState(r) ==
    LET o == req[r].i
    IN  /\ req[r].at = "state"
        /\ IF Stored(o)
           THEN rows' = rows \cup {o} /\ ghost' = [ghost EXCEPT !.joined = @ \cup {o}]
           ELSE UNCHANGED <<rows, ghost>>
        /\ End(r)
        /\ OnlyRequests /\ UNCHANGED marks

-----------------------------------------------------------------------------
(***************************************************************************)
(* Deleting, and API keys.                                                 *)
(***************************************************************************)
OnlyDesk == UNCHANGED <<clock, claims, marks, view, ghost, count>>

\* The sessions of an offer go with it; one with a claim cannot be deleted.
DeleteOffer(r) ==
    LET o == req[r].i
    IN  /\ At(r, "delete", "work") /\ o \in Offers
        /\ IF Stored(o) /\ o \notin claims
           THEN /\ offers' = [offers EXCEPT ![o].life = "gone"]
                /\ rows' = rows \ {o}
                /\ Answer(r, "ok")
           ELSE Answer(r, "failed") /\ UNCHANGED <<offers, rows>>
        /\ OnlyDesk /\ UNCHANGED keys

\* A key that is gone already is deleted with success.
DeleteKey(r) ==
    /\ At(r, "delete", "work") /\ req[r].i \in Keys
    /\ keys' = [keys EXCEPT ![req[r].i] = "gone"]
    /\ Answer(r, "ok")
    /\ OnlyDesk /\ UNCHANGED <<offers, rows>>

CreateKey(r) ==
    /\ At(r, "makeKey", "work")
    /\ \E k \in First(UnmadeKeys) :
         /\ keys' = [keys EXCEPT ![k] = "live"]
         /\ Put(r, [req[r] EXCEPT !.at = "ok", !.i = k])
    /\ OnlyDesk /\ UNCHANGED <<offers, rows>>

-----------------------------------------------------------------------------
(***************************************************************************)
(* The tables of the console.                                              *)
(***************************************************************************)
OnlyConsole == UNCHANGED <<clock, offers, rows, claims, keys, marks>>

Refetched(v) == [v EXCEPT !.at = "wire", !.seen = {}, !.failed = FALSE, !.shared = {}]

\* Mutant of Refetch: any fetch under way is waited for.
RefetchShared(i) ==
    LET t == TableOf(i)
    IN  view' = IF view[t].at # "idle" THEN view
                ELSE [view EXCEPT ![t] = Refetched(view[t])]

\* A fetch under way is given up for the new one, but only if the query has
\* data: the first one is waited for.
Refetch(i) ==
    LET t == TableOf(i)
        v == view[t]
    IN  view' = IF v.loaded \/ v.at = "idle"
                THEN [view EXCEPT ![t] = Refetched(v)]
                ELSE [view EXCEPT ![t].shared = @ \cup {i}]

Open(t) ==
    /\ view[t].at = "closed"
    /\ Asked
    /\ view' = [view EXCEPT ![t].at = "wire"]
    /\ OnlyConsole /\ UNCHANGED <<req, ghost>>

Succeeded(r) ==
    LET i == req[r].i
    IN  /\ req[r].at = "ok"
        /\ ghost' = IF req[r].op = "delete" THEN [ghost EXCEPT !.dropped = @ \cup {i}]
                                            ELSE [ghost EXCEPT !.told = @ \cup {i}]
        /\ Refetch(i)
        /\ End(r)
        /\ OnlyConsole /\ UNCHANGED count

\* A failure shows a toast at best: the table stays as it is.
NotSucceeded(r) ==
    /\ req[r].at = "failed"
    /\ End(r)
    /\ OnlyConsole /\ UNCHANGED <<view, ghost, count>>

ReadList(t) ==
    /\ view[t].at = "wire"
    /\ view' = [view EXCEPT ![t].at = "answer", ![t].seen = Listed(t)]
    /\ OnlyConsole /\ UNCHANGED <<req, ghost, count>>

ShowList(t) ==
    /\ view[t].at = "answer"
    /\ view' = [view EXCEPT ![t] = [@ EXCEPT !.at = "idle", !.shown = view[t].seen, !.seen = {},
                                        !.loaded = TRUE]]
    /\ OnlyConsole /\ UNCHANGED <<req, ghost, count>>

ListFails(t) ==
    /\ view[t].at \in {"wire", "answer"}
    /\ Fault
    /\ view' = [view EXCEPT ![t] = [@ EXCEPT !.at = "idle", !.seen = {}, !.failed = TRUE]]
    /\ OnlyConsole /\ UNCHANGED <<req, ghost>>

-----------------------------------------------------------------------------
Given == [Unborn EXCEPT !.life = "live", !.by = "client", !.expires = Life, !.exp = Life]

\* No offers yet or some that were given away, keys created before or none, and
\* the pages open and loaded or not opened yet.
Init ==
    /\ clock = 0
    /\ \E old \in SUBSET Old :
         /\ offers = [o \in Offers |-> IF o \in old THEN Given ELSE Unborn]
         /\ ghost = [told |-> old, joined |-> {}, handed |-> {}, dropped |-> {}, lost |-> {}]
    /\ rows = {} /\ claims = {}
    /\ keys \in [Keys -> {"unborn", "live"}]
    /\ req = [r \in Slots |-> Idle]
    /\ marks = {}
    /\ \E b \in BOOLEAN :
         view = [t \in Tables |-> [shown |-> IF b THEN Listed(t) ELSE {},
                                   at |-> IF b THEN "idle" ELSE "closed", seen |-> {},
                                   loaded |-> b, failed |-> FALSE, shared |-> {}]]
    /\ count = [asked |-> 0, faults |-> 0]

Ask(r) ==
    \/ AskAtDesk(r) \/ AskInterop(r) \/ AskScope(r) \/ AskKey(r)
    \/ \E k \in Keys, g \in Grants : AskWithKey(r, k, g)
    \/ \E i \in Items, by \in {"desk", "other"} : AskDelete(r, i, by)
    \/ \E o \in Offers : Fetch(r, o) \/ Authorize(r, o)

Serve(r) ==
    \/ Compute(r) \/ SaveData(r) \/ SaveOffer(r) \/ SaveRow(r) \/ Link(r) \/ SaveClaim(r)
    \/ HandOut(r) \/ SaveState(r) \/ DeleteOffer(r) \/ DeleteKey(r) \/ CreateKey(r)
    \/ Succeeded(r) \/ NotSucceeded(r)

Table(t) == ReadList(t) \/ ShowList(t)

Next ==
    \/ Tick
    \/ \E r \in Slots : Ask(r) \/ Serve(r) \/ CallFails(r)
    \/ \E o \in Offers : MarkUsed(o) \/ MarkFails(o)
    \/ \E t \in Tables : Table(t) \/ ListFails(t) \/ Open(t)

Spec == Init /\ [][Next]_vars

\* The database carries out the update that was sent to it.
FairSpec == Spec /\ \A o \in Offers : WF_vars(MarkUsed(o))

-----------------------------------------------------------------------------
TypeOK ==
    /\ clock \in Nat
    /\ offers \in [Offers -> Offer]
    /\ rows \subseteq Offers
    /\ claims \subseteq Offers
    /\ keys \in [Keys -> Lives]
    /\ req \in [Slots -> Req]
    /\ marks \subseteq Offers
    /\ view \in [Tables -> View]
    /\ ghost \in Ghost
    /\ count \in [asked : Nat, faults : Nat]

\* An offer that getOfferById would hand out has an issuer state that
\* authorize still accepts in the same second, however the clock moved while
\* the offer was made.
FetchedIsAccepted ==
    \A o \in Offers : Stored(o) /\ ~IsExpired(o) => ~StateExpired(o)

\* Whoever was given an offer, and a wallet whose authorization request was
\* accepted, finds the session row that the next call needs for as long as the
\* offer is there, and an offer of the interoperability page has its claim.
AnsweredIsRedeemable ==
    \A o \in Offers : Stored(o) =>
        /\ o \in ghost.told /\ offers[o].grant = "pre" => o \in rows
        /\ o \in ghost.joined => o \in rows
        /\ o \in ghost.told /\ offers[o].by = "interop" => o \in claims

\* An offer is used only if a wallet was given it before it expired, or if it
\* was made for an authorization request.
UsedWasHanded ==
    \A o \in Offers :
        offers[o].status = "USED" => o \in ghost.handed \/ offers[o].by = "scope"

\* A table at rest shows what was created at the desk, and nothing that was
\* deleted there, in whatever order its fetches and other calls overlapped: but
\* for items made while the first fetch was under way, until the next change.
DeskSeesOwn ==
    \A t \in Tables :
        view[t].at = "idle" /\ ~view[t].failed =>
            /\ \A i \in ghost.dropped : TableOf(i) = t => i \notin view[t].shown
            /\ \A i \in ghost.told \ view[t].shared :
                 /\ TableOf(i) = t /\ i \in Listed(t)
                 /\ i \in Keys \/ offers[i].by = "desk"
                 => i \in view[t].shown

\* A deleted offer stays deleted and gets no session: not from an update to
\* USED that was under way, nor from a request that read it before.
DeletedStaysGone ==
    [][\A o \in Offers : offers[o].life = "gone" =>
         offers'[o].life = "gone" /\ o \notin rows']_vars

\* An offer that was handed out is marked as used, unless it is deleted or the
\* update fails.
MarkedUsed ==
    \A o \in Offers :
        o \in ghost.handed ~> \/ offers[o].status = "USED"
                              \/ offers[o].life = "gone" \/ o \in ghost.lost
=============================================================================
