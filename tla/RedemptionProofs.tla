-------------------------- MODULE RedemptionProofs ---------------------------
(***************************************************************************)
(* More proofs about Issuance: how an offer, the sessions that redeem it,  *)
(* the handlers that serve them and the credential record belong together. *)
(***************************************************************************)
EXTENDS IssuanceProofs

(***************************************************************************)
(* The inductive invariant, beside IInv.  A reference to an offer is one   *)
(* to an offer that was made, for the client that it was made to; a        *)
(* session keeps its client and can only lose its offer; a record shares   *)
(* the fate of its offer, and an offer has one record.                     *)
(***************************************************************************)
MadeFor(client, ref, os) ==
    ref # None => /\ ref \in Offers /\ os[ref].live # "unborn"
                  /\ os[ref].client # None => client = os[ref].client

Served(ref, vs, es) == \E v \in Vcs : vs[v].offer = ref /\ Backed(v, vs, es)

VcOK(v, os, vs) ==
    Born(v, vs) => /\ MadeFor(vs[v].client, vs[v].offer, os)
                   /\ vs[v].status = "gone" <=>
                        vs[v].offer # None /\ os[vs[v].offer].live = "gone"
                   /\ vs[v].status = "issued" /\ vs[v].kind = "plain" => vs[v].offer # None

OnePerOffer(vs) ==
    \A v, w \in Vcs :
        Born(v, vs) /\ Born(w, vs) /\ vs[v].offer = vs[w].offer /\ vs[v].offer # None => v = w

SessionOK(s, os, ss, vs, es) ==
    /\ MadeFor(ss[s].client, ss[s].offer, os)
    /\ ss[s].status = "claimed" /\ ss[s].offer # None => Served(ss[s].offer, vs, es)

Requesting == {"findDid", "insertDid", "ensureStudent", "insertVc"}
Saving     == {"postSave", "tokenSave", "deferSave", "claimSave"}
Unclaiming == {"scopeOffer", "insertState", "mockCheck", "mockInsert", "postSave", "tokenSave",
               "deferSave"}
Issuing    == {"issueRead", "addEntry", "markIssued", "markAgain", "claimRead", "claimSave"}

\* What a handler in flight relies on.
TaskOK(q, os, ss, vs) ==
    /\ MadeFor(q.row.client, q.row.offer, os)
    /\ q.pc \in NeedSession \cup Issuing /\ q.s # None => ss[q.s].live # "unborn"
    /\ q.pc \in Saving => q.row.client = ss[q.s].client
    /\ q.pc \in Unclaiming => q.row.status = "unclaimed"
    /\ q.pc \in Requesting => ss[q.s].offer \in {q.row.offer, None}
    /\ q.pc \in Issuing /\ q.s # None => ss[q.s].offer \in {vs[q.v].offer, None}
    /\ q.pc \in {"addEntry", "markIssued", "markAgain"} => vs[q.v].offer # None
    /\ q.pc \in {"confRead", "confMark", "itDeferMark"} => vs[q.v].kind # "plain"

VcsOK      == \A v \in Vcs : VcOK(v, offers, vcs)
SessionsOK == \A s \in Sessions : SessionOK(s, offers, sessions, vcs, entries)
TasksOK    == \A r \in Slots : TaskOK(req[r], offers, sessions, vcs)

RInv == IInv /\ VcsOK /\ OnePerOffer(vcs) /\ SessionsOK /\ TasksOK

-----------------------------------------------------------------------------
(***************************************************************************)
(* Offers, sessions and records never forget whom they are for.            *)
(***************************************************************************)
LEMMA Types ==
  ASSUME RInv
  PROVE  /\ IInv /\ offers \in [Offers -> OfferRow] /\ sessions \in [Sessions -> Row]
         /\ vcs \in [Vcs -> VcRow] /\ entries \in [Vcs -> Nat] /\ req \in [Slots -> Slot]
         /\ None \notin Clients /\ None \notin Offers /\ None \notin Sessions /\ None \notin Vcs
BY ConstantsAssumption DEF RInv, IInv, TypeOK, ConstantsAssumption

LEMMA OffersWriters ==
  ASSUME [Next]_vars
  PROVE  \/ UNCHANGED offers
         \/ \E r \in Slots, o \in Offers, f \in OfferForms, c \in Clients :
               CreateOffer(r, o, f, c)
         \/ \E r \in Slots, o \in Offers : InsertScopeOffer(r, o)
         \/ \E o \in Offers : DeleteOffer(o)
<1>1. CASE AdminNext
  BY <1>1 DEF AdminNext, Approve, DetachDid, Reject, Reopen, SetStatus, tables
<1>2. CASE WalletNext
  BY <1>2 DEF WalletNext, AuthorizeOpenid, AuthorizeScope, AuthorizeOffer,
               DirectPost, StandardToken, PreAuthToken, Mint, MockToken, Credential,
               PollIssued, PollRejected, Poll, tables
<1>3. ASSUME NEW r \in Slots, Step(r)
      PROVE  UNCHANGED offers \/ \E x \in Slots, o \in Offers : InsertScopeOffer(x, o)
  BY <1>3 DEF Step, InsertState, InsertStateFails, MockCheck, MockInsert,
               MockFind, MockMissing, PostRead, PostSave, TokenRead, TokenSave,
               FindDid, InsertDid, EnsureStudent, InsertVcFails, IssueRead, ClaimRead, ClaimSave,
               DeferRead, DeferSave, ConfRead, Reply, InsertVc, AddEntry, MarkIssued, MarkAgain,
               ConfMark, ItDeferMark, tables
<1>4. ASSUME NEW r \in Slots, Fail(r) PROVE UNCHANGED offers
  BY <1>4 DEF Fail, tables
<1>5. CASE UNCHANGED vars
  BY <1>5 DEF vars
<1> QED
  BY <1>1, <1>2, <1>3, <1>4, <1>5 DEF Next

\* The steps of handlers that write a session row back.
Saves(r) == PostSave(r) \/ TokenSave(r) \/ DeferSave(r) \/ ClaimSave(r)

LEMMA SessionsWriters ==
  ASSUME [Next]_vars
  PROVE  \/ UNCHANGED sessions
         \/ \E r \in Slots : Saves(r)
         \/ \E r \in Slots, s \in Sessions : InsertState(r, s) \/ MockInsert(r, s)
         \/ \E r \in Slots, k \in {"ctInTime", "ctDeferred"} : MockToken(r, k)
         \/ \E o \in Offers : DeleteOffer(o)
<1>1. CASE AdminNext
  BY <1>1 DEF AdminNext, CreateOffer, Approve, DetachDid, Reject, Reopen, SetStatus, tables
<1>2. CASE WalletNext
  BY <1>2 DEF WalletNext, AuthorizeOpenid, AuthorizeScope, AuthorizeOffer,
               DirectPost, StandardToken, PreAuthToken, Mint, Credential,
               PollIssued, PollRejected, Poll, tables
<1>3. ASSUME NEW r \in Slots, Step(r)
      PROVE  \/ UNCHANGED sessions \/ \E x \in Slots : Saves(x)
             \/ \E x \in Slots, s \in Sessions : InsertState(x, s) \/ MockInsert(x, s)
  BY <1>3 DEF Step, Saves, InsertScopeOffer, InsertStateFails, MockCheck,
               MockFind, MockMissing, PostRead, TokenRead,
               FindDid, InsertDid, EnsureStudent, InsertVcFails, IssueRead, ClaimRead,
               DeferRead, ConfRead, Reply, InsertVc, AddEntry, MarkIssued, MarkAgain,
               ConfMark, ItDeferMark, tables
<1>4. ASSUME NEW r \in Slots, Fail(r) PROVE UNCHANGED sessions
  BY <1>4 DEF Fail, tables
<1>5. CASE UNCHANGED vars
  BY <1>5 DEF vars
<1> QED
  BY <1>1, <1>2, <1>3, <1>4, <1>5 DEF Next

\* An offer that was made stays made, for the same client.
LEMMA OffersLast ==
  ASSUME RInv, [Next]_vars, NEW o \in Offers, offers[o].live # "unborn"
  PROVE  offers'[o].live # "unborn" /\ offers'[o].client = offers[o].client
<1>1. offers \in [Offers -> OfferRow]
  BY Types
<1>2. ASSUME NEW r \in Slots, NEW p \in Offers, NEW f \in OfferForms, NEW c \in Clients,
             CreateOffer(r, p, f, c)
      PROVE  offers'[o] = offers[o]
  BY <1>1, <1>2 DEF CreateOffer
<1>3. ASSUME NEW r \in Slots, NEW p \in Offers, InsertScopeOffer(r, p)
      PROVE  offers'[o] = offers[o]
  BY <1>1, <1>3 DEF InsertScopeOffer
<1>4. ASSUME NEW p \in Offers, DeleteOffer(p)
      PROVE  offers'[o].live # "unborn" /\ offers'[o].client = offers[o].client
  BY <1>1, <1>4 DEF DeleteOffer, OfferRow
<1> QED BY <1>2, <1>3, <1>4, OffersWriters

LEMMA MadeForLasts ==
  ASSUME RInv, [Next]_vars, NEW c, NEW ref, MadeFor(c, ref, offers)
  PROVE  MadeFor(c, ref, offers')
BY OffersLast DEF MadeFor

\* The row that a handler writes back is its session's.
LEMMA SavesFacts ==
  ASSUME RInv, NEW r \in Slots, Saves(r)
  PROVE  /\ req[r].s \in Sessions /\ sessions' = Saved(req[r].s, req[r].row)
         /\ req[r].row \in Row /\ req[r].row.client = sessions[req[r].s].client
         /\ req[r].pc \in Saving
         /\ offers' = offers /\ vcs' = vcs /\ entries' = entries
<1>1. req[r].pc \in Saving
  BY DEF Saves, PostSave, TokenSave, DeferSave, ClaimSave, Busy, Saving
<1>2. req[r].s \in Sessions /\ req[r].row \in Row
  BY <1>1, SlotFacts DEF RInv, Saving, NeedSession
<1>3. req[r].row.client = sessions[req[r].s].client
  BY <1>1 DEF RInv, TasksOK, TaskOK
<1> QED BY <1>1, <1>2, <1>3 DEF Saves, PostSave, TokenSave, DeferSave, ClaimSave

LEMMA SavedFields ==
  ASSUME RInv, NEW s \in Sessions, NEW row \in Row
  PROVE  /\ Saved(s, row)[s].live = "live" /\ Saved(s, row)[s].client = row.client
         /\ Saved(s, row)[s].status = row.status
         /\ Saved(s, row)[s].offer \in {sessions[s].offer, None}
         /\ \A x \in Sessions : x # s => Saved(s, row)[x] = sessions[x]
<1> DEFINE o == IF LiveSession(s) THEN sessions[s].offer ELSE None
           f == [row EXCEPT !.live = "live", !.offer = o]
<1>1. f.live = "live" /\ f.client = row.client /\ f.status = row.status /\ f.offer = o
  <2> HIDE DEF o
  <2> QED BY DEF Row
<1>2. o \in {sessions[s].offer, None}
  OBVIOUS
<1>3. Saved(s, row) = [sessions EXCEPT ![s] = f]
  BY DEF Saved
<1> HIDE DEF f
<1> QED BY <1>1, <1>2, <1>3, Types

\* A session row stays inserted, for the same client, and keeps its offer or
\* loses it.
LEMMA SessionsLast ==
  ASSUME RInv, [Next]_vars, NEW s \in Sessions, sessions[s].live # "unborn"
  PROVE  /\ sessions'[s].live # "unborn" /\ sessions'[s].client = sessions[s].client
         /\ sessions'[s].offer \in {sessions[s].offer, None}
<1>1. sessions \in [Sessions -> Row] /\ sessions[s] \in Row
  BY Types
<1>2. ASSUME NEW r \in Slots, Saves(r)
      PROVE  /\ sessions'[s].live # "unborn" /\ sessions'[s].client = sessions[s].client
             /\ sessions'[s].offer \in {sessions[s].offer, None}
  <2>1. CASE s = req[r].s
    BY <1>2, <2>1, SavesFacts, SavedFields
  <2>2. CASE s # req[r].s
    BY <1>2, <2>2, SavesFacts, SavedFields
  <2> QED BY <2>1, <2>2
<1>3. ASSUME NEW r \in Slots, NEW x \in Sessions, InsertState(r, x) \/ MockInsert(r, x)
      PROVE  sessions'[s] = sessions[s]
  BY <1>1, <1>3 DEF InsertState, MockInsert
<1>4. ASSUME sessions'[s] = sessions[s] \/ sessions'[s] = [sessions[s] EXCEPT !.live = "gone"]
      PROVE  /\ sessions'[s].live # "unborn" /\ sessions'[s].client = sessions[s].client
             /\ sessions'[s].offer \in {sessions[s].offer, None}
  BY <1>1, <1>4 DEF Row
<1>5. ASSUME NEW r \in Slots, NEW k \in {"ctInTime", "ctDeferred"}, MockToken(r, k)
      PROVE  sessions'[s] = sessions[s] \/ sessions'[s] = [sessions[s] EXCEPT !.live = "gone"]
  BY <1>5 DEF MockToken
<1>6. ASSUME NEW o \in Offers, DeleteOffer(o)
      PROVE  sessions'[s] = sessions[s] \/ sessions'[s] = [sessions[s] EXCEPT !.live = "gone"]
  BY <1>6 DEF DeleteOffer
<1> QED BY <1>2, <1>3, <1>4, <1>5, <1>6, SessionsWriters

\* A record keeps its subject and its offer.
LEMMA SubjectLasts ==
  ASSUME RInv, [Next]_vars, NEW v, Born(v, vcs)
  PROVE  /\ Born(v, vcs') /\ vcs'[v].kind = vcs[v].kind
         /\ vcs'[v].client = vcs[v].client /\ vcs'[v].offer = vcs[v].offer
<1> DEFINE Lasts == vcs'[v].client = vcs[v].client /\ vcs'[v].offer = vcs[v].offer
<1>1. v \in Vcs /\ vcs[v] \in VcRow /\ vcs \in [Vcs -> VcRow]
  BY Types DEF Born
<1>2. ASSUME NEW w \in Vcs, NEW status, vcs' = Marked(w, status)
      PROVE  Lasts
  BY <1>1, <1>2 DEF Marked, VcRow
<1>3. ASSUME NEW r \in Slots, Marks(r) PROVE Lasts
  BY <1>2, <1>3, MarksFacts, Types
<1>4. ASSUME NEW w \in Vcs, Reject(w) \/ Reopen(w) PROVE Lasts
  BY <1>2, <1>4 DEF Reject, Reopen, SetStatus
<1>5. ASSUME NEW o \in Offers, DeleteOffer(o) PROVE Lasts
  <2>1. vcs'[v] = vcs[v] \/ vcs'[v] = [vcs[v] EXCEPT !.status = "gone"]
    BY <1>1, <1>5 DEF DeleteOffer
  <2> QED
    BY <1>1, <2>1 DEF VcRow
<1>6. ASSUME NEW r \in Slots, NEW w \in Vcs, InsertVc(r, w) PROVE Lasts
  BY <1>1, <1>6 DEF InsertVc, Born
<1>7. Lasts
  BY <1>3, <1>4, <1>5, <1>6, VcsWriters DEF WritesVcs
<1> QED BY <1>1, <1>7, RecordsLast, Types

LEMMA ServedLasts ==
  ASSUME RInv, [Next]_vars, NEW ref, Served(ref, vcs, entries)
  PROVE  Served(ref, vcs', entries')
<1>1. PICK v \in Vcs : vcs[v].offer = ref /\ Backed(v, vcs, entries)
  BY DEF Served
<1>2. Backed(v, vcs', entries') /\ vcs'[v].offer = ref
  BY <1>1, BackedLasts, SubjectLasts, Types DEF Backed
<1> QED BY <1>2 DEF Served

-----------------------------------------------------------------------------
(***************************************************************************)
(* Records.                                                                *)
(***************************************************************************)

\* What InsertVc relies on and does.
LEMMA InsertFacts ==
  ASSUME RInv, NEW r \in Slots, NEW v \in Vcs, InsertVc(r, v)
  PROVE  LET row == req[r].row IN
         /\ row \in Row /\ MadeFor(row.client, row.offer, offers) /\ Insertable(row.offer)
         /\ row.offer # None => row.offer \in Offers /\ offers[row.offer].live = "live"
         /\ vcs[v].status = "unborn" /\ vcs'[v].status = "pending"
         /\ vcs'[v].client = row.client /\ vcs'[v].offer = row.offer
         /\ \A w \in Vcs : w # v => vcs'[w] = vcs[w]
         /\ offers' = offers
<1>1. req[r].row \in Row
  BY SlotFacts, Types
<1>2. MadeFor(req[r].row.client, req[r].row.offer, offers)
  BY DEF RInv, TasksOK, TaskOK
<1>3. OfferHolds(req[r].row.offer) /\ Insertable(req[r].row.offer)
  BY DEF InsertVc, Insertable
<1>4. req[r].row.offer # None => req[r].row.offer \in Offers /\ offers[req[r].row.offer].live = "live"
  BY <1>2, <1>3 DEF MadeFor, OfferHolds, LiveOffer
<1>5. vcs \in [Vcs -> VcRow]
  BY Types
<1> QED BY <1>1, <1>2, <1>3, <1>4, <1>5 DEF InsertVc

LEMMA VcsStep ==
  ASSUME RInv, [Next]_vars
  PROVE  VcsOK'
<1> SUFFICES ASSUME NEW v \in Vcs PROVE VcOK(v, offers', vcs')
  BY DEF VcsOK
<1>1. vcs \in [Vcs -> VcRow] /\ vcs[v] \in VcRow /\ offers \in [Offers -> OfferRow]
  BY Types
<1>2. VcOK(v, offers, vcs)
  BY DEF RInv, VcsOK
<1> DEFINE Gone(os) == vcs[v].offer # None /\ os[vcs[v].offer].live = "gone"
\* The record is one that was there before the step.
<1>3. ASSUME Born(v, vcs),
             vcs'[v].status = "gone" <=> Gone(offers'),
             vcs'[v].status = "issued" /\ vcs[v].kind = "plain" => vcs[v].offer # None
      PROVE  VcOK(v, offers', vcs')
  <2>1. vcs'[v].kind = vcs[v].kind /\ vcs'[v].client = vcs[v].client
        /\ vcs'[v].offer = vcs[v].offer
    BY <1>3, SubjectLasts
  <2>2. MadeFor(vcs'[v].client, vcs'[v].offer, offers')
    BY <1>2, <1>3, <2>1, MadeForLasts DEF VcOK
  <2> QED BY <1>3, <2>1, <2>2 DEF VcOK
<1>4. ASSUME Born(v, vcs), \A o \in Offers : offers[o].live # "unborn" =>
                              (offers'[o].live = "gone" <=> offers[o].live = "gone")
      PROVE  Gone(offers') <=> Gone(offers)
  BY <1>2, <1>4 DEF VcOK, MadeFor
<1>5. ASSUME vcs' = vcs, \A o \in Offers : offers[o].live # "unborn" =>
                              (offers'[o].live = "gone" <=> offers[o].live = "gone")
      PROVE  VcOK(v, offers', vcs')
  <2>1. CASE Born(v, vcs)
    BY <1>2, <1>3, <1>4, <1>5, <2>1 DEF VcOK
  <2>2. CASE ~Born(v, vcs)
    BY <1>5, <2>2 DEF VcOK
  <2> QED BY <2>1, <2>2
<1>6. ASSUME offers' = offers, NEW w \in Vcs, NEW status \in {"pending", "issued", "rejected"},
             vcs' = Marked(w, status),
             status = "issued" /\ vcs[w].kind = "plain" => vcs[w].offer # None
      PROVE  VcOK(v, offers', vcs')
  <2>1. CASE v = w /\ LiveVc(v)
    <3>1. vcs'[v].status = status
      BY <1>1, <1>6, <2>1 DEF Marked, VcRow
    <3>2. Born(v, vcs) /\ vcs[v].status # "gone"
      BY <2>1 DEF LiveVc, Born
    <3>3. ~Gone(offers')
      BY <1>2, <1>6, <3>2 DEF VcOK
    <3> QED BY <1>3, <1>6, <2>1, <3>1, <3>2, <3>3
  <2>2. CASE ~(v = w /\ LiveVc(v))
    <3>1. vcs'[v] = vcs[v]
      BY <1>1, <1>6, <2>2 DEF Marked, VcRow
    <3> QED BY <1>2, <1>6, <3>1 DEF VcOK, Born
  <2> QED BY <2>1, <2>2
<1>7. ASSUME NEW r \in Slots, Marks(r) PROVE VcOK(v, offers', vcs')
  <2>1. req[r].v \in Vcs /\ vcs' = Marked(req[r].v, "issued") /\ offers' = offers
    BY <1>7, MarksFacts, Types DEF Marks, MarkIssued, MarkAgain, ConfMark, ItDeferMark
  <2>2. vcs[req[r].v].kind = "plain" => vcs[req[r].v].offer # None
    BY <1>7 DEF RInv, TasksOK, TaskOK, Marks, MarkIssued, MarkAgain, ConfMark, ItDeferMark, Busy
  <2> QED BY <1>6, <2>1, <2>2
<1>8. ASSUME NEW w \in Vcs, Reject(w) \/ Reopen(w) PROVE VcOK(v, offers', vcs')
  BY <1>6, <1>8 DEF Reject, Reopen, SetStatus
<1>9. ASSUME NEW o \in Offers, DeleteOffer(o) PROVE VcOK(v, offers', vcs')
  <2>1. offers' = [offers EXCEPT ![o].live = "gone"]
        /\ vcs'[v] = (IF LiveVc(v) /\ vcs[v].offer = o THEN [vcs[v] EXCEPT !.status = "gone"]
                      ELSE vcs[v])
    BY <1>9 DEF DeleteOffer
  <2>2. CASE Born(v, vcs)
    <3>1. CASE vcs[v].offer = o
      <4>1. offers'[o].live = "gone" /\ o # None
        BY <1>1, <2>1, Types DEF OfferRow
      <4>2. vcs'[v].status = "gone"
        BY <1>1, <2>1, <2>2, <3>1 DEF LiveVc, Born, VcRow
      <4> QED BY <1>3, <2>2, <3>1, <4>1, <4>2
    <3>2. CASE vcs[v].offer # o
      <4>1. vcs'[v] = vcs[v]
        BY <2>1, <3>2
      <4>2. vcs[v].offer # None => vcs[v].offer \in Offers
        BY <1>2, <2>2 DEF VcOK, MadeFor
      <4>3. Gone(offers') <=> Gone(offers)
        BY <1>1, <2>1, <3>2, <4>2
      <4> QED BY <1>2, <1>3, <2>2, <4>1, <4>3 DEF VcOK
    <3> QED BY <3>1, <3>2
  <2>3. CASE ~Born(v, vcs)
    BY <2>1, <2>3 DEF VcOK, LiveVc, Born
  <2> QED BY <2>2, <2>3
<1>10. ASSUME NEW r \in Slots, NEW w \in Vcs, InsertVc(r, w) PROVE VcOK(v, offers', vcs')
  <2>1. CASE v = w
    BY <1>10, <2>1, InsertFacts DEF VcOK
  <2>2. CASE v # w
    BY <1>2, <1>10, <2>2, InsertFacts DEF VcOK, Born
  <2> QED BY <2>1, <2>2
<1>11. ASSUME UNCHANGED vcs PROVE VcOK(v, offers', vcs')
  <2>1. ASSUME NEW r \in Slots, NEW p \in Offers, NEW f \in OfferForms, NEW c \in Clients,
               CreateOffer(r, p, f, c)
        PROVE  VcOK(v, offers', vcs')
    BY <1>1, <1>5, <1>11, <2>1 DEF CreateOffer
  <2>2. ASSUME NEW r \in Slots, NEW p \in Offers, InsertScopeOffer(r, p)
        PROVE  VcOK(v, offers', vcs')
    BY <1>1, <1>5, <1>11, <2>2 DEF InsertScopeOffer
  <2>3. ASSUME UNCHANGED offers PROVE VcOK(v, offers', vcs')
    BY <1>5, <1>11, <2>3
  <2> QED BY <1>9, <2>1, <2>2, <2>3, OffersWriters
<1> QED BY <1>7, <1>8, <1>9, <1>10, <1>11, VcsWriters DEF WritesVcs

\* The unique offerId lets an offer have one live record; a deleted one shares
\* the fate of its offer, for which nothing is inserted any more.
LEMMA OneStep ==
  ASSUME RInv, [Next]_vars
  PROVE  OnePerOffer(vcs')
<1>1. ASSUME NEW r \in Slots, NEW x \in Vcs, InsertVc(r, x) PROVE OnePerOffer(vcs')
  <2>1. ASSUME NEW w \in Vcs, w # x, Born(w, vcs), vcs[w].offer = req[r].row.offer,
               req[r].row.offer # None
        PROVE  FALSE
    <3>1. ~LiveVc(w)
      BY <1>1, <2>1, InsertFacts DEF Insertable
    <3>2. vcs[w].status = "gone"
      BY <2>1, <3>1, Types DEF LiveVc, Born, VcRow
    <3>3. offers[req[r].row.offer].live = "gone"
      BY <2>1, <3>2 DEF RInv, VcsOK, VcOK
    <3> QED BY <1>1, <2>1, <3>3, InsertFacts
  <2> SUFFICES ASSUME NEW v \in Vcs, NEW w \in Vcs, Born(v, vcs'), Born(w, vcs'),
                      vcs'[v].offer = vcs'[w].offer, vcs'[v].offer # None, v # w
               PROVE  FALSE
    BY DEF OnePerOffer
  <2>2. CASE v = x
    BY <1>1, <2>1, <2>2, InsertFacts DEF Born
  <2>3. CASE w = x
    BY <1>1, <2>1, <2>3, InsertFacts DEF Born
  <2>4. CASE v # x /\ w # x
    BY <1>1, <2>4, InsertFacts DEF Born, RInv, OnePerOffer
  <2> QED BY <2>2, <2>3, <2>4
<1>2. ASSUME \A v \in Vcs : Born(v, vcs') => Born(v, vcs) PROVE OnePerOffer(vcs')
  BY <1>2, SubjectLasts DEF RInv, OnePerOffer
<1>3. ASSUME NEW w \in Vcs, NEW status, vcs' = Marked(w, status)
      PROVE  \A v \in Vcs : Born(v, vcs') => Born(v, vcs)
  BY <1>3, Types DEF Marked, LiveVc, Born, VcRow
<1>4. ASSUME NEW r \in Slots, Marks(r) PROVE OnePerOffer(vcs')
  BY <1>2, <1>3, <1>4, MarksFacts, Types
<1>5. ASSUME NEW w \in Vcs, Reject(w) \/ Reopen(w) PROVE OnePerOffer(vcs')
  BY <1>2, <1>3, <1>5 DEF Reject, Reopen, SetStatus
<1>6. ASSUME NEW o \in Offers, DeleteOffer(o) PROVE OnePerOffer(vcs')
  <2>1. \A v \in Vcs : Born(v, vcs') => Born(v, vcs)
    BY <1>6 DEF DeleteOffer, LiveVc, Born
  <2> QED BY <1>2, <2>1
<1>7. ASSUME UNCHANGED vcs PROVE OnePerOffer(vcs')
  BY <1>7 DEF RInv
<1> QED BY <1>1, <1>4, <1>5, <1>6, <1>7, VcsWriters DEF WritesVcs

-----------------------------------------------------------------------------
(***************************************************************************)
(* Sessions.                                                               *)
(***************************************************************************)
LEMMA SessionsStep ==
  ASSUME RInv, [Next]_vars
  PROVE  SessionsOK'
<1> SUFFICES ASSUME NEW s \in Sessions
             PROVE  SessionOK(s, offers', sessions', vcs', entries')
  BY DEF SessionsOK
<1>1. sessions \in [Sessions -> Row] /\ sessions[s] \in Row
      /\ SessionOK(s, offers, sessions, vcs, entries)
  BY Types DEF RInv, SessionsOK
<1>2. ASSUME sessions'[s].client = sessions[s].client,
             sessions'[s].offer \in {sessions[s].offer, None},
             sessions'[s].status \in {sessions[s].status, "unclaimed"}
      PROVE  SessionOK(s, offers', sessions', vcs', entries')
  <2>1. MadeFor(sessions'[s].client, sessions'[s].offer, offers')
    BY <1>1, <1>2, MadeForLasts DEF SessionOK, MadeFor
  <2>2. ASSUME sessions'[s].status = "claimed", sessions'[s].offer # None
        PROVE  Served(sessions'[s].offer, vcs', entries')
    BY <1>1, <1>2, <2>2, ServedLasts DEF SessionOK
  <2> QED BY <2>1, <2>2 DEF SessionOK
<1>3. ASSUME sessions'[s] = sessions[s] \/ sessions'[s] = [sessions[s] EXCEPT !.live = "gone"]
      PROVE  SessionOK(s, offers', sessions', vcs', entries')
  <2>1. sessions'[s].client = sessions[s].client /\ sessions'[s].offer = sessions[s].offer
        /\ sessions'[s].status = sessions[s].status
    BY <1>1, <1>3 DEF Row
  <2> QED BY <1>2, <2>1
<1>4. ASSUME NEW r \in Slots, Saves(r) PROVE SessionOK(s, offers', sessions', vcs', entries')
  <2>1. CASE s # req[r].s
    BY <1>3, <1>4, <2>1, SavesFacts, SavedFields
  <2>2. CASE s = req[r].s
    <3>1. /\ sessions'[s].client = sessions[s].client
          /\ sessions'[s].offer \in {sessions[s].offer, None}
          /\ sessions'[s].status = req[r].row.status
      BY <1>4, <2>2, SavesFacts, SavedFields
    <3>2. CASE req[r].pc # "claimSave"
      <4>1. req[r].row.status = "unclaimed"
        BY <1>4, <3>2, SavesFacts DEF Saving, Unclaiming, RInv, TasksOK, TaskOK
      <4> QED BY <1>2, <3>1, <4>1
    <3>3. CASE req[r].pc = "claimSave"
      <4>1. Backed(req[r].v, vcs, entries)
        BY <3>3, SlotFacts, Types DEF NeedBacked
      <4>2. req[r].s # None
        BY <1>4, SavesFacts, Types
      <4>3. sessions[s].offer \in {vcs[req[r].v].offer, None}
        BY <2>2, <3>3, <4>2 DEF RInv, TasksOK, TaskOK, Issuing
      <4>4. sessions'[s].offer # None => Served(sessions'[s].offer, vcs, entries)
        BY <3>1, <4>1, <4>3 DEF Served, Backed, Born
      <4>5. MadeFor(sessions'[s].client, sessions'[s].offer, offers')
        BY <1>1, <3>1, MadeForLasts DEF SessionOK, MadeFor
      <4> QED BY <4>4, <4>5, ServedLasts DEF SessionOK
    <3> QED BY <3>2, <3>3
  <2> QED BY <2>1, <2>2
<1>5. ASSUME NEW r \in Slots, NEW x \in Sessions, InsertState(r, x) \/ MockInsert(r, x)
      PROVE  SessionOK(s, offers', sessions', vcs', entries')
  <2>1. CASE s = x
    <3>1. sessions'[s] = req[r].row
      BY <1>1, <1>5, <2>1 DEF InsertState, MockInsert
    <3>2. req[r].row.status = "unclaimed" /\ MadeFor(req[r].row.client, req[r].row.offer, offers)
      BY <1>5 DEF RInv, TasksOK, TaskOK, Unclaiming, InsertState, MockInsert, Busy
    <3>3. MadeFor(req[r].row.client, req[r].row.offer, offers')
      BY <3>2, MadeForLasts
    <3> QED BY <3>1, <3>2, <3>3 DEF SessionOK
  <2>2. CASE s # x
    BY <1>1, <1>3, <1>5, <2>2 DEF InsertState, MockInsert
  <2> QED BY <2>1, <2>2
<1>6. ASSUME NEW r \in Slots, NEW k \in {"ctInTime", "ctDeferred"}, MockToken(r, k)
      PROVE  SessionOK(s, offers', sessions', vcs', entries')
  BY <1>3, <1>6 DEF MockToken
<1>7. ASSUME NEW o \in Offers, DeleteOffer(o)
      PROVE  SessionOK(s, offers', sessions', vcs', entries')
  BY <1>3, <1>7 DEF DeleteOffer
<1>8. ASSUME UNCHANGED sessions PROVE SessionOK(s, offers', sessions', vcs', entries')
  BY <1>3, <1>8
<1> QED BY <1>4, <1>5, <1>6, <1>7, <1>8, SessionsWriters

-----------------------------------------------------------------------------
(***************************************************************************)
(* Handlers in flight.                                                     *)
(***************************************************************************)

\* What a handler relies on survives the steps of all others.
LEMMA TaskLasts ==
  ASSUME RInv, [Next]_vars, NEW r \in Slots
  PROVE  TaskOK(req[r], offers', sessions', vcs')
<1> DEFINE q == req[r]
<1>1. TaskOK(q, offers, sessions, vcs) /\ SlotOK(q, vcs, entries) /\ q \in Slot
  BY Types DEF RInv, TasksOK, IInv, SlotsOK
<1>2. q.s \in Sessions \cup {None} /\ (q.pc \in NeedSession => q.s \in Sessions)
  BY <1>1, SlotFields DEF SlotOK
<1>3. q.pc \in Issuing \cup {"confRead", "confMark", "itDeferMark"} => Born(q.v, vcs)
  BY <1>1 DEF SlotOK, Backed, Issuing, NeedBorn, NeedBacked
<1>4. MadeFor(q.row.client, q.row.offer, offers')
  BY <1>1, MadeForLasts DEF TaskOK
<1>5. q.pc \in NeedSession => q.s # None
  BY <1>2, Types
<1>6. ASSUME q.pc \in NeedSession \cup Issuing, q.s # None
      PROVE  /\ sessions'[q.s].live # "unborn" /\ sessions'[q.s].client = sessions[q.s].client
             /\ sessions'[q.s].offer \in {sessions[q.s].offer, None}
  BY <1>1, <1>2, <1>6, SessionsLast DEF TaskOK
<1>7. ASSUME q.pc \in Issuing \cup {"confRead", "confMark", "itDeferMark"}
      PROVE  vcs'[q.v].offer = vcs[q.v].offer /\ vcs'[q.v].kind = vcs[q.v].kind
  BY <1>3, <1>7, SubjectLasts
<1>8. Saving \cup Requesting \subseteq NeedSession
      /\ {"addEntry", "markIssued", "markAgain"} \subseteq Issuing
  BY DEF Saving, Requesting, NeedSession, Issuing
<1>9. /\ q.pc \in Saving => q.row.client = sessions'[q.s].client
      /\ q.pc \in Requesting => sessions'[q.s].offer \in {q.row.offer, None}
  BY <1>1, <1>5, <1>6, <1>8 DEF TaskOK
<1>10. q.pc \in Issuing /\ q.s # None => sessions'[q.s].offer \in {vcs'[q.v].offer, None}
  BY <1>1, <1>6, <1>7 DEF TaskOK
<1> QED BY <1>1, <1>4, <1>6, <1>7, <1>8, <1>9, <1>10 DEF TaskOK

LEMMA TaskOthers ==
  ASSUME RInv, [Next]_vars, NEW r \in Slots, NEW f, req' = [req EXCEPT ![r] = f],
         TaskOK(f, offers', sessions', vcs')
  PROVE  TasksOK'
<1> SUFFICES ASSUME NEW x \in Slots PROVE TaskOK(req'[x], offers', sessions', vcs')
  BY DEF TasksOK
<1>1. req'[x] = IF x = r THEN f ELSE req[x]
  BY Types
<1> QED BY <1>1, TaskLasts

LEMMA TaskAll ==
  ASSUME RInv, [Next]_vars, req' = req
  PROVE  TasksOK'
BY TaskLasts DEF TasksOK

\* Nothing is relied on in these places.
Free == {"idle", "reply", "mockFind"}

LEMMA FreeOK ==
  ASSUME NEW q, NEW os, NEW ss, NEW vs, q.pc \in Free, q.row.offer = None
  PROVE  TaskOK(q, os, ss, vs)
BY DEF TaskOK, MadeFor, Free, NeedSession, Issuing, Saving, Unclaiming, Requesting

LEMMA IdleFields ==
  /\ Idle \in Slot /\ Idle.pc = "idle" /\ Idle.s = None /\ Idle.row = NoRow
  /\ NoRow \in Row /\ NoRow.offer = None /\ NoRow.status = "unclaimed"
BY IdleType, NoRowType DEF Idle, NoRow

LEMMA TaskEnd ==
  ASSUME RInv, [Next]_vars, NEW r \in Slots, End(r)
  PROVE  TasksOK'
<1>1. TaskOK(Idle, offers', sessions', vcs')
  BY IdleFields, FreeOK DEF Free
<1> QED BY <1>1, TaskOthers DEF End

LEMMA TaskAnswer ==
  ASSUME RInv, [Next]_vars, NEW r \in Slots, NEW m,
         req' = [req EXCEPT ![r] = [Idle EXCEPT !.pc = "reply", !.msg = m]]
  PROVE  TasksOK'
<1> DEFINE f == [Idle EXCEPT !.pc = "reply", !.msg = m]
<1>1. f.pc = "reply" /\ f.row = NoRow
  BY DEF Idle
<1>2. TaskOK(f, offers', sessions', vcs')
  <2> HIDE DEF f
  <2> QED BY <1>1, IdleFields, FreeOK DEF Free
<1> QED BY <1>2, TaskOthers

\* A handler that begins to make a row.
LEMMA TaskRow ==
  ASSUME RInv, [Next]_vars, NEW r \in Slots, NEW pc \in {"insertState", "scopeOffer", "mockCheck"},
         NEW c, NEW scope, NEW o, NEW k, NEW step,
         Start(r, [Idle EXCEPT !.pc = pc, !.row = NewRow(c, scope, o, k, step)]),
         MadeFor(c, o, offers')
  PROVE  TasksOK'
<1> DEFINE row == NewRow(c, scope, o, k, step)
           f   == [Idle EXCEPT !.pc = pc, !.row = row]
<1>1. row.client = c /\ row.offer = o /\ row.status = "unclaimed"
  BY DEF NewRow, NoRow
<1>2. f.pc = pc /\ f.row = row /\ f.s = None
  <2> HIDE DEF row
  <2> QED BY DEF Idle
<1>3. TaskOK(f, offers', sessions', vcs')
  <2> HIDE DEF f, row
  <2> QED BY <1>1, <1>2 DEF TaskOK, NeedSession, Issuing, Saving, Unclaiming, Requesting
<1> QED BY <1>3, TaskOthers DEF Start

\* One that has found its session.
LEMMA TaskFound ==
  ASSUME RInv, [Next]_vars, NEW r \in Slots, NEW s \in Sessions, NEW n,
         NEW pc \in {"postRead", "tokenRead"}, LiveSession(s),
         req' = [req EXCEPT ![r] = [Idle EXCEPT !.pc = pc, !.s = s, !.n = n]]
  PROVE  TasksOK'
<1> DEFINE f == [Idle EXCEPT !.pc = pc, !.s = s, !.n = n]
<1>1. f.pc = pc /\ f.row = NoRow /\ f.s = s
  BY DEF Idle
<1>2. sessions'[s].live # "unborn"
  BY SessionsLast DEF LiveSession
<1>3. TaskOK(f, offers', sessions', vcs')
  <2> HIDE DEF f
  <2> QED BY <1>1, <1>2, IdleFields
          DEF TaskOK, MadeFor, NeedSession, Issuing, Saving, Unclaiming, Requesting
<1> QED BY <1>3, TaskOthers

\* One that has read its session, and will save what it made of it.
LEMMA TaskRead ==
  ASSUME RInv, [Next]_vars, NEW r \in Slots, NEW pc \in Saving, NEW row,
         req[r].s \in Sessions, LiveSession(req[r].s),
         row.client = sessions[req[r].s].client, row.offer = sessions[req[r].s].offer,
         pc # "claimSave" => row.status = "unclaimed",
         pc = "claimSave" => req[r].pc = "claimRead",
         req' = [req EXCEPT ![r] = [req[r] EXCEPT !.pc = pc, !.row = row]]
  PROVE  TasksOK'
<1> DEFINE q == req[r]
           f == [q EXCEPT !.pc = pc, !.row = row]
<1>1. q \in Slot /\ TaskOK(q, offers', sessions', vcs')
  BY Types, TaskLasts
<1>2. f.pc = pc /\ f.row = row /\ f.s = q.s /\ f.v = q.v
  BY <1>1 DEF Slot
<1>3. SessionOK(q.s, offers, sessions, vcs, entries)
  BY DEF RInv, SessionsOK
<1>4. MadeFor(row.client, row.offer, offers')
  BY <1>3, MadeForLasts DEF SessionOK
<1>5. sessions'[q.s].live # "unborn" /\ sessions'[q.s].client = row.client
  BY SessionsLast DEF LiveSession
<1>6. TaskOK(f, offers', sessions', vcs')
  <2> HIDE DEF f
  <2> QED BY <1>1, <1>2, <1>4, <1>5
          DEF TaskOK, Saving, NeedSession, Issuing, Unclaiming, Requesting
<1> QED BY <1>6, TaskOthers

\* One that goes on with what it has.
LEMMA TaskGoto ==
  ASSUME RInv, [Next]_vars, NEW r \in Slots, NEW pc, Goto(r, pc),
         pc \notin Saving,
         pc \in NeedSession \cup Issuing =>
            req[r].pc \in NeedSession \cup Issuing \/ req[r].s = None,
         pc \in Unclaiming => req[r].pc \in Unclaiming,
         pc \in Requesting => req[r].pc \in Requesting,
         pc \in Issuing => req[r].pc \in Issuing,
         pc \in {"addEntry", "markIssued", "markAgain"} => vcs'[req[r].v].offer # None,
         pc \in {"confRead", "confMark", "itDeferMark"} => vcs'[req[r].v].kind # "plain"
  PROVE  TasksOK'
<1> DEFINE q == req[r]
           f == [q EXCEPT !.pc = pc]
<1>1. q \in Slot /\ TaskOK(q, offers', sessions', vcs')
  BY Types, TaskLasts
<1>2. f.pc = pc /\ f.row = q.row /\ f.s = q.s /\ f.v = q.v
  BY <1>1 DEF Slot
<1>3. TaskOK(f, offers', sessions', vcs')
  <2> HIDE DEF f
  <2> QED BY <1>1, <1>2 DEF TaskOK
<1> QED BY <1>3, TaskOthers DEF Goto

-----------------------------------------------------------------------------
(***************************************************************************)
(* The steps of handlers, by who takes them.                               *)
(***************************************************************************)
LEMMA AdminTasks ==
  ASSUME RInv, [Next]_vars, AdminNext
  PROVE  TasksOK'
<1>1. ASSUME NEW r \in Slots, NEW o \in Offers, NEW f \in OfferForms, NEW c \in Clients,
             CreateOffer(r, o, f, c)
      PROVE  TasksOK'
  <2>1. offers'[o].live = "live" /\ offers'[o].client = c
    BY <1>1, Types DEF CreateOffer
  <2>2. MadeFor(c, o, offers')
    BY <2>1 DEF MadeFor
  <2>3. CASE f.grant = "pre"
    BY <1>1, <2>2, <2>3, TaskRow DEF CreateOffer
  <2>4. CASE f.grant # "pre"
    BY <1>1, <2>4, TaskAll DEF CreateOffer
  <2> QED BY <2>3, <2>4
<1>2. ASSUME NEW r \in Slots, NEW v \in Vcs, Approve(r, v) PROVE TasksOK'
  <2> DEFINE f == [Idle EXCEPT !.pc = "issueRead", !.v = v]
  <2>1. f.pc = "issueRead" /\ f.row = NoRow /\ f.s = None
    BY DEF Idle
  <2>2. TaskOK(f, offers', sessions', vcs')
    <3> HIDE DEF f
    <3> QED BY <2>1, IdleFields
            DEF TaskOK, MadeFor, NeedSession, Issuing, Saving, Unclaiming, Requesting
  <2> QED BY <1>2, <2>2, TaskOthers DEF Approve, Start
<1>3. ASSUME NEW v \in Vcs, Reject(v) \/ Reopen(v) PROVE TasksOK'
  BY <1>3, TaskAll DEF Reject, Reopen, SetStatus
<1>4. ASSUME NEW o \in Offers, DeleteOffer(o) PROVE TasksOK'
  BY <1>4, TaskAll DEF DeleteOffer
<1>5. ASSUME NEW c \in Clients, DetachDid(c) PROVE TasksOK'
  BY <1>5, TaskAll DEF DetachDid
<1> QED BY <1>1, <1>2, <1>3, <1>4, <1>5 DEF AdminNext

LEMMA WalletTasks ==
  ASSUME RInv, [Next]_vars, WalletNext
  PROVE  TasksOK'
<1>1. ASSUME NEW r \in Slots, NEW c \in Clients, AuthorizeOpenid(r, c) \/ AuthorizeScope(r, c)
      PROVE  TasksOK'
  <2>1. MadeFor(c, None, offers')
    BY DEF MadeFor
  <2> QED BY <1>1, <2>1, TaskRow DEF AuthorizeOpenid, AuthorizeScope
<1>2. ASSUME NEW r \in Slots, NEW c \in Clients, NEW o \in Offers, AuthorizeOffer(r, c, o)
      PROVE  TasksOK'
  <2>1. MadeFor(c, o, offers')
    BY <1>2 DEF AuthorizeOffer, LiveOffer, MadeFor, tables
  <2> QED BY <1>2, <2>1, TaskRow DEF AuthorizeOffer
<1>3. ASSUME NEW r \in Slots, NEW s \in Sessions,
             DirectPost(r, s) \/ StandardToken(r, s) \/ PreAuthToken(r, s)
      PROVE  TasksOK'
  BY <1>3, TaskFound DEF DirectPost, StandardToken, PreAuthToken, Mint, Start
<1>4. ASSUME NEW r \in Slots, NEW s \in Sessions, Credential(r, s) PROVE TasksOK'
  <2> DEFINE row == [sessions[s] EXCEPT !.kind = KindOf(sessions[s])]
             f   == [Idle EXCEPT !.pc = "findDid", !.s = s, !.row = row]
  <2>1. sessions[s] \in Row /\ LiveSession(s) /\ sessions' = sessions
    BY <1>4, Types DEF Credential, CanRequest, tables
  <2>2. row.client = sessions[s].client /\ row.offer = sessions[s].offer
    BY <2>1 DEF Row
  <2>3. f.pc = "findDid" /\ f.row = row /\ f.s = s
    BY DEF Idle
  <2>4. MadeFor(row.client, row.offer, offers')
    BY <2>2, MadeForLasts DEF RInv, SessionsOK, SessionOK
  <2>5. TaskOK(f, offers', sessions', vcs')
    <3> HIDE DEF f, row
    <3> QED BY <2>1, <2>2, <2>3, <2>4
            DEF TaskOK, LiveSession, NeedSession, Issuing, Saving, Unclaiming, Requesting
  <2> QED BY <1>4, <2>5, TaskOthers DEF Credential, Start
<1>5. ASSUME NEW r \in Slots, NEW k \in {"ctInTime", "ctDeferred"}, MockToken(r, k)
      PROVE  TasksOK'
  <2>1. MadeFor(MockClient, None, offers')
    BY DEF MadeFor
  <2> QED BY <1>5, <2>1, TaskRow DEF MockToken
<1>6. ASSUME NEW r \in Slots, NEW v \in Vcs, PollIssued(r, v) \/ PollRejected(r, v)
      PROVE  TasksOK'
  BY <1>6, TaskAnswer DEF PollIssued, PollRejected, Poll, Start
<1> QED BY <1>1, <1>2, <1>3, <1>4, <1>5, <1>6 DEF WalletNext

\* Handlers that make a row, or read their session and save it.
LEMMA RowTasks ==
  ASSUME RInv, [Next]_vars, NEW r \in Slots,
         \/ \E o \in Offers : InsertScopeOffer(r, o)
         \/ \E s \in Sessions : InsertState(r, s) \/ MockInsert(r, s) \/ MockFind(r, s)
         \/ InsertStateFails(r) \/ MockCheck(r) \/ MockMissing(r)
         \/ PostRead(r) \/ PostSave(r) \/ TokenRead(r) \/ TokenSave(r)
         \/ ClaimRead(r) \/ ClaimSave(r) \/ DeferRead(r) \/ DeferSave(r)
  PROVE  TasksOK'
<1> USE DEF Busy
<1>1. req[r] \in Slot /\ TaskOK(req[r], offers, sessions, vcs)
      /\ TaskOK(req[r], offers', sessions', vcs')
      /\ (req[r].pc \in NeedSession => req[r].s \in Sessions /\ sessions[req[r].s] \in Row)
  BY Types, TaskLasts, SlotFacts DEF RInv, TasksOK
<1>2. ASSUME NEW o \in Offers, InsertScopeOffer(r, o) PROVE TasksOK'
  <2> DEFINE row == [req[r].row EXCEPT !.offer = o]
             f   == [req[r] EXCEPT !.pc = "insertState", !.row = row]
  <2>1. req[r].row \in Row /\ req[r].row.status = "unclaimed"
    BY <1>1, <1>2, SlotFields DEF TaskOK, Unclaiming, InsertScopeOffer
  <2>2. row.offer = o /\ row.status = "unclaimed"
    BY <2>1 DEF Row
  <2>3. f.pc = "insertState" /\ f.row = row
    <3> HIDE DEF row
    <3> QED BY <1>1 DEF Slot
  <2>4. req' = [req EXCEPT ![r] = f]
    BY <1>1, <1>2, Zenon DEF InsertScopeOffer, Slot
  <2>5. offers'[o].live # "unborn" /\ offers'[o].client = None
    BY <1>2, Types DEF InsertScopeOffer
  <2>6. TaskOK(f, offers', sessions', vcs')
    <3> HIDE DEF f, row
    <3> QED BY <2>2, <2>3, <2>5
            DEF TaskOK, MadeFor, NeedSession, Issuing, Saving, Unclaiming, Requesting
  <2> QED BY <2>4, <2>6, TaskOthers
<1>3. ASSUME NEW s \in Sessions, InsertState(r, s) PROVE TasksOK'
  BY <1>3, TaskEnd, TaskAnswer DEF InsertState, Answer
<1>4. ASSUME NEW s \in Sessions, MockInsert(r, s) PROVE TasksOK'
  BY <1>4, TaskGoto DEF MockInsert, Saving, NeedSession, Issuing, Unclaiming, Requesting
<1>5. ASSUME NEW s \in Sessions, MockFind(r, s) PROVE TasksOK'
  BY <1>5, TaskFound DEF MockFind, MockRows
<1>6. CASE InsertStateFails(r) \/ MockMissing(r)
  BY <1>6, TaskEnd DEF InsertStateFails, MockMissing
<1>7. CASE MockCheck(r)
  BY <1>7, TaskEnd, TaskGoto
     DEF MockCheck, Saving, NeedSession, Issuing, Unclaiming, Requesting
<1>8. CASE PostRead(r)
  <2> DEFINE row == [sessions[req[r].s] EXCEPT !.step = "authResponse", !.status = "unclaimed",
                                               !.code = req[r].n]
  <2>1. req[r].s \in Sessions /\ sessions[req[r].s] \in Row
    BY <1>1, <1>8 DEF PostRead, NeedSession
  <2>2. row.client = sessions[req[r].s].client /\ row.offer = sessions[req[r].s].offer
        /\ row.status = "unclaimed"
    BY <2>1 DEF Row
  <2>3. \/ LiveSession(req[r].s) /\ req' = [req EXCEPT ![r] = [req[r] EXCEPT !.pc = "postSave",
                                                                             !.row = row]]
        \/ Answer(r, Msg("code", req[r].s, req[r].n, None))
    BY <1>1, <1>8 DEF PostRead
  <2> HIDE DEF row
  <2> QED BY <2>1, <2>2, <2>3, TaskRead, TaskAnswer DEF Answer, Saving
<1>9. CASE TokenRead(r)
  <2> DEFINE row == [sessions[req[r].s] EXCEPT !.step = "tokenRequest", !.status = "unclaimed",
                                               !.nonce = req[r].n]
  <2>1. req[r].s \in Sessions /\ sessions[req[r].s] \in Row
    BY <1>1, <1>9 DEF TokenRead, NeedSession
  <2>2. row.client = sessions[req[r].s].client /\ row.offer = sessions[req[r].s].offer
        /\ row.status = "unclaimed"
    BY <2>1 DEF Row
  <2>3. \/ LiveSession(req[r].s) /\ req' = [req EXCEPT ![r] = [req[r] EXCEPT !.pc = "tokenSave",
                                                                             !.row = row]]
        \/ Answer(r, Msg("nonce", req[r].s, req[r].n, None))
    BY <1>1, <1>9 DEF TokenRead
  <2> HIDE DEF row
  <2> QED BY <2>1, <2>2, <2>3, TaskRead, TaskAnswer DEF Answer, Saving
<1>10. CASE DeferRead(r)
  <2> DEFINE row == [sessions[req[r].s] EXCEPT !.step = "deferredRequest",
                                               !.status = "unclaimed"]
  <2>1. req[r].s \in Sessions /\ sessions[req[r].s] \in Row
    BY <1>1, <1>10 DEF DeferRead, NeedSession
  <2>2. row.client = sessions[req[r].s].client /\ row.offer = sessions[req[r].s].offer
        /\ row.status = "unclaimed"
    BY <2>1 DEF Row
  <2>3. \/ LiveSession(req[r].s) /\ req' = [req EXCEPT ![r] = [req[r] EXCEPT !.pc = "deferSave",
                                                                             !.row = row]]
        \/ Answer(r, Msg("token", None, 0, req[r].v))
    BY <1>1, <1>10 DEF DeferRead
  <2> HIDE DEF row
  <2> QED BY <2>1, <2>2, <2>3, TaskRead, TaskAnswer DEF Answer, Saving
<1>11. CASE ClaimRead(r)
  <2> DEFINE row == [sessions[req[r].s] EXCEPT !.status = "claimed"]
  <2>1. req[r].s \in Sessions /\ sessions[req[r].s] \in Row /\ req[r].pc = "claimRead"
    BY <1>1, <1>11 DEF ClaimRead, NeedSession
  <2>2. row.client = sessions[req[r].s].client /\ row.offer = sessions[req[r].s].offer
    BY <2>1 DEF Row
  <2>3. \/ LiveSession(req[r].s) /\ req' = [req EXCEPT ![r] = [req[r] EXCEPT !.pc = "claimSave",
                                                                             !.row = row]]
        \/ Answer(r, Msg("inTime", None, 0, req[r].v))
    BY <1>1, <1>11 DEF ClaimRead
  <2> HIDE DEF row
  <2> QED BY <2>1, <2>2, <2>3, TaskRead, TaskAnswer DEF Answer, Saving
<1>12. CASE PostSave(r) \/ TokenSave(r) \/ ClaimSave(r) \/ DeferSave(r)
  BY <1>12, TaskAnswer DEF PostSave, TokenSave, ClaimSave, DeferSave, Answer
<1> QED BY <1>2, <1>3, <1>4, <1>5, <1>6, <1>7, <1>8, <1>9, <1>10, <1>11, <1>12

\* Handlers that make and issue a credential.
LEMMA IssueTasks ==
  ASSUME RInv, [Next]_vars, NEW r \in Slots,
         \/ FindDid(r) \/ InsertDid(r) \/ EnsureStudent(r)
         \/ \E v \in Vcs : InsertVc(r, v)
         \/ InsertVcFails(r)
         \/ IssueRead(r) \/ AddEntry(r) \/ MarkIssued(r) \/ MarkAgain(r)
         \/ ConfRead(r) \/ ConfMark(r) \/ ItDeferMark(r) \/ Reply(r) \/ Fail(r)
  PROVE  TasksOK'
<1> USE DEF Busy
<1>1. req[r] \in Slot /\ TaskOK(req[r], offers, sessions, vcs)
      /\ TaskOK(req[r], offers', sessions', vcs')
  BY Types, TaskLasts DEF RInv, TasksOK
<1>2. CASE FindDid(r) \/ InsertDid(r) \/ EnsureStudent(r)
  BY <1>2, TaskGoto, TaskEnd DEF FindDid, InsertDid, EnsureStudent, Saving, NeedSession, Issuing,
                                 Unclaiming, Requesting
<1>3. ASSUME NEW v \in Vcs, InsertVc(r, v) PROVE TasksOK'
  <2> DEFINE row == req[r].row
             f   == [req[r] EXCEPT !.pc = Branch(row), !.v = v]
  <2>1. /\ f.pc = Branch(row) /\ f.row = row /\ f.s = req[r].s /\ f.v = v
        /\ req' = [req EXCEPT ![r] = f]
    BY <1>1, <1>3 DEF InsertVc, Slot
  <2>2. row.kind \in Kinds /\ req[r].s \in Sessions
    BY <1>3, SlotFacts, Types DEF InsertVc, NeedKind, NeedSession
  <2>3. /\ Branch(row) \in {"issueRead", "deferRead", "itDeferMark", "confRead"}
        /\ Branch(row) \in {"itDeferMark", "confRead"} => row.kind # "plain"
    BY <2>2 DEF Branch, Kinds
  <2>4. vcs'[v].offer = row.offer /\ vcs'[v].kind = row.kind
    BY <1>3, Types DEF InsertVc
  <2>5. TaskOK(f, offers', sessions', vcs')
    <3>1. sessions'[req[r].s].live # "unborn"
          /\ sessions'[req[r].s].offer \in {row.offer, None}
          /\ MadeFor(row.client, row.offer, offers')
      BY <1>1, <1>3, <2>2, Types DEF TaskOK, InsertVc, NeedSession, Requesting
    <3> HIDE DEF f, row
    <3> QED BY <2>1, <2>3, <2>4, <3>1
            DEF TaskOK, NeedSession, Issuing, Saving, Unclaiming, Requesting
  <2> QED BY <2>1, <2>5, TaskOthers
<1>4. CASE InsertVcFails(r) \/ Reply(r) \/ Fail(r)
  BY <1>4, TaskEnd DEF InsertVcFails, Reply, Fail
<1>5. CASE IssueRead(r)
  <2>1. \/ End(r)
        \/ /\ Goto(r, "addEntry")
           /\ vcs'[req[r].v].offer # None
    BY <1>5 DEF IssueRead, tables
  <2> QED BY <1>5, <2>1, TaskGoto, TaskEnd DEF IssueRead, Saving, NeedSession, Issuing,
                                               Unclaiming, Requesting
<1>6. CASE AddEntry(r)
  <2>1. vcs'[req[r].v].offer # None
    BY <1>1, <1>6 DEF AddEntry, TaskOK
  <2> QED BY <1>6, <2>1, TaskGoto DEF AddEntry, Saving, NeedSession, Issuing, Unclaiming,
                                      Requesting
<1>7. CASE MarkIssued(r)
  <2>1. vcs'[req[r].v].offer # None
    BY <1>1, <1>7 DEF MarkIssued, TaskOK
  <2> QED BY <1>7, <2>1, TaskGoto, TaskEnd DEF MarkIssued, Saving, NeedSession, Issuing,
                                               Unclaiming, Requesting
<1>8. CASE MarkAgain(r)
  BY <1>8, TaskGoto DEF MarkAgain, Saving, NeedSession, Issuing, Unclaiming, Requesting
<1>9. CASE ConfRead(r)
  <2>1. vcs'[req[r].v].kind # "plain"
    BY <1>1, <1>9 DEF ConfRead, TaskOK
  <2> QED BY <1>9, <2>1, TaskGoto, TaskEnd DEF ConfRead, Saving, NeedSession, Issuing,
                                               Unclaiming, Requesting
<1>10. CASE ConfMark(r)
  <2>1. End(r) \/ \E m : Answer(r, m)
    BY <1>10 DEF ConfMark
  <2> QED BY <2>1, TaskEnd, TaskAnswer DEF Answer
<1>11. CASE ItDeferMark(r)
  BY <1>11, TaskAnswer DEF ItDeferMark, Answer
<1> QED BY <1>2, <1>3, <1>4, <1>5, <1>6, <1>7, <1>8, <1>9, <1>10, <1>11

-----------------------------------------------------------------------------
(***************************************************************************)
(* Theorems.                                                               *)
(***************************************************************************)
LEMMA RInvInit == Init => RInv
<1> SUFFICES ASSUME Init PROVE RInv
  OBVIOUS
<1>1. IInv
  BY InitIInv
<1>2. \A v \in Vcs : ~Born(v, vcs)
  BY DEF Init, NoVc, Born
<1>3. VcsOK /\ OnePerOffer(vcs)
  BY <1>2 DEF VcsOK, VcOK, OnePerOffer
<1>4. SessionsOK
  BY DEF Init, NoRow, SessionsOK, SessionOK, MadeFor
<1>5. TasksOK
  BY IdleFields, FreeOK DEF Init, TasksOK, Free
<1> QED BY <1>1, <1>3, <1>4, <1>5 DEF RInv

LEMMA RInvStep == RInv /\ [Next]_vars => RInv'
<1> SUFFICES ASSUME RInv, [Next]_vars PROVE RInv'
  OBVIOUS
<1>1. IInv'
  BY Types, TypeStep, SlotsStep, IssuedStep, DeliveredStep DEF IInv
<1>2. TasksOK'
  <2>1. CASE UNCHANGED vars
    BY <2>1, TaskAll DEF vars
  <2>2. ASSUME NEW r \in Slots, Step(r) PROVE TasksOK'
    BY <2>2, RowTasks, IssueTasks DEF Step
  <2>3. ASSUME NEW r \in Slots, Fail(r) PROVE TasksOK'
    BY <2>3, IssueTasks
  <2> QED BY <2>1, <2>2, <2>3, AdminTasks, WalletTasks DEF Next
<1> QED BY <1>1, <1>2, VcsStep, OneStep, SessionsStep DEF RInv

LEMMA RedemptionInvariant == Spec => []RInv
BY RInvInit, RInvStep, PTL DEF Spec

\* However often codes, nonces and credential requests of an offer are used, in
\* one session or several, and whatever is deleted meanwhile, wallets receive
\* one credential for it (createVerifiableCredentialRecord, REL on offerId).
THEOREM OneForAnOffer == Spec => []OneCredentialPerOffer
<1>1. ASSUME RInv PROVE OneCredentialPerOffer
  <2> SUFFICES ASSUME NEW m1 \in Deliveries, NEW m2 \in Deliveries,
                      vcs[m1.v].offer = vcs[m2.v].offer, vcs[m1.v].offer # None
               PROVE  m1.v = m2.v
    BY DEF OneCredentialPerOffer
  <2>1. \A m \in Deliveries : m.v \in Vcs /\ Born(m.v, vcs)
    BY <1>1 DEF RInv, IInv, DeliveredOK, Delivery, Deliveries, Backed, Born
  <2>2. OnePerOffer(vcs)
    BY <1>1 DEF RInv
  <2> QED BY <2>1, <2>2 DEF OnePerOffer
<1> QED BY <1>1, RedemptionInvariant, PTL

\* A credential for an offer made to a holder is that holder's, through
\* issuer state, session row and record, whichever stale row was saved.
THEOREM SubjectWasOffered == Spec => []SubjectIsOfferee
<1>1. RInv => SubjectIsOfferee
  BY DEF RInv, IInv, DeliveredOK, Delivery, Deliveries, Backed, VcsOK, VcOK, MadeFor, Born,
         SubjectIsOfferee
<1> QED BY <1>1, RedemptionInvariant, PTL

\* No template credential is issued for an offer that is not there any more,
\* although a late save brings the session of a deleted offer back.
THEOREM IssuedHasOffer == Spec => []IssuedBackedByOffer
<1>1. ASSUME RInv PROVE IssuedBackedByOffer
  <2> SUFFICES ASSUME NEW v \in Vcs, vcs[v].status = "issued", vcs[v].kind = "plain"
               PROVE  vcs[v].offer # None /\ LiveOffer(vcs[v].offer)
    BY DEF IssuedBackedByOffer
  <2>1. vcs[v].offer # None /\ vcs[v].offer \in Offers
        /\ offers[vcs[v].offer].live \notin {"unborn", "gone"}
    BY <1>1 DEF RInv, VcsOK, VcOK, MadeFor, Born
  <2> QED BY <1>1, <2>1, Types DEF LiveOffer, OfferRow, Lives
<1> QED BY <1>1, RedemptionInvariant, PTL

\* A session is CLAIMED only when a record for its offer was made and, if it
\* came from a template, has its status list entry.
THEOREM ClaimedWasServed == Spec => []ClaimedWasIssued
<1>1. RInv => ClaimedWasIssued
  BY DEF RInv, SessionsOK, SessionOK, Served, Backed, Born, ClaimedWasIssued
<1> QED BY <1>1, RedemptionInvariant, PTL

=============================================================================
