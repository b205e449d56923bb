--------------------------- MODULE IssuanceProofs ---------------------------
(***************************************************************************)
(* Proofs about Issuance, for every set of clients, offers, sessions,      *)
(* credentials and slots and every bound: the tables keep their types, and *)
(* a credential that is issued or delivered has a status list entry.       *)
(***************************************************************************)
EXTENDS Issuance, TLAPS

(***************************************************************************)
(* The inductive invariant.  Its operators take the tables as parameters,  *)
(* so that the lemmas can compare a slot before and after a step.          *)
(***************************************************************************)
Born(v, vs)       == v \in Vcs /\ vs[v].status # "unborn"
Backed(v, vs, es) == Born(v, vs) /\ (vs[v].kind = "plain" => es[v] > 0)

NeedKind    == {"scopeOffer", "findDid", "insertDid", "ensureStudent", "insertVc"}
NeedSession == {"postRead", "postSave", "tokenRead", "tokenSave", "findDid",
                "insertDid", "ensureStudent", "insertVc", "deferRead", "deferSave",
                "markAgain", "claimRead", "claimSave"}
NeedBorn    == {"issueRead", "addEntry"}
NeedBacked  == {"markIssued", "markAgain", "claimRead", "claimSave", "confRead",
                "confMark", "itDeferMark"}

Delivery(m) == m.type \in {"inTime", "deferred"}

\* What a handler may rely on when it goes on, wherever it was interrupted.
SlotOK(q, vs, es) ==
    /\ q.pc \in NeedKind => q.row.kind \in Kinds
    /\ q.pc \in NeedSession => q.s \in Sessions
    /\ q.pc \in NeedBorn => Born(q.v, vs)
    /\ q.pc \in NeedBacked => Backed(q.v, vs, es)
    /\ q.pc = "reply" /\ Delivery(q.msg) => Backed(q.msg.v, vs, es)

SlotsOK     == \A r \in Slots : SlotOK(req[r], vcs, entries)
IssuedOK    == \A v \in Vcs : vcs[v].status = "issued" => Backed(v, vcs, entries)
DeliveredOK == \A m \in wallet : Delivery(m) => Backed(m.v, vcs, entries)

IInv == TypeOK /\ SlotsOK /\ IssuedOK /\ DeliveredOK

-----------------------------------------------------------------------------
(***************************************************************************)
(* Records and the request table.                                          *)
(***************************************************************************)

\* The rows and messages that handlers start from.
LEMMA NoRowType == NoRow \in Row
  BY SMT DEF NoRow, Row, Lives, Kinds

LEMMA MsgType ==
  ASSUME NEW t \in {"state", "code", "nonce", "token", "inTime", "deferred", "denied"},
         NEW s \in Sessions \cup {None}, NEW n \in Nat, NEW v \in Vcs \cup {None}
  PROVE  Msg(t, s, n, v) \in Message
  BY SMT DEF Msg, Message

LEMMA IdleType == Idle \in Slot
  BY NoRowType, MsgType, SMT DEF Idle, Slot, Pc, NoMsg

\* The fields of a slot and of a session row.
LEMMA SlotFields ==
  ASSUME NEW q \in Slot
  PROVE  /\ q.pc \in Pc /\ q.row \in Row /\ q.msg \in Message /\ q.n \in Nat
         /\ q.s \in Sessions \cup {None} /\ q.v \in Vcs \cup {None}
  BY SMT DEF Slot

LEMMA RowFields ==
  ASSUME NEW row \in Row
  PROVE  /\ row.client \in Clients \cup {None} /\ row.offer \in Offers \cup {None}
         /\ row.kind \in Kinds \cup {"unmapped"} /\ row.nonce \in Nat /\ row.code \in Nat
         /\ row.scope \in {"openid", "vp", "none", "mock"}
  BY SMT DEF Row

LEMMA NewRowType ==
  ASSUME NEW c \in Clients, NEW scope \in {"openid", "vp", "none", "mock"},
         NEW o \in Offers \cup {None}, NEW k \in Kinds \cup {"unmapped"},
         NEW step \in {"authorize", "tokenRequest"}
  PROVE  NewRow(c, scope, o, k, step) \in Row
  BY NoRowType, Zenon DEF NewRow, Row, Lives

\* The three ways a handler moves on, ends, or starts.
LEMMA GotoType ==
  ASSUME TypeOK, NEW r \in Slots, NEW pc \in Pc, Goto(r, pc)
  PROVE  req' \in [Slots -> Slot]
<1>1. req[r] \in Slot
  BY DEF TypeOK
<1>2. [req[r] EXCEPT !.pc = pc] \in Slot
  BY <1>1, Zenon DEF Slot
<1> QED
  BY <1>2 DEF Goto, TypeOK

LEMMA EndType ==
  ASSUME TypeOK, NEW r \in Slots, End(r)
  PROVE  req' \in [Slots -> Slot]
  BY IdleType DEF End, TypeOK

LEMMA AnswerType ==
  ASSUME TypeOK, NEW r \in Slots, NEW m \in Message, Answer(r, m)
  PROVE  req' \in [Slots -> Slot]
<1>1. [Idle EXCEPT !.pc = "reply", !.msg = m] \in Slot
  BY IdleType, Zenon DEF Slot, Pc
<1> QED
  BY <1>1 DEF Answer, TypeOK

LEMMA StartType ==
  ASSUME TypeOK, NEW r \in Slots, NEW f \in Slot, Start(r, f)
  PROVE  req' \in [Slots -> Slot]
  BY DEF Start, TypeOK

\* What is known of the slot of a handler that goes on.
LEMMA SlotFacts ==
  ASSUME IInv, NEW r \in Slots
  PROVE  /\ req[r] \in Slot /\ req[r].row \in Row /\ req[r].msg \in Message
         /\ req[r].n \in Nat /\ req[r].v \in Vcs \cup {None}
         /\ req[r].pc \in NeedKind => req[r].row.kind \in Kinds
         /\ req[r].pc \in NeedSession =>
                req[r].s \in Sessions /\ sessions[req[r].s] \in Row
         /\ req[r].pc \in NeedBorn => Born(req[r].v, vcs)
         /\ req[r].pc \in NeedBacked => Backed(req[r].v, vcs, entries)
         /\ req[r].pc = "reply" /\ Delivery(req[r].msg) =>
                Backed(req[r].msg.v, vcs, entries)
<1>1. req[r] \in Slot /\ SlotOK(req[r], vcs, entries)
  BY DEF IInv, TypeOK, SlotsOK
<1>2. req[r].pc \in NeedSession => sessions[req[r].s] \in Row
  BY <1>1 DEF IInv, TypeOK, SlotOK
<1> QED
  BY <1>1, <1>2, SlotFields DEF SlotOK

\* What the two kinds of writes leave in their tables.
LEMMA SavedType ==
  ASSUME TypeOK, NEW s \in Sessions, NEW row \in Row
  PROVE  Saved(s, row) \in [Sessions -> Row]
<1> DEFINE o == IF LiveSession(s) THEN sessions[s].offer ELSE None
<1>1. o \in Offers \cup {None}
  BY RowFields DEF TypeOK
<1>2. [row EXCEPT !.live = "live", !.offer = o] \in Row
  <2> HIDE DEF o
  <2> QED
    BY <1>1, Zenon DEF Row, Lives
<1> QED
  BY <1>2 DEF Saved, TypeOK

LEMMA MarkedType ==
  ASSUME TypeOK, NEW v \in Vcs, NEW status \in {"pending", "issued", "rejected"}
  PROVE  Marked(v, status) \in [Vcs -> VcRow]
<1>1. vcs[v] \in VcRow
  BY DEF TypeOK
<1>2. [vcs[v] EXCEPT !.status = status] \in VcRow /\ [vcs[v] EXCEPT !.status = @] \in VcRow
  BY <1>1, Zenon DEF VcRow
<1>3. CASE LiveVc(v)
  BY <1>2, <1>3 DEF Marked, TypeOK
<1>4. CASE ~LiveVc(v)
  BY <1>2, <1>4 DEF Marked, TypeOK
<1> QED
  BY <1>3, <1>4

-----------------------------------------------------------------------------
(***************************************************************************)
(* Types.                                                                  *)
(***************************************************************************)

\* A step keeps every table, slot and channel within its type.
LEMMA TypeStep ==
  ASSUME IInv, [Next]_vars
  PROVE  TypeOK'
<1> USE DEF IInv
<1>1. ASSUME NEW r \in Slots, NEW o \in Offers, NEW f \in OfferForms, NEW c \in Clients,
             CreateOffer(r, o, f, c)
      PROVE  TypeOK'
  <2>1. f.grant \in Grants /\ f.kind \in Kinds
    BY ConstantsAssumption DEF Forms
  <2>2. [live |-> "live", grant |-> f.grant, kind |-> f.kind, client |-> c] \in OfferRow
    BY <2>1 DEF OfferRow, Lives
  <2>3. NewRow(c, "none", o, f.kind, "tokenRequest") \in Row
    BY <2>1, NewRowType
  <2>4. [Idle EXCEPT !.pc = "insertState",
                     !.row = NewRow(c, "none", o, f.kind, "tokenRequest")] \in Slot
    BY <2>3, IdleType, Zenon DEF Slot, Pc
  <2>5. req' \in [Slots -> Slot]
    BY <1>1, <2>4, StartType DEF CreateOffer, TypeOK
  <2> QED
    BY <1>1, <2>2, <2>5 DEF CreateOffer, TypeOK
<1>2. ASSUME NEW r \in Slots, NEW v \in Vcs, Approve(r, v) PROVE TypeOK'
  <2>1. [Idle EXCEPT !.pc = "issueRead", !.v = v] \in Slot
    BY IdleType, Zenon DEF Slot, Pc
  <2> QED
    BY <1>2, <2>1, StartType DEF Approve, TypeOK, tables
<1>3. ASSUME NEW v \in Vcs, Reject(v) PROVE TypeOK'
  BY <1>3, MarkedType DEF Reject, SetStatus, TypeOK
<1>4. ASSUME NEW v \in Vcs, Reopen(v) PROVE TypeOK'
  BY <1>4, MarkedType DEF Reopen, SetStatus, TypeOK
<1>5. ASSUME NEW o \in Offers, DeleteOffer(o) PROVE TypeOK'
  <2>1. \A s \in Sessions : sessions'[s] \in Row
    <3> SUFFICES ASSUME NEW s \in Sessions PROVE sessions'[s] \in Row
      OBVIOUS
    <3>1. sessions[s] \in Row
      BY DEF TypeOK
    <3>2. [sessions[s] EXCEPT !.live = "gone"] \in Row
      BY <3>1, Zenon DEF Row, Lives
    <3> QED
      BY <1>5, <3>1, <3>2 DEF DeleteOffer
  <2>2. \A v \in Vcs : vcs'[v] \in VcRow
    BY <1>5, Zenon DEF DeleteOffer, TypeOK, VcRow
  <2>3. offers' \in [Offers -> OfferRow]
    BY <1>5 DEF DeleteOffer, TypeOK, OfferRow, Lives
  <2> QED
    BY <1>5, <2>1, <2>2, <2>3 DEF DeleteOffer, TypeOK
<1>6. ASSUME NEW c \in Clients, DetachDid(c) PROVE TypeOK'
  BY <1>6 DEF DetachDid, TypeOK
<1>7. ASSUME NEW r \in Slots, NEW c \in Clients, AuthorizeOpenid(r, c) PROVE TypeOK'
  <2>1. NewRow(c, "openid", None, "unmapped", "authorize") \in Row
    BY NewRowType
  <2>2. [Idle EXCEPT !.pc = "insertState",
                     !.row = NewRow(c, "openid", None, "unmapped", "authorize")] \in Slot
    BY <2>1, IdleType, Zenon DEF Slot, Pc
  <2> QED
    BY <1>7, <2>2, StartType DEF AuthorizeOpenid, TypeOK, tables
<1>8. ASSUME NEW r \in Slots, NEW c \in Clients, AuthorizeScope(r, c) PROVE TypeOK'
  <2>1. NewRow(c, "vp", None, VpKind, "authorize") \in Row
    BY NewRowType, ConstantsAssumption
  <2>2. [Idle EXCEPT !.pc = "scopeOffer",
                     !.row = NewRow(c, "vp", None, VpKind, "authorize")] \in Slot
    BY <2>1, IdleType, Zenon DEF Slot, Pc
  <2> QED
    BY <1>8, <2>2, StartType DEF AuthorizeScope, TypeOK, tables
<1>9. ASSUME NEW r \in Slots, NEW c \in Clients, NEW o \in Offers,
             AuthorizeOffer(r, c, o)
      PROVE  TypeOK'
  <2>1. offers[o].kind \in Kinds
    BY DEF TypeOK, OfferRow
  <2>2. NewRow(c, "openid", o, offers[o].kind, "authorize") \in Row
    BY <2>1, NewRowType
  <2>3. [Idle EXCEPT !.pc = "insertState",
                     !.row = NewRow(c, "openid", o, offers[o].kind, "authorize")] \in Slot
    BY <2>2, IdleType, Zenon DEF Slot, Pc
  <2> QED
    BY <1>9, <2>3, StartType DEF AuthorizeOffer, TypeOK, tables
<1>10. ASSUME NEW r \in Slots, NEW s \in Sessions, DirectPost(r, s) PROVE TypeOK'
  <2>1. minted[s] + 1 \in Nat
    BY DEF TypeOK
  <2>2. [Idle EXCEPT !.pc = "postRead", !.s = s, !.n = minted[s] + 1] \in Slot
    BY <2>1, IdleType, Zenon DEF Slot, Pc
  <2> QED
    BY <1>10, <2>1, <2>2, StartType DEF DirectPost, Mint, TypeOK, tables
<1>11. ASSUME NEW r \in Slots, NEW s \in Sessions, StandardToken(r, s) PROVE TypeOK'
  <2>1. minted[s] + 1 \in Nat
    BY DEF TypeOK
  <2>2. [Idle EXCEPT !.pc = "tokenRead", !.s = s, !.n = minted[s] + 1] \in Slot
    BY <2>1, IdleType, Zenon DEF Slot, Pc
  <2> QED
    BY <1>11, <2>1, <2>2, StartType DEF StandardToken, Mint, TypeOK, tables
<1>12. ASSUME NEW r \in Slots, NEW s \in Sessions, PreAuthToken(r, s) PROVE TypeOK'
  <2>1. minted[s] + 1 \in Nat
    BY DEF TypeOK
  <2>2. [Idle EXCEPT !.pc = "tokenRead", !.s = s, !.n = minted[s] + 1] \in Slot
    BY <2>1, IdleType, Zenon DEF Slot, Pc
  <2> QED
    BY <1>12, <2>1, <2>2, StartType DEF PreAuthToken, Mint, TypeOK, tables
<1>13. ASSUME NEW r \in Slots, NEW s \in Sessions, Credential(r, s) PROVE TypeOK'
  <2>1. sessions[s] \in Row
    BY DEF TypeOK
  <2>2. KindOf(sessions[s]) \in Kinds
    BY <1>13, <2>1, RowFields, ConstantsAssumption DEF Credential, CanRequest, KindOf
  <2>3. [sessions[s] EXCEPT !.kind = KindOf(sessions[s])] \in Row
    BY <2>1, <2>2, Zenon DEF Row
  <2>4. [Idle EXCEPT !.pc = "findDid", !.s = s,
                     !.row = [sessions[s] EXCEPT !.kind = KindOf(sessions[s])]] \in Slot
    BY <2>3, IdleType, Zenon DEF Slot, Pc
  <2> QED
    BY <1>13, <2>4, StartType DEF Credential, TypeOK, tables
<1>14. ASSUME NEW r \in Slots, NEW v \in Vcs, PollIssued(r, v) PROVE TypeOK'
  <2>1. Msg("deferred", None, 0, v) \in Message
    BY MsgType
  <2>2. [Idle EXCEPT !.pc = "reply", !.msg = Msg("deferred", None, 0, v)] \in Slot
    BY <2>1, IdleType, Zenon DEF Slot, Pc
  <2> QED
    BY <1>14, <2>2, StartType DEF PollIssued, Poll, TypeOK, tables
<1>15. ASSUME NEW r \in Slots, NEW v \in Vcs, PollRejected(r, v) PROVE TypeOK'
  <2>1. Msg("denied", None, 0, v) \in Message
    BY MsgType
  <2>2. [Idle EXCEPT !.pc = "reply", !.msg = Msg("denied", None, 0, v)] \in Slot
    BY <2>1, IdleType, Zenon DEF Slot, Pc
  <2> QED
    BY <1>15, <2>2, StartType DEF PollRejected, Poll, TypeOK, tables
<1>16. ASSUME NEW r \in Slots, NEW o \in Offers, InsertScopeOffer(r, o) PROVE TypeOK'
  <2>1. req[r] \in Slot /\ req[r].row \in Row /\ req[r].row.kind \in Kinds
    BY <1>16, SlotFacts DEF InsertScopeOffer, Busy, NeedKind
  <2>2. [req[r].row EXCEPT !.offer = o] \in Row
    BY <2>1, Zenon DEF Row
  <2>3. [req[r] EXCEPT !.pc = "insertState", !.row = [req[r].row EXCEPT !.offer = o]] \in Slot
    BY <2>1, <2>2, Zenon DEF Slot, Pc
  <2>4. [live |-> "live", grant |-> "auth", kind |-> req[r].row.kind, client |-> None]
          \in OfferRow
    BY <2>1 DEF OfferRow, Lives, Grants
  <2>5. req' = [req EXCEPT ![r] = [req[r] EXCEPT !.pc = "insertState",
                                      !.row = [req[r].row EXCEPT !.offer = o]]]
    BY <1>16, <2>1, Zenon DEF InsertScopeOffer, Slot
  <2> QED
    BY <1>16, <2>3, <2>4, <2>5 DEF InsertScopeOffer, TypeOK
<1>17. ASSUME NEW r \in Slots, NEW s \in Sessions, InsertState(r, s) PROVE TypeOK'
  <2>1. req[r].row \in Row
    BY SlotFacts
  <2>2. Msg("state", s, 0, None) \in Message
    BY MsgType
  <2>3. req' \in [Slots -> Slot]
    BY <1>17, <2>2, AnswerType, EndType DEF InsertState
  <2> QED
    BY <1>17, <2>1, <2>3 DEF InsertState, TypeOK
<1>18. ASSUME NEW r \in Slots, InsertStateFails(r) PROVE TypeOK'
  BY <1>18, EndType DEF InsertStateFails, TypeOK, tables
<1>19. ASSUME NEW r \in Slots, PostRead(r) PROVE TypeOK'
  <2> DEFINE s   == req[r].s
             row == [sessions[s] EXCEPT !.step = "authResponse", !.status = "unclaimed",
                                            !.code = req[r].n]
  <2>1. req[r] \in Slot /\ req[r].n \in Nat /\ sessions[s] \in Row /\ s \in Sessions
        /\ req[r].v \in Vcs \cup {None}
    BY <1>19, SlotFacts DEF PostRead, Busy, NeedSession
  <2>2. row \in Row
    BY <2>1, Zenon DEF Row
  <2>3. [req[r] EXCEPT !.pc = "postSave", !.row = row] \in Slot
    <3> HIDE DEF row
    <3> QED
      BY <2>1, <2>2, Zenon DEF Slot, Pc
  <2>4. Msg("code", s, req[r].n, None) \in Message
    BY <2>1, MsgType
  <2>5. req' \in [Slots -> Slot]
    BY <1>19, <2>3, <2>4, AnswerType DEF PostRead, TypeOK
  <2> QED
    BY <1>19, <2>5 DEF PostRead, TypeOK, tables
<1>20. ASSUME NEW r \in Slots, PostSave(r) PROVE TypeOK'
  <2>1. req[r].row \in Row /\ req[r].n \in Nat /\ req[r].s \in Sessions
        /\ req[r].v \in Vcs \cup {None}
    BY <1>20, SlotFacts DEF PostSave, Busy, NeedSession
  <2>2. Msg("code", req[r].s, req[r].n, None) \in Message
    BY <2>1, MsgType
  <2>3. req' \in [Slots -> Slot]
    BY <1>20, <2>2, AnswerType DEF PostSave
  <2> QED
    BY <1>20, <2>1, <2>3, SavedType DEF PostSave, TypeOK
<1>21. ASSUME NEW r \in Slots, TokenRead(r) PROVE TypeOK'
  <2> DEFINE s   == req[r].s
             row == [sessions[s] EXCEPT !.step = "tokenRequest", !.status = "unclaimed",
                                            !.nonce = req[r].n]
  <2>1. req[r] \in Slot /\ req[r].n \in Nat /\ sessions[s] \in Row /\ s \in Sessions
        /\ req[r].v \in Vcs \cup {None}
    BY <1>21, SlotFacts DEF TokenRead, Busy, NeedSession
  <2>2. row \in Row
    BY <2>1, Zenon DEF Row
  <2>3. [req[r] EXCEPT !.pc = "tokenSave", !.row = row] \in Slot
    <3> HIDE DEF row
    <3> QED
      BY <2>1, <2>2, Zenon DEF Slot, Pc
  <2>4. Msg("nonce", s, req[r].n, None) \in Message
    BY <2>1, MsgType
  <2>5. req' \in [Slots -> Slot]
    BY <1>21, <2>3, <2>4, AnswerType DEF TokenRead, TypeOK
  <2> QED
    BY <1>21, <2>5 DEF TokenRead, TypeOK, tables
<1>22. ASSUME NEW r \in Slots, TokenSave(r) PROVE TypeOK'
  <2>1. req[r].row \in Row /\ req[r].n \in Nat /\ req[r].s \in Sessions
        /\ req[r].v \in Vcs \cup {None}
    BY <1>22, SlotFacts DEF TokenSave, Busy, NeedSession
  <2>2. Msg("nonce", req[r].s, req[r].n, None) \in Message
    BY <2>1, MsgType
  <2>3. req' \in [Slots -> Slot]
    BY <1>22, <2>2, AnswerType DEF TokenSave
  <2> QED
    BY <1>22, <2>1, <2>3, SavedType DEF TokenSave, TypeOK
<1>23. ASSUME NEW r \in Slots, EnsureStudent(r) PROVE TypeOK'
  BY <1>23, GotoType DEF EnsureStudent, TypeOK, Pc
<1>24. ASSUME NEW r \in Slots, NEW v \in Vcs, InsertVc(r, v) PROVE TypeOK'
  <2>1. req[r] \in Slot /\ req[r].row \in Row /\ req[r].row.kind \in Kinds
    BY <1>24, SlotFacts DEF InsertVc, Busy, NeedKind
  <2>2. Branch(req[r].row) \in Pc
    BY DEF Branch, Pc
  <2>3. [req[r] EXCEPT !.pc = Branch(req[r].row), !.v = v] \in Slot
    BY <2>1, <2>2, Zenon DEF Slot
  <2>4. [status |-> "pending", client |-> req[r].row.client,
         offer |-> req[r].row.offer, kind |-> req[r].row.kind] \in VcRow
    BY <2>1, RowFields DEF VcRow
  <2> QED
    BY <1>24, <2>3, <2>4 DEF InsertVc, TypeOK
<1>25. ASSUME NEW r \in Slots, InsertVcFails(r) PROVE TypeOK'
  BY <1>25, EndType DEF InsertVcFails, TypeOK, tables
<1>26. ASSUME NEW r \in Slots, IssueRead(r) PROVE TypeOK'
  BY <1>26, GotoType, EndType DEF IssueRead, TypeOK, tables, Pc
<1>27. ASSUME NEW r \in Slots, AddEntry(r) PROVE TypeOK'
  <2>1. req[r].v \in Vcs
    BY <1>27, SlotFacts DEF AddEntry, Busy, NeedBorn, Born
  <2>2. entries' \in [Vcs -> Nat]
    BY <1>27, <2>1 DEF AddEntry, TypeOK
  <2> QED
    BY <1>27, <2>2, GotoType DEF AddEntry, TypeOK, Pc
<1>28. ASSUME NEW r \in Slots, MarkIssued(r) PROVE TypeOK'
  <2>1. req[r].v \in Vcs
    BY <1>28, SlotFacts DEF MarkIssued, Busy, NeedBacked, Backed, Born
  <2>2. req' \in [Slots -> Slot]
    BY <1>28, GotoType, EndType DEF MarkIssued, Pc
  <2> QED
    BY <1>28, <2>1, <2>2, MarkedType DEF MarkIssued, TypeOK
<1>29. ASSUME NEW r \in Slots, MarkAgain(r) PROVE TypeOK'
  <2>1. req[r].v \in Vcs
    BY <1>29, SlotFacts DEF MarkAgain, Busy, NeedBacked, Backed, Born
  <2>2. req' \in [Slots -> Slot]
    BY <1>29, GotoType, EndType DEF MarkAgain, Pc
  <2> QED
    BY <1>29, <2>1, <2>2, MarkedType DEF MarkAgain, TypeOK
<1>30. ASSUME NEW r \in Slots, ClaimRead(r) PROVE TypeOK'
  <2> DEFINE s   == req[r].s
             row == [sessions[s] EXCEPT !.status = "claimed"]
  <2>1. req[r] \in Slot /\ req[r].n \in Nat /\ sessions[s] \in Row /\ s \in Sessions
        /\ req[r].v \in Vcs \cup {None}
    BY <1>30, SlotFacts DEF ClaimRead, Busy, NeedSession
  <2>2. row \in Row
    BY <2>1, Zenon DEF Row
  <2>3. [req[r] EXCEPT !.pc = "claimSave", !.row = row] \in Slot
    <3> HIDE DEF row
    <3> QED
      BY <2>1, <2>2, Zenon DEF Slot, Pc
  <2>4. Msg("inTime", None, 0, req[r].v) \in Message
    BY <2>1, MsgType
  <2>5. req' \in [Slots -> Slot]
    BY <1>30, <2>3, <2>4, AnswerType DEF ClaimRead, TypeOK
  <2> QED
    BY <1>30, <2>5 DEF ClaimRead, TypeOK, tables
<1>31. ASSUME NEW r \in Slots, ClaimSave(r) PROVE TypeOK'
  <2>1. req[r].row \in Row /\ req[r].n \in Nat /\ req[r].s \in Sessions
        /\ req[r].v \in Vcs \cup {None}
    BY <1>31, SlotFacts DEF ClaimSave, Busy, NeedSession
  <2>2. Msg("inTime", None, 0, req[r].v) \in Message
    BY <2>1, MsgType
  <2>3. req' \in [Slots -> Slot]
    BY <1>31, <2>2, AnswerType DEF ClaimSave
  <2> QED
    BY <1>31, <2>1, <2>3, SavedType DEF ClaimSave, TypeOK
<1>32. ASSUME NEW r \in Slots, DeferRead(r) PROVE TypeOK'
  <2> DEFINE s   == req[r].s
             row == [sessions[s] EXCEPT !.step = "deferredRequest", !.status = "unclaimed"]
  <2>1. req[r] \in Slot /\ req[r].n \in Nat /\ sessions[s] \in Row /\ s \in Sessions
        /\ req[r].v \in Vcs \cup {None}
    BY <1>32, SlotFacts DEF DeferRead, Busy, NeedSession
  <2>2. row \in Row
    BY <2>1, Zenon DEF Row
  <2>3. [req[r] EXCEPT !.pc = "deferSave", !.row = row] \in Slot
    <3> HIDE DEF row
    <3> QED
      BY <2>1, <2>2, Zenon DEF Slot, Pc
  <2>4. Msg("token", None, 0, req[r].v) \in Message
    BY <2>1, MsgType
  <2>5. req' \in [Slots -> Slot]
    BY <1>32, <2>3, <2>4, AnswerType DEF DeferRead, TypeOK
  <2> QED
    BY <1>32, <2>5 DEF DeferRead, TypeOK, tables
<1>33. ASSUME NEW r \in Slots, DeferSave(r) PROVE TypeOK'
  <2>1. req[r].row \in Row /\ req[r].n \in Nat /\ req[r].s \in Sessions
        /\ req[r].v \in Vcs \cup {None}
    BY <1>33, SlotFacts DEF DeferSave, Busy, NeedSession
  <2>2. Msg("token", None, 0, req[r].v) \in Message
    BY <2>1, MsgType
  <2>3. req' \in [Slots -> Slot]
    BY <1>33, <2>2, AnswerType DEF DeferSave
  <2> QED
    BY <1>33, <2>1, <2>3, SavedType DEF DeferSave, TypeOK
<1>34. ASSUME NEW r \in Slots, ConfRead(r) PROVE TypeOK'
  BY <1>34, GotoType, EndType DEF ConfRead, TypeOK, tables, Pc
<1>35. ASSUME NEW r \in Slots, ConfMark(r) PROVE TypeOK'
  <2>1. req[r].v \in Vcs
    BY <1>35, SlotFacts DEF ConfMark, Busy, NeedBacked, Backed, Born
  <2>2. /\ Msg("token", None, 0, req[r].v) \in Message
        /\ Msg("inTime", None, 0, req[r].v) \in Message
    BY <2>1, MsgType
  <2>3. req' \in [Slots -> Slot]
    BY <1>35, <2>2, AnswerType, EndType DEF ConfMark
  <2> QED
    BY <1>35, <2>1, <2>3, MarkedType DEF ConfMark, TypeOK
<1>36. ASSUME NEW r \in Slots, ItDeferMark(r) PROVE TypeOK'
  <2>1. req[r].v \in Vcs
    BY <1>36, SlotFacts DEF ItDeferMark, Busy, NeedBacked, Backed, Born
  <2>2. /\ Msg("token", None, 0, req[r].v) \in Message
        /\ Msg("inTime", None, 0, req[r].v) \in Message
    BY <2>1, MsgType
  <2>3. req' \in [Slots -> Slot]
    BY <1>36, <2>2, AnswerType, EndType DEF ItDeferMark
  <2> QED
    BY <1>36, <2>1, <2>3, MarkedType DEF ItDeferMark, TypeOK
<1>37. ASSUME NEW r \in Slots, Reply(r) PROVE TypeOK'
  BY <1>37, EndType, SlotFacts DEF Reply, TypeOK, tables
<1>38. ASSUME NEW r \in Slots, Fail(r) PROVE TypeOK'
  BY <1>38, EndType DEF Fail, TypeOK, tables
<1>39. CASE UNCHANGED vars
  BY <1>39 DEF vars, TypeOK
<1>40. ASSUME NEW r \in Slots, NEW k \in {"ctInTime", "ctDeferred"}, MockToken(r, k)
       PROVE  TypeOK'
  <2> DEFINE row == NewRow(MockClient, "mock", None, k, "tokenRequest")
  <2>1. MockClient \in Clients /\ k \in Kinds
    BY <1>40, ConstantsAssumption DEF MockToken, Kinds
  <2>2. row \in Row
    BY <2>1, NewRowType
  <2>3. [Idle EXCEPT !.pc = "mockCheck", !.row = row] \in Slot
    <3> HIDE DEF row
    <3> QED
      BY <2>2, IdleType, Zenon DEF Slot, Pc
  <2>4. \A s \in Sessions : sessions'[s] \in Row
    <3> SUFFICES ASSUME NEW s \in Sessions PROVE sessions'[s] \in Row
      OBVIOUS
    <3>1. sessions[s] \in Row
      BY DEF TypeOK
    <3>2. [sessions[s] EXCEPT !.live = "gone"] \in Row
      BY <3>1, Zenon DEF Row, Lives
    <3> QED
      BY <1>40, <3>1, <3>2 DEF MockToken
  <2>5. req' \in [Slots -> Slot]
    BY <1>40, <2>3, StartType DEF MockToken
  <2> QED
    BY <1>40, <2>4, <2>5 DEF MockToken, TypeOK
<1>41. ASSUME NEW r \in Slots, MockCheck(r) PROVE TypeOK'
  BY <1>41, GotoType, EndType DEF MockCheck, TypeOK, tables, Pc
<1>42. ASSUME NEW r \in Slots, NEW s \in Sessions, MockInsert(r, s) PROVE TypeOK'
  <2>1. req[r].row \in Row
    BY SlotFacts
  <2>2. req' \in [Slots -> Slot]
    BY <1>42, GotoType DEF MockInsert, Pc
  <2> QED
    BY <1>42, <2>1, <2>2 DEF MockInsert, TypeOK
<1>43. ASSUME NEW r \in Slots, NEW s \in Sessions, MockFind(r, s) PROVE TypeOK'
  <2>1. minted[s] + 1 \in Nat
    BY DEF TypeOK
  <2>2. [Idle EXCEPT !.pc = "tokenRead", !.s = s, !.n = minted[s] + 1] \in Slot
    BY <2>1, IdleType, Zenon DEF Slot, Pc
  <2> QED
    BY <1>43, <2>1, <2>2 DEF MockFind, TypeOK, tables
<1>44. ASSUME NEW r \in Slots, MockMissing(r) PROVE TypeOK'
  BY <1>44, EndType DEF MockMissing, TypeOK, tables
<1>45. ASSUME NEW r \in Slots, FindDid(r) PROVE TypeOK'
  BY <1>45, GotoType DEF FindDid, TypeOK, tables, Pc
<1>46. ASSUME NEW r \in Slots, InsertDid(r) PROVE TypeOK'
  <2>1. dids' \in [Clients -> {"none", "bare", "owned"}]
    BY <1>46 DEF InsertDid, TypeOK
  <2> QED
    BY <1>46, <2>1, GotoType, EndType DEF InsertDid, TypeOK, Pc
<1> QED
  BY <1>1, <1>2, <1>3, <1>4, <1>5, <1>6, <1>7, <1>8, <1>9, <1>10,
     <1>11, <1>12, <1>13, <1>14, <1>15, <1>16, <1>17, <1>18, <1>19, <1>20,
     <1>21, <1>22, <1>23, <1>24, <1>25, <1>26, <1>27, <1>28, <1>29, <1>30,
     <1>31, <1>32, <1>33, <1>34, <1>35, <1>36, <1>37, <1>38, <1>39, <1>40,
     <1>41, <1>42, <1>43, <1>44, <1>45, <1>46
     DEF Next, AdminNext, WalletNext, Step

-----------------------------------------------------------------------------
(***************************************************************************)
(* Which steps write credential records, status list entries, and wallets. *)
(***************************************************************************)

\* The steps of handlers that mark a credential as issued.
Marks(r) == MarkIssued(r) \/ MarkAgain(r) \/ ConfMark(r) \/ ItDeferMark(r)

\* The only steps that write credential records.
WritesVcs ==
    \/ \E r \in Slots : Marks(r)
    \/ \E v \in Vcs : Reject(v) \/ Reopen(v)
    \/ \E o \in Offers : DeleteOffer(o)
    \/ \E r \in Slots, v \in Vcs : InsertVc(r, v)

\* Every step but those of WritesVcs leaves the credential records alone.
LEMMA VcsWriters ==
  ASSUME [Next]_vars
  PROVE  UNCHANGED vcs \/ WritesVcs
<1>1. CASE AdminNext
  BY <1>1 DEF AdminNext, WritesVcs, CreateOffer, Approve, DetachDid, tables
<1>2. CASE WalletNext
  BY <1>2 DEF WalletNext, AuthorizeOpenid, AuthorizeScope, AuthorizeOffer,
               DirectPost, StandardToken, PreAuthToken, Mint, MockToken, Credential,
               PollIssued, PollRejected, Poll, tables
<1>3. ASSUME NEW r \in Slots, Step(r)
      PROVE  UNCHANGED vcs \/ WritesVcs
  BY <1>3 DEF Step, WritesVcs, Marks, InsertScopeOffer, InsertState, InsertStateFails, MockCheck, MockInsert,
               MockFind, MockMissing, PostRead, PostSave, TokenRead, TokenSave,
               FindDid, InsertDid, EnsureStudent, InsertVcFails, IssueRead, ClaimRead, ClaimSave,
               DeferRead, DeferSave, ConfRead, Reply, AddEntry, tables
<1>4. ASSUME NEW r \in Slots, Fail(r) PROVE UNCHANGED vcs
  BY <1>4 DEF Fail, tables
<1>5. CASE UNCHANGED vars
  BY <1>5 DEF vars
<1> QED
  BY <1>1, <1>2, <1>3, <1>4, <1>5 DEF Next

\* Only addCredential writes status list entries.
LEMMA EntriesWriters ==
  ASSUME [Next]_vars
  PROVE  UNCHANGED entries \/ \E x \in Slots : AddEntry(x)
<1>1. CASE AdminNext
  BY <1>1 DEF AdminNext, CreateOffer, Approve, DetachDid,
               Reject, Reopen, SetStatus, DeleteOffer, tables
<1>2. CASE WalletNext
  BY <1>2 DEF WalletNext, AuthorizeOpenid, AuthorizeScope, AuthorizeOffer,
               DirectPost, StandardToken, PreAuthToken, Mint, MockToken, Credential,
               PollIssued, PollRejected, Poll, tables
<1>3. ASSUME NEW r \in Slots, Step(r)
      PROVE  UNCHANGED entries \/ \E x \in Slots : AddEntry(x)
  BY <1>3 DEF Step, InsertScopeOffer, InsertState, InsertStateFails, MockCheck, MockInsert,
               MockFind, MockMissing, PostRead, PostSave, TokenRead, TokenSave,
               FindDid, InsertDid, EnsureStudent, InsertVcFails, IssueRead, ClaimRead, ClaimSave,
               DeferRead, DeferSave, ConfRead, Reply, InsertVc, MarkIssued, MarkAgain,
               ConfMark, ItDeferMark, tables
<1>4. ASSUME NEW r \in Slots, Fail(r) PROVE UNCHANGED entries
  BY <1>4 DEF Fail, tables
<1>5. CASE UNCHANGED vars
  BY <1>5 DEF vars
<1> QED
  BY <1>1, <1>2, <1>3, <1>4, <1>5 DEF Next

\* Only a response that arrives changes what wallets hold.
LEMMA WalletWriters ==
  ASSUME [Next]_vars
  PROVE  UNCHANGED wallet \/ \E x \in Slots : Reply(x)
<1>1. CASE AdminNext
  BY <1>1 DEF AdminNext, CreateOffer, Approve, DetachDid,
               Reject, Reopen, SetStatus, DeleteOffer, tables
<1>2. CASE WalletNext
  BY <1>2 DEF WalletNext, AuthorizeOpenid, AuthorizeScope, AuthorizeOffer,
               DirectPost, StandardToken, PreAuthToken, Mint, MockToken, Credential,
               PollIssued, PollRejected, Poll, tables
<1>3. ASSUME NEW r \in Slots, Step(r)
      PROVE  UNCHANGED wallet \/ \E x \in Slots : Reply(x)
  BY <1>3 DEF Step, InsertScopeOffer, InsertState, InsertStateFails, MockCheck, MockInsert,
               MockFind, MockMissing, PostRead, PostSave, TokenRead, TokenSave,
               FindDid, InsertDid, EnsureStudent, InsertVcFails, IssueRead, ClaimRead, ClaimSave,
               DeferRead, DeferSave, ConfRead, InsertVc, MarkIssued, MarkAgain,
               ConfMark, ItDeferMark, AddEntry, tables
<1>4. ASSUME NEW r \in Slots, Fail(r) PROVE UNCHANGED wallet
  BY <1>4 DEF Fail, tables
<1>5. CASE UNCHANGED vars
  BY <1>5 DEF vars
<1> QED
  BY <1>1, <1>2, <1>3, <1>4, <1>5 DEF Next

-----------------------------------------------------------------------------
(***************************************************************************)
(* A credential record is never unmade: it stays born, keeps its kind, and *)
(* keeps the status list entries it has.                                   *)
(***************************************************************************)

\* A handler marks the credential it works on, which was inserted.
LEMMA MarksFacts ==
  ASSUME IInv, NEW r \in Slots, Marks(r)
  PROVE  /\ Backed(req[r].v, vcs, entries) /\ req[r].v \in Vcs
         /\ vcs' = Marked(req[r].v, "issued")
<1>1. Backed(req[r].v, vcs, entries)
  BY SlotFacts DEF Marks, MarkIssued, MarkAgain, ConfMark, ItDeferMark, Busy, NeedBacked
<1> QED
  BY <1>1 DEF Marks, MarkIssued, MarkAgain, ConfMark, ItDeferMark, Backed, Born

\* No step undoes an insert, or changes what was inserted.
LEMMA RecordsLast ==
  ASSUME IInv, [Next]_vars, NEW v \in Vcs, Born(v, vcs)
  PROVE  /\ Born(v, vcs') /\ vcs'[v].kind = vcs[v].kind
         /\ entries[v] > 0 => entries'[v] > 0
<1> DEFINE Lasts == vcs'[v].status # "unborn" /\ vcs'[v].kind = vcs[v].kind
<1>1. vcs[v] \in VcRow /\ vcs \in [Vcs -> VcRow] /\ entries \in [Vcs -> Nat]
  BY DEF IInv, TypeOK
<1>2. ASSUME NEW w \in Vcs, NEW status \in {"pending", "issued", "rejected"},
             vcs' = Marked(w, status)
      PROVE  Lasts
  BY <1>1, <1>2 DEF Marked, VcRow, Born
<1>3. ASSUME NEW r \in Slots, Marks(r) PROVE Lasts
  BY <1>2, <1>3, MarksFacts
<1>4. ASSUME NEW w \in Vcs, Reject(w) \/ Reopen(w) PROVE Lasts
  BY <1>2, <1>4 DEF Reject, Reopen, SetStatus
<1>5. ASSUME NEW o \in Offers, DeleteOffer(o) PROVE Lasts
  <2>1. vcs'[v] = vcs[v] \/ vcs'[v] = [vcs[v] EXCEPT !.status = "gone"]
    BY <1>5 DEF DeleteOffer
  <2> QED
    BY <1>1, <2>1 DEF VcRow, Born
<1>6. ASSUME NEW r \in Slots, NEW w \in Vcs, InsertVc(r, w) PROVE Lasts
  BY <1>1, <1>6 DEF InsertVc, Born
<1>7. Lasts
  BY <1>3, <1>4, <1>5, <1>6, VcsWriters DEF WritesVcs, Born
<1>8. ASSUME NEW r \in Slots, AddEntry(r) PROVE entries[v] > 0 => entries'[v] > 0
  <2>1. \A x \in Nat : x > 0 => x + 1 > 0
    OBVIOUS
  <2> QED
    BY <1>1, <1>8, <2>1 DEF AddEntry
<1>9. entries[v] > 0 => entries'[v] > 0
  BY <1>8, EntriesWriters
<1> QED
  BY <1>7, <1>9 DEF Born

\* What backs a credential stays.
LEMMA BackedLasts ==
  ASSUME IInv, [Next]_vars, NEW v, Backed(v, vcs, entries)
  PROVE  Backed(v, vcs', entries')
  BY RecordsLast DEF Backed, Born

-----------------------------------------------------------------------------
(***************************************************************************)
(* What the other handlers rely on survives the step of one of them.       *)
(***************************************************************************)
LEMMA SlotLasts ==
  ASSUME IInv, [Next]_vars, NEW q, SlotOK(q, vcs, entries)
  PROVE  SlotOK(q, vcs', entries')
  BY BackedLasts, RecordsLast DEF SlotOK, Born

LEMMA OthersLast ==
  ASSUME IInv, [Next]_vars, NEW r \in Slots, NEW f, req' = [req EXCEPT ![r] = f],
         SlotOK(f, vcs', entries')
  PROVE  SlotsOK'
<1> SUFFICES ASSUME NEW x \in Slots PROVE SlotOK(req'[x], vcs', entries')
  BY DEF SlotsOK
<1>1. CASE x = r
  BY <1>1 DEF IInv, TypeOK
<1>2. CASE x # r
  <2>1. req'[x] = req[x]
    BY <1>2 DEF IInv, TypeOK
  <2>2. SlotOK(req[x], vcs', entries')
    BY SlotLasts DEF IInv, SlotsOK
  <2> QED
    BY <2>1, <2>2
<1> QED
  BY <1>1, <1>2

LEMMA AllLast ==
  ASSUME IInv, [Next]_vars, req' = req
  PROVE  SlotsOK'
<1>1. \A x \in Slots : SlotOK(req[x], vcs', entries')
  BY SlotLasts DEF IInv, SlotsOK
<1> QED
  BY <1>1 DEF SlotsOK

\* The steps that end a handler, or start one that relies on nothing yet.
LEMMA EndLasts ==
  ASSUME IInv, [Next]_vars, NEW r \in Slots, End(r)
  PROVE  SlotsOK'
<1>1. SlotOK(Idle, vcs', entries')
  BY DEF SlotOK, Idle, NeedKind, NeedSession, NeedBorn, NeedBacked
<1> QED
  BY <1>1, OthersLast DEF End

LEMMA FreshLasts ==
  ASSUME IInv, [Next]_vars, NEW r \in Slots, NEW f, Start(r, f), f.pc \in {"insertState", "mockCheck"}
  PROVE  SlotsOK'
<1>1. SlotOK(f, vcs', entries')
  BY DEF SlotOK, NeedKind, NeedSession, NeedBorn, NeedBacked
<1> QED
  BY <1>1, OthersLast DEF Start

LEMMA AnswerLasts ==
  ASSUME IInv, [Next]_vars, NEW r \in Slots, NEW m, Answer(r, m),
         Delivery(m) => Backed(m.v, vcs', entries')
  PROVE  SlotsOK'
<1> DEFINE f == [Idle EXCEPT !.pc = "reply", !.msg = m]
<1>1. f.pc = "reply" /\ f.msg = m
  BY DEF Idle
<1>2. SlotOK(f, vcs', entries')
  BY <1>1 DEF SlotOK, NeedKind, NeedSession, NeedBorn, NeedBacked
<1> QED
  BY <1>2, OthersLast DEF Answer

LEMMA GotoLasts ==
  ASSUME IInv, [Next]_vars, NEW r \in Slots, NEW pc \in Pc \ {"reply"}, Goto(r, pc),
         pc \in NeedKind => req[r].row.kind \in Kinds,
         pc \in NeedSession => req[r].s \in Sessions,
         pc \in NeedBorn => Born(req[r].v, vcs'),
         pc \in NeedBacked => Backed(req[r].v, vcs', entries')
  PROVE  SlotsOK'
<1> DEFINE q == req[r]
           f == [q EXCEPT !.pc = pc]
<1>1. q \in Slot
  BY DEF IInv, TypeOK
<1>2. f.pc = pc /\ f.row = q.row /\ f.s = q.s /\ f.v = q.v
  BY <1>1 DEF Slot
<1>3. SlotOK(f, vcs', entries')
  BY <1>2 DEF SlotOK
<1>4. req' = [req EXCEPT ![r] = f]
  BY DEF Goto
<1> QED
  BY <1>3, <1>4, OthersLast

\* A step leaves every handler what it relies on when it goes on.
LEMMA SlotsStep ==
  ASSUME IInv, [Next]_vars
  PROVE  SlotsOK'
<1>1. ASSUME NEW r \in Slots, NEW o \in Offers, NEW f \in OfferForms, NEW c \in Clients,
             CreateOffer(r, o, f, c)
      PROVE  SlotsOK'
  <2> DEFINE f1 == [Idle EXCEPT !.pc = "insertState",
                                !.row = NewRow(c, "none", o, f.kind, "tokenRequest")]
  <2>1. f1.pc = "insertState"
    BY DEF Idle
  <2>2. req' = req \/ Start(r, f1)
    BY <1>1 DEF CreateOffer
  <2> QED
    BY <2>1, <2>2, AllLast, FreshLasts
<1>2. ASSUME NEW r \in Slots, NEW v \in Vcs, Approve(r, v) PROVE SlotsOK'
  <2> DEFINE f == [Idle EXCEPT !.pc = "issueRead", !.v = v]
  <2>1. f.pc = "issueRead" /\ f.v = v
    BY DEF Idle
  <2>2. Born(v, vcs')
    BY <1>2 DEF Approve, LiveVc, Born, tables
  <2>3. SlotOK(f, vcs', entries')
    BY <2>1, <2>2 DEF SlotOK, NeedKind, NeedSession, NeedBorn, NeedBacked
  <2> QED
    BY <1>2, <2>3, OthersLast DEF Approve, Start
<1>3. ASSUME NEW v \in Vcs, Reject(v) PROVE SlotsOK'
  BY <1>3, AllLast DEF Reject, SetStatus
<1>4. ASSUME NEW v \in Vcs, Reopen(v) PROVE SlotsOK'
  BY <1>4, AllLast DEF Reopen, SetStatus
<1>5. ASSUME NEW o \in Offers, DeleteOffer(o) PROVE SlotsOK'
  BY <1>5, AllLast DEF DeleteOffer
<1>6. ASSUME NEW c \in Clients, DetachDid(c) PROVE SlotsOK'
  BY <1>6, AllLast DEF DetachDid
<1>7. ASSUME NEW r \in Slots, NEW c \in Clients, AuthorizeOpenid(r, c) PROVE SlotsOK'
  <2> DEFINE f == [Idle EXCEPT !.pc = "insertState",
                               !.row = NewRow(c, "openid", None, "unmapped", "authorize")]
  <2>1. f.pc = "insertState"
    BY DEF Idle
  <2> QED
    BY <1>7, <2>1, FreshLasts DEF AuthorizeOpenid
<1>8. ASSUME NEW r \in Slots, NEW c \in Clients, AuthorizeScope(r, c) PROVE SlotsOK'
  <2> DEFINE row == NewRow(c, "vp", None, VpKind, "authorize")
             f   == [Idle EXCEPT !.pc = "scopeOffer", !.row = row]
  <2>1. f.pc = "scopeOffer" /\ f.row = row
    BY DEF Idle
  <2>2. row.kind \in Kinds
    BY <1>8, ConstantsAssumption DEF AuthorizeScope, NewRow, NoRow
  <2>3. SlotOK(f, vcs', entries')
    <3> HIDE DEF row, f
    <3> QED
      BY <2>1, <2>2 DEF SlotOK, NeedKind, NeedSession, NeedBorn, NeedBacked
  <2> QED
    BY <1>8, <2>3, OthersLast DEF AuthorizeScope, Start
<1>9. ASSUME NEW r \in Slots, NEW c \in Clients, NEW o \in Offers,
             AuthorizeOffer(r, c, o)
      PROVE  SlotsOK'
  <2> DEFINE f == [Idle EXCEPT !.pc = "insertState",
                               !.row = NewRow(c, "openid", o, offers[o].kind, "authorize")]
  <2>1. f.pc = "insertState"
    BY DEF Idle
  <2> QED
    BY <1>9, <2>1, FreshLasts DEF AuthorizeOffer
<1>10. ASSUME NEW r \in Slots, NEW s \in Sessions, DirectPost(r, s) PROVE SlotsOK'
  <2> DEFINE f == [Idle EXCEPT !.pc = "postRead", !.s = s, !.n = minted[s] + 1]
  <2>1. f.pc = "postRead" /\ f.s = s
    BY DEF Idle
  <2>2. SlotOK(f, vcs', entries')
    BY <2>1 DEF SlotOK, NeedKind, NeedSession, NeedBorn, NeedBacked
  <2> QED
    BY <1>10, <2>2, OthersLast DEF DirectPost, Mint, Start
<1>11. ASSUME NEW r \in Slots, NEW s \in Sessions, StandardToken(r, s) PROVE SlotsOK'
  <2> DEFINE f == [Idle EXCEPT !.pc = "tokenRead", !.s = s, !.n = minted[s] + 1]
  <2>1. f.pc = "tokenRead" /\ f.s = s
    BY DEF Idle
  <2>2. SlotOK(f, vcs', entries')
    BY <2>1 DEF SlotOK, NeedKind, NeedSession, NeedBorn, NeedBacked
  <2> QED
    BY <1>11, <2>2, OthersLast DEF StandardToken, Mint, Start
<1>12. ASSUME NEW r \in Slots, NEW s \in Sessions, PreAuthToken(r, s) PROVE SlotsOK'
  <2> DEFINE f == [Idle EXCEPT !.pc = "tokenRead", !.s = s, !.n = minted[s] + 1]
  <2>1. f.pc = "tokenRead" /\ f.s = s
    BY DEF Idle
  <2>2. SlotOK(f, vcs', entries')
    BY <2>1 DEF SlotOK, NeedKind, NeedSession, NeedBorn, NeedBacked
  <2> QED
    BY <1>12, <2>2, OthersLast DEF PreAuthToken, Mint, Start
<1>13. ASSUME NEW r \in Slots, NEW s \in Sessions, Credential(r, s) PROVE SlotsOK'
  <2> DEFINE row == [sessions[s] EXCEPT !.kind = KindOf(sessions[s])]
             f   == [Idle EXCEPT !.pc = "findDid", !.s = s, !.row = row]
  <2>1. f.pc = "findDid" /\ f.s = s /\ f.row = row
    BY DEF Idle
  <2>2. sessions[s] \in Row
    BY DEF TypeOK, IInv
  <2>3. KindOf(sessions[s]) \in Kinds
    BY <1>13, <2>2, RowFields, ConstantsAssumption DEF Credential, CanRequest, KindOf
  <2>4. row.kind = KindOf(sessions[s])
    BY <2>2 DEF Row
  <2>5. SlotOK(f, vcs', entries')
    <3> HIDE DEF row, f
    <3> QED
      BY <2>1, <2>3, <2>4 DEF SlotOK, NeedKind, NeedSession, NeedBorn, NeedBacked
  <2> QED
    BY <1>13, <2>5, OthersLast DEF Credential, Start
<1>14. ASSUME NEW r \in Slots, NEW v \in Vcs, PollIssued(r, v) PROVE SlotsOK'
  <2> DEFINE m == Msg("deferred", None, 0, v)
             f == [Idle EXCEPT !.pc = "reply", !.msg = m]
  <2>1. f.pc = "reply" /\ f.msg = m
    BY DEF Idle
  <2>2. m.type = "deferred" /\ m.v = v
    BY DEF Msg
  <2>3. Backed(v, vcs', entries')
    BY <1>14 DEF PollIssued, IInv, IssuedOK, Poll, tables
  <2>4. SlotOK(f, vcs', entries')
    <3> HIDE DEF m, f
    <3> QED
      BY <2>1, <2>2, <2>3 DEF SlotOK, Delivery, NeedKind, NeedSession, NeedBorn, NeedBacked
  <2> QED
    BY <1>14, <2>4, OthersLast DEF PollIssued, Poll, Start
<1>15. ASSUME NEW r \in Slots, NEW v \in Vcs, PollRejected(r, v) PROVE SlotsOK'
  <2> DEFINE m == Msg("denied", None, 0, v)
             f == [Idle EXCEPT !.pc = "reply", !.msg = m]
  <2>1. f.pc = "reply" /\ f.msg = m
    BY DEF Idle
  <2>2. m.type = "denied" /\ m.v = v
    BY DEF Msg
  <2>3. UNCHANGED <<vcs, entries>>
    BY <1>15 DEF PollRejected, Poll, tables
  <2>4. SlotOK(f, vcs', entries')
    <3> HIDE DEF m, f
    <3> QED
      BY <2>1, <2>2, <2>3 DEF SlotOK, Delivery, NeedKind, NeedSession, NeedBorn, NeedBacked
  <2> QED
    BY <1>15, <2>4, OthersLast DEF PollRejected, Poll, Start
<1>16. ASSUME NEW r \in Slots, NEW o \in Offers, InsertScopeOffer(r, o) PROVE SlotsOK'
  <2> DEFINE f == [req[r] EXCEPT !.pc = "insertState", !.row = [req[r].row EXCEPT !.offer = o]]
  <2>1. req[r] \in Slot
    BY SlotFacts
  <2>2. f.pc = "insertState"
    BY <2>1 DEF Slot
  <2>3. req' = [req EXCEPT ![r] = f]
    BY <1>16, <2>1, Zenon DEF InsertScopeOffer, Slot
  <2>4. SlotOK(f, vcs', entries')
    <3> HIDE DEF f
    <3> QED
      BY <2>2 DEF SlotOK, NeedKind, NeedSession, NeedBorn, NeedBacked
  <2> QED
    BY <2>3, <2>4, OthersLast
<1>17. ASSUME NEW r \in Slots, NEW s \in Sessions, InsertState(r, s) PROVE SlotsOK'
  <2> DEFINE m == Msg("state", s, 0, None)
  <2>1. ~Delivery(m)
    BY DEF Msg, Delivery
  <2>2. End(r) \/ Answer(r, m)
    BY <1>17 DEF InsertState
  <2> QED
    BY <2>1, <2>2, EndLasts, AnswerLasts
<1>18. ASSUME NEW r \in Slots, InsertStateFails(r) PROVE SlotsOK'
  BY <1>18, EndLasts DEF InsertStateFails
<1>19. ASSUME NEW r \in Slots, PostRead(r) PROVE SlotsOK'
  <2> DEFINE s   == req[r].s
             row == [sessions[s] EXCEPT !.step = "authResponse", !.status = "unclaimed",
                                            !.code = req[r].n]
             f   == [req[r] EXCEPT !.pc = "postSave", !.row = row]
             m   == Msg("code", s, req[r].n, None)
  <2>1. req[r] \in Slot /\ s \in Sessions
    BY <1>19, SlotFacts DEF PostRead, Busy, NeedSession, NeedBacked
  <2>2. f.pc = "postSave" /\ f.s = s /\ f.v = req[r].v
    BY <2>1 DEF Slot
  <2>3. SlotOK(f, vcs', entries')
    <3> HIDE DEF f
    <3> QED
      BY <2>1, <2>2 DEF SlotOK, NeedKind, NeedSession, NeedBorn, NeedBacked
  <2>4. Delivery(m) => Backed(m.v, vcs', entries')
    BY <2>1 DEF Msg, Delivery
  <2>5. req' = [req EXCEPT ![r] = f] \/ Answer(r, m)
    BY <1>19 DEF PostRead
  <2> QED
    BY <2>3, <2>4, <2>5, OthersLast, AnswerLasts
<1>20. ASSUME NEW r \in Slots, PostSave(r) PROVE SlotsOK'
  <2> DEFINE m == Msg("code", req[r].s, req[r].n, None)
  <2>1. ~Delivery(m)
    BY DEF Msg, Delivery
  <2> QED
    BY <1>20, <2>1, AnswerLasts DEF PostSave
<1>21. ASSUME NEW r \in Slots, TokenRead(r) PROVE SlotsOK'
  <2> DEFINE s   == req[r].s
             row == [sessions[s] EXCEPT !.step = "tokenRequest", !.status = "unclaimed",
                                            !.nonce = req[r].n]
             f   == [req[r] EXCEPT !.pc = "tokenSave", !.row = row]
             m   == Msg("nonce", s, req[r].n, None)
  <2>1. req[r] \in Slot /\ s \in Sessions
    BY <1>21, SlotFacts DEF TokenRead, Busy, NeedSession, NeedBacked
  <2>2. f.pc = "tokenSave" /\ f.s = s /\ f.v = req[r].v
    BY <2>1 DEF Slot
  <2>3. SlotOK(f, vcs', entries')
    <3> HIDE DEF f
    <3> QED
      BY <2>1, <2>2 DEF SlotOK, NeedKind, NeedSession, NeedBorn, NeedBacked
  <2>4. Delivery(m) => Backed(m.v, vcs', entries')
    BY <2>1 DEF Msg, Delivery
  <2>5. req' = [req EXCEPT ![r] = f] \/ Answer(r, m)
    BY <1>21 DEF TokenRead
  <2> QED
    BY <2>3, <2>4, <2>5, OthersLast, AnswerLasts
<1>22. ASSUME NEW r \in Slots, TokenSave(r) PROVE SlotsOK'
  <2> DEFINE m == Msg("nonce", req[r].s, req[r].n, None)
  <2>1. ~Delivery(m)
    BY DEF Msg, Delivery
  <2> QED
    BY <1>22, <2>1, AnswerLasts DEF TokenSave
<1>23. ASSUME NEW r \in Slots, EnsureStudent(r) PROVE SlotsOK'
  <2>1. req[r].row.kind \in Kinds /\ req[r].s \in Sessions
    BY <1>23, SlotFacts DEF EnsureStudent, Busy, NeedKind, NeedSession
  <2> QED
    BY <1>23, <2>1, GotoLasts DEF EnsureStudent, Pc, NeedBorn, NeedBacked
<1>24. ASSUME NEW r \in Slots, NEW v \in Vcs, InsertVc(r, v) PROVE SlotsOK'
  <2> DEFINE row == req[r].row
             f   == [req[r] EXCEPT !.pc = Branch(row), !.v = v]
  <2>1. req[r] \in Slot /\ req[r].s \in Sessions /\ row.kind \in Kinds
    BY <1>24, SlotFacts DEF InsertVc, Busy, NeedKind, NeedSession
  <2>2. f.pc = Branch(row) /\ f.s = req[r].s /\ f.v = v
    BY <2>1 DEF Slot
  <2>3. Born(v, vcs') /\ vcs'[v].kind = row.kind
    BY <1>24 DEF InsertVc, Born, IInv, TypeOK
  <2>4. /\ Branch(row) \in {"issueRead", "deferRead", "itDeferMark", "confRead"}
        /\ Branch(row) \in {"itDeferMark", "confRead"} => row.kind # "plain"
    BY <2>1 DEF Branch, Kinds
  <2>5. SlotOK(f, vcs', entries')
    <3> HIDE DEF f, row
    <3> QED
      BY <2>1, <2>2, <2>3, <2>4 DEF SlotOK, Backed, NeedKind, NeedSession, NeedBorn, NeedBacked
  <2> QED
    BY <1>24, <2>5, OthersLast DEF InsertVc
<1>25. ASSUME NEW r \in Slots, InsertVcFails(r) PROVE SlotsOK'
  BY <1>25, EndLasts DEF InsertVcFails
<1>26. ASSUME NEW r \in Slots, IssueRead(r) PROVE SlotsOK'
  <2>1. Born(req[r].v, vcs')
    BY <1>26, SlotFacts DEF IssueRead, Busy, NeedBorn, tables
  <2> QED
    BY <1>26, <2>1, GotoLasts, EndLasts DEF IssueRead, Pc, NeedKind, NeedSession, NeedBorn, NeedBacked
<1>27. ASSUME NEW r \in Slots, AddEntry(r) PROVE SlotsOK'
  <2>1. Born(req[r].v, vcs)
    BY <1>27, SlotFacts DEF AddEntry, Busy, NeedBorn
  <2>2. req[r].v \in Vcs /\ entries[req[r].v] \in Nat
    BY <2>1 DEF IInv, TypeOK, Born
  <2>3. entries'[req[r].v] > 0
    BY <1>27, <2>2 DEF AddEntry, IInv, TypeOK
  <2>4. Backed(req[r].v, vcs', entries')
    BY <1>27, <2>1, <2>3 DEF AddEntry, Backed, Born
  <2> QED
    BY <1>27, <2>4, GotoLasts DEF AddEntry, Pc, NeedKind, NeedSession, NeedBorn
<1>28. ASSUME NEW r \in Slots, MarkIssued(r) PROVE SlotsOK'
  <2>1. Backed(req[r].v, vcs', entries')
    BY <1>28, SlotFacts, BackedLasts DEF MarkIssued, Busy, NeedBacked
  <2>2. req[r].s # None => req[r].s \in Sessions
    BY SlotFields DEF IInv, TypeOK
  <2> QED
    BY <1>28, <2>1, <2>2, GotoLasts, EndLasts DEF MarkIssued, Pc, NeedKind, NeedBorn
<1>29. ASSUME NEW r \in Slots, MarkAgain(r) PROVE SlotsOK'
  <2>1. Backed(req[r].v, vcs', entries') /\ req[r].s \in Sessions
    BY <1>29, SlotFacts, BackedLasts DEF MarkAgain, Busy, NeedBacked, NeedSession
  <2> QED
    BY <1>29, <2>1, GotoLasts DEF MarkAgain, Pc, NeedKind, NeedBorn
<1>30. ASSUME NEW r \in Slots, ClaimRead(r) PROVE SlotsOK'
  <2> DEFINE s   == req[r].s
             row == [sessions[s] EXCEPT !.status = "claimed"]
             f   == [req[r] EXCEPT !.pc = "claimSave", !.row = row]
             m   == Msg("inTime", None, 0, req[r].v)
  <2>1. req[r] \in Slot /\ s \in Sessions /\ Backed(req[r].v, vcs, entries)
    BY <1>30, SlotFacts DEF ClaimRead, Busy, NeedSession, NeedBacked
  <2>2. f.pc = "claimSave" /\ f.s = s /\ f.v = req[r].v
    BY <2>1 DEF Slot
  <2>3. SlotOK(f, vcs', entries')
    <3> HIDE DEF f
    <3> QED
      BY <2>1, <2>2, BackedLasts DEF SlotOK, NeedKind, NeedSession, NeedBorn, NeedBacked
  <2>4. Delivery(m) => Backed(m.v, vcs', entries')
    BY <2>1, BackedLasts DEF Msg, Delivery
  <2>5. req' = [req EXCEPT ![r] = f] \/ Answer(r, m)
    BY <1>30 DEF ClaimRead
  <2> QED
    BY <2>3, <2>4, <2>5, OthersLast, AnswerLasts
<1>31. ASSUME NEW r \in Slots, ClaimSave(r) PROVE SlotsOK'
  <2> DEFINE m == Msg("inTime", None, 0, req[r].v)
  <2>1. Backed(req[r].v, vcs', entries')
    BY <1>31, SlotFacts, BackedLasts DEF ClaimSave, Busy, NeedBacked
  <2>2. m.v = req[r].v
    BY DEF Msg
  <2> QED
    BY <1>31, <2>1, <2>2, AnswerLasts DEF ClaimSave
<1>32. ASSUME NEW r \in Slots, DeferRead(r) PROVE SlotsOK'
  <2> DEFINE s   == req[r].s
             row == [sessions[s] EXCEPT !.step = "deferredRequest", !.status = "unclaimed"]
             f   == [req[r] EXCEPT !.pc = "deferSave", !.row = row]
             m   == Msg("token", None, 0, req[r].v)
  <2>1. req[r] \in Slot /\ s \in Sessions
    BY <1>32, SlotFacts DEF DeferRead, Busy, NeedSession, NeedBacked
  <2>2. f.pc = "deferSave" /\ f.s = s /\ f.v = req[r].v
    BY <2>1 DEF Slot
  <2>3. SlotOK(f, vcs', entries')
    <3> HIDE DEF f
    <3> QED
      BY <2>1, <2>2 DEF SlotOK, NeedKind, NeedSession, NeedBorn, NeedBacked
  <2>4. Delivery(m) => Backed(m.v, vcs', entries')
    BY <2>1 DEF Msg, Delivery
  <2>5. req' = [req EXCEPT ![r] = f] \/ Answer(r, m)
    BY <1>32 DEF DeferRead
  <2> QED
    BY <2>3, <2>4, <2>5, OthersLast, AnswerLasts
<1>33. ASSUME NEW r \in Slots, DeferSave(r) PROVE SlotsOK'
  <2> DEFINE m == Msg("token", None, 0, req[r].v)
  <2>1. ~Delivery(m)
    BY DEF Msg, Delivery
  <2> QED
    BY <1>33, <2>1, AnswerLasts DEF DeferSave
<1>34. ASSUME NEW r \in Slots, ConfRead(r) PROVE SlotsOK'
  <2>1. Backed(req[r].v, vcs', entries')
    BY <1>34, SlotFacts, BackedLasts DEF ConfRead, Busy, NeedBacked
  <2> QED
    BY <1>34, <2>1, GotoLasts, EndLasts DEF ConfRead, Pc, NeedKind, NeedSession, NeedBorn
<1>35. ASSUME NEW r \in Slots, ConfMark(r) PROVE SlotsOK'
  <2> DEFINE v == req[r].v
  <2>1. Backed(v, vcs', entries')
    BY <1>35, SlotFacts, BackedLasts DEF ConfMark, Busy, NeedBacked
  <2>2. ~Delivery(Msg("token", None, 0, v)) /\ Msg("inTime", None, 0, v).v = v
    BY DEF Msg, Delivery
  <2>3. \/ End(r)
        \/ Answer(r, Msg("token", None, 0, v))
        \/ Answer(r, Msg("inTime", None, 0, v))
    BY <1>35 DEF ConfMark
  <2> QED
    BY <2>1, <2>2, <2>3, EndLasts, AnswerLasts
<1>36. ASSUME NEW r \in Slots, ItDeferMark(r) PROVE SlotsOK'
  <2>1. ~Delivery(Msg("token", None, 0, req[r].v))
    BY DEF Msg, Delivery
  <2> QED
    BY <1>36, <2>1, AnswerLasts DEF ItDeferMark
<1>37. ASSUME NEW r \in Slots, Reply(r) PROVE SlotsOK'
  BY <1>37, EndLasts DEF Reply
<1>38. ASSUME NEW r \in Slots, Fail(r) PROVE SlotsOK'
  BY <1>38, EndLasts DEF Fail
<1>39. CASE UNCHANGED vars
  BY <1>39, AllLast DEF vars
<1>40. ASSUME NEW r \in Slots, NEW k \in {"ctInTime", "ctDeferred"}, MockToken(r, k)
       PROVE  SlotsOK'
  <2> DEFINE f == [Idle EXCEPT !.pc = "mockCheck",
                               !.row = NewRow(MockClient, "mock", None, k, "tokenRequest")]
  <2>1. f.pc = "mockCheck"
    BY DEF Idle
  <2> QED
    BY <1>40, <2>1, FreshLasts DEF MockToken
<1>41. ASSUME NEW r \in Slots, MockCheck(r) PROVE SlotsOK'
  BY <1>41, GotoLasts, EndLasts
     DEF MockCheck, Pc, NeedKind, NeedSession, NeedBorn, NeedBacked
<1>42. ASSUME NEW r \in Slots, NEW s \in Sessions, MockInsert(r, s) PROVE SlotsOK'
  BY <1>42, GotoLasts DEF MockInsert, Pc, NeedKind, NeedSession, NeedBorn, NeedBacked
<1>43. ASSUME NEW r \in Slots, NEW s \in Sessions, MockFind(r, s) PROVE SlotsOK'
  <2> DEFINE f == [Idle EXCEPT !.pc = "tokenRead", !.s = s, !.n = minted[s] + 1]
  <2>1. f.pc = "tokenRead" /\ f.s = s
    BY DEF Idle
  <2>2. SlotOK(f, vcs', entries')
    BY <2>1 DEF SlotOK, NeedKind, NeedSession, NeedBorn, NeedBacked
  <2> QED
    BY <1>43, <2>2, OthersLast DEF MockFind
<1>44. ASSUME NEW r \in Slots, MockMissing(r) PROVE SlotsOK'
  BY <1>44, EndLasts DEF MockMissing
<1>45. ASSUME NEW r \in Slots, FindDid(r) PROVE SlotsOK'
  <2>1. req[r].row.kind \in Kinds /\ req[r].s \in Sessions
    BY <1>45, SlotFacts DEF FindDid, Busy, NeedKind, NeedSession
  <2> QED
    BY <1>45, <2>1, GotoLasts DEF FindDid, Pc, NeedBorn, NeedBacked
<1>46. ASSUME NEW r \in Slots, InsertDid(r) PROVE SlotsOK'
  <2>1. req[r].row.kind \in Kinds /\ req[r].s \in Sessions
    BY <1>46, SlotFacts DEF InsertDid, Busy, NeedKind, NeedSession
  <2> QED
    BY <1>46, <2>1, GotoLasts, EndLasts DEF InsertDid, Pc, NeedBorn, NeedBacked
<1> QED
  BY <1>1, <1>2, <1>3, <1>4, <1>5, <1>6, <1>7, <1>8, <1>9, <1>10,
     <1>11, <1>12, <1>13, <1>14, <1>15, <1>16, <1>17, <1>18, <1>19, <1>20,
     <1>21, <1>22, <1>23, <1>24, <1>25, <1>26, <1>27, <1>28, <1>29, <1>30,
     <1>31, <1>32, <1>33, <1>34, <1>35, <1>36, <1>37, <1>38, <1>39, <1>40,
     <1>41, <1>42, <1>43, <1>44, <1>45, <1>46
     DEF Next, AdminNext, WalletNext, Step

-----------------------------------------------------------------------------
(***************************************************************************)
(* Issued credentials and delivered ones.                                  *)
(***************************************************************************)

\* Only a handler that has added the entry, or whose credential needs none,
\* turns a record's status to "issued".
LEMMA IssuedStep ==
  ASSUME IInv, [Next]_vars
  PROVE  IssuedOK'
<1> SUFFICES ASSUME NEW v \in Vcs, vcs'[v].status = "issued"
             PROVE  Backed(v, vcs', entries')
  BY DEF IssuedOK
<1>1. vcs[v] \in VcRow /\ vcs \in [Vcs -> VcRow]
  BY DEF IInv, TypeOK
<1>2. CASE vcs[v].status = "issued"
  BY <1>2, BackedLasts DEF IInv, IssuedOK
<1>3. ASSUME NEW r \in Slots, Marks(r), vcs[v].status # "issued"
      PROVE  Backed(v, vcs', entries')
  <2>1. v = req[r].v
    BY <1>1, <1>3, MarksFacts DEF Marked
  <2> QED
    BY <1>3, <2>1, MarksFacts, BackedLasts
<1>4. ASSUME NEW w \in Vcs, Reject(w) \/ Reopen(w) PROVE vcs[v].status = "issued"
  BY <1>1, <1>4 DEF Reject, Reopen, SetStatus, Marked, VcRow
<1>5. ASSUME NEW o \in Offers, DeleteOffer(o) PROVE vcs[v].status = "issued"
  BY <1>1, <1>5 DEF DeleteOffer, VcRow
<1>6. ASSUME NEW r \in Slots, NEW w \in Vcs, InsertVc(r, w) PROVE vcs[v].status = "issued"
  BY <1>1, <1>6 DEF InsertVc
<1>7. vcs[v].status = "issued" \/ Backed(v, vcs', entries')
  BY <1>3, <1>4, <1>5, <1>6, VcsWriters DEF WritesVcs
<1> QED
  BY <1>2, <1>7

\* A wallet learns only what a replying handler had.
LEMMA DeliveredStep ==
  ASSUME IInv, [Next]_vars
  PROVE  DeliveredOK'
<1> SUFFICES ASSUME NEW m \in wallet', Delivery(m)
             PROVE  Backed(m.v, vcs', entries')
  BY DEF DeliveredOK
<1>1. CASE m \in wallet
  BY <1>1, BackedLasts DEF IInv, DeliveredOK
<1>2. ASSUME NEW r \in Slots, Reply(r), m \notin wallet
      PROVE  Backed(m.v, vcs', entries')
  BY <1>2, SlotFacts, BackedLasts DEF Reply, Busy
<1> QED
  BY <1>1, <1>2, WalletWriters

-----------------------------------------------------------------------------
(***************************************************************************)
(* Theorems.                                                               *)
(***************************************************************************)

\* The tables start empty, with no handler in flight.
LEMMA InitIInv == Init => IInv
<1> SUFFICES ASSUME Init PROVE IInv
  OBVIOUS
<1>1. TypeOK
  <2>1. NoOffer \in OfferRow
    BY DEF NoOffer, OfferRow, Lives, Grants, Kinds
  <2>2. NoVc \in VcRow
    BY DEF NoVc, VcRow, Kinds
  <2> QED
    BY <2>1, <2>2, NoRowType, IdleType DEF Init, TypeOK
<1>2. SlotsOK
  <2>1. SlotOK(Idle, vcs, entries)
    BY DEF SlotOK, Idle, NeedKind, NeedSession, NeedBorn, NeedBacked
  <2> QED
    BY <2>1 DEF Init, SlotsOK
<1>3. IssuedOK /\ DeliveredOK
  BY DEF Init, IssuedOK, DeliveredOK, NoVc
<1> QED
  BY <1>1, <1>2, <1>3 DEF IInv

\* IInv holds in every state: what each handler relies on where it resumes,
\* with the types, is kept by every step of every other handler.
THEOREM Inductive == Spec => []IInv
<1>1. IInv /\ [Next]_vars => IInv'
  BY TypeStep, SlotsStep, IssuedStep, DeliveredStep DEF IInv
<1> QED
  BY InitIInv, <1>1, PTL DEF Spec

\* Every table, slot and channel keeps its type.
THEOREM TypeCorrect == Spec => []TypeOK
<1>1. IInv => TypeOK
  BY DEF IInv
<1> QED
  BY Inductive, <1>1, PTL

\* However handlers interleave, die and repeat, a credential issued from a
\* schema template has a status list entry by which it can be revoked.
THEOREM IssuedIsRevocable == Spec => []IssuedHasStatusEntry
<1>1. IInv => IssuedHasStatusEntry
  BY DEF IInv, IssuedOK, Backed, IssuedHasStatusEntry
<1> QED
  BY Inductive, <1>1, PTL

\* The same of every credential that reached a wallet, in time or deferred,
\* whatever became of its record since.
THEOREM DeliveredIsRevocable == Spec => []DeliveredHasStatusEntry
<1>1. IInv => DeliveredHasStatusEntry
  BY DEF IInv, DeliveredOK, Delivery, Deliveries, Backed, DeliveredHasStatusEntry
<1> QED
  BY Inductive, <1>1, PTL

\* A credential record that was deleted with its offer stays deleted,
\* whoever read it before and writes to it now.
THEOREM DeletedForGood == Spec => DeletedStaysDeleted
<1> DEFINE Stays == \A v \in Vcs : vcs[v].status = "gone" => vcs'[v].status = "gone"
<1>1. ASSUME IInv, [Next]_vars PROVE Stays
  <2> SUFFICES ASSUME NEW v \in Vcs, vcs[v].status = "gone"
               PROVE  vcs'[v].status = "gone"
    OBVIOUS
  <2>1. vcs \in [Vcs -> VcRow]
    BY <1>1 DEF IInv, TypeOK
  <2>2. ASSUME NEW w, NEW status, vcs' = Marked(w, status)
        PROVE  vcs'[v].status = "gone"
    BY <2>1, <2>2 DEF Marked, LiveVc, VcRow
  <2>3. ASSUME NEW o \in Offers, DeleteOffer(o) PROVE vcs'[v].status = "gone"
    BY <2>1, <2>3 DEF DeleteOffer, LiveVc
  <2>4. ASSUME NEW r \in Slots, NEW w \in Vcs, InsertVc(r, w)
        PROVE  vcs'[v].status = "gone"
    BY <2>1, <2>4 DEF InsertVc
  <2>5. ASSUME NEW r \in Slots, Marks(r) PROVE vcs'[v].status = "gone"
    BY <1>1, <2>2, <2>5, MarksFacts
  <2> QED
    BY <1>1, <2>2, <2>3, <2>4, <2>5, VcsWriters DEF WritesVcs, Reject, Reopen, SetStatus
<1>2. [][Stays]_vars => DeletedStaysDeleted
  BY PTL DEF DeletedStaysDeleted
<1>3. IInv /\ [Next]_vars => [Stays]_vars
  BY <1>1
<1> QED
  BY Inductive, <1>2, <1>3, PTL DEF Spec

=============================================================================
