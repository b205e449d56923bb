---------------------------- MODULE OffersProofs -----------------------------
(***************************************************************************)
(* Proofs about Offers, for every set of ids, batch, lifetime and bound.   *)
(***************************************************************************)
EXTENDS Offers, TLAPS

(***************************************************************************)
(* The inductive invariant.  What a request has done so far shows in the   *)
(* tables as long as its offer is there; once an offer is stored, who made *)
(* it and how never changes, and it can only be deleted.                   *)
(***************************************************************************)
Made(o, os) == o \in Offers /\ os[o].life \in {"live", "gone"}

Answering(q) == q.at \in {"link", "claim"} \/ (q.op = "make" /\ q.at = "ok")
Filed(q)     == q.at = "row" \/ Answering(q)

SlotOK(q, os, rs, cs) ==
    /\ q.expires <= q.exp
    /\ q.at = "offer" => q.i \in Offers /\ os[q.i].life = "data"
    /\ Filed(q) => Made(q.i, os) /\ os[q.i].by = q.by /\ os[q.i].grant = q.grant
    /\ q.at = "state" => Made(q.i, os)
    /\ Answering(q) /\ q.grant = "pre" /\ os[q.i].life = "live" => q.i \in rs
    /\ q.at = "ok" => \/ q.op = "make" /\ q.by = "desk"
                      \/ q.op = "makeKey" /\ q.i \in Keys
                      \/ q.op = "delete"
    /\ q.op = "make" => q.by \in Askers
    /\ q.op \in {"fetch", "authorize"} => q.i \in Offers
    /\ q.op = "delete" => q.i \in Items
    /\ q.at = "claim" => q.by = "interop"
    /\ \A o \in q.got : o \in cs /\ (os[o].grant = "pre" => o \in rs)

SlotsOK == \A r \in Slots : SlotOK(req[r], offers, rows, claims)

\* Two requests never store the same offer.
Apart == \A r, s \in Slots :
            req[r].at = "offer" /\ req[s].at = "offer" /\ req[r].i = req[s].i => r = s

TablesOK(os, rs, cs) ==
    \A o \in Offers :
        /\ os[o].life = "live" => os[o].expires <= os[o].exp
        /\ o \in rs \cup cs => os[o].life = "live"

GhostOK(os, rs, cs, ms, g) ==
    /\ ms \subseteq g.handed
    /\ \A o \in Offers :
         /\ os[o].status = "USED" => o \in g.handed \/ os[o].by = "scope"
         /\ o \in g.told \cup g.joined => Made(o, os)
         /\ os[o].life = "live" =>
              /\ o \in g.told /\ os[o].grant = "pre" => o \in rs
              /\ o \in g.joined => o \in rs
              /\ o \in g.told /\ os[o].by = "interop" => o \in cs

IInv == /\ TypeOK /\ SlotsOK /\ Apart
        /\ TablesOK(offers, rows, claims)
        /\ GhostOK(offers, rows, claims, marks, ghost)

\* What a step of one request does to what the others rely on; x is the offer
\* that the request itself stores.
Keeps(x, os, rs, cs, os2, rs2, cs2) ==
    \A o \in Offers :
        /\ o # x /\ os[o].life = "data" => os2[o].life = "data"
        /\ Made(o, os) =>
             /\ Made(o, os2) /\ os2[o].by = os[o].by /\ os2[o].grant = os[o].grant
             /\ os2[o].life = "live" => os[o].life = "live" /\ (o \in rs => o \in rs2)
        /\ o \in cs => o \in cs2 /\ (o \in rs => o \in rs2)

-----------------------------------------------------------------------------
LEMMA Assumed ==
  /\ Life \in Nat /\ None \notin Items
  /\ Len(Batch) \in Nat /\ 1 \in 1 .. Len(Batch) /\ 0 \in 0 .. Len(Batch)
  /\ \A n \in 1 .. Len(Batch) : Batch[n] \in Grants
  /\ \A k \in Keys : k \notin Offers
<1>1. Batch \in Seq(Grants) /\ Batch # <<>>
  BY OffersAssumption DEF OffersAssumption
<1>2. Len(Batch) \in Nat /\ Len(Batch) > 0 /\ \A n \in 1 .. Len(Batch) : Batch[n] \in Grants
  BY <1>1, SMT
<1> QED BY <1>2, OffersAssumption, SMT DEF OffersAssumption

LEMMA IdleType == Idle \in Req
  BY Assumed, SMT DEF Idle, Req, Askers, Grants

LEMMA ReqFields ==
  ASSUME NEW q \in Req
  PROVE  /\ q.op \in {"none", "make", "makeKey", "delete", "fetch", "authorize"}
         /\ q.at \in {"idle", "work", "compute", "data", "offer", "row", "state", "link",
                      "claim", "ok", "failed"}
         /\ q.by \in Askers \cup {"other"} /\ q.grant \in Grants
         /\ q.n \in 0 .. Len(Batch) /\ q.i \in Items \cup {None}
         /\ q.expires \in Nat /\ q.exp \in Nat /\ q.got \in SUBSET Offers
  BY SMT DEF Req

LEMMA MakingType ==
  ASSUME NEW by \in Askers, NEW g \in Grants
  PROVE  /\ Making(by, g) \in Req
         /\ Making(by, g).op = "make" /\ Making(by, g).at = "compute"
         /\ Making(by, g).by = by /\ Making(by, g).grant = g
         /\ Making(by, g).expires = 0 /\ Making(by, g).exp = 0 /\ Making(by, g).got = {}
<1> DEFINE I == Idle
           m == [I EXCEPT !.op = "make", !.at = "compute", !.by = by, !.grant = g]
<1>1. I \in Req /\ I.expires = 0 /\ I.exp = 0 /\ I.got = {}
  BY IdleType, SMT DEF Idle
<1>2. "make" \in {"none", "make", "makeKey", "delete", "fetch", "authorize"}
      /\ "compute" \in {"idle", "work", "compute", "data", "offer", "row", "state", "link",
                        "claim", "ok", "failed"}
      /\ by \in Askers \cup {"other"}
  OBVIOUS
<1> HIDE DEF I
<1>3. m \in Req
  BY <1>1, <1>2, Zenon DEF Req
<1>4. m.op = "make" /\ m.at = "compute" /\ m.by = by /\ m.grant = g
      /\ m.expires = I.expires /\ m.exp = I.exp /\ m.got = I.got
  BY <1>1, Zenon DEF Req
<1> QED BY <1>1, <1>3, <1>4 DEF Making, I

\* A move of a request at the same place of the protocol.
LEMMA AtType ==
  ASSUME NEW q \in Req,
         NEW at \in {"idle", "work", "compute", "data", "offer", "row", "state", "link",
                     "claim", "ok", "failed"}
  PROVE  /\ [q EXCEPT !.at = at] \in Req
         /\ [q EXCEPT !.at = at].at = at /\ [q EXCEPT !.at = at].op = q.op
         /\ [q EXCEPT !.at = at].by = q.by /\ [q EXCEPT !.at = at].grant = q.grant
         /\ [q EXCEPT !.at = at].i = q.i /\ [q EXCEPT !.at = at].expires = q.expires
         /\ [q EXCEPT !.at = at].exp = q.exp /\ [q EXCEPT !.at = at].got = q.got
  BY SMT DEF Req

LEMMA IdleOK ==
  ASSUME NEW os, NEW rs, NEW cs
  PROVE  SlotOK(Idle, os, rs, cs)
  BY SMT DEF SlotOK, Idle, Filed, Answering

-----------------------------------------------------------------------------
(***************************************************************************)
(* What a step has to show.                                                *)
(***************************************************************************)
LEMMA OtherSlots ==
  ASSUME IInv, NEW s \in Slots, NEW x, NEW os2, NEW rs2, NEW cs2,
         Keeps(x, offers, rows, claims, os2, rs2, cs2),
         req[s].at = "offer" => req[s].i # x
  PROVE  SlotOK(req[s], os2, rs2, cs2)
<1> DEFINE q == req[s]
<1>1. q \in Req /\ SlotOK(q, offers, rows, claims)
  BY DEF IInv, TypeOK, SlotsOK
<1>2. q.at = "offer" => q.i # x
  OBVIOUS
<1>3. claims \subseteq Offers /\ q.got \subseteq Offers
  BY <1>1, ReqFields, Zenon DEF IInv, TypeOK
<1>4. \A o \in claims : Made(o, offers)
  BY <1>3, Zenon DEF IInv, TablesOK, Made
<1> HIDE DEF q
<1>5. \A o \in q.got : o \in cs2 /\ (os2[o].grant = "pre" => o \in rs2)
  BY <1>1, <1>3, <1>4, Zenon DEF SlotOK, Keeps
<1>6. q.at = "offer" => q.i \in Offers /\ os2[q.i].life = "data"
  BY <1>1, <1>2, Zenon DEF SlotOK, Keeps
<1>7. ASSUME Made(q.i, offers)
      PROVE  /\ Made(q.i, os2) /\ os2[q.i].by = offers[q.i].by
             /\ os2[q.i].grant = offers[q.i].grant
             /\ os2[q.i].life = "live" => offers[q.i].life = "live" /\ (q.i \in rows => q.i \in rs2)
  <2>1. q.i \in Offers
    BY <1>7, Zenon DEF Made
  <2> QED BY <2>1, <1>7, Zenon DEF Keeps
<1>8. Filed(q) => Made(q.i, offers) /\ offers[q.i].by = q.by /\ offers[q.i].grant = q.grant
  BY <1>1, Zenon DEF SlotOK
<1>9. Filed(q) => Made(q.i, os2) /\ os2[q.i].by = q.by /\ os2[q.i].grant = q.grant
  BY <1>7, <1>8, Zenon
<1>10. q.at = "state" => Made(q.i, os2)
  BY <1>1, <1>7, Zenon DEF SlotOK
<1>11. Answering(q) /\ q.grant = "pre" /\ os2[q.i].life = "live" => q.i \in rs2
  BY <1>1, <1>7, <1>8, Zenon DEF SlotOK, Filed
<1>12. /\ q.expires <= q.exp
       /\ q.at = "ok" => \/ q.op = "make" /\ q.by = "desk"
                         \/ q.op = "makeKey" /\ q.i \in Keys
                         \/ q.op = "delete"
       /\ q.op = "make" => q.by \in Askers
       /\ q.op \in {"fetch", "authorize"} => q.i \in Offers
       /\ q.op = "delete" => q.i \in Items
       /\ q.at = "claim" => q.by = "interop"
  BY <1>1, Zenon DEF SlotOK
<1>13. SlotOK(q, os2, rs2, cs2)
  BY <1>5, <1>6, <1>9, <1>10, <1>11, <1>12, Zenon DEF SlotOK
<1> QED BY <1>13 DEF q

LEMMA Frame ==
  ASSUME IInv, NEW r \in Slots, NEW f \in Req, Put(r, f),
         clock' \in Nat, offers' \in [Offers -> Offer], rows' \subseteq Offers,
         claims' \subseteq Offers, keys' \in [Keys -> Lives], marks' \subseteq Offers,
         view' \in [Tables -> View], ghost' \in Ghost, count' \in [asked : Nat, faults : Nat],
         NEW x, Keeps(x, offers, rows, claims, offers', rows', claims'),
         \A s \in Slots : s # r /\ req[s].at = "offer" =>
             req[s].i # x /\ (f.at = "offer" => req[s].i # f.i),
         SlotOK(f, offers', rows', claims'),
         TablesOK(offers', rows', claims'),
         GhostOK(offers', rows', claims', marks', ghost')
  PROVE  IInv'
<1>1. /\ req' \in [Slots -> Req] /\ req'[r] = f
      /\ \A s \in Slots : s # r => req'[s] = req[s]
  BY Zenon DEF IInv, TypeOK, Put
<1>2. TypeOK'
  BY <1>1, Zenon DEF TypeOK
<1>3. SlotsOK'
  <2> SUFFICES ASSUME NEW s \in Slots
               PROVE  SlotOK(req'[s], offers', rows', claims')
    BY Zenon DEF SlotsOK
  <2>1. CASE s = r
    BY <2>1, <1>1
  <2>2. CASE s # r
    <3>1. SlotOK(req[s], offers', rows', claims')
      BY <2>2, OtherSlots
    <3> QED BY <3>1, <2>2, <1>1
  <2> QED BY <2>1, <2>2
<1>4. Apart'
  BY <1>1, Zenon DEF IInv, Apart
<1> QED BY <1>2, <1>3, <1>4, Zenon DEF IInv

\* A step that moves no request.
LEMMA FrameRest ==
  ASSUME IInv, TypeOK', req' = req, NEW x,
         Keeps(x, offers, rows, claims, offers', rows', claims'),
         \A s \in Slots : req[s].at = "offer" => req[s].i # x,
         TablesOK(offers', rows', claims'),
         GhostOK(offers', rows', claims', marks', ghost')
  PROVE  IInv'
<1>1. SlotsOK'
  <2> SUFFICES ASSUME NEW s \in Slots
               PROVE  SlotOK(req[s], offers', rows', claims')
    BY Zenon DEF SlotsOK
  <2> QED BY OtherSlots
<1>2. Apart'
  BY Zenon DEF IInv, Apart
<1> QED BY <1>1, <1>2, Zenon DEF IInv

\* The tables and what was answered are as they were.
LEMMA Unmoved ==
  ASSUME IInv, UNCHANGED <<offers, rows, claims>>
  PROVE  /\ TablesOK(offers', rows', claims')
         /\ \A x : Keeps(x, offers, rows, claims, offers', rows', claims')
         /\ offers' \in [Offers -> Offer] /\ rows' \subseteq Offers /\ claims' \subseteq Offers
<1>1. offers' = offers /\ rows' = rows /\ claims' = claims
  OBVIOUS
<1>2. \A x : Keeps(x, offers, rows, claims, offers, rows, claims)
  BY Zenon DEF Keeps
<1> QED BY <1>1, <1>2, Zenon DEF IInv, TypeOK

\* A request that stores no offer takes a step that changes no table but
\* perhaps the keys, and tells more.
LEMMA Quiet ==
  ASSUME IInv, NEW r \in Slots, NEW f \in Req, Put(r, f), f.at # "offer",
         SlotOK(f, offers, rows, claims),
         UNCHANGED <<offers, rows, claims>>,
         clock' \in Nat, keys' \in [Keys -> Lives], marks' \subseteq Offers,
         view' \in [Tables -> View], ghost' \in Ghost, count' \in [asked : Nat, faults : Nat],
         GhostOK(offers, rows, claims, marks', ghost')
  PROVE  IInv'
<1>1. offers' = offers /\ rows' = rows /\ claims' = claims
  OBVIOUS
<1>2. SlotOK(f, offers', rows', claims') /\ GhostOK(offers', rows', claims', marks', ghost')
  BY <1>1
<1>3. \A s \in Slots : req[s].at = "offer" => req[s].i # None
  BY Assumed, Zenon DEF IInv, SlotsOK, SlotOK, Items
<1>4. Keeps(None, offers, rows, claims, offers', rows', claims') /\ TablesOK(offers', rows', claims')
  BY Unmoved, Zenon
<1>5. \A s \in Slots : s # r /\ req[s].at = "offer" =>
         req[s].i # None /\ (f.at = "offer" => req[s].i # f.i)
  BY <1>3, Zenon
<1>6. offers' \in [Offers -> Offer] /\ rows' \subseteq Offers /\ claims' \subseteq Offers
  BY Unmoved, Zenon
<1> QED BY <1>2, <1>4, <1>5, <1>6, Frame

-----------------------------------------------------------------------------
(***************************************************************************)
(* Asking.                                                                 *)
(***************************************************************************)
LEMMA Counts ==
  ASSUME TypeOK, Asked \/ Fault
  PROVE  count' \in [asked : Nat, faults : Nat]
  BY SMT DEF TypeOK, Asked, Fault

LEMMA Starts ==
  ASSUME IInv, NEW r \in Slots, NEW f \in Req, Start(r, f), f.at # "offer",
         SlotOK(f, offers, rows, claims)
  PROVE  IInv'
<1>1. Put(r, f) /\ Asked /\ OnlyAsked
  BY Zenon DEF Start
<1>2. count' \in [asked : Nat, faults : Nat]
  BY <1>1, Counts, Zenon DEF IInv
<1> QED BY <1>1, <1>2, Quiet, Zenon DEF IInv, TypeOK, OnlyAsked

\* A request that has an offer made.
LEMMA MakingOK ==
  ASSUME NEW f \in Req, f.op = "make", f.at = "compute", f.by \in Askers,
         f.expires = 0, f.exp = 0, NEW os, NEW rs, NEW cs,
         \A o \in f.got : o \in cs /\ (os[o].grant = "pre" => o \in rs)
  PROVE  SlotOK(f, os, rs, cs)
<1>1. f.expires <= f.exp
  BY SMT
<1> QED BY <1>1, SMT DEF SlotOK, Filed, Answering

LEMMA StartFacts ==
  /\ Idle \in Req /\ Idle.expires = 0 /\ Idle.exp = 0 /\ Idle.got = {}
  /\ {"desk", "other"} \subseteq Askers \cup {"other"}
  /\ Items \subseteq Items \cup {None} /\ Offers \subseteq Items
<1>1. Idle.expires = 0 /\ Idle.exp = 0 /\ Idle.got = {}
  BY SMT DEF Idle
<1>2. {"desk", "other"} \subseteq Askers \cup {"other"}
  BY SMT DEF Askers
<1>3. Items \subseteq Items \cup {None} /\ Offers \subseteq Items
  BY SMT DEF Items
<1> QED BY <1>1, <1>2, <1>3, IdleType

LEMMA StartTypes ==
  ASSUME NEW q,
         \/ q = [Idle EXCEPT !.op = "makeKey", !.at = "work", !.by = "desk"]
         \/ \E i \in Items, by \in {"desk", "other"} :
              q = [Idle EXCEPT !.op = "delete", !.at = "work", !.by = by, !.i = i]
         \/ \E o \in Offers : q = [Idle EXCEPT !.op = "fetch", !.at = "work", !.i = o]
         \/ \E o \in Offers : /\ Stored(o)
                              /\ q = [Idle EXCEPT !.op = "authorize", !.at = "state", !.i = o]
  PROVE  /\ q \in Req /\ q.expires = 0 /\ q.exp = 0 /\ q.got = {}
         /\ \/ q.op = "makeKey" /\ q.at = "work"
            \/ q.op = "delete" /\ q.at = "work" /\ q.i \in Items
            \/ q.op = "fetch" /\ q.at = "work" /\ q.i \in Offers
            \/ q.op = "authorize" /\ q.at = "state" /\ q.i \in Offers /\ Stored(q.i)
<1> DEFINE I == Idle
           Set == {"idle", "work", "compute", "data", "offer", "row", "state", "link",
                   "claim", "ok", "failed"}
           Ops == {"none", "make", "makeKey", "delete", "fetch", "authorize"}
           Bys == Askers \cup {"other"}
           Ids == Items \cup {None}
<1>1. I \in Req /\ I.expires = 0 /\ I.exp = 0 /\ I.got = {}
  BY StartFacts, Zenon
<1>2. /\ {"work", "state"} \subseteq Set
      /\ {"makeKey", "delete", "fetch", "authorize"} \subseteq Ops
      /\ {"desk", "other"} \subseteq Bys
      /\ Items \subseteq Ids /\ Offers \subseteq Items
  BY StartFacts, Zenon
<1>3. Req = [op : Ops, at : Set, by : Bys, grant : Grants, n : 0 .. Len(Batch),
             i : Ids, expires : Nat, exp : Nat, got : SUBSET Offers]
  BY DEF Req
<1>4. CASE q = [I EXCEPT !.op = "makeKey", !.at = "work", !.by = "desk"]
  <2>1. "makeKey" \in Ops /\ "work" \in Set /\ "desk" \in Bys
    BY <1>2, Zenon
  <2> HIDE DEF I, Set, Ops, Bys, Ids
  <2>2. q \in Req /\ q.op = "makeKey" /\ q.at = "work" /\ q.expires = I.expires
        /\ q.exp = I.exp /\ q.got = I.got
    BY <2>1, <1>1, <1>3, <1>4, Zenon
  <2> QED BY <2>2, <1>1, Zenon
<1>5. ASSUME NEW i \in Items, NEW by \in {"desk", "other"},
             q = [I EXCEPT !.op = "delete", !.at = "work", !.by = by, !.i = i]
      PROVE  q \in Req /\ q.op = "delete" /\ q.at = "work" /\ q.i = i
             /\ q.expires = 0 /\ q.exp = 0 /\ q.got = {}
  <2>1. "delete" \in Ops /\ "work" \in Set /\ by \in Bys /\ i \in Ids
    BY <1>2, Zenon
  <2> HIDE DEF I, Set, Ops, Bys, Ids
  <2>2. q \in Req /\ q.op = "delete" /\ q.at = "work" /\ q.i = i /\ q.expires = I.expires
        /\ q.exp = I.exp /\ q.got = I.got
    BY <2>1, <1>1, <1>3, <1>5, Zenon
  <2> QED BY <2>2, <1>1, Zenon
<1>6. ASSUME NEW op \in {"fetch", "authorize"}, NEW at \in {"work", "state"}, NEW o \in Offers,
             q = [I EXCEPT !.op = op, !.at = at, !.i = o]
      PROVE  q \in Req /\ q.op = op /\ q.at = at /\ q.i = o
             /\ q.expires = 0 /\ q.exp = 0 /\ q.got = {}
  <2>1. op \in Ops /\ at \in Set /\ o \in Ids
    BY <1>2, Zenon
  <2> HIDE DEF I, Set, Ops, Bys, Ids
  <2>2. q \in Req /\ q.op = op /\ q.at = at /\ q.i = o /\ q.expires = I.expires
        /\ q.exp = I.exp /\ q.got = I.got
    BY <2>1, <1>1, <1>3, <1>6, Zenon
  <2> QED BY <2>2, <1>1, Zenon
<1> QED BY <1>1, <1>4, <1>5, <1>6, Zenon

LEMMA Asks ==
  ASSUME IInv, NEW r \in Slots, Ask(r)
  PROVE  IInv'
<1> USE DEF Grants
<1>1. ASSUME NEW by \in Askers, NEW g \in Grants, Start(r, Making(by, g))
      PROVE  IInv'
  <2>1. SlotOK(Making(by, g), offers, rows, claims)
    BY MakingType, MakingOK, SMT
  <2> QED BY <2>1, <1>1, MakingType, Starts, SMT
<1>2. CASE AskAtDesk(r)
  BY <1>2, <1>1, Zenon DEF AskAtDesk, Askers
<1>3. CASE AskScope(r)
  BY <1>3, <1>1, Zenon DEF AskScope, Askers
<1>4. CASE \E k \in Keys, g \in Grants : AskWithKey(r, k, g)
  BY <1>4, <1>1, Zenon DEF AskWithKey, Askers
<1>5. CASE AskInterop(r)
  <2> DEFINE m == Making("interop", Batch[1])
             q == [m EXCEPT !.n = 1]
  <2>1. m \in Req /\ m.op = "make" /\ m.at = "compute" /\ m.by = "interop"
        /\ m.expires = 0 /\ m.exp = 0 /\ m.got = {} /\ 1 \in 0 .. Len(Batch)
    BY Assumed, MakingType, SMT DEF Askers
  <2>2. Start(r, q)
    BY <1>5, Zenon DEF AskInterop
  <2> HIDE DEF m
  <2>3. q \in Req
    BY <2>1, Zenon DEF Req
  <2>4. q.op = "make" /\ q.at = "compute" /\ q.by = "interop"
        /\ q.expires = 0 /\ q.exp = 0 /\ q.got = {}
    BY <2>1, Zenon DEF Req
  <2> HIDE DEF q
  <2>5. SlotOK(q, offers, rows, claims)
    BY <2>3, <2>4, MakingOK, SMT DEF Askers
  <2> QED BY <2>2, <2>3, <2>4, <2>5, Starts, SMT
<1>6. ASSUME NEW q, Start(r, q),
             \/ q = [Idle EXCEPT !.op = "makeKey", !.at = "work", !.by = "desk"]
             \/ \E i \in Items, by \in {"desk", "other"} :
                  q = [Idle EXCEPT !.op = "delete", !.at = "work", !.by = by, !.i = i]
             \/ \E o \in Offers : q = [Idle EXCEPT !.op = "fetch", !.at = "work", !.i = o]
             \/ \E o \in Offers : /\ Stored(o)
                                  /\ q = [Idle EXCEPT !.op = "authorize", !.at = "state", !.i = o]
      PROVE  IInv'
  <2>1. /\ q \in Req /\ q.expires = 0 /\ q.exp = 0 /\ q.got = {}
        /\ \/ q.op = "makeKey" /\ q.at = "work"
           \/ q.op = "delete" /\ q.at = "work" /\ q.i \in Items
           \/ q.op = "fetch" /\ q.at = "work" /\ q.i \in Offers
           \/ q.op = "authorize" /\ q.at = "state" /\ q.i \in Offers /\ Stored(q.i)
    BY <1>6, StartTypes, Zenon
  <2>2. q.expires <= q.exp
    BY <2>1, SMT
  <2>3. SlotOK(q, offers, rows, claims) /\ q.at # "offer"
    <3>1. q.i \in Offers /\ Stored(q.i) => Made(q.i, offers)
      BY Zenon DEF Stored, Made
    <3>2. q.at \in {"work", "state"} /\ q.op # "make" /\ ~Filed(q) /\ ~Answering(q)
      BY <2>1, SMT DEF Filed, Answering
    <3> QED BY <2>1, <2>2, <3>1, <3>2, SMT DEF SlotOK
  <2> QED BY <1>6, <2>1, <2>3, Starts, Zenon
<1>7. CASE AskKey(r)
  BY <1>7, <1>6, Zenon DEF AskKey
<1>8. CASE \E i \in Items, by \in {"desk", "other"} : AskDelete(r, i, by)
  BY <1>8, <1>6, Zenon DEF AskDelete
<1>9. CASE \E o \in Offers : Fetch(r, o) \/ Authorize(r, o)
  <2> PICK o \in Offers : Fetch(r, o) \/ Authorize(r, o)
    BY <1>9
  <2>1. CASE Fetch(r, o)
    <3>1. Start(r, [Idle EXCEPT !.op = "fetch", !.at = "work", !.i = o])
      BY <2>1, Zenon DEF Fetch, Start
    <3> QED BY <3>1, <1>6, Zenon
  <2>2. CASE Authorize(r, o)
    <3>1. Start(r, [Idle EXCEPT !.op = "authorize", !.at = "state", !.i = o]) /\ Stored(o)
      BY <2>2, Zenon DEF Authorize, Start
    <3> QED BY <3>1, <1>6, Zenon
  <2> QED BY <2>1, <2>2
<1> QED BY <1>2, <1>3, <1>4, <1>5, <1>7, <1>8, <1>9, Zenon DEF Ask

-----------------------------------------------------------------------------
(***************************************************************************)
(* Answers.                                                                *)
(***************************************************************************)
LEMMA Telling ==
  ASSUME NEW os, NEW rs, NEW cs, NEW ms, NEW g \in Ghost, GhostOK(os, rs, cs, ms, g),
         NEW T \in SUBSET Items,
         \A o \in T \cap Offers :
            /\ Made(o, os)
            /\ os[o].life = "live" => /\ os[o].grant = "pre" => o \in rs
                                      /\ os[o].by = "interop" => o \in cs
  PROVE  /\ [g EXCEPT !.told = @ \cup T] \in Ghost
         /\ GhostOK(os, rs, cs, ms, [g EXCEPT !.told = @ \cup T])
<1> DEFINE h == [g EXCEPT !.told = @ \cup T]
<1>1. h \in Ghost
  BY SMT DEF Ghost
<1>2. h.told = g.told \cup T /\ h.joined = g.joined /\ h.handed = g.handed
  BY SMT DEF Ghost
<1> HIDE DEF h
<1>3. GhostOK(os, rs, cs, ms, h)
  BY <1>2, Zenon DEF GhostOK
<1> QED BY <1>1, <1>3 DEF h

\* The claims that a batch has made so far may be told about.
LEMMA GotIsMade ==
  ASSUME IInv, NEW r \in Slots, NEW o \in req[r].got
  PROVE  /\ o \in claims /\ Made(o, offers)
         /\ offers[o].grant = "pre" => o \in rows
<1>1. req[r] \in Req /\ SlotOK(req[r], offers, rows, claims)
  BY DEF IInv, TypeOK, SlotsOK
<1>2. o \in Offers
  BY <1>1, ReqFields
<1> QED BY <1>1, <1>2, Zenon DEF IInv, SlotOK, TablesOK, Made

\* The next offer of a batch, or its end.
LEMMA Batches ==
  ASSUME IInv, NEW r \in Slots, NEW got \in SUBSET Offers, NextOfBatch(r, got)
  PROVE  \E f \in Req :
           /\ Put(r, f) /\ f.at # "offer"
           /\ \A os, rs, cs : (\A o \in got : o \in cs /\ (os[o].grant = "pre" => o \in rs))
                               => SlotOK(f, os, rs, cs)
           /\ ghost' = ghost \/ ghost' = [ghost EXCEPT !.told = @ \cup got]
<1>1. CASE req[r].n < Len(Batch)
  <2>1. req[r].n \in 0 .. Len(Batch)
    BY ReqFields DEF IInv, TypeOK
  <2>2. req[r].n + 1 \in 1 .. Len(Batch) /\ req[r].n + 1 \in 0 .. Len(Batch)
    BY <1>1, <2>1, Assumed, SMT
  <2> DEFINE m == Making("interop", Batch[req[r].n + 1])
             k == req[r].n + 1
             f == [m EXCEPT !.n = k, !.got = got]
  <2>3. m \in Req /\ m.op = "make" /\ m.at = "compute" /\ m.by = "interop"
        /\ m.expires = 0 /\ m.exp = 0
    BY <2>2, Assumed, MakingType, SMT DEF Askers
  <2>4. Put(r, f) /\ ghost' = ghost
    BY <1>1, Zenon DEF NextOfBatch
  <2>5. k \in 0 .. Len(Batch)
    BY <2>2
  <2> HIDE DEF m, k
  <2>6. f \in Req
    BY <2>3, <2>5, Zenon DEF Req
  <2>7. f.op = "make" /\ f.at = "compute" /\ f.by = "interop"
        /\ f.expires = 0 /\ f.exp = 0 /\ f.got = got
    BY <2>3, Zenon DEF Req
  <2> HIDE DEF f
  <2>8. \A os, rs, cs : (\A o \in got : o \in cs /\ (os[o].grant = "pre" => o \in rs))
                          => SlotOK(f, os, rs, cs)
    BY <2>6, <2>7, MakingOK, SMT DEF Askers
  <2> QED BY <2>4, <2>6, <2>7, <2>8, SMT
<1>2. CASE ~(req[r].n < Len(Batch))
  <2>1. Put(r, Idle) /\ ghost' = [ghost EXCEPT !.told = @ \cup got]
    BY <1>2, Zenon DEF NextOfBatch, End
  <2>2. Idle.at # "offer"
    BY SMT DEF Idle
  <2> QED BY <2>1, <2>2, IdleOK, IdleType, Zenon
<1> QED BY <1>1, <1>2

\* A request that goes to where it waits for the desk keeps what it says.
LEMMA Waits ==
  ASSUME IInv, NEW r \in Slots, NEW at \in {"ok", "failed"}, Answer(r, at),
         at = "ok" => \/ req[r].op = "make" /\ req[r].by = "desk" /\ Answering(req[r])
                      \/ req[r].op = "delete"
  PROVE  \E f \in Req :
           /\ Put(r, f) /\ f.at # "offer"
           /\ \A os, rs, cs : SlotOK(req[r], os, rs, cs) => SlotOK(f, os, rs, cs)
<1> DEFINE q == req[r]
           f == [q EXCEPT !.at = at]
<1>1. /\ q \in Req
      /\ at \in {"idle", "work", "compute", "data", "offer", "row", "state", "link",
                "claim", "ok", "failed"}
  BY DEF IInv, TypeOK
<1> HIDE DEF q
<1>2. /\ f \in Req /\ f.at = at /\ f.op = q.op /\ f.by = q.by /\ f.grant = q.grant
      /\ f.i = q.i /\ f.expires = q.expires /\ f.exp = q.exp /\ f.got = q.got
  BY <1>1, SMT DEF Req
<1> USE DEF q
<1>3. Put(r, f) \/ Put(r, Idle)
  BY Zenon DEF Answer, Go, End, q, f
<1>4. CASE Put(r, Idle)
  <2>1. Idle.at # "offer"
    BY SMT DEF Idle
  <2> QED BY <1>4, <2>1, IdleOK, IdleType, Zenon
<1>5. CASE Put(r, f)
  <2>1. ASSUME NEW os, NEW rs, NEW cs, SlotOK(q, os, rs, cs)
        PROVE  SlotOK(f, os, rs, cs)
    <3>1. at = "ok" => \/ q.op = "make" /\ q.by = "desk" /\ Answering(q)
                       \/ q.op = "delete"
      OBVIOUS
    <3> HIDE DEF f, q
    <3>2. Answering(f) => Answering(q)
      BY <1>2, <3>1, SMT DEF Answering
    <3>3. Filed(f) => Filed(q)
      BY <1>2, <3>2, SMT DEF Filed
    <3> QED BY <1>2, <2>1, <3>1, <3>2, <3>3, SMT DEF SlotOK
  <2>2. f.at # "offer"
    BY <1>2
  <2> HIDE DEF f
  <2> QED BY <1>2, <1>5, <2>1, <2>2 DEF q
<1> QED BY <1>3, <1>4, <1>5

LEMMA Breaks ==
  ASSUME IInv, NEW r \in Slots, Broken(r)
  PROVE  /\ \E f \in Req :
              Put(r, f) /\ f.at # "offer" /\ SlotOK(f, offers, rows, claims)
         /\ ghost' \in Ghost /\ GhostOK(offers, rows, claims, marks, ghost')
<1> DEFINE got == req[r].got
<1>1. /\ got \in SUBSET Offers /\ SlotOK(req[r], offers, rows, claims)
      /\ ghost \in Ghost /\ GhostOK(offers, rows, claims, marks, ghost)
  BY ReqFields, Zenon DEF IInv, TypeOK, SlotsOK
<1>2. CASE NextOfBatch(r, got)
  <2>1. \A o \in got : o \in claims /\ (offers[o].grant = "pre" => o \in rows) /\ Made(o, offers)
    BY GotIsMade
  <2>2. got \in SUBSET Items
    BY <1>1, Zenon DEF Items
  <2> HIDE DEF got
  <2>3. PICK f \in Req :
           /\ Put(r, f) /\ f.at # "offer"
           /\ \A os, rs, cs : (\A o \in got : o \in cs /\ (os[o].grant = "pre" => o \in rs))
                               => SlotOK(f, os, rs, cs)
           /\ ghost' = ghost \/ ghost' = [ghost EXCEPT !.told = @ \cup got]
    BY <1>1, <1>2, Batches
  <2>4. SlotOK(f, offers, rows, claims)
    BY <2>1, <2>3, Zenon
  <2>5. /\ [ghost EXCEPT !.told = @ \cup got] \in Ghost
        /\ GhostOK(offers, rows, claims, marks, [ghost EXCEPT !.told = @ \cup got])
    BY <1>1, <2>1, <2>2, Telling
  <2> QED BY <1>1, <2>3, <2>4, <2>5, Zenon
<1>3. CASE Answer(r, "failed") /\ UNCHANGED ghost
  <2>1. PICK f \in Req :
           /\ Put(r, f) /\ f.at # "offer"
           /\ \A os, rs, cs : SlotOK(req[r], os, rs, cs) => SlotOK(f, os, rs, cs)
    BY <1>3, Waits
  <2> QED BY <1>1, <1>3, <2>1, Zenon
<1> QED BY <1>2, <1>3, Zenon DEF Broken

LEMMA CallsFail ==
  ASSUME IInv, NEW r \in Slots, CallFails(r)
  PROVE  IInv'
<1>1. Fault /\ Broken(r) /\ UNCHANGED <<clock, offers, rows, claims, keys, marks, view>>
  BY Zenon DEF CallFails
<1>2. count' \in [asked : Nat, faults : Nat]
  BY <1>1, Counts, Zenon DEF IInv
<1>3. PICK f \in Req : Put(r, f) /\ f.at # "offer" /\ SlotOK(f, offers, rows, claims)
  BY <1>1, Breaks, Zenon
<1>4. ghost' \in Ghost /\ GhostOK(offers, rows, claims, marks', ghost')
  BY <1>1, Breaks
<1>5. /\ clock' \in Nat /\ keys' \in [Keys -> Lives] /\ marks' \subseteq Offers
      /\ view' \in [Tables -> View]
  BY <1>1, Zenon DEF IInv, TypeOK
<1> QED BY <1>1, <1>2, <1>3, <1>4, <1>5, Quiet

-----------------------------------------------------------------------------
(***************************************************************************)
(* Making an offer.                                                        *)
(***************************************************************************)
LEMMA Computes ==
  ASSUME IInv, NEW r \in Slots, Compute(r)
  PROVE  IInv'
<1> DEFINE q == req[r]
<1>1. q \in Req /\ SlotOK(q, offers, rows, claims) /\ q.op = "make" /\ q.at = "compute"
  BY Zenon DEF IInv, TypeOK, SlotsOK, Compute, Step, At
<1>2. PICK late \in {0, 1} :
         /\ clock' = clock + late
         /\ Put(r, [q EXCEPT !.at = "data", !.expires = clock + Life, !.exp = Signed(late)])
  BY Zenon DEF Compute
<1>3. UNCHANGED <<offers, rows, claims, ghost, count, marks, keys, view>>
  BY Zenon DEF Compute, Step
<1> DEFINE d == "data"
           e == clock + Life
           x == Signed(late)
           f == [q EXCEPT !.at = d, !.expires = e, !.exp = x]
<1>4. clock' \in Nat /\ e \in Nat /\ x \in Nat /\ e <= x
  BY <1>2, Assumed, SMT DEF IInv, TypeOK, Signed
<1>5. d \in {"idle", "work", "compute", "data", "offer", "row", "state", "link",
             "claim", "ok", "failed"} /\ d = "data"
  OBVIOUS
<1>6. Put(r, f)
  BY <1>2
<1> HIDE DEF d, e, x, q
<1>7. f \in Req
  BY <1>1, <1>4, <1>5, Zenon DEF Req
<1>8. f.at = "data" /\ f.expires = e /\ f.exp = x /\ f.op = "make" /\ f.by = q.by /\ f.got = q.got
  BY <1>1, <1>5, Zenon DEF Req
<1> HIDE DEF f
<1>9. SlotOK(f, offers, rows, claims) /\ f.at # "offer"
  <2>1. ~Filed(f) /\ ~Answering(f) /\ f.expires <= f.exp
    BY <1>4, <1>8, SMT DEF Filed, Answering
  <2> QED BY <1>1, <1>8, <2>1, SMT DEF SlotOK
<1>10. /\ keys' \in [Keys -> Lives] /\ marks' \subseteq Offers /\ view' \in [Tables -> View]
       /\ ghost' \in Ghost /\ count' \in [asked : Nat, faults : Nat]
       /\ GhostOK(offers, rows, claims, marks', ghost')
  BY <1>3, Zenon DEF IInv, TypeOK
<1> QED BY <1>3, <1>4, <1>6, <1>7, <1>9, <1>10, Quiet

\* An offer that a request is about to store.
LEMMA NotMadeYet ==
  ASSUME IInv, NEW o \in Offers, offers[o].life \in {"unborn", "data"}
  PROVE  /\ ~Made(o, offers)
         /\ o \notin rows /\ o \notin claims
         /\ o \notin ghost.told /\ o \notin ghost.joined
  BY SMT DEF IInv, TablesOK, GhostOK, Made

LEMMA DataSaved ==
  ASSUME IInv, NEW r \in Slots, SaveData(r)
  PROVE  IInv'
<1> DEFINE q == req[r]
<1>1. q \in Req /\ SlotOK(q, offers, rows, claims) /\ q.op = "make" /\ q.at = "data"
  BY Zenon DEF IInv, TypeOK, SlotsOK, SaveData, Step, At
<1>2. PICK o \in Offers :
         /\ offers[o].life = "unborn"
         /\ offers' = [offers EXCEPT ![o].life = "data"]
         /\ Put(r, [q EXCEPT !.at = "offer", !.i = o])
  BY Zenon DEF SaveData, First, Unmade
<1>3. UNCHANGED <<clock, rows, claims, ghost, count, marks, keys, view>>
  BY Zenon DEF SaveData, Step
<1> DEFINE f == [q EXCEPT !.at = "offer", !.i = o]
<1>4. Put(r, f)
  BY <1>2
<1>5. /\ o \in Items \cup {None}
      /\ "offer" \in {"idle", "work", "compute", "data", "offer", "row", "state", "link",
                     "claim", "ok", "failed"}
  BY Zenon DEF Items
<1> HIDE DEF q
<1>6. /\ f \in Req /\ f.at = "offer" /\ f.i = o /\ f.op = "make" /\ f.by = q.by
      /\ f.expires = q.expires /\ f.exp = q.exp /\ f.got = q.got
  BY <1>1, <1>5, Zenon DEF Req
<1> HIDE DEF f
<1>7. /\ offers' \in [Offers -> Offer] /\ offers'[o].life = "data"
      /\ offers'[o].status = offers[o].status /\ offers'[o].by = offers[o].by
      /\ \A p \in Offers : p # o => offers'[p] = offers[p]
  <2>1. offers \in [Offers -> Offer]
    BY DEF IInv, TypeOK
  <2> QED BY <1>2, <2>1, SMT DEF Offer, Lives
<1>8. ~Made(o, offers) /\ o \notin rows /\ o \notin claims
      /\ o \notin ghost.told /\ o \notin ghost.joined
  BY <1>2, NotMadeYet
<1>9. Keeps(o, offers, rows, claims, offers', rows', claims')
  BY <1>3, <1>7, <1>8, Zenon DEF Keeps, Made
<1>10. \A s \in Slots : req[s].at = "offer" => req[s].i # o
  BY <1>2, SMT DEF IInv, SlotsOK, SlotOK
<1>11. SlotOK(f, offers', rows', claims')
  <2>1. ~Filed(f) /\ ~Answering(f)
    BY <1>6, SMT DEF Filed, Answering
  <2>2. \A p \in f.got : p \in claims' /\ (offers'[p].grant = "pre" => p \in rows')
    <3>1. f.got \subseteq Offers
      BY <1>6, ReqFields
    <3>2. \A p \in f.got : p \in claims /\ (offers[p].grant = "pre" => p \in rows)
      BY <1>1, <1>6, Zenon DEF SlotOK
    <3> QED BY <1>3, <1>7, <1>8, <3>1, <3>2, Zenon
  <2> QED BY <1>1, <1>6, <1>7, <2>1, <2>2, SMT DEF SlotOK
<1>12. TablesOK(offers', rows', claims')
  <2>1. offers'[o].life # "live"
    BY <1>7
  <2>2. \A p \in Offers : p # o =>
           /\ offers'[p].life = "live" => offers'[p].expires <= offers'[p].exp
           /\ p \in rows \cup claims => offers'[p].life = "live"
    BY <1>7, Zenon DEF IInv, TablesOK
  <2> QED BY <1>3, <1>8, <2>1, <2>2, Zenon DEF TablesOK
<1>13. GhostOK(offers', rows', claims', marks', ghost')
  <2>1. GhostOK(offers, rows, claims, marks, ghost)
    BY DEF IInv
  <2>2. offers'[o].life # "live"
    BY <1>7
  <2> QED BY <1>3, <1>7, <1>8, <2>1, <2>2, Zenon DEF GhostOK, Made
<1>14. \A s \in Slots : s # r /\ req[s].at = "offer" =>
          req[s].i # o /\ (f.at = "offer" => req[s].i # f.i)
  BY <1>6, <1>10, Zenon
<1>15. /\ clock' \in Nat /\ rows' \subseteq Offers /\ claims' \subseteq Offers
       /\ keys' \in [Keys -> Lives] /\ marks' \subseteq Offers /\ view' \in [Tables -> View]
       /\ ghost' \in Ghost /\ count' \in [asked : Nat, faults : Nat]
  BY <1>3, Zenon DEF IInv, TypeOK
<1> QED BY <1>4, <1>6, <1>7, <1>9, <1>11, <1>12, <1>13, <1>14, <1>15, Frame

LEMMA OfferSaved ==
  ASSUME IInv, NEW r \in Slots, SaveOffer(r)
  PROVE  IInv'
<1> DEFINE q == req[r]
           o == q.i
           st == IF q.by = "scope" THEN "USED" ELSE "PENDING"
           at == AfterOffer(q)
           f == [q EXCEPT !.at = at]
<1>1. q \in Req /\ SlotOK(q, offers, rows, claims) /\ q.op = "make" /\ q.at = "offer"
  BY Zenon DEF IInv, TypeOK, SlotsOK, SaveOffer, Step, At
<1>2. /\ Put(r, f)
      /\ offers' = [offers EXCEPT ![o] =
            [life |-> "live", by |-> q.by, grant |-> q.grant, status |-> st,
             expires |-> q.expires, exp |-> q.exp]]
  BY Zenon DEF SaveOffer, Go
<1>3. UNCHANGED <<clock, rows, claims, ghost, count, marks, keys, view>>
  BY Zenon DEF SaveOffer, Step
<1>4. /\ at \in {"row", "state", "link"} /\ (at = "row" <=> q.grant = "pre")
      /\ st \in {"PENDING", "USED"} /\ (st = "USED" => q.by = "scope")
  BY SMT DEF AfterOffer
<1>5. \A s \in Slots : s # r /\ req[s].at = "offer" => req[s].i # o
  BY <1>1, Zenon DEF IInv, Apart
<1> HIDE DEF q, at, st
<1>6. /\ f \in Req /\ f.at = at /\ f.i = o /\ f.op = "make" /\ f.by = q.by
      /\ f.grant = q.grant /\ f.expires = q.expires /\ f.exp = q.exp /\ f.got = q.got
  BY <1>1, <1>4, SMT DEF Req
<1>7. o \in Offers /\ offers[o].life = "data" /\ q.by \in Askers /\ q.expires <= q.exp
  BY <1>1, SMT DEF SlotOK
<1> HIDE DEF f
<1>8. /\ offers' \in [Offers -> Offer] /\ offers'[o].life = "live" /\ offers'[o].by = q.by
      /\ offers'[o].grant = q.grant /\ offers'[o].status = st
      /\ offers'[o].expires = q.expires /\ offers'[o].exp = q.exp
      /\ \A p \in Offers : p # o => offers'[p] = offers[p]
  <2>1. offers \in [Offers -> Offer] /\ q.grant \in Grants /\ q.expires \in Nat /\ q.exp \in Nat
    BY <1>1, ReqFields DEF IInv, TypeOK
  <2> QED BY <1>2, <1>4, <1>7, <2>1, SMT DEF Offer, Lives
<1> HIDE DEF o
<1>9. ~Made(o, offers) /\ o \notin rows /\ o \notin claims
      /\ o \notin ghost.told /\ o \notin ghost.joined
  BY <1>7, NotMadeYet
<1>10. Keeps(o, offers, rows, claims, offers', rows', claims')
  BY <1>3, <1>8, <1>9, Zenon DEF Keeps, Made
<1>11. SlotOK(f, offers', rows', claims')
  <2>1. Made(o, offers')
    BY <1>7, <1>8, SMT DEF Made
  <2>2. Answering(f) => q.grant # "pre"
    BY <1>4, <1>6, SMT DEF Answering
  <2>3. \A p \in f.got : p \in claims' /\ (offers'[p].grant = "pre" => p \in rows')
    <3>1. f.got \subseteq Offers
      BY <1>6, ReqFields
    <3>2. \A p \in f.got : p \in claims /\ (offers[p].grant = "pre" => p \in rows)
      BY <1>1, <1>6, Zenon DEF SlotOK
    <3> QED BY <1>3, <1>8, <1>9, <3>1, <3>2, Zenon
  <2> QED BY <1>1, <1>4, <1>6, <1>7, <1>8, <2>1, <2>2, <2>3, SMT DEF SlotOK
<1>12. TablesOK(offers', rows', claims')
  <2>1. offers'[o].expires <= offers'[o].exp
    BY <1>7, <1>8, Zenon
  <2>2. \A p \in Offers : p # o =>
           /\ offers'[p].life = "live" => offers'[p].expires <= offers'[p].exp
           /\ p \in rows \cup claims => offers'[p].life = "live"
    BY <1>8, Zenon DEF IInv, TablesOK
  <2> QED BY <1>3, <1>9, <2>1, <2>2, Zenon DEF TablesOK
<1>13. GhostOK(offers', rows', claims', marks', ghost')
  <2>1. GhostOK(offers, rows, claims, marks, ghost)
    BY DEF IInv
  <2>2. offers'[o].status = "USED" => offers'[o].by = "scope"
    BY <1>4, <1>8, Zenon
  <2> QED BY <1>3, <1>8, <1>9, <2>1, <2>2, Zenon DEF GhostOK, Made
<1>14. \A s \in Slots : s # r /\ req[s].at = "offer" =>
          req[s].i # o /\ (f.at = "offer" => req[s].i # f.i)
  BY <1>5, <1>6, SMT DEF o, q
<1>15. /\ clock' \in Nat /\ rows' \subseteq Offers /\ claims' \subseteq Offers
       /\ keys' \in [Keys -> Lives] /\ marks' \subseteq Offers /\ view' \in [Tables -> View]
       /\ ghost' \in Ghost /\ count' \in [asked : Nat, faults : Nat]
  BY <1>3, Zenon DEF IInv, TypeOK
<1>16. Put(r, f)
  BY <1>2
<1>17. offers' \in [Offers -> Offer]
  BY <1>8
<1>18. f \in Req
  BY <1>6
<1> QED BY <1>10, <1>11, <1>12, <1>13, <1>14, <1>15, <1>16, <1>17, <1>18, Frame

\* A move of a request as it is.
LEMMA Goes ==
  ASSUME IInv, NEW r \in Slots, NEW at \in {"link", "claim", "ok"}, Go(r, at)
  PROVE  \E f \in Req :
           /\ Put(r, f) /\ f.at = at /\ f.op = req[r].op /\ f.by = req[r].by
           /\ f.grant = req[r].grant /\ f.i = req[r].i
           /\ f.expires = req[r].expires /\ f.exp = req[r].exp /\ f.got = req[r].got
<1> DEFINE q == req[r]
           f == [q EXCEPT !.at = at]
<1>1. q \in Req
  BY DEF IInv, TypeOK
<1>2. Put(r, f)
  BY Zenon DEF Go
<1> HIDE DEF q
<1>3. /\ f \in Req /\ f.at = at /\ f.op = q.op /\ f.by = q.by /\ f.grant = q.grant
      /\ f.i = q.i /\ f.expires = q.expires /\ f.exp = q.exp /\ f.got = q.got
  BY <1>1, SMT DEF Req
<1> HIDE DEF f
<1> QED BY <1>2, <1>3 DEF q

\* A request that stores rows or claims of offers that are there.
LEMMA Grown ==
  ASSUME IInv, NEW rs2 \in SUBSET Offers, NEW cs2 \in SUBSET Offers,
         rows \subseteq rs2, claims \subseteq cs2,
         \A o \in rs2 \cup cs2 : o \in rows \cup claims \/ Stored(o)
  PROVE  /\ Keeps(None, offers, rows, claims, offers, rs2, cs2)
         /\ TablesOK(offers, rs2, cs2)
         /\ GhostOK(offers, rs2, cs2, marks, ghost)
<1>1. Keeps(None, offers, rows, claims, offers, rs2, cs2)
  BY Zenon DEF Keeps
<1>2. TablesOK(offers, rs2, cs2)
  BY Zenon DEF IInv, TablesOK, Stored
<1>3. GhostOK(offers, rs2, cs2, marks, ghost)
  BY Zenon DEF IInv, GhostOK
<1> QED BY <1>1, <1>2, <1>3

LEMMA Grows ==
  ASSUME IInv, NEW r \in Slots, NEW f \in Req, Put(r, f), f.at # "offer",
         NEW rs2 \in SUBSET Offers, NEW cs2 \in SUBSET Offers,
         rows \subseteq rs2, claims \subseteq cs2,
         \A o \in rs2 \cup cs2 : o \in rows \cup claims \/ Stored(o),
         rows' = rs2, claims' = cs2, UNCHANGED <<clock, offers, keys, marks, view, count>>,
         SlotOK(f, offers, rs2, cs2),
         ghost' \in Ghost, GhostOK(offers, rs2, cs2, marks, ghost')
  PROVE  IInv'
<1>1. \A s \in Slots : req[s].at = "offer" => req[s].i # None
  BY Assumed, Zenon DEF IInv, SlotsOK, SlotOK, Items
<1>2. \A s \in Slots : s # r /\ req[s].at = "offer" =>
         req[s].i # None /\ (f.at = "offer" => req[s].i # f.i)
  BY <1>1, Zenon
<1>3. /\ Keeps(None, offers, rows, claims, offers', rows', claims')
      /\ TablesOK(offers', rows', claims')
      /\ GhostOK(offers', rows', claims', marks', ghost')
      /\ SlotOK(f, offers', rows', claims')
  <2>1. Keeps(None, offers, rows, claims, offers, rs2, cs2) /\ TablesOK(offers, rs2, cs2)
    BY Grown
  <2>2. offers' = offers /\ marks' = marks
    OBVIOUS
  <2> QED BY <2>1, <2>2
<1>4. /\ clock' \in Nat /\ offers' \in [Offers -> Offer] /\ rows' \subseteq Offers
      /\ claims' \subseteq Offers /\ keys' \in [Keys -> Lives] /\ marks' \subseteq Offers
      /\ view' \in [Tables -> View] /\ count' \in [asked : Nat, faults : Nat]
  BY Zenon DEF IInv, TypeOK
<1> QED BY <1>2, <1>3, <1>4, Frame

LEMMA RowSaved ==
  ASSUME IInv, NEW r \in Slots, SaveRow(r)
  PROVE  IInv'
<1> DEFINE q == req[r]
           o == q.i
<1>1. q \in Req /\ SlotOK(q, offers, rows, claims) /\ q.op = "make" /\ q.at = "row"
  BY Zenon DEF IInv, TypeOK, SlotsOK, SaveRow, Step, At
<1>2. UNCHANGED <<clock, offers, claims, count, marks, keys, view>>
  BY Zenon DEF SaveRow, Step
<1>3. CASE Stored(o)
  <2>1. rows' = rows \cup {o} /\ Go(r, "link") /\ ghost' = ghost
    BY <1>3, Zenon DEF SaveRow
  <2>2. PICK f \in Req :
           /\ Put(r, f) /\ f.at = "link" /\ f.op = q.op /\ f.by = q.by
           /\ f.grant = q.grant /\ f.i = q.i
           /\ f.expires = q.expires /\ f.exp = q.exp /\ f.got = q.got
    BY <2>1, Goes
  <2>3. Made(o, offers) /\ offers[o].by = q.by /\ offers[o].grant = q.grant
    BY <1>1, Zenon DEF SlotOK, Filed
  <2> DEFINE rs2 == rows \cup {o}
  <2>4. /\ rs2 \in SUBSET Offers /\ claims \in SUBSET Offers /\ rows \subseteq rs2
        /\ \A p \in rs2 \cup claims : p \in rows \cup claims \/ Stored(p)
        /\ o \in rs2 /\ ghost' \in Ghost
    BY <1>3, <2>1, <2>3, Zenon DEF IInv, TypeOK, Made
  <2> HIDE DEF rs2, q
  <2>5. SlotOK(f, offers, rs2, claims)
    BY <1>1, <2>2, <2>3, <2>4, SMT DEF SlotOK
  <2>6. GhostOK(offers, rs2, claims, marks, ghost')
    BY <2>1, <2>4, Grown
  <2>7. rows' = rs2 /\ claims' = claims /\ claims \subseteq claims /\ f.at # "offer" /\ Put(r, f)
    BY <1>2, <2>1, <2>2 DEF rs2
  <2>8. UNCHANGED <<clock, offers, keys, marks, view, count>>
    BY <1>2
  <2> QED BY <2>4, <2>5, <2>6, <2>7, <2>8, Grows
<1>4. CASE ~Stored(o)
  <2>1. Broken(r) /\ rows' = rows
    BY <1>4, Zenon DEF SaveRow
  <2>2. PICK f \in Req : Put(r, f) /\ f.at # "offer" /\ SlotOK(f, offers, rows, claims)
    BY <2>1, Breaks, Zenon
  <2>3. ghost' \in Ghost /\ GhostOK(offers, rows, claims, marks', ghost')
    BY <1>2, <2>1, Breaks
  <2>4. /\ clock' \in Nat /\ keys' \in [Keys -> Lives] /\ marks' \subseteq Offers
        /\ view' \in [Tables -> View] /\ count' \in [asked : Nat, faults : Nat]
    BY <1>2, Zenon DEF IInv, TypeOK
  <2> QED BY <1>2, <2>1, <2>2, <2>3, <2>4, Quiet
<1> QED BY <1>3, <1>4

LEMMA Linked ==
  ASSUME IInv, NEW r \in Slots, Link(r)
  PROVE  IInv'
<1> DEFINE q == req[r]
           o == q.i
<1>1. q \in Req /\ SlotOK(q, offers, rows, claims) /\ q.op = "make" /\ q.at = "link"
  BY Zenon DEF IInv, TypeOK, SlotsOK, Link, Step, At
<1>2. UNCHANGED <<clock, offers, rows, claims, count, marks, keys, view>>
  BY Zenon DEF Link, Step
<1>3. /\ ghost \in Ghost /\ GhostOK(offers, rows, claims, marks, ghost)
      /\ clock' \in Nat /\ keys' \in [Keys -> Lives] /\ marks' \subseteq Offers
      /\ view' \in [Tables -> View] /\ count' \in [asked : Nat, faults : Nat]
  BY <1>2, Zenon DEF IInv, TypeOK
<1>4. CASE q.by \in {"interop", "desk"}
  <2> DEFINE at == IF q.by = "interop" THEN "claim" ELSE "ok"
  <2>1. Go(r, at) /\ ghost' = ghost
    BY <1>4, SMT DEF Link
  <2>2. at \in {"link", "claim", "ok"} /\ at # "offer" /\ at # "link"
        /\ (at = "claim" => q.by = "interop") /\ (at = "ok" => q.by = "desk")
    BY <1>4, SMT
  <2> HIDE DEF at
  <2>3. PICK f \in Req :
           /\ Put(r, f) /\ f.at = at /\ f.op = q.op /\ f.by = q.by
           /\ f.grant = q.grant /\ f.i = q.i
           /\ f.expires = q.expires /\ f.exp = q.exp /\ f.got = q.got
    BY <2>1, <2>2, Goes
  <2> HIDE DEF q
  <2>4. Answering(q) /\ Filed(q) /\ at # "state"
    BY <1>1, <2>2, SMT DEF Answering, Filed
  <2>5. SlotOK(f, offers, rows, claims) /\ f.at # "offer"
    BY <1>1, <2>2, <2>3, <2>4, SMT DEF SlotOK
  <2>6. Put(r, f) /\ ghost' \in Ghost /\ GhostOK(offers, rows, claims, marks', ghost')
    BY <1>2, <1>3, <2>1, <2>3
  <2> QED BY <1>2, <1>3, <2>5, <2>6, Quiet
<1>5. CASE q.by \notin {"interop", "desk"}
  <2>1. Put(r, Idle) /\ ghost' = [ghost EXCEPT !.told = @ \cup {o}]
    BY <1>5, SMT DEF Link, End
  <2> HIDE DEF q
  <2>2. Answering(q) /\ Filed(q)
    BY <1>1, SMT DEF Answering, Filed
  <2>3. /\ Made(o, offers) /\ offers[o].by = q.by
        /\ offers[o].grant = "pre" /\ offers[o].life = "live" => o \in rows
    BY <1>1, <2>2, Zenon DEF SlotOK
  <2>4. {o} \in SUBSET Items
    BY <2>3, SMT DEF Made, Items
  <2>5. ghost' \in Ghost /\ GhostOK(offers, rows, claims, marks, ghost')
    <3> DEFINE T == {o}
    <3>1. \A p \in T \cap Offers :
            /\ Made(p, offers)
            /\ offers[p].life = "live" => /\ offers[p].grant = "pre" => p \in rows
                                          /\ offers[p].by = "interop" => p \in claims
      BY <1>5, <2>3, Zenon
    <3>2. T \in SUBSET Items /\ ghost' = [ghost EXCEPT !.told = @ \cup T]
      BY <2>1, <2>4
    <3> HIDE DEF T
    <3>3. /\ [ghost EXCEPT !.told = @ \cup T] \in Ghost
          /\ GhostOK(offers, rows, claims, marks, [ghost EXCEPT !.told = @ \cup T])
      BY <1>3, <3>1, <3>2, Telling
    <3> QED BY <3>2, <3>3, Zenon
  <2>6. Idle.at # "offer"
    BY SMT DEF Idle
  <2>7. GhostOK(offers, rows, claims, marks', ghost')
    BY <1>2, <2>5
  <2> QED BY <1>2, <1>3, <2>1, <2>5, <2>6, <2>7, IdleOK, IdleType, Quiet
<1> QED BY <1>4, <1>5

LEMMA ClaimSaved ==
  ASSUME IInv, NEW r \in Slots, SaveClaim(r)
  PROVE  IInv'
<1> DEFINE q == req[r]
           o == q.i
           got == q.got \cup {o}
<1>1. q \in Req /\ SlotOK(q, offers, rows, claims) /\ q.op = "make" /\ q.at = "claim"
  BY Zenon DEF IInv, TypeOK, SlotsOK, SaveClaim, Claimable, Step, At
<1>2. UNCHANGED <<clock, offers, rows, count, marks, keys, view>>
  BY Zenon DEF SaveClaim, Claimable, Step
<1>3. CASE Stored(o)
  <2> DEFINE cs2 == claims \cup {o}
  <2>1. claims' = cs2 /\ NextOfBatch(r, got)
    BY <1>3, Zenon DEF SaveClaim, Claimable
  <2>2. /\ Made(o, offers) /\ offers[o].grant = q.grant
        /\ q.grant = "pre" => o \in rows
    <3> HIDE DEF q
    <3>1. Answering(q) /\ Filed(q)
      BY <1>1, SMT DEF Answering, Filed
    <3> QED BY <1>1, <1>3, <3>1, Zenon DEF SlotOK, Stored
  <2>3. \A p \in q.got : p \in claims /\ (offers[p].grant = "pre" => p \in rows) /\ Made(p, offers)
    BY GotIsMade
  <2>4. \A p \in got : p \in cs2 /\ (offers[p].grant = "pre" => p \in rows) /\ Made(p, offers)
    BY <2>2, <2>3, Zenon
  <2>5. got \in SUBSET Offers /\ got \in SUBSET Items
    BY <2>4, SMT DEF Made, Items
  <2>6. /\ cs2 \in SUBSET Offers /\ rows \in SUBSET Offers /\ claims \subseteq cs2
        /\ \A p \in rows \cup cs2 : p \in rows \cup claims \/ Stored(p)
    BY <1>3, <2>2, Zenon DEF IInv, TypeOK, Made
  <2> HIDE DEF got, cs2
  <2>7. PICK f \in Req :
           /\ Put(r, f) /\ f.at # "offer"
           /\ \A os, rs, cs : (\A p \in got : p \in cs /\ (os[p].grant = "pre" => p \in rs))
                               => SlotOK(f, os, rs, cs)
           /\ ghost' = ghost \/ ghost' = [ghost EXCEPT !.told = @ \cup got]
    BY <2>1, <2>5, Batches
  <2>8. SlotOK(f, offers, rows, cs2)
    BY <2>4, <2>7, Zenon
  <2>9. ghost \in Ghost /\ GhostOK(offers, rows, cs2, marks, ghost)
    BY <2>6, Grown DEF IInv, TypeOK
  <2>10. /\ [ghost EXCEPT !.told = @ \cup got] \in Ghost
         /\ GhostOK(offers, rows, cs2, marks, [ghost EXCEPT !.told = @ \cup got])
    BY <2>4, <2>5, <2>9, Telling
  <2>11. ghost' \in Ghost /\ GhostOK(offers, rows, cs2, marks, ghost')
    BY <2>7, <2>9, <2>10, Zenon
  <2>12. /\ rows' = rows /\ claims' = cs2 /\ rows \subseteq rows
         /\ Put(r, f) /\ f.at # "offer"
    BY <1>2, <2>1, <2>7
  <2>13. UNCHANGED <<clock, offers, keys, marks, view, count>>
    BY <1>2
  <2> QED BY <2>6, <2>8, <2>11, <2>12, <2>13, Grows
<1>4. CASE ~Stored(o)
  <2>1. Broken(r) /\ claims' = claims
    BY <1>4, Zenon DEF SaveClaim, Claimable
  <2>2. PICK f \in Req : Put(r, f) /\ f.at # "offer" /\ SlotOK(f, offers, rows, claims)
    BY <2>1, Breaks, Zenon
  <2>3. ghost' \in Ghost /\ GhostOK(offers, rows, claims, marks', ghost')
    BY <1>2, <2>1, Breaks
  <2>4. /\ clock' \in Nat /\ keys' \in [Keys -> Lives] /\ marks' \subseteq Offers
        /\ view' \in [Tables -> View] /\ count' \in [asked : Nat, faults : Nat]
    BY <1>2, Zenon DEF IInv, TypeOK
  <2> QED BY <1>2, <2>1, <2>2, <2>3, <2>4, Quiet
<1> QED BY <1>3, <1>4

-----------------------------------------------------------------------------
(***************************************************************************)
(* Wallets.                                                                *)
(***************************************************************************)
LEMMA HandsOut ==
  ASSUME IInv, NEW r \in Slots, HandOut(r)
  PROVE  IInv'
<1> DEFINE o == req[r].i
<1>1. SlotOK(req[r], offers, rows, claims) /\ req[r].op = "fetch"
  BY Zenon DEF IInv, SlotsOK, HandOut, At
<1>2. o \in Offers
  BY <1>1, SMT DEF SlotOK
<1>3. Put(r, Idle) /\ UNCHANGED <<clock, offers, rows, claims, keys, view, count>>
  BY Zenon DEF HandOut, End, OnlyRequests
<1>4. \/ marks' = marks /\ ghost' = ghost
      \/ marks' = marks \cup {o} /\ ghost' = [ghost EXCEPT !.handed = @ \cup {o}]
  BY Zenon DEF HandOut
<1>5. marks \subseteq Offers /\ ghost \in Ghost /\ GhostOK(offers, rows, claims, marks, ghost)
  BY DEF IInv, TypeOK
<1>6. marks' \subseteq Offers /\ ghost' \in Ghost /\ GhostOK(offers, rows, claims, marks', ghost')
  <2>1. CASE marks' = marks /\ ghost' = ghost
    BY <2>1, <1>5
  <2>2. CASE marks' = marks \cup {o} /\ ghost' = [ghost EXCEPT !.handed = @ \cup {o}]
    <3> HIDE DEF o
    <3>1. /\ ghost' \in Ghost /\ ghost'.handed = ghost.handed \cup {o}
          /\ ghost'.told = ghost.told /\ ghost'.joined = ghost.joined
      BY <1>2, <1>5, <2>2, SMT DEF Ghost
    <3>2. marks' \subseteq Offers
      BY <1>2, <1>5, <2>2
    <3>3. GhostOK(offers, rows, claims, marks', ghost')
      BY <1>5, <2>2, <3>1, Zenon DEF GhostOK
    <3> QED BY <3>1, <3>2, <3>3
  <2> QED BY <1>4, <2>1, <2>2
<1>7. Idle.at # "offer" /\ SlotOK(Idle, offers, rows, claims)
  BY IdleOK, SMT DEF Idle
<1>8. /\ clock' \in Nat /\ keys' \in [Keys -> Lives]
      /\ view' \in [Tables -> View] /\ count' \in [asked : Nat, faults : Nat]
  BY <1>3, Zenon DEF IInv, TypeOK
<1> QED BY <1>3, <1>6, <1>7, <1>8, IdleType, Quiet

LEMMA StateSaved ==
  ASSUME IInv, NEW r \in Slots, SaveState(r)
  PROVE  IInv'
<1> DEFINE o == req[r].i
           rs2 == IF Stored(o) THEN rows \cup {o} ELSE rows
<1>1. SlotOK(req[r], offers, rows, claims) /\ req[r].at = "state"
  BY Zenon DEF IInv, SlotsOK, SaveState
<1>2. Made(o, offers)
  BY <1>1, Zenon DEF SlotOK
<1>3. Put(r, Idle) /\ UNCHANGED <<clock, offers, claims, keys, view, count, marks>>
  BY Zenon DEF SaveState, End, OnlyRequests
<1>4. /\ rows' = rs2
      /\ ghost' = IF Stored(o) THEN [ghost EXCEPT !.joined = @ \cup {o}] ELSE ghost
  BY Zenon DEF SaveState
<1>5. /\ rs2 \in SUBSET Offers /\ claims \in SUBSET Offers /\ rows \subseteq rs2
      /\ \A p \in rs2 \cup claims : p \in rows \cup claims \/ Stored(p)
      /\ Stored(o) => o \in rs2
  BY <1>2, Zenon DEF IInv, TypeOK, Made
<1> HIDE DEF rs2
<1>6. GhostOK(offers, rs2, claims, marks, ghost) /\ ghost \in Ghost
  BY <1>5, Grown DEF IInv, TypeOK
<1>7. ghost' \in Ghost /\ GhostOK(offers, rs2, claims, marks, ghost')
  <2>1. CASE Stored(o)
    <3> HIDE DEF o
    <3>1. ghost' = [ghost EXCEPT !.joined = @ \cup {o}]
      BY <1>4, <2>1
    <3>2. /\ ghost' \in Ghost /\ ghost'.joined = ghost.joined \cup {o}
          /\ ghost'.told = ghost.told /\ ghost'.handed = ghost.handed
      <4>1. o \in Offers
        BY <1>2, Zenon DEF Made
      <4> QED BY <1>6, <3>1, <4>1, SMT DEF Ghost
    <3>3. GhostOK(offers, rs2, claims, marks, ghost')
      BY <1>2, <1>5, <1>6, <2>1, <3>2, Zenon DEF GhostOK
    <3> QED BY <3>2, <3>3
  <2>2. CASE ~Stored(o)
    BY <1>4, <1>6, <2>2
  <2> QED BY <2>1, <2>2
<1>8. Idle.at # "offer" /\ SlotOK(Idle, offers, rs2, claims)
  BY IdleOK, SMT DEF Idle
<1>9. rows' = rs2 /\ claims' = claims /\ claims \subseteq claims
  BY <1>3, <1>4
<1>10. Put(r, Idle) /\ UNCHANGED <<clock, offers, keys, marks, view, count>>
  BY <1>3
<1> QED BY <1>5, <1>7, <1>8, <1>9, <1>10, IdleType, Grows

LEMMA Marked ==
  ASSUME IInv, NEW o \in Offers, MarkUsed(o)
  PROVE  IInv'
<1>1. /\ o \in marks /\ marks' = marks \ {o}
      /\ UNCHANGED <<clock, rows, claims, keys, req, view, ghost, count>>
      /\ offers' = IF Stored(o) THEN [offers EXCEPT ![o].status = "USED"] ELSE offers
  BY Zenon DEF MarkUsed
<1>2. /\ offers \in [Offers -> Offer] /\ GhostOK(offers, rows, claims, marks, ghost)
      /\ TablesOK(offers, rows, claims)
  BY DEF IInv, TypeOK
<1>3. /\ offers' \in [Offers -> Offer]
      /\ \A p \in Offers : /\ offers'[p].life = offers[p].life /\ offers'[p].by = offers[p].by
                           /\ offers'[p].grant = offers[p].grant
                           /\ offers'[p].expires = offers[p].expires
                           /\ offers'[p].exp = offers[p].exp
                           /\ p # o => offers'[p].status = offers[p].status
  <2>1. CASE Stored(o)
    BY <1>1, <1>2, <2>1, SMT DEF Offer
  <2>2. CASE ~Stored(o)
    <3>1. offers' = offers
      BY <1>1, <2>2
    <3> QED BY <1>2, <3>1
  <2> QED BY <2>1, <2>2
<1>11. rows' = rows /\ claims' = claims /\ ghost' = ghost /\ marks' = marks \ {o} /\ o \in marks
  BY <1>1
<1>12. \A p \in Offers : Made(p, offers') <=> Made(p, offers)
  BY <1>3, Zenon DEF Made
<1>4. Keeps(None, offers, rows, claims, offers', rows', claims')
  BY <1>3, <1>11, <1>12, Zenon DEF Keeps
<1>5. \A s \in Slots : req[s].at = "offer" => req[s].i # None
  BY Assumed, Zenon DEF IInv, SlotsOK, SlotOK, Items
<1>6. TablesOK(offers', rows', claims')
  <2> SUFFICES ASSUME NEW p \in Offers
               PROVE  /\ offers'[p].life = "live" => offers'[p].expires <= offers'[p].exp
                      /\ p \in rows \cup claims => offers'[p].life = "live"
    BY <1>11, Zenon DEF TablesOK
  <2>1. /\ offers[p].life = "live" => offers[p].expires <= offers[p].exp
        /\ p \in rows \cup claims => offers[p].life = "live"
    BY <1>2, Zenon DEF TablesOK
  <2>2. /\ offers'[p].life = offers[p].life /\ offers'[p].expires = offers[p].expires
        /\ offers'[p].exp = offers[p].exp
    BY <1>3
  <2> QED BY <2>1, <2>2, Zenon
<1>7. GhostOK(offers', rows', claims', marks', ghost')
  <2>1. marks \subseteq ghost.handed
    BY <1>2, Zenon DEF GhostOK
  <2>2. marks' \subseteq ghost'.handed /\ o \in ghost'.handed
    BY <1>11, <2>1, Zenon
  <2>3. ASSUME NEW p \in Offers
        PROVE  /\ offers'[p].status = "USED" => p \in ghost'.handed \/ offers'[p].by = "scope"
               /\ p \in ghost'.told \cup ghost'.joined => Made(p, offers')
               /\ offers'[p].life = "live" =>
                    /\ p \in ghost'.told /\ offers'[p].grant = "pre" => p \in rows'
                    /\ p \in ghost'.joined => p \in rows'
                    /\ p \in ghost'.told /\ offers'[p].by = "interop" => p \in claims'
    <3>1. /\ offers[p].status = "USED" => p \in ghost.handed \/ offers[p].by = "scope"
          /\ p \in ghost.told \cup ghost.joined => Made(p, offers)
          /\ offers[p].life = "live" =>
               /\ p \in ghost.told /\ offers[p].grant = "pre" => p \in rows
               /\ p \in ghost.joined => p \in rows
               /\ p \in ghost.told /\ offers[p].by = "interop" => p \in claims
      BY <1>2, Zenon DEF GhostOK
    <3>2. /\ offers'[p].life = offers[p].life /\ offers'[p].by = offers[p].by
          /\ offers'[p].grant = offers[p].grant
          /\ p # o => offers'[p].status = offers[p].status
      BY <1>3
    <3> QED BY <1>11, <1>12, <2>2, <3>1, <3>2, Zenon
  <2> QED BY <2>2, <2>3, Zenon DEF GhostOK
<1>8. marks' \subseteq Offers
  BY <1>1, Zenon DEF IInv, TypeOK
<1>9. TypeOK'
  BY <1>1, <1>3, <1>8, Zenon DEF IInv, TypeOK
<1>10. req' = req
  BY <1>1
<1> QED BY <1>4, <1>5, <1>6, <1>7, <1>9, <1>10, FrameRest

\* The process ends: what a request says of the offers stays.
LEMMA MarkLost ==
  ASSUME IInv, NEW o \in Offers, MarkFails(o)
  PROVE  IInv'
<1>1. /\ Fault /\ marks' = {} /\ ghost' = [ghost EXCEPT !.lost = @ \cup marks]
      /\ UNCHANGED <<clock, offers, rows, claims, keys>>
  BY Zenon DEF MarkFails
<1>2. /\ ghost \in Ghost /\ GhostOK(offers, rows, claims, marks, ghost) /\ marks \subseteq Offers
      /\ req \in [Slots -> Req] /\ view \in [Tables -> View] /\ TypeOK
  BY DEF IInv, TypeOK
<1>3. \A s \in Slots :
        /\ req'[s] \in Req /\ SlotOK(req'[s], offers, rows, claims)
        /\ req'[s].at = "offer" => req'[s] = req[s]
  <2> SUFFICES ASSUME NEW s \in Slots
               PROVE  /\ req'[s] \in Req /\ SlotOK(req'[s], offers, rows, claims)
                      /\ req'[s].at = "offer" => req'[s] = req[s]
    OBVIOUS
  <2> DEFINE q == req[s]
             f == [q EXCEPT !.at = "failed"]
  <2>1. q \in Req /\ SlotOK(q, offers, rows, claims)
    BY DEF IInv, TypeOK, SlotsOK
  <2>2. req'[s] = q \/ req'[s] = f \/ req'[s] = Idle
    BY Zenon DEF MarkFails
  <2>3. CASE req'[s] = q
    BY <2>1, <2>3
  <2>4. CASE req'[s] = f
    <3> HIDE DEF q
    <3>1. /\ f \in Req /\ f.at = "failed" /\ f.op = q.op /\ f.by = q.by /\ f.i = q.i
          /\ f.expires = q.expires /\ f.exp = q.exp /\ f.got = q.got
      BY <2>1, SMT DEF Req
    <3> HIDE DEF f
    <3>2. ~Filed(f) /\ ~Answering(f)
      BY <3>1, SMT DEF Filed, Answering
    <3>3. SlotOK(f, offers, rows, claims)
      BY <2>1, <3>1, <3>2, SMT DEF SlotOK
    <3> QED BY <2>4, <3>1, <3>3
  <2>5. CASE req'[s] = Idle
    <3>1. Idle.at # "offer"
      BY SMT DEF Idle
    <3> QED BY <2>5, <3>1, IdleOK, IdleType, Zenon
  <2> QED BY <2>2, <2>3, <2>4, <2>5
<1>4. req' \in [Slots -> Req]
  <2> DEFINE E(s) == IF req[s].at \in {"ok", "failed"} THEN req[s]
                     ELSE IF req[s].by = "desk" THEN [req[s] EXCEPT !.at = "failed"]
                     ELSE Idle
  <2>1. req' = [s \in Slots |-> E(s)]
    BY Zenon DEF MarkFails
  <2> HIDE DEF E
  <2>2. \A s \in Slots : E(s) \in Req
    BY <1>3, <2>1, Zenon
  <2> QED BY <2>1, <2>2, Zenon
<1>5. view' \in [Tables -> View]
  <2> DEFINE E(t) == IF view[t].at = "wire"
                     THEN [view[t] EXCEPT !.at = "idle", !.failed = TRUE] ELSE view[t]
  <2>1. view' = [t \in Tables |-> E(t)]
    BY Zenon DEF MarkFails
  <2>2. \A t \in Tables : E(t) \in View
    BY <1>2, Zenon DEF View
  <2> HIDE DEF E
  <2> QED BY <2>1, <2>2, Zenon
<1>6. /\ ghost' \in Ghost /\ ghost'.told = ghost.told /\ ghost'.joined = ghost.joined
      /\ ghost'.handed = ghost.handed
  BY <1>1, <1>2, SMT DEF Ghost
<1>7. GhostOK(offers, rows, claims, marks', ghost')
  BY <1>1, <1>2, <1>6, Zenon DEF GhostOK
<1>8. count' \in [asked : Nat, faults : Nat]
  BY <1>1, <1>2, Counts
<1>9. TypeOK'
  BY <1>1, <1>2, <1>4, <1>5, <1>6, <1>8, Zenon DEF TypeOK
<1>10. SlotsOK' /\ Apart'
  BY <1>1, <1>3, Zenon DEF IInv, SlotsOK, Apart
<1>11. TablesOK(offers', rows', claims') /\ GhostOK(offers', rows', claims', marks', ghost')
  <2>1. offers' = offers /\ rows' = rows /\ claims' = claims
    BY <1>1
  <2> QED BY <2>1, <1>7 DEF IInv
<1> QED BY <1>9, <1>10, <1>11, Zenon DEF IInv

-----------------------------------------------------------------------------
(***************************************************************************)
(* Deleting, and API keys.                                                 *)
(***************************************************************************)
LEMMA OfferDeleted ==
  ASSUME IInv, NEW r \in Slots, DeleteOffer(r)
  PROVE  IInv'
<1> DEFINE o == req[r].i
<1>1. /\ o \in Offers /\ req[r].op = "delete" /\ SlotOK(req[r], offers, rows, claims)
      /\ UNCHANGED <<clock, claims, keys, marks, view, ghost, count>>
  BY Zenon DEF IInv, SlotsOK, DeleteOffer, At, OnlyDesk
<1>2. /\ GhostOK(offers, rows, claims, marks, ghost) /\ TablesOK(offers, rows, claims)
      /\ offers \in [Offers -> Offer]
  BY DEF IInv, TypeOK
<1>3. /\ clock' \in Nat /\ claims' \subseteq Offers /\ keys' \in [Keys -> Lives]
      /\ marks' \subseteq Offers /\ view' \in [Tables -> View] /\ ghost' \in Ghost
      /\ count' \in [asked : Nat, faults : Nat]
  BY <1>1, Zenon DEF IInv, TypeOK
<1>4. CASE Stored(o) /\ o \notin claims
  <2>1. /\ offers' = [offers EXCEPT ![o].life = "gone"] /\ rows' = rows \ {o}
        /\ Answer(r, "ok")
    BY <1>4, Zenon DEF DeleteOffer
  <2>2. PICK f \in Req :
           /\ Put(r, f) /\ f.at # "offer"
           /\ \A os, rs, cs : SlotOK(req[r], os, rs, cs) => SlotOK(f, os, rs, cs)
    BY <1>1, <2>1, Waits
  <2> HIDE DEF o
  <2>3. offers' \in [Offers -> Offer] /\ offers'[o].life = "gone"
        /\ offers'[o].status = offers[o].status /\ offers'[o].by = offers[o].by
        /\ offers'[o].grant = offers[o].grant
        /\ \A p \in Offers : p # o => offers'[p] = offers[p]
    BY <1>1, <1>2, <2>1, SMT DEF Offer, Lives
  <2>4. offers[o].life = "live"
    BY <1>4, Zenon DEF Stored
  <2>5. Keeps(None, offers, rows, claims, offers', rows', claims')
    <3> SUFFICES ASSUME NEW p \in Offers
                 PROVE  /\ p # None /\ offers[p].life = "data" => offers'[p].life = "data"
                        /\ Made(p, offers) =>
                             /\ Made(p, offers') /\ offers'[p].by = offers[p].by
                             /\ offers'[p].grant = offers[p].grant
                             /\ offers'[p].life = "live" =>
                                  offers[p].life = "live" /\ (p \in rows => p \in rows')
                        /\ p \in claims => p \in claims' /\ (p \in rows => p \in rows')
      BY Zenon DEF Keeps
    <3>1. CASE p = o
      BY <1>1, <1>4, <2>3, <2>4, <3>1, SMT DEF Made
    <3>2. CASE p # o
      <4>1. offers'[p] = offers[p] /\ claims' = claims /\ (p \in rows => p \in rows')
        BY <1>1, <2>1, <2>3, <3>2
      <4> QED BY <4>1, Zenon DEF Made
    <3> QED BY <3>1, <3>2
  <2>6. \A s \in Slots : s # r /\ req[s].at = "offer" =>
           req[s].i # None /\ (f.at = "offer" => req[s].i # f.i)
    <3>1. \A s \in Slots : req[s].at = "offer" => req[s].i # None
      BY Assumed, Zenon DEF IInv, SlotsOK, SlotOK, Items
    <3> QED BY <2>2, <3>1, Zenon
  <2>7. SlotOK(f, offers', rows', claims')
    <3>1. req[r].at # "offer"
      BY Zenon DEF DeleteOffer, At
    <3>2. SlotOK(req[r], offers', rows', claims')
      BY <2>5, <3>1, OtherSlots
    <3> QED BY <2>2, <3>2
  <2>8. TablesOK(offers', rows', claims')
    <3>1. claims' = claims /\ o \notin claims' /\ o \notin rows' /\ rows' \subseteq rows
      BY <1>1, <1>4, <2>1
    <3>2. offers'[o].life # "live"
      BY <2>3
    <3> QED BY <1>2, <2>3, <3>1, <3>2, Zenon DEF TablesOK
  <2>9. GhostOK(offers', rows', claims', marks', ghost')
    <3>1. claims' = claims /\ marks' = marks /\ ghost' = ghost /\ \A p \in rows : p # o => p \in rows'
      BY <1>1, <2>1
    <3>2. offers'[o].life # "live" /\ Made(o, offers')
      BY <1>1, <2>3, SMT DEF Made
    <3> QED BY <1>2, <2>3, <3>1, <3>2, Zenon DEF GhostOK, Made
  <2>10. rows' \subseteq Offers /\ offers' \in [Offers -> Offer]
    BY <2>1, <2>3 DEF IInv, TypeOK
  <2> QED BY <1>3, <2>2, <2>5, <2>6, <2>7, <2>8, <2>9, <2>10, Frame
<1>5. CASE ~(Stored(o) /\ o \notin claims)
  <2>1. UNCHANGED <<offers, rows>> /\ Answer(r, "failed")
    BY <1>5, Zenon DEF DeleteOffer
  <2>2. PICK f \in Req :
           /\ Put(r, f) /\ f.at # "offer"
           /\ \A os, rs, cs : SlotOK(req[r], os, rs, cs) => SlotOK(f, os, rs, cs)
    BY <2>1, Waits
  <2>3. SlotOK(f, offers, rows, claims) /\ GhostOK(offers, rows, claims, marks', ghost')
    BY <1>1, <1>2, <2>2
  <2>4. UNCHANGED <<offers, rows, claims>>
    BY <1>1, <2>1
  <2> QED BY <1>3, <2>2, <2>3, <2>4, Quiet
<1> QED BY <1>4, <1>5

LEMMA KeyDeleted ==
  ASSUME IInv, NEW r \in Slots, DeleteKey(r)
  PROVE  IInv'
<1>1. /\ req[r].op = "delete" /\ SlotOK(req[r], offers, rows, claims) /\ Answer(r, "ok")
      /\ UNCHANGED <<clock, offers, rows, claims, marks, view, ghost, count>>
      /\ keys' = [keys EXCEPT ![req[r].i] = "gone"]
  BY Zenon DEF IInv, SlotsOK, DeleteKey, At, OnlyDesk
<1>2. PICK f \in Req :
         /\ Put(r, f) /\ f.at # "offer"
         /\ \A os, rs, cs : SlotOK(req[r], os, rs, cs) => SlotOK(f, os, rs, cs)
  BY <1>1, Waits
<1>3. keys' \in [Keys -> Lives]
  <2>1. keys \in [Keys -> Lives] /\ keys' = [keys EXCEPT ![req[r].i] = "gone"] /\ req[r].i \in Keys
    BY <1>1, Zenon DEF IInv, TypeOK, DeleteKey
  <2> QED BY <2>1, SMT DEF Lives
<1>4. SlotOK(f, offers, rows, claims) /\ GhostOK(offers, rows, claims, marks', ghost')
  BY <1>1, <1>2 DEF IInv
<1>5. /\ clock' \in Nat /\ marks' \subseteq Offers /\ view' \in [Tables -> View]
      /\ ghost' \in Ghost /\ count' \in [asked : Nat, faults : Nat]
      /\ UNCHANGED <<offers, rows, claims>>
  BY <1>1, Zenon DEF IInv, TypeOK
<1> QED BY <1>2, <1>3, <1>4, <1>5, Quiet

LEMMA KeyCreated ==
  ASSUME IInv, NEW r \in Slots, CreateKey(r)
  PROVE  IInv'
<1> DEFINE q == req[r]
<1>1. /\ q \in Req /\ q.op = "makeKey" /\ SlotOK(q, offers, rows, claims)
      /\ UNCHANGED <<clock, offers, rows, claims, marks, view, ghost, count>>
  BY Zenon DEF IInv, TypeOK, SlotsOK, CreateKey, At, OnlyDesk
<1>2. PICK k \in Keys :
         keys' = [keys EXCEPT ![k] = "live"] /\ Put(r, [q EXCEPT !.at = "ok", !.i = k])
  BY Zenon DEF CreateKey, First, UnmadeKeys
<1> DEFINE f == [q EXCEPT !.at = "ok", !.i = k]
<1>3. Put(r, f)
  BY <1>2
<1>4. /\ k \in Items \cup {None}
      /\ "ok" \in {"idle", "work", "compute", "data", "offer", "row", "state", "link",
                  "claim", "ok", "failed"}
  BY Zenon DEF Items
<1> HIDE DEF q
<1>5. /\ f \in Req /\ f.at = "ok" /\ f.i = k /\ f.op = q.op
      /\ f.expires = q.expires /\ f.exp = q.exp /\ f.got = q.got
  BY <1>1, <1>4, Zenon DEF Req
<1> HIDE DEF f
<1>6. SlotOK(f, offers, rows, claims) /\ f.at # "offer"
  <2>1. ~Filed(f) /\ ~Answering(f)
    BY <1>1, <1>5, SMT DEF Filed, Answering
  <2> QED BY <1>1, <1>5, <2>1, SMT DEF SlotOK
<1>7. keys' \in [Keys -> Lives]
  <2>1. keys \in [Keys -> Lives] /\ keys' = [keys EXCEPT ![k] = "live"]
    BY <1>2, Zenon DEF IInv, TypeOK
  <2> QED BY <2>1, SMT DEF Lives
<1>8. /\ clock' \in Nat /\ marks' \subseteq Offers /\ view' \in [Tables -> View]
      /\ ghost' \in Ghost /\ count' \in [asked : Nat, faults : Nat]
      /\ UNCHANGED <<offers, rows, claims>> /\ GhostOK(offers, rows, claims, marks', ghost')
  BY <1>1, Zenon DEF IInv, TypeOK
<1> QED BY <1>3, <1>5, <1>6, <1>7, <1>8, Quiet

-----------------------------------------------------------------------------
(***************************************************************************)
(* The console, and time.                                                  *)
(***************************************************************************)
Ats == {"closed", "idle", "wire", "answer"}

LEMMA ViewType ==
  ASSUME TypeOK, NEW t \in Tables, NEW at \in Ats,
         NEW S \in SUBSET Items, NEW T \in SUBSET Items, NEW b \in BOOLEAN
  PROVE  /\ [view EXCEPT ![t] = [@ EXCEPT !.at = at, !.seen = S, !.failed = b]] \in [Tables -> View]
         /\ [view EXCEPT ![t] = [@ EXCEPT !.at = at, !.shown = T, !.seen = S, !.loaded = b]]
               \in [Tables -> View]
         /\ [view EXCEPT ![t].at = at, ![t].seen = S] \in [Tables -> View]
         /\ [view EXCEPT ![t].at = at] \in [Tables -> View]
         /\ [view EXCEPT ![t] = Refetched(view[t])] \in [Tables -> View]
         /\ [view EXCEPT ![t].shared = T] \in [Tables -> View]
<1> DEFINE v == view[t]
           e == [v EXCEPT !.at = at, !.seen = S, !.failed = b]
           f == [v EXCEPT !.at = at, !.shown = T, !.seen = S, !.loaded = b]
           g == [v EXCEPT !.at = at]
           h == [g EXCEPT !.seen = S]
           k == Refetched(v)
           l == [v EXCEPT !.shared = T]
<1>1. v \in View /\ view \in [Tables -> View]
  BY DEF TypeOK
<1> HIDE DEF v
<1>2. e \in View
  BY <1>1, Zenon DEF View, Ats
<1>3. f \in View
  BY <1>1, Zenon DEF View, Ats
<1>4. g \in View
  BY <1>1, Zenon DEF View, Ats
<1> HIDE DEF g
<1>5. h \in View
  BY <1>4, Zenon DEF View
<1>6. k \in View
  <2> DEFINE N == {}
             w == [v EXCEPT !.at = "wire", !.seen = N, !.failed = FALSE, !.shared = N]
  <2>1. k = w
    BY Zenon DEF Refetched
  <2>2. N \in SUBSET Items /\ FALSE \in BOOLEAN /\ "wire" \in Ats
    BY DEF Ats
  <2> HIDE DEF N
  <2>3. w \in View
    BY <1>1, <2>2, Zenon DEF View, Ats
  <2> QED BY <2>1, <2>3
<1>7. l \in View
  BY <1>1, Zenon DEF View
<1> HIDE DEF e, f, h, k, l
<1>8. /\ [view EXCEPT ![t] = e] \in [Tables -> View] /\ [view EXCEPT ![t] = f] \in [Tables -> View]
      /\ [view EXCEPT ![t] = g] \in [Tables -> View] /\ [view EXCEPT ![t] = k] \in [Tables -> View]
      /\ [view EXCEPT ![t] = l] \in [Tables -> View]
      /\ [[view EXCEPT ![t] = g] EXCEPT ![t] = h] \in [Tables -> View]
  BY <1>1, <1>2, <1>3, <1>4, <1>5, <1>6, <1>7, SMT
<1>9. [view EXCEPT ![t].at = at, ![t].seen = S] = [[view EXCEPT ![t] = g] EXCEPT ![t] = h]
  BY <1>1, SMT DEF g, h, v
<1> QED BY <1>8, <1>9, Zenon DEF e, f, g, k, l, v

LEMMA ListedItems ==
  ASSUME NEW t \in Tables
  PROVE  Listed(t) \in SUBSET Items
  BY Zenon DEF Listed, Items

LEMMA AnswerShown ==
  ASSUME IInv, NEW r \in Slots, Succeeded(r)
  PROVE  IInv'
<1> DEFINE q == req[r]
           i == q.i
<1>1. /\ q \in Req /\ SlotOK(q, offers, rows, claims) /\ q.at = "ok"
      /\ Put(r, Idle) /\ UNCHANGED <<clock, offers, rows, claims, keys, marks, count>>
      /\ Refetch(i)
  BY Zenon DEF IInv, TypeOK, SlotsOK, Succeeded, End, OnlyConsole
<1>2. \/ q.op = "delete" /\ ghost' = [ghost EXCEPT !.dropped = @ \cup {i}]
      \/ q.op # "delete" /\ ghost' = [ghost EXCEPT !.told = @ \cup {i}]
  BY Zenon DEF Succeeded
<1>3. ghost \in Ghost /\ GhostOK(offers, rows, claims, marks, ghost)
  BY DEF IInv, TypeOK
<1>4. ghost' \in Ghost /\ GhostOK(offers, rows, claims, marks, ghost')
  <2>1. CASE q.op = "delete"
    <3>1. ghost' = [ghost EXCEPT !.dropped = @ \cup {i}] /\ i \in Items
      BY <1>1, <1>2, <2>1, SMT DEF SlotOK
    <3> HIDE DEF i
    <3>2. /\ ghost' \in Ghost /\ ghost'.joined = ghost.joined
          /\ ghost'.told = ghost.told /\ ghost'.handed = ghost.handed
      BY <1>3, <3>1, SMT DEF Ghost
    <3> QED BY <1>3, <3>2, Zenon DEF GhostOK
  <2>2. CASE q.op # "delete"
    <3> DEFINE T == {i}
    <3>1. ghost' = [ghost EXCEPT !.told = @ \cup T]
      BY <1>2, <2>2
    <3> HIDE DEF q
    <3>2. \/ q.op = "make" /\ q.by = "desk"
          \/ q.op = "makeKey" /\ i \in Keys
      BY <1>1, <2>2, SMT DEF SlotOK
    <3>3. ASSUME q.op = "make", q.by = "desk"
          PROVE  /\ Made(i, offers) /\ offers[i].by = "desk"
                 /\ offers[i].grant = "pre" /\ offers[i].life = "live" => i \in rows
      <4>1. Answering(q) /\ Filed(q)
        BY <1>1, <3>3, SMT DEF Answering, Filed
      <4> QED BY <1>1, <3>3, <4>1, Zenon DEF SlotOK
    <3>4. T \in SUBSET Items
      BY <3>2, <3>3, SMT DEF Made, Items
    <3>5. ASSUME NEW p \in T \cap Offers
          PROVE  /\ Made(p, offers)
                 /\ offers[p].life = "live" => /\ offers[p].grant = "pre" => p \in rows
                                               /\ offers[p].by = "interop" => p \in claims
      <4>1. p = i /\ i \in Offers
        OBVIOUS
      <4>2. q.op = "make" /\ q.by = "desk"
        BY <3>2, <4>1, Assumed, Zenon
      <4>3. "desk" # "interop"
        OBVIOUS
      <4> QED BY <3>3, <4>1, <4>2, <4>3, Zenon
    <3> HIDE DEF T
    <3>6. /\ [ghost EXCEPT !.told = @ \cup T] \in Ghost
          /\ GhostOK(offers, rows, claims, marks, [ghost EXCEPT !.told = @ \cup T])
      BY <1>3, <3>4, <3>5, Telling
    <3> QED BY <3>1, <3>6, Zenon
  <2> QED BY <2>1, <2>2
<1>5. view' \in [Tables -> View]
  <2> DEFINE t == TableOf(i)
             T == view[t].shared \cup {i}
  <2>1. t \in Tables /\ view[t] \in View /\ TypeOK
    BY Zenon DEF TableOf, Tables, IInv, TypeOK
  <2>2. i \in Items
    <3>1. i \in ghost'.told \cup ghost'.dropped
      BY <1>2, <1>3, SMT DEF Ghost
    <3> QED BY <1>4, <3>1, SMT DEF Ghost
  <2> HIDE DEF i
  <2>3. T \in SUBSET Items
    BY <2>1, <2>2, SMT DEF View
  <2>4. view' = [view EXCEPT ![t] = Refetched(view[t])] \/ view' = [view EXCEPT ![t].shared = T]
    BY <1>1, Zenon DEF Refetch
  <2>5. "wire" \in Ats /\ TRUE \in BOOLEAN
    BY DEF Ats
  <2> HIDE DEF t, T
  <2>6. /\ [view EXCEPT ![t] = Refetched(view[t])] \in [Tables -> View]
        /\ [view EXCEPT ![t].shared = T] \in [Tables -> View]
    BY ONLY <2>1, <2>3, <2>5, ViewType, Zenon
  <2> QED BY <2>4, <2>6
<1>6. Idle.at # "offer" /\ SlotOK(Idle, offers, rows, claims)
  BY IdleOK, SMT DEF Idle
<1>7. /\ clock' \in Nat /\ keys' \in [Keys -> Lives] /\ marks' \subseteq Offers
      /\ count' \in [asked : Nat, faults : Nat]
      /\ UNCHANGED <<offers, rows, claims>> /\ GhostOK(offers, rows, claims, marks', ghost')
  BY <1>1, <1>4, Zenon DEF IInv, TypeOK
<1> QED BY <1>1, <1>4, <1>5, <1>6, <1>7, IdleType, Quiet

LEMMA FailureShown ==
  ASSUME IInv, NEW r \in Slots, NotSucceeded(r)
  PROVE  IInv'
<1>1. Put(r, Idle) /\ UNCHANGED <<clock, offers, rows, claims, keys, marks, view, ghost, count>>
  BY Zenon DEF NotSucceeded, End, OnlyConsole
<1>2. Idle.at # "offer" /\ SlotOK(Idle, offers, rows, claims)
  BY IdleOK, SMT DEF Idle
<1>3. /\ clock' \in Nat /\ keys' \in [Keys -> Lives] /\ marks' \subseteq Offers
      /\ view' \in [Tables -> View] /\ ghost' \in Ghost /\ count' \in [asked : Nat, faults : Nat]
      /\ UNCHANGED <<offers, rows, claims>> /\ GhostOK(offers, rows, claims, marks', ghost')
  BY <1>1, Zenon DEF IInv, TypeOK
<1> QED BY <1>1, <1>2, <1>3, IdleType, Quiet

\* A step of the clock or of a table of the console.
LEMMA Aside ==
  ASSUME IInv, UNCHANGED <<offers, rows, claims, keys, req, marks, ghost>>,
         clock' \in Nat, view' \in [Tables -> View], count' \in [asked : Nat, faults : Nat]
  PROVE  IInv'
<1>1. TypeOK'
  BY Zenon DEF IInv, TypeOK
<1>2. SlotsOK' /\ Apart'
  BY Zenon DEF IInv, SlotsOK, Apart
<1>3. TablesOK(offers', rows', claims') /\ GhostOK(offers', rows', claims', marks', ghost')
  <2>1. offers' = offers /\ rows' = rows /\ claims' = claims /\ marks' = marks /\ ghost' = ghost
    OBVIOUS
  <2> QED BY <2>1 DEF IInv
<1> QED BY <1>1, <1>2, <1>3, Zenon DEF IInv

LEMMA Views ==
  ASSUME IInv, NEW t \in Tables, Table(t) \/ ListFails(t)
  PROVE  IInv'
<1>1. /\ view[t] \in View /\ view[t].seen \in SUBSET Items /\ view[t].shown \in SUBSET Items
      /\ view[t].failed \in BOOLEAN
      /\ "idle" \in Ats /\ "answer" \in Ats
      /\ {} \in SUBSET Items /\ TRUE \in BOOLEAN /\ TypeOK
  BY DEF IInv, TypeOK, View, Ats
<1>2. CASE ReadList(t)
  <2>1. view' \in [Tables -> View]
    BY <1>1, <1>2, ViewType, ListedItems, Zenon DEF ReadList
  <2>2. UNCHANGED <<clock, offers, rows, claims, keys, req, marks, ghost, count>>
    BY <1>2, Zenon DEF ReadList, OnlyConsole
  <2>3. clock' \in Nat /\ count' \in [asked : Nat, faults : Nat]
    BY <2>2, Zenon DEF IInv, TypeOK
  <2> QED BY <2>1, <2>2, <2>3, Aside
<1>3. CASE ShowList(t)
  <2>1. view' \in [Tables -> View]
    BY <1>1, <1>3, ViewType, Zenon DEF ShowList
  <2>2. UNCHANGED <<clock, offers, rows, claims, keys, req, marks, ghost, count>>
    BY <1>3, Zenon DEF ShowList, OnlyConsole
  <2>3. clock' \in Nat /\ count' \in [asked : Nat, faults : Nat]
    BY <2>2, Zenon DEF IInv, TypeOK
  <2> QED BY <2>1, <2>2, <2>3, Aside
<1>4. CASE ListFails(t)
  <2>1. view' \in [Tables -> View]
    BY <1>1, <1>4, ViewType, Zenon DEF ListFails
  <2>2. UNCHANGED <<clock, offers, rows, claims, keys, req, marks, ghost>> /\ Fault
    BY <1>4, Zenon DEF ListFails, OnlyConsole
  <2>3. clock' \in Nat /\ count' \in [asked : Nat, faults : Nat]
    BY <1>1, <2>2, Counts DEF TypeOK
  <2> QED BY <2>1, <2>2, <2>3, Aside
<1> QED BY <1>2, <1>3, <1>4, Zenon DEF Table

LEMMA Opens ==
  ASSUME IInv, NEW t \in Tables, Open(t)
  PROVE  IInv'
<1>1. view' = [view EXCEPT ![t].at = "wire"] /\ Asked
  BY Zenon DEF Open
<1>2. UNCHANGED <<clock, offers, rows, claims, keys, req, marks, ghost>>
  BY Zenon DEF Open, OnlyConsole
<1>3. TypeOK /\ "wire" \in Ats /\ {} \in SUBSET Items /\ TRUE \in BOOLEAN
  BY DEF Ats, IInv
<1>4. view' \in [Tables -> View]
  BY <1>1, <1>3, ViewType, Zenon
<1>5. clock' \in Nat /\ count' \in [asked : Nat, faults : Nat]
  BY <1>1, <1>2, <1>3, Counts DEF TypeOK
<1> QED BY <1>2, <1>4, <1>5, Aside

LEMMA Ticks ==
  ASSUME IInv, Tick
  PROVE  IInv'
<1>1. UNCHANGED <<offers, rows, claims, keys, req, marks, view, ghost, count>>
  BY Zenon DEF Tick
<1>2. clock' \in Nat
  BY SMT DEF Tick, IInv, TypeOK
<1>3. view' \in [Tables -> View] /\ count' \in [asked : Nat, faults : Nat]
  BY <1>1, Zenon DEF IInv, TypeOK
<1> QED BY <1>1, <1>2, <1>3, Aside

-----------------------------------------------------------------------------
(***************************************************************************)
(* The inductive invariant.                                                *)
(***************************************************************************)
OpenAt(t, b) == [shown |-> IF b THEN Listed(t) ELSE {}, at |-> IF b THEN "idle" ELSE "closed",
                 seen |-> {}, loaded |-> b, failed |-> FALSE, shared |-> {}]

LEMMA InitViews ==
  ASSUME Init
  PROVE  \E b \in BOOLEAN : view = [t \in Tables |-> OpenAt(t, b)]
BY Zenon DEF Init, OpenAt

LEMMA Initially ==
  ASSUME Init
  PROVE  IInv
<1>1. PICK old \in SUBSET Old :
         /\ offers = [o \in Offers |-> IF o \in old THEN Given ELSE Unborn]
         /\ ghost = [told |-> old, joined |-> {}, handed |-> {}, dropped |-> {}, lost |-> {}]
  BY Zenon DEF Init
<1>2. /\ clock = 0 /\ rows = {} /\ claims = {} /\ keys \in [Keys -> {"unborn", "live"}]
      /\ req = [r \in Slots |-> Idle] /\ marks = {}
      /\ count = [asked |-> 0, faults |-> 0]
  BY Zenon DEF Init
<1>3. old \subseteq Offers /\ Life \in Nat
  BY Assumed, OffersAssumption, Zenon DEF OffersAssumption
<1>4. /\ Unborn \in Offer /\ Unborn.life = "unborn" /\ Unborn.status = "PENDING"
  BY SMT DEF Unborn, Offer, Lives, Askers, Grants
<1>5. /\ Given \in Offer /\ Given.life = "live" /\ Given.status = "PENDING"
      /\ Given.by = "client" /\ Given.grant = "auth" /\ Given.expires = Given.exp
      /\ Given.exp \in Nat
  <2> DEFINE u == Unborn
             l == Life
  <2>1. u.status = "PENDING" /\ u.grant = "auth" /\ u \in Offer
    BY <1>4, SMT DEF Unborn
  <2>2. "live" \in Lives /\ "client" \in Askers /\ l \in Nat
    BY <1>3, SMT DEF Lives, Askers
  <2>3. Given = [u EXCEPT !.life = "live", !.by = "client", !.expires = l, !.exp = l]
    BY Zenon DEF Given
  <2> HIDE DEF u, l
  <2> QED BY <2>1, <2>2, <2>3, Zenon DEF Offer
<1>6. offers \in [Offers -> Offer]
  <2>1. \A o \in Offers : (IF o \in old THEN Given ELSE Unborn) \in Offer
    BY <1>4, <1>5, Zenon
  <2> HIDE DEF Given, Unborn
  <2> QED BY <1>1, <2>1, Zenon
<1>7. \A o \in Offers : (offers[o] = Given /\ o \in old) \/ (offers[o] = Unborn /\ o \notin old)
  BY <1>1, Zenon
<1>8. /\ ghost \in Ghost /\ ghost.told = old /\ ghost.joined = {} /\ ghost.handed = {}
  BY <1>1, <1>3, SMT DEF Ghost, Items
<1>9. view \in [Tables -> View]
  <2>1. PICK b \in BOOLEAN : view = [t \in Tables |-> OpenAt(t, b)]
    BY InitViews
  <2>2. \A t \in Tables : OpenAt(t, b) \in View
    <3> SUFFICES ASSUME NEW t \in Tables PROVE OpenAt(t, b) \in View
      OBVIOUS
    <3>1. Listed(t) \in SUBSET Items
      BY ListedItems
    <3> QED BY <3>1, SMT DEF OpenAt, View
  <2> HIDE DEF OpenAt
  <2> QED BY <2>1, <2>2, Zenon
<1>10. TypeOK
  <2>1. req \in [Slots -> Req]
    BY <1>2, IdleType, Zenon
  <2>2. keys \in [Keys -> Lives]
    BY <1>2, SMT DEF Lives
  <2>3. clock \in Nat /\ count \in [asked : Nat, faults : Nat]
    BY <1>2, SMT
  <2> QED BY <1>2, <1>6, <1>8, <1>9, <2>1, <2>2, <2>3, Zenon DEF TypeOK
<1>11. SlotsOK
  BY <1>2, IdleOK, Zenon DEF SlotsOK
<1>12. Apart
  <2>1. Idle.at # "offer"
    BY SMT DEF Idle
  <2> QED BY <1>2, <2>1, Zenon DEF Apart
<1>13. TablesOK(offers, rows, claims)
  <2>1. Given.expires <= Given.exp
    BY <1>5, SMT
  <2> QED BY <1>2, <1>4, <1>7, <2>1, SMT DEF TablesOK
<1>14. GhostOK(offers, rows, claims, marks, ghost)
  BY <1>2, <1>4, <1>5, <1>7, <1>8, SMT DEF GhostOK, Made
<1> QED BY <1>10, <1>11, <1>12, <1>13, <1>14, Zenon DEF IInv

LEMMA Steps ==
  ASSUME IInv, [Next]_vars
  PROVE  IInv'
<1>1. CASE Tick
  BY <1>1, Ticks
<1>2. ASSUME NEW r \in Slots, Ask(r) \/ Serve(r) \/ CallFails(r)
      PROVE  IInv'
  <2>1. CASE Ask(r)
    BY <2>1, Asks
  <2>2. CASE CallFails(r)
    BY <2>2, CallsFail
  <2>3. CASE Serve(r)
    <3>1. CASE Compute(r) \/ SaveData(r) \/ SaveOffer(r) \/ SaveRow(r) \/ Link(r) \/ SaveClaim(r)
      BY <3>1, Computes, DataSaved, OfferSaved, RowSaved, Linked, ClaimSaved
    <3>2. CASE HandOut(r) \/ SaveState(r)
      BY <3>2, HandsOut, StateSaved
    <3>3. CASE DeleteOffer(r) \/ DeleteKey(r) \/ CreateKey(r)
      BY <3>3, OfferDeleted, KeyDeleted, KeyCreated
    <3>4. CASE Succeeded(r) \/ NotSucceeded(r)
      BY <3>4, AnswerShown, FailureShown
    <3> QED BY <2>3, <3>1, <3>2, <3>3, <3>4, Zenon DEF Serve
  <2> QED BY <1>2, <2>1, <2>2, <2>3
<1>3. ASSUME NEW o \in Offers, MarkUsed(o) \/ MarkFails(o)
      PROVE  IInv'
  BY <1>3, Marked, MarkLost
<1>4. ASSUME NEW t \in Tables, Table(t) \/ ListFails(t) \/ Open(t)
      PROVE  IInv'
  BY <1>4, Views, Opens
<1>5. CASE UNCHANGED vars
  <2>1. UNCHANGED <<clock, offers, rows, claims, keys, req, marks, view, ghost, count>>
    BY <1>5 DEF vars
  <2>2. clock' \in Nat /\ view' \in [Tables -> View] /\ count' \in [asked : Nat, faults : Nat]
    BY <2>1, Zenon DEF IInv, TypeOK
  <2> QED BY <2>1, <2>2, Aside
<1> QED BY <1>1, <1>2, <1>3, <1>4, <1>5, Zenon DEF Next

LEMMA Always == Spec => []IInv
<1>1. Init => IInv
  BY Initially
<1>2. IInv /\ [Next]_vars => IInv'
  BY Steps
<1> QED BY <1>1, <1>2, PTL DEF Spec

\* Every table, request and answer has its type, whatever is asked for and fails.
THEOREM TypesHold == Spec => []TypeOK
<1>1. IInv => TypeOK
  BY DEF IInv
<1> QED BY <1>1, Always, PTL

\* expires_at is read from the clock before the exp of the issuer state, so an
\* offer that getOfferById hands out has a state that authorize accepts.
THEOREM FetchedAccepted == Spec => []FetchedIsAccepted
<1>1. IInv => FetchedIsAccepted
  <2> SUFFICES ASSUME IInv, NEW o \in Offers, Stored(o), ~IsExpired(o)
               PROVE  ~StateExpired(o)
    BY Zenon DEF FetchedIsAccepted
  <2>1. offers[o] \in Offer /\ clock \in Nat
    BY DEF IInv, TypeOK
  <2>2. offers[o].expires \in Nat /\ offers[o].exp \in Nat
    BY <2>1, SMT DEF Offer
  <2>3. offers[o].expires <= offers[o].exp /\ ~(offers[o].expires <= clock)
    BY Zenon DEF IInv, TablesOK, Stored, IsExpired
  <2> QED BY <2>1, <2>2, <2>3, SMT DEF StateExpired
<1> QED BY <1>1, Always, PTL

\* Nobody is told of an offer before the row that redeeming it needs is stored.
THEOREM AnsweredRedeemable == Spec => []AnsweredIsRedeemable
<1>1. IInv => AnsweredIsRedeemable
  BY Zenon DEF IInv, GhostOK, AnsweredIsRedeemable, Stored
<1> QED BY <1>1, Always, PTL

\* The update to USED that nobody awaits was started by handing the offer out.
THEOREM UsedHanded == Spec => []UsedWasHanded
<1>1. IInv => UsedWasHanded
  BY Zenon DEF IInv, GhostOK, UsedWasHanded
<1> QED BY <1>1, Always, PTL

LEMMA GoneStays ==
  ASSUME IInv, [Next]_vars, NEW o \in Offers, offers[o].life = "gone"
  PROVE  offers'[o].life = "gone"
<1>1. offers \in [Offers -> Offer]
  BY DEF IInv, TypeOK
<1>2. CASE offers' = offers
  BY <1>2
<1>3. ASSUME NEW p \in Offers, offers' = [offers EXCEPT ![p].life = "data"], offers[p].life = "unborn"
      PROVE  offers'[o].life = "gone"
  BY <1>1, <1>3, SMT
<1>4. ASSUME NEW p \in Offers, NEW x, offers' = [offers EXCEPT ![p] = x], offers[p].life = "data"
      PROVE  offers'[o].life = "gone"
  BY <1>1, <1>4, SMT
<1>5. ASSUME NEW p \in Offers, offers' = [offers EXCEPT ![p].life = "gone"]
      PROVE  offers'[o].life = "gone"
  BY <1>1, <1>5, SMT DEF Offer
<1>6. ASSUME NEW p \in Offers, offers' = [offers EXCEPT ![p].status = "USED"]
      PROVE  offers'[o].life = "gone"
  BY <1>1, <1>6, SMT DEF Offer
<1>7. CASE Tick \/ UNCHANGED vars
  <2>1. offers' = offers
    BY <1>7, Zenon DEF Tick, vars
  <2> QED BY <2>1, <1>2
<1>8. ASSUME NEW r \in Slots, Ask(r)
      PROVE  offers'[o].life = "gone"
  <2>1. offers' = offers
    BY <1>8, Zenon DEF Ask, AskAtDesk, AskInterop, AskScope, AskKey, AskWithKey, AskDelete,
                       Fetch, Authorize, Start, OnlyAsked
  <2> QED BY <2>1, <1>2
<1>9. ASSUME NEW r \in Slots, CallFails(r) \/ Serve(r)
      PROVE  offers'[o].life = "gone"
  <2>1. CASE SaveData(r)
    <3> PICK p \in Offers : offers[p].life = "unborn" /\ offers' = [offers EXCEPT ![p].life = "data"]
      BY <2>1, Zenon DEF SaveData, First, Unmade
    <3> QED BY <1>3
  <2>2. CASE SaveOffer(r)
    <3>1. req[r].at = "offer" /\ SlotOK(req[r], offers, rows, claims)
      BY <2>2, Zenon DEF IInv, SlotsOK, SaveOffer, Step, At
    <3>2. req[r].i \in Offers /\ offers[req[r].i].life = "data"
      BY <3>1, Zenon DEF SlotOK
    <3>3. \E x : offers' = [offers EXCEPT ![req[r].i] = x]
      BY <2>2, Zenon DEF SaveOffer
    <3> QED BY <3>2, <3>3, <1>4, Zenon
  <2>3. CASE DeleteOffer(r)
    <3>1. req[r].i \in Offers /\
          (offers' = offers \/ offers' = [offers EXCEPT ![req[r].i].life = "gone"])
      BY <2>3, Zenon DEF DeleteOffer
    <3> QED BY <3>1, <1>2, <1>5, Zenon
  <2>4. CASE \/ CallFails(r) \/ Compute(r) \/ SaveRow(r) \/ Link(r) \/ SaveClaim(r) \/ HandOut(r)
             \/ SaveState(r) \/ DeleteKey(r) \/ CreateKey(r) \/ Succeeded(r) \/ NotSucceeded(r)
    <3>1. offers' = offers
      BY <2>4, Zenon DEF CallFails, Compute, SaveRow, Link, SaveClaim, Claimable, HandOut, SaveState, DeleteKey,
                         CreateKey, Succeeded, NotSucceeded, OnlyRequests, OnlyDesk, OnlyConsole
    <3> QED BY <3>1, <1>2
  <2> QED BY <1>9, <2>1, <2>2, <2>3, <2>4, Zenon DEF Serve
<1>10. ASSUME NEW p \in Offers, MarkUsed(p) \/ MarkFails(p)
       PROVE  offers'[o].life = "gone"
  <2>1. offers' = offers \/ offers' = [offers EXCEPT ![p].status = "USED"]
    BY <1>10, Zenon DEF MarkUsed, MarkFails
  <2> QED BY <2>1, <1>2, <1>6, Zenon
<1>11. ASSUME NEW t \in Tables, Table(t) \/ ListFails(t) \/ Open(t)
       PROVE  offers'[o].life = "gone"
  <2>1. offers' = offers
    BY <1>11, Zenon DEF Table, ReadList, ShowList, ListFails, Open, OnlyConsole
  <2> QED BY <2>1, <1>2
<1> QED BY <1>7, <1>8, <1>9, <1>10, <1>11, Zenon DEF Next

\* No update, late request or restart brings a deleted offer or its session back.
THEOREM StaysGone == Spec => DeletedStaysGone
<1>1. IInv /\ IInv' /\ [Next]_vars =>
        [\A o \in Offers : offers[o].life = "gone" =>
           offers'[o].life = "gone" /\ o \notin rows']_vars
  <2> SUFFICES ASSUME IInv, IInv', [Next]_vars, NEW o \in Offers, offers[o].life = "gone"
               PROVE  offers'[o].life = "gone" /\ o \notin rows'
    OBVIOUS
  <2>1. offers'[o].life = "gone"
    BY GoneStays
  <2>2. o \in rows' => offers'[o].life = "live"
    BY Zenon DEF IInv, TablesOK
  <2> QED BY <2>1, <2>2, SMT
<1> QED BY <1>1, Always, PTL DEF Spec, DeletedStaysGone

-----------------------------------------------------------------------------
(***************************************************************************)
(* The desk's tables: the second invariant.  A list that was read, or is   *)
(* on screen with no fetch after it, has what the desk was told of and     *)
(* nothing of what it was told is deleted: whatever tells the desk more    *)
(* sends the next fetch, or is noted as shared with the first one, and     *)
(* nothing else makes or unmakes those rows.  What is deleted at the desk  *)
(* was shown there, so the table has data and the fetch is a new one.      *)
(***************************************************************************)
IsLive(i, os, ks) == IF i \in Offers THEN os[i].life = "live" ELSE ks[i] = "live"
IsGone(i, os, ks) == IF i \in Offers THEN os[i].life = "gone" ELSE ks[i] = "gone"
Own(i, os)        == i \in Keys \/ os[i].by = "desk"

\* S: the rows of a list; M: what may be missing; g: what was told to whom.
ShowsOwn(S, M, t, os, ks, g) ==
    /\ \A i \in g.dropped : TableOf(i) = t => i \notin S
    /\ \A i \in g.told \ M : TableOf(i) = t /\ IsLive(i, os, ks) /\ Own(i, os) => i \in S

\* What a request that the desk waits for has done.
DeskSlotOK(q, os, ks) ==
    /\ q.op = "delete" /\ q.at = "ok" => IsGone(q.i, os, ks)
    /\ q.op = "makeKey" /\ q.at = "ok" => ks[q.i] # "unborn"

DeskOK(os, ks, cs, g) ==
    /\ \A o \in cs : os[o].by = "interop"
    /\ \A i \in g.dropped : IsGone(i, os, ks)
    /\ \A k \in g.told : k \in Keys => ks[k] # "unborn"

ViewOK(v, t, os, ks, g) ==
    /\ v.at = "idle" /\ ~v.failed => ShowsOwn(v.shown, v.shared, t, os, ks, g)
    /\ v.at = "answer" => ShowsOwn(v.seen, v.shared, t, os, ks, g)

DeskSlotsOK == \A r \in Slots : DeskSlotOK(req[r], offers, keys)
ViewsOK     == \A t \in Tables : ViewOK(view[t], t, offers, keys, ghost)
DeskPart    == DeskSlotsOK /\ DeskOK(offers, keys, claims, ghost) /\ ViewsOK

\* What is deleted from a table of the desk was shown by it.
LoadedOK(q, vw) == q.op = "delete" /\ (q.by = "desk" \/ q.at = "ok") => vw[TableOf(q.i)].loaded
LoadPart == /\ \A r \in Slots : LoadedOK(req[r], view)
            /\ \A t \in Tables : view[t].shown # {} => view[t].loaded

LInv == IInv /\ LoadPart
DInv == LInv /\ DeskPart

\* What a step does to what was made and deleted.
Lasts(os, ks, os2, ks2) ==
    /\ \A i \in Items : IsGone(i, os, ks) => IsGone(i, os2, ks2)
    /\ \A k \in Keys : ks[k] # "unborn" =>
          ks2[k] # "unborn" /\ (IsLive(k, os2, ks2) => IsLive(k, os, ks))
    /\ \A o \in Offers : Made(o, os) =>
          os2[o].by = os[o].by /\ (IsLive(o, os2, ks2) => IsLive(o, os, ks))

-----------------------------------------------------------------------------
(***************************************************************************)
(* A table that a row is deleted from has data.                            *)
(***************************************************************************)
LEMMA LoadedGo ==
  ASSUME NEW q \in Req, NEW at, LoadedOK(q, view), at # "ok" \/ q.by = "desk" \/ q.op # "delete"
  PROVE  LoadedOK([q EXCEPT !.at = at], view)
<1> DEFINE f == [q EXCEPT !.at = at]
<1>1. f.op = q.op /\ f.by = q.by /\ f.i = q.i /\ f.at = at
  BY SMT DEF Req
<1> HIDE DEF f
<1>2. LoadedOK(f, view)
  BY <1>1, SMT DEF LoadedOK
<1> QED BY <1>2 DEF f

LEMMA LoadedOther == ASSUME NEW q, q.op # "delete" PROVE LoadedOK(q, view)
BY SMT DEF LoadedOK

\* What a table may do: its data stays, and what it shows is data.
Loads(v, w) == (v.loaded => w.loaded) /\ (w.shown = v.shown \/ w.loaded)

\* The requests and tables after a step.
Moves(r) == \E f : Put(r, f) /\ LoadedOK(f, view)

LEMMA LoadedStill ==
  ASSUME LInv, \A t \in Tables : Loads(view[t], view'[t]),
         \A s \in Slots : LoadedOK(req'[s], view)
  PROVE  LoadPart'
<1>1. \A i : TableOf(i) \in Tables
  BY SMT DEF TableOf, Tables
<1>2. \A s \in Slots : LoadedOK(req'[s], view')
  BY <1>1, SMT DEF LoadedOK, Loads
<1>3. \A t \in Tables : view'[t].shown # {} => view'[t].loaded
  BY SMT DEF Loads, LInv, LoadPart
<1> QED BY <1>2, <1>3, Zenon DEF LoadPart

LEMMA SlotMoves ==
  ASSUME LInv, NEW r \in Slots, Moves(r)
  PROVE  \A s \in Slots : LoadedOK(req'[s], view)
<1>1. PICK f : Put(r, f) /\ LoadedOK(f, view)
  BY DEF Moves
<1>2. \A s \in Slots : req'[s] = IF s = r THEN f ELSE req[s]
  BY <1>1 DEF Put, LInv, IInv, TypeOK
<1> QED BY <1>1, <1>2 DEF LInv, LoadPart

LEMMA MovesOnly ==
  ASSUME LInv, NEW r \in Slots, Moves(r), view' = view
  PROVE  LoadPart'
<1>1. \A t \in Tables : Loads(view[t], view'[t])
  BY SMT DEF Loads
<1> QED BY <1>1, SlotMoves, LoadedStill

LEMMA MovesGo ==
  ASSUME LInv, NEW r \in Slots, NEW at, Go(r, at),
         at # "ok" \/ req[r].by = "desk" \/ req[r].op # "delete"
  PROVE  Moves(r)
<1>1. req[r] \in Req /\ LoadedOK(req[r], view)
  BY DEF LInv, LoadPart, IInv, TypeOK
<1>2. LoadedOK([req[r] EXCEPT !.at = at], view)
  BY <1>1, LoadedGo
<1> QED BY <1>2, Zenon DEF Go, Moves

LEMMA MovesOther ==
  ASSUME NEW r \in Slots, NEW f, Put(r, f), f.op # "delete"
  PROVE  Moves(r)
BY LoadedOther, Zenon DEF Moves

LEMMA MovesEnd ==
  ASSUME NEW r \in Slots, End(r)
  PROVE  Moves(r)
<1>1. Idle.op # "delete"
  BY SMT DEF Idle
<1> QED BY <1>1, MovesOther, Zenon DEF End

LEMMA MovesAnswer ==
  ASSUME LInv, NEW r \in Slots, NEW at, Answer(r, at)
  PROVE  Moves(r)
BY MovesGo, MovesEnd, Zenon DEF Answer

LEMMA MovesBatch ==
  ASSUME NEW r \in Slots, NEW S, NextOfBatch(r, S)
  PROVE  Moves(r)
<1> DEFINE f == [Making("interop", Batch[req[r].n + 1]) EXCEPT !.n = req[r].n + 1, !.got = S]
<1>1. Put(r, f) \/ End(r)
  BY Zenon DEF NextOfBatch
<1>2. f.op = "make"
  BY SMT DEF Making, Idle
<1> HIDE DEF f
<1>3. f.op # "delete"
  BY <1>2, SMT
<1> QED BY <1>1, <1>3, MovesOther, MovesEnd

LEMMA MovesBroken ==
  ASSUME LInv, NEW r \in Slots, Broken(r)
  PROVE  Moves(r)
BY MovesBatch, MovesAnswer, Zenon DEF Broken

LEMMA AsksLoad ==
  ASSUME LInv, NEW r \in Slots, Ask(r)
  PROVE  Moves(r) /\ view' = view
<1>1. ASSUME NEW f, Start(r, f), f.op # "delete" PROVE Moves(r) /\ view' = view
  BY <1>1, MovesOther, Zenon DEF Start, OnlyAsked
<1>2. ASSUME NEW by, NEW g, Start(r, Making(by, g)) PROVE Moves(r) /\ view' = view
  <2> DEFINE q == Making(by, g)
  <2>1. q.op # "delete"
    BY SMT DEF Making, Idle
  <2>2. Start(r, q)
    BY <1>2
  <2> HIDE DEF q
  <2> QED BY <1>1, <2>1, <2>2
<1>3. AskInterop(r) => Moves(r) /\ view' = view
  <2> DEFINE q == [Making("interop", Batch[1]) EXCEPT !.n = 1]
  <2>1. q.op # "delete"
    BY SMT DEF Making, Idle
  <2>2. AskInterop(r) => Start(r, q)
    BY Zenon DEF AskInterop
  <2> HIDE DEF q
  <2> QED BY <1>1, <2>1, <2>2
<1>4. AskAtDesk(r) \/ AskScope(r) \/ (\E k \in Keys, g \in Grants : AskWithKey(r, k, g))
      => Moves(r) /\ view' = view
  BY <1>2, Zenon DEF AskAtDesk, AskScope, AskWithKey
<1>5. AskKey(r) => Moves(r) /\ view' = view
  <2>1. [Idle EXCEPT !.op = "makeKey", !.at = "work", !.by = "desk"].op # "delete"
    BY SMT DEF Idle
  <2> QED BY <1>1, <2>1, Zenon DEF AskKey
<1>6. ASSUME NEW i, NEW by, AskDelete(r, i, by) PROVE Moves(r) /\ view' = view
  <2> DEFINE f == [Idle EXCEPT !.op = "delete", !.at = "work", !.by = by, !.i = i]
  <2>1. f.at = "work" /\ f.by = by /\ f.i = i
    BY SMT DEF Idle
  <2>2. Put(r, f) /\ view' = view /\ i \in IF by = "desk" THEN view[TableOf(i)].shown
                                                           ELSE Listed(TableOf(i))
    BY <1>6, Zenon DEF AskDelete, Start, OnlyAsked
  <2> HIDE DEF f
  <2>3. TableOf(i) \in Tables
    BY SMT DEF TableOf, Tables
  <2>4. by = "desk" => view[TableOf(i)].loaded
    BY <2>2, <2>3 DEF LInv, LoadPart
  <2>5. LoadedOK(f, view)
    BY <2>1, <2>4, SMT DEF LoadedOK
  <2> QED BY <2>2, <2>5, Zenon DEF Moves
<1>7. ASSUME NEW o, Fetch(r, o) \/ Authorize(r, o) PROVE Moves(r) /\ view' = view
  <2>1. /\ [Idle EXCEPT !.op = "fetch", !.at = "work", !.i = o].op # "delete"
        /\ [Idle EXCEPT !.op = "authorize", !.at = "state", !.i = o].op # "delete"
    BY SMT DEF Idle
  <2> QED BY <1>7, <2>1, MovesOther, Zenon DEF Fetch, Authorize, OnlyAsked
<1> QED BY <1>3, <1>4, <1>5, <1>6, <1>7, Zenon DEF Ask

LEMMA ServesLoad ==
  ASSUME LInv, NEW r \in Slots, Serve(r), ~Succeeded(r)
  PROVE  Moves(r) /\ view' = view
<1> DEFINE q == req[r]
<1>1. q \in Req
  BY DEF LInv, IInv, TypeOK
<1>2. ASSUME Compute(r) \/ SaveData(r) \/ SaveOffer(r) \/ SaveRow(r) \/ Link(r) \/ SaveClaim(r)
      PROVE  view' = view /\ q.op = "make"
  BY <1>2, Zenon DEF Compute, SaveData, SaveOffer, SaveRow, Link, SaveClaim, Claimable, Step, At
<1>3. CASE Compute(r)
  <2>1. PICK late \in {0, 1} :
          Put(r, [q EXCEPT !.at = "data", !.expires = clock + Life, !.exp = Signed(late)])
    BY <1>3, Zenon DEF Compute
  <2> DEFINE a == clock + Life
             b == Signed(late)
             f == [q EXCEPT !.at = "data", !.expires = a, !.exp = b]
  <2>2. q.op = "make"
    BY <1>2, <1>3
  <2>3. Put(r, f)
    BY <2>1
  <2> HIDE DEF q, a, b
  <2>4. f.op # "delete"
    BY <1>1, <2>2, SMT DEF Req
  <2> HIDE DEF f
  <2> QED BY <1>2, <1>3, <2>3, <2>4, MovesOther
<1>4. CASE SaveData(r)
  <2>1. PICK o \in First(Unmade) : Put(r, [q EXCEPT !.at = "offer", !.i = o])
    BY <1>4, Zenon DEF SaveData
  <2> DEFINE f == [q EXCEPT !.at = "offer", !.i = o]
  <2>2. q.op = "make"
    BY <1>2, <1>4
  <2>3. Put(r, f)
    BY <2>1
  <2> HIDE DEF q
  <2>4. f.op # "delete"
    BY <1>1, <2>2, SMT DEF Req
  <2> HIDE DEF f
  <2> QED BY <1>2, <1>4, <2>3, <2>4, MovesOther
<1>5. CASE SaveOffer(r)
  <2>1. q.op # "delete" /\ Go(r, AfterOffer(q)) /\ view' = view
    BY <1>2, <1>5, Zenon DEF SaveOffer
  <2> QED BY <2>1, MovesGo
<1>6. CASE SaveRow(r) \/ Link(r) \/ SaveClaim(r)
  <2>1. q.op # "delete" /\ view' = view
    BY <1>2, <1>6
  <2>2. \/ Go(r, "link") \/ Go(r, "claim") \/ Go(r, "ok") \/ End(r) \/ Broken(r)
        \/ (\E S : NextOfBatch(r, S))
    BY <1>6, Zenon DEF SaveRow, Link, SaveClaim, Claimable
  <2> QED BY <2>1, <2>2, MovesGo, MovesEnd, MovesBroken, MovesBatch
<1>7. CASE HandOut(r) \/ SaveState(r) \/ NotSucceeded(r)
  <2>1. End(r) /\ view' = view
    BY <1>7, Zenon DEF HandOut, SaveState, NotSucceeded, OnlyRequests
  <2> QED BY <2>1, MovesEnd
<1>8. CASE DeleteOffer(r) \/ DeleteKey(r)
  <2>1. (Answer(r, "ok") \/ Answer(r, "failed")) /\ view' = view
    BY <1>8, Zenon DEF DeleteOffer, DeleteKey, OnlyDesk
  <2> QED BY <2>1, MovesAnswer
<1>9. CASE CreateKey(r)
  <2>1. PICK k \in First(UnmadeKeys) : Put(r, [q EXCEPT !.at = "ok", !.i = k])
    BY <1>9, Zenon DEF CreateKey
  <2> DEFINE f == [q EXCEPT !.at = "ok", !.i = k]
  <2>2. q.op = "makeKey" /\ view' = view
    BY <1>9, Zenon DEF CreateKey, At, OnlyDesk
  <2>3. Put(r, f)
    BY <2>1
  <2> HIDE DEF q
  <2>4. f.op # "delete"
    BY <1>1, <2>2, SMT DEF Req
  <2> HIDE DEF f
  <2> QED BY <2>2, <2>3, <2>4, MovesOther
<1> QED BY <1>3, <1>4, <1>5, <1>6, <1>7, <1>8, <1>9, Zenon DEF Serve

\* The records that a step of a table makes of one.
LEMMA Kept ==
  ASSUME NEW v \in View
  PROVE  /\ \A x : Loads(v, [v EXCEPT !.at = x])
         /\ \A x, S : Loads(v, [[v EXCEPT !.at = x] EXCEPT !.seen = S])
         /\ \A x, S, b : Loads(v, [v EXCEPT !.at = x, !.seen = S, !.failed = b])
         /\ \A x, b : Loads(v, [v EXCEPT !.at = x, !.failed = b])
         /\ \A x, S, T : Loads(v, [v EXCEPT !.at = x, !.shown = T, !.seen = S, !.loaded = TRUE])
         /\ \A S : Loads(v, [v EXCEPT !.shared = S])
         /\ Loads(v, Refetched(v))
BY SMT DEF View, Loads, Refetched

LEMMA RefetchKeeps ==
  ASSUME TypeOK, NEW i, Refetch(i)
  PROVE  \A t \in Tables : Loads(view[t], view'[t])
<1> DEFINE u == TableOf(i)
           S == view[u].shared \cup {i}
<1>1. view \in [Tables -> View]
  BY DEF TypeOK
<1>2. view' = [view EXCEPT ![u] = Refetched(view[u])] \/ view' = [view EXCEPT ![u].shared = S]
  BY Zenon DEF Refetch
<1> HIDE DEF u, S
<1>3. ASSUME NEW t \in Tables PROVE Loads(view[t], view'[t])
  <2>1. \/ view'[t] = view[t] \/ view'[t] = Refetched(view[t])
        \/ view'[t] = [view[t] EXCEPT !.shared = S]
    BY <1>1, <1>2, Zenon
  <2>2. Loads(view[t], view[t])
    BY Zenon DEF Loads
  <2>3. /\ Loads(view[t], Refetched(view[t]))
        /\ Loads(view[t], [view[t] EXCEPT !.shared = S])
    BY <1>1, Kept, Zenon
  <2> QED BY <2>1, <2>2, <2>3, Zenon
<1> QED BY <1>3

LEMMA TablesKeep ==
  ASSUME TypeOK, NEW u \in Tables, Table(u) \/ ListFails(u) \/ Open(u)
  PROVE  \A t \in Tables : Loads(view[t], view'[t])
<1> DEFINE v == view[u]
           e == [v EXCEPT !.at = "answer"]
<1>1. view \in [Tables -> View]
  BY DEF TypeOK
<1>2. \/ view'[u] = [e EXCEPT !.seen = Listed(u)]
      \/ view'[u] = [v EXCEPT !.at = "idle", !.shown = v.seen, !.seen = {}, !.loaded = TRUE]
      \/ view'[u] = [v EXCEPT !.at = "idle", !.seen = {}, !.failed = TRUE]
      \/ view'[u] = [v EXCEPT !.at = "wire"]
  <2>1. CASE ReadList(u)
    <3>1. view' = [view EXCEPT ![u].at = "answer", ![u].seen = Listed(u)]
      BY <2>1, Zenon DEF ReadList
    <3> QED BY <1>1, <3>1, SMT
  <2>2. CASE ShowList(u)
    BY <1>1, <2>2, Zenon DEF ShowList
  <2>3. CASE ListFails(u)
    BY <1>1, <2>3, Zenon DEF ListFails
  <2>4. CASE Open(u)
    BY <1>1, <2>4, Zenon DEF Open
  <2> QED BY <2>1, <2>2, <2>3, <2>4 DEF Table
<1>3. Loads(view[u], view'[u])
  <2>1. /\ Loads(v, [e EXCEPT !.seen = Listed(u)])
        /\ Loads(v, [v EXCEPT !.at = "idle", !.shown = v.seen, !.seen = {}, !.loaded = TRUE])
        /\ Loads(v, [v EXCEPT !.at = "idle", !.seen = {}, !.failed = TRUE])
        /\ Loads(v, [v EXCEPT !.at = "wire"])
    BY <1>1, Kept, Zenon
  <2> QED BY <1>2, <2>1, Zenon
<1>4. \A t \in Tables : t # u => view'[t] = view[t]
  BY <1>1, Zenon DEF Table, ReadList, ShowList, ListFails, Open
<1>5. \A t \in Tables : Loads(view[t], view[t])
  BY Zenon DEF Loads
<1> QED BY <1>3, <1>4, <1>5

LEMMA MarkFailsLoad ==
  ASSUME LInv, NEW o \in Offers, MarkFails(o)
  PROVE  LoadPart'
<1>1. req \in [Slots -> Req] /\ view \in [Tables -> View]
  BY DEF LInv, IInv, TypeOK
<1>2. ASSUME NEW t \in Tables PROVE Loads(view[t], view'[t])
  <2>1. view'[t] = view[t] \/ view'[t] = [view[t] EXCEPT !.at = "idle", !.failed = TRUE]
    BY Zenon DEF MarkFails
  <2>2. Loads(view[t], view[t])
    BY Zenon DEF Loads
  <2>3. Loads(view[t], [view[t] EXCEPT !.at = "idle", !.failed = TRUE])
    BY <1>1, Kept, Zenon
  <2> QED BY <2>1, <2>2, <2>3, Zenon
<1>3. ASSUME NEW s \in Slots PROVE LoadedOK(req'[s], view)
  <2>1. req'[s] = req[s] \/ req'[s] = [req[s] EXCEPT !.at = "failed"] \/ req'[s] = Idle
    BY Zenon DEF MarkFails
  <2>2. LoadedOK(req[s], view) /\ Idle.op # "delete" /\ "failed" # "ok"
    BY SMT DEF LInv, LoadPart, Idle
  <2>3. LoadedOK([req[s] EXCEPT !.at = "failed"], view)
    BY <1>1, <2>2, LoadedGo
  <2> QED BY <2>1, <2>2, <2>3, LoadedOther
<1> QED BY <1>2, <1>3, LoadedStill

LEMMA LoadInit ==
  ASSUME Init
  PROVE  LInv
<1>1. IInv /\ req = [r \in Slots |-> Idle]
  BY Initially, Zenon DEF Init
<1>2. Idle.op # "delete"
  BY SMT DEF Idle
<1>3. PICK b \in BOOLEAN : view = [t \in Tables |-> OpenAt(t, b)]
  BY InitViews
<1>4. \A t \in Tables : view[t].shown # {} => view[t].loaded
  BY <1>3, SMT DEF OpenAt
<1>5. \A r \in Slots : LoadedOK(req[r], view)
  BY <1>1, <1>2, LoadedOther
<1> QED BY <1>1, <1>4, <1>5 DEF LInv, LoadPart

LEMMA LoadSteps ==
  ASSUME LInv, [Next]_vars
  PROVE  LInv'
<1>1. IInv'
  BY Steps DEF LInv
<1> SUFFICES LoadPart'
  BY <1>1 DEF LInv
<1>2. \A t \in Tables : Loads(view[t], view[t])
  BY Zenon DEF Loads
<1>3. \A s \in Slots : LoadedOK(req[s], view)
  BY DEF LInv, LoadPart
<1>4. CASE Tick \/ UNCHANGED vars \/ (\E o \in Offers : MarkUsed(o))
  <2>1. req' = req /\ view' = view
    BY <1>4, Zenon DEF Tick, vars, MarkUsed
  <2> QED BY <2>1, <1>2, <1>3, LoadedStill
<1>5. ASSUME NEW r \in Slots, Ask(r) \/ Serve(r) \/ CallFails(r)
      PROVE  LoadPart'
  <2>1. CASE Ask(r)
    BY <2>1, AsksLoad, MovesOnly
  <2>2. CASE CallFails(r)
    <3>1. Broken(r) /\ view' = view
      BY <2>2, Zenon DEF CallFails
    <3> QED BY <3>1, MovesBroken, MovesOnly
  <2>3. CASE Succeeded(r)
    <3>1. End(r) /\ Refetch(req[r].i)
      BY <2>3, Zenon DEF Succeeded
    <3>2. \A t \in Tables : Loads(view[t], view'[t])
      BY <3>1, RefetchKeeps DEF LInv, IInv
    <3> QED BY <3>1, <3>2, MovesEnd, SlotMoves, LoadedStill
  <2>4. CASE Serve(r) /\ ~Succeeded(r)
    BY <2>4, ServesLoad, MovesOnly
  <2> QED BY <1>5, <2>1, <2>2, <2>3, <2>4
<1>6. ASSUME NEW o \in Offers, MarkFails(o) PROVE LoadPart'
  BY <1>6, MarkFailsLoad
<1>7. ASSUME NEW u \in Tables, Table(u) \/ ListFails(u) \/ Open(u)
      PROVE  LoadPart'
  <2>1. \A t \in Tables : Loads(view[t], view'[t])
    BY <1>7, TablesKeep DEF LInv, IInv
  <2>2. req' = req
    BY <1>7, Zenon DEF Table, ReadList, ShowList, ListFails, Open
  <2> QED BY <1>3, <2>1, <2>2, LoadedStill
<1> QED BY <1>4, <1>5, <1>6, <1>7, Zenon DEF Next

-----------------------------------------------------------------------------
LEMMA Ghostly ==
  ASSUME NEW g \in Ghost
  PROVE  g.told \subseteq Items /\ g.dropped \subseteq Items
BY SMT DEF Ghost

LEMMA ShowsStill ==
  ASSUME DInv, NEW S, NEW M, NEW t, NEW os2, NEW ks2, NEW g2, Lasts(offers, keys, os2, ks2),
         \A i \in g2.dropped : TableOf(i) = t => i \in ghost.dropped,
         \A i \in g2.told : TableOf(i) = t =>
             i \in ghost.told \/ (i \in Offers /\ os2[i].by # "desk"),
         ShowsOwn(S, M, t, offers, keys, ghost)
  PROVE  ShowsOwn(S, M, t, os2, ks2, g2)
<1>1. \A i \in g2.dropped : TableOf(i) = t => i \notin S
  BY DEF ShowsOwn
<1>2. ASSUME NEW i \in g2.told \ M, TableOf(i) = t, IsLive(i, os2, ks2), Own(i, os2)
      PROVE  i \in S
  <2>1. i \in ghost.told \ M
    BY <1>2, Assumed DEF Own
  <2>2. i \in Items
    BY <2>1, Ghostly DEF DInv, LInv, IInv, TypeOK
  <2>3. CASE i \in Offers
    <3>1. Made(i, offers)
      BY <2>1, <2>3 DEF DInv, LInv, IInv, GhostOK
    <3>2. IsLive(i, offers, keys) /\ Own(i, offers)
      BY <1>2, <2>3, <3>1 DEF Lasts, Own
    <3> QED BY <1>2, <2>1, <3>2 DEF ShowsOwn
  <2>4. CASE i \notin Offers
    <3>1. i \in Keys /\ keys[i] # "unborn"
      BY <2>1, <2>2, <2>4 DEF DInv, DeskPart, DeskOK, Items
    <3>2. IsLive(i, offers, keys) /\ Own(i, offers)
      BY <1>2, <3>1 DEF Lasts, Own
    <3> QED BY <1>2, <2>1, <3>2 DEF ShowsOwn
  <2> QED BY <2>3, <2>4
<1> QED BY <1>1, <1>2 DEF ShowsOwn

LEMMA SlotLasts ==
  ASSUME DInv, NEW s \in Slots, NEW os2, NEW ks2, Lasts(offers, keys, os2, ks2)
  PROVE  DeskSlotOK(req[s], os2, ks2)
<1>1. SlotOK(req[s], offers, rows, claims) /\ DeskSlotOK(req[s], offers, keys)
  BY DEF DInv, LInv, IInv, SlotsOK, DeskPart, DeskSlotsOK
<1>2. req[s].op = "delete" => req[s].i \in Items
  BY <1>1 DEF SlotOK
<1>3. req[s].op = "makeKey" /\ req[s].at = "ok" => req[s].i \in Keys
  BY <1>1 DEF SlotOK
<1> QED BY <1>1, <1>2, <1>3 DEF DeskSlotOK, Lasts

\* A step that leaves the tables of the desk as they are.
LEMMA Undisturbed ==
  ASSUME DInv, Lasts(offers, keys, offers', keys'), view' = view,
         \A o \in claims' : offers'[o].by = "interop",
         ghost'.dropped = ghost.dropped,
         \A i \in ghost'.told : i \in ghost.told \/ (i \in Offers /\ offers'[i].by # "desk"),
         \A s \in Slots : req'[s] = req[s] \/ DeskSlotOK(req'[s], offers', keys')
  PROVE  DeskPart'
<1>1. ghost.told \subseteq Items /\ ghost.dropped \subseteq Items
  BY Ghostly DEF DInv, LInv, IInv, TypeOK
<1>2. DeskOK(offers', keys', claims', ghost')
  <2>1. \A i \in ghost'.dropped : IsGone(i, offers', keys')
    BY <1>1 DEF DInv, DeskPart, DeskOK, Lasts
  <2>2. \A k \in ghost'.told : k \in Keys => keys'[k] # "unborn"
    BY Assumed DEF DInv, DeskPart, DeskOK, Lasts
  <2> QED BY <2>1, <2>2 DEF DeskOK
<1>3. \A s \in Slots : DeskSlotOK(req'[s], offers', keys')
  BY SlotLasts
<1>4. ASSUME NEW t \in Tables PROVE ViewOK(view[t], t, offers', keys', ghost')
  <2>1. ViewOK(view[t], t, offers, keys, ghost)
    BY DEF DInv, DeskPart, ViewsOK
  <2>2. ASSUME NEW S, NEW M, ShowsOwn(S, M, t, offers, keys, ghost)
        PROVE  ShowsOwn(S, M, t, offers', keys', ghost')
    BY <2>2, ShowsStill
  <2> QED BY <2>1, <2>2 DEF ViewOK
<1> QED BY <1>2, <1>3, <1>4 DEF DeskPart, DeskSlotsOK, ViewsOK

LEMMA LastsSame == ASSUME NEW os, NEW ks PROVE Lasts(os, ks, os, ks)
BY DEF Lasts

\* One request moves, offers and keys stay.
LEMMA OneMoves ==
  ASSUME DInv, NEW r \in Slots, NEW f, Put(r, f), f.at # "ok" \/ f.op = "make",
         offers' = offers, keys' = keys, view' = view,
         \A o \in claims' : o \in claims \/ offers[o].by = "interop",
         ghost'.dropped = ghost.dropped,
         \A i \in ghost'.told : i \in ghost.told \/ (i \in Offers /\ offers[i].by # "desk")
  PROVE  DeskPart'
<1>1. Lasts(offers, keys, offers', keys')
  BY LastsSame
<1>2. \A s \in Slots : req'[s] = IF s = r THEN f ELSE req[s]
  BY DEF Put, DInv, LInv, IInv, TypeOK
<1>3. DeskSlotOK(f, offers', keys')
  BY SMT DEF DeskSlotOK
<1>4. \A s \in Slots : req'[s] = req[s] \/ DeskSlotOK(req'[s], offers', keys')
  BY <1>2, <1>3
<1>5. \A o \in claims' : offers'[o].by = "interop"
  BY DEF DInv, DeskPart, DeskOK
<1> QED BY <1>1, <1>4, <1>5, Undisturbed

-----------------------------------------------------------------------------
LEMMA StartsFor ==
  ASSUME DInv, NEW r \in Slots, NEW q, Start(r, q), q.at # "ok"
  PROVE  DeskPart'
<1>1. Put(r, q) /\ offers' = offers /\ keys' = keys /\ claims' = claims /\ view' = view
      /\ ghost' = ghost
  BY DEF Start, OnlyAsked
<1> QED BY <1>1, OneMoves

LEMMA AsksDesk ==
  ASSUME DInv, NEW r \in Slots, Ask(r)
  PROVE  DeskPart'
<1>1. \A by, g : Making(by, g).at = "compute"
  BY Zenon DEF Making, Idle
<1>2. ASSUME NEW by, NEW g, Start(r, Making(by, g)) PROVE DeskPart'
  <2> DEFINE q == Making(by, g)
  <2>1. q.at # "ok"
    BY <1>1, SMT
  <2>2. Start(r, q)
    BY <1>2
  <2> HIDE DEF q
  <2> QED BY <2>1, <2>2, StartsFor
<1>7. AskInterop(r) => DeskPart'
  <2> DEFINE q == [Making("interop", Batch[1]) EXCEPT !.n = 1]
  <2>1. q.at = "compute"
    BY Zenon DEF Making, Idle
  <2>2. AskInterop(r) => Start(r, q)
    BY Zenon DEF AskInterop
  <2> HIDE DEF q
  <2> QED BY <2>1, <2>2, StartsFor
<1>8. AskAtDesk(r) \/ AskScope(r) \/ (\E k \in Keys, g \in Grants : AskWithKey(r, k, g))
      => DeskPart'
  BY <1>2, Zenon DEF AskAtDesk, AskScope, AskWithKey
<1>3. AskKey(r) => DeskPart'
  <2>1. [Idle EXCEPT !.op = "makeKey", !.at = "work", !.by = "desk"].at # "ok"
    BY SMT DEF Idle
  <2> QED BY <2>1, StartsFor, Zenon DEF AskKey
<1>4. ASSUME NEW i, NEW by, AskDelete(r, i, by) PROVE DeskPart'
  <2>1. [Idle EXCEPT !.op = "delete", !.at = "work", !.by = by, !.i = i].at # "ok"
    BY SMT DEF Idle
  <2> QED BY <1>4, <2>1, StartsFor, Zenon DEF AskDelete
<1>5. ASSUME NEW o, Fetch(r, o) PROVE DeskPart'
  <2>1. [Idle EXCEPT !.op = "fetch", !.at = "work", !.i = o].at # "ok"
    BY SMT DEF Idle
  <2>2. Put(r, [Idle EXCEPT !.op = "fetch", !.at = "work", !.i = o]) /\ OnlyAsked
    BY <1>5, Zenon DEF Fetch
  <2>3. offers' = offers /\ keys' = keys /\ claims' = claims /\ view' = view /\ ghost' = ghost
    BY <2>2 DEF OnlyAsked
  <2> QED BY <2>1, <2>2, <2>3, OneMoves
<1>6. ASSUME NEW o, Authorize(r, o) PROVE DeskPart'
  <2>1. [Idle EXCEPT !.op = "authorize", !.at = "state", !.i = o].at # "ok"
    BY SMT DEF Idle
  <2>2. Put(r, [Idle EXCEPT !.op = "authorize", !.at = "state", !.i = o]) /\ OnlyAsked
    BY <1>6, Zenon DEF Authorize
  <2>3. offers' = offers /\ keys' = keys /\ claims' = claims /\ view' = view /\ ghost' = ghost
    BY <2>2 DEF OnlyAsked
  <2> QED BY <2>1, <2>2, <2>3, OneMoves
<1> QED BY <1>3, <1>4, <1>5, <1>6, <1>7, <1>8, Zenon DEF Ask

\* The claims made by a batch, and their offers, are the interoperability desk's.
LEMMA NextMoves ==
  ASSUME DInv, NEW r \in Slots, NEW got, NextOfBatch(r, got)
  PROVE  /\ \E f : Put(r, f) /\ f.at # "ok"
         /\ ghost'.dropped = ghost.dropped /\ ghost'.told \subseteq ghost.told \cup got
<1>1. ghost \in Ghost
  BY DEF DInv, LInv, IInv, TypeOK
<1>2. CASE req[r].n < Len(Batch)
  <2> DEFINE m == Making("interop", Batch[req[r].n + 1])
             f == [m EXCEPT !.n = req[r].n + 1, !.got = got]
  <2>1. Put(r, f) /\ ghost' = ghost
    BY <1>2 DEF NextOfBatch
  <2>2. f.at = "compute"
    BY Zenon DEF Making, Idle
  <2> HIDE DEF f
  <2> QED BY <2>1, <2>2
<1>3. CASE ~(req[r].n < Len(Batch))
  <2>1. Put(r, Idle) /\ ghost' = [ghost EXCEPT !.told = @ \cup got]
    BY <1>3 DEF NextOfBatch, End
  <2>2. Idle.at # "ok"
    BY DEF Idle
  <2>3. ghost'.dropped = ghost.dropped /\ ghost'.told = ghost.told \cup got
    BY <1>1, <2>1, SMT DEF Ghost
  <2> QED BY <2>1, <2>2, <2>3
<1> QED BY <1>2, <1>3

LEMMA AnswerMoves ==
  ASSUME DInv, NEW r \in Slots, NEW at, Answer(r, at)
  PROVE  \E f : Put(r, f) /\ ((f.at = at /\ f.op = req[r].op /\ f.i = req[r].i) \/ f.at = "idle")
<1>1. req[r] \in Req
  BY DEF DInv, LInv, IInv, TypeOK
<1>2. CASE Put(r, Idle)
  BY <1>2 DEF Idle
<1>3. CASE Put(r, [req[r] EXCEPT !.at = at])
  <2> DEFINE f == [req[r] EXCEPT !.at = at]
  <2>1. f.at = at /\ f.op = req[r].op /\ f.i = req[r].i
    BY <1>1, SMT DEF Req
  <2> QED BY <1>3, <2>1
<1> QED BY <1>2, <1>3 DEF Answer, Go, End

LEMMA BrokenMoves ==
  ASSUME DInv, NEW r \in Slots, Broken(r)
  PROVE  /\ \E f : Put(r, f) /\ f.at # "ok"
         /\ ghost'.dropped = ghost.dropped
         /\ \A i \in ghost'.told : i \in ghost.told \/ (i \in Offers /\ offers[i].by # "desk")
<1>1. CASE NextOfBatch(r, req[r].got)
  <2>1. \A o \in req[r].got : o \in claims /\ Made(o, offers)
    BY GotIsMade DEF DInv, LInv
  <2>2. \A o \in req[r].got : o \in Offers /\ offers[o].by # "desk"
    BY <2>1 DEF Made, DInv, DeskPart, DeskOK
  <2> QED BY <1>1, <2>2, NextMoves
<1>2. CASE Answer(r, "failed") /\ UNCHANGED ghost
  <2>1. \E f : Put(r, f) /\ f.at # "ok"
    BY <1>2, AnswerMoves
  <2> QED BY <1>2, <2>1
<1> QED BY <1>1, <1>2 DEF Broken

LEMMA CallFailsDesk ==
  ASSUME DInv, NEW r \in Slots, CallFails(r)
  PROVE  DeskPart'
<1>1. Broken(r) /\ offers' = offers /\ keys' = keys /\ claims' = claims /\ view' = view
  BY DEF CallFails
<1> QED BY <1>1, BrokenMoves, OneMoves

LEMMA GoMoves ==
  ASSUME DInv, NEW r \in Slots, NEW at, Go(r, at)
  PROVE  \E f : Put(r, f) /\ f.at = at /\ f.op = req[r].op /\ f.i = req[r].i
<1> DEFINE f == [req[r] EXCEPT !.at = at]
<1>1. req[r] \in Req
  BY DEF DInv, LInv, IInv, TypeOK
<1>2. f.at = at /\ f.op = req[r].op /\ f.i = req[r].i
  BY <1>1, SMT DEF Req
<1> QED BY <1>2 DEF Go

LEMMA EndMoves ==
  ASSUME NEW r \in Slots, End(r)
  PROVE  \E f : Put(r, f) /\ f.at # "ok"
BY DEF End, Idle

\* Steps of a request that makes an offer, which it does not store yet.
LEMMA MakingDesk ==
  ASSUME DInv, NEW r \in Slots, Compute(r) \/ SaveRow(r) \/ Link(r) \/ SaveClaim(r)
  PROVE  DeskPart'
<1>1. keys' = keys /\ view' = view /\ offers' = offers /\ req[r].op = "make"
  BY DEF Compute, SaveRow, Link, SaveClaim, Claimable, Step, At
<1>2. req[r] \in Req /\ SlotOK(req[r], offers, rows, claims) /\ ghost \in Ghost
  BY DEF DInv, LInv, IInv, TypeOK, SlotsOK
<1>3. CASE Compute(r)
  <2> DEFINE p == req[r]
  <2>1. PICK late \in {0, 1} :
          Put(r, [p EXCEPT !.at = "data", !.expires = clock + Life, !.exp = Signed(late)])
    BY <1>3 DEF Compute
  <2> DEFINE f == [p EXCEPT !.at = "data", !.expires = clock + Life, !.exp = Signed(late)]
  <2> HIDE DEF p
  <2>2. f.at = "data"
    BY <1>2, SMT DEF Req, p
  <2>3. Put(r, f) /\ claims' = claims /\ ghost' = ghost
    BY <1>3, <2>1 DEF Compute
  <2> HIDE DEF f
  <2> QED BY <1>1, <2>2, <2>3, OneMoves
<1>4. CASE SaveRow(r)
  <2>1. claims' = claims /\ ((Go(r, "link") /\ ghost' = ghost) \/ Broken(r))
    BY <1>4 DEF SaveRow
  <2> QED BY <1>1, <2>1, GoMoves, BrokenMoves, OneMoves
<1>5. CASE Link(r)
  <2>1. req[r].at = "link" /\ claims' = claims
    BY <1>5 DEF Link, Step, At
  <2>2. Made(req[r].i, offers) /\ offers[req[r].i].by = req[r].by
    BY <1>2, <2>1 DEF SlotOK, Filed, Answering
  <2>3. CASE req[r].by = "interop" \/ req[r].by = "desk"
    <3>1. (Go(r, "claim") \/ Go(r, "ok")) /\ ghost' = ghost
      BY <1>5, <2>3 DEF Link
    <3> QED BY <1>1, <2>1, <3>1, GoMoves, OneMoves
  <2>4. CASE req[r].by # "interop" /\ req[r].by # "desk"
    <3>1. End(r) /\ ghost' = [ghost EXCEPT !.told = @ \cup {req[r].i}]
      BY <1>5, <2>4 DEF Link
    <3>2. ghost'.dropped = ghost.dropped /\ ghost'.told = ghost.told \cup {req[r].i}
      BY <1>2, <3>1, SMT DEF Ghost
    <3>3. \A i \in ghost'.told : i \in ghost.told \/ (i \in Offers /\ offers[i].by # "desk")
      BY <2>2, <2>4, <3>2 DEF Made
    <3> QED BY <1>1, <2>1, <3>1, <3>2, <3>3, EndMoves, OneMoves
  <2> QED BY <2>3, <2>4
<1>6. CASE SaveClaim(r)
  <2>1. req[r].at = "claim"
    BY <1>6 DEF SaveClaim, Claimable, Step, At
  <2>2. Made(req[r].i, offers) /\ offers[req[r].i].by = "interop"
    BY <1>2, <2>1 DEF SlotOK, Filed, Answering
  <2>3. CASE Stored(req[r].i)
    <3>1. claims' = claims \cup {req[r].i} /\ NextOfBatch(r, req[r].got \cup {req[r].i})
      BY <1>6, <2>3 DEF SaveClaim, Claimable
    <3>2. \A o \in req[r].got : o \in claims /\ Made(o, offers)
      BY GotIsMade DEF DInv, LInv
    <3>3. \A o \in req[r].got \cup {req[r].i} : o \in Offers /\ offers[o].by # "desk"
      BY <2>2, <3>2 DEF Made, DInv, DeskPart, DeskOK
    <3>4. \A o \in claims' : o \in claims \/ offers[o].by = "interop"
      BY <2>2, <3>1
    <3>5. /\ \E f : Put(r, f) /\ f.at # "ok"
          /\ ghost'.dropped = ghost.dropped
          /\ \A i \in ghost'.told : i \in ghost.told \/ (i \in Offers /\ offers[i].by # "desk")
      BY <3>1, <3>3, NextMoves
    <3> QED BY <1>1, <3>4, <3>5, OneMoves
  <2>4. CASE ~Stored(req[r].i)
    <3>1. claims' = claims /\ Broken(r)
      BY <1>6, <2>4 DEF SaveClaim, Claimable
    <3> QED BY <1>1, <3>1, BrokenMoves, OneMoves
  <2> QED BY <2>3, <2>4
<1> QED BY <1>3, <1>4, <1>5, <1>6

\* One offer moves that nobody was told of yet.
LEMMA UnmadeLasts ==
  ASSUME DInv, NEW o \in Offers, offers[o].life \in {"unborn", "data"},
         \A p \in Offers : p # o => offers'[p] = offers[p], keys' = keys
  PROVE  Lasts(offers, keys, offers', keys')
<1>1. ~Made(o, offers)
  BY NotMadeYet DEF DInv, LInv
<1>2. \A i \in Items : IsGone(i, offers, keys) => IsGone(i, offers', keys')
  <2>1. offers[o].life # "gone"
    OBVIOUS
  <2> QED BY <2>1 DEF IsGone
<1>3. \A p \in Offers : Made(p, offers) =>
         offers'[p].by = offers[p].by /\ (IsLive(p, offers', keys') => IsLive(p, offers, keys))
  BY <1>1 DEF IsLive
<1>4. \A k \in Keys : keys[k] # "unborn" =>
         keys'[k] # "unborn" /\ (IsLive(k, offers', keys') => IsLive(k, offers, keys))
  BY Assumed DEF IsLive
<1> QED BY <1>2, <1>3, <1>4 DEF Lasts

\* A request stores a part of its offer.
LEMMA UnmadeMoves ==
  ASSUME DInv, NEW r \in Slots, NEW f, Put(r, f), f.at # "ok",
         NEW o \in Offers, offers[o].life \in {"unborn", "data"},
         \A p \in Offers : p # o => offers'[p] = offers[p],
         UNCHANGED <<claims, keys, view, ghost>>
  PROVE  DeskPart'
<1>1. Lasts(offers, keys, offers', keys')
  BY UnmadeLasts
<1>2. o \notin claims
  BY NotMadeYet DEF DInv, LInv
<1>3. \A p \in claims' : offers'[p].by = "interop"
  <2>1. claims \subseteq Offers
    BY DEF DInv, LInv, IInv, TypeOK
  <2> QED BY <1>2, <2>1 DEF DInv, DeskPart, DeskOK
<1>4. \A s \in Slots : req'[s] = req[s] \/ DeskSlotOK(req'[s], offers', keys')
  <2>1. \A s \in Slots : req'[s] = IF s = r THEN f ELSE req[s]
    BY DEF Put, DInv, LInv, IInv, TypeOK
  <2>2. DeskSlotOK(f, offers', keys')
    BY SMT DEF DeskSlotOK
  <2> QED BY <2>1, <2>2
<1> QED BY <1>1, <1>3, <1>4, Undisturbed

LEMMA SaveDataDesk ==
  ASSUME DInv, NEW r \in Slots, SaveData(r)
  PROVE  DeskPart'
<1> DEFINE q == req[r]
<1>1. q \in Req /\ offers \in [Offers -> Offer]
  BY DEF DInv, LInv, IInv, TypeOK
<1>2. PICK o \in Offers :
         /\ offers[o].life = "unborn"
         /\ offers' = [offers EXCEPT ![o].life = "data"]
         /\ Put(r, [q EXCEPT !.at = "offer", !.i = o])
  BY Zenon DEF SaveData, First, Unmade
<1> DEFINE f == [q EXCEPT !.at = "offer", !.i = o]
<1>3. UNCHANGED <<claims, keys, view, ghost>>
  BY Zenon DEF SaveData, Step
<1>4. \A p \in Offers : p # o => offers'[p] = offers[p]
  BY <1>1, <1>2
<1>5. Put(r, f)
  BY <1>2
<1> HIDE DEF q
<1>6. f.at = "offer"
  BY <1>1, Zenon DEF Req
<1> HIDE DEF f
<1>7. f.at # "ok" /\ offers[o].life \in {"unborn", "data"}
  BY <1>2, <1>6
<1> QED BY <1>3, <1>4, <1>5, <1>7, UnmadeMoves

LEMMA SaveOfferDesk ==
  ASSUME DInv, NEW r \in Slots, SaveOffer(r)
  PROVE  DeskPart'
<1> DEFINE q == req[r]
           o == q.i
<1>1. q \in Req /\ offers \in [Offers -> Offer] /\ SlotOK(q, offers, rows, claims)
      /\ q.at = "offer"
  BY DEF DInv, LInv, IInv, TypeOK, SlotsOK, SaveOffer, Step, At
<1>2. o \in Offers /\ offers[o].life = "data"
  BY <1>1, SMT DEF SlotOK
<1>3. \A p \in Offers : p # o => offers'[p] = offers[p]
  BY <1>1, <1>2, Zenon DEF SaveOffer
<1>4. UNCHANGED <<claims, keys, view, ghost>>
  BY Zenon DEF SaveOffer, Step
<1>5. Go(r, AfterOffer(q))
  BY Zenon DEF SaveOffer
<1>6. AfterOffer(q) # "ok"
  BY SMT DEF AfterOffer
<1>7. PICK f : Put(r, f) /\ f.at = AfterOffer(q)
  BY <1>5, GoMoves
<1>8. f.at # "ok" /\ offers[o].life \in {"unborn", "data"}
  BY <1>2, <1>6, <1>7
<1> HIDE DEF o
<1> QED BY <1>2, <1>3, <1>4, <1>7, <1>8, UnmadeMoves

\* Steps that touch neither what the desk made nor what it was told.
LEMMA EndsDesk ==
  ASSUME DInv, NEW r \in Slots, HandOut(r) \/ SaveState(r) \/ NotSucceeded(r)
  PROVE  DeskPart'
<1>1. offers' = offers /\ keys' = keys /\ view' = view /\ claims' = claims
  BY Zenon DEF HandOut, SaveState, NotSucceeded, OnlyRequests, OnlyConsole
<1>2. PICK f : Put(r, f) /\ f.at # "ok"
  BY EndMoves DEF HandOut, SaveState, NotSucceeded
<1>3. ghost'.dropped = ghost.dropped /\ ghost'.told = ghost.told
  <2>1. \/ ghost' = ghost
        \/ ghost' = [ghost EXCEPT !.handed = @ \cup {req[r].i}]
        \/ ghost' = [ghost EXCEPT !.joined = @ \cup {req[r].i}]
    BY Zenon DEF HandOut, SaveState, NotSucceeded
  <2>2. ghost \in Ghost
    BY DEF DInv, LInv, IInv, TypeOK
  <2> QED BY <2>1, <2>2, SMT DEF Ghost
<1> QED BY <1>1, <1>2, <1>3, OneMoves

\* An answer to a request that the desk may wait for.
LEMMA AnswerDesk ==
  ASSUME DInv, NEW r \in Slots, NEW at, Answer(r, at), req[r].op = "delete",
         at = "ok" => IsGone(req[r].i, offers', keys'),
         Lasts(offers, keys, offers', keys'), \A o \in claims : offers'[o].by = offers[o].by,
         UNCHANGED <<claims, view, ghost>>
  PROVE  DeskPart'
<1>1. PICK f : Put(r, f) /\ ((f.at = at /\ f.op = req[r].op /\ f.i = req[r].i) \/ f.at = "idle")
  BY AnswerMoves
<1>2. DeskSlotOK(f, offers', keys')
  BY <1>1, SMT DEF DeskSlotOK
<1>3. \A s \in Slots : req'[s] = req[s] \/ DeskSlotOK(req'[s], offers', keys')
  <2>1. \A s \in Slots : req'[s] = IF s = r THEN f ELSE req[s]
    BY <1>1 DEF Put, DInv, LInv, IInv, TypeOK
  <2> QED BY <1>2, <2>1
<1>4. \A o \in claims' : offers'[o].by = "interop"
  BY DEF DInv, DeskPart, DeskOK
<1> QED BY <1>3, <1>4, Undisturbed

LEMMA DeleteOfferDesk ==
  ASSUME DInv, NEW r \in Slots, DeleteOffer(r)
  PROVE  DeskPart'
<1> DEFINE o == req[r].i
<1>1. o \in Offers /\ req[r].op = "delete" /\ UNCHANGED <<claims, view, ghost, keys>>
  BY Zenon DEF DeleteOffer, At, OnlyDesk
<1>2. CASE Stored(o) /\ o \notin claims
  <2>1. offers' = [offers EXCEPT ![o].life = "gone"] /\ Answer(r, "ok")
    BY <1>2, Zenon DEF DeleteOffer
  <2> HIDE DEF o
  <2>2. offers'[o].life = "gone" /\ offers'[o].by = offers[o].by
        /\ \A p \in Offers : p # o => offers'[p] = offers[p]
    <3>1. offers \in [Offers -> Offer]
      BY DEF DInv, LInv, IInv, TypeOK
    <3> QED BY <1>1, <2>1, <3>1, SMT DEF Offer
  <2>3. IsGone(o, offers', keys')
    BY <1>1, <2>2 DEF IsGone
  <2>4. Lasts(offers, keys, offers', keys')
    <3>1. \A i \in Items : IsGone(i, offers, keys) => IsGone(i, offers', keys')
      BY <1>1, <2>2 DEF IsGone
    <3>2. \A p \in Offers : offers'[p].by = offers[p].by
                           /\ (IsLive(p, offers', keys') => IsLive(p, offers, keys))
      <4>1. offers'[o].life # "live"
        BY <2>2
      <4> QED BY <2>2, <4>1 DEF IsLive
    <3>3. \A k \in Keys : IsLive(k, offers', keys') => IsLive(k, offers, keys)
      BY <1>1, Assumed DEF IsLive
    <3> QED BY <1>1, <3>1, <3>2, <3>3 DEF Lasts
  <2>5. \A p \in claims : offers'[p].by = offers[p].by
    BY <2>2 DEF DInv, LInv, IInv, TypeOK
  <2>6. "ok" = "ok" => IsGone(req[r].i, offers', keys')
    BY <2>3 DEF o
  <2> QED BY <1>1, <2>1, <2>4, <2>5, <2>6, AnswerDesk
<1>3. CASE ~(Stored(o) /\ o \notin claims)
  <2>1. offers' = offers /\ Answer(r, "failed")
    BY <1>3, Zenon DEF DeleteOffer
  <2>2. Lasts(offers, keys, offers', keys')
    BY <1>1, <2>1, LastsSame
  <2>3. "failed" = "ok" => IsGone(req[r].i, offers', keys')
    OBVIOUS
  <2> QED BY <1>1, <2>1, <2>2, <2>3, AnswerDesk
<1> QED BY <1>2, <1>3

LEMMA DeleteKeyDesk ==
  ASSUME DInv, NEW r \in Slots, DeleteKey(r)
  PROVE  DeskPart'
<1> DEFINE k == req[r].i
<1>1. /\ k \in Keys /\ k \notin Offers /\ req[r].op = "delete" /\ Answer(r, "ok")
      /\ UNCHANGED <<claims, view, ghost, offers>> /\ keys' = [keys EXCEPT ![k] = "gone"]
      /\ keys \in [Keys -> Lives]
  BY Assumed, Zenon DEF DeleteKey, At, OnlyDesk, DInv, LInv, IInv, TypeOK
<1> HIDE DEF k
<1>2. keys'[k] = "gone" /\ \A j \in Keys : j # k => keys'[j] = keys[j]
  BY <1>1
<1>3. IsGone(k, offers', keys')
  BY <1>1, <1>2 DEF IsGone
<1>4. Lasts(offers, keys, offers', keys')
  <2>1. \A i \in Items : IsGone(i, offers, keys) => IsGone(i, offers', keys')
    BY <1>1, <1>2 DEF IsGone, Items
  <2>2. \A j \in Keys : keys[j] # "unborn" =>
           keys'[j] # "unborn" /\ (IsLive(j, offers', keys') => IsLive(j, offers, keys))
    <3>1. keys'[k] # "live" /\ keys'[k] # "unborn"
      BY <1>2
    <3> QED BY <1>1, <1>2, <3>1, Assumed DEF IsLive
  <2> QED BY <1>1, <2>1, <2>2 DEF Lasts, IsLive
<1>5. "ok" = "ok" => IsGone(req[r].i, offers', keys')
  BY <1>3 DEF k
<1>6. \A o \in claims : offers'[o].by = offers[o].by
  BY <1>1
<1> QED BY <1>1, <1>4, <1>5, <1>6, AnswerDesk

LEMMA CreateKeyDesk ==
  ASSUME DInv, NEW r \in Slots, CreateKey(r)
  PROVE  DeskPart'
<1> DEFINE q == req[r]
<1>1. /\ q \in Req /\ q.op = "makeKey" /\ keys \in [Keys -> Lives]
      /\ UNCHANGED <<offers, claims, view, ghost>>
  BY Zenon DEF DInv, LInv, IInv, TypeOK, CreateKey, At, OnlyDesk
<1>2. PICK k \in Keys : /\ keys[k] = "unborn" /\ keys' = [keys EXCEPT ![k] = "live"]
                        /\ Put(r, [q EXCEPT !.at = "ok", !.i = k])
  BY Zenon DEF CreateKey, First, UnmadeKeys
<1> DEFINE f == [q EXCEPT !.at = "ok", !.i = k]
<1>3. Put(r, f)
  BY <1>2
<1> HIDE DEF q
<1>4. f.at = "ok" /\ f.i = k /\ f.op = "makeKey"
  BY <1>1, Zenon DEF Req
<1> HIDE DEF f
<1>5. keys'[k] = "live" /\ \A j \in Keys : j # k => keys'[j] = keys[j]
  BY <1>1, <1>2
<1>6. DeskSlotOK(f, offers', keys')
  BY <1>4, <1>5, SMT DEF DeskSlotOK
<1>7. Lasts(offers, keys, offers', keys')
  <2>1. \A i \in Items : IsGone(i, offers, keys) => IsGone(i, offers', keys')
    BY <1>1, <1>2, <1>5 DEF IsGone, Items
  <2>2. \A j \in Keys : keys[j] # "unborn" =>
           keys'[j] # "unborn" /\ (IsLive(j, offers', keys') => IsLive(j, offers, keys))
    BY <1>1, <1>2, <1>5 DEF IsLive
  <2> QED BY <1>1, <2>1, <2>2 DEF Lasts, IsLive
<1>8. \A s \in Slots : req'[s] = req[s] \/ DeskSlotOK(req'[s], offers', keys')
  <2>1. \A s \in Slots : req'[s] = IF s = r THEN f ELSE req[s]
    BY <1>3 DEF Put, DInv, LInv, IInv, TypeOK
  <2> QED BY <1>6, <2>1
<1>9. \A o \in claims' : offers'[o].by = "interop"
  BY <1>1 DEF DInv, DeskPart, DeskOK
<1> QED BY <1>1, <1>7, <1>8, <1>9, Undisturbed

\* The desk is told, and sends the next fetch of the table.
LEMMA SucceededDesk ==
  ASSUME DInv, NEW r \in Slots, Succeeded(r)
  PROVE  DeskPart'
<1> DEFINE i == req[r].i
           t == TableOf(i)
<1>1. /\ req[r].at = "ok" /\ Put(r, Idle) /\ Refetch(i)
      /\ UNCHANGED <<offers, claims, keys>>
      /\ ghost' = IF req[r].op = "delete" THEN [ghost EXCEPT !.dropped = @ \cup {i}]
                                          ELSE [ghost EXCEPT !.told = @ \cup {i}]
  BY Zenon DEF Succeeded, End, OnlyConsole
<1>2. /\ SlotOK(req[r], offers, rows, claims) /\ DeskSlotOK(req[r], offers, keys)
      /\ ghost \in Ghost /\ view \in [Tables -> View]
  BY DEF DInv, LInv, IInv, TypeOK, SlotsOK, DeskPart, DeskSlotsOK
<1>3. /\ req[r].op = "delete" => IsGone(i, offers, keys)
      /\ req[r].op # "delete" => \/ i \in Offers
                                 \/ i \in Keys /\ keys[i] # "unborn"
  BY <1>1, <1>2 DEF SlotOK, DeskSlotOK, Filed, Answering, Made
<1>4. /\ ghost'.dropped = ghost.dropped \/ (ghost'.dropped = ghost.dropped \cup {i}
                                            /\ req[r].op = "delete")
      /\ ghost'.told = ghost.told \/ (ghost'.told = ghost.told \cup {i} /\ req[r].op # "delete")
  <2>1. CASE req[r].op = "delete"
    BY <1>1, <1>2, <2>1, SMT DEF Ghost
  <2>2. CASE req[r].op # "delete"
    BY <1>1, <1>2, <2>2, SMT DEF Ghost
  <2> QED BY <2>1, <2>2
<1>5. DeskSlotsOK'
  <2>1. \A s \in Slots : req'[s] = IF s = r THEN Idle ELSE req[s]
    BY <1>1 DEF Put, DInv, LInv, IInv, TypeOK
  <2>2. DeskSlotOK(Idle, offers, keys)
    BY SMT DEF DeskSlotOK, Idle
  <2>3. \A s \in Slots : DeskSlotOK(req'[s], offers, keys)
    BY <2>1, <2>2 DEF DInv, DeskPart, DeskSlotsOK
  <2> QED BY <1>1, <2>3 DEF DeskSlotsOK
<1> HIDE DEF i
<1>6. DeskOK(offers, keys, claims, ghost')
  <2>1. DeskOK(offers, keys, claims, ghost)
    BY DEF DInv, DeskPart
  <2>2. \A j \in ghost'.dropped : IsGone(j, offers, keys)
    BY <1>3, <1>4, <2>1 DEF DeskOK
  <2>3. \A k \in ghost'.told : k \in Keys => keys[k] # "unborn"
    BY <1>3, <1>4, <2>1, Assumed DEF DeskOK
  <2> QED BY <2>1, <2>2, <2>3 DEF DeskOK
<1>7. t \in Tables
  BY SMT DEF TableOf, Tables
<1>8. ASSUME NEW u \in Tables PROVE ViewOK(view'[u], u, offers, keys, ghost')
  <2>1. CASE u = t
    <3> DEFINE v == view[t]
               M == v.shared \cup {i}
               w == [v EXCEPT !.shared = M]
    <3>1. \/ view'[t] = Refetched(v)
          \/ ~v.loaded /\ v.at # "idle" /\ view'[t] = w
      BY <1>1, <1>2, <1>7, Zenon DEF Refetch
    <3>2. v \in View /\ ViewOK(v, t, offers, keys, ghost)
      BY <1>2, <1>7 DEF DInv, DeskPart, ViewsOK
    <3>3. req[r].op = "delete" => v.loaded
      BY <1>1 DEF DInv, LInv, LoadPart, LoadedOK, i
    <3> HIDE DEF t, v
    <3>4. Refetched(v).at = "wire"
      BY <3>2, SMT DEF View, Refetched
    <3> HIDE DEF M
    <3>5. w.at = v.at /\ w.seen = v.seen /\ w.shared = M
      BY <3>2, SMT DEF View
    <3> HIDE DEF w
    <3>6. CASE view'[t] = Refetched(v)
      BY <2>1, <3>4, <3>6, SMT DEF ViewOK
    <3>7. CASE ~v.loaded /\ v.at # "idle" /\ view'[t] = w
      <4>1. ghost'.dropped = ghost.dropped /\ ghost'.told \ M \subseteq ghost.told \ v.shared
        BY <1>4, <3>3, <3>7 DEF M
      <4>2. ShowsOwn(v.seen, v.shared, t, offers, keys, ghost)
              => ShowsOwn(v.seen, M, t, offers, keys, ghost')
        BY <4>1, Zenon DEF ShowsOwn
      <4>3. ViewOK(w, t, offers, keys, ghost')
        BY <3>2, <3>5, <3>7, <4>2, SMT DEF ViewOK
      <4> QED BY <2>1, <3>7, <4>3
    <3> QED BY <3>1, <3>6, <3>7
  <2>2. CASE u # t
    <3>1. view'[u] = view[u]
      BY <1>1, <1>2, <1>7, <2>2, Zenon DEF Refetch
    <3>2. ViewOK(view[u], u, offers, keys, ghost)
      BY DEF DInv, DeskPart, ViewsOK
    <3>3. \A j \in ghost'.dropped : TableOf(j) = u => j \in ghost.dropped
      BY <1>4, <2>2
    <3>4. \A j \in ghost'.told : TableOf(j) = u =>
             j \in ghost.told \/ (j \in Offers /\ offers[j].by # "desk")
      BY <1>4, <2>2
    <3>5. Lasts(offers, keys, offers, keys)
      BY LastsSame
    <3>6. ASSUME NEW S, NEW M, ShowsOwn(S, M, u, offers, keys, ghost)
          PROVE  ShowsOwn(S, M, u, offers, keys, ghost')
      BY <3>3, <3>4, <3>5, <3>6, ShowsStill
    <3> QED BY <3>1, <3>2, <3>6 DEF ViewOK
  <2> QED BY <2>1, <2>2
<1>9. ViewsOK' /\ DeskOK(offers', keys', claims', ghost')
  BY <1>1, <1>6, <1>8 DEF ViewsOK
<1> QED BY <1>5, <1>9 DEF DeskPart

LEMMA MarkUsedDesk ==
  ASSUME DInv, NEW o \in Offers, MarkUsed(o)
  PROVE  DeskPart'
<1>1. /\ UNCHANGED <<claims, keys, req, view, ghost>>
      /\ offers' = IF Stored(o) THEN [offers EXCEPT ![o].status = "USED"] ELSE offers
      /\ offers \in [Offers -> Offer]
  BY Zenon DEF MarkUsed, DInv, LInv, IInv, TypeOK
<1>2. \A p \in Offers : offers'[p].life = offers[p].life /\ offers'[p].by = offers[p].by
  BY <1>1, SMT DEF Offer
<1>3. Lasts(offers, keys, offers', keys')
  BY <1>1, <1>2, Assumed DEF Lasts, IsGone, IsLive
<1>4. \A p \in claims' : offers'[p].by = "interop"
  BY <1>1, <1>2 DEF DInv, LInv, IInv, TypeOK, DeskPart, DeskOK
<1> QED BY <1>1, <1>3, <1>4, Undisturbed

LEMMA MarkFailsDesk ==
  ASSUME DInv, NEW o \in Offers, MarkFails(o)
  PROVE  DeskPart'
<1>1. /\ UNCHANGED <<offers, claims, keys>>
      /\ ghost' = [ghost EXCEPT !.lost = @ \cup marks]
      /\ req' = [r \in Slots |-> IF req[r].at \in {"ok", "failed"} THEN req[r]
                                 ELSE IF req[r].by = "desk" THEN [req[r] EXCEPT !.at = "failed"]
                                 ELSE Idle]
      /\ view' = [t \in Tables |-> IF view[t].at = "wire"
                                   THEN [view[t] EXCEPT !.at = "idle", !.failed = TRUE]
                                   ELSE view[t]]
  BY Zenon DEF MarkFails
<1>2. ghost'.told = ghost.told /\ ghost'.dropped = ghost.dropped
  <2>1. ghost \in Ghost
    BY DEF DInv, LInv, IInv, TypeOK
  <2>2. ghost' = [ghost EXCEPT !.lost = @ \cup marks]
    BY <1>1
  <2> QED BY <2>1, <2>2, SMT DEF Ghost
<1>3. ASSUME NEW r \in Slots PROVE DeskSlotOK(req'[r], offers, keys)
  <2> DEFINE q == req[r]
  <2>1. q \in Req /\ DeskSlotOK(q, offers, keys)
    BY DEF DInv, LInv, IInv, TypeOK, DeskPart, DeskSlotsOK
  <2>2. req'[r] = q \/ req'[r] = [q EXCEPT !.at = "failed"] \/ req'[r] = Idle
    BY <1>1
  <2> HIDE DEF q
  <2>3. [q EXCEPT !.at = "failed"].at = "failed"
    BY <2>1, SMT DEF Req
  <2>4. Idle.at = "idle"
    BY DEF Idle
  <2> QED BY <2>1, <2>2, <2>3, <2>4 DEF DeskSlotOK
<1>4. ASSUME NEW t \in Tables PROVE ViewOK(view'[t], t, offers, keys, ghost')
  <2> DEFINE v == view[t]
             w == [v EXCEPT !.at = "idle", !.failed = TRUE]
  <2>1. v \in View /\ ViewOK(v, t, offers, keys, ghost)
    BY DEF DInv, LInv, IInv, TypeOK, DeskPart, ViewsOK
  <2>2. view'[t] = v \/ view'[t] = w
    BY <1>1
  <2> HIDE DEF v
  <2>3. w.at = "idle" /\ w.failed
    BY <2>1, Zenon DEF View
  <2>4. "idle" # "answer"
    OBVIOUS
  <2> HIDE DEF w
  <2> QED BY <1>2, <2>1, <2>2, <2>3, <2>4, Zenon DEF ViewOK, ShowsOwn
<1>5. DeskOK(offers, keys, claims, ghost')
  BY <1>2 DEF DInv, DeskPart, DeskOK
<1>6. DeskSlotsOK' /\ ViewsOK' /\ DeskOK(offers', keys', claims', ghost')
  BY <1>1, <1>3, <1>4, <1>5 DEF DeskSlotsOK, ViewsOK
<1> QED BY <1>6 DEF DeskPart

\* What the database lists is what there is.
LEMMA ListedShows ==
  ASSUME DInv, NEW t \in Tables
  PROVE  /\ \A i \in Items : TableOf(i) = t => (i \in Listed(t) <=> IsLive(i, offers, keys))
         /\ \A M : ShowsOwn(Listed(t), M, t, offers, keys, ghost)
<1>1. ASSUME NEW i \in Items, TableOf(i) = t
      PROVE  i \in Listed(t) <=> IsLive(i, offers, keys)
  <2>1. CASE i \in Offers
    BY <1>1, <2>1 DEF TableOf, Listed, IsLive, Stored
  <2>2. CASE i \notin Offers
    BY <1>1, <2>2 DEF TableOf, Listed, IsLive, Items
  <2> QED BY <2>1, <2>2
<1>2. ghost.told \subseteq Items /\ ghost.dropped \subseteq Items
  BY Ghostly DEF DInv, LInv, IInv, TypeOK
<1>3. \A i \in ghost.dropped : ~IsLive(i, offers, keys)
  BY DEF DInv, DeskPart, DeskOK, IsLive, IsGone
<1> QED BY <1>1, <1>2, <1>3 DEF ShowsOwn

LEMMA TablesDesk ==
  ASSUME DInv, NEW t \in Tables, Table(t) \/ ListFails(t)
  PROVE  DeskPart'
<1> DEFINE v == view[t]
           e == [v EXCEPT !.at = "answer"]
           a == [e EXCEPT !.seen = Listed(t)]
           b == [v EXCEPT !.at = "idle", !.shown = v.seen, !.seen = {}, !.loaded = TRUE]
           c == [v EXCEPT !.at = "idle", !.seen = {}, !.failed = TRUE]
<1>1. UNCHANGED <<offers, claims, keys, req, ghost>>
  BY Zenon DEF Table, ReadList, ShowList, ListFails, OnlyConsole
<1>2. v \in View /\ view \in [Tables -> View] /\ ViewOK(v, t, offers, keys, ghost)
  BY DEF DInv, LInv, IInv, TypeOK, DeskPart, ViewsOK
<1>3. /\ view'[t] = a \/ (view'[t] = b /\ v.at = "answer") \/ view'[t] = c
      /\ \A u \in Tables : u # t => view'[u] = view[u]
  <2>1. CASE ReadList(t)
    <3>1. view' = [view EXCEPT ![t].at = "answer", ![t].seen = Listed(t)]
      BY <2>1, Zenon DEF ReadList
    <3> QED BY <1>2, <3>1, SMT
  <2>2. CASE ShowList(t)
    BY <1>2, <2>2, Zenon DEF ShowList
  <2>3. CASE ListFails(t)
    BY <1>2, <2>3, Zenon DEF ListFails
  <2> QED BY <2>1, <2>2, <2>3 DEF Table
<1> HIDE DEF v
<1>4. e \in View
  BY <1>2, Zenon DEF View
<1>5. e.at = "answer"
  BY <1>2, Zenon DEF View
<1> HIDE DEF e
<1>6. a.at = "answer" /\ a.seen = Listed(t) /\ a.shared = e.shared
  BY <1>4, <1>5, Zenon DEF View
<1>7. b.at = "idle" /\ b.shown = v.seen /\ b.shared = v.shared
  BY <1>2, Zenon DEF View
<1>8. c.at = "idle" /\ c.failed
  BY <1>2, Zenon DEF View
<1> HIDE DEF a, b, c
<1>9. ASSUME NEW u \in Tables PROVE ViewOK(view'[u], u, offers, keys, ghost)
  <2>1. "idle" # "answer"
    OBVIOUS
  <2>2. CASE u = t
    <3>1. ViewOK(a, t, offers, keys, ghost)
      BY <1>6, <2>1, ListedShows, Zenon DEF ViewOK
    <3>2. v.at = "answer" => ViewOK(b, t, offers, keys, ghost)
      BY <1>2, <1>7, <2>1, Zenon DEF ViewOK
    <3>3. ViewOK(c, t, offers, keys, ghost)
      BY <1>8, <2>1, Zenon DEF ViewOK
    <3> QED BY <1>3, <2>2, <3>1, <3>2, <3>3
  <2>3. CASE u # t
    BY <1>3, <2>3 DEF DInv, DeskPart, ViewsOK
  <2> QED BY <2>2, <2>3
<1>10. DeskSlotsOK' /\ ViewsOK' /\ DeskOK(offers', keys', claims', ghost')
  BY <1>1, <1>9 DEF DInv, DeskPart, DeskSlotsOK, ViewsOK
<1> QED BY <1>10 DEF DeskPart

LEMMA OpensDesk ==
  ASSUME DInv, NEW t \in Tables, Open(t)
  PROVE  DeskPart'
<1> DEFINE v == view[t]
           w == [v EXCEPT !.at = "wire"]
<1>1. UNCHANGED <<offers, claims, keys, req, ghost>> /\ view' = [view EXCEPT ![t].at = "wire"]
  BY Zenon DEF Open, OnlyConsole
<1>2. v \in View /\ view \in [Tables -> View]
  BY DEF DInv, LInv, IInv, TypeOK
<1>3. view'[t] = w /\ \A u \in Tables : u # t => view'[u] = view[u]
  BY <1>1, <1>2, Zenon
<1> HIDE DEF v
<1>4. w.at = "wire"
  BY <1>2, Zenon DEF View
<1> HIDE DEF w
<1>5. ASSUME NEW u \in Tables PROVE ViewOK(view'[u], u, offers, keys, ghost)
  <2>1. ViewOK(view[u], u, offers, keys, ghost)
    BY DEF DInv, DeskPart, ViewsOK
  <2>2. ViewOK(w, t, offers, keys, ghost)
    BY <1>4, SMT DEF ViewOK
  <2> QED BY <1>3, <2>1, <2>2
<1>6. DeskSlotsOK' /\ ViewsOK' /\ DeskOK(offers', keys', claims', ghost')
  BY <1>1, <1>5 DEF DInv, DeskPart, DeskSlotsOK, ViewsOK
<1> QED BY <1>6 DEF DeskPart

-----------------------------------------------------------------------------
LEMMA DeskInit ==
  ASSUME Init
  PROVE  DInv
<1>1. LInv
  BY LoadInit
<1>2. PICK old \in SUBSET Old :
         /\ offers = [o \in Offers |-> IF o \in old THEN Given ELSE Unborn]
         /\ ghost = [told |-> old, joined |-> {}, handed |-> {}, dropped |-> {}, lost |-> {}]
  BY Zenon DEF Init
<1>3. claims = {} /\ req = [r \in Slots |-> Idle]
  BY Zenon DEF Init
<1>4. ghost.told = old /\ ghost.dropped = {} /\ old \subseteq Offers
  BY <1>2, OffersAssumption DEF OffersAssumption
<1>5. DeskSlotsOK
  BY <1>3, SMT DEF DeskSlotsOK, DeskSlotOK, Idle
<1>6. DeskOK(offers, keys, claims, ghost)
  BY <1>3, <1>4, Assumed DEF DeskOK
<1>7. ASSUME NEW t \in Tables PROVE ViewOK(view[t], t, offers, keys, ghost)
  <2> PICK b \in BOOLEAN : view = [u \in Tables |-> OpenAt(u, b)]
    BY InitViews
  <2>1. /\ view[t].at = "idle" => view[t].shown = Listed(t)
        /\ view[t].at \in {"idle", "closed"}
    BY SMT DEF OpenAt
  <2>2. \A i \in ghost.told : TableOf(i) = t /\ IsLive(i, offers, keys) => i \in Listed(t)
    BY <1>4 DEF TableOf, IsLive, Listed, Stored
  <2> QED BY <1>4, <2>1, <2>2 DEF ViewOK, ShowsOwn
<1> QED BY <1>1, <1>5, <1>6, <1>7 DEF DInv, DeskPart, ViewsOK

LEMMA DeskSteps ==
  ASSUME DInv, [Next]_vars
  PROVE  DInv'
<1>1. LInv'
  BY LoadSteps DEF DInv
<1> SUFFICES DeskPart'
  BY <1>1 DEF DInv
<1>2. CASE Tick
  <2>1. UNCHANGED <<offers, claims, keys, req, view, ghost>>
    BY <1>2, Zenon DEF Tick
  <2> QED BY <2>1 DEF DInv, DeskPart, DeskSlotsOK, ViewsOK
<1>3. ASSUME NEW r \in Slots, Ask(r) \/ Serve(r) \/ CallFails(r)
      PROVE  DeskPart'
  <2>1. CASE Ask(r) \/ CallFails(r)
    BY <2>1, AsksDesk, CallFailsDesk
  <2>2. CASE Serve(r)
    <3>1. CASE Compute(r) \/ SaveRow(r) \/ Link(r) \/ SaveClaim(r)
      BY <3>1, MakingDesk
    <3>2. CASE SaveData(r) \/ SaveOffer(r)
      BY <3>2, SaveDataDesk, SaveOfferDesk
    <3>3. CASE HandOut(r) \/ SaveState(r) \/ NotSucceeded(r)
      BY <3>3, EndsDesk
    <3>4. CASE DeleteOffer(r) \/ DeleteKey(r) \/ CreateKey(r) \/ Succeeded(r)
      BY <3>4, DeleteOfferDesk, DeleteKeyDesk, CreateKeyDesk, SucceededDesk
    <3> QED BY <2>2, <3>1, <3>2, <3>3, <3>4, Zenon DEF Serve
  <2> QED BY <1>3, <2>1, <2>2
<1>4. ASSUME NEW o \in Offers, MarkUsed(o) \/ MarkFails(o)
      PROVE  DeskPart'
  BY <1>4, MarkUsedDesk, MarkFailsDesk
<1>5. ASSUME NEW t \in Tables, Table(t) \/ ListFails(t) \/ Open(t)
      PROVE  DeskPart'
  BY <1>5, TablesDesk, OpensDesk
<1>6. CASE UNCHANGED vars
  <2>1. UNCHANGED <<offers, claims, keys, req, view, ghost>>
    BY <1>6, Zenon DEF vars
  <2> QED BY <2>1 DEF DInv, DeskPart, DeskSlotsOK, ViewsOK
<1> QED BY <1>2, <1>3, <1>4, <1>5, <1>6, Zenon DEF Next

\* A table of the console at rest, whose fetch did not fail, shows what was
\* created at the desk as long as it is there, and nothing that was deleted at
\* the desk, however the calls and the fetches of the two overlap; what was made
\* while its first fetch was under way may be missing until the next change.
THEOREM DeskSees == Spec => []DeskSeesOwn
<1>1. DInv => DeskSeesOwn
  <2> SUFFICES ASSUME DInv, NEW t \in Tables, view[t].at = "idle", ~view[t].failed
               PROVE  /\ \A i \in ghost.dropped : TableOf(i) = t => i \notin view[t].shown
                      /\ \A i \in ghost.told \ view[t].shared :
                           /\ TableOf(i) = t /\ i \in Listed(t)
                           /\ i \in Keys \/ offers[i].by = "desk"
                           => i \in view[t].shown
    BY DEF DeskSeesOwn
  <2>1. ShowsOwn(view[t].shown, view[t].shared, t, offers, keys, ghost)
    BY DEF DInv, DeskPart, ViewsOK, ViewOK
  <2>2. \A i \in ghost.told : i \in Items
    BY Ghostly DEF DInv, LInv, IInv, TypeOK
  <2>3. \A i \in ghost.told : TableOf(i) = t /\ i \in Listed(t) => IsLive(i, offers, keys)
    BY <2>2, ListedShows
  <2> QED BY <2>1, <2>3 DEF ShowsOwn, Own
<1> QED BY <1>1, DeskInit, DeskSteps, PTL DEF Spec
=============================================================================
