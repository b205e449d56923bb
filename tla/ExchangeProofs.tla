--------------------------- MODULE ExchangeProofs ----------------------------
(***************************************************************************)
(* Proofs about Exchange, for every set of attempts, rows and credential   *)
(* records, whatever the wallets set and whoever shares a did.             *)
(***************************************************************************)
EXTENDS Exchange, TLAPS

(***************************************************************************)
(* The inductive invariant.  Each message leads to the row or the          *)
(* credential of the attempt that it will be taken for; the rows of        *)
(* redirects that carry no state are the exception, and a wallet that gave *)
(* a state takes none of those.                                            *)
(***************************************************************************)
Row == [live : BOOLEAN, by : Attempts \cup {Nobody}, told : Attempts \cup {Nobody},
        challenge : Attempts \cup {Nobody}, pre : BOOLEAN,
        offer : States \cup Offers \cup {Nobody}, code : Nat, nonce : Nat, claimed : BOOLEAN]
Record == [s : States \cup {Nobody}, offer : States \cup Offers \cup {Nobody},
           status : {"none", "pending", "issued", "rejected"}]
Phases == {"new", "asked", "coded", "proved"} \cup Ended
Wallet == [phase : Phases, s : States \cup {Nobody}, code : Nat, nonce : Nat,
           v : Creds \cup {Nobody}]
Kinds  == {"authorize", "preToken", "idRequest", "vpRequest", "idPost", "vpPost", "code",
           "error", "token", "nonce", "credential", "inTime", "deferred", "poll", "pending",
           "issued", "rejected", "no"} \cup UnderWay
Letter == [kind : Kinds, a : Attempts \cup {Nobody}, s : States \cup Creds \cup {Nobody},
           n : Nat]

EType == /\ plan \in [Attempts -> Plan]
         /\ row \in [States -> Row]
         /\ cred \in [Creds -> Record]
         /\ wallet \in [Attempts -> Wallet]
         /\ wire \subseteq Letter

Live(s, rs)           == s \in States /\ rs[s].live
OwnRow(s, a, rs)      == a \in Attempts /\ Live(s, rs) /\ rs[s].by = a
OwnCred(v, a, rs, cs) == v \in Creds /\ cs[v].status # "none" /\ OwnRow(cs[v].s, a, rs)

\* A state or a challenge that a row keeps is that of the attempt it is for.
RowsOK == \A s \in States :
            row[s].live => /\ row[s].by \in Attempts
                           /\ row[s].told \in {row[s].by, Nobody}
                           /\ row[s].challenge \in {row[s].by, Nobody}

\* What a record was made for is there.
CredsOK == \A v \in Creds : IF cred[v].status = "none" THEN cred[v].offer = Nobody
                            ELSE Live(cred[v].s, row)

MsgOK(m, rs, cs) ==
    /\ m.kind \in {"authorize", "token", "no"} => m.a \in Attempts
    /\ m.kind \in {"preToken", "nonce", "credential", "adding", "recording"} =>
          OwnRow(m.s, m.a, rs)
    /\ m.kind \in {"token", "code", "error"} => Live(m.s, rs)
    /\ m.kind \in {"code", "error"} => m.a = rs[m.s].told
    /\ m.kind \in {"idRequest", "vpRequest", "idPost", "vpPost"} =>
          m.a = Nobody /\ Live(m.s, rs)
    /\ m.kind \in {"issuing", "inTime", "deferred", "pending", "issued", "rejected", "poll"} =>
          OwnCred(m.s, m.a, rs, cs)

WireOK == \A m \in wire : MsgOK(m, row, cred)

WalletOK(w, a, p, rs, cs) ==
    /\ w.code # 0 /\ GivesState(p) => OwnRow(w.s, a, rs)
    /\ w.nonce # 0 => OwnRow(w.s, a, rs) /\ w.phase \notin {"new", "asked", "coded"}
    /\ w.v # Nobody => OwnCred(w.v, a, rs, cs)

WalletsOK == \A a \in Attempts : WalletOK(wallet[a], a, plan[a], row, cred)

EInv == EType /\ RowsOK /\ CredsOK /\ WireOK /\ WalletsOK

\* What no step takes away from the messages and the wallets.
Kept(rs, cs, rs2, cs2) ==
    /\ \A s \in States : rs[s].live =>
         /\ rs2[s].live /\ rs2[s].by = rs[s].by
         /\ rs2[s].told = rs[s].told /\ rs2[s].offer = rs[s].offer
    /\ \A v \in Creds : cs[v].status # "none" =>
         /\ cs2[v].status # "none" /\ cs2[v].s = cs[v].s /\ cs2[v].offer = cs[v].offer
         /\ cs[v].status = "issued" => cs2[v].status = "issued"

-----------------------------------------------------------------------------
LEMMA NobodyElse == /\ Nobody \notin Attempts /\ Nobody \notin States /\ Nobody \notin Creds
                    /\ Nobody \notin Offers
BY ExchangeAssumption DEF ExchangeAssumption

LEMMA LetterFields ==
  ASSUME NEW kind \in Kinds, NEW a \in Attempts \cup {Nobody},
         NEW s \in States \cup Creds \cup {Nobody}, NEW n \in Nat
  PROVE  /\ Message(kind, a, s, n) \in Letter
         /\ Message(kind, a, s, n).kind = kind /\ Message(kind, a, s, n).a = a
         /\ Message(kind, a, s, n).s = s /\ Message(kind, a, s, n).n = n
BY SMT DEF Message, Letter

\* Nothing a message or a wallet relies on is taken away.
LEMMA MsgKept ==
  ASSUME NEW rs, NEW cs, NEW rs2, NEW cs2, Kept(rs, cs, rs2, cs2),
         NEW m, MsgOK(m, rs, cs)
  PROVE  MsgOK(m, rs2, cs2)
<1>1. \A s : Live(s, rs) => Live(s, rs2) /\ rs2[s].by = rs[s].by /\ rs2[s].told = rs[s].told
  BY SMT DEF Kept, Live
<1>2. \A s, a : OwnRow(s, a, rs) => OwnRow(s, a, rs2)
  BY <1>1 DEF OwnRow
<1>3. \A v, a : OwnCred(v, a, rs, cs) => OwnCred(v, a, rs2, cs2)
  BY <1>2, SMT DEF OwnCred, Kept
<1> QED BY <1>1, <1>2, <1>3, SMT DEF MsgOK

LEMMA WalletKept ==
  ASSUME NEW rs, NEW cs, NEW rs2, NEW cs2, Kept(rs, cs, rs2, cs2),
         NEW w, NEW a, NEW p, WalletOK(w, a, p, rs, cs)
  PROVE  WalletOK(w, a, p, rs2, cs2)
<1>1. \A s, b : OwnRow(s, b, rs) => OwnRow(s, b, rs2)
  BY SMT DEF Kept, Live, OwnRow
<1>2. \A v, b : OwnCred(v, b, rs, cs) => OwnCred(v, b, rs2, cs2)
  BY <1>1, SMT DEF OwnCred, Kept
<1> QED BY <1>1, <1>2, SMT DEF WalletOK

LEMMA KeptSame == ASSUME NEW rs, NEW cs PROVE Kept(rs, cs, rs, cs)
BY DEF Kept

\* Who a refused message is answered to.
LEMMA OfAttempt ==
  ASSUME EInv, NEW m \in wire,
         m.kind \in {"authorize", "token", "preToken", "credential", "idPost", "vpPost", "poll",
                     "adding", "recording", "issuing"}
  PROVE  Of(m) \in Attempts
<1>1. m \in Letter /\ MsgOK(m, row, cred)
  BY DEF EInv, EType, WireOK
<1>2. CASE m.kind \in {"idPost", "vpPost"}
  <2>1. m.a = Nobody /\ Live(m.s, row)
    BY <1>1, <1>2, SMT DEF MsgOK
  <2>2. m.s # Nobody /\ row[m.s].by \in Attempts
    BY <2>1, NobodyElse, SMT DEF EInv, RowsOK, Live
  <2> QED BY <2>1, <2>2 DEF Of
<1>3. CASE m.kind \notin {"idPost", "vpPost"}
  <2>1. m.a \in Attempts
    BY <1>1, <1>3, SMT DEF MsgOK, OwnCred, OwnRow
  <2> QED BY <2>1, NobodyElse DEF Of
<1> QED BY <1>2, <1>3

LEMMA NoOK ==
  ASSUME NEW a \in Attempts, NEW rs, NEW cs
  PROVE  No(a) \in Letter /\ MsgOK(No(a), rs, cs)
<1>1. "no" \in Kinds /\ a \in Attempts \cup {Nobody} /\ 0 \in Nat
      /\ Nobody \in States \cup Creds \cup {Nobody}
  BY SMT DEF Kinds
<1>2. No(a) \in Letter /\ No(a).kind = "no" /\ No(a).a = a
  BY <1>1, LetterFields, SMT DEF No
<1> QED BY <1>2, SMT DEF MsgOK

-----------------------------------------------------------------------------
(***************************************************************************)
(* What a step has to show.                                                *)
(***************************************************************************)
Good(more, rs, cs) == \A x \in more : x \in Letter /\ MsgOK(x, rs, cs)

LEMMA WireStep ==
  ASSUME EInv, NEW more, wire' \subseteq wire \cup more, Kept(row, cred, row', cred'),
         Good(more, row', cred')
  PROVE  wire' \subseteq Letter /\ WireOK'
<1>1. \A x \in wire : x \in Letter /\ MsgOK(x, row', cred')
  BY MsgKept DEF EInv, EType, WireOK
<1> QED BY <1>1 DEF Good, WireOK

LEMMA TakenFrom ==
  ASSUME NEW m, NEW more, Taken(m, more)
  PROVE  wire' \subseteq wire \cup more
BY DEF Taken, Becomes

\* A request under way goes on once.
LEMMA BecomesTaken ==
  ASSUME NEW m, NEW more, Becomes(m, more)
  PROVE  Taken(m, more)
BY DEF Taken

\* A new record is of a row that is there.
NewRecords == \A v \in Creds : \/ cred'[v] = cred[v]
                               \/ /\ cred'[v].status # "none"
                                  /\ cred[v].status = "none" => Live(cred'[v].s, row')

LEMMA CredsKept ==
  ASSUME EInv, Kept(row, cred, row', cred'), NewRecords
  PROVE  CredsOK'
<1> SUFFICES ASSUME NEW v \in Creds
             PROVE  IF cred'[v].status = "none" THEN cred'[v].offer = Nobody
                    ELSE Live(cred'[v].s, row')
  BY DEF CredsOK
<1>1. CASE cred[v].status # "none"
  <2>1. Live(cred[v].s, row) /\ cred'[v].s = cred[v].s /\ cred'[v].status # "none"
    BY <1>1 DEF EInv, CredsOK, Kept
  <2> QED BY <2>1, SMT DEF Live, Kept
<1>2. CASE cred[v].status = "none"
  <2>1. cred[v].offer = Nobody
    BY <1>2 DEF EInv, CredsOK
  <2> QED BY <1>2, <2>1 DEF NewRecords
<1> QED BY <1>1, <1>2

\* A step of the backend that makes or changes a record.
LEMMA Records ==
  ASSUME EInv, NEW more, wire' \subseteq wire \cup more, plan' = plan, wallet' = wallet,
         row' \in [States -> Row], cred' \in [Creds -> Record], RowsOK',
         Kept(row, cred, row', cred'), Good(more, row', cred'), NewRecords
  PROVE  EInv'
<1>1. wire' \subseteq Letter /\ WireOK' /\ CredsOK'
  BY WireStep, CredsKept
<1>2. \A a \in Attempts : WalletOK(wallet'[a], a, plan'[a], row', cred')
  BY WalletKept DEF EInv, WalletsOK
<1> QED BY <1>1, <1>2 DEF EInv, EType, WalletsOK

\* One that does not.
LEMMA Serves ==
  ASSUME EInv, NEW more, wire' \subseteq wire \cup more, plan' = plan, wallet' = wallet,
         row' \in [States -> Row], cred' = cred, RowsOK',
         Kept(row, cred, row', cred'), Good(more, row', cred')
  PROVE  EInv'
<1>1. cred' \in [Creds -> Record]
  BY DEF EInv, EType
<1>2. NewRecords
  BY DEF NewRecords
<1> QED BY <1>1, <1>2, Records

\* A step of the backend that changes no row and no credential record.
LEMMA Answers ==
  ASSUME EInv, NEW more, wire' \subseteq wire \cup more, Good(more, row, cred),
         plan' = plan, wallet' = wallet, row' = row, cred' = cred
  PROVE  EInv'
<1>1. Kept(row, cred, row', cred')
  BY KeptSame
<1>2. RowsOK'
  BY DEF EInv, RowsOK
<1>3. row' \in [States -> Row]
  BY DEF EInv, EType
<1>4. Good(more, row', cred')
  OBVIOUS
<1> QED BY <1>1, <1>2, <1>3, <1>4, Serves

LEMMA RefuseStep ==
  ASSUME EInv, NEW m \in wire, Refuse(m),
         m.kind \in {"authorize", "token", "preToken", "credential", "idPost", "vpPost", "poll"}
  PROVE  EInv'
<1>1. Of(m) \in Attempts
  BY OfAttempt
<1>2. Good({No(Of(m))}, row, cred)
  BY <1>1, NoOK DEF Good
<1>3. wire' \subseteq wire \cup {No(Of(m))}
  BY TakenFrom DEF Refuse
<1> QED BY <1>2, <1>3, Answers DEF Refuse

\* A step of a wallet.
LEMMA GotStep ==
  ASSUME EInv, NEW a \in Attempts, NEW m \in wire, NEW next, NEW more, Got(a, m, next, more),
         next \in Wallet, WalletOK(next, a, plan[a], row, cred), Good(more, row, cred)
  PROVE  EInv'
<1>1. plan' = plan /\ row' = row /\ cred' = cred
      /\ wallet' = [wallet EXCEPT ![a] = next] /\ wire' \subseteq wire \cup more
  BY TakenFrom DEF Got
<1>2. wire' \subseteq Letter /\ WireOK'
  BY <1>1, KeptSame, WireStep
<1>3. wallet' \in [Attempts -> Wallet]
  BY <1>1, SMT DEF EInv, EType
<1>4. WalletsOK'
  <2> SUFFICES ASSUME NEW b \in Attempts
               PROVE  WalletOK(wallet'[b], b, plan[b], row, cred)
    BY <1>1 DEF WalletsOK
  <2>1. wallet'[b] = IF b = a THEN next ELSE wallet[b]
    BY <1>1 DEF EInv, EType
  <2> QED BY <2>1 DEF EInv, WalletsOK
<1>5. RowsOK' /\ CredsOK'
  BY <1>1 DEF EInv, RowsOK, CredsOK
<1> QED BY <1>1, <1>2, <1>3, <1>4, <1>5 DEF EInv, EType

\* A row is made, or changes in what no other attempt is told by.
LEMMA RowStep ==
  ASSUME EInv, NEW s \in States, NEW r \in Row,
         row' = [row EXCEPT ![s] = r],
         row[s].live => /\ r.live /\ r.by = row[s].by
                        /\ r.told = row[s].told /\ r.offer = row[s].offer,
         r.live => r.by \in Attempts /\ r.told \in {r.by, Nobody} /\ r.challenge \in {r.by, Nobody}
  PROVE  row' \in [States -> Row] /\ RowsOK' /\ Kept(row, cred, row', cred) /\ row'[s] = r
<1>1. row' \in [States -> Row] /\ \A x \in States : row'[x] = IF x = s THEN r ELSE row[x]
  BY SMT DEF EInv, EType
<1>2. RowsOK'
  BY <1>1 DEF EInv, RowsOK
<1>3. Kept(row, cred, row', cred)
  BY <1>1 DEF Kept
<1> QED BY <1>1, <1>2, <1>3

LEMMA NewRowIsFree ==
  ASSUME Unused # {}
  PROVE  NewRow \in States /\ ~row[NewRow].live
BY DEF Unused, NewRow

LEMMA RowFields ==
  ASSUME NEW r \in Row
  PROVE  /\ r.live \in BOOLEAN /\ r.by \in Attempts \cup {Nobody}
         /\ r.told \in Attempts \cup {Nobody} /\ r.challenge \in Attempts \cup {Nobody}
         /\ r.pre \in BOOLEAN /\ r.offer \in States \cup Offers \cup {Nobody} /\ r.code \in Nat /\ r.nonce \in Nat /\ r.claimed \in BOOLEAN
BY SMT DEF Row

LEMMA NoRowType == NoRow \in Row /\ NoRow.told = Nobody /\ NoRow.challenge = Nobody
BY SMT DEF NoRow, Row

\* What authorize and an offer make of a row.
AuthRow(r0, a, t, c, o) ==
    [r0 EXCEPT !.live = TRUE, !.by = a, !.told = t, !.challenge = c, !.offer = o]
PreRow(r0, a, s) == [r0 EXCEPT !.live = TRUE, !.by = a, !.pre = TRUE, !.offer = s]

LEMMA AuthRowType ==
  ASSUME NEW r0 \in Row, NEW a \in Attempts, NEW t, NEW c, t \in {a, Nobody}, c \in {a, Nobody},
         NEW o \in States \cup Offers \cup {Nobody}
  PROVE  LET r == AuthRow(r0, a, t, c, o)
         IN  r \in Row /\ r.live /\ r.by = a /\ r.told = t /\ r.challenge = c /\ r.offer = o
<1>1. t \in Attempts \cup {Nobody} /\ c \in Attempts \cup {Nobody}
      /\ a \in Attempts \cup {Nobody} /\ TRUE \in BOOLEAN
  BY Zenon
<1>2. AuthRow(r0, a, t, c, o) \in Row
  BY <1>1, Zenon DEF AuthRow, Row
<1> QED BY <1>2, SMT DEF AuthRow, Row

LEMMA PreRowType ==
  ASSUME NEW r0 \in Row, NEW a \in Attempts, NEW s \in States
  PROVE  LET r == PreRow(r0, a, s)
         IN  /\ r \in Row /\ r.live /\ r.by = a
             /\ r.told = r0.told /\ r.challenge = r0.challenge
<1>1. a \in Attempts \cup {Nobody} /\ TRUE \in BOOLEAN /\ s \in States \cup Offers \cup {Nobody}
  BY Zenon
<1>2. PreRow(r0, a, s) \in Row
  BY <1>1, Zenon DEF PreRow, Row
<1> QED BY <1>2, SMT DEF PreRow, Row

LEMMA AuthStateOK ==
  ASSUME NEW a \in Attempts, NEW s \in States, plan \in [Attempts -> Plan]
  PROVE  LET r == AuthState(a, s)
         IN  /\ r \in Row /\ r.live /\ r.by = a
             /\ r.told = IF GivesState(plan[a]) THEN a ELSE Nobody
             /\ r.challenge = IF GivesChallenge(plan[a]) THEN a ELSE Nobody
             /\ plan[a].scope = "openid" => r.offer = plan[a].offer
             /\ plan[a].scope = "presentation" => r.offer = s
<1> DEFINE t == IF GivesState(plan[a]) THEN a ELSE Nobody
           c == IF GivesChallenge(plan[a]) THEN a ELSE Nobody
           o == CASE plan[a].scope = "openid" -> plan[a].offer
                  [] plan[a].scope = "presentation" -> s
                  [] OTHER -> Nobody
<1>1. t \in {a, Nobody} /\ c \in {a, Nobody}
  OBVIOUS
<1>2. AuthState(a, s) = AuthRow(NoRow, a, t, c, o)
  BY DEF AuthState, AuthRow
<1>3. plan[a].offer \in Offers \cup {Nobody}
  BY SMT DEF Plan
<1>4. /\ o \in States \cup Offers \cup {Nobody}
      /\ plan[a].scope = "openid" => o = plan[a].offer
      /\ plan[a].scope = "presentation" => o = s
  BY <1>3
<1>5. /\ t = IF GivesState(plan[a]) THEN a ELSE Nobody
      /\ c = IF GivesChallenge(plan[a]) THEN a ELSE Nobody
  OBVIOUS
<1> HIDE DEF t, c, o
<1>6. LET r == AuthRow(NoRow, a, t, c, o)
      IN  r \in Row /\ r.live /\ r.by = a /\ r.told = t /\ r.challenge = c /\ r.offer = o
  BY <1>1, <1>4, NoRowType, AuthRowType
<1> QED BY <1>2, <1>4, <1>5, <1>6

LEMMA PreRowOK ==
  ASSUME NEW a \in Attempts, NEW s \in States
  PROVE  LET r == PreRow(NoRow, a, s)
         IN  r \in Row /\ r.live /\ r.by = a /\ r.told = Nobody /\ r.challenge = Nobody
BY NoRowType, PreRowType

\* What a stored row becomes with a new code, a new nonce or its claim used.
LEMMA RowMoves ==
  ASSUME NEW r \in Row, NEW r2,
         \/ r2 = [r EXCEPT !.code = @ + 1]
         \/ r2 = [r EXCEPT !.nonce = @ + 1]
         \/ r2 = [r EXCEPT !.claimed = TRUE]
  PROVE  /\ r2 \in Row /\ r2.live = r.live /\ r2.by = r.by /\ r2.told = r.told
         /\ r2.challenge = r.challenge /\ r2.offer = r.offer
<1>1. CASE r2 = [r EXCEPT !.claimed = TRUE]
  <2>1. r2 \in Row
    BY <1>1, TRUE \in BOOLEAN, Zenon DEF Row
  <2> QED BY <1>1, <2>1, SMT DEF Row
<1>2. CASE r2 = [r EXCEPT !.code = @ + 1] \/ r2 = [r EXCEPT !.nonce = @ + 1]
  BY <1>2, SMT DEF Row
<1> QED BY <1>1, <1>2

-----------------------------------------------------------------------------
(***************************************************************************)
(* The handlers of the backend.                                            *)
(***************************************************************************)
LEMMA AuthorizeStep ==
  ASSUME EInv, NEW m \in wire, Authorize(m)
  PROVE  EInv'
<1>1. m.kind = "authorize" /\ m.a \in Attempts
  BY SMT DEF EInv, WireOK, MsgOK, Authorize
<1>2. CASE ~Admitted(plan[m.a])
  BY <1>1, <1>2, RefuseStep DEF Authorize
<1>3. CASE Admitted(plan[m.a])
  <2> DEFINE s    == NewRow
             more == IF plan[m.a].scope = "vpTest" /\ ~plan[m.a].vpType THEN {No(m.a)}
                     ELSE {AskedFor(plan[m.a], s)}
  <2>1. s \in States /\ ~row[s].live /\ row' = [row EXCEPT ![s] = AuthState(m.a, s)]
        /\ plan' = plan /\ wallet' = wallet /\ cred' = cred /\ Taken(m, more)
    BY <1>3, <1>1, NewRowIsFree DEF Authorize
  <2>2. row' \in [States -> Row] /\ RowsOK' /\ Kept(row, cred, row', cred)
        /\ row'[s] = AuthState(m.a, s)
    <3>1. plan \in [Attempts -> Plan]
      BY DEF EInv, EType
    <3> DEFINE r == AuthState(m.a, s)
    <3>2. r \in Row /\ r.live /\ r.by \in Attempts /\ r.told \in {r.by, Nobody}
          /\ r.challenge \in {r.by, Nobody}
      BY <3>1, <2>1, <1>1, AuthStateOK
    <3> HIDE DEF r, s
    <3> QED BY <2>1, <3>2, RowStep DEF r
  <2>3. Live(s, row')
    BY <2>1, <2>2, <1>1, AuthStateOK DEF Live, EInv, EType
  <2>4. AskedFor(plan[m.a], s) \in Letter /\ MsgOK(AskedFor(plan[m.a], s), row', cred')
    <3> DEFINE x == AskedFor(plan[m.a], s)
    <3>1. "idRequest" \in Kinds /\ "vpRequest" \in Kinds /\ 0 \in Nat
          /\ Nobody \in Attempts \cup {Nobody} /\ s \in States \cup Creds \cup {Nobody}
      BY <2>1, SMT DEF Kinds
    <3>2. x \in Letter /\ x.kind \in {"idRequest", "vpRequest"} /\ x.a = Nobody /\ x.s = s
      BY <3>1, LetterFields, SMT DEF AskedFor, IdRequest, VpRequest
    <3> QED BY <3>2, <2>3, SMT DEF MsgOK
  <2>5. Good(more, row', cred')
    BY <2>4, <1>1, NoOK DEF Good
  <2>6. wire' \subseteq wire \cup more
    BY <2>1, TakenFrom
  <2> HIDE DEF s, more
  <2> QED BY <2>1, <2>2, <2>5, <2>6, Serves
<1> QED BY <1>2, <1>3

LEMMA RedirectOK ==
  ASSUME NEW kind \in {"code", "error"}, NEW s \in States, NEW n \in Nat, NEW rs, NEW cs,
         rs[s].live, rs[s].told \in Attempts \cup {Nobody}
  PROVE  /\ Message(kind, rs[s].told, s, n) \in Letter
         /\ MsgOK(Message(kind, rs[s].told, s, n), rs, cs)
<1> DEFINE x == Message(kind, rs[s].told, s, n)
<1>1. kind \in Kinds /\ s \in States \cup Creds \cup {Nobody}
  BY SMT DEF Kinds
<1>2. x \in Letter /\ x.kind = kind /\ x.a = rs[s].told /\ x.s = s
  BY <1>1, LetterFields
<1>3. Live(s, rs)
  BY DEF Live
<1>4. x \in Letter /\ MsgOK(x, rs, cs)
  <2> HIDE DEF x
  <2> QED BY <1>2, <1>3, SMT DEF MsgOK
<1> QED BY <1>4

LEMMA CodedStep ==
  ASSUME EInv, NEW m \in wire, m.kind \in {"idPost", "vpPost"}, Coded(m, m.s)
  PROVE  EInv'
<1> DEFINE s    == m.s
           r    == [row[s] EXCEPT !.code = @ + 1]
           code == Message("code", row[s].told, s, row'[s].code)
           more == IF plan[row[s].by].redirect THEN {code} ELSE {No(row[s].by)}
<1>1. Live(s, row)
  BY SMT DEF EInv, WireOK, MsgOK
<1>2. s \in States /\ row[s] \in Row /\ row[s].live /\ row[s].by \in Attempts
      /\ row[s].told \in {row[s].by, Nobody} /\ row[s].challenge \in {row[s].by, Nobody}
  BY <1>1 DEF Live, EInv, EType, RowsOK
<1>3. row' = [row EXCEPT ![s] = r] /\ Taken(m, more) /\ plan' = plan /\ wallet' = wallet
      /\ cred' = cred
  BY DEF Coded
<1>4. r \in Row /\ r.live /\ r.by = row[s].by /\ r.told = row[s].told
      /\ r.challenge = row[s].challenge /\ r.offer = row[s].offer
  BY <1>2, RowMoves
<1>5. row' \in [States -> Row] /\ RowsOK' /\ Kept(row, cred, row', cred) /\ row'[s] = r
  BY <1>2, <1>3, <1>4, RowStep
<1>6. code \in Letter /\ MsgOK(code, row', cred')
  <2>1. row'[s].live /\ row'[s].told = row[s].told /\ row'[s].code \in Nat
    BY <1>4, <1>5, RowFields
  <2>2. code = Message("code", row'[s].told, s, row'[s].code)
    BY <2>1
  <2>3. row'[s].told \in Attempts \cup {Nobody}
    BY <1>2, <2>1
  <2> HIDE DEF code, s
  <2> QED BY <1>2, <2>1, <2>2, <2>3, RedirectOK
<1>7. Good(more, row', cred')
  BY <1>6, <1>2, NoOK DEF Good
<1>8. wire' \subseteq wire \cup more
  BY <1>3, TakenFrom
<1> HIDE DEF s, r, more
<1> QED BY <1>3, <1>5, <1>7, <1>8, Serves

LEMMA PostVpStep ==
  ASSUME EInv, NEW m \in wire, PostVp(m)
  PROVE  EInv'
<1>1. m.kind = "vpPost" /\ Live(m.s, row)
  BY SMT DEF EInv, WireOK, MsgOK, PostVp, Denied
<1>2. CASE Refuse(m)
  BY <1>1, <1>2, RefuseStep
<1>3. CASE Coded(m, m.s)
  BY <1>1, <1>3, CodedStep
<1>4. CASE /\ Taken(m, {Message("error", row[m.s].told, m.s, 0)})
           /\ UNCHANGED <<plan, wallet, row, cred>>
  <2> DEFINE x == Message("error", row[m.s].told, m.s, 0)
  <2>1. m.s \in States /\ row[m.s].live /\ row[m.s].told \in Attempts \cup {Nobody}
    BY <1>1, RowFields DEF Live, EInv, EType
  <2>2. x \in Letter /\ MsgOK(x, row, cred)
    BY <2>1, RedirectOK, SMT
  <2>4. Good({x}, row, cred)
    BY <2>2 DEF Good
  <2>5. wire' \subseteq wire \cup {x}
    BY <1>4, TakenFrom
  <2> QED BY <2>4, <2>5, <1>4, Answers
<1> QED BY <1>2, <1>3, <1>4 DEF PostVp, Denied

\* A message about a row that is the attempt's own.
LEMMA OwnRowMsgOK ==
  ASSUME NEW kind \in {"preToken", "nonce", "credential", "adding", "recording"}, NEW a, NEW s, NEW n \in Nat,
         NEW rs, NEW cs, OwnRow(s, a, rs)
  PROVE  Message(kind, a, s, n) \in Letter /\ MsgOK(Message(kind, a, s, n), rs, cs)
<1> DEFINE x == Message(kind, a, s, n)
<1>1. kind \in Kinds /\ a \in Attempts \cup {Nobody} /\ s \in States \cup Creds \cup {Nobody}
  BY SMT DEF Kinds, UnderWay, OwnRow, Live
<1>2. x \in Letter /\ x.kind = kind /\ x.a = a /\ x.s = s
  BY <1>1, LetterFields
<1>3. x \in Letter /\ MsgOK(x, rs, cs)
  <2> HIDE DEF x
  <2> QED BY <1>2, SMT DEF MsgOK
<1> QED BY <1>3

\* A message about a credential that is the attempt's own.
LEMMA OwnCredMsgOK ==
  ASSUME NEW kind \in {"issuing", "inTime", "deferred", "pending", "issued", "rejected", "poll"},
         NEW a, NEW v, NEW n \in Nat, NEW rs, NEW cs, OwnCred(v, a, rs, cs)
  PROVE  Message(kind, a, v, n) \in Letter /\ MsgOK(Message(kind, a, v, n), rs, cs)
<1> DEFINE x == Message(kind, a, v, n)
<1>1. kind \in Kinds /\ a \in Attempts \cup {Nobody} /\ v \in States \cup Creds \cup {Nobody}
  BY SMT DEF Kinds, UnderWay, OwnRow, OwnCred
<1>2. x \in Letter /\ x.kind = kind /\ x.a = a /\ x.s = v
  BY <1>1, LetterFields
<1>3. x \in Letter /\ MsgOK(x, rs, cs)
  <2> HIDE DEF x
  <2> QED BY <1>2, SMT DEF MsgOK
<1> QED BY <1>3

LEMMA TokenedStep ==
  ASSUME EInv, NEW m \in wire, Tokened(m, m.s), OwnRow(m.s, m.a, row)
  PROVE  EInv'
<1> DEFINE s == m.s
           r == [row[s] EXCEPT !.nonce = @ + 1]
           x == Message("nonce", m.a, s, row'[s].nonce)
<1>1. s \in States /\ row[s] \in Row /\ row[s].live /\ row[s].by = m.a /\ m.a \in Attempts
      /\ row[s].told \in {row[s].by, Nobody} /\ row[s].challenge \in {row[s].by, Nobody}
  BY DEF OwnRow, Live, EInv, EType, RowsOK
<1>2. row' = [row EXCEPT ![s] = r] /\ Taken(m, {x}) /\ plan' = plan /\ wallet' = wallet
      /\ cred' = cred
  BY DEF Tokened
<1>3. r \in Row /\ r.live /\ r.by = row[s].by /\ r.told = row[s].told
      /\ r.challenge = row[s].challenge /\ r.offer = row[s].offer
  BY <1>1, RowMoves
<1>4. row' \in [States -> Row] /\ RowsOK' /\ Kept(row, cred, row', cred) /\ row'[s] = r
  BY <1>1, <1>2, <1>3, RowStep
<1>5. OwnRow(s, m.a, row') /\ row'[s].nonce \in Nat
  BY <1>1, <1>3, <1>4, RowFields DEF OwnRow, Live
<1>6. x \in Letter /\ MsgOK(x, row', cred')
  <2> HIDE DEF s
  <2> QED BY <1>5, OwnRowMsgOK
<1>7. Good({x}, row', cred')
  BY <1>6 DEF Good
<1>8. wire' \subseteq wire \cup {x}
  BY <1>2, TakenFrom
<1> HIDE DEF s, r, x
<1> QED BY <1>2, <1>4, <1>7, <1>8, Serves

LEMMA TokenStep ==
  ASSUME EInv, NEW m \in wire, Token(m)
  PROVE  EInv'
<1>1. m.kind = "token" /\ m.a \in Attempts /\ Live(m.s, row)
  BY SMT DEF EInv, WireOK, MsgOK, Token
<1>2. CASE row[m.s].code = m.n /\ Verifies(m.a, m.s)
  <2>1. row[m.s].by = m.a
    BY <1>1, <1>2, NobodyElse DEF Verifies, Live, EInv, RowsOK
  <2>2. OwnRow(m.s, m.a, row)
    BY <1>1, <2>1 DEF OwnRow
  <2> QED BY <1>2, <2>2, TokenedStep DEF Token
<1>3. CASE ~(row[m.s].code = m.n /\ Verifies(m.a, m.s))
  BY <1>1, <1>3, RefuseStep DEF Token
<1> QED BY <1>2, <1>3

LEMMA PreTokenStep ==
  ASSUME EInv, NEW m \in wire, PreToken(m)
  PROVE  EInv'
<1>1. m.kind = "preToken" /\ OwnRow(m.s, m.a, row)
  BY SMT DEF EInv, WireOK, MsgOK, PreToken, PinRight
<1>2. CASE plan[m.a].pin
  BY <1>1, <1>2, TokenedStep DEF PreToken, PinRight
<1>3. CASE ~plan[m.a].pin
  BY <1>1, <1>3, RefuseStep DEF PreToken, PinRight
<1> QED BY <1>2, <1>3

\* A record is made, or changes in its status.
LEMMA CredStep ==
  ASSUME EInv, NEW v \in Creds, NEW c \in Record, c.status # "none",
         cred[v].status # "none" =>
             cred[v].status # "issued" /\ c.s = cred[v].s /\ c.offer = cred[v].offer,
         cred' = [cred EXCEPT ![v] = c]
  PROVE  /\ cred' \in [Creds -> Record] /\ Kept(row, cred, row, cred')
         /\ cred'[v] = c /\ \A x \in Creds : x # v => cred'[x] = cred[x]
<1>1. cred' \in [Creds -> Record] /\ \A x \in Creds : cred'[x] = IF x = v THEN c ELSE cred[x]
  BY SMT DEF EInv, EType
<1> QED BY <1>1, SMT DEF Kept

LEMMA KeptTwice ==
  ASSUME NEW rs, NEW cs, NEW rs2, NEW cs2, Kept(rs, cs, rs2, cs), Kept(rs, cs, rs, cs2)
  PROVE  Kept(rs, cs, rs2, cs2)
BY DEF Kept

\* A request under way that fails.
LEMMA FailStep ==
  ASSUME EInv, NEW m \in wire, m.kind \in UnderWay, FailRequest(m)
  PROVE  EInv'
<1>1. m.a \in Attempts
  BY SMT DEF EInv, WireOK, MsgOK, UnderWay, OwnRow, OwnCred
<1>2. Good({No(m.a)}, row, cred)
  BY <1>1, NoOK DEF Good
<1>3. wire' \subseteq wire \cup {No(m.a)}
  BY BecomesTaken, TakenFrom DEF FailRequest
<1> QED BY <1>2, <1>3, Answers DEF FailRequest

LEMMA CredentialStep ==
  ASSUME EInv, NEW m \in wire, Credential(m)
  PROVE  EInv'
<1>1. m.kind = "credential" /\ OwnRow(m.s, m.a, row)
  BY SMT DEF EInv, WireOK, MsgOK, Credential
<1>2. CASE ~Proven(m) \/ ~TypesKnown(m.s)
  BY <1>1, <1>2, RefuseStep DEF Credential
<1>3. CASE ~(~Proven(m) \/ ~TypesKnown(m.s))
  <2> DEFINE kind == IF maker[HolderOf[m.a]] # Nobody THEN "recording" ELSE "adding"
             n    == CHOOSE x \in FreeWorkers : TRUE
             y    == Message(kind, m.a, m.s, n)
  <2>1. FreeWorkers # {} /\ Taken(m, {y}) /\ plan' = plan /\ wallet' = wallet /\ row' = row
        /\ cred' = cred
    BY <1>3 DEF Credential
  <2>2. n \in Nat
    BY <2>1, ExchangeAssumption DEF FreeWorkers, ExchangeAssumption
  <2>3. kind \in {"adding", "recording"}
    OBVIOUS
  <2> HIDE DEF kind, n
  <2>4. y \in Letter /\ MsgOK(y, row, cred)
    BY <1>1, <2>2, <2>3, OwnRowMsgOK
  <2>5. Good({y}, row, cred) /\ wire' \subseteq wire \cup {y}
    BY <2>1, <2>4, TakenFrom DEF Good
  <2> HIDE DEF y
  <2> QED BY <2>1, <2>5, Answers
<1> QED BY <1>2, <1>3

LEMMA AddDidStep ==
  ASSUME EInv, NEW m \in wire, AddDid(m)
  PROVE  EInv'
<1>1. m.kind = "adding" /\ OwnRow(m.s, m.a, row) /\ m.n \in Nat
  BY SMT DEF EInv, EType, WireOK, MsgOK, Letter, AddDid
<1>2. CASE FailRequest(m)
  BY <1>1, <1>2, FailStep DEF UnderWay
<1>3. CASE ~FailRequest(m)
  <2> DEFINE y == Message("recording", m.a, m.s, m.n)
  <2>1. Becomes(m, {y}) /\ plan' = plan /\ wallet' = wallet /\ row' = row /\ cred' = cred
    BY <1>3 DEF AddDid
  <2>2. y \in Letter /\ MsgOK(y, row, cred)
    BY <1>1, OwnRowMsgOK
  <2>3. Good({y}, row, cred) /\ wire' \subseteq wire \cup {y}
    BY <2>1, <2>2, BecomesTaken, TakenFrom DEF Good
  <2> HIDE DEF y
  <2> QED BY <2>1, <2>3, Answers
<1> QED BY <1>2, <1>3

\* What a request stores.
LEMMA StoreMakes ==
  ASSUME EInv, NEW m \in wire, Store(m), ~FailRequest(m)
  PROVE  \E v \in Creds, kind \in {"issuing", "deferred"}, n \in Nat :
            /\ cred[v].status = "none" /\ Becomes(m, {Message(kind, m.a, v, n)})
            /\ cred' \in [Creds -> Record] /\ Kept(row, cred, row, cred')
            /\ cred'[v].s = m.s /\ cred'[v].status = "pending"
            /\ \A x \in Creds : x # v => cred'[x] = cred[x]
<1> DEFINE free == {x \in Creds : cred[x] = NoCred}
           v    == CHOOSE x \in free : TRUE
           c    == [s |-> m.s, offer |-> row[m.s].offer, status |-> "pending"]
           kind == IF InTime(m.s) THEN "issuing" ELSE "deferred"
           n    == IF InTime(m.s) THEN m.n ELSE 0
<1>1. m.kind = "recording" /\ m.s \in States /\ m.n \in Nat
  BY SMT DEF EInv, EType, WireOK, MsgOK, Letter, Store, OwnRow, Live
<1>2. free # {} /\ cred' = [cred EXCEPT ![v] = c] /\ Becomes(m, {Message(kind, m.a, v, n)})
  <2>1. CASE InTime(m.s)
    BY <2>1 DEF Store
  <2>2. CASE ~InTime(m.s)
    BY <2>2 DEF Store
  <2> QED BY <2>1, <2>2
<1>3. v \in free
  BY <1>2
<1>4. NoCred.status = "none"
  BY DEF NoCred
<1>5. kind \in {"issuing", "deferred"} /\ n \in Nat
  BY <1>1
<1> HIDE DEF v, kind, n
<1>6. v \in Creds /\ cred[v].status = "none"
  BY <1>3, <1>4
<1>7. row[m.s].offer \in States \cup Offers \cup {Nobody}
  BY <1>1, RowFields DEF EInv, EType
<1>8. c \in Record /\ c.s = m.s /\ c.status = "pending"
  BY <1>1, <1>7, SMT DEF Record
<1> HIDE DEF c, free
<1>9. /\ cred' \in [Creds -> Record] /\ Kept(row, cred, row, cred')
      /\ cred'[v] = c /\ \A x \in Creds : x # v => cred'[x] = cred[x]
  BY <1>2, <1>6, <1>8, CredStep
<1>10. cred'[v].s = m.s /\ cred'[v].status = "pending"
  BY <1>8, <1>9
<1> QED BY <1>2, <1>5, <1>6, <1>9, <1>10

LEMMA StoreStep ==
  ASSUME EInv, NEW m \in wire, Store(m)
  PROVE  EInv'
<1>1. m.kind = "recording" /\ OwnRow(m.s, m.a, row)
  BY SMT DEF EInv, WireOK, MsgOK, Store
<1>2. CASE FailRequest(m)
  BY <1>1, <1>2, FailStep DEF UnderWay
<1>3. CASE ~FailRequest(m)
  <2>1. plan' = plan /\ wallet' = wallet /\ row' = row
    BY <1>3 DEF Store
  <2>2. PICK v \in Creds, kind \in {"issuing", "deferred"}, n \in Nat :
            /\ cred[v].status = "none" /\ Becomes(m, {Message(kind, m.a, v, n)})
            /\ cred' \in [Creds -> Record] /\ Kept(row, cred, row, cred')
            /\ cred'[v].s = m.s /\ cred'[v].status = "pending"
            /\ \A x \in Creds : x # v => cred'[x] = cred[x]
    BY <1>3, StoreMakes
  <2> DEFINE y == Message(kind, m.a, v, n)
  <2>3. OwnCred(v, m.a, row, cred')
    BY <1>1, <2>2 DEF OwnCred
  <2>4. y \in Letter /\ MsgOK(y, row', cred')
    BY <2>1, <2>3, OwnCredMsgOK
  <2>5. Good({y}, row', cred') /\ wire' \subseteq wire \cup {y}
    BY <2>2, <2>4, BecomesTaken, TakenFrom DEF Good
  <2>6. row' \in [States -> Row] /\ RowsOK' /\ Kept(row, cred, row', cred')
    BY <2>1, <2>2 DEF EInv, EType, RowsOK
  <2>7. NewRecords
    BY <1>1, <2>1, <2>2 DEF NewRecords, OwnRow
  <2> HIDE DEF y
  <2> QED BY <2>1, <2>2, <2>5, <2>6, <2>7, Records
<1> QED BY <1>2, <1>3

\* What a request issues.
LEMMA IssueMakes ==
  ASSUME EInv, NEW m \in wire, Issue(m), ~FailRequest(m)
  PROVE  LET s == cred[m.s].s
             r == [row[s] EXCEPT !.claimed = TRUE]
         IN  /\ m.s \in Creds /\ s \in States /\ OwnCred(m.s, m.a, row, cred)
             /\ cred' \in [Creds -> Record] /\ Kept(row, cred, row, cred')
             /\ cred'[m.s].s = s /\ cred'[m.s].status = "issued"
             /\ \A x \in Creds : x # m.s => cred'[x] = cred[x]
             /\ row' = [row EXCEPT ![s] = r]
             /\ Becomes(m, {Message("inTime", m.a, m.s, 0)})
             /\ plan' = plan /\ wallet' = wallet
<1> DEFINE s == cred[m.s].s
           r == [row[s] EXCEPT !.claimed = TRUE]
           c == [cred[m.s] EXCEPT !.status = "issued"]
<1>1. OwnCred(m.s, m.a, row, cred)
  BY SMT DEF EInv, WireOK, MsgOK, Issue
<1>2. m.s \in Creds /\ s \in States /\ cred[m.s] \in Record
  BY <1>1 DEF OwnCred, OwnRow, Live, EInv, EType
<1>3. /\ cred[m.s].status # "issued" /\ cred' = [cred EXCEPT ![m.s] = c]
      /\ row' = [row EXCEPT ![s] = r] /\ Becomes(m, {Message("inTime", m.a, m.s, 0)})
      /\ plan' = plan /\ wallet' = wallet
  BY DEF Issue
<1>4. c \in Record /\ c.s = s /\ c.offer = cred[m.s].offer /\ c.status = "issued"
  BY <1>2, SMT DEF Record
<1> HIDE DEF c
<1>5. /\ cred' \in [Creds -> Record] /\ Kept(row, cred, row, cred')
      /\ cred'[m.s] = c /\ \A x \in Creds : x # m.s => cred'[x] = cred[x]
  BY <1>2, <1>3, <1>4, CredStep
<1>6. cred'[m.s].s = s /\ cred'[m.s].status = "issued"
  BY <1>4, <1>5
<1> QED BY <1>1, <1>2, <1>3, <1>5, <1>6

LEMMA IssueStep ==
  ASSUME EInv, NEW m \in wire, Issue(m)
  PROVE  EInv'
<1>1. m.kind = "issuing"
  BY DEF Issue
<1>2. CASE FailRequest(m)
  BY <1>1, <1>2, FailStep DEF UnderWay
<1>3. CASE ~FailRequest(m)
  <2> DEFINE s == cred[m.s].s
             r == [row[s] EXCEPT !.claimed = TRUE]
             y == Message("inTime", m.a, m.s, 0)
  <2>1. /\ m.s \in Creds /\ s \in States /\ OwnCred(m.s, m.a, row, cred)
        /\ cred' \in [Creds -> Record] /\ Kept(row, cred, row, cred')
        /\ cred'[m.s].s = s /\ cred'[m.s].status = "issued"
        /\ \A x \in Creds : x # m.s => cred'[x] = cred[x]
        /\ row' = [row EXCEPT ![s] = r] /\ Becomes(m, {y})
        /\ plan' = plan /\ wallet' = wallet
    BY <1>3, IssueMakes
  <2>2. row[s] \in Row /\ row[s].live /\ row[s].by \in Attempts
        /\ row[s].told \in {row[s].by, Nobody} /\ row[s].challenge \in {row[s].by, Nobody}
    BY <2>1 DEF OwnCred, OwnRow, Live, EInv, EType, RowsOK
  <2>3. r = [row[s] EXCEPT !.claimed = TRUE]
    OBVIOUS
  <2> HIDE DEF s, r
  <2>4. r \in Row /\ r.live /\ r.by = row[s].by /\ r.told = row[s].told
        /\ r.challenge = row[s].challenge /\ r.offer = row[s].offer
    BY <2>2, <2>3, RowMoves
  <2>5. row' \in [States -> Row] /\ RowsOK' /\ Kept(row, cred, row', cred)
    BY <2>1, <2>2, <2>4, RowStep
  <2>6. Kept(row, cred, row', cred')
    BY <2>1, <2>5, KeptTwice
  <2>7. OwnCred(m.s, m.a, row', cred')
    BY <2>1, <2>6, SMT DEF OwnCred, OwnRow, Live, Kept
  <2>8. y \in Letter /\ MsgOK(y, row', cred')
    BY <2>7, OwnCredMsgOK
  <2>9. Good({y}, row', cred') /\ wire' \subseteq wire \cup {y}
    BY <2>1, <2>8, BecomesTaken, TakenFrom DEF Good
  <2>10. NewRecords
    BY <2>1, <2>7 DEF NewRecords, OwnCred, OwnRow
  <2> HIDE DEF y
  <2> QED BY <2>1, <2>5, <2>6, <2>9, <2>10, Records
<1> QED BY <1>2, <1>3

LEMMA DeferredStep ==
  ASSUME EInv, NEW m \in wire, Deferred(m)
  PROVE  EInv'
<1> DEFINE x == Message(cred[m.s].status, m.a, m.s, 0)
<1>1. OwnCred(m.s, m.a, row, cred)
  BY SMT DEF EInv, WireOK, MsgOK, Deferred
<1>2. cred[m.s].status \in {"pending", "issued", "rejected"}
  BY <1>1, SMT DEF OwnCred, EInv, EType, Record
<1>3. x \in Letter /\ MsgOK(x, row, cred)
  BY <1>1, <1>2, OwnCredMsgOK
<1>4. Good({x}, row, cred)
  BY <1>3 DEF Good
<1>5. wire' \subseteq wire \cup {x}
  BY TakenFrom DEF Deferred
<1> QED BY <1>4, <1>5, Answers DEF Deferred

LEMMA LateStep ==
  ASSUME EInv, NEW m \in wire, Late(m)
  PROVE  EInv'
<1>1. Of(m) \in Attempts
  BY OfAttempt DEF Late, Lapsing
<1>2. Good({No(Of(m))}, row, cred)
  BY <1>1, NoOK DEF Good
<1>3. wire' \subseteq wire \cup {No(Of(m))}
  BY DEF Late, Lapsing
<1> QED BY <1>2, <1>3, Answers DEF Late, Lapsing

LEMMA RuleStep ==
  ASSUME EInv, NEW v \in Creds, NEW status \in {"issued", "rejected"}, Rule(v, status)
  PROVE  EInv'
<1>1. cred' = [cred EXCEPT ![v].status = status] /\ row' = row /\ plan' = plan
      /\ wallet' = wallet /\ wire' = wire /\ cred[v].status = "pending"
  BY DEF Rule
<1>2. cred' \in [Creds -> Record] /\ Kept(row, cred, row, cred')
      /\ \A x \in Creds : x # v => cred'[x] = cred[x]
  <2> DEFINE c == [cred[v] EXCEPT !.status = status]
  <2>1. c \in Record /\ c.s = cred[v].s /\ c.offer = cred[v].offer /\ c.status = status
    BY SMT DEF EInv, EType, Record
  <2>2. cred' = [cred EXCEPT ![v] = c]
    BY <1>1
  <2> HIDE DEF c
  <2> QED BY <1>1, <2>1, <2>2, CredStep
<1>3. wire' \subseteq wire \cup {} /\ Good({}, row', cred')
  BY <1>1 DEF Good
<1>4. row' \in [States -> Row] /\ RowsOK'
  BY <1>1 DEF EInv, EType, RowsOK
<1>5. NewRecords
  BY <1>1, <1>2, SMT DEF NewRecords, Kept
<1> QED BY <1>1, <1>2, <1>3, <1>4, <1>5, Records

-----------------------------------------------------------------------------
(***************************************************************************)
(* The wallet.                                                             *)
(***************************************************************************)
\* What a wallet becomes with a code, a nonce or a credential.
CodedWallet(w, s, n)  == [w EXCEPT !.phase = "coded", !.s = s, !.code = n]
ProvedWallet(w, s, n) == [w EXCEPT !.phase = "proved", !.s = s, !.nonce = n]
DoneWallet(w, v)      == [w EXCEPT !.phase = "done", !.v = v]

LEMMA WalletMoves ==
  ASSUME NEW w \in Wallet, NEW s \in States, NEW n \in Nat
  PROVE  /\ LET c == CodedWallet(w, s, n)
            IN  c \in Wallet /\ c.s = s /\ c.code = n /\ c.nonce = w.nonce /\ c.v = w.v
         /\ LET q == ProvedWallet(w, s, n)
            IN  q \in Wallet /\ q.phase = "proved" /\ q.s = s /\ q.v = w.v
<1>1. s \in States \cup {Nobody} /\ "coded" \in Phases /\ "proved" \in Phases
  BY DEF Phases
<1>2. CodedWallet(w, s, n) \in Wallet /\ ProvedWallet(w, s, n) \in Wallet
  BY <1>1, Zenon DEF CodedWallet, ProvedWallet, Wallet
<1> QED BY <1>2, SMT DEF CodedWallet, ProvedWallet, Wallet

LEMMA WalletDone ==
  ASSUME NEW w \in Wallet, NEW v \in Creds
  PROVE  LET d == DoneWallet(w, v)
         IN  d \in Wallet /\ d.phase = "done" /\ d.v = v /\ d.s = w.s /\ d.code = w.code
             /\ d.nonce = w.nonce
<1>1. v \in Creds \cup {Nobody} /\ "done" \in Phases
  BY DEF Phases, Ended
<1>2. DoneWallet(w, v) \in Wallet
  BY <1>1, Zenon DEF DoneWallet, Wallet
<1> QED BY <1>2, SMT DEF DoneWallet, Wallet

LEMMA StartStep ==
  ASSUME EInv, NEW a \in Attempts, StartAttempt(a)
  PROVE  EInv'
<1> DEFINE w == [wallet[a] EXCEPT !.phase = "asked"]
<1>1. plan' = plan /\ cred' = cred /\ wallet' = [wallet EXCEPT ![a] = w]
      /\ wallet[a] \in Wallet /\ wallet[a].phase = "new"
  BY DEF StartAttempt, EInv, EType
<1>2. w \in Wallet /\ w.s = wallet[a].s /\ w.code = wallet[a].code
      /\ w.nonce = wallet[a].nonce /\ w.v = wallet[a].v
  BY <1>1, SMT DEF Wallet, Phases
<1> HIDE DEF w
<1>3. WalletOK(w, a, plan[a], row, cred)
  <2>1. WalletOK(wallet[a], a, plan[a], row, cred)
    BY DEF EInv, WalletsOK
  <2> QED BY <2>1, <1>1, <1>2, SMT DEF WalletOK
<1>4. \E more : /\ wire' \subseteq wire \cup more /\ Good(more, row', cred')
                /\ row' \in [States -> Row] /\ RowsOK' /\ Kept(row, cred, row', cred')
  <2>1. CASE plan[a].how = "pre"
    <3> DEFINE s == NewRow
               x == Message("preToken", a, s, 0)
    <3>1. s \in States /\ ~row[s].live /\ wire' = wire \cup {x}
          /\ row' = [row EXCEPT ![s] = PreRow(NoRow, a, s)]
      BY <2>1, NewRowIsFree DEF StartAttempt, PreRow
    <3> HIDE DEF s
    <3>2. row' \in [States -> Row] /\ RowsOK' /\ Kept(row, cred, row', cred)
          /\ row'[s] = PreRow(NoRow, a, s)
      BY <3>1, PreRowOK, RowStep
    <3>3. OwnRow(s, a, row')
      BY <3>1, <3>2, PreRowOK DEF OwnRow, Live
    <3>4. x \in Letter /\ MsgOK(x, row', cred')
      BY <3>3, OwnRowMsgOK
    <3>5. Good({x}, row', cred')
      BY <3>4 DEF Good
    <3> QED BY <3>1, <3>2, <3>5, <1>1
  <2>2. CASE plan[a].how # "pre"
    <3> DEFINE x == Message("authorize", a, Nobody, 0)
    <3>1. wire' = wire \cup {x} /\ row' = row
      BY <2>2 DEF StartAttempt
    <3>2. "authorize" \in Kinds /\ a \in Attempts \cup {Nobody} /\ 0 \in Nat
          /\ Nobody \in States \cup Creds \cup {Nobody}
      BY SMT DEF Kinds
    <3>3. x \in Letter /\ x.kind = "authorize" /\ x.a = a
      BY <3>2, LetterFields
    <3> HIDE DEF x
    <3>4. Good({x}, row', cred')
      BY <3>3, SMT DEF Good, MsgOK
    <3>5. row' \in [States -> Row] /\ RowsOK'
      BY <3>1 DEF EInv, EType, RowsOK
    <3>6. Kept(row, cred, row', cred')
      BY <3>1, <1>1, KeptSame
    <3>7. wire' \subseteq wire \cup {x}
      BY <3>1
    <3> QED BY <3>4, <3>5, <3>6, <3>7
  <2> QED BY <2>1, <2>2
<1>5. wire' \subseteq Letter /\ WireOK'
  BY <1>4, WireStep
<1>6. wallet' \in [Attempts -> Wallet]
  BY <1>1, <1>2, SMT DEF EInv, EType
<1>7. WalletsOK'
  <2> SUFFICES ASSUME NEW b \in Attempts
               PROVE  WalletOK(wallet'[b], b, plan[b], row', cred')
    BY <1>1 DEF WalletsOK
  <2>1. wallet'[b] = IF b = a THEN w ELSE wallet[b]
    BY <1>1 DEF EInv, EType
  <2>2. WalletOK(wallet'[b], b, plan[b], row, cred)
    BY <1>3, <2>1 DEF EInv, WalletsOK
  <2> QED BY <2>2, <1>4, WalletKept
<1>8. cred' \in [Creds -> Record]
  BY <1>1 DEF EInv, EType
<1>9. CredsOK'
  BY <1>1, <1>4, CredsKept DEF NewRecords
<1> QED BY <1>1, <1>4, <1>5, <1>6, <1>7, <1>8, <1>9 DEF EInv, EType

\* A request is answered with the state it came with.
LEMMA AnswerStep ==
  ASSUME EInv, NEW m \in wire, AnswerIdRequest(m) \/ AnswerVpRequest(m)
  PROVE  EInv'
<1>1. PICK kind \in {"idPost", "vpPost"} :
        /\ m.kind \in {"idRequest", "vpRequest"}
        /\ Taken(m, {Message(kind, Nobody, m.s, 0)}) /\ UNCHANGED <<plan, wallet, row, cred>>
  BY DEF AnswerIdRequest, AnswerVpRequest
<1> DEFINE x == Message(kind, Nobody, m.s, 0)
<1>2. Live(m.s, row)
  BY <1>1, SMT DEF EInv, WireOK, MsgOK
<1>3. kind \in Kinds /\ Nobody \in Attempts \cup {Nobody} /\ 0 \in Nat
      /\ m.s \in States \cup Creds \cup {Nobody}
  BY <1>2, SMT DEF Kinds, Live
<1>4. x \in Letter /\ x.kind = kind /\ x.a = Nobody /\ x.s = m.s
  BY <1>3, LetterFields
<1>5. wire' \subseteq wire \cup {x}
  BY <1>1, TakenFrom
<1> HIDE DEF x
<1>6. Good({x}, row, cred)
  BY <1>2, <1>4, SMT DEF Good, MsgOK
<1> QED BY <1>1, <1>5, <1>6, Answers

LEMMA TakeCodeStep ==
  ASSUME EInv, NEW m \in wire, NEW a \in Attempts, TakeCode(m, a)
  PROVE  EInv'
<1>1. m.kind = "code" /\ Meant(m, a) /\ wallet[a].phase \in {"asked", "coded"}
      /\ wallet[a] \in Wallet /\ WalletOK(wallet[a], a, plan[a], row, cred)
      /\ m \in Letter /\ MsgOK(m, row, cred)
  BY DEF TakeCode, EInv, EType, WireOK, WalletsOK
<1>2. wallet[a].nonce = 0
  BY <1>1, SMT DEF WalletOK
<1>3. CASE GivesChallenge(plan[a])
  <2> DEFINE w == CodedWallet(wallet[a], m.s, m.n)
             x == Message("token", a, m.s, m.n)
  <2>1. Live(m.s, row) /\ m.n \in Nat /\ m.a = row[m.s].told
    BY <1>1, SMT DEF MsgOK, Letter
  <2>2. m.s \in States
    BY <2>1 DEF Live
  <2>3. w \in Wallet /\ w.s = m.s /\ w.code = m.n /\ w.nonce = wallet[a].nonce
        /\ w.v = wallet[a].v
    BY <1>1, <2>1, <2>2, WalletMoves
  <2>4. GivesState(plan[a]) => OwnRow(m.s, a, row)
    <3> HAVE GivesState(plan[a])
    <3>1. m.a = a
      BY <1>1 DEF Meant
    <3>2. row[m.s].by = a
      BY <3>1, <2>1, NobodyElse DEF Live, EInv, RowsOK
    <3> QED BY <3>2, <2>1 DEF OwnRow
  <2> HIDE DEF w
  <2>5. WalletOK(w, a, plan[a], row, cred)
    BY <1>1, <1>2, <2>3, <2>4, SMT DEF WalletOK
  <2>6. "token" \in Kinds /\ a \in Attempts \cup {Nobody}
        /\ m.s \in States \cup Creds \cup {Nobody}
    BY <2>1, SMT DEF Kinds, Live
  <2>7. x \in Letter /\ x.kind = "token" /\ x.a = a /\ x.s = m.s
    BY <2>1, <2>6, LetterFields
  <2>8. Got(a, m, w, {x})
    BY <1>3 DEF TakeCode, w, CodedWallet
  <2> HIDE DEF x
  <2>9. Good({x}, row, cred)
    BY <2>1, <2>7, SMT DEF Good, MsgOK
  <2> QED BY <2>3, <2>5, <2>8, <2>9, GotStep
<1>4. CASE ~GivesChallenge(plan[a])
  <2> DEFINE w == [wallet[a] EXCEPT !.phase = "failed"]
  <2>1. Got(a, m, w, {}) /\ Good({}, row, cred)
    BY <1>4 DEF TakeCode, Good
  <2>2. w \in Wallet /\ w.s = wallet[a].s /\ w.code = wallet[a].code
        /\ w.nonce = wallet[a].nonce /\ w.v = wallet[a].v
    BY <1>1, SMT DEF Wallet, Phases, Ended
  <2> HIDE DEF w
  <2>3. WalletOK(w, a, plan[a], row, cred)
    BY <1>1, <1>2, <2>2, SMT DEF WalletOK
  <2> QED BY <2>1, <2>2, <2>3, GotStep
<1> QED BY <1>3, <1>4

\* The wallet stops, and keeps what it has.
LEMMA EndedOK ==
  ASSUME EInv, NEW a \in Attempts, NEW phase \in Ended
  PROVE  /\ [wallet[a] EXCEPT !.phase = phase] \in Wallet
         /\ WalletOK([wallet[a] EXCEPT !.phase = phase], a, plan[a], row, cred)
<1> DEFINE w == [wallet[a] EXCEPT !.phase = phase]
<1>1. wallet[a] \in Wallet /\ WalletOK(wallet[a], a, plan[a], row, cred)
  BY DEF EInv, EType, WalletsOK
<1>2. w \in Wallet /\ w.phase = phase /\ w.s = wallet[a].s /\ w.code = wallet[a].code
      /\ w.nonce = wallet[a].nonce /\ w.v = wallet[a].v
  BY <1>1, SMT DEF Wallet, Phases
<1>3. phase \notin {"new", "asked", "coded"}
  BY SMT DEF Ended
<1>4. w \in Wallet /\ WalletOK(w, a, plan[a], row, cred)
  <2> HIDE DEF w
  <2> QED BY <1>1, <1>2, <1>3, SMT DEF WalletOK
<1> QED BY <1>4

LEMMA StopStep ==
  ASSUME EInv, NEW m \in wire, NEW a \in Attempts, NEW phase \in Ended,
         Got(a, m, [wallet[a] EXCEPT !.phase = phase], {})
  PROVE  EInv'
<1>1. Good({}, row, cred)
  BY DEF Good
<1> DEFINE w == [wallet[a] EXCEPT !.phase = phase]
<1>2. w \in Wallet /\ WalletOK(w, a, plan[a], row, cred) /\ Got(a, m, w, {})
  BY EndedOK
<1> HIDE DEF w
<1> QED BY <1>1, <1>2, GotStep

LEMMA TakeNonceStep ==
  ASSUME EInv, NEW m \in wire, TakeNonce(m)
  PROVE  EInv'
<1> DEFINE w == ProvedWallet(wallet[m.a], m.s, m.n)
           x == Message("credential", m.a, m.s, m.n)
<1>1. OwnRow(m.s, m.a, row) /\ m.n \in Nat
  BY SMT DEF EInv, EType, WireOK, MsgOK, TakeNonce, Letter
<1>2. m.a \in Attempts /\ m.s \in States
  BY <1>1 DEF OwnRow, Live
<1>3. wallet[m.a] \in Wallet /\ WalletOK(wallet[m.a], m.a, plan[m.a], row, cred)
  BY <1>2 DEF EInv, EType, WalletsOK
<1>4. w \in Wallet /\ w.phase = "proved" /\ w.s = m.s /\ w.v = wallet[m.a].v
  BY <1>1, <1>2, <1>3, WalletMoves
<1>5. x \in Letter /\ MsgOK(x, row, cred)
  BY <1>1, OwnRowMsgOK
<1>6. Good({x}, row, cred)
  BY <1>5 DEF Good
<1>7. Got(m.a, m, w, {x})
  BY DEF TakeNonce, ProvedWallet
<1> HIDE DEF w, x
<1>8. WalletOK(w, m.a, plan[m.a], row, cred)
  BY <1>1, <1>3, <1>4, SMT DEF WalletOK
<1> QED BY <1>2, <1>4, <1>6, <1>7, <1>8, GotStep

LEMMA TakeCredentialStep ==
  ASSUME EInv, NEW m \in wire, TakeCredential(m)
  PROVE  EInv'
<1> DEFINE w == DoneWallet(wallet[m.a], m.s)
<1>1. OwnCred(m.s, m.a, row, cred)
  BY SMT DEF EInv, WireOK, MsgOK, TakeCredential
<1>2. m.a \in Attempts /\ m.s \in Creds
  BY <1>1 DEF OwnCred, OwnRow
<1>3. wallet[m.a] \in Wallet /\ WalletOK(wallet[m.a], m.a, plan[m.a], row, cred)
  BY <1>2 DEF EInv, EType, WalletsOK
<1>4. w \in Wallet /\ w.phase = "done" /\ w.v = m.s /\ w.s = wallet[m.a].s
      /\ w.code = wallet[m.a].code /\ w.nonce = wallet[m.a].nonce
  BY <1>2, <1>3, WalletDone
<1>5. Got(m.a, m, w, {}) /\ Good({}, row, cred)
  BY DEF TakeCredential, DoneWallet, Good
<1> HIDE DEF w
<1>6. WalletOK(w, m.a, plan[m.a], row, cred)
  BY <1>1, <1>3, <1>4, SMT DEF WalletOK
<1> QED BY <1>2, <1>4, <1>5, <1>6, GotStep

LEMMA TakeDeferredStep ==
  ASSUME EInv, NEW m \in wire, TakeDeferred(m)
  PROVE  EInv'
<1> DEFINE w == [wallet[m.a] EXCEPT !.v = m.s]
           x == Message("poll", m.a, m.s, 0)
<1>1. OwnCred(m.s, m.a, row, cred)
  BY SMT DEF EInv, WireOK, MsgOK, TakeDeferred
<1>2. m.a \in Attempts /\ m.s \in Creds
  BY <1>1 DEF OwnCred, OwnRow
<1>3. wallet[m.a] \in Wallet /\ WalletOK(wallet[m.a], m.a, plan[m.a], row, cred)
  BY <1>2 DEF EInv, EType, WalletsOK
<1>4. w \in Wallet /\ w.phase = wallet[m.a].phase /\ w.v = m.s /\ w.s = wallet[m.a].s
      /\ w.code = wallet[m.a].code /\ w.nonce = wallet[m.a].nonce
  BY <1>2, <1>3, SMT DEF Wallet
<1>5. x \in Letter /\ MsgOK(x, row, cred)
  BY <1>1, OwnCredMsgOK
<1>6. Good({x}, row, cred)
  BY <1>5 DEF Good
<1>7. Got(m.a, m, w, {x})
  BY DEF TakeDeferred
<1> HIDE DEF w, x
<1>8. WalletOK(w, m.a, plan[m.a], row, cred)
  BY <1>1, <1>3, <1>4, SMT DEF WalletOK
<1> QED BY <1>2, <1>4, <1>6, <1>7, <1>8, GotStep

-----------------------------------------------------------------------------
(***************************************************************************)
(* The invariant.                                                          *)
(***************************************************************************)
LEMMA ExchangeInitInv == ExchangeInit => EInv
<1> SUFFICES ASSUME ExchangeInit PROVE EInv
  OBVIOUS
<1>1. row = [s \in States |-> NoRow] /\ cred = [v \in Creds |-> NoCred] /\ wire = {}
      /\ wallet = [a \in Attempts |-> Waiting]
  BY DEF ExchangeInit
<1>2. NoRow \in Row /\ NoRow.live = FALSE /\ NoCred \in Record /\ Waiting \in Wallet
      /\ Waiting.code = 0 /\ Waiting.nonce = 0 /\ Waiting.v = Nobody
  BY NoRowType, SMT DEF NoRow, NoCred, Record, Waiting, Wallet, Phases
<1>3. EType /\ WireOK
  <2>1. plan \in [Attempts -> Plan]
    BY ExchangeAssumption DEF ExchangeInit, ExchangeAssumption
  <2> QED BY <1>1, <1>2, <2>1 DEF EType, WireOK
<1>4. RowsOK /\ CredsOK
  BY <1>1, <1>2, SMT DEF RowsOK, CredsOK, NoCred
<1>5. WalletsOK
  BY <1>1, <1>2, SMT DEF WalletsOK, WalletOK
<1> QED BY <1>3, <1>4, <1>5 DEF EInv

LEMMA EndpointStep ==
  ASSUME EInv, NEW m \in wire, Endpoint(m)
  PROVE  EInv'
<1>1. CASE Authorize(m)
  BY <1>1, AuthorizeStep
<1>2. CASE PostId(m)
  BY <1>2, CodedStep DEF PostId
<1>3. CASE PostVp(m)
  BY <1>3, PostVpStep
<1>4. CASE Token(m)
  BY <1>4, TokenStep
<1>5. CASE PreToken(m)
  BY <1>5, PreTokenStep
<1>6. CASE Credential(m)
  BY <1>6, CredentialStep
<1>7. CASE Deferred(m)
  BY <1>7, DeferredStep
<1>8. CASE Late(m)
  BY <1>8, LateStep
<1>9. CASE AddDid(m) \/ Store(m) \/ Issue(m)
  BY <1>9, AddDidStep, StoreStep, IssueStep
<1> QED BY <1>1, <1>2, <1>3, <1>4, <1>5, <1>6, <1>7, <1>8, <1>9 DEF Endpoint

LEMMA TakeStep ==
  ASSUME EInv, NEW m \in wire, Take(m)
  PROVE  EInv'
<1>1. CASE AnswerIdRequest(m) \/ AnswerVpRequest(m)
  BY <1>1, AnswerStep
<1>2. CASE TakeNonce(m)
  BY <1>2, TakeNonceStep
<1>3. CASE TakeCredential(m)
  BY <1>3, TakeCredentialStep
<1>4. CASE TakeDeferred(m)
  BY <1>4, TakeDeferredStep
<1>5. CASE TakeRejected(m)
  <2>1. m.a \in Attempts /\ "denied" \in Ended
    BY <1>5, SMT DEF EInv, WireOK, MsgOK, OwnCred, OwnRow, TakeRejected, Ended
  <2> QED BY <1>5, <2>1, StopStep DEF TakeRejected
<1>6. CASE TakeNo(m)
  <2>1. m.a \in Attempts /\ "refused" \in Ended
    BY <1>6, SMT DEF EInv, WireOK, MsgOK, TakeNo, Ended
  <2> QED BY <1>6, <2>1, StopStep DEF TakeNo
<1>7. ASSUME NEW a \in Attempts, TakeCode(m, a) PROVE EInv'
  BY <1>7, TakeCodeStep
<1>8. ASSUME NEW a \in Attempts, TakeError(m, a) PROVE EInv'
  <2>1. "denied" \in Ended
    BY DEF Ended
  <2> QED BY <1>8, <2>1, StopStep DEF TakeError
<1> QED BY <1>1, <1>2, <1>3, <1>4, <1>5, <1>6, <1>7, <1>8 DEF Take

LEMMA ExchangeStep == EInv /\ [ExchangeNext]_exchangeVars => EInv'
<1> SUFFICES ASSUME EInv, [ExchangeNext]_exchangeVars PROVE EInv'
  OBVIOUS
<1>1. ASSUME NEW a \in Attempts, StartAttempt(a) PROVE EInv'
  BY <1>1, StartStep
<1>2. ASSUME NEW m \in wire, Endpoint(m) \/ Take(m) PROVE EInv'
  BY <1>2, EndpointStep, TakeStep
<1>3. ASSUME NEW v \in Creds, Rule(v, "issued") \/ Rule(v, "rejected") PROVE EInv'
  BY <1>3, RuleStep
<1>4. CASE UNCHANGED exchangeVars
  BY <1>4 DEF exchangeVars, EInv, EType, RowsOK, CredsOK, WireOK, WalletsOK
<1> QED BY <1>1, <1>2, <1>3, <1>4 DEF ExchangeNext

\* A wallet only holds what the backend made for its own attempt.
LEMMA InvHoldsItsOwn == EInv => HoldsItsOwn
<1> SUFFICES ASSUME EInv, NEW a \in Attempts, WalletOK(wallet[a], a, plan[a], row, cred)
             PROVE  LET w == wallet[a]
                    IN  /\ w.code # 0 /\ GivesState(plan[a]) => row[w.s].by = a
                        /\ w.nonce # 0 => row[w.s].by = a
                        /\ w.v # Nobody => row[cred[w.v].s].by = a
  BY DEF HoldsItsOwn, EInv, WalletsOK
<1> QED BY SMT DEF WalletOK, OwnRow, OwnCred

LEMMA ExchangeInvariant == ExchangeSpec => []EInv
BY ExchangeInitInv, ExchangeStep, PTL DEF ExchangeSpec

\* Every code of an attempt that gave its state, every nonce and every
\* credential that a wallet built with kredential-core takes from the endpoints
\* of AuthService was made for the attempt it is taken for, however many
\* attempts share a did, and whatever comes twice, late or out of order.
THEOREM WalletsHoldTheirOwn == ExchangeSpec => []HoldsItsOwn
BY ExchangeInvariant, InvHoldsItsOwn, PTL

-----------------------------------------------------------------------------
(***************************************************************************)
(* In order: the second invariant.  A sensible attempt whose messages come *)
(* once and in time has one message on its way, no more and, until it      *)
(* ends, no less, and what that message says is still so when it is taken: *)
(* nobody else makes a newer code or nonce for the attempt's row.          *)
(***************************************************************************)
\* Of, in rows that may not be the current ones.
OfIn(m, rs) == IF m.a = Nobody /\ m.s # Nobody THEN rs[m.s].by ELSE m.a

AskedRowsOK ==
    \A s \in States : row[s].live /\ Sensible(plan[row[s].by]) =>
        row[s].told = row[s].by /\ row[s].challenge = row[s].by /\ TypesKnown(s)

\* No request of the attempt has stored a record, and before that none has even
\* looked for the did row.
Unrecorded(a, rs, cs) == \A v \in Creds : cs[v].status # "none" => rs[cs[v].s].by # a
Fresh(a, rs, cs, mk, fs) == a \notin fs /\ mk[HolderOf[a]] # a /\ Unrecorded(a, rs, cs)

\* The reasons for which a request is refused.
Hindered(a, rs, cs, mk, fs) ==
    \/ a \notin fs /\ mk[HolderOf[a]] \notin {a, Nobody}
    \/ \E s \in States, v \in Creds :
         /\ rs[s].live /\ rs[s].by = a /\ rs[s].offer # Nobody
         /\ cs[v].offer = rs[s].offer /\ rs[cs[v].s].by # a
    \/ \E v \in Creds : cs[v].status = "issued" /\ rs[cs[v].s].by = a

Asking == {"authorize", "idRequest", "vpRequest", "idPost", "vpPost", "code", "error", "token",
           "nonce", "credential", "adding"}

\* The newest code and the newest nonce of the attempt's row, a request that is
\* the attempt's first, and a refusal with a reason.
Fit(m, a, rs, cs, mk, fs) ==
    /\ m.kind # "preToken"
    /\ m.kind \in {"code", "token"} => OwnRow(m.s, a, rs) /\ rs[m.s].code = m.n
    /\ m.kind \in {"nonce", "credential"} => OwnRow(m.s, a, rs) /\ rs[m.s].nonce = m.n
    /\ m.kind \in Asking => Fresh(a, rs, cs, mk, fs)
    /\ m.kind = "recording" => Unrecorded(a, rs, cs)
    /\ m.kind = "no" => Hindered(a, rs, cs, mk, fs)

\* w: the attempt's wallet, ms: the messages on their way.
InOrder(a, w, ms, rs, cs, mk, fs) ==
    /\ w.phase # "failed"
    /\ w.phase = "refused" => Hindered(a, rs, cs, mk, fs)
    /\ w.phase = "new" => Fresh(a, rs, cs, mk, fs)
    /\ w.phase \in {"new"} \cup Ended => \A x \in ms : OfIn(x, rs) # a
    /\ w.phase \in {"asked", "coded", "proved"} => \E x \in ms : OfIn(x, rs) = a
    /\ \A x, y \in ms : OfIn(x, rs) = a /\ OfIn(y, rs) = a => x = y
    /\ \A x \in ms : OfIn(x, rs) = a => Fit(x, a, rs, cs, mk, fs)

OrderOK == \A a \in clean :
             Sensible(plan[a]) => InOrder(a, wallet[a], wire, row, cred, maker, found)

OInv == /\ EInv /\ clean \subseteq Attempts /\ AskedRowsOK /\ OrderOK
        /\ maker \in [Holders -> Attempts \cup {Nobody}]

-----------------------------------------------------------------------------
LEMMA OfInOf == ASSUME NEW m PROVE Of(m) = OfIn(m, row)
BY DEF Of, OfIn

\* Whose message it is does not change.
LEMMA OfKept ==
  ASSUME EInv, NEW m \in wire, NEW rs, NEW cs, Kept(row, cred, rs, cs)
  PROVE  OfIn(m, rs) = OfIn(m, row)
<1>1. CASE m.a = Nobody /\ m.s # Nobody
  <2>1. m.kind \notin {"authorize", "token", "no", "preToken", "nonce", "credential",
                       "adding", "recording", "issuing", "inTime", "deferred", "pending", "issued", "rejected", "poll"}
    BY <1>1, NobodyElse, SMT DEF EInv, WireOK, MsgOK, OwnRow, OwnCred
  <2>2. m.kind \in Kinds
    BY SMT DEF EInv, EType, Letter
  <2>3. Live(m.s, row)
    BY <2>1, <2>2, SMT DEF EInv, WireOK, MsgOK, Kinds, UnderWay
  <2> QED BY <1>1, <2>3, SMT DEF OfIn, Kept, Live
<1>2. CASE ~(m.a = Nobody /\ m.s # Nobody)
  BY <1>2 DEF OfIn
<1> QED BY <1>1, <1>2

\* Whose a message is, by what it is about.
LEMMA OfOwn ==
  ASSUME NEW m \in wire, EInv,
         m.kind \in {"authorize", "token", "preToken", "nonce", "credential", "no", "adding",
                     "recording", "issuing", "inTime", "deferred", "pending", "issued",
                     "rejected", "poll"}
  PROVE  m.a \in Attempts /\ OfIn(m, row) = m.a
<1>1. m.a \in Attempts
  BY SMT DEF EInv, WireOK, MsgOK, OwnRow, OwnCred
<1> QED BY <1>1, NobodyElse DEF OfIn

LEMMA OfAsked ==
  ASSUME NEW m \in wire, EInv,
         m.kind \in {"idRequest", "vpRequest", "idPost", "vpPost", "code", "error"}
  PROVE  /\ Live(m.s, row) /\ row[m.s] \in Row /\ row[m.s].by \in Attempts
         /\ m.a \in {row[m.s].by, Nobody} /\ OfIn(m, row) = row[m.s].by
<1>1. Live(m.s, row) /\ (m.kind \in {"code", "error"} => m.a = row[m.s].told)
      /\ (m.kind \notin {"code", "error"} => m.a = Nobody)
  BY SMT DEF EInv, WireOK, MsgOK
<1>2. row[m.s] \in Row /\ row[m.s].by \in Attempts /\ row[m.s].told \in {row[m.s].by, Nobody}
      /\ m.s # Nobody
  BY <1>1, NobodyElse DEF EInv, EType, RowsOK, Live
<1> QED BY <1>1, <1>2, NobodyElse DEF OfIn

-----------------------------------------------------------------------------
(***************************************************************************)
(* What a step has to show for the attempt whose message it takes, and for *)
(* every other.                                                            *)
(***************************************************************************)
\* A step of b leaves to the others what holds of them: b may make a did row,
\* find one, and get a record.
Elsewhere(b) ==
    /\ \A h \in Holders : \/ maker'[h] = maker[h]
                          \/ maker[h] = Nobody /\ maker'[h] = b
    /\ found' \subseteq found \cup {b}
    /\ \A v \in Creds : \/ cred[v].status # "none" \/ cred'[v] = cred[v]
                         \/ row'[cred'[v].s].by = b

LEMMA NothingElsewhere ==
  ASSUME cred' = cred, didVars' = didVars, NEW b
  PROVE  Elsewhere(b)
BY DEF Elsewhere, didVars

LEMMA OthersKeep ==
  ASSUME EInv, Kept(row, cred, row', cred'), NEW b, Elsewhere(b), NEW a \in Attempts, a # b
  PROVE  /\ Unrecorded(a, row, cred) => Unrecorded(a, row', cred')
         /\ Fresh(a, row, cred, maker, found) => Fresh(a, row', cred', maker', found')
         /\ Hindered(a, row, cred, maker, found) => Hindered(a, row', cred', maker', found')
<1>1. ASSUME NEW v \in Creds, cred[v].status # "none"
      PROVE  /\ cred'[v].status # "none" /\ cred'[v].s = cred[v].s /\ cred'[v].offer = cred[v].offer
             /\ row'[cred'[v].s].by = row[cred[v].s].by
             /\ cred[v].status = "issued" => cred'[v].status = "issued"
  <2>1. Live(cred[v].s, row)
    BY <1>1 DEF EInv, CredsOK
  <2> QED BY <1>1, <2>1, SMT DEF Kept, Live
<1>2. ASSUME Unrecorded(a, row, cred) PROVE Unrecorded(a, row', cred')
  <2> SUFFICES ASSUME NEW v \in Creds, cred'[v].status # "none" PROVE row'[cred'[v].s].by # a
    BY DEF Unrecorded
  <2>1. CASE cred[v].status # "none"
    BY <1>1, <1>2, <2>1 DEF Unrecorded
  <2>2. CASE cred[v].status = "none"
    <3>1. row'[cred'[v].s].by = b
      BY <2>2 DEF Elsewhere
    <3> QED BY <3>1
  <2> QED BY <2>1, <2>2
<1>3. HolderOf[a] \in Holders
  BY DEF Holders
<1>4. ASSUME Fresh(a, row, cred, maker, found) PROVE Fresh(a, row', cred', maker', found')
  <2>1. a \notin found' /\ maker'[HolderOf[a]] # a
    BY <1>3, <1>4 DEF Fresh, Elsewhere
  <2> QED BY <1>2, <1>4, <2>1 DEF Fresh
<1>5. ASSUME Hindered(a, row, cred, maker, found) PROVE Hindered(a, row', cred', maker', found')
  <2>1. CASE a \notin found /\ maker[HolderOf[a]] \notin {a, Nobody}
    <3>1. a \notin found' /\ maker'[HolderOf[a]] \notin {a, Nobody}
      BY <1>3, <2>1 DEF Elsewhere
    <3> QED BY <3>1 DEF Hindered
  <2>2. CASE \E s \in States, v \in Creds :
                /\ row[s].live /\ row[s].by = a /\ row[s].offer # Nobody
                /\ cred[v].offer = row[s].offer /\ row[cred[v].s].by # a
    <3>1. PICK s \in States, v \in Creds :
                /\ row[s].live /\ row[s].by = a /\ row[s].offer # Nobody
                /\ cred[v].offer = row[s].offer /\ row[cred[v].s].by # a
      BY <2>2
    <3>2. cred[v].status # "none"
      BY <3>1 DEF EInv, CredsOK
    <3>3. row'[s].live /\ row'[s].by = a /\ row'[s].offer = row[s].offer
      BY <3>1 DEF Kept
    <3> QED BY <1>1, <3>1, <3>2, <3>3 DEF Hindered
  <2>3. CASE \E v \in Creds : cred[v].status = "issued" /\ row[cred[v].s].by = a
    <3>1. PICK v \in Creds : cred[v].status = "issued" /\ row[cred[v].s].by = a
      BY <2>3
    <3> QED BY <1>1, <3>1 DEF Hindered
  <2> QED BY <1>5, <2>1, <2>2, <2>3 DEF Hindered
<1> QED BY <1>2, <1>4, <1>5

\* Where no record and no did row is made, it holds of everybody.
LEMMA AllKeep ==
  ASSUME EInv, Kept(row, cred, row', cred'), cred' = cred, didVars' = didVars, NEW a \in Attempts
  PROVE  /\ Unrecorded(a, row, cred) => Unrecorded(a, row', cred')
         /\ Fresh(a, row, cred, maker, found) => Fresh(a, row', cred', maker', found')
         /\ Hindered(a, row, cred, maker, found) => Hindered(a, row', cred', maker', found')
<1>1. Elsewhere(Nobody) /\ a # Nobody
  BY NothingElsewhere, NobodyElse
<1> QED BY <1>1, OthersKeep

\* The others: their wallets and their messages stay, and so do the code and
\* the nonce of their rows.
LEMMA OthersInOrder ==
  ASSUME OInv, NEW a \in clean, Sensible(plan[a]), NEW b, a # b, Elsewhere(b),
         Kept(row, cred, row', cred'), wallet'[a] = wallet[a],
         NEW more, wire' \subseteq wire \cup more, \A x \in more : OfIn(x, row') # a,
         \A x \in wire : OfIn(x, row) = a => x \in wire',
         \A s \in States : row[s].live /\ row[s].by = a =>
             row'[s].code = row[s].code /\ row'[s].nonce = row[s].nonce
  PROVE  InOrder(a, wallet'[a], wire', row', cred', maker', found')
<1>1. InOrder(a, wallet[a], wire, row, cred, maker, found) /\ EInv /\ a \in Attempts
  BY DEF OInv, OrderOK
<1>2. \A x \in wire : OfIn(x, row') = OfIn(x, row)
  BY <1>1, OfKept
<1>3. \A x \in wire' : OfIn(x, row') = a => x \in wire /\ OfIn(x, row) = a
  BY <1>2
<1>K. /\ Unrecorded(a, row, cred) => Unrecorded(a, row', cred')
      /\ Fresh(a, row, cred, maker, found) => Fresh(a, row', cred', maker', found')
      /\ Hindered(a, row, cred, maker, found) => Hindered(a, row', cred', maker', found')
  BY <1>1, OthersKeep
<1>4. ASSUME NEW x \in wire, Fit(x, a, row, cred, maker, found)
      PROVE  Fit(x, a, row', cred', maker', found')
  <2>1. ASSUME OwnRow(x.s, a, row)
        PROVE  OwnRow(x.s, a, row') /\ row'[x.s].code = row[x.s].code
               /\ row'[x.s].nonce = row[x.s].nonce
    BY <2>1 DEF OwnRow, Live, Kept
  <2> QED BY <1>4, <1>K, <2>1 DEF Fit
<1>5. \A x \in wire' : OfIn(x, row') = a => Fit(x, a, row', cred', maker', found')
  BY <1>1, <1>3, <1>4 DEF InOrder
<1>6. \A x, y \in wire' : OfIn(x, row') = a /\ OfIn(y, row') = a => x = y
  BY <1>1, <1>3 DEF InOrder
<1>7. wallet'[a].phase \in {"new"} \cup Ended => \A x \in wire' : OfIn(x, row') # a
  BY <1>1, <1>3 DEF InOrder
<1>8. wallet'[a].phase \in {"asked", "coded", "proved"} => \E x \in wire' : OfIn(x, row') = a
  BY <1>1, <1>2 DEF InOrder
<1>9. /\ wallet'[a].phase # "failed"
      /\ wallet'[a].phase = "refused" => Hindered(a, row', cred', maker', found')
      /\ wallet'[a].phase = "new" => Fresh(a, row', cred', maker', found')
  BY <1>1, <1>K DEF InOrder
<1> QED BY <1>5, <1>6, <1>7, <1>8, <1>9 DEF InOrder

\* The message taken was the only one, and has one answer.
LEMMA AnsweredInOrder ==
  ASSUME OInv, NEW a \in clean, Sensible(plan[a]), NEW m \in wire, OfIn(m, row) = a,
         Kept(row, cred, row', cred'), NEW x, Taken(m, {x}), a \in clean',
         wallet'[a].phase \in {"asked", "coded", "proved"},
         OfIn(x, row') = a, Fit(x, a, row', cred', maker', found')
  PROVE  InOrder(a, wallet'[a], wire', row', cred', maker', found')
<1>1. wire' = (wire \ {m}) \cup {x}
  BY OfInOf DEF Taken, Becomes
<1>2. \A y \in wire : OfIn(y, row) = a => y = m
  BY DEF OInv, OrderOK, InOrder
<1>3. \A y \in wire : OfIn(y, row') = OfIn(y, row)
  BY OfKept DEF OInv
<1>4. \A y \in wire' : OfIn(y, row') = a => y = x
  BY <1>1, <1>2, <1>3
<1>5. wallet'[a].phase \notin {"new"} \cup Ended
  BY DEF Ended
<1>6. wallet'[a].phase \notin {"failed", "refused", "new"}
  OBVIOUS
<1> QED BY <1>1, <1>4, <1>5, <1>6 DEF InOrder

\* The message taken was the only one, and the attempt ends with it.
LEMMA EndedInOrder ==
  ASSUME OInv, NEW a \in clean, Sensible(plan[a]), NEW m \in wire, OfIn(m, row) = a,
         row' = row, cred' = cred, didVars' = didVars, Taken(m, {}), a \in clean',
         \/ wallet'[a].phase \in {"denied", "done"}
         \/ wallet'[a].phase = "refused" /\ Hindered(a, row, cred, maker, found)
  PROVE  InOrder(a, wallet'[a], wire', row', cred', maker', found')
<1>1. wire' = wire \ {m}
  BY OfInOf DEF Taken, Becomes
<1>2. \A y \in wire : OfIn(y, row) = a => y = m
  BY DEF OInv, OrderOK, InOrder
<1>3. \A y \in wire' : OfIn(y, row') # a
  BY <1>1, <1>2
<1>4. wallet'[a].phase = "refused" => Hindered(a, row', cred', maker', found')
  BY DEF didVars
<1>5. wallet'[a].phase \notin {"failed", "new", "asked", "coded", "proved"}
  OBVIOUS
<1> QED BY <1>3, <1>4, <1>5, SMT DEF InOrder

\* What a taken message leaves to the attempts of others.
LEMMA TakenLeaves ==
  ASSUME NEW m, NEW more, Taken(m, more)
  PROVE  /\ wire' \subseteq wire \cup more
         /\ \A a : a # OfIn(m, row) => \A x \in wire : OfIn(x, row) = a => x \in wire'
         /\ clean' \subseteq clean
BY DEF Taken, Becomes

-----------------------------------------------------------------------------
(***************************************************************************)
(* The handlers of the backend, in order.                                  *)
(***************************************************************************)
LEMMA OfMessage ==
  ASSUME NEW kind, NEW a \in Attempts, NEW s, NEW n, NEW rs
  PROVE  /\ OfIn(Message(kind, a, s, n), rs) = a
         /\ Message(kind, a, s, n).kind = kind /\ Message(kind, a, s, n).s = s
         /\ Message(kind, a, s, n).n = n
BY NobodyElse DEF OfIn, Message

LEMMA OfNo == ASSUME NEW a \in Attempts, NEW rs PROVE OfIn(No(a), rs) = a
BY OfMessage DEF No

LEMMA AskedRowsSame ==
  ASSUME AskedRowsOK, row' = row, plan' = plan
  PROVE  AskedRowsOK'
BY DEF AskedRowsOK, TypesKnown

\* A row gets a new code or nonce, or its claim is used.
LEMMA RowMoved ==
  ASSUME OInv, NEW s \in States, NEW r2, plan' = plan,
         \/ r2 = [row[s] EXCEPT !.code = @ + 1]
         \/ r2 = [row[s] EXCEPT !.nonce = @ + 1]
         \/ r2 = [row[s] EXCEPT !.claimed = TRUE],
         row' = [row EXCEPT ![s] = r2], Kept(row, cred, row, cred')
  PROVE  /\ Kept(row, cred, row', cred') /\ AskedRowsOK'
         /\ row'[s] = r2 /\ r2 \in Row /\ r2.live = row[s].live /\ r2.by = row[s].by
         /\ r2.told = row[s].told
         /\ \A x \in States : x # s => row'[x] = row[x]
<1>1. row[s] \in Row /\ \A x \in States : row'[x] = IF x = s THEN r2 ELSE row[x]
  BY SMT DEF OInv, EInv, EType
<1>2. r2 \in Row /\ r2.live = row[s].live /\ r2.by = row[s].by /\ r2.told = row[s].told
      /\ r2.challenge = row[s].challenge /\ r2.offer = row[s].offer
  BY <1>1, RowMoves
<1>3. Kept(row, cred, row', cred')
  BY <1>1, <1>2 DEF Kept
<1>4. AskedRowsOK'
  BY <1>1, <1>2 DEF OInv, AskedRowsOK, TypesKnown
<1> QED BY <1>1, <1>2, <1>3, <1>4

\* A refused message: the attempt it is of was not a sensible one in order.
LEMMA RefuseOrder ==
  ASSUME OInv, NEW m \in wire, Refuse(m),
         m.kind \in {"authorize", "token", "preToken", "credential", "idPost", "vpPost", "poll"},
         ~(OfIn(m, row) \in clean /\ Sensible(plan[OfIn(m, row)]))
  PROVE  AskedRowsOK' /\ OrderOK' /\ clean' \subseteq clean
<1>1. Of(m) \in Attempts /\ Of(m) = OfIn(m, row)
  BY OfAttempt, OfInOf DEF OInv
<1>2. Taken(m, {No(Of(m))}) /\ plan' = plan /\ row' = row /\ cred' = cred /\ wallet' = wallet
      /\ didVars' = didVars
  BY DEF Refuse
<1>3. wire' \subseteq wire \cup {No(Of(m))} /\ clean' \subseteq clean
      /\ \A a : a # OfIn(m, row) => \A x \in wire : OfIn(x, row) = a => x \in wire'
  BY <1>2, TakenLeaves
<1>4. OfIn(No(Of(m)), row') = Of(m) /\ Kept(row, cred, row', cred')
  BY <1>1, <1>2, OfNo, KeptSame
<1>5. OrderOK'
  <2> SUFFICES ASSUME NEW a \in clean', Sensible(plan[a])
               PROVE  InOrder(a, wallet'[a], wire', row', cred', maker', found')
    BY <1>2 DEF OrderOK
  <2>1. a \in clean /\ a # OfIn(m, row)
    BY <1>3
  <2>2. \A x \in {No(Of(m))} : OfIn(x, row') # a
    BY <2>1, <1>1, <1>4
  <2>3. \A x \in wire : OfIn(x, row) = a => x \in wire'
    BY <2>1, <1>3
  <2>4. \A s \in States : row'[s].code = row[s].code /\ row'[s].nonce = row[s].nonce
    BY <1>2
  <2>5. wallet'[a] = wallet[a]
    BY <1>2
  <2> DEFINE more == {No(Of(m))}
  <2>6. wire' \subseteq wire \cup more /\ \A x \in more : OfIn(x, row') # a
    BY <1>3, <2>2
  <2>E. Elsewhere(Of(m)) /\ a # Of(m)
    BY <2>1, <1>1, <1>2, NothingElsewhere
  <2> HIDE DEF more
  <2> QED BY <2>1, <2>3, <2>4, <2>5, <2>6, <2>E, <1>4, OthersInOrder
<1> QED BY <1>2, <1>3, <1>5, AskedRowsSame DEF OInv

LEMMA LateOrder ==
  ASSUME OInv, NEW m \in wire, Late(m)
  PROVE  AskedRowsOK' /\ OrderOK' /\ clean' \subseteq clean
<1>1. Of(m) \in Attempts /\ Of(m) = OfIn(m, row)
  BY OfAttempt, OfInOf DEF OInv, Late, Lapsing
<1>2. wire' = (wire \ {m}) \cup {No(Of(m))} /\ plan' = plan /\ row' = row /\ cred' = cred
      /\ wallet' = wallet /\ didVars' = didVars /\ clean' = clean \ {Of(m)}
  BY DEF Late, Lapsing
<1>3. OfIn(No(Of(m)), row') = Of(m) /\ Kept(row, cred, row', cred')
  BY <1>1, <1>2, OfNo, KeptSame
<1>4. OrderOK'
  <2> SUFFICES ASSUME NEW a \in clean', Sensible(plan[a])
               PROVE  InOrder(a, wallet'[a], wire', row', cred', maker', found')
    BY <1>2 DEF OrderOK
  <2>1. a \in clean /\ a # OfIn(m, row)
    BY <1>1, <1>2
  <2>2. wire' \subseteq wire \cup {No(Of(m))}
        /\ \A x \in wire : OfIn(x, row) = a => x \in wire'
    BY <1>2, <2>1
  <2>3. \A x \in {No(Of(m))} : OfIn(x, row') # a
    BY <2>1, <1>1, <1>3
  <2>4. wallet'[a] = wallet[a]
        /\ \A s \in States : row'[s].code = row[s].code /\ row'[s].nonce = row[s].nonce
    BY <1>2
  <2> DEFINE more == {No(Of(m))}
  <2>5. wire' \subseteq wire \cup more /\ \A x \in more : OfIn(x, row') # a
    BY <2>2, <2>3
  <2>E. Elsewhere(Of(m)) /\ a # Of(m)
    BY <2>1, <1>1, <1>2, NothingElsewhere
  <2> HIDE DEF more
  <2> QED BY <2>1, <2>2, <2>4, <2>5, <2>E, <1>3, OthersInOrder
<1> QED BY <1>2, <1>4, AskedRowsSame DEF OInv

\* One message is answered with one other of the same attempt, and a row of
\* nobody else changes.
LEMMA OneAnswer ==
  ASSUME OInv, NEW m \in wire, NEW x, Taken(m, {x}), plan' = plan, AskedRowsOK',
         Elsewhere(OfIn(m, row)),
         Kept(row, cred, row', cred'), OfIn(x, row') = OfIn(m, row),
         \A a : a # OfIn(m, row) => wallet'[a] = wallet[a],
         \A s \in States : row[s].live /\ row[s].by # OfIn(m, row) =>
             row'[s].code = row[s].code /\ row'[s].nonce = row[s].nonce,
         ASSUME NEW a \in clean, Sensible(plan[a]), a = OfIn(m, row), Fit(m, a, row, cred, maker, found),
                wallet[a].phase \in {"asked", "coded", "proved"}
         PROVE  /\ wallet'[a].phase \in {"asked", "coded", "proved"}
                /\ Fit(x, a, row', cred', maker', found')
  PROVE  AskedRowsOK' /\ OrderOK' /\ clean' \subseteq clean
<1>1. wire' \subseteq wire \cup {x} /\ clean' \subseteq clean
      /\ \A a : a # OfIn(m, row) => \A y \in wire : OfIn(y, row) = a => y \in wire'
  BY TakenLeaves
<1>2. OrderOK'
  <2> SUFFICES ASSUME NEW a \in clean', Sensible(plan[a])
               PROVE  InOrder(a, wallet'[a], wire', row', cred', maker', found')
    BY DEF OrderOK
  <2>1. a \in clean
    BY <1>1
  <2>2. CASE a # OfIn(m, row)
    <3>1. wallet'[a] = wallet[a] /\ OfIn(x, row') # a
          /\ \A y \in wire : OfIn(y, row) = a => y \in wire'
      BY <2>2, <1>1
    <3>2. \A s \in States : row[s].live /\ row[s].by = a =>
             row'[s].code = row[s].code /\ row'[s].nonce = row[s].nonce
      BY <2>2
    <3>3. \A y \in {x} : OfIn(y, row') # a
      BY <3>1
    <3> QED BY <2>1, <3>1, <3>2, <3>3, <1>1, OthersInOrder
  <2>3. CASE a = OfIn(m, row)
    <3>1. InOrder(a, wallet[a], wire, row, cred, maker, found)
      BY <2>1 DEF OInv, OrderOK
    <3>2. Fit(m, a, row, cred, maker, found) /\ wallet[a].phase \in {"asked", "coded", "proved"}
      <4>1. wallet[a].phase \in Phases /\ wallet[a].phase \notin {"new"} \cup Ended
        BY <3>1, <2>1, <2>3, SMT DEF InOrder, OInv, EInv, EType, Wallet
      <4> QED BY <3>1, <4>1, <2>3 DEF InOrder, Phases
    <3>3. wallet'[a].phase \in {"asked", "coded", "proved"} /\ Fit(x, a, row', cred', maker', found')
      BY <2>1, <2>3, <3>2
    <3> QED BY <2>1, <2>3, <3>3, AnsweredInOrder
  <2> QED BY <2>2, <2>3
<1> QED BY <1>1, <1>2

LEMMA FitNow ==
  ASSUME OInv, NEW m \in wire, OfIn(m, row) \in clean, Sensible(plan[OfIn(m, row)])
  PROVE  Fit(m, OfIn(m, row), row, cred, maker, found)
BY DEF OInv, OrderOK, InOrder

LEMMA AuthorizeOrder ==
  ASSUME OInv, NEW m \in wire, Authorize(m)
  PROVE  AskedRowsOK' /\ OrderOK' /\ clean' \subseteq clean
<1> DEFINE p == plan[m.a]
           s == NewRow
           y == IF p.scope = "vpTest" /\ ~p.vpType THEN No(m.a) ELSE AskedFor(p, s)
<1>1. m.kind = "authorize" /\ m.a \in Attempts /\ OfIn(m, row) = m.a
  BY OfOwn DEF OInv, Authorize
<1>2. CASE ~Admitted(p)
  BY <1>1, <1>2, RefuseOrder DEF Authorize, Sensible
<1>3. CASE Admitted(p)
  <2>1. s \in States /\ ~row[s].live /\ row' = [row EXCEPT ![s] = AuthState(m.a, s)]
        /\ plan' = plan /\ wallet' = wallet /\ cred' = cred /\ didVars' = didVars
    BY <1>3, <1>1, NewRowIsFree DEF Authorize
  <2>2. Taken(m, {y})
    BY <1>3 DEF Authorize
  <2> DEFINE r == AuthState(m.a, s)
  <2>3. /\ r \in Row /\ r.live /\ r.by = m.a /\ r.told \in {m.a, Nobody}
        /\ r.challenge \in {m.a, Nobody}
        /\ GivesState(p) => r.told = m.a
        /\ GivesChallenge(p) => r.challenge = m.a
        /\ p.scope = "openid" => r.offer = p.offer
        /\ p.scope = "presentation" => r.offer = s
    <3>1. plan \in [Attempts -> Plan]
      BY DEF OInv, EInv, EType
    <3> QED BY <1>1, <2>1, <3>1, AuthStateOK
  <2>4. Kept(row, cred, row', cred')
    <3>1. row' = [row EXCEPT ![s] = r]
      BY <2>1
    <3> HIDE DEF r, s, p
    <3>2. Kept(row, cred, row', cred)
      BY <1>1, <2>1, <2>3, <3>1, RowStep DEF OInv
    <3> QED BY <2>1, <3>2
  <2>5. \A x \in States : row'[x] = IF x = s THEN r ELSE row[x]
    BY <2>1 DEF OInv, EInv, EType
  <2>6. Sensible(p) => /\ r.told = m.a /\ r.challenge = m.a
                       /\ r.offer # Nobody \/ (p.scope = "openid" /\ OpenidMapped)
    <3> HAVE Sensible(p)
    <3>1. p.scope \in Scopes
      BY <1>1 DEF OInv, EInv, EType, Plan
    <3>2. p.scope \in {"openid", "presentation"}
      BY <3>1 DEF Sensible, Admitted, Tests, Scopes
    <3>3. s # Nobody
      BY <2>1, NobodyElse
    <3> HIDE DEF p, r, s
    <3> QED BY <2>3, <3>2, <3>3 DEF Sensible, GivesState, GivesChallenge
  <2>7. AskedRowsOK'
    <3> SUFFICES ASSUME NEW x \in States, row'[x].live, Sensible(plan[row'[x].by])
                 PROVE  row'[x].told = row'[x].by /\ row'[x].challenge = row'[x].by
                        /\ TypesKnown(x)'
      BY <2>1 DEF AskedRowsOK
    <3>1. CASE x = s
      <4>1. row'[x] = r /\ plan[row'[x].by] = p
        BY <2>3, <2>5, <3>1
      <4> HIDE DEF r, p, s
      <4> QED BY <2>1, <2>3, <2>6, <4>1 DEF TypesKnown
    <3>2. CASE x # s
      <4>1. row'[x] = row[x]
        BY <2>5, <3>2
      <4> HIDE DEF r, p, s
      <4> QED BY <2>1, <4>1 DEF OInv, AskedRowsOK, TypesKnown
    <3> QED BY <3>1, <3>2
  <2>8. OfIn(AskedFor(p, s), row') = m.a
    <3>1. s # Nobody /\ row'[s].by = m.a
      BY <2>1, <2>3, <2>5, NobodyElse
    <3> HIDE DEF s
    <3> QED BY <3>1 DEF OfIn, AskedFor, IdRequest, VpRequest, Message
  <2>9. AskedFor(p, s).kind \in {"idRequest", "vpRequest"}
    BY DEF AskedFor, IdRequest, VpRequest, Message
  <2>10. OfIn(y, row') = m.a
    BY <1>1, <2>8, OfNo
  <2>11. ASSUME NEW a \in clean, Sensible(plan[a]), a = OfIn(m, row), Fit(m, a, row, cred, maker, found),
                wallet[a].phase \in {"asked", "coded", "proved"}
         PROVE  wallet'[a].phase \in {"asked", "coded", "proved"} /\ Fit(y, a, row', cred', maker', found')
    <3>1. y = AskedFor(p, s)
      BY <2>11, <1>1 DEF Sensible, Tests
    <3>2. y.kind \in {"idRequest", "vpRequest"}
      BY <3>1, <2>9
    <3>3. a \in Attempts /\ Fresh(a, row, cred, maker, found)
      BY <1>1, <2>11, SMT DEF Fit, Asking, OInv
    <3>4. Fresh(a, row', cred', maker', found')
      BY <2>1, <2>4, <3>3, AllKeep DEF OInv
    <3> HIDE DEF y
    <3> QED BY <2>1, <2>11, <3>2, <3>4, SMT DEF Fit
  <2>12. \A x \in States : row[x].live => row'[x] = row[x]
    BY <2>1, <2>5
  <2>E. Elsewhere(OfIn(m, row))
    BY <2>1, NothingElsewhere
  <2> HIDE DEF p, s, y, r
  <2> QED BY <1>1, <2>1, <2>2, <2>4, <2>7, <2>10, <2>11, <2>12, <2>E, OneAnswer
<1> QED BY <1>2, <1>3

LEMMA CodedOrder ==
  ASSUME OInv, NEW m \in wire, m.kind \in {"idPost", "vpPost"}, Coded(m, m.s)
  PROVE  AskedRowsOK' /\ OrderOK' /\ clean' \subseteq clean
<1> DEFINE s    == m.s
           b    == row[s].by
           r    == [row[s] EXCEPT !.code = @ + 1]
           code == Message("code", row[s].told, s, row'[s].code)
           y    == IF plan[b].redirect THEN code ELSE No(b)
<1>1. s \in States /\ row[s].live /\ row[s] \in Row /\ b \in Attempts /\ OfIn(m, row) = b
  BY OfAsked DEF OInv, Live
<1>2. row[s].told \in {b, Nobody}
  BY <1>1 DEF OInv, EInv, RowsOK
<1>3. row' = [row EXCEPT ![s] = r] /\ plan' = plan /\ wallet' = wallet /\ cred' = cred
      /\ didVars' = didVars
  BY DEF Coded
<1>4. Taken(m, {y})
  BY DEF Coded
<1>5. /\ Kept(row, cred, row', cred') /\ AskedRowsOK'
      /\ row'[s] = r /\ r.live = row[s].live /\ r.by = row[s].by /\ r.told = row[s].told
      /\ \A x \in States : x # s => row'[x] = row[x]
  <2>1. Kept(row, cred, row, cred')
    BY <1>3, KeptSame
  <2>2. r = [row[s] EXCEPT !.code = @ + 1]
    OBVIOUS
  <2> HIDE DEF s, r
  <2> QED BY <1>1, <1>3, <2>1, <2>2, RowMoved
<1>6. OwnRow(s, b, row') /\ s # Nobody
  BY <1>1, <1>5, NobodyElse DEF OwnRow, Live
<1>7. code.kind = "code" /\ code.s = s /\ code.n = row'[s].code /\ OfIn(code, row') = b
  BY <1>1, <1>2, <1>6, NobodyElse DEF Message, OfIn, OwnRow
<1>8. OfIn(y, row') = OfIn(m, row)
  BY <1>1, <1>7, OfNo
<1>9. ASSUME NEW a \in clean, Sensible(plan[a]), a = OfIn(m, row), Fit(m, a, row, cred, maker, found),
             wallet[a].phase \in {"asked", "coded", "proved"}
      PROVE  wallet'[a].phase \in {"asked", "coded", "proved"} /\ Fit(y, a, row', cred', maker', found')
  <2>1. y = code
    BY <1>1, <1>9 DEF Sensible
  <2>2. y.kind = "code" /\ OwnRow(y.s, a, row') /\ row'[y.s].code = y.n
    BY <2>1, <1>1, <1>6, <1>7, <1>9
  <2>3. a \in Attempts /\ Fresh(a, row, cred, maker, found)
    BY <1>9, SMT DEF Fit, Asking, OInv
  <2>4. Fresh(a, row', cred', maker', found')
    BY <1>3, <1>5, <2>3, AllKeep DEF OInv
  <2> HIDE DEF y
  <2> QED BY <1>3, <1>9, <2>2, <2>4, SMT DEF Fit
<1>10. \A x \in States : row[x].live /\ row[x].by # OfIn(m, row) => row'[x] = row[x]
  BY <1>1, <1>5
<1>E. Elsewhere(OfIn(m, row))
  BY <1>3, NothingElsewhere
<1> HIDE DEF s, b, r, y
<1> QED BY <1>3, <1>4, <1>5, <1>8, <1>9, <1>10, <1>E, OneAnswer

LEMMA PostVpOrder ==
  ASSUME OInv, NEW m \in wire, PostVp(m)
  PROVE  AskedRowsOK' /\ OrderOK' /\ clean' \subseteq clean
<1>1. m.kind = "vpPost" /\ m.s \in States /\ row[m.s].live /\ row[m.s].by \in Attempts
      /\ OfIn(m, row) = row[m.s].by
  BY OfAsked DEF OInv, Live, PostVp, Denied
<1>2. CASE ~plan[row[m.s].by].redirect
  BY <1>1, <1>2, RefuseOrder DEF PostVp, Denied, Sensible
<1>3. CASE Coded(m, m.s)
  BY <1>1, <1>3, CodedOrder
<1>4. CASE /\ Taken(m, {Message("error", row[m.s].told, m.s, 0)})
           /\ UNCHANGED <<plan, wallet, row, cred, didVars>>
  <2> DEFINE x == Message("error", row[m.s].told, m.s, 0)
  <2>1. row[m.s].told \in {row[m.s].by, Nobody} /\ m.s # Nobody
    BY <1>1, NobodyElse DEF OInv, EInv, RowsOK
  <2>2. x.kind = "error" /\ OfIn(x, row') = OfIn(m, row)
    BY <1>1, <1>4, <2>1, NobodyElse DEF Message, OfIn
  <2>3. Taken(m, {x}) /\ plan' = plan /\ wallet' = wallet /\ row' = row /\ cred' = cred
        /\ didVars' = didVars
    BY <1>4
  <2>4. AskedRowsOK' /\ Kept(row, cred, row', cred')
    BY <2>3, AskedRowsSame, KeptSame DEF OInv
  <2> HIDE DEF x
  <2>6. ASSUME NEW a \in clean, Fit(m, a, row, cred, maker, found),
               wallet[a].phase \in {"asked", "coded", "proved"}
        PROVE  wallet'[a].phase \in {"asked", "coded", "proved"}
               /\ Fit(x, a, row', cred', maker', found')
    <3>1. a \in Attempts /\ Fresh(a, row, cred, maker, found)
      BY <1>1, <2>6, SMT DEF Fit, Asking, OInv
    <3>2. Fresh(a, row', cred', maker', found')
      BY <2>3, <2>4, <3>1, AllKeep DEF OInv
    <3> QED BY <2>2, <2>3, <2>6, <3>2, SMT DEF Fit
  <2>7. \A z \in States : row'[z].code = row[z].code /\ row'[z].nonce = row[z].nonce
    BY <2>3
  <2>8. \A a : wallet'[a] = wallet[a]
    BY <2>3
  <2>E. Elsewhere(OfIn(m, row))
    BY <2>3, NothingElsewhere
  <2> QED BY <2>2, <2>3, <2>4, <2>6, <2>7, <2>8, <2>E, OneAnswer
<1> QED BY <1>2, <1>3, <1>4 DEF PostVp, Denied

LEMMA TokenedOrder ==
  ASSUME OInv, NEW m \in wire, Tokened(m, m.s), OwnRow(m.s, m.a, row),
         m.kind \in {"token", "preToken"}
  PROVE  AskedRowsOK' /\ OrderOK' /\ clean' \subseteq clean
<1> DEFINE s == m.s
           r == [row[s] EXCEPT !.nonce = @ + 1]
           x == Message("nonce", m.a, s, row'[s].nonce)
<1>1. s \in States /\ row[s].live /\ row[s].by = m.a /\ m.a \in Attempts
      /\ OfIn(m, row) = m.a
  BY NobodyElse DEF OwnRow, Live, OfIn
<1>2. row' = [row EXCEPT ![s] = r] /\ Taken(m, {x}) /\ plan' = plan /\ wallet' = wallet
      /\ cred' = cred /\ didVars' = didVars
  BY DEF Tokened
<1>3. /\ Kept(row, cred, row', cred') /\ AskedRowsOK'
      /\ row'[s] = r /\ r.live = row[s].live /\ r.by = row[s].by
      /\ \A z \in States : z # s => row'[z] = row[z]
  <2>1. Kept(row, cred, row, cred')
    BY <1>2, KeptSame
  <2>2. r = [row[s] EXCEPT !.nonce = @ + 1]
    OBVIOUS
  <2> HIDE DEF s, r, x
  <2> QED BY <1>1, <1>2, <2>1, <2>2, RowMoved
<1>4. OwnRow(s, m.a, row')
  BY <1>1, <1>3 DEF OwnRow, Live
<1>5. x.kind = "nonce" /\ x.s = s /\ x.n = row'[s].nonce /\ OfIn(x, row') = m.a
  <2> HIDE DEF s
  <2> QED BY <1>1, OfMessage
<1>6. \A z \in States : row[z].live /\ row[z].by # OfIn(m, row) => row'[z] = row[z]
  BY <1>1, <1>3
<1> HIDE DEF s, r, x
<1>8. ASSUME NEW a \in clean, a = OfIn(m, row), Fit(m, a, row, cred, maker, found),
             wallet[a].phase \in {"asked", "coded", "proved"}
      PROVE  wallet'[a].phase \in {"asked", "coded", "proved"}
             /\ Fit(x, a, row', cred', maker', found')
  <2>1. a = m.a /\ a \in Attempts /\ Fresh(a, row, cred, maker, found)
    BY <1>1, <1>8, SMT DEF Fit, Asking
  <2>2. Fresh(a, row', cred', maker', found')
    BY <1>2, <1>3, <2>1, AllKeep DEF OInv
  <2> QED BY <1>2, <1>4, <1>5, <1>8, <2>1, <2>2, SMT DEF Fit
<1>9. \A s2 \in States : row[s2].live /\ row[s2].by # OfIn(m, row) =>
          row'[s2].code = row[s2].code /\ row'[s2].nonce = row[s2].nonce
  BY <1>6
<1>10. OfIn(x, row') = OfIn(m, row) /\ Taken(m, {x}) /\ plan' = plan /\ wallet' = wallet
  BY <1>1, <1>2, <1>5
<1>11. Elsewhere(OfIn(m, row))
  BY <1>2, NothingElsewhere
<1> QED BY <1>3, <1>8, <1>9, <1>10, <1>11, OneAnswer

LEMMA TokenOrder ==
  ASSUME OInv, NEW m \in wire, Token(m)
  PROVE  AskedRowsOK' /\ OrderOK' /\ clean' \subseteq clean
<1>1. m.kind = "token" /\ m.a \in Attempts /\ OfIn(m, row) = m.a /\ Live(m.s, row)
  BY OfOwn, SMT DEF OInv, EInv, WireOK, MsgOK, Token
<1>2. CASE row[m.s].code = m.n /\ Verifies(m.a, m.s)
  <2>1. row[m.s].by = m.a
    BY <1>1, <1>2, NobodyElse DEF Verifies, Live, OInv, EInv, RowsOK
  <2>2. OwnRow(m.s, m.a, row)
    BY <1>1, <2>1 DEF OwnRow
  <2> QED BY <1>1, <1>2, <2>2, TokenedOrder DEF Token
<1>3. CASE ~(row[m.s].code = m.n /\ Verifies(m.a, m.s))
  <2>1. ~(OfIn(m, row) \in clean /\ Sensible(plan[OfIn(m, row)]))
    <3> SUFFICES ASSUME m.a \in clean, Sensible(plan[m.a]) PROVE FALSE
      BY <1>1
    <3>1. OwnRow(m.s, m.a, row) /\ row[m.s].code = m.n
      BY <1>1, FitNow DEF Fit
    <3>2. row[m.s].challenge = m.a
      BY <3>1 DEF OInv, AskedRowsOK, OwnRow, Live
    <3> QED BY <1>3, <3>1, <3>2 DEF Verifies
  <2> QED BY <1>1, <1>3, <2>1, RefuseOrder DEF Token
<1> QED BY <1>2, <1>3

LEMMA PreTokenOrder ==
  ASSUME OInv, NEW m \in wire, PreToken(m)
  PROVE  AskedRowsOK' /\ OrderOK' /\ clean' \subseteq clean
<1>1. m.kind = "preToken" /\ OwnRow(m.s, m.a, row)
  BY SMT DEF OInv, EInv, WireOK, MsgOK, PreToken, PinRight
<1>2. CASE plan[m.a].pin
  BY <1>1, <1>2, TokenedOrder DEF PreToken, PinRight
<1>3. CASE ~plan[m.a].pin
  <2>1. ~(OfIn(m, row) \in clean /\ Sensible(plan[OfIn(m, row)]))
    BY <1>1, FitNow DEF Fit
  <2> QED BY <1>1, <1>3, <2>1, RefuseOrder DEF PreToken, PinRight
<1> QED BY <1>2, <1>3

LEMMA CredentialOrder ==
  ASSUME OInv, NEW m \in wire, Credential(m)
  PROVE  AskedRowsOK' /\ OrderOK' /\ clean' \subseteq clean
<1>1. m.kind = "credential" /\ OwnRow(m.s, m.a, row) /\ OfIn(m, row) = m.a
  BY OfOwn, SMT DEF OInv, EInv, WireOK, MsgOK, Credential
<1>2. m.s \in States /\ row[m.s].live /\ row[m.s].by = m.a /\ m.a \in Attempts
  BY <1>1 DEF OwnRow, Live
<1>3. CASE ~Proven(m) \/ ~TypesKnown(m.s)
  <2>1. ~(OfIn(m, row) \in clean /\ Sensible(plan[OfIn(m, row)]))
    <3> SUFFICES ASSUME m.a \in clean, Sensible(plan[m.a]) PROVE FALSE
      BY <1>1
    <3>1. row[m.s].nonce = m.n
      BY <1>1, FitNow DEF Fit
    <3>2. Proven(m)
      BY <1>2, <3>1 DEF Proven
    <3>3. TypesKnown(m.s)
      BY <1>2 DEF OInv, AskedRowsOK
    <3> QED BY <1>3, <3>2, <3>3
  <2> QED BY <1>1, <1>3, <2>1, RefuseOrder DEF Credential
<1>4. CASE ~(~Proven(m) \/ ~TypesKnown(m.s))
  <2> DEFINE known == maker[HolderOf[m.a]] # Nobody
             kind  == IF known THEN "recording" ELSE "adding"
             n     == CHOOSE x \in FreeWorkers : TRUE
             y     == Message(kind, m.a, m.s, n)
  <2>1. Taken(m, {y}) /\ plan' = plan /\ wallet' = wallet /\ row' = row /\ cred' = cred
        /\ maker' = maker /\ found' = IF known THEN found \cup {m.a} ELSE found
    BY <1>1, <1>4 DEF Credential
  <2>2. y.kind = kind /\ OfIn(y, row') = m.a
    BY <1>2, OfMessage
  <2>3. AskedRowsOK' /\ Kept(row, cred, row', cred')
    BY <2>1, AskedRowsSame, KeptSame DEF OInv
  <2>4. Elsewhere(m.a)
    BY <2>1 DEF Elsewhere
  <2>5. known => y.kind = "recording"
    BY <2>2
  <2>6. ~known => y.kind = "adding"
    BY <2>2
  <2> HIDE DEF y
  <2>7. ASSUME NEW a \in clean, a = OfIn(m, row), Fit(m, a, row, cred, maker, found),
               wallet[a].phase \in {"asked", "coded", "proved"}
        PROVE  wallet'[a].phase \in {"asked", "coded", "proved"}
               /\ Fit(y, a, row', cred', maker', found')
    <3>1. a = m.a /\ Fresh(a, row, cred, maker, found)
      BY <1>1, <2>7, SMT DEF Fit, Asking
    <3>2. CASE known
      BY <2>1, <2>5, <2>7, <3>1, <3>2, SMT DEF Fit, Asking, Fresh
    <3>3. CASE ~known
      <4>1. found' = found
        BY <2>1, <3>3
      <4> QED BY <2>1, <2>6, <2>7, <3>1, <3>3, <4>1, SMT DEF Fit, Asking
    <3> QED BY <3>2, <3>3
  <2>8. \A a : wallet'[a] = wallet[a]
    BY <2>1
  <2>9. \A z \in States : row'[z].code = row[z].code /\ row'[z].nonce = row[z].nonce
    BY <2>1
  <2> QED BY <1>1, <2>1, <2>2, <2>3, <2>4, <2>7, <2>8, <2>9, OneAnswer
<1> QED BY <1>3, <1>4

\* A request under way fails, for one of the reasons.
LEMMA FailOrder ==
  ASSUME OInv, NEW m \in wire, m.kind \in UnderWay, FailRequest(m),
         Fit(m, m.a, row, cred, maker, found) => Hindered(m.a, row, cred, maker, found)
  PROVE  AskedRowsOK' /\ OrderOK' /\ clean' \subseteq clean
<1> DEFINE y == No(m.a)
<1>1. m.a \in Attempts /\ OfIn(m, row) = m.a
  BY OfOwn DEF OInv, UnderWay
<1>2. Taken(m, {y}) /\ plan' = plan /\ wallet' = wallet /\ row' = row /\ cred' = cred
      /\ didVars' = didVars
  BY BecomesTaken DEF FailRequest
<1>3. y.kind = "no" /\ OfIn(y, row') = m.a
  BY <1>1, OfNo DEF No, Message
<1>4. AskedRowsOK' /\ Kept(row, cred, row', cred')
  BY <1>2, AskedRowsSame, KeptSame DEF OInv
<1>5. Elsewhere(OfIn(m, row))
  BY <1>2, NothingElsewhere
<1> HIDE DEF y
<1>6. ASSUME NEW a \in clean, a = OfIn(m, row), Fit(m, a, row, cred, maker, found),
             wallet[a].phase \in {"asked", "coded", "proved"}
      PROVE  wallet'[a].phase \in {"asked", "coded", "proved"}
             /\ Fit(y, a, row', cred', maker', found')
  <2>1. Hindered(a, row', cred', maker', found')
    <3>1. Hindered(a, row, cred, maker, found)
      BY <1>1, <1>6
    <3> QED BY <1>2, <3>1 DEF didVars
  <2> QED BY <1>2, <1>3, <1>6, <2>1, SMT DEF Fit, Asking
<1>7. \A a : wallet'[a] = wallet[a]
  BY <1>2
<1>8. \A z \in States : row'[z].code = row[z].code /\ row'[z].nonce = row[z].nonce
  BY <1>2
<1> QED BY <1>1, <1>2, <1>3, <1>4, <1>5, <1>6, <1>7, <1>8, OneAnswer

\* A did row that was not there and is: another attempt's request made it.
LEMMA AddDidOrder ==
  ASSUME OInv, NEW m \in wire, AddDid(m)
  PROVE  AskedRowsOK' /\ OrderOK' /\ clean' \subseteq clean
<1> DEFINE h == HolderOf[m.a]
<1>1. m.kind = "adding" /\ m.a \in Attempts /\ OfIn(m, row) = m.a /\ h \in Holders
  BY OfOwn DEF OInv, AddDid, Holders
<1>2. CASE maker[h] # Nobody
  <2>1. FailRequest(m) /\ m.kind \in UnderWay
    BY <1>1, <1>2 DEF AddDid, UnderWay
  <2>2. ASSUME Fit(m, m.a, row, cred, maker, found) PROVE Hindered(m.a, row, cred, maker, found)
    <3>1. Fresh(m.a, row, cred, maker, found)
      BY <1>1, <2>2, SMT DEF Fit, Asking
    <3> QED BY <1>2, <3>1 DEF Fresh, Hindered
  <2> QED BY <2>1, <2>2, FailOrder
<1>3. CASE maker[h] = Nobody
  <2> DEFINE y == Message("recording", m.a, m.s, m.n)
  <2>1. Taken(m, {y}) /\ plan' = plan /\ wallet' = wallet /\ row' = row /\ cred' = cred
        /\ maker' = [maker EXCEPT ![h] = m.a] /\ found' = found
    BY <1>3, BecomesTaken DEF AddDid
  <2>2. y.kind = "recording" /\ OfIn(y, row') = m.a
    BY <1>1, OfMessage
  <2>3. AskedRowsOK' /\ Kept(row, cred, row', cred')
    BY <2>1, AskedRowsSame, KeptSame DEF OInv
  <2>4. Elsewhere(m.a)
    <3>1. \A x \in Holders : maker'[x] = IF x = h THEN m.a ELSE maker[x]
      BY <2>1 DEF OInv
    <3> QED BY <1>3, <2>1, <3>1 DEF Elsewhere
  <2> HIDE DEF y, h
  <2>5. ASSUME NEW a \in clean, a = OfIn(m, row), Fit(m, a, row, cred, maker, found),
               wallet[a].phase \in {"asked", "coded", "proved"}
        PROVE  wallet'[a].phase \in {"asked", "coded", "proved"}
               /\ Fit(y, a, row', cred', maker', found')
    <3>1. Unrecorded(a, row, cred)
      BY <1>1, <2>5, SMT DEF Fit, Asking, Fresh
    <3> QED BY <2>1, <2>2, <2>5, <3>1, SMT DEF Fit, Asking
  <2>6. \A a : wallet'[a] = wallet[a]
    BY <2>1
  <2>7. \A z \in States : row'[z].code = row[z].code /\ row'[z].nonce = row[z].nonce
    BY <2>1
  <2> QED BY <1>1, <2>1, <2>2, <2>3, <2>4, <2>5, <2>6, <2>7, OneAnswer
<1> QED BY <1>2, <1>3

\* The record of its offer is another attempt's: this one has none.
LEMMA StoreOrder ==
  ASSUME OInv, NEW m \in wire, Store(m)
  PROVE  AskedRowsOK' /\ OrderOK' /\ clean' \subseteq clean
<1>1. m.kind = "recording" /\ m.a \in Attempts /\ OfIn(m, row) = m.a /\ OwnRow(m.s, m.a, row)
  BY OfOwn, SMT DEF OInv, EInv, WireOK, MsgOK, Store
<1>2. CASE row[m.s].offer # Nobody /\ \E x \in Creds : cred[x].offer = row[m.s].offer
  <2>1. FailRequest(m) /\ m.kind \in UnderWay
    BY <1>1, <1>2 DEF Store, UnderWay
  <2>2. ASSUME Fit(m, m.a, row, cred, maker, found) PROVE Hindered(m.a, row, cred, maker, found)
    <3>1. Unrecorded(m.a, row, cred)
      BY <1>1, <2>2, SMT DEF Fit
    <3>2. PICK x \in Creds : cred[x].offer = row[m.s].offer
      BY <1>2
    <3>3. cred[x].status # "none"
      BY <1>2, <3>2 DEF OInv, EInv, CredsOK
    <3>4. row[cred[x].s].by # m.a
      BY <3>1, <3>3 DEF Unrecorded
    <3> QED BY <1>1, <1>2, <3>2, <3>4 DEF Hindered, OwnRow, Live
  <2> QED BY <2>1, <2>2, FailOrder
<1>3. CASE ~(row[m.s].offer # Nobody /\ \E x \in Creds : cred[x].offer = row[m.s].offer)
  <2>1. plan' = plan /\ wallet' = wallet /\ row' = row /\ didVars' = didVars
    BY <1>3 DEF Store
  <2>2. ~FailRequest(m)
    <3> SUFFICES ASSUME FailRequest(m) PROVE FALSE
      OBVIOUS
    <3> DEFINE free == {x \in Creds : cred[x] = NoCred}
               v    == CHOOSE x \in free : TRUE
               c    == [s |-> m.s, offer |-> row[m.s].offer, status |-> "pending"]
    <3>1. free # {} /\ cred' = [cred EXCEPT ![v] = c]
      BY <1>3 DEF Store
    <3>2. v \in Creds /\ cred[v] = NoCred
      BY <3>1
    <3>3. c # NoCred
      BY SMT DEF NoCred
    <3>4. cred'[v] = c
      BY <3>1, <3>2 DEF OInv, EInv, EType
    <3>5. cred' = cred
      BY DEF FailRequest
    <3> QED BY <3>2, <3>3, <3>4, <3>5
  <2>3. PICK v \in Creds, kind \in {"issuing", "deferred"}, n \in Nat :
            /\ cred[v].status = "none" /\ Becomes(m, {Message(kind, m.a, v, n)})
            /\ cred' \in [Creds -> Record] /\ Kept(row, cred, row, cred')
            /\ cred'[v].s = m.s /\ cred'[v].status = "pending"
            /\ \A x \in Creds : x # v => cred'[x] = cred[x]
    BY <2>2, StoreMakes DEF OInv
  <2> DEFINE y == Message(kind, m.a, v, n)
  <2>4. Taken(m, {y}) /\ y.kind = kind /\ OfIn(y, row') = m.a
    BY <1>1, <2>3, BecomesTaken, OfMessage
  <2>5. AskedRowsOK' /\ Kept(row, cred, row', cred')
    BY <2>1, <2>3, AskedRowsSame DEF OInv
  <2>6. Elsewhere(m.a)
    BY <1>1, <2>1, <2>3 DEF Elsewhere, didVars, OwnRow
  <2> HIDE DEF y
  <2>7. \A a : Fit(y, a, row', cred', maker', found')
    BY <2>4, SMT DEF Fit, Asking
  <2>8. \A a : wallet'[a] = wallet[a]
    BY <2>1
  <2>9. \A z \in States : row'[z].code = row[z].code /\ row'[z].nonce = row[z].nonce
    BY <2>1
  <2>10. ASSUME NEW a \in clean, wallet[a].phase \in {"asked", "coded", "proved"}
         PROVE  wallet'[a].phase \in {"asked", "coded", "proved"}
                /\ Fit(y, a, row', cred', maker', found')
    BY <2>7, <2>8, <2>10
  <2> QED BY <1>1, <2>1, <2>4, <2>5, <2>6, <2>8, <2>9, <2>10, OneAnswer
<1> QED BY <1>2, <1>3

\* The record is issued already: an administrator did.
LEMMA IssueOrder ==
  ASSUME OInv, NEW m \in wire, Issue(m)
  PROVE  AskedRowsOK' /\ OrderOK' /\ clean' \subseteq clean
<1>1. m.kind = "issuing" /\ m.a \in Attempts /\ OfIn(m, row) = m.a
      /\ OwnCred(m.s, m.a, row, cred)
  BY OfOwn, SMT DEF OInv, EInv, WireOK, MsgOK, Issue
<1>2. CASE cred[m.s].status = "issued"
  <2>1. FailRequest(m) /\ m.kind \in UnderWay
    BY <1>1, <1>2 DEF Issue, UnderWay
  <2>2. Hindered(m.a, row, cred, maker, found)
    BY <1>1, <1>2 DEF Hindered, OwnCred, OwnRow
  <2> QED BY <2>1, <2>2, FailOrder
<1>3. CASE cred[m.s].status # "issued"
  <2> DEFINE s == cred[m.s].s
             r == [row[s] EXCEPT !.claimed = TRUE]
             y == Message("inTime", m.a, m.s, 0)
  <2>1. ~FailRequest(m)
    <3> SUFFICES ASSUME FailRequest(m) PROVE FALSE
      OBVIOUS
    <3>1. cred' = cred /\ cred' = [cred EXCEPT ![m.s].status = "issued"]
      BY <1>3 DEF FailRequest, Issue
    <3>2. m.s \in Creds /\ cred[m.s] \in Record
      BY <1>1 DEF OwnCred, OInv, EInv, EType
    <3>3. cred'[m.s] = [cred[m.s] EXCEPT !.status = "issued"]
      BY <3>1, <3>2 DEF OInv, EInv, EType
    <3>4. cred'[m.s].status = "issued"
      BY <3>2, <3>3, SMT DEF Record
    <3> QED BY <1>3, <3>1, <3>4
  <2>2. /\ m.s \in Creds /\ s \in States /\ OwnCred(m.s, m.a, row, cred)
        /\ cred' \in [Creds -> Record] /\ Kept(row, cred, row, cred')
        /\ cred'[m.s].s = s /\ cred'[m.s].status = "issued"
        /\ \A x \in Creds : x # m.s => cred'[x] = cred[x]
        /\ row' = [row EXCEPT ![s] = r] /\ Becomes(m, {y})
        /\ plan' = plan /\ wallet' = wallet
    BY <2>1, IssueMakes DEF OInv
  <2>3. didVars' = didVars
    BY <1>3 DEF Issue
  <2>4. r = [row[s] EXCEPT !.claimed = TRUE] /\ row[s] \in Row
    BY <2>2 DEF OInv, EInv, EType
  <2>5. r.code = row[s].code /\ r.nonce = row[s].nonce
    BY <2>4, SMT DEF Row
  <2>6. Taken(m, {y}) /\ y.kind = "inTime" /\ OfIn(y, row') = m.a
    BY <1>1, <2>2, BecomesTaken, OfMessage
  <2>M. OInv /\ s \in States /\ plan' = plan /\ row' = [row EXCEPT ![s] = r]
        /\ Kept(row, cred, row, cred') /\ r = [row[s] EXCEPT !.claimed = TRUE]
    BY <2>2, <2>4
  <2> HIDE DEF s, r
  <2>7. Kept(row, cred, row', cred') /\ AskedRowsOK'
        /\ row'[s] = r /\ \A z \in States : z # s => row'[z] = row[z]
    BY ONLY <2>M, RowMoved
  <2>8. Elsewhere(m.a)
    BY <2>2, <2>3 DEF Elsewhere, didVars, OwnCred
  <2> HIDE DEF y
  <2>9. \A a : Fit(y, a, row', cred', maker', found')
    BY <2>6, SMT DEF Fit, Asking
  <2>10. \A a : wallet'[a] = wallet[a]
    BY <2>2
  <2>11. \A z \in States : row'[z].code = row[z].code /\ row'[z].nonce = row[z].nonce
    BY <2>5, <2>7
  <2>12. ASSUME NEW a \in clean, wallet[a].phase \in {"asked", "coded", "proved"}
         PROVE  wallet'[a].phase \in {"asked", "coded", "proved"}
                /\ Fit(y, a, row', cred', maker', found')
    BY <2>9, <2>10, <2>12
  <2> QED BY <1>1, <2>2, <2>6, <2>7, <2>8, <2>10, <2>11, <2>12, OneAnswer
<1> QED BY <1>2, <1>3

\* A message answered with one that says nothing of a row, and no row changed.
Says == {"no", "preToken", "code", "token", "nonce", "credential", "adding", "recording"}

LEMMA SimpleAnswer ==
  ASSUME OInv, NEW m \in wire, NEW x, Taken(m, {x}), plan' = plan, row' = row, cred' = cred,
         didVars' = didVars, OfIn(x, row) = OfIn(m, row),
         x.kind \notin Says, x.kind \in Asking => m.kind \in Asking,
         \A a : a # OfIn(m, row) => wallet'[a] = wallet[a],
         OfIn(m, row) \in Attempts => wallet'[OfIn(m, row)].phase = wallet[OfIn(m, row)].phase
  PROVE  AskedRowsOK' /\ OrderOK' /\ clean' \subseteq clean
<1>1. AskedRowsOK' /\ Kept(row, cred, row', cred')
  BY AskedRowsSame, KeptSame DEF OInv
<1>2. ASSUME NEW a \in Attempts, Fit(m, a, row, cred, maker, found)
      PROVE  Fit(x, a, row', cred', maker', found')
  <2>1. x.kind \in Asking => Fresh(a, row', cred', maker', found')
    BY <1>1, <1>2, AllKeep DEF Fit, OInv
  <2> QED BY <2>1, SMT DEF Fit, Says
<1>3. ASSUME NEW a \in clean, a = OfIn(m, row), Fit(m, a, row, cred, maker, found),
             wallet[a].phase \in {"asked", "coded", "proved"}
      PROVE  /\ wallet'[a].phase \in {"asked", "coded", "proved"}
             /\ Fit(x, a, row', cred', maker', found')
  BY <1>2, <1>3 DEF OInv
<1>4. \A z \in States : row'[z].code = row[z].code /\ row'[z].nonce = row[z].nonce
  OBVIOUS
<1>5. OfIn(x, row') = OfIn(m, row)
  OBVIOUS
<1>6. Elsewhere(OfIn(m, row))
  BY NothingElsewhere
<1> QED BY <1>1, <1>3, <1>4, <1>5, <1>6, OneAnswer

LEMMA DeferredOrder ==
  ASSUME OInv, NEW m \in wire, Deferred(m)
  PROVE  AskedRowsOK' /\ OrderOK' /\ clean' \subseteq clean
<1> DEFINE x == Message(cred[m.s].status, m.a, m.s, 0)
<1>1. OwnCred(m.s, m.a, row, cred) /\ m.a \in Attempts /\ OfIn(m, row) = m.a
  BY OfOwn, SMT DEF OInv, EInv, WireOK, MsgOK, Deferred
<1>2. cred[m.s].status \in {"pending", "issued", "rejected"}
  BY <1>1, SMT DEF OwnCred, OInv, EInv, EType, Record
<1>3. OfIn(x, row) = m.a /\ x.kind = cred[m.s].status
  BY <1>1, OfMessage
<1>4. Taken(m, {x}) /\ plan' = plan /\ row' = row /\ cred' = cred /\ wallet' = wallet
      /\ didVars' = didVars
  BY DEF Deferred
<1> HIDE DEF x
<1>5. x.kind \notin Says /\ x.kind \notin Asking
  BY <1>2, <1>3 DEF Says, Asking
<1> QED BY <1>1, <1>3, <1>4, <1>5, SimpleAnswer

LEMMA EndpointOrder ==
  ASSUME OInv, NEW m \in wire, Endpoint(m)
  PROVE  AskedRowsOK' /\ OrderOK' /\ clean' \subseteq clean
<1>1. PostId(m) => m.kind \in {"idPost", "vpPost"} /\ Coded(m, m.s)
  BY DEF PostId
<1> QED BY <1>1, AuthorizeOrder, CodedOrder, PostVpOrder, TokenOrder, PreTokenOrder,
           CredentialOrder, AddDidOrder, StoreOrder, IssueOrder, DeferredOrder, LateOrder
   DEF Endpoint

LEMMA RuleOrder ==
  ASSUME OInv, NEW v \in Creds, NEW status \in {"issued", "rejected"}, Rule(v, status)
  PROVE  AskedRowsOK' /\ OrderOK' /\ clean' \subseteq clean
<1>1. plan' = plan /\ wallet' = wallet /\ row' = row /\ wire' = wire /\ didVars' = didVars
      /\ clean' = clean
  BY DEF Rule
<1>2. /\ cred[v].status = "pending" /\ cred' \in [Creds -> Record]
      /\ cred'[v].s = cred[v].s /\ cred'[v].offer = cred[v].offer /\ cred'[v].status = status
      /\ \A y \in Creds : y # v => cred'[y] = cred[y]
  <2>1. cred[v] \in Record /\ cred' = [cred EXCEPT ![v].status = status]
        /\ cred[v].status = "pending"
    BY DEF Rule, OInv, EInv, EType
  <2>2. /\ cred' \in [Creds -> Record] /\ cred'[v] = [cred[v] EXCEPT !.status = status]
        /\ \A y \in Creds : y # v => cred'[y] = cred[y]
    BY <2>1, SMT DEF OInv, EInv, EType, Record
  <2> QED BY <2>1, <2>2, SMT DEF Record
<1>3. Kept(row, cred, row', cred')
  BY <1>1, <1>2 DEF Kept
<1>4. Elsewhere(Nobody)
  BY <1>1, <1>2 DEF Elsewhere, didVars
<1>5. OrderOK'
  <2> SUFFICES ASSUME NEW a \in clean, Sensible(plan[a])
               PROVE  InOrder(a, wallet'[a], wire', row', cred', maker', found')
    BY <1>1 DEF OrderOK
  <2>1. a # Nobody /\ wallet'[a] = wallet[a]
    BY <1>1, NobodyElse DEF OInv
  <2> DEFINE more == {}
  <2>2. wire' \subseteq wire \cup more /\ \A x \in more : OfIn(x, row') # a
    BY <1>1
  <2>3. \A x \in wire : OfIn(x, row) = a => x \in wire'
    BY <1>1
  <2>4. \A s \in States : row'[s].code = row[s].code /\ row'[s].nonce = row[s].nonce
    BY <1>1
  <2> HIDE DEF more
  <2> QED BY <1>3, <1>4, <2>1, <2>2, <2>3, <2>4, OthersInOrder
<1> QED BY <1>1, <1>5, AskedRowsSame DEF OInv

-----------------------------------------------------------------------------
(***************************************************************************)
(* The wallet, in order.                                                   *)
(***************************************************************************)
LEMMA StartOrder ==
  ASSUME OInv, NEW b \in Attempts, StartAttempt(b)
  PROVE  AskedRowsOK' /\ OrderOK' /\ clean' \subseteq clean
<1> DEFINE s == NewRow
           r == PreRow(NoRow, b, s)
           x == IF plan[b].how = "pre" THEN Message("preToken", b, s, 0)
                ELSE Message("authorize", b, Nobody, 0)
<1>1. plan' = plan /\ cred' = cred /\ didVars' = didVars /\ clean' = clean
      /\ wallet[b].phase = "new"
      /\ wallet' = [wallet EXCEPT ![b].phase = "asked"] /\ wire' = wire \cup {x}
  BY DEF StartAttempt
<1>2. /\ Kept(row, cred, row', cred') /\ AskedRowsOK'
      /\ \A z \in States : row[z].live => row'[z] = row[z]
  <2>1. CASE plan[b].how = "pre"
    <3>1. s \in States /\ ~row[s].live /\ row' = [row EXCEPT ![s] = r]
      BY <2>1, NewRowIsFree DEF StartAttempt, PreRow
    <3>2. r \in Row /\ r.live /\ r.by = b /\ r.told = Nobody /\ r.challenge = Nobody
      BY <3>1, PreRowOK
    <3>3. Kept(row, cred, row', cred')
      <4> HIDE DEF r, s
      <4> QED BY <1>1, <3>1, <3>2, RowStep DEF OInv
    <3>4. \A z \in States : row'[z] = IF z = s THEN r ELSE row[z]
      BY <3>1 DEF OInv, EInv, EType
    <3>5. ~Sensible(plan[b])
      BY <2>1 DEF Sensible, GivesState
    <3>6. AskedRowsOK'
      <4> HIDE DEF r, s
      <4> QED BY <1>1, <3>2, <3>4, <3>5 DEF OInv, AskedRowsOK, TypesKnown
    <3> QED BY <3>1, <3>3, <3>4, <3>6
  <2>2. CASE plan[b].how # "pre"
    <3>1. row' = row
      BY <2>2 DEF StartAttempt
    <3> QED BY <1>1, <3>1, AskedRowsSame, KeptSame DEF OInv
  <2> QED BY <2>1, <2>2
<1>3. \A rs : OfIn(x, rs) = b
  BY OfMessage
<1>4. Sensible(plan[b]) => x.kind = "authorize"
  BY OfMessage DEF Sensible, GivesState
<1>5. \A a : a # b => wallet'[a] = wallet[a]
  BY <1>1
<1>6. wallet'[b].phase = "asked"
  BY <1>1, SMT DEF OInv, EInv, EType, Wallet
<1>E. Elsewhere(b)
  BY <1>1, NothingElsewhere
<1> HIDE DEF x, r, s
<1>7. OrderOK'
  <2> SUFFICES ASSUME NEW a \in clean, Sensible(plan[a])
               PROVE  InOrder(a, wallet'[a], wire', row', cred', maker', found')
    BY <1>1 DEF OrderOK
  <2>1. CASE a # b
    <3>1. \A y \in {x} : OfIn(y, row') # a
      BY <1>3, <2>1
    <3>2. wire' \subseteq wire \cup {x} /\ \A y \in wire : OfIn(y, row) = a => y \in wire'
      BY <1>1
    <3>3. wallet'[a] = wallet[a]
      BY <1>5, <2>1
    <3>4. \A s2 \in States : row[s2].live /\ row[s2].by = a =>
             row'[s2].code = row[s2].code /\ row'[s2].nonce = row[s2].nonce
      BY <1>2
    <3> DEFINE more == {x}
    <3>5. wire' \subseteq wire \cup more /\ \A y \in more : OfIn(y, row') # a
      BY <3>1, <3>2
    <3> HIDE DEF more
    <3> QED BY <1>2, <1>E, <2>1, <3>2, <3>3, <3>4, <3>5, OthersInOrder
  <2>2. CASE a = b
    <3>0. InOrder(a, wallet[a], wire, row, cred, maker, found)
      BY DEF OInv, OrderOK
    <3>1. \A y \in wire : OfIn(y, row) # a
      BY <1>1, <2>2, <3>0 DEF InOrder
    <3>2. \A y \in wire : OfIn(y, row') = OfIn(y, row)
      BY <1>2, OfKept DEF OInv
    <3>3. \A y \in wire' : OfIn(y, row') = a => y = x
      BY <1>1, <3>1, <3>2
    <3>4. x \in wire' /\ OfIn(x, row') = a
      BY <1>1, <1>3, <2>2
    <3>5. Fresh(a, row', cred', maker', found')
      <4>1. Fresh(a, row, cred, maker, found)
        BY <1>1, <2>2, <3>0 DEF InOrder
      <4> QED BY <1>1, <1>2, <2>2, <4>1, AllKeep DEF OInv
    <3>6. Fit(x, a, row', cred', maker', found')
      BY <1>4, <2>2, <3>5, SMT DEF Fit
    <3>7. wallet'[a].phase = "asked" /\ wallet'[a].phase \notin {"new"} \cup Ended
      BY <1>6, <2>2 DEF Ended
    <3> HIDE <2>2
    <3> QED BY <3>3, <3>4, <3>6, <3>7 DEF InOrder
  <2> QED BY <2>1, <2>2
<1> QED BY <1>1, <1>2, <1>7

LEMMA AnswerOrder ==
  ASSUME OInv, NEW m \in wire, AnswerIdRequest(m) \/ AnswerVpRequest(m)
  PROVE  AskedRowsOK' /\ OrderOK' /\ clean' \subseteq clean
<1>1. PICK kind \in {"idPost", "vpPost"} :
        /\ m.kind \in {"idRequest", "vpRequest"}
        /\ Taken(m, {Message(kind, Nobody, m.s, 0)})
        /\ UNCHANGED <<plan, wallet, row, cred, didVars>>
  BY DEF AnswerIdRequest, AnswerVpRequest
<1> DEFINE x == Message(kind, Nobody, m.s, 0)
<1>2. OfIn(m, row) = row[m.s].by /\ m.s # Nobody
  BY <1>1, OfAsked, NobodyElse DEF OInv, Live
<1>3. OfIn(x, row) = OfIn(m, row) /\ x.kind = kind
  BY <1>2 DEF Message, OfIn
<1> HIDE DEF x
<1>4. Taken(m, {x}) /\ plan' = plan /\ row' = row /\ cred' = cred /\ wallet' = wallet
      /\ didVars' = didVars
  BY <1>1 DEF x
<1>5. x.kind \notin Says /\ (x.kind \in Asking => m.kind \in Asking)
  BY <1>1, <1>3 DEF Says, Asking
<1> QED BY <1>3, <1>4, <1>5, SimpleAnswer

\* The message that was taken for b was another's, or b is not a sensible
\* attempt: only redirects without a state go astray.
LEMMA StrayOrder ==
  ASSUME OInv, NEW m \in wire, NEW b \in Attempts, NEW more, Taken(m, more), plan' = plan,
         row' = row, cred' = cred, didVars' = didVars, \A a : a # b => wallet'[a] = wallet[a],
         \A x \in more : OfIn(x, row) = b,
         NEW a \in clean', Sensible(plan[a]), a # b, a # OfIn(m, row)
  PROVE  InOrder(a, wallet'[a], wire', row', cred', maker', found')
<1>1. a \in clean /\ wire' \subseteq wire \cup more
      /\ \A x \in wire : OfIn(x, row) = a => x \in wire'
  BY TakenLeaves
<1>2. Kept(row, cred, row', cred') /\ \A x \in more : OfIn(x, row') # a
  BY KeptSame
<1>3. Elsewhere(b)
  BY NothingElsewhere
<1> QED BY <1>1, <1>2, <1>3, OthersInOrder

\* An attempt ends with its message.
LEMMA EndOrder ==
  ASSUME OInv, NEW m \in wire, NEW b \in Attempts, OfIn(m, row) = b, Taken(m, {}), plan' = plan,
         row' = row, cred' = cred, didVars' = didVars, \A a : a # b => wallet'[a] = wallet[a],
         Sensible(plan[b]) /\ b \in clean =>
             \/ wallet'[b].phase \in {"denied", "done"}
             \/ wallet'[b].phase = "refused" /\ Hindered(b, row, cred, maker, found)
  PROVE  AskedRowsOK' /\ OrderOK' /\ clean' \subseteq clean
<1>1. clean' \subseteq clean
  BY TakenLeaves
<1>2. OrderOK'
  <2> SUFFICES ASSUME NEW a \in clean', Sensible(plan[a])
               PROVE  InOrder(a, wallet'[a], wire', row', cred', maker', found')
    BY DEF OrderOK
  <2>1. CASE a # b
    <3>1. \A x \in {} : OfIn(x, row) = b
      OBVIOUS
    <3> QED BY <2>1, <3>1, StrayOrder
  <2>2. CASE a = b
    BY <2>2, <1>1, EndedInOrder
  <2> QED BY <2>1, <2>2
<1> QED BY <1>1, <1>2, AskedRowsSame DEF OInv

LEMMA TakenForOwn ==
  ASSUME OInv, NEW m \in wire, m.kind \in {"code", "error"}, NEW b \in Attempts, Meant(m, b),
         NEW a \in Attempts, Sensible(plan[a])
  PROVE  a = b <=> OfIn(m, row) = a
<1>1. Live(m.s, row) /\ m.a = row[m.s].told /\ OfIn(m, row) = row[m.s].by
  BY OfAsked, SMT DEF OInv, EInv, WireOK, MsgOK
<1>2. m.a \in {row[m.s].by, Nobody} /\ m.s \in States /\ row[m.s].live
  BY <1>1 DEF Live, OInv, EInv, RowsOK
<1>3. ASSUME a = b PROVE row[m.s].by = a
  BY <1>2, <1>3, NobodyElse DEF Meant, Sensible
<1>4. ASSUME row[m.s].by = a PROVE a = b
  BY <1>1, <1>2, <1>4, NobodyElse DEF Meant, OInv, AskedRowsOK
<1> QED BY <1>1, <1>3, <1>4

LEMMA TakeCodeOrder ==
  ASSUME OInv, NEW m \in wire, NEW b \in Attempts, TakeCode(m, b)
  PROVE  AskedRowsOK' /\ OrderOK' /\ clean' \subseteq clean
<1> DEFINE w == CodedWallet(wallet[b], m.s, m.n)
           x == Message("token", b, m.s, m.n)
<1>1. m.kind = "code" /\ Meant(m, b) /\ wallet[b] \in Wallet /\ m.n \in Nat
  BY SMT DEF TakeCode, OInv, EInv, EType, Letter
<1>2. CASE GivesChallenge(plan[b])
  <2>1. wallet' = [wallet EXCEPT ![b] = w] /\ Taken(m, {x}) /\ plan' = plan /\ row' = row
        /\ cred' = cred /\ didVars' = didVars
    BY <1>2 DEF TakeCode, Got, CodedWallet
  <2>2. \A a : a # b => wallet'[a] = wallet[a]
    BY <2>1
  <2>3. wallet'[b] = w
    BY <2>1 DEF OInv, EInv, EType
  <2>4. w.phase = "coded"
    BY <1>1, SMT DEF CodedWallet, Wallet
  <2>5. OfIn(x, row) = b /\ x.kind = "token" /\ x.s = m.s /\ x.n = m.n
    BY OfMessage
  <2> HIDE DEF w, x
  <2>6. clean' \subseteq clean
    BY <2>1, TakenLeaves
  <2>7. OrderOK'
    <3> SUFFICES ASSUME NEW a \in clean', Sensible(plan[a])
                 PROVE  InOrder(a, wallet'[a], wire', row', cred', maker', found')
      BY <2>1 DEF OrderOK
    <3>1. a \in clean /\ a \in Attempts
      BY <2>6 DEF OInv
    <3>2. a = b <=> OfIn(m, row) = a
      BY <3>1, <1>1, TakenForOwn
    <3>3. CASE a # b
      <4> DEFINE more == {x}
      <4>1. Taken(m, more) /\ \A y \in more : OfIn(y, row) = b
        BY <2>1, <2>5
      <4> HIDE DEF more
      <4> QED BY <2>1, <2>2, <3>2, <3>3, <4>1, StrayOrder
    <3>4. CASE a = b
      <4>1. OwnRow(m.s, a, row) /\ row[m.s].code = m.n /\ Fresh(a, row, cred, maker, found)
        BY <1>1, <3>1, <3>2, <3>4, FitNow DEF Fit, Asking
      <4>3. wallet'[a].phase \in {"asked", "coded", "proved"}
        BY <2>3, <2>4, <3>4
      <4>4. OfIn(x, row') = a /\ Kept(row, cred, row', cred')
        BY <2>1, <2>5, <3>4, KeptSame
      <4>5. Fresh(a, row', cred', maker', found')
        BY <2>1, <3>1, <4>1, <4>4, AllKeep DEF OInv
      <4>2. Fit(x, a, row', cred', maker', found')
        BY <2>1, <2>5, <4>1, <4>5, SMT DEF Fit
      <4> QED BY <2>1, <3>1, <3>2, <3>4, <4>2, <4>3, <4>4, AnsweredInOrder
    <3> QED BY <3>3, <3>4
  <2> QED BY <2>1, <2>6, <2>7, AskedRowsSame DEF OInv
<1>3. CASE ~GivesChallenge(plan[b])
  <2>1. wallet' = [wallet EXCEPT ![b].phase = "failed"] /\ Taken(m, {}) /\ plan' = plan
        /\ row' = row /\ cred' = cred /\ didVars' = didVars
    BY <1>3 DEF TakeCode, Got
  <2>2. \A a : a # b => wallet'[a] = wallet[a]
    BY <2>1
  <2>3. clean' \subseteq clean
    BY <2>1, TakenLeaves
  <2>4. OrderOK'
    <3> SUFFICES ASSUME NEW a \in clean', Sensible(plan[a])
                 PROVE  InOrder(a, wallet'[a], wire', row', cred', maker', found')
      BY <2>1 DEF OrderOK
    <3>1. a \in Attempts /\ a # b
      BY <1>3, <2>3 DEF OInv, Sensible, GivesState, GivesChallenge
    <3>2. a # OfIn(m, row)
      BY <3>1, <1>1, TakenForOwn
    <3>3. \A y \in {} : OfIn(y, row) = b
      OBVIOUS
    <3> QED BY <2>1, <2>2, <3>1, <3>2, <3>3, StrayOrder
  <2> QED BY <2>1, <2>3, <2>4, AskedRowsSame DEF OInv
<1> QED BY <1>2, <1>3

LEMMA TakeErrorOrder ==
  ASSUME OInv, NEW m \in wire, NEW b \in Attempts, TakeError(m, b)
  PROVE  AskedRowsOK' /\ OrderOK' /\ clean' \subseteq clean
<1>1. m.kind = "error" /\ Meant(m, b) /\ wallet[b] \in Wallet
  BY DEF TakeError, OInv, EInv, EType
<1>2. wallet' = [wallet EXCEPT ![b].phase = "denied"] /\ Taken(m, {}) /\ plan' = plan
      /\ row' = row /\ cred' = cred /\ didVars' = didVars
  BY DEF TakeError, Got
<1>3. \A a : a # b => wallet'[a] = wallet[a]
  BY <1>2
<1>4. wallet'[b].phase = "denied"
  BY <1>1, <1>2, SMT DEF OInv, EInv, EType, Wallet
<1>5. clean' \subseteq clean
  BY <1>2, TakenLeaves
<1>6. OrderOK'
  <2> SUFFICES ASSUME NEW a \in clean', Sensible(plan[a])
               PROVE  InOrder(a, wallet'[a], wire', row', cred', maker', found')
    BY <1>2 DEF OrderOK
  <2>1. a \in clean /\ a \in Attempts
    BY <1>5 DEF OInv
  <2>2. a = b <=> OfIn(m, row) = a
    BY <2>1, <1>1, TakenForOwn
  <2>3. CASE a # b
    <3>1. \A y \in {} : OfIn(y, row) = b
      OBVIOUS
    <3> QED BY <1>2, <1>3, <2>2, <2>3, <3>1, StrayOrder
  <2>4. CASE a = b
    BY <1>2, <1>4, <2>1, <2>2, <2>4, EndedInOrder
  <2> QED BY <2>3, <2>4
<1> QED BY <1>2, <1>5, <1>6, AskedRowsSame DEF OInv

LEMMA TakeNonceOrder ==
  ASSUME OInv, NEW m \in wire, TakeNonce(m)
  PROVE  AskedRowsOK' /\ OrderOK' /\ clean' \subseteq clean
<1> DEFINE w == ProvedWallet(wallet[m.a], m.s, m.n)
           x == Message("credential", m.a, m.s, m.n)
<1>1. m.kind = "nonce" /\ m.a \in Attempts /\ OfIn(m, row) = m.a
  BY OfOwn DEF OInv, TakeNonce
<1>2. wallet' = [wallet EXCEPT ![m.a] = w] /\ Taken(m, {x}) /\ plan' = plan /\ row' = row
      /\ cred' = cred /\ didVars' = didVars
  BY DEF TakeNonce, Got, ProvedWallet
<1>3. w.phase = "proved"
  BY <1>1, SMT DEF ProvedWallet, OInv, EInv, EType, Wallet
<1>4. OfIn(x, row) = m.a /\ x.kind = "credential" /\ x.s = m.s /\ x.n = m.n
  BY <1>1, OfMessage
<1> HIDE DEF w, x
<1>5. wallet'[m.a].phase = "proved" /\ \A a : a # m.a => wallet'[a] = wallet[a]
  BY <1>1, <1>2, <1>3 DEF OInv, EInv, EType
<1>7. AskedRowsOK' /\ Kept(row, cred, row', cred')
  BY <1>2, AskedRowsSame, KeptSame DEF OInv
<1>6. ASSUME NEW a, a = OfIn(m, row), Fit(m, a, row, cred, maker, found)
      PROVE  /\ wallet'[a].phase \in {"asked", "coded", "proved"}
             /\ Fit(x, a, row', cred', maker', found')
  <2>1. OwnRow(m.s, a, row) /\ row[m.s].nonce = m.n /\ Fresh(a, row, cred, maker, found)
    BY <1>1, <1>6 DEF Fit, Asking
  <2>2. Fresh(a, row', cred', maker', found')
    BY <1>1, <1>2, <1>6, <1>7, <2>1, AllKeep DEF OInv
  <2> QED BY <1>1, <1>2, <1>4, <1>5, <1>6, <2>1, <2>2, SMT DEF Fit
<1>8. \A z \in States : row'[z].code = row[z].code /\ row'[z].nonce = row[z].nonce
  BY <1>2
<1>9. OfIn(x, row') = OfIn(m, row)
  BY <1>1, <1>2, <1>4
<1>10. \A a : a # OfIn(m, row) => wallet'[a] = wallet[a]
  BY <1>1, <1>5
<1>11. Elsewhere(OfIn(m, row))
  BY <1>2, NothingElsewhere
<1> QED BY <1>2, <1>6, <1>7, <1>8, <1>9, <1>10, <1>11, OneAnswer

LEMMA TakeDeferredOrder ==
  ASSUME OInv, NEW m \in wire, TakeDeferred(m)
  PROVE  AskedRowsOK' /\ OrderOK' /\ clean' \subseteq clean
<1> DEFINE w == [wallet[m.a] EXCEPT !.v = m.s]
           x == Message("poll", m.a, m.s, 0)
<1>1. m.a \in Attempts /\ OfIn(m, row) = m.a
  BY OfOwn DEF OInv, TakeDeferred
<1>2. wallet' = [wallet EXCEPT ![m.a] = w] /\ Taken(m, {x}) /\ plan' = plan /\ row' = row
      /\ cred' = cred /\ didVars' = didVars
  BY DEF TakeDeferred, Got
<1>3. w.phase = wallet[m.a].phase
  BY <1>1, SMT DEF OInv, EInv, EType, Wallet
<1>4. OfIn(x, row) = m.a /\ x.kind = "poll"
  BY <1>1, OfMessage
<1> HIDE DEF w, x
<1>5. wallet'[m.a].phase = wallet[m.a].phase /\ \A a : a # m.a => wallet'[a] = wallet[a]
  BY <1>1, <1>2, <1>3 DEF OInv, EInv, EType
<1>6. x.kind \notin Says /\ x.kind \notin Asking
  BY <1>4 DEF Says, Asking
<1>7. OfIn(x, row) = OfIn(m, row) /\ \A a : a # OfIn(m, row) => wallet'[a] = wallet[a]
  BY <1>1, <1>4, <1>5
<1>8. wallet'[OfIn(m, row)].phase = wallet[OfIn(m, row)].phase
  BY <1>1, <1>5
<1> QED BY <1>2, <1>6, <1>7, <1>8, SimpleAnswer

LEMMA TakeLastOrder ==
  ASSUME OInv, NEW m \in wire, TakeCredential(m) \/ TakeRejected(m) \/ TakeNo(m)
  PROVE  AskedRowsOK' /\ OrderOK' /\ clean' \subseteq clean
<1>1. m.a \in Attempts /\ OfIn(m, row) = m.a /\ wallet[m.a] \in Wallet
  BY OfOwn DEF OInv, EInv, EType, TakeCredential, TakeRejected, TakeNo
<1>2. Taken(m, {}) /\ plan' = plan /\ row' = row /\ cred' = cred /\ didVars' = didVars
  BY DEF TakeCredential, TakeRejected, TakeNo, Got
<1>3. PICK w : wallet' = [wallet EXCEPT ![m.a] = w]
  BY DEF TakeCredential, TakeRejected, TakeNo, Got
<1>4. \A a : a # m.a => wallet'[a] = wallet[a]
  BY <1>3
<1>5. ASSUME m.a \in clean, Sensible(plan[m.a])
      PROVE  \/ wallet'[m.a].phase \in {"denied", "done"}
             \/ wallet'[m.a].phase = "refused" /\ Hindered(m.a, row, cred, maker, found)
  <2>1. CASE TakeNo(m)
    <3>1. Hindered(m.a, row, cred, maker, found)
      BY <1>1, <1>5, <2>1, FitNow DEF Fit, TakeNo
    <3>2. wallet'[m.a].phase = "refused"
      BY <1>1, <2>1, SMT DEF TakeNo, Got, OInv, EInv, EType, Wallet
    <3> QED BY <3>1, <3>2
  <2>2. CASE TakeCredential(m)
    BY <1>1, <2>2, SMT DEF TakeCredential, Got, OInv, EInv, EType, Wallet
  <2>3. CASE TakeRejected(m)
    BY <1>1, <2>3, SMT DEF TakeRejected, Got, OInv, EInv, EType, Wallet
  <2> QED BY <2>1, <2>2, <2>3
<1> QED BY <1>1, <1>2, <1>4, <1>5, EndOrder

LEMMA TakeOrder ==
  ASSUME OInv, NEW m \in wire, Take(m)
  PROVE  AskedRowsOK' /\ OrderOK' /\ clean' \subseteq clean
BY AnswerOrder, TakeNonceOrder, TakeDeferredOrder, TakeLastOrder, TakeCodeOrder, TakeErrorOrder
   DEF Take

-----------------------------------------------------------------------------
LEMMA PlansStay == [ExchangeNext]_exchangeVars => plan' = plan
<1> SUFFICES ASSUME [ExchangeNext]_exchangeVars PROVE plan' = plan
  OBVIOUS
<1>1. ASSUME NEW m, Refuse(m) \/ FailRequest(m) \/ Coded(m, m.s) \/ Tokened(m, m.s)
      PROVE  plan' = plan
  BY <1>1 DEF Refuse, FailRequest, Coded, Tokened
<1>2. ASSUME NEW m, Endpoint(m) PROVE plan' = plan
  <2>1. ASSUME Authorize(m) \/ PostId(m) \/ PostVp(m) \/ Token(m) \/ PreToken(m)
        PROVE  plan' = plan
    BY <1>1, <2>1 DEF Authorize, PostId, PostVp, Denied, Token, PreToken, PinRight
  <2>2. ASSUME Credential(m) \/ AddDid(m) \/ Store(m) \/ Issue(m)
        PROVE  plan' = plan
    BY <1>1, <2>2 DEF Credential, AddDid, Store, Issue
  <2>3. ASSUME Deferred(m) \/ Late(m) PROVE plan' = plan
    BY <2>3 DEF Deferred, Late, Lapsing
  <2> QED BY <1>2, <2>1, <2>2, <2>3 DEF Endpoint
<1>3. ASSUME NEW m, Take(m) PROVE plan' = plan
  BY <1>3 DEF Take, AnswerIdRequest, AnswerVpRequest, TakeNonce, TakeCredential, TakeDeferred,
              TakeRejected, TakeNo, TakeCode, TakeError, Got
<1> QED BY <1>2, <1>3 DEF ExchangeNext, StartAttempt, Rule, exchangeVars

\* Only AddDid names the maker of a did row.
LEMMA MakersStay ==
  ASSUME OInv, [ExchangeNext]_exchangeVars
  PROVE  maker' \in [Holders -> Attempts \cup {Nobody}]
<1>1. ASSUME NEW m, Refuse(m) \/ FailRequest(m) \/ Coded(m, m.s) \/ Tokened(m, m.s)
      PROVE  maker' = maker
  BY <1>1 DEF Refuse, FailRequest, Coded, Tokened, didVars
<1>2. ASSUME NEW m \in wire, Endpoint(m) PROVE maker' = maker \/ AddDid(m)
  <2>1. ASSUME Authorize(m) \/ PostId(m) \/ PostVp(m) \/ Token(m) \/ PreToken(m)
        PROVE  maker' = maker
    BY <1>1, <2>1 DEF Authorize, PostId, PostVp, Denied, Token, PreToken, PinRight, didVars
  <2>2. ASSUME Credential(m) \/ Store(m) \/ Issue(m)
        PROVE  maker' = maker
    BY <1>1, <2>2 DEF Credential, Store, Issue, didVars
  <2>3. ASSUME Deferred(m) \/ Late(m) PROVE maker' = maker
    BY <2>3 DEF Deferred, Late, Lapsing, didVars
  <2> QED BY <1>2, <2>1, <2>2, <2>3 DEF Endpoint
<1>3. ASSUME NEW m \in wire, AddDid(m) PROVE maker' \in [Holders -> Attempts \cup {Nobody}]
  <2>1. m.a \in Attempts
    BY <1>3, OfOwn DEF OInv, AddDid
  <2>2. maker' = maker \/ maker' = [maker EXCEPT ![HolderOf[m.a]] = m.a]
    BY <1>1, <1>3 DEF AddDid
  <2> QED BY <2>1, <2>2 DEF OInv
<1>4. ASSUME NEW m, Take(m) PROVE maker' = maker
  BY <1>4 DEF Take, AnswerIdRequest, AnswerVpRequest, TakeNonce, TakeCredential, TakeDeferred,
              TakeRejected, TakeNo, TakeCode, TakeError, Got, didVars
<1>5. maker' = maker \/ \E m \in wire : AddDid(m)
  BY <1>2, <1>4 DEF ExchangeNext, StartAttempt, Rule, exchangeVars, didVars
<1> QED BY <1>3, <1>5 DEF OInv

LEMMA OrderInit == ExchangeInit => OInv
<1> SUFFICES ASSUME ExchangeInit PROVE OInv
  OBVIOUS
<1>1. EInv
  BY ExchangeInitInv
<1>2. clean = Attempts /\ wire = {} /\ wallet = [a \in Attempts |-> Waiting]
      /\ row = [s \in States |-> NoRow] /\ cred = [v \in Creds |-> NoCred]
      /\ maker = [h \in Holders |-> Nobody] /\ found = {}
  BY DEF ExchangeInit
<1>3. NoRow.live = FALSE /\ Waiting.phase = "new" /\ NoCred.status = "none"
  BY DEF NoRow, Waiting, NoCred
<1>4. AskedRowsOK
  BY <1>2, <1>3 DEF AskedRowsOK
<1>5. ASSUME NEW a \in Attempts PROVE Fresh(a, row, cred, maker, found)
  <2>1. HolderOf[a] \in Holders /\ a # Nobody
    BY NobodyElse DEF Holders
  <2>2. Unrecorded(a, row, cred)
    BY <1>2, <1>3 DEF Unrecorded
  <2> QED BY <1>2, <2>1, <2>2 DEF Fresh
<1>6. OrderOK
  BY <1>2, <1>3, <1>5 DEF OrderOK, InOrder
<1>7. maker \in [Holders -> Attempts \cup {Nobody}]
  BY <1>2
<1> QED BY <1>1, <1>2, <1>4, <1>6, <1>7 DEF OInv

LEMMA OrderStep == OInv /\ [ExchangeNext]_exchangeVars => OInv'
<1> SUFFICES ASSUME OInv, [ExchangeNext]_exchangeVars PROVE OInv'
  OBVIOUS
<1>1. EInv' /\ plan' = plan /\ maker' \in [Holders -> Attempts \cup {Nobody}]
  BY ExchangeStep, PlansStay, MakersStay DEF OInv
<1>2. AskedRowsOK' /\ OrderOK' /\ clean' \subseteq clean
  <2>1. ASSUME NEW a \in Attempts, StartAttempt(a)
        PROVE  AskedRowsOK' /\ OrderOK' /\ clean' \subseteq clean
    BY <2>1, StartOrder
  <2>2. ASSUME NEW m \in wire, Endpoint(m) \/ Take(m)
        PROVE  AskedRowsOK' /\ OrderOK' /\ clean' \subseteq clean
    BY <2>2, EndpointOrder, TakeOrder
  <2>3. ASSUME NEW v \in Creds, Rule(v, "issued") \/ Rule(v, "rejected")
        PROVE  AskedRowsOK' /\ OrderOK' /\ clean' \subseteq clean
    BY <2>3, RuleOrder
  <2>4. CASE UNCHANGED exchangeVars
    <3>1. plan' = plan /\ row' = row /\ cred' = cred /\ wire' = wire /\ wallet' = wallet
          /\ maker' = maker /\ found' = found /\ clean' = clean
      BY <2>4 DEF exchangeVars, didVars
    <3>2. AskedRowsOK'
      BY <3>1, AskedRowsSame DEF OInv
    <3>3. OrderOK'
      BY <3>1 DEF OInv, OrderOK
    <3> QED BY <3>1, <3>2, <3>3
  <2> QED BY <2>1, <2>2, <2>3, <2>4 DEF ExchangeNext
<1> QED BY <1>1, <1>2 DEF OInv

LEMMA InvInOrder == OInv => InOrderIsServed
<1> SUFFICES ASSUME OInv, NEW a \in clean, Sensible(plan[a]),
                    InOrder(a, wallet[a], wire, row, cred, maker, found)
             PROVE  /\ wallet[a].phase # "failed"
                    /\ wallet[a].phase = "refused" =>
                         DidMadeByAnother(a) \/ OfferIsAnothers(a) \/ IssuedByHand(a)
                    /\ wallet[a].phase \in {"asked", "coded", "proved"} =>
                         \E m \in wire : Of(m) = a
  BY DEF InOrderIsServed, OInv, OrderOK
<1>1. Hindered(a, row, cred, maker, found) =>
          DidMadeByAnother(a) \/ OfferIsAnothers(a) \/ IssuedByHand(a)
  BY DEF Hindered, DidMadeByAnother, OfferIsAnothers, IssuedByHand
<1> QED BY <1>1, OfInOf DEF InOrder

\* A wallet that sets what AuthService asks for, and whose own messages come
\* once and in time, always has a message to wait for or a request under way
\* until it ends.  It is refused only when another attempt of its holder made
\* the did row that its request had not found (auth.service.ts, the unique
\* identifier), when the record of its offer is another attempt's (the unique
\* offerId), or when the administrator issued its record before its request
\* did.  No call of the backend fails here and nothing is deleted.
THEOREM InOrderServed == ExchangeSpec => []InOrderIsServed
BY OrderInit, OrderStep, InvInOrder, PTL DEF ExchangeSpec
=============================================================================
