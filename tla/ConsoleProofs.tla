---------------------------- MODULE ConsoleProofs ----------------------------
(***************************************************************************)
(* Proofs about Console, for every set of students, credentials, dids,     *)
(* tabs and dialogs, and every bound.                                      *)
(***************************************************************************)
EXTENDS Console, TLAPS

(***************************************************************************)
(* The inductive invariant.                                                *)
(***************************************************************************)

\* What is true of a dialog's record, whatever the tables say.
FlowOK(f, q) ==
    /\ q.at = "idle" => q.kind = "none"
    /\ q.kind = "none" => q.step = "none"
    /\ q.at # "idle" => q.t \in Tabs
    /\ q.kind \in Deciding => q.v \in Vcs
    /\ q.step \in {"create", "attach", "decide"} => q.kind \in Deciding
    /\ f \in Tabs => q.kind \in {"none", "poll"}
    /\ q.made <= 1
    /\ q.step = "create" /\ q.at \in {"wire", "work", "unauthorised", "refresh"} => q.made = 0
    /\ q.dropped => q.at \in {"wire", "work", "save"}
    /\ ~q.newest => q.step = "list"
    /\ q.clean => q.kind \in Deciding
    /\ q.told => q.step = "list"

FlowsOK == \A f \in Flows : FlowOK(f, flow[f])

\* A clean dialog has no rival, and its calls that were answered had their effect.
Rivalling(q, v) == q.at # "idle" /\ q.kind \in Deciding /\ DidOf[q.v] = DidOf[v]

Attached(q) == q.step \in {"decide", "list"} \/ (q.step = "attach" /\ q.at = "ok")
Landed(q)   == q.step = "list" \/ (q.step = "decide" /\ q.at = "ok")

EffectOK(q, ow, st) ==
    q.kind \in {"existing", "new"} =>
        /\ Attached(q) => ow[DidOf[q.v]] = q.s
        /\ Landed(q) => st[q.v] = "issued"

CleanOK(f) ==
    flow[f].clean => /\ clerk.at = "idle"
                     /\ \A h \in Flows \ {f} : ~Rivalling(flow[h], flow[f].v)
                     /\ EffectOK(flow[f], owner, status)
CleansOK == \A f \in Flows : CleanOK(f)

\* A list that is not what is stored has a fetch coming that will be shown.
IsDecided(q, t) == q.t = t /\ q.step = "decide" /\ q.at \in {"ok", "failed"}
IsFetch(q, t)   == q.t = t /\ q.step = "list" /\ q.kind # "poll" /\ q.newest /\ ~q.dropped

ShownOK(t) ==
    tab[t].page = "app" /\ tab[t].sure =>
        \/ \E f \in Flows : IsDecided(flow[f], t)
        \/ /\ tab[t].shown = status \/ \E f \in Flows : IsFetch(flow[f], t)
           /\ \A f \in Flows : IsFetch(flow[f], t) /\ flow[f].at = "ok" => flow[f].seen = status
ShownsOK == \A t \in Tabs : ShownOK(t)

\* What the clerk's operation has done so far, if no did was attached meanwhile.
UndoneOK(c, ow) ==
    /\ \A d \in Dids : c.before[d] # c.s => ow[d] = c.before[d]
    /\ \A d \in c.left : c.before[d] = c.s
    /\ c.at = "save" => /\ c.d \in Dids /\ c.before[c.d] = c.s /\ c.d \notin c.left
                        /\ c.dids = {d \in Dids : ow[d] = c.s}
    /\ c.op = "detach" => \A d \in Dids : c.before[d] = c.s => ow[d] = c.s
    /\ c.op = "delete" =>
         \A d \in Dids : c.before[d] = c.s =>
            ow[d] = IF d \in c.left \/ (c.at = "save" /\ d = c.d) THEN c.s ELSE None

ClerkOK(c, ow) ==
    c.at # "idle" => /\ c.s \in Students
                     /\ c.op = "delete" \/ (c.op = "detach" /\ c.at = "save")
                     /\ c.clean => UndoneOK(c, ow)

CInv == TypeOK /\ FlowsOK /\ CleansOK /\ ShownsOK /\ ClerkOK(clerk, owner)

-----------------------------------------------------------------------------
(***************************************************************************)
(* Records.                                                                *)
(***************************************************************************)
LEMMA NothingIs == /\ None \notin Students /\ None \notin Vcs /\ None \notin Dids
                   /\ None \notin Tabs
                   /\ Tabs \cap Slots = {} /\ Flows = Slots \cup Tabs
                   /\ Retries \in Nat /\ DidOf \in [Vcs -> Dids]
    BY ConsoleAssumption DEF Flows

LEMMA PendingType == AllPending \in [Vcs -> Statuses]
    BY DEF AllPending, Statuses

LEMMA IdleType == Idle \in Flow
    BY NothingIs, PendingType DEF Idle, Flow, Kinds, Steps, At, Tokens

\* Nothing is under way in an idle slot.
LEMMA IdleFields ==
    /\ Idle.kind = "none" /\ Idle.step = "none" /\ Idle.at = "idle" /\ Idle.t = None
    /\ Idle.made = 0 /\ ~Idle.told /\ ~Idle.clean /\ ~Idle.dropped /\ Idle.newest
    BY DEF Idle

LEMMA IdleOK == ASSUME NEW f PROVE FlowOK(f, Idle)
    BY IdleFields DEF FlowOK, Deciding

\* A call that is sent: the flow's own fields stay.
LEMMA CarryingType ==
    ASSUME TypeOK, NEW g \in Flow, g.t \in Tabs, NEW step \in Steps
    PROVE  LET q == Carrying(g, step)
           IN  /\ q \in Flow
               /\ q.step = step /\ q.at = "wire" /\ q.kind = g.kind /\ q.t = g.t
               /\ q.v = g.v /\ q.s = g.s /\ q.tries = g.tries /\ q.newest = g.newest
               /\ q.seen = g.seen /\ q.dropped = g.dropped /\ q.made = g.made
               /\ q.told = g.told /\ q.clean = g.clean
    BY DEF Carrying, TypeOK, Tab, Flow, At, Steps

LEMMA HeadersType ==
    ASSUME TypeOK, NEW t \in Tabs
    PROVE  /\ Headers(t) \in [Tabs -> Tab]
           /\ \A u \in Tabs : /\ Headers(t)[u].page = tab[u].page
                              /\ Headers(t)[u].shown = tab[u].shown
                              /\ Headers(t)[u].undo = tab[u].undo
                              /\ Headers(t)[u].sure = tab[u].sure
    BY DEF Headers, TypeOK, Tab

LEMMA LeaveType ==
    ASSUME TypeOK, NEW t \in Tabs
    PROVE  /\ LeaveFor(t) \in [Tabs -> Tab]
           /\ \A u \in Tabs : /\ LeaveFor(t)[u].page = "app" => tab[u].page = "app"
                              /\ LeaveFor(t)[u].shown = tab[u].shown
                              /\ LeaveFor(t)[u].sure => tab[u].sure
<1> DEFINE x == [tab[t] EXCEPT !.access = "none", !.page = "leaving", !.sure = FALSE]
<1>1. tab \in [Tabs -> Tab] BY DEF TypeOK
<1>2. x \in Tab /\ x.page = "leaving" /\ x.shown = tab[t].shown /\ x.sure = FALSE
  BY <1>1 DEF Tab, Tokens
<1>3. LeaveFor(t) = [tab EXCEPT ![t] = x] BY <1>1 DEF LeaveFor, Tab
<1> HIDE DEF x
<1> QED BY <1>1, <1>2, <1>3

\* An answer: dropped flows end, the others keep all but at and token.
Answered(p, at) == IF p.dropped THEN Idle ELSE [p EXCEPT !.at = at, !.token = "none"]

LEMMA AnswerIs ==
    ASSUME TypeOK, NEW f \in Flows, NEW at \in At, Answer(f, at)
    PROVE  flow' = [flow EXCEPT ![f] = Answered(flow[f], at)]
    BY DEF Answer, Answered, TypeOK

LEMMA AnsweredType ==
    ASSUME NEW p \in Flow, NEW at \in At
    PROVE  LET q == Answered(p, at)
           IN  /\ q \in Flow
               /\ p.dropped => q = Idle
               /\ ~p.dropped =>
                    /\ q.step = p.step /\ q.at = at /\ q.kind = p.kind /\ q.t = p.t
                    /\ q.v = p.v /\ q.s = p.s /\ q.tries = p.tries /\ q.newest = p.newest
                    /\ q.seen = p.seen /\ ~q.dropped /\ q.made = p.made
                    /\ q.told = p.told /\ q.clean = p.clean
<1>1. CASE p.dropped BY <1>1, IdleType DEF Answered
<1>2. CASE ~p.dropped
  <2> DEFINE q == [p EXCEPT !.at = at, !.token = "none"]
  <2>1. q \in Flow BY DEF Flow, Tokens
  <2>2. Answered(p, at) = q BY <1>2 DEF Answered
  <2> QED BY <1>2, <2>1, <2>2 DEF Flow
<1> QED BY <1>1, <1>2 DEF Flow

-----------------------------------------------------------------------------
(***************************************************************************)
(* Steps of one flow.  Most change neither owner nor status, and leave to  *)
(* a tab's list what it had.                                               *)
(***************************************************************************)
RestType == /\ students' \in [Students -> Lives]
            /\ refresh' \in Tokens /\ trusted' \in BOOLEAN
            /\ count' \in [asked : Nat, faults : Nat]

TabsKept == /\ tab' \in [Tabs -> Tab]
            /\ \A t \in Tabs : /\ tab'[t].page = "app" => tab[t].page = "app"
                               /\ tab'[t].sure => tab[t].sure
                               /\ tab'[t].shown = tab[t].shown

Moved(f, q) == q \in Flow /\ flow' = [flow EXCEPT ![f] = q] /\ FlowOK(f, q)

\* A flow begins to work on a did only when it is submitted.
SameDid(p, q) == q.at # "idle" /\ q.kind \in Deciding =>
                    p.at # "idle" /\ q.kind = p.kind /\ q.v = p.v
SameDidClean(p, q) == q.clean => p.clean /\ q.kind = p.kind /\ q.v = p.v

\* What the list of tab t is waiting for stays.
ListKept(p, q, t) == /\ IsDecided(p, t) => IsDecided(q, t)
                     /\ IsFetch(p, t) => IsFetch(q, t)
                     /\ IsFetch(q, t) /\ q.at = "ok" =>
                          q.seen = status \/ (IsFetch(p, t) /\ p.at = "ok" /\ q.seen = p.seen)

Plain(f, q) ==
    /\ Moved(f, q) /\ RestType /\ TabsKept
    /\ SameDid(flow[f], q) /\ SameDidClean(flow[f], q)
    /\ q.clean => EffectOK(q, owner, status)
    /\ \A t \in Tabs : tab'[t].sure => ListKept(flow[f], q, t)
    /\ UNCHANGED <<owner, status, clerk>>

LEMMA MovedFlows ==
    ASSUME CInv, NEW f \in Flows, NEW q, Moved(f, q)
    PROVE  flow' \in [Flows -> Flow] /\ FlowsOK'
<1>1. flow \in [Flows -> Flow] /\ FlowsOK BY DEF CInv, TypeOK
<1>2. \A h \in Flows : flow'[h] = IF h = f THEN q ELSE flow[h] BY <1>1 DEF Moved
<1>3. flow' \in [Flows -> Flow] BY <1>1 DEF Moved
<1>4. FlowsOK'
  <2> SUFFICES ASSUME NEW h \in Flows PROVE FlowOK(h, flow'[h]) BY DEF FlowsOK
  <2> QED BY <1>1, <1>2 DEF FlowsOK, Moved
<1> QED BY <1>3, <1>4

\* A flow's step changes at most the owner of its did, and its own status.
OwnDidOnly(f) ==
    /\ \A d \in Dids : owner'[d] # owner[d] =>
          flow[f].at # "idle" /\ flow[f].kind \in Deciding /\ d = DidOf[flow[f].v]
    /\ \A v \in Vcs : status'[v] # status[v] =>
          flow[f].at # "idle" /\ flow[f].kind \in Deciding /\ v = flow[f].v

LEMMA CleanMoved ==
    ASSUME CInv, NEW f \in Flows, NEW q, Moved(f, q),
           SameDid(flow[f], q), SameDidClean(flow[f], q),
           clerk.at = "idle" => clerk'.at = "idle",
           OwnDidOnly(f),
           q.clean => EffectOK(q, owner', status')
    PROVE  CleansOK'
<1> SUFFICES ASSUME NEW h \in Flows PROVE CleanOK(h)' BY DEF CleansOK
<1> SUFFICES ASSUME flow'[h].clean
             PROVE  /\ clerk'.at = "idle"
                    /\ \A g \in Flows \ {h} : ~Rivalling(flow'[g], flow'[h].v)
                    /\ EffectOK(flow'[h], owner', status')
  BY DEF CleanOK
<1>1. flow \in [Flows -> Flow] /\ CleansOK /\ FlowsOK BY DEF CInv, TypeOK
<1>2. \A g \in Flows : flow'[g] = IF g = f THEN q ELSE flow[g] BY <1>1 DEF Moved
<1>3. CASE h = f
  <2>1. q.clean /\ flow[f].clean /\ q.v = flow[f].v BY <1>2, <1>3 DEF SameDidClean
  <2>2. CleanOK(f) BY <1>1 DEF CleansOK
  <2> QED BY <1>2, <1>3, <2>1, <2>2 DEF CleanOK
<1>4. CASE h # f
  <2>1. flow'[h] = flow[h] /\ flow[h].clean BY <1>2, <1>4
  <2>2. CleanOK(h) /\ FlowOK(h, flow[h]) BY <1>1 DEF CleansOK, FlowsOK
  <2>3. flow[h].v \in Vcs /\ DidOf[flow[h].v] \in Dids
    BY <2>1, <2>2, NothingIs DEF FlowOK
  <2>4. ~Rivalling(flow[f], flow[h].v) BY <1>4, <2>1, <2>2 DEF CleanOK
  <2>5. ~Rivalling(q, flow[h].v) BY <2>4 DEF Rivalling, SameDid
  <2>6. \A g \in Flows \ {h} : ~Rivalling(flow'[g], flow[h].v)
    BY <1>2, <2>1, <2>2, <2>5 DEF CleanOK
  <2>7. owner'[DidOf[flow[h].v]] = owner[DidOf[flow[h].v]] /\ status'[flow[h].v] = status[flow[h].v]
    BY <2>3, <2>4 DEF Rivalling, OwnDidOnly
  <2>8. EffectOK(flow[h], owner', status') BY <2>1, <2>2, <2>7 DEF CleanOK, EffectOK
  <2> QED BY <2>1, <2>2, <2>6, <2>8 DEF CleanOK
<1> QED BY <1>3, <1>4

LEMMA ShownAll ==
    ASSUME CInv, TabsKept, status' = status,
           \A t \in Tabs : tab'[t].page = "app" /\ tab'[t].sure =>
              \A g \in Flows : ListKept(flow[g], flow'[g], t)
    PROVE  ShownsOK'
<1> SUFFICES ASSUME NEW t \in Tabs, tab'[t].page = "app", tab'[t].sure PROVE ShownOK(t)'
  BY DEF ShownsOK, ShownOK
<1>1. ShownOK(t) BY DEF CInv, ShownsOK
<1>3. tab[t].page = "app" /\ tab[t].sure /\ tab'[t].shown = tab[t].shown BY DEF TabsKept
<1>4. \A g \in Flows : ListKept(flow[g], flow'[g], t) OBVIOUS
<1>5. CASE \E g \in Flows : IsDecided(flow[g], t)
  <2>1. \E g \in Flows : IsDecided(flow'[g], t) BY <1>4, <1>5 DEF ListKept
  <2> QED BY <2>1 DEF ShownOK
<1>6. CASE ~\E g \in Flows : IsDecided(flow[g], t)
  <2>1. /\ tab[t].shown = status \/ \E g \in Flows : IsFetch(flow[g], t)
        /\ \A g \in Flows : IsFetch(flow[g], t) /\ flow[g].at = "ok" => flow[g].seen = status
    BY <1>1, <1>3, <1>6 DEF ShownOK
  <2>2. tab'[t].shown = status' \/ \E g \in Flows : IsFetch(flow'[g], t)
    BY <1>3, <1>4, <2>1 DEF ListKept
  <2>3. \A g \in Flows : IsFetch(flow'[g], t) /\ flow'[g].at = "ok" => flow'[g].seen = status'
    BY <1>4, <2>1 DEF ListKept
  <2> QED BY <2>2, <2>3 DEF ShownOK
<1> QED BY <1>5, <1>6

LEMMA ListSame == ASSUME NEW p, NEW t PROVE ListKept(p, p, t)
    BY DEF ListKept

LEMMA ShownMoved ==
    ASSUME CInv, NEW f \in Flows, NEW q, Moved(f, q), TabsKept, status' = status,
           \A t \in Tabs : tab'[t].sure => ListKept(flow[f], q, t)
    PROVE  ShownsOK'
<1>1. flow \in [Flows -> Flow] BY DEF CInv, TypeOK
<1>2. \A g \in Flows : flow'[g] = IF g = f THEN q ELSE flow[g] BY <1>1 DEF Moved
<1>3. \A t \in Tabs : tab'[t].page = "app" /\ tab'[t].sure =>
         \A g \in Flows : ListKept(flow[g], flow'[g], t)
  BY <1>2, ListSame
<1> QED BY <1>3, ShownAll

LEMMA PlainKeeps == ASSUME CInv, NEW f \in Flows, NEW q, Plain(f, q) PROVE CInv'
<1>1. Moved(f, q) BY DEF Plain
<1>2. TypeOK' BY <1>1, MovedFlows DEF Plain, RestType, TabsKept, CInv, TypeOK
<1>3. FlowsOK' BY <1>1, MovedFlows
<1>4. CleansOK'
  <2>1. OwnDidOnly(f) BY DEF Plain, OwnDidOnly
  <2> QED BY <1>1, <2>1, CleanMoved DEF Plain
<1>5. ShownsOK' BY <1>1, ShownMoved DEF Plain
<1>6. ClerkOK(clerk, owner)' BY DEF Plain, CInv
<1> QED BY <1>2, <1>3, <1>4, <1>5, <1>6 DEF CInv

-----------------------------------------------------------------------------
\* What a flow's own fields say when it has a call out.
LEMMA FlowFacts ==
    ASSUME CInv, NEW f \in Flows
    PROVE  /\ flow \in [Flows -> Flow] /\ flow[f] \in Flow
           /\ FlowOK(f, flow[f]) /\ CleanOK(f)
           /\ tab \in [Tabs -> Tab] /\ status \in [Vcs -> Statuses]
           /\ owner \in [Dids -> Students \cup {None}]
    BY DEF CInv, TypeOK, FlowsOK, CleansOK

LEMMA RestSame ==
    ASSUME CInv, UNCHANGED <<students, refresh, trusted>>, count' = count \/ Fault \/ Asked
    PROVE  RestType
    BY DEF CInv, TypeOK, RestType, Fault, Asked

LEMMA TabsSame == ASSUME CInv, tab' = tab PROVE TabsKept
    BY DEF CInv, TypeOK, TabsKept

LEMMA TabsHeaders == ASSUME CInv, NEW t \in Tabs, tab' = Headers(t) PROVE TabsKept
    BY HeadersType DEF CInv, TabsKept

LEMMA TabsLeft == ASSUME CInv, NEW t \in Tabs, tab' = LeaveFor(t) PROVE TabsKept
    BY LeaveType DEF CInv, TabsKept

\* An answer that is not a success leaves the tables to what they were.
LEMMA AnswerPlain ==
    ASSUME CInv, NEW f \in Flows, NEW at \in {"save", "failed", "unauthorised"}, Answer(f, at),
           flow[f].at # "idle",
           at = "unauthorised" => flow[f].at = "wire",
           flow[f].at = "ok" => at = "failed", flow[f].at # "failed",
           RestType, UNCHANGED <<owner, status, tab, clerk>>
    PROVE  CInv'
<1> DEFINE p == flow[f]
           q == Answered(p, at)
<1>1. p \in Flow /\ FlowOK(f, p) /\ CleanOK(f) BY FlowFacts
<1>2. at \in At BY DEF At
<1>3. flow' = [flow EXCEPT ![f] = q] BY <1>2, AnswerIs DEF CInv
<1>4. /\ q \in Flow
      /\ p.dropped => q = Idle
      /\ ~p.dropped =>
           /\ q.step = p.step /\ q.at = at /\ q.kind = p.kind /\ q.t = p.t
           /\ q.v = p.v /\ q.s = p.s /\ q.tries = p.tries /\ q.newest = p.newest
           /\ q.seen = p.seen /\ ~q.dropped /\ q.made = p.made
           /\ q.told = p.told /\ q.clean = p.clean
  BY <1>1, <1>2, AnsweredType
<1> HIDE DEF q
<1>5. CASE p.dropped
  <2>1. q = Idle BY <1>4, <1>5
  <2>2. FlowOK(f, q) BY <2>1, IdleOK
  <2>3. p.at \in {"wire", "work", "save"} BY <1>1, <1>5 DEF FlowOK
  <2>4. SameDid(p, q) /\ SameDidClean(p, q) /\ ~q.clean
    BY <2>1, IdleFields DEF SameDid, SameDidClean
  <2>5. \A t \in Tabs : ListKept(p, q, t)
    BY <1>5, <2>1, <2>3, IdleFields, NothingIs DEF ListKept, IsDecided, IsFetch
  <2>6. Plain(f, q) BY <1>3, <1>4, <2>2, <2>4, <2>5, TabsSame DEF Plain, Moved
  <2> QED BY <2>6, PlainKeeps
<1>6. CASE ~p.dropped
  <2>2. FlowOK(f, q) BY <1>1, <1>4, <1>6 DEF FlowOK
  <2>4. SameDid(p, q) /\ SameDidClean(p, q)
    BY <1>4, <1>6 DEF SameDid, SameDidClean
  <2>5. \A t \in Tabs : ListKept(p, q, t)
    BY <1>4, <1>6 DEF ListKept, IsDecided, IsFetch
  <2>7. q.clean => EffectOK(q, owner, status)
    BY <1>1, <1>4, <1>6 DEF CleanOK, EffectOK, Attached, Landed
  <2>6. Plain(f, q) BY <1>3, <1>4, <2>2, <2>4, <2>5, <2>7, TabsSame DEF Plain, Moved
  <2> QED BY <2>6, PlainKeeps
<1> QED BY <1>5, <1>6

LEMMA LoseKeeps == ASSUME CInv, NEW f \in Flows, Lose(f) PROVE CInv'
<1>1. RestType BY RestSame DEF Lose, server
<1> QED BY <1>1, AnswerPlain DEF Lose, server

LEMMA ReadAttachKeeps == ASSUME CInv, NEW f \in Flows, ReadAttach(f) PROVE CInv'
<1>1. RestType BY RestSame DEF ReadAttach, server
<1> QED BY <1>1, AnswerPlain DEF ReadAttach, Here, server

LEMMA ReadVcKeeps == ASSUME CInv, NEW f \in Flows, ReadVc(f) PROVE CInv'
<1>1. RestType BY RestSame DEF ReadVc, server
<1> QED BY <1>1, AnswerPlain DEF ReadVc, Here, server

LEMMA ArriveKeeps == ASSUME CInv, NEW f \in Flows, Arrive(f) PROVE CInv'
<1>1. RestType BY RestSame DEF Arrive, server
<1>2. CASE flow[f].token = "live" /\ trusted
  <2> DEFINE p == flow[f]
             q == [p EXCEPT !.at = "work", !.token = "none", !.retried = FALSE]
  <2>1. p \in Flow /\ FlowOK(f, p) /\ CleanOK(f) /\ flow \in [Flows -> Flow] BY FlowFacts
  <2>2. flow' = [flow EXCEPT ![f] = q] BY <1>2, <2>1 DEF Arrive, Flow
  <2>3. q \in Flow BY <2>1 DEF Flow, At, Tokens
  <2>4. /\ q.step = p.step /\ q.at = "work" /\ q.kind = p.kind /\ q.t = p.t
        /\ q.v = p.v /\ q.s = p.s /\ q.newest = p.newest /\ q.seen = p.seen
        /\ q.dropped = p.dropped /\ q.made = p.made /\ q.told = p.told /\ q.clean = p.clean
    BY <2>1 DEF Flow
  <2>5. p.at = "wire" BY DEF Arrive
  <2> HIDE DEF q
  <2>6. FlowOK(f, q) BY <2>1, <2>4, <2>5 DEF FlowOK
  <2>7. SameDid(p, q) /\ SameDidClean(p, q) BY <2>4, <2>5 DEF SameDid, SameDidClean
  <2>8. \A t \in Tabs : ListKept(p, q, t) BY <2>4, <2>5 DEF ListKept, IsDecided, IsFetch
  <2>9. q.clean => EffectOK(q, owner, status)
    BY <2>1, <2>4, <2>5 DEF CleanOK, EffectOK, Attached, Landed
  <2>10. Plain(f, q)
    BY <1>1, <2>2, <2>3, <2>6, <2>7, <2>8, <2>9, TabsSame DEF Plain, Moved, Arrive, server
  <2> QED BY <2>10, PlainKeeps
<1>3. CASE ~(flow[f].token = "live" /\ trusted)
  <2>1. Answer(f, "unauthorised") /\ flow[f].at = "wire" /\ UNCHANGED <<owner, status, tab, clerk>>
    BY <1>3 DEF Arrive, server
  <2> QED BY <1>1, <2>1, AnswerPlain
<1> QED BY <1>2, <1>3

\* A flow that goes on, no decision of its own just answered.
LEMMA OnwardPlain ==
    ASSUME CInv, NEW f \in Flows, NEW q \in Flow, flow' = [flow EXCEPT ![f] = q],
           FlowOK(f, q), flow[f].at # "idle",
           q.kind = flow[f].kind, q.t = flow[f].t, q.v = flow[f].v,
           q.newest = flow[f].newest, q.dropped = flow[f].dropped,
           q.clean => flow[f].clean,
           q.clean /\ Attached(q) => Attached(flow[f]) /\ q.s = flow[f].s,
           q.clean /\ Landed(q) => Landed(flow[f]),
           ~(flow[f].step = "decide" /\ flow[f].at \in {"ok", "failed"}),
           flow[f].step = "list" => q.step = "list",
           q.step = "list" /\ q.at = "ok" => q.seen = status,
           RestType, TabsKept, UNCHANGED <<owner, status, clerk>>
    PROVE  CInv'
<1>1. CleanOK(f) BY FlowFacts
<1>2. SameDid(flow[f], q) /\ SameDidClean(flow[f], q) BY DEF SameDid, SameDidClean
<1>3. \A t \in Tabs : ListKept(flow[f], q, t) BY DEF ListKept, IsDecided, IsFetch
<1>4. q.clean => EffectOK(q, owner, status) BY <1>1 DEF CleanOK, EffectOK
<1>5. Plain(f, q) BY <1>2, <1>3, <1>4 DEF Plain, Moved
<1> QED BY <1>5, PlainKeeps

\* A flow that ends, when no list of a tab in use was waiting for it.
LEMMA EndPlain ==
    ASSUME CInv, NEW f \in Flows, flow' = [flow EXCEPT ![f] = Idle],
           \A t \in Tabs : tab'[t].sure => ~IsDecided(flow[f], t) /\ ~IsFetch(flow[f], t),
           RestType, TabsKept, UNCHANGED <<owner, status, clerk>>
    PROVE  CInv'
<1>1. Idle \in Flow /\ FlowOK(f, Idle) BY IdleType, IdleOK
<1>2. SameDid(flow[f], Idle) /\ SameDidClean(flow[f], Idle)
  BY IdleFields DEF SameDid, SameDidClean
<1>3. \A t \in Tabs : tab'[t].sure => ListKept(flow[f], Idle, t)
  BY IdleFields DEF ListKept, IsFetch
<1>4. Plain(f, Idle) BY <1>1, <1>2, <1>3, IdleFields DEF Plain, Moved
<1> QED BY <1>4, PlainKeeps

LEMMA CreateStudentKeeps == ASSUME CInv, NEW f \in Flows, CreateStudent(f) PROVE CInv'
<1> DEFINE p == flow[f]
<1>1. p \in Flow /\ FlowOK(f, p) /\ flow \in [Flows -> Flow] BY FlowFacts
<1>2. PICK s \in Students :
        /\ students' = [students EXCEPT ![s] = "live"]
        /\ flow' = [flow EXCEPT ![f] = IF @.dropped THEN Idle
                      ELSE [@ EXCEPT !.at = "ok", !.s = s, !.made = p.made + 1]]
  BY DEF CreateStudent
<1>3. p.step = "create" /\ p.at = "work" BY DEF CreateStudent, Here
<1>4. RestType /\ TabsKept /\ UNCHANGED <<owner, status, clerk>>
  <2>1. students' \in [Students -> Lives] BY <1>2 DEF CInv, TypeOK, Lives
  <2> QED BY <2>1, TabsSame DEF CreateStudent, RestType, CInv, TypeOK
<1>5. CASE p.dropped
  <2>1. flow' = [flow EXCEPT ![f] = Idle] BY <1>1, <1>2, <1>5
  <2> QED BY <1>3, <1>4, <2>1, EndPlain DEF IsDecided, IsFetch
<1>6. CASE ~p.dropped
  <2> DEFINE q == [p EXCEPT !.at = "ok", !.s = s, !.made = p.made + 1]
  <2>1. flow' = [flow EXCEPT ![f] = q] BY <1>1, <1>2, <1>6
  <2>2. p.made = 0 /\ s \in Students BY <1>1, <1>2, <1>3 DEF FlowOK
  <2>3. q \in Flow
    <3>1. 0 + 1 \in Nat OBVIOUS
    <3> QED BY <1>1, <2>2, <3>1 DEF Flow, At
  <2>4. /\ q.step = p.step /\ q.at = "ok" /\ q.kind = p.kind /\ q.t = p.t
        /\ q.v = p.v /\ q.newest = p.newest /\ q.dropped = p.dropped /\ q.made = p.made + 1
        /\ q.told = p.told /\ q.clean = p.clean
    BY <1>1 DEF Flow
  <2> HIDE DEF q
  <2>5. FlowOK(f, q) BY <1>1, <1>3, <1>6, <2>2, <2>4 DEF FlowOK
  <2> QED BY <1>3, <1>4, <2>1, <2>3, <2>4, <2>5, OnwardPlain DEF Attached, Landed
<1> QED BY <1>5, <1>6

LEMMA ReadListKeeps == ASSUME CInv, NEW f \in Flows, ReadList(f) PROVE CInv'
<1> DEFINE p == flow[f]
<1>1. p \in Flow /\ FlowOK(f, p) /\ flow \in [Flows -> Flow] /\ status \in [Vcs -> Statuses]
  BY FlowFacts
<1>2. flow' = [flow EXCEPT ![f] = IF @.dropped THEN Idle ELSE [@ EXCEPT !.at = "ok", !.seen = status]]
  BY DEF ReadList
<1>3. p.step = "list" /\ p.at = "work" BY DEF ReadList, Here
<1>4. RestType /\ TabsKept /\ UNCHANGED <<owner, status, clerk>>
  BY RestSame, TabsSame DEF ReadList, server
<1>5. CASE p.dropped
  <2>1. flow' = [flow EXCEPT ![f] = Idle] BY <1>1, <1>2, <1>5
  <2> QED BY <1>3, <1>4, <1>5, <2>1, EndPlain DEF IsDecided, IsFetch
<1>6. CASE ~p.dropped
  <2> DEFINE q == [p EXCEPT !.at = "ok", !.seen = status]
  <2>1. flow' = [flow EXCEPT ![f] = q] BY <1>1, <1>2, <1>6
  <2>3. q \in Flow BY <1>1, <1>3 DEF Flow, At
  <2>4. /\ q.step = p.step /\ q.at = "ok" /\ q.kind = p.kind /\ q.t = p.t
        /\ q.v = p.v /\ q.s = p.s /\ q.newest = p.newest /\ q.dropped = p.dropped /\ q.made = p.made
        /\ q.told = p.told /\ q.clean = p.clean /\ q.seen = status
    BY <1>1 DEF Flow
  <2> HIDE DEF q
  <2>5. FlowOK(f, q) BY <1>1, <1>3, <1>6, <2>4 DEF FlowOK
  <2> QED BY <1>3, <1>4, <2>1, <2>3, <2>4, <2>5, OnwardPlain DEF Attached, Landed
<1> QED BY <1>5, <1>6

-----------------------------------------------------------------------------
(***************************************************************************)
(* Refused calls, and the session.                                         *)
(***************************************************************************)
LEMMA GiveUpPlain ==
    ASSUME CInv, NEW f \in Flows, flow[f].at = "unauthorised" \/ flow[f].at = "refresh", GiveUp(f)
    PROVE  CInv'
<1> DEFINE p == flow[f]
           q == [p EXCEPT !.at = "failed", !.retried = TRUE]
<1>1. p \in Flow /\ FlowOK(f, p) /\ flow \in [Flows -> Flow] BY FlowFacts
<1>2. flow' = [flow EXCEPT ![f] = q] BY <1>1 DEF GiveUp, Flow
<1>3. q \in Flow BY <1>1 DEF Flow, At
<1>4. /\ q.step = p.step /\ q.at = "failed" /\ q.kind = p.kind /\ q.t = p.t
      /\ q.v = p.v /\ q.s = p.s /\ q.newest = p.newest /\ q.dropped = p.dropped
      /\ q.made = p.made /\ q.told = p.told /\ q.clean = p.clean
  BY <1>1 DEF Flow
<1>5. p.at \in {"unauthorised", "refresh"} OBVIOUS
<1>6. p.t \in Tabs BY <1>1, <1>5 DEF FlowOK
<1>7. TabsKept BY <1>6, TabsLeft DEF GiveUp
<1>8. RestType BY DEF GiveUp, RestType, CInv, TypeOK, Tokens, server
<1> HIDE DEF q
<1>9. FlowOK(f, q) BY <1>1, <1>4, <1>5 DEF FlowOK
<1>10. UNCHANGED <<owner, status, clerk>> BY DEF GiveUp, server
<1> QED BY <1>2, <1>3, <1>4, <1>5, <1>7, <1>8, <1>9, <1>10, OnwardPlain DEF Attached, Landed

LEMMA AskRefreshKeeps == ASSUME CInv, NEW f \in Flows, AskRefresh(f) PROVE CInv'
<1> DEFINE p == flow[f]
           q == [p EXCEPT !.at = "refresh", !.retried = TRUE, !.token = refresh]
<1>1. CASE refresh = "none" BY <1>1, GiveUpPlain DEF AskRefresh
<1>2. CASE refresh # "none"
  <2>1. p \in Flow /\ FlowOK(f, p) /\ flow \in [Flows -> Flow] /\ refresh \in Tokens
    BY FlowFacts DEF CInv, TypeOK
  <2>2. flow' = [flow EXCEPT ![f] = q] BY <1>2, <2>1 DEF AskRefresh, Flow
  <2>3. q \in Flow BY <2>1 DEF Flow, At
  <2>4. /\ q.step = p.step /\ q.at = "refresh" /\ q.kind = p.kind /\ q.t = p.t
        /\ q.v = p.v /\ q.s = p.s /\ q.newest = p.newest /\ q.dropped = p.dropped
        /\ q.made = p.made /\ q.told = p.told /\ q.clean = p.clean
    BY <2>1 DEF Flow
  <2>5. p.at = "unauthorised" BY DEF AskRefresh
  <2>6. UNCHANGED <<server, tab, refresh, trusted, clerk, count>> BY <1>2 DEF AskRefresh
  <2>7. TabsKept /\ RestType BY <2>6, TabsSame, RestSame DEF server
  <2> HIDE DEF q
  <2>9. FlowOK(f, q) BY <2>1, <2>4, <2>5 DEF FlowOK
  <2> QED BY <2>2, <2>3, <2>4, <2>5, <2>6, <2>7, <2>9, OnwardPlain DEF Attached, Landed, server
<1> QED BY <1>1, <1>2

LEMMA RefreshedKeeps == ASSUME CInv, NEW f \in Flows, Refreshed(f) PROVE CInv'
<1> DEFINE p == flow[f]
           q == [p EXCEPT !.at = "wire"]
<1>1. p \in Flow /\ FlowOK(f, p) /\ flow \in [Flows -> Flow] /\ tab \in [Tabs -> Tab] BY FlowFacts
<1>2. flow' = [flow EXCEPT ![f] = q] BY <1>1 DEF Refreshed, Flow
<1>3. q \in Flow BY <1>1 DEF Flow, At
<1>4. /\ q.step = p.step /\ q.at = "wire" /\ q.kind = p.kind /\ q.t = p.t
      /\ q.v = p.v /\ q.s = p.s /\ q.newest = p.newest /\ q.dropped = p.dropped
      /\ q.made = p.made /\ q.told = p.told /\ q.clean = p.clean
  BY <1>1 DEF Flow
<1>5. p.at = "refresh" BY DEF Refreshed
<1>6. p.t \in Tabs BY <1>1, <1>5 DEF FlowOK
<1>7. TabsKept
  <2> DEFINE x == [tab[p.t] EXCEPT !.access = "live", !.header = "live"]
  <2>1. x \in Tab /\ x.page = tab[p.t].page /\ x.shown = tab[p.t].shown /\ x.sure = tab[p.t].sure
    BY <1>1, <1>6 DEF Tab, Tokens
  <2>2. tab' = [tab EXCEPT ![p.t] = x] BY <1>1, <1>6 DEF Refreshed, Tab
  <2> HIDE DEF x
  <2> QED BY <1>1, <1>6, <2>1, <2>2 DEF TabsKept
<1>8. RestType BY RestSame DEF Refreshed, server
<1> HIDE DEF q
<1>9. FlowOK(f, q) BY <1>1, <1>4, <1>5 DEF FlowOK
<1>10. UNCHANGED <<owner, status, clerk>> BY DEF Refreshed, server
<1> QED BY <1>2, <1>3, <1>4, <1>5, <1>7, <1>8, <1>9, <1>10, OnwardPlain DEF Attached, Landed

\* A call that is given up, or that is refused once more.
LEMMA FailsPlain ==
    ASSUME CInv, NEW f \in Flows, flow[f].at \in {"unauthorised", "refresh"},
           flow' = [flow EXCEPT ![f].at = "failed"],
           RestType, TabsKept, UNCHANGED <<owner, status, clerk>>
    PROVE  CInv'
<1> DEFINE p == flow[f]
           q == [p EXCEPT !.at = "failed"]
<1>1. p \in Flow /\ FlowOK(f, p) /\ flow \in [Flows -> Flow] BY FlowFacts
<1>2. flow' = [flow EXCEPT ![f] = q] BY <1>1 DEF Flow
<1>3. q \in Flow BY <1>1 DEF Flow, At
<1>4. /\ q.step = p.step /\ q.at = "failed" /\ q.kind = p.kind /\ q.t = p.t
      /\ q.v = p.v /\ q.s = p.s /\ q.newest = p.newest /\ q.dropped = p.dropped
      /\ q.made = p.made /\ q.told = p.told /\ q.clean = p.clean
  BY <1>1 DEF Flow
<1> HIDE DEF q
<1>9. FlowOK(f, q) BY <1>1, <1>4 DEF FlowOK
<1> QED BY <1>2, <1>3, <1>4, <1>9, OnwardPlain DEF Attached, Landed

LEMMA RefreshFailsKeeps == ASSUME CInv, NEW f \in Flows, RefreshFails(f) PROVE CInv'
<1>1. CASE flow[f].token = "dead" BY <1>1, GiveUpPlain DEF RefreshFails
<1>2. CASE flow[f].token # "dead"
  <2>1. FlowOK(f, flow[f]) /\ flow[f].at = "refresh" BY FlowFacts DEF RefreshFails
  <2>2. flow[f].t \in Tabs BY <2>1 DEF FlowOK
  <2>3. TabsKept BY <1>2, <2>2, TabsLeft DEF RefreshFails
  <2>4. RestType
    BY <1>2 DEF RefreshFails, RestType, CInv, TypeOK, Tokens, server, Fault
  <2> QED BY <1>2, <2>1, <2>3, <2>4, FailsPlain DEF RefreshFails, server
<1> QED BY <1>1, <1>2

LEMMA RefusedKeeps == ASSUME CInv, NEW f \in Flows, Refused(f) PROVE CInv'
<1>1. RestType /\ TabsKept BY RestSame, TabsSame DEF Refused, server
<1> QED BY <1>1, FailsPlain DEF Refused, server

-----------------------------------------------------------------------------
(***************************************************************************)
(* The dialogs.                                                            *)
(***************************************************************************)

\* g is flow f, perhaps unclean or tried once more.
SameFlow(f, g) ==
    /\ g \in Flow
    /\ g.kind = flow[f].kind /\ g.t = flow[f].t /\ g.v = flow[f].v /\ g.s = flow[f].s
    /\ g.newest = flow[f].newest /\ g.dropped = flow[f].dropped /\ g.made = flow[f].made
    /\ g.told = flow[f].told /\ g.step = flow[f].step /\ g.at = flow[f].at
    /\ g.clean => flow[f].clean

LEMMA SameItself == ASSUME CInv, NEW f \in Flows PROVE SameFlow(f, flow[f])
    BY FlowFacts DEF SameFlow

LEMMA SameUnclean ==
    ASSUME CInv, NEW f \in Flows PROVE SameFlow(f, Unclean(f)) /\ ~Unclean(f).clean
<1>1. flow[f] \in Flow BY FlowFacts
<1>2. Unclean(f) \in Flow BY <1>1 DEF Unclean, Flow
<1> QED BY <1>1, <1>2 DEF SameFlow, Unclean, Flow

LEMMA SameTries ==
    ASSUME CInv, NEW f \in Flows, flow[f].tries < Retries
    PROVE  SameFlow(f, [flow[f] EXCEPT !.tries = @ + 1])
<1> DEFINE n == flow[f].tries + 1
           g == [flow[f] EXCEPT !.tries = n]
<1>1. flow[f] \in Flow /\ Retries \in Nat BY FlowFacts, NothingIs
<1>2. flow[f].tries \in 0 .. Retries BY <1>1 DEF Flow
<1>3. n \in 0 .. Retries BY <1>1, <1>2
<1>4. [flow[f] EXCEPT !.tries = @ + 1] = g OBVIOUS
<1> HIDE DEF n
<1>5. g \in Flow BY <1>1, <1>3 DEF Flow
<1>6. SameFlow(f, g) BY <1>1, <1>5 DEF SameFlow, Flow
<1> QED BY <1>4, <1>6

\* The next call of a dialog.
LEMMA GoPlain ==
    ASSUME CInv, NEW f \in Flows, NEW g, SameFlow(f, g),
           NEW step \in {"attach", "decide", "list"}, Go(f, g, step),
           flow[f].at # "idle",
           step = "list" => flow[f].step = "list",
           step # "list" => flow[f].kind \in Deciding /\ flow[f].step # "list",
           ~(flow[f].step = "decide" /\ flow[f].at \in {"ok", "failed"}),
           step = "decide" /\ g.clean => Attached(flow[f]),
           RestType, UNCHANGED <<owner, status, clerk>>
    PROVE  CInv'
<1> DEFINE p == flow[f]
           q == Carrying(g, step)
<1>1. p \in Flow /\ FlowOK(f, p) BY FlowFacts
<1>2. g \in Flow /\ g.t \in Tabs /\ g.t = p.t BY <1>1 DEF SameFlow, FlowOK
<1>3. step \in Steps BY DEF Steps
<1>4. /\ q \in Flow
      /\ q.step = step /\ q.at = "wire" /\ q.kind = g.kind /\ q.t = g.t
      /\ q.v = g.v /\ q.s = g.s /\ q.tries = g.tries /\ q.newest = g.newest
      /\ q.seen = g.seen /\ q.dropped = g.dropped /\ q.made = g.made
      /\ q.told = g.told /\ q.clean = g.clean
  BY <1>2, <1>3, CarryingType DEF CInv
<1>5. flow' = [flow EXCEPT ![f] = q] /\ TabsKept BY <1>2, TabsHeaders DEF Go, Call
<1> HIDE DEF q
<1>6. q.at = "wire" /\ q.kind = p.kind /\ q.t = p.t /\ q.v = p.v /\ q.s = p.s
      /\ q.newest = p.newest /\ q.dropped = p.dropped /\ q.made = p.made /\ q.told = p.told
      /\ (q.clean => p.clean /\ g.clean)
  BY <1>4 DEF SameFlow
<1>7. FlowOK(f, q) BY <1>1, <1>2, <1>4, <1>6 DEF FlowOK, Deciding
<1>8. q.clean /\ Attached(q) => Attached(p) BY <1>4, <1>6 DEF Attached
<1>9. q.clean /\ Landed(q) => Landed(p) BY <1>4 DEF Landed
<1> QED BY <1>4, <1>5, <1>6, <1>7, <1>8, <1>9, OnwardPlain

LEMMA CameRest == ASSUME CInv, NEW f \in Flows, NEW step, NEW at, Came(f, step, at)
                  PROVE  RestType /\ UNCHANGED <<owner, status, clerk>>
                         /\ flow[f].step = step /\ flow[f].at = at
    BY RestSame DEF Came, Here, server

LEMMA AfterCreateKeeps == ASSUME CInv, NEW f \in Flows, AfterCreate(f) PROVE CInv'
<1>1. Came(f, "create", "ok") /\ Go(f, flow[f], "attach") BY DEF AfterCreate
<1>2. FlowOK(f, flow[f]) BY FlowFacts
<1>3. flow[f].kind \in Deciding BY <1>1, <1>2 DEF FlowOK, Came, Here
<1> QED BY <1>1, <1>3, CameRest, SameItself, GoPlain

LEMMA NotCreatedKeeps == ASSUME CInv, NEW f \in Flows, NotCreated(f) PROVE CInv'
<1>1. Came(f, "create", "failed") /\ End(f) /\ UNCHANGED tab BY DEF NotCreated
<1>2. \A t \in Tabs : ~IsDecided(flow[f], t) /\ ~IsFetch(flow[f], t)
  BY <1>1, CameRest DEF IsDecided, IsFetch
<1> QED BY <1>1, <1>2, CameRest, TabsSame, EndPlain DEF End

LEMMA AfterAttachKeeps == ASSUME CInv, NEW f \in Flows, AfterAttach(f) PROVE CInv'
<1>1. Came(f, "attach", "ok") /\ Go(f, flow[f], "decide") BY DEF AfterAttach
<1>2. FlowOK(f, flow[f]) BY FlowFacts
<1>3. flow[f].kind \in Deciding /\ Attached(flow[f])
  BY <1>1, <1>2 DEF FlowOK, Came, Here, Attached
<1> QED BY <1>1, <1>3, CameRest, SameItself, GoPlain

LEMMA NotAttachedKeeps == ASSUME CInv, NEW f \in Flows, NotAttached(f) PROVE CInv'
<1>1. Came(f, "attach", "failed") /\ Go(f, Unclean(f), "decide") BY DEF NotAttached
<1>2. FlowOK(f, flow[f]) BY FlowFacts
<1>3. flow[f].kind \in Deciding BY <1>1, <1>2 DEF FlowOK, Came, Here
<1> QED BY <1>1, <1>3, CameRest, SameUnclean, GoPlain

LEMMA UnsureType ==
    ASSUME CInv, NEW f \in Flows, flow[f].t \in Tabs
    PROVE  /\ Unsure(f) \in [Tabs -> Tab]
           /\ \A t \in Tabs : Unsure(f)[t].page = tab[t].page
           /\ \A t \in Tabs : Unsure(f)[t].shown = tab[t].shown
           /\ \A t \in Tabs : Unsure(f)[t].sure => tab[t].sure /\ t # flow[f].t
<1> DEFINE u == flow[f].t
           x == [tab[u] EXCEPT !.sure = FALSE]
<1>1. tab \in [Tabs -> Tab] BY FlowFacts
<1>2. x \in Tab /\ x.page = tab[u].page /\ x.shown = tab[u].shown /\ x.sure = FALSE
  BY <1>1 DEF Tab
<1>3. Unsure(f) = [tab EXCEPT ![u] = x] BY <1>1 DEF Unsure, Tab
<1> HIDE DEF x
<1> QED BY <1>1, <1>2, <1>3

LEMMA NotListedKeeps == ASSUME CInv, NEW f \in Flows, NotListed(f) PROVE CInv'
<1>1. Came(f, "list", "failed") BY DEF NotListed
<1>2. RestType /\ UNCHANGED <<owner, status, clerk>> /\ flow[f].step = "list" /\ flow[f].at = "failed"
  BY <1>1, CameRest
<1>3. FlowOK(f, flow[f]) BY FlowFacts
<1>4. flow[f].t \in Tabs BY <1>2, <1>3 DEF FlowOK
<1>5. CASE flow[f].newest /\ flow[f].tries < Retries
  <2> DEFINE g == [flow[f] EXCEPT !.tries = @ + 1]
  <2>1. Go(f, g, "list") /\ SameFlow(f, g) BY <1>5, SameTries DEF NotListed
  <2> HIDE DEF g
  <2> QED BY <1>2, <2>1, GoPlain
<1>6. CASE ~(flow[f].newest /\ flow[f].tries < Retries)
  <2>1. End(f) /\ tab' = IF Shows(f) THEN Unsure(f) ELSE tab BY <1>6 DEF NotListed
  <2>2. TabsKept BY <1>4, <2>1, UnsureType, TabsSame DEF TabsKept
  <2>3. \A t \in Tabs : tab'[t].sure => ~IsFetch(flow[f], t)
    BY <1>4, <2>1, UnsureType DEF IsFetch, Shows
  <2>4. \A t \in Tabs : ~IsDecided(flow[f], t) BY <1>2 DEF IsDecided
  <2> QED BY <1>2, <2>1, <2>2, <2>3, <2>4, EndPlain DEF End
<1> QED BY <1>5, <1>6

-----------------------------------------------------------------------------
(***************************************************************************)
(* Steps that touch several flows: a fetch outdates others, tokens age, a  *)
(* dialog makes its rivals unclean.  What a bystander keeps.               *)
(***************************************************************************)
Bystander(p, q) ==
    /\ q \in Flow
    /\ q.kind = p.kind /\ q.step = p.step /\ q.at = p.at /\ q.t = p.t /\ q.v = p.v
    /\ q.s = p.s /\ q.seen = p.seen /\ q.dropped = p.dropped
    /\ q.made = p.made /\ q.told = p.told
    /\ q.newest => p.newest
    /\ ~q.newest /\ p.newest => p.step = "list"
    /\ q.clean => p.clean

LEMMA BystanderOK ==
    ASSUME NEW h, NEW p, NEW q, FlowOK(h, p), Bystander(p, q) PROVE FlowOK(h, q)
    BY DEF FlowOK, Bystander

LEMMA BystanderDid ==
    ASSUME NEW p, NEW q, Bystander(p, q)
    PROVE  /\ SameDid(p, q) /\ SameDidClean(p, q)
           /\ \A ow, st : EffectOK(p, ow, st) => EffectOK(q, ow, st)
    BY DEF Bystander, SameDid, SameDidClean, EffectOK, Attached, Landed

LEMMA BystanderList ==
    ASSUME NEW p, NEW q, Bystander(p, q), q.newest = p.newest, NEW t
    PROVE  ListKept(p, q, t)
    BY DEF Bystander, ListKept, IsDecided, IsFetch

LEMMA BystanderSelf == ASSUME NEW p \in Flow PROVE Bystander(p, p)
    BY DEF Bystander

LEMMA BystanderUnclean ==
    ASSUME NEW p \in Flow PROVE /\ Bystander(p, [p EXCEPT !.clean = FALSE])
                                /\ [p EXCEPT !.clean = FALSE].newest = p.newest
                                /\ ~[p EXCEPT !.clean = FALSE].clean
    BY DEF Bystander, Flow

LEMMA BystanderToken ==
    ASSUME NEW p \in Flow, NEW x \in Tokens
    PROVE  Bystander(p, [p EXCEPT !.token = x]) /\ [p EXCEPT !.token = x].newest = p.newest
    BY DEF Bystander, Flow

LEMMA BystanderOlder ==
    ASSUME NEW p \in Flow, p.step = "list"
    PROVE  Bystander(p, [p EXCEPT !.newest = FALSE]) /\ ~[p EXCEPT !.newest = FALSE].newest
    BY DEF Bystander, Flow

LEMMA CleanAll ==
    ASSUME CInv, clerk.at = "idle" => clerk'.at = "idle",
           \A h \in Flows : SameDid(flow[h], flow'[h]) /\ SameDidClean(flow[h], flow'[h]),
           \A h \in Flows : flow'[h].clean => EffectOK(flow'[h], owner', status')
    PROVE  CleansOK'
<1> SUFFICES ASSUME NEW h \in Flows, flow'[h].clean PROVE CleanOK(h)' BY DEF CleansOK, CleanOK
<1>1. CleanOK(h) /\ flow[h].clean /\ flow'[h].v = flow[h].v
  BY DEF CInv, CleansOK, SameDidClean
<1>2. \A g \in Flows \ {h} : ~Rivalling(flow[g], flow[h].v) BY <1>1 DEF CleanOK
<1>3. \A g \in Flows \ {h} : ~Rivalling(flow'[g], flow'[h].v)
  BY <1>1, <1>2 DEF Rivalling, SameDid
<1> QED BY <1>1, <1>3 DEF CleanOK

\* Every flow a bystander: only the page, the tokens or the session changed.
LEMMA BystandersKeep ==
    ASSUME CInv, flow' \in [Flows -> Flow],
           \A h \in Flows : Bystander(flow[h], flow'[h]) /\ flow'[h].newest = flow[h].newest,
           RestType, TabsKept, UNCHANGED <<owner, status, clerk>>
    PROVE  CInv'
<1>1. TypeOK' BY DEF CInv, TypeOK, RestType, TabsKept
<1>2. FlowsOK' BY BystanderOK DEF CInv, FlowsOK
<1>3. CleansOK'
  <2>1. \A h \in Flows : SameDid(flow[h], flow'[h]) /\ SameDidClean(flow[h], flow'[h])
    BY BystanderDid
  <2>2. \A h \in Flows : flow'[h].clean => EffectOK(flow'[h], owner', status')
    <3> SUFFICES ASSUME NEW h \in Flows, flow'[h].clean
                 PROVE  EffectOK(flow'[h], owner, status)
      OBVIOUS
    <3>1. CleanOK(h) BY FlowFacts
    <3>2. EffectOK(flow[h], owner, status) BY <2>1, <3>1 DEF CleanOK, SameDidClean
    <3> QED BY <3>2, BystanderDid
  <2> QED BY <2>1, <2>2, CleanAll
<1>4. ShownsOK'
  <2>1. \A t \in Tabs : \A h \in Flows : ListKept(flow[h], flow'[h], t) BY BystanderList
  <2> QED BY <2>1, ShownAll
<1>5. ClerkOK(clerk, owner)' BY DEF CInv
<1> QED BY <1>1, <1>2, <1>3, <1>4, <1>5 DEF CInv

\* Fetching the list again: the tab waits for this fetch and no other.
LEMMA FetchKeeps ==
    ASSUME CInv, NEW f \in Flows, NEW g \in Flow, g.t \in Tabs, Fetch(f, g),
           g.kind # "poll", g.newest, ~g.dropped,
           flow[f].t = g.t \/ flow[f].at = "idle",
           FlowOK(f, Carrying(g, "list")),
           SameDid(flow[f], Carrying(g, "list")), SameDidClean(flow[f], Carrying(g, "list")),
           g.clean => EffectOK(Carrying(g, "list"), owner, status),
           RestType, TabsKept, UNCHANGED <<owner, status, clerk>>
    PROVE  CInv'
<1> DEFINE q == Carrying(g, "list")
           Older(h) == flow[h].t = g.t /\ flow[h].step = "list" /\ flow[h].kind # "poll"
<1>1. flow \in [Flows -> Flow] /\ FlowOK(f, flow[f]) BY FlowFacts
<1>2. /\ q \in Flow /\ q.step = "list" /\ q.at = "wire" /\ q.kind = g.kind /\ q.t = g.t
      /\ q.newest = g.newest /\ q.dropped = g.dropped /\ q.clean = g.clean
  BY CarryingType DEF CInv, Steps
<1>3. /\ flow'[f] = q
      /\ \A h \in Flows \ {f} :
           flow'[h] = IF Older(h) THEN [flow[h] EXCEPT !.newest = FALSE] ELSE flow[h]
  BY DEF Fetch
<1> HIDE DEF q
<1>4. \A h \in Flows \ {f} : /\ Bystander(flow[h], flow'[h])
                             /\ Older(h) => ~flow'[h].newest
                             /\ ~Older(h) => flow'[h] = flow[h]
  <2> SUFFICES ASSUME NEW h \in Flows \ {f}
               PROVE  /\ Bystander(flow[h], flow'[h])
                      /\ Older(h) => ~flow'[h].newest
                      /\ ~Older(h) => flow'[h] = flow[h]
    OBVIOUS
  <2>1. flow[h] \in Flow BY <1>1
  <2>2. CASE Older(h) BY <1>3, <2>1, <2>2, BystanderOlder
  <2>3. CASE ~Older(h) BY <1>3, <2>1, <2>3, BystanderSelf
  <2> QED BY <2>2, <2>3
<1>5. flow' \in [Flows -> Flow]
  <2>1. \A h \in Flows : flow'[h] \in Flow BY <1>2, <1>3, <1>4 DEF Bystander
  <2>2. flow' = [h \in Flows |-> flow'[h]] BY DEF Fetch
  <2> QED BY <2>1, <2>2
<1>6. TypeOK' BY <1>5 DEF CInv, TypeOK, RestType, TabsKept
<1>7. FlowsOK'
  <2> SUFFICES ASSUME NEW h \in Flows PROVE FlowOK(h, flow'[h]) BY DEF FlowsOK
  <2>1. FlowOK(h, flow[h]) BY DEF CInv, FlowsOK
  <2>2. CASE h = f BY <1>3, <2>2 DEF q
  <2>3. CASE h # f BY <1>4, <2>1, <2>3, BystanderOK
  <2> QED BY <2>2, <2>3
<1>8. CleansOK'
  <2>1. \A h \in Flows : SameDid(flow[h], flow'[h]) /\ SameDidClean(flow[h], flow'[h])
    <3> SUFFICES ASSUME NEW h \in Flows
                 PROVE  SameDid(flow[h], flow'[h]) /\ SameDidClean(flow[h], flow'[h])
      OBVIOUS
    <3>1. CASE h = f BY <1>3, <3>1 DEF q
    <3>2. CASE h # f BY <1>4, <3>2, BystanderDid
    <3> QED BY <3>1, <3>2
  <2>2. \A h \in Flows : flow'[h].clean => EffectOK(flow'[h], owner', status')
    <3> SUFFICES ASSUME NEW h \in Flows, flow'[h].clean
                 PROVE  EffectOK(flow'[h], owner, status)
      OBVIOUS
    <3>1. CleanOK(h) BY FlowFacts
    <3>2. EffectOK(flow[h], owner, status) BY <2>1, <3>1 DEF CleanOK, SameDidClean
    <3>3. CASE h = f BY <1>2, <1>3, <3>3 DEF q
    <3>4. CASE h # f BY <1>4, <3>2, <3>4, BystanderDid
    <3> QED BY <3>3, <3>4
  <2> QED BY <2>1, <2>2, CleanAll
<1>9. ShownsOK'
  <2> SUFFICES ASSUME NEW t \in Tabs, tab'[t].page = "app", tab'[t].sure PROVE ShownOK(t)'
    BY DEF ShownsOK, ShownOK
  <2>1. CASE t = g.t
    <3>1. IsFetch(flow'[f], t) /\ flow'[f].at = "wire" BY <1>2, <1>3, <2>1 DEF IsFetch
    <3>2. \A h \in Flows : IsFetch(flow'[h], t) /\ flow'[h].at = "ok" => flow'[h].seen = status'
      <4> SUFFICES ASSUME NEW h \in Flows, IsFetch(flow'[h], t) PROVE h = f
        BY <3>1
      <4>1. CASE h # f
        <5>1. Bystander(flow[h], flow'[h]) BY <1>4, <4>1
        <5>2. Older(h) BY <2>1, <5>1 DEF IsFetch, Bystander
        <5> QED BY <1>4, <4>1, <5>2 DEF IsFetch
      <4> QED BY <4>1
    <3> QED BY <3>1, <3>2 DEF ShownOK
  <2>2. CASE t # g.t
    <3>1. tab[t].page = "app" /\ tab[t].sure /\ tab'[t].shown = tab[t].shown BY DEF TabsKept
    <3>2. flow[f].step = "none" \/ flow[f].t # t BY <1>1, <2>2 DEF FlowOK
    <3>3. \A h \in Flows : IsDecided(flow'[h], t) <=> IsDecided(flow[h], t)
      BY <1>2, <1>3, <1>4, <2>2, <3>2 DEF IsDecided, Bystander
    <3>4. \A h \in Flows : IsFetch(flow'[h], t) <=> IsFetch(flow[h], t)
      BY <1>2, <1>3, <1>4, <2>2, <3>2 DEF IsFetch
    <3>5. \A h \in Flows : IsFetch(flow'[h], t) =>
             flow'[h].at = flow[h].at /\ flow'[h].seen = flow[h].seen
      BY <1>2, <1>3, <1>4, <2>2 DEF IsFetch, Bystander
    <3>6. ShownOK(t) BY DEF CInv, ShownsOK
    <3> QED BY <3>1, <3>3, <3>4, <3>5, <3>6 DEF ShownOK
  <2> QED BY <2>1, <2>2
<1>10. ClerkOK(clerk, owner)' BY DEF CInv
<1> QED BY <1>6, <1>7, <1>8, <1>9, <1>10 DEF CInv

LEMMA AfterListKeeps == ASSUME CInv, NEW f \in Flows, AfterList(f) PROVE CInv'
<1> DEFINE p == flow[f]
<1>1. RestType /\ UNCHANGED <<owner, status, clerk>> /\ p.step = "list" /\ p.at = "ok"
  BY CameRest DEF AfterList
<1>2. p \in Flow /\ FlowOK(f, p) /\ flow \in [Flows -> Flow] /\ tab \in [Tabs -> Tab] BY FlowFacts
<1>3. p.t \in Tabs /\ ~p.dropped BY <1>1, <1>2 DEF FlowOK
<1>4. flow' = [flow EXCEPT ![f] = Idle] BY DEF AfterList, End
<1>5. \A t \in Tabs : ~IsDecided(p, t) BY <1>1 DEF IsDecided
<1>6. CASE ~Shows(f)
  <2>1. TabsKept BY <1>6, TabsSame DEF AfterList
  <2>2. \A t \in Tabs : ~IsFetch(p, t) BY <1>6 DEF IsFetch, Shows
  <2> QED BY <1>1, <1>4, <1>5, <2>1, <2>2, EndPlain
<1>7. CASE Shows(f)
  <2> DEFINE u == p.t
             x == [tab[u] EXCEPT !.shown = p.seen]
  <2>1. tab' = [tab EXCEPT ![u] = x] BY <1>2, <1>7 DEF AfterList, Tab
  <2>2. x \in Tab /\ x.page = tab[u].page /\ x.sure = tab[u].sure /\ x.shown = p.seen
    <3>1. p.seen \in [Vcs -> Statuses] BY <1>2 DEF Flow
    <3>2. tab[u] \in Tab BY <1>2, <1>3
    <3> QED BY <3>1, <3>2 DEF Tab
  <2> HIDE DEF x
  <2>3. tab' \in [Tabs -> Tab] BY <1>2, <2>1, <2>2
  <2>4. Moved(f, Idle) BY <1>4, IdleType, IdleOK DEF Moved
  <2>5. TypeOK' BY <1>1, <2>3, <2>4, MovedFlows DEF CInv, TypeOK, RestType
  <2>6. FlowsOK' BY <2>4, MovedFlows
  <2>7. CleansOK'
    <3>1. SameDid(p, Idle) /\ SameDidClean(p, Idle) /\ ~Idle.clean
      BY IdleFields DEF SameDid, SameDidClean
    <3>2. OwnDidOnly(f) BY <1>1 DEF OwnDidOnly
    <3> QED BY <1>1, <2>4, <3>1, <3>2, CleanMoved
  <2>8. ShownsOK'
    <3> SUFFICES ASSUME NEW t \in Tabs, tab'[t].page = "app", tab'[t].sure PROVE ShownOK(t)'
      BY DEF ShownsOK, ShownOK
    <3>1. tab[t].page = "app" /\ tab[t].sure BY <1>2, <1>3, <2>1, <2>2
    <3>2. ShownOK(t) BY DEF CInv, ShownsOK
    <3>3. \A h \in Flows \ {f} : flow'[h] = flow[h] BY <1>2, <1>4
    <3>4. flow'[f] = Idle BY <1>2, <1>4
    <3>5. CASE \E h \in Flows : IsDecided(flow[h], t)
      <4>1. \E h \in Flows : IsDecided(flow'[h], t) BY <1>5, <3>3, <3>5
      <4> QED BY <4>1 DEF ShownOK
    <3>6. CASE ~\E h \in Flows : IsDecided(flow[h], t)
      <4>1. /\ tab[t].shown = status \/ \E h \in Flows : IsFetch(flow[h], t)
            /\ \A h \in Flows : IsFetch(flow[h], t) /\ flow[h].at = "ok" => flow[h].seen = status
        BY <3>1, <3>2, <3>6 DEF ShownOK
      <4>2. \A h \in Flows : IsFetch(flow'[h], t) => h # f /\ IsFetch(flow[h], t)
        BY <3>3, <3>4, IdleFields DEF IsFetch
      <4>3. \A h \in Flows : IsFetch(flow'[h], t) /\ flow'[h].at = "ok" => flow'[h].seen = status
        BY <3>3, <4>1, <4>2
      <4>4. CASE t = u
        <5>1. IsFetch(p, t) BY <1>1, <1>3, <1>7, <4>4 DEF IsFetch, Shows
        <5>2. p.seen = status BY <1>1, <4>1, <5>1
        <5>3. tab'[t].shown = status BY <1>2, <1>3, <2>1, <2>2, <4>4, <5>2
        <5> QED BY <1>1, <4>3, <5>3 DEF ShownOK
      <4>5. CASE t # u
        <5>1. tab'[t] = tab[t] BY <1>2, <2>1, <4>5
        <5>2. ~IsFetch(p, t) BY <4>5 DEF IsFetch
        <5>3. tab[t].shown = status \/ \E h \in Flows : IsFetch(flow'[h], t)
          BY <3>3, <4>1, <5>2
        <5> QED BY <1>1, <4>3, <5>1, <5>3 DEF ShownOK
      <4> QED BY <4>4, <4>5
    <3> QED BY <3>5, <3>6
  <2>9. ClerkOK(clerk, owner)' BY <1>1 DEF CInv
  <2> QED BY <2>5, <2>6, <2>7, <2>8, <2>9 DEF CInv
<1> QED BY <1>6, <1>7

\* A decision that was answered: the list is fetched again.
LEMMA DecidedFetch ==
    ASSUME CInv, NEW f \in Flows, NEW g \in Flow, Fetch(f, g),
           flow[f].step = "decide", flow[f].at \in {"ok", "failed"},
           g.kind = flow[f].kind, g.t = flow[f].t, g.v = flow[f].v, g.s = flow[f].s,
           g.newest = flow[f].newest, g.dropped = flow[f].dropped, g.made = flow[f].made,
           g.clean => flow[f].clean /\ flow[f].at = "ok",
           RestType, TabsKept, UNCHANGED <<owner, status, clerk>>
    PROVE  CInv'
<1> DEFINE p == flow[f]
           q == Carrying(g, "list")
<1>1. FlowOK(f, p) /\ CleanOK(f) BY FlowFacts
<1>2. p.kind \in Deciding /\ p.t \in Tabs /\ p.newest /\ ~p.dropped /\ p.at # "idle"
  BY <1>1 DEF FlowOK
<1>3. /\ q \in Flow /\ q.step = "list" /\ q.at = "wire" /\ q.kind = g.kind /\ q.t = g.t
      /\ q.v = g.v /\ q.s = g.s /\ q.newest = g.newest /\ q.dropped = g.dropped
      /\ q.made = g.made /\ q.told = g.told /\ q.clean = g.clean
  BY <1>2, CarryingType DEF CInv, Steps
<1>4. g.kind # "poll" BY <1>2 DEF Deciding
<1> HIDE DEF q
<1>5. FlowOK(f, q) BY <1>1, <1>2, <1>3 DEF FlowOK, Deciding
<1>6. SameDid(p, q) /\ SameDidClean(p, q) BY <1>2, <1>3 DEF SameDid, SameDidClean
<1>7. q.clean => EffectOK(q, owner, status)
  BY <1>1, <1>3 DEF CleanOK, EffectOK, Attached, Landed
<1> QED BY <1>2, <1>3, <1>4, <1>5, <1>6, <1>7, FetchKeeps DEF q

LEMMA AfterDecideKeeps == ASSUME CInv, NEW f \in Flows, AfterDecide(f) PROVE CInv'
<1> DEFINE p == flow[f]
           g == [p EXCEPT !.told = TRUE]
           x == IF p.kind = "undo" THEN Headers(p.t)[p.t].undo
                                   ELSE Headers(p.t)[p.t].undo \cup {p.v}
           y == [Headers(p.t)[p.t] EXCEPT !.undo = x]
<1>1. RestType /\ UNCHANGED <<owner, status, clerk>> /\ p.step = "decide" /\ p.at = "ok"
  BY CameRest DEF AfterDecide
<1>2. p \in Flow /\ FlowOK(f, p) BY FlowFacts
<1>3. p.t \in Tabs /\ p.v \in Vcs BY <1>1, <1>2 DEF FlowOK
<1>4. /\ g \in Flow /\ g.kind = p.kind /\ g.t = p.t /\ g.v = p.v /\ g.s = p.s
      /\ g.newest = p.newest /\ g.dropped = p.dropped /\ g.made = p.made /\ g.clean = p.clean
  BY <1>2 DEF Flow
<1>5. Fetch(f, g) BY DEF AfterDecide
<1>6. TabsKept
  <2>1. /\ Headers(p.t) \in [Tabs -> Tab]
        /\ \A u \in Tabs : /\ Headers(p.t)[u].page = tab[u].page
                           /\ Headers(p.t)[u].shown = tab[u].shown
                           /\ Headers(p.t)[u].sure = tab[u].sure
    BY <1>3, HeadersType DEF CInv
  <2>2. x \in SUBSET Vcs BY <1>3, <2>1 DEF Tab
  <2>3. tab' = [Headers(p.t) EXCEPT ![p.t] = y] BY <1>3, <2>1 DEF AfterDecide
  <2> HIDE DEF x
  <2>4. /\ y \in Tab /\ y.page = Headers(p.t)[p.t].page
        /\ y.shown = Headers(p.t)[p.t].shown /\ y.sure = Headers(p.t)[p.t].sure
    BY <1>3, <2>1, <2>2 DEF Tab
  <2> HIDE DEF y
  <2> QED BY <1>3, <2>1, <2>3, <2>4 DEF TabsKept
<1> HIDE DEF g
<1> QED BY <1>1, <1>4, <1>5, <1>6, DecidedFetch

LEMMA NotDecidedKeeps == ASSUME CInv, NEW f \in Flows, NotDecided(f) PROVE CInv'
<1>1. /\ RestType /\ UNCHANGED <<owner, status, clerk>>
      /\ flow[f].step = "decide" /\ flow[f].at = "failed"
  BY CameRest DEF NotDecided
<1>2. FlowOK(f, flow[f]) BY FlowFacts
<1>3. flow[f].t \in Tabs BY <1>1, <1>2 DEF FlowOK
<1>4. CASE flow[f].kind = "undo"
  <2>1. flow' = [flow EXCEPT ![f] = Idle] /\ tab' = Unsure(f) BY <1>4 DEF NotDecided, End
  <2>2. TabsKept BY <1>3, <2>1, UnsureType DEF TabsKept
  <2>3. \A t \in Tabs : tab'[t].sure => ~IsDecided(flow[f], t) /\ ~IsFetch(flow[f], t)
    BY <1>3, <2>1, UnsureType DEF IsDecided, IsFetch
  <2> QED BY <1>1, <2>1, <2>2, <2>3, EndPlain
<1>5. CASE flow[f].kind # "undo"
  <2>1. Fetch(f, Unclean(f)) /\ tab' = Headers(flow[f].t) BY <1>5 DEF NotDecided
  <2>2. TabsKept BY <1>3, <2>1, TabsHeaders
  <2>3. SameFlow(f, Unclean(f)) /\ ~Unclean(f).clean BY SameUnclean
  <2> QED BY <1>1, <2>1, <2>2, <2>3, DecidedFetch DEF SameFlow
<1> QED BY <1>4, <1>5

LEMMA LookKeeps == ASSUME CInv, NEW f, NEW t \in Tabs, Look(f, t) PROVE CInv'
<1> DEFINE g == [Idle EXCEPT !.kind = "look", !.t = t]
           q == Carrying(g, "list")
<1>1. f \in Flows /\ f \notin Tabs BY NothingIs DEF Look
<1>2. flow[f].at = "idle" BY DEF Look, Free
<1>3. /\ g \in Flow /\ g.kind = "look" /\ g.t = t /\ g.newest /\ ~g.dropped /\ ~g.clean
      /\ ~g.told /\ g.made = 0
  BY IdleType, IdleFields DEF Flow, Kinds
<1>4. Fetch(f, g) /\ tab' = Headers(t) BY DEF Look
<1> HIDE DEF g
<1>5. /\ q.step = "list" /\ q.at = "wire" /\ q.kind = g.kind /\ q.t = g.t
      /\ q.newest = g.newest /\ q.dropped = g.dropped
      /\ q.made = g.made /\ q.told = g.told /\ q.clean = g.clean
  BY <1>3, CarryingType DEF CInv, Steps
<1> HIDE DEF q
<1>6. FlowOK(f, q) BY <1>1, <1>3, <1>5 DEF FlowOK, Deciding
<1>7. SameDid(flow[f], q) /\ SameDidClean(flow[f], q)
  BY <1>3, <1>5 DEF SameDid, SameDidClean, Deciding
<1>8. RestType /\ TabsKept /\ UNCHANGED <<owner, status, clerk>>
  BY <1>4, RestSame, TabsHeaders DEF Look, server
<1> QED BY <1>1, <1>2, <1>3, <1>4, <1>6, <1>7, <1>8, FetchKeeps DEF q

LEMMA PollKeeps == ASSUME CInv, NEW t \in Tabs, Poll(t) PROVE CInv'
<1> DEFINE g == [Idle EXCEPT !.kind = "poll", !.t = t]
           q == Carrying(g, "list")
<1>1. t \in Flows BY NothingIs
<1>2. flow[t].at = "idle" /\ FlowOK(t, flow[t]) BY <1>1, FlowFacts DEF Poll, Free
<1>3. /\ g \in Flow /\ g.kind = "poll" /\ g.t = t /\ g.newest /\ ~g.dropped /\ ~g.clean
      /\ ~g.told /\ g.made = 0
  BY IdleType, IdleFields DEF Flow, Kinds
<1>4. Call(t, g, "list") /\ tab' = Headers(t) BY DEF Poll
<1>5. flow' = [flow EXCEPT ![t] = q] BY <1>4 DEF Call
<1> HIDE DEF g
<1>6. /\ q \in Flow /\ q.step = "list" /\ q.at = "wire" /\ q.kind = g.kind /\ q.t = g.t
      /\ q.newest = g.newest /\ q.dropped = g.dropped
      /\ q.made = g.made /\ q.told = g.told /\ q.clean = g.clean
  BY <1>3, CarryingType DEF CInv, Steps
<1> HIDE DEF q
<1>7. Moved(t, q) BY <1>3, <1>5, <1>6 DEF Moved, FlowOK, Deciding
<1>8. SameDid(flow[t], q) /\ SameDidClean(flow[t], q) /\ ~q.clean
  BY <1>3, <1>6 DEF SameDid, SameDidClean, Deciding
<1>9. \A u \in Tabs : ListKept(flow[t], q, u)
  BY <1>2, <1>3, <1>6 DEF ListKept, IsDecided, IsFetch, FlowOK
<1>10. RestType /\ TabsKept /\ UNCHANGED <<owner, status, clerk>>
  BY <1>4, RestSame, TabsHeaders DEF Poll, server
<1>11. Plain(t, q) BY <1>7, <1>8, <1>9, <1>10 DEF Plain
<1> QED BY <1>1, <1>11, PlainKeeps

-----------------------------------------------------------------------------
(***************************************************************************)
(* The two writes: the owner of a did, and the decision.                   *)
(***************************************************************************)
\* What is known of a flow that is answered with success.
LEMMA AnsweredOK ==
    ASSUME CInv, NEW f \in Flows, Answer(f, "ok"),
           flow[f].step \in {"attach", "decide"}, flow[f].at \in {"work", "save"}
    PROVE  LET q == Answered(flow[f], "ok")
           IN  /\ Moved(f, q) /\ SameDid(flow[f], q) /\ SameDidClean(flow[f], q)
               /\ flow[f].dropped => q = Idle
               /\ ~flow[f].dropped =>
                    /\ q.step = flow[f].step /\ q.at = "ok" /\ q.kind = flow[f].kind
                    /\ q.t = flow[f].t /\ q.v = flow[f].v /\ q.s = flow[f].s
                    /\ q.clean = flow[f].clean
<1> DEFINE p == flow[f]
           q == Answered(p, "ok")
<1>1. p \in Flow /\ FlowOK(f, p) BY FlowFacts
<1>2. "ok" \in At BY DEF At
<1>3. flow' = [flow EXCEPT ![f] = q] BY <1>2, AnswerIs DEF CInv
<1>4. /\ q \in Flow
      /\ p.dropped => q = Idle
      /\ ~p.dropped =>
           /\ q.step = p.step /\ q.at = "ok" /\ q.kind = p.kind /\ q.t = p.t
           /\ q.v = p.v /\ q.s = p.s /\ q.tries = p.tries /\ q.newest = p.newest
           /\ q.seen = p.seen /\ ~q.dropped /\ q.made = p.made
           /\ q.told = p.told /\ q.clean = p.clean
  BY <1>1, <1>2, AnsweredType
<1> HIDE DEF q
<1>5. FlowOK(f, q)
  <2>1. CASE p.dropped BY <1>4, <2>1, IdleOK
  <2>2. CASE ~p.dropped BY <1>1, <1>4, <2>2 DEF FlowOK
  <2> QED BY <2>1, <2>2
<1>6. SameDid(p, q) /\ SameDidClean(p, q)
  BY <1>4, IdleFields DEF SameDid, SameDidClean
<1> QED BY <1>3, <1>4, <1>5, <1>6 DEF Moved, q

LEMMA SaveAttachKeeps == ASSUME CInv, NEW f \in Flows, SaveAttach(f) PROVE CInv'
<1> DEFINE p == flow[f]
           q == Answered(p, "ok")
<1>1. /\ p.step = "attach" /\ p.at = "save"
      /\ UNCHANGED <<students, status, tab, refresh, trusted, count>>
  BY DEF SaveAttach, Here
<1>2. FlowOK(f, p) /\ CleanOK(f) BY FlowFacts
<1>3. RestType /\ TabsKept BY <1>1, RestSame, TabsSame
<1>4. CASE p.s \notin Live
  <2>1. Answer(f, "failed") /\ UNCHANGED <<owner, clerk>> BY <1>4 DEF SaveAttach
  <2> QED BY <1>1, <1>3, <2>1, AnswerPlain
<1>5. CASE p.s \in Live
  <2>1. /\ owner' = [owner EXCEPT ![DidOf[p.v]] = p.s]
        /\ clerk' = [clerk EXCEPT !.clean = FALSE]
        /\ Answer(f, "ok")
    BY <1>5 DEF SaveAttach
  <2>2. p.kind \in Deciding /\ p.v \in Vcs /\ DidOf[p.v] \in Dids /\ p.s \in Students
    BY <1>1, <1>2, <1>5, NothingIs DEF FlowOK, Live
  <2>3. /\ Moved(f, q) /\ SameDid(p, q) /\ SameDidClean(p, q)
        /\ p.dropped => q = Idle
        /\ ~p.dropped => /\ q.step = p.step /\ q.at = "ok" /\ q.kind = p.kind
                         /\ q.t = p.t /\ q.v = p.v /\ q.s = p.s /\ q.clean = p.clean
    BY <1>1, <2>1, AnsweredOK
  <2> HIDE DEF q
  <2>4. clerk \in Clerk /\ owner \in [Dids -> Students \cup {None}] BY DEF CInv, TypeOK
  <2>5. /\ clerk' \in Clerk /\ ~clerk'.clean /\ clerk'.at = clerk.at
        /\ clerk'.s = clerk.s /\ clerk'.op = clerk.op
    BY <2>1, <2>4 DEF Clerk
  <2>6. owner' \in [Dids -> Students \cup {None}] BY <2>1, <2>2, <2>4
  <2>7. TypeOK' BY <1>1, <1>3, <2>3, <2>5, <2>6, MovedFlows DEF CInv, TypeOK, RestType, TabsKept
  <2>8. FlowsOK' BY <2>3, MovedFlows
  <2>9. CleansOK'
    <3>1. OwnDidOnly(f) BY <1>1, <2>1, <2>2, <2>4 DEF OwnDidOnly
    <3>2. q.clean => EffectOK(q, owner', status')
      BY <1>1, <2>1, <2>2, <2>3, <2>4, IdleFields DEF EffectOK, Attached, Landed
    <3> QED BY <2>3, <2>5, <3>1, <3>2, CleanMoved
  <2>10. ShownsOK'
    <3>1. \A t \in Tabs : ListKept(p, q, t)
      BY <1>1, <2>3, IdleFields DEF ListKept, IsDecided, IsFetch
    <3> QED BY <1>1, <1>3, <2>3, <3>1, ShownMoved
  <2>11. ClerkOK(clerk, owner)' BY <2>5 DEF CInv, ClerkOK
  <2> QED BY <2>7, <2>8, <2>9, <2>10, <2>11 DEF CInv
<1> QED BY <1>4, <1>5

LEMMA DecideKeeps ==
    ASSUME CInv, NEW f \in Flows, NEW s \in Statuses, Decide(f, s),
           flow[f].step = "decide", flow[f].at \in {"work", "save"},
           Issuing(f) => s = "issued"
    PROVE  CInv'
<1> DEFINE p == flow[f]
           q == Answered(p, "ok")
<1>1. /\ status' = [status EXCEPT ![p.v] = s]
      /\ tab' = [t \in Tabs |-> IF t = p.t /\ ~p.dropped THEN tab[t]
                                ELSE [tab[t] EXCEPT !.sure = FALSE]]
      /\ Answer(f, "ok")
      /\ UNCHANGED <<students, owner, refresh, trusted, clerk, count>>
  BY DEF Decide
<1>2. FlowOK(f, p) /\ CleanOK(f) BY FlowFacts
<1>3. p.kind \in Deciding /\ p.v \in Vcs BY <1>2 DEF FlowOK
<1>4. /\ Moved(f, q) /\ SameDid(p, q) /\ SameDidClean(p, q)
      /\ p.dropped => q = Idle
      /\ ~p.dropped => /\ q.step = p.step /\ q.at = "ok" /\ q.kind = p.kind
                       /\ q.t = p.t /\ q.v = p.v /\ q.s = p.s /\ q.clean = p.clean
  BY <1>1, AnsweredOK
<1> HIDE DEF q
<1>5. /\ status \in [Vcs -> Statuses] /\ tab \in [Tabs -> Tab] /\ flow \in [Flows -> Flow]
  BY FlowFacts
<1>6. tab' \in [Tabs -> Tab] /\ \A t \in Tabs : tab'[t].sure => t = p.t /\ ~p.dropped
  BY <1>1, <1>5 DEF Tab
<1>7. status' \in [Vcs -> Statuses] BY <1>1, <1>5
<1>8. RestType BY <1>1, RestSame
<1>9. TypeOK' BY <1>1, <1>4, <1>6, <1>7, <1>8, MovedFlows DEF CInv, TypeOK, RestType
<1>10. FlowsOK' BY <1>4, MovedFlows
<1>11. CleansOK'
  <2>1. OwnDidOnly(f) BY <1>1, <1>3, <1>5 DEF OwnDidOnly
  <2>2. q.clean => EffectOK(q, owner', status')
    BY <1>1, <1>2, <1>3, <1>4, <1>5, IdleFields
    DEF CleanOK, EffectOK, Attached, Landed, Issuing
  <2> QED BY <1>1, <1>4, <2>1, <2>2, CleanMoved
<1>12. ShownsOK'
  <2> SUFFICES ASSUME NEW t \in Tabs, tab'[t].page = "app", tab'[t].sure PROVE ShownOK(t)'
    BY DEF ShownsOK, ShownOK
  <2>1. t = p.t /\ ~p.dropped BY <1>6
  <2>2. flow'[f] = q BY <1>4, <1>5 DEF Moved
  <2>3. IsDecided(flow'[f], t) BY <1>4, <2>1, <2>2 DEF IsDecided
  <2> QED BY <2>3 DEF ShownOK
<1>13. ClerkOK(clerk, owner)' BY <1>1 DEF CInv
<1> QED BY <1>9, <1>10, <1>11, <1>12, <1>13 DEF CInv

LEMMA MarkIssuedKeeps == ASSUME CInv, NEW f \in Flows, MarkIssued(f) PROVE CInv'
    BY DecideKeeps DEF MarkIssued, Here, Statuses

LEMMA SetStatusKeeps == ASSUME CInv, NEW f \in Flows, SetStatus(f) PROVE CInv'
    BY DecideKeeps DEF SetStatus, Here, Statuses

-----------------------------------------------------------------------------
(***************************************************************************)
(* Submitting a dialog.                                                    *)
(***************************************************************************)
LEMMA SubmitKeeps ==
    ASSUME CInv, NEW f, NEW g \in Flow, Submit(f, g), TabsKept,
           g.kind \in Deciding, g.t \in Tabs, g.v \in Vcs, g.made = 0,
           ~g.dropped, g.newest, ~g.told
    PROVE  CInv'
<1> DEFINE step == CASE g.kind = "new" -> "create" [] g.kind = "existing" -> "attach"
                     [] g.kind \in {"reject", "undo"} -> "decide"
           alone == clerk.at = "idle" /\ \A h \in Flows : ~Rivals(h, g.v)
           c == Carrying(g, step)
           q == [c EXCEPT !.clean = alone]
<1>1. f \in Flows /\ f \notin Tabs /\ f \in Slots /\ flow[f].at = "idle"
  BY NothingIs DEF Submit, Free
<1>2. /\ flow' = [h \in Flows |-> IF h = f THEN q
                                  ELSE IF Rivals(h, g.v) THEN [flow[h] EXCEPT !.clean = FALSE]
                                  ELSE flow[h]]
      /\ UNCHANGED <<owner, status, clerk>>
  BY DEF Submit, server
<1>3. step \in {"create", "attach", "decide"} /\ (step = "decide" <=> g.kind \in {"reject", "undo"})
  BY DEF Deciding
<1> HIDE DEF step
<1>4. /\ c \in Flow /\ c.step = step /\ c.at = "wire" /\ c.kind = g.kind /\ c.t = g.t
      /\ c.v = g.v /\ c.s = g.s /\ c.newest = g.newest /\ c.dropped = g.dropped
      /\ c.made = g.made /\ c.told = g.told
  <2>1. step \in Steps BY <1>3 DEF Steps
  <2> QED BY <2>1, CarryingType DEF CInv
<1>5. alone \in BOOLEAN OBVIOUS
<1> HIDE DEF c, alone
<1>6. /\ q \in Flow /\ q.step = step /\ q.at = "wire" /\ q.kind = g.kind /\ q.t = g.t
      /\ q.v = g.v /\ q.s = g.s /\ q.newest = g.newest /\ q.dropped = g.dropped
      /\ q.made = g.made /\ q.told = g.told /\ q.clean = alone
  BY <1>4, <1>5 DEF Flow
<1> HIDE DEF q
<1>7. flow \in [Flows -> Flow] /\ FlowOK(f, flow[f]) BY <1>1, FlowFacts
<1>8. flow'[f] = q BY <1>1, <1>2
<1>9. \A h \in Flows \ {f} : /\ Bystander(flow[h], flow'[h])
                             /\ flow'[h].newest = flow[h].newest
                             /\ flow'[h].clean => ~Rivals(h, g.v)
  <2> SUFFICES ASSUME NEW h \in Flows \ {f}
               PROVE  /\ Bystander(flow[h], flow'[h])
                      /\ flow'[h].newest = flow[h].newest
                      /\ flow'[h].clean => ~Rivals(h, g.v)
    OBVIOUS
  <2>1. flow[h] \in Flow BY <1>7
  <2>2. CASE Rivals(h, g.v) BY <1>2, <2>1, <2>2, BystanderUnclean
  <2>3. CASE ~Rivals(h, g.v) BY <1>2, <2>1, <2>3, BystanderSelf
  <2> QED BY <2>2, <2>3
<1>10. flow' \in [Flows -> Flow]
  <2>1. \A h \in Flows : flow'[h] \in Flow BY <1>6, <1>8, <1>9 DEF Bystander
  <2>2. flow' = [h \in Flows |-> flow'[h]] BY <1>2
  <2> QED BY <2>1, <2>2
<1>11. RestType BY RestSame DEF Submit, server
<1>12. TypeOK' BY <1>2, <1>10, <1>11 DEF CInv, TypeOK, RestType, TabsKept
<1>13. FlowsOK'
  <2> SUFFICES ASSUME NEW h \in Flows PROVE FlowOK(h, flow'[h]) BY DEF FlowsOK
  <2>1. CASE h = f
    <3>1. q.kind \in Deciding /\ q.made = 0 /\ ~q.dropped /\ q.newest /\ ~q.told
      BY <1>6
    <3>2. q.kind # "none" BY <3>1 DEF Deciding
    <3>3. FlowOK(f, q) BY <1>1, <1>3, <1>6, <3>1, <3>2 DEF FlowOK
    <3> QED BY <1>8, <2>1, <3>3
  <2>2. CASE h # f
    <3>1. FlowOK(h, flow[h]) BY DEF CInv, FlowsOK
    <3> QED BY <1>9, <2>2, <3>1, BystanderOK
  <2> QED BY <2>1, <2>2
<1>14. CleansOK'
  <2> SUFFICES ASSUME NEW h \in Flows, flow'[h].clean PROVE CleanOK(h)'
    BY DEF CleansOK, CleanOK
  <2>1. CASE h = f
    <3>1. clerk.at = "idle" /\ \A k \in Flows : ~Rivals(k, g.v) BY <1>6, <1>8, <2>1 DEF alone
    <3>2. \A k \in Flows \ {f} : ~Rivalling(flow'[k], q.v)
      BY <1>6, <1>9, <3>1 DEF Rivals, Rivalling, Bystander
    <3>3. EffectOK(q, owner, status)
      BY <1>3, <1>6 DEF EffectOK, Attached, Landed
    <3> QED BY <1>2, <1>8, <2>1, <3>1, <3>2, <3>3 DEF CleanOK
  <2>2. CASE h # f
    <3>1. Bystander(flow[h], flow'[h]) /\ ~Rivals(h, g.v) BY <1>9, <2>2
    <3>2. flow[h].clean /\ flow'[h].v = flow[h].v BY <3>1 DEF Bystander
    <3>3. CleanOK(h) /\ FlowOK(h, flow[h]) BY DEF CInv, CleansOK, FlowsOK
    <3>4. flow[h].kind \in Deciding /\ flow[h].at # "idle" BY <3>2, <3>3 DEF FlowOK, Deciding
    <3>5. DidOf[flow[h].v] # DidOf[g.v] BY <3>1, <3>4 DEF Rivals
    <3>6. ~Rivalling(flow'[f], flow'[h].v) BY <1>6, <1>8, <3>2, <3>5 DEF Rivalling
    <3>7. \A k \in Flows \ {h} : ~Rivalling(flow[k], flow[h].v) BY <3>2, <3>3 DEF CleanOK
    <3>8. \A k \in Flows \ {f, h} : ~Rivalling(flow'[k], flow'[h].v)
      BY <1>9, <3>2, <3>7 DEF Rivalling, Bystander
    <3>9. EffectOK(flow'[h], owner, status)
      BY <3>1, <3>2, <3>3, BystanderDid DEF CleanOK
    <3>10. clerk.at = "idle" BY <3>2, <3>3 DEF CleanOK
    <3>11. \A k \in Flows \ {h} : ~Rivalling(flow'[k], flow'[h].v) BY <3>6, <3>8
    <3> QED BY <1>2, <3>9, <3>10, <3>11 DEF CleanOK
  <2> QED BY <2>1, <2>2
<1>15. ShownsOK'
  <2> SUFFICES ASSUME NEW t \in Tabs, NEW h \in Flows PROVE ListKept(flow[h], flow'[h], t)
    BY <1>2, ShownAll
  <2>1. CASE h = f
    BY <1>1, <1>3, <1>6, <1>7, <1>8, <2>1 DEF ListKept, IsDecided, IsFetch, FlowOK
  <2>2. CASE h # f BY <1>9, <2>2, BystanderList
  <2> QED BY <2>1, <2>2
<1>16. ClerkOK(clerk, owner)' BY <1>2 DEF CInv
<1> QED BY <1>12, <1>13, <1>14, <1>15, <1>16 DEF CInv

LEMMA ApproveKeeps ==
    ASSUME CInv, NEW f, NEW t \in Tabs, NEW v \in Vcs, NEW s \in Students \cup {None},
           Approve(f, t, v, s)
    PROVE  CInv'
<1> DEFINE k == IF s = None THEN "new" ELSE "existing"
           g == [Idle EXCEPT !.kind = k, !.t = t, !.v = v, !.s = s]
<1>1. Submit(f, g) /\ tab' = Headers(t) BY DEF Approve
<1>2. k \in {"new", "existing"} OBVIOUS
<1> HIDE DEF k
<1>3. /\ g \in Flow /\ g.kind = k /\ g.t = t /\ g.v = v /\ g.made = 0 /\ ~g.dropped
      /\ g.newest /\ ~g.told
  BY <1>2, IdleType, IdleFields DEF Flow, Kinds
<1> HIDE DEF g
<1> QED BY <1>1, <1>2, <1>3, TabsHeaders, SubmitKeeps DEF Deciding

LEMMA RejectKeeps ==
    ASSUME CInv, NEW f, NEW t \in Tabs, NEW v \in Vcs, Reject(f, t, v) PROVE CInv'
<1> DEFINE g == [Idle EXCEPT !.kind = "reject", !.t = t, !.v = v]
<1>1. Submit(f, g) /\ tab' = Headers(t) BY DEF Reject
<1>2. /\ g \in Flow /\ g.kind = "reject" /\ g.t = t /\ g.v = v /\ g.made = 0 /\ ~g.dropped
      /\ g.newest /\ ~g.told
  BY IdleType, IdleFields DEF Flow, Kinds
<1> HIDE DEF g
<1> QED BY <1>1, <1>2, TabsHeaders, SubmitKeeps DEF Deciding

LEMMA UndoKeeps ==
    ASSUME CInv, NEW f, NEW t \in Tabs, NEW v \in Vcs, Undo(f, t, v) PROVE CInv'
<1> DEFINE g == [Idle EXCEPT !.kind = "undo", !.t = t, !.v = v]
           y == [Headers(t)[t] EXCEPT !.undo = @ \ {v}]
<1>1. Submit(f, g) /\ tab' = [Headers(t) EXCEPT ![t].undo = @ \ {v}] BY DEF Undo
<1>2. /\ g \in Flow /\ g.kind = "undo" /\ g.t = t /\ g.v = v /\ g.made = 0 /\ ~g.dropped
      /\ g.newest /\ ~g.told
  BY IdleType, IdleFields DEF Flow, Kinds
<1> HIDE DEF g
<1>3. TabsKept
  <2>1. /\ Headers(t) \in [Tabs -> Tab]
        /\ \A u \in Tabs : /\ Headers(t)[u].page = tab[u].page
                           /\ Headers(t)[u].shown = tab[u].shown
                           /\ Headers(t)[u].sure = tab[u].sure
    BY HeadersType DEF CInv
  <2>2. tab' = [Headers(t) EXCEPT ![t] = y] BY <1>1, <2>1
  <2>3. /\ y \in Tab /\ y.page = Headers(t)[t].page
        /\ y.shown = Headers(t)[t].shown /\ y.sure = Headers(t)[t].sure
    BY <2>1 DEF Tab
  <2> HIDE DEF y
  <2> QED BY <2>1, <2>2, <2>3 DEF TabsKept
<1> QED BY <1>1, <1>2, <1>3, SubmitKeeps DEF Deciding

-----------------------------------------------------------------------------
(***************************************************************************)
(* Pages, tokens and the session.                                          *)
(***************************************************************************)
LEMMA QuietKeeps ==
    ASSUME CInv, flow' = flow, RestType, TabsKept, UNCHANGED <<owner, status, clerk>>
    PROVE  CInv'
<1>1. flow \in [Flows -> Flow] BY DEF CInv, TypeOK
<1> QED BY <1>1, BystanderSelf, BystandersKeep

\* Only a tab's page and tokens change.
LEMMA PageKept ==
    ASSUME CInv, NEW t \in Tabs, NEW x \in Tab, tab' = [tab EXCEPT ![t] = x],
           x.page = "app" => tab[t].page = "app",
           x.sure => tab[t].sure, x.shown = tab[t].shown
    PROVE  TabsKept
<1>1. tab \in [Tabs -> Tab] BY FlowFacts DEF CInv, TypeOK
<1> QED BY <1>1 DEF TabsKept

LEMMA AgedType == ASSUME NEW x \in Tokens PROVE Aged(x) \in Tokens
    BY DEF Aged, Tokens

LEMMA OpenTabKeeps == ASSUME CInv, NEW t \in Tabs, OpenTab(t) PROVE CInv'
<1> DEFINE pg == IF refresh = "none" THEN "signIn" ELSE "checking"
           x == [tab[t] EXCEPT !.page = pg, !.held = refresh]
<1>1. tab \in [Tabs -> Tab] /\ refresh \in Tokens BY DEF CInv, TypeOK
<1>2. pg \in {"signIn", "checking"} OBVIOUS
<1>3. tab' = [tab EXCEPT ![t] = x] BY <1>1 DEF OpenTab, Tab
<1> HIDE DEF pg
<1>4. x \in Tab /\ x.page = pg /\ x.sure = tab[t].sure /\ x.shown = tab[t].shown
  BY <1>1, <1>2 DEF Tab
<1> HIDE DEF x
<1>5. TabsKept BY <1>2, <1>3, <1>4, PageKept
<1>6. RestType BY RestSame DEF OpenTab, Page, server
<1> QED BY <1>5, <1>6, QuietKeeps DEF OpenTab, Page, server

LEMMA SignInKeeps == ASSUME CInv, NEW t \in Tabs, SignIn(t) PROVE CInv'
<1> DEFINE x == [tab[t] EXCEPT !.page = "granted", !.header = "live"]
<1>1. tab \in [Tabs -> Tab] BY DEF CInv, TypeOK
<1>3. tab' = [tab EXCEPT ![t] = x] BY <1>1 DEF SignIn, Tab
<1>4. x \in Tab /\ x.page = "granted" /\ x.sure = tab[t].sure /\ x.shown = tab[t].shown
  BY <1>1 DEF Tab, Tokens
<1> HIDE DEF x
<1>5. TabsKept BY <1>3, <1>4, PageKept
<1>6. RestType BY RestSame DEF SignIn, Page, server
<1> QED BY <1>5, <1>6, QuietKeeps DEF SignIn, Page, server

LEMMA SignOutKeeps == ASSUME CInv, NEW t \in Tabs, SignOut(t) PROVE CInv'
<1> DEFINE x == [tab[t] EXCEPT !.page = "signIn", !.access = "none"]
<1>1. tab \in [Tabs -> Tab] BY DEF CInv, TypeOK
<1>3. tab' = [tab EXCEPT ![t] = x] BY <1>1 DEF SignOut, Tab
<1>4. x \in Tab /\ x.page = "signIn" /\ x.sure = tab[t].sure /\ x.shown = tab[t].shown
  BY <1>1 DEF Tab, Tokens
<1> HIDE DEF x
<1>5. TabsKept BY <1>3, <1>4, PageKept
<1>6. RestType BY DEF SignOut, Page, server, RestType, CInv, TypeOK, Tokens, Fault
<1> QED BY <1>5, <1>6, QuietKeeps DEF SignOut, Page, server

LEMMA NavigateKeeps == ASSUME CInv, NEW t \in Tabs, Navigate(t) PROVE CInv'
<1> DEFINE x == [tab[t] EXCEPT !.page = "signIn"]
<1>1. tab \in [Tabs -> Tab] BY DEF CInv, TypeOK
<1>3. tab' = [tab EXCEPT ![t] = x] BY <1>1 DEF Navigate, Tab
<1>4. x \in Tab /\ x.page = "signIn" /\ x.sure = tab[t].sure /\ x.shown = tab[t].shown
  BY <1>1 DEF Tab
<1> HIDE DEF x
<1>5. TabsKept BY <1>3, <1>4, PageKept
<1>6. RestType BY RestSame DEF Navigate, Page, server
<1> QED BY <1>5, <1>6, QuietKeeps DEF Navigate, Page, server

LEMMA NotCheckedKeeps == ASSUME CInv, NEW t \in Tabs, NotChecked(t) PROVE CInv'
<1>1. TabsKept BY TabsLeft DEF NotChecked
<1>2. RestType
  BY DEF NotChecked, Page, server, RestType, CInv, TypeOK, Tokens, Fault
<1> QED BY <1>1, <1>2, QuietKeeps DEF NotChecked, Page, server

\* A tab that enters the application has the list as it is stored.
LEMMA EnterKeeps ==
    ASSUME CInv, NEW t \in Tabs, NEW header \in Tokens, Enter(t, header),
           flow' = flow, RestType, UNCHANGED <<owner, status, clerk>>
    PROVE  CInv'
<1> DEFINE none == \A f \in Flows : flow[f].t # t
           x == [tab[t] EXCEPT !.page = "app", !.access = "live", !.header = header,
                               !.held = "none", !.shown = status, !.undo = {}, !.sure = none]
<1>1. tab \in [Tabs -> Tab] /\ status \in [Vcs -> Statuses] BY DEF CInv, TypeOK
<1>2. tab' = [tab EXCEPT ![t] = x] BY DEF Enter
<1>3. none \in BOOLEAN OBVIOUS
<1> HIDE DEF none
<1>4. x \in Tab /\ x.shown = status /\ x.sure = none BY <1>1, <1>3 DEF Tab, Tokens
<1> HIDE DEF x
<1>5. TypeOK' BY <1>1, <1>2, <1>4 DEF CInv, TypeOK, RestType
<1>6. FlowsOK' /\ CleansOK' /\ ClerkOK(clerk, owner)'
  BY DEF CInv, FlowsOK, CleansOK, CleanOK
<1>7. ShownsOK'
  <2> SUFFICES ASSUME NEW u \in Tabs PROVE ShownOK(u)' BY DEF ShownsOK
  <2>1. CASE u = t
    <3>1. tab'[u].shown = status /\ tab'[u].sure = none BY <1>1, <1>2, <1>4, <2>1
    <3>2. none => \A f \in Flows : ~IsFetch(flow[f], u) BY <2>1 DEF none, IsFetch
    <3> QED BY <3>1, <3>2 DEF ShownOK
  <2>2. CASE u # t
    <3>1. tab'[u] = tab[u] BY <1>1, <1>2, <2>2
    <3>2. ShownOK(u) BY DEF CInv, ShownsOK
    <3> QED BY <3>1, <3>2 DEF ShownOK
  <2> QED BY <2>1, <2>2
<1> QED BY <1>5, <1>6, <1>7 DEF CInv

LEMMA CheckedKeeps == ASSUME CInv, NEW t \in Tabs, Checked(t) PROVE CInv'
<1>1. "live" \in Tokens BY DEF Tokens
<1>2. RestType BY RestSame DEF Checked, Page, server
<1> QED BY <1>1, <1>2, EnterKeeps DEF Checked, Page, server

LEMMA LoginKeeps == ASSUME CInv, NEW t \in Tabs, Login(t) PROVE CInv'
<1>1. tab[t].header \in Tokens BY DEF CInv, TypeOK, Tab
<1>2. RestType BY DEF Login, Page, server, RestType, CInv, TypeOK, Tokens
<1> QED BY <1>1, <1>2, EnterKeeps DEF Login, Page, server

LEMMA RekeyKeeps == ASSUME CInv, Rekey PROVE CInv'
<1>1. TabsKept BY TabsSame DEF Rekey
<1>2. RestType
  <2>1. trusted' \in BOOLEAN BY Zenon DEF Rekey
  <2>2. UNCHANGED <<students, refresh>> /\ Fault BY DEF Rekey, server
  <2>3. students' \in [Students -> Lives] /\ refresh' \in Tokens BY <2>2 DEF CInv, TypeOK
  <2>4. count' \in [asked : Nat, faults : Nat] BY <2>2 DEF CInv, TypeOK, Fault
  <2> QED BY <2>1, <2>3, <2>4 DEF RestType
<1> QED BY <1>1, <1>2, QuietKeeps DEF Rekey, server

LEMMA UnloadKeeps == ASSUME CInv, NEW t \in Tabs, Unload(t) PROVE CInv'
<1> DEFINE x == [tab[t] EXCEPT !.page = "signIn", !.header = tab[t].access, !.undo = {}]
           Gone(p) == IF p.at \in {"wire", "work", "save"} THEN [p EXCEPT !.dropped = TRUE] ELSE Idle
<1>1. tab \in [Tabs -> Tab] /\ flow \in [Flows -> Flow] BY DEF CInv, TypeOK
<1>2. tab' = [tab EXCEPT ![t] = x] BY <1>1 DEF Unload, Tab
<1>3. x \in Tab /\ x.page = "signIn" /\ x.sure = tab[t].sure /\ x.shown = tab[t].shown
  BY <1>1 DEF Tab
<1> HIDE DEF x
<1>4. TabsKept /\ tab'[t].page # "app" BY <1>1, <1>2, <1>3, PageKept
<1>5. RestType /\ UNCHANGED <<owner, status, clerk>> BY RestSame DEF Unload, Page, server
<1>6. \A h \in Flows : flow'[h] = IF flow[h].t # t THEN flow[h] ELSE Gone(flow[h])
  BY DEF Unload
<1>7. \A h \in Flows : /\ flow'[h] \in Flow /\ FlowOK(h, flow'[h])
                       /\ SameDid(flow[h], flow'[h]) /\ SameDidClean(flow[h], flow'[h])
                       /\ flow'[h].clean => EffectOK(flow'[h], owner, status)
  <2> SUFFICES ASSUME NEW h \in Flows
               PROVE  /\ flow'[h] \in Flow /\ FlowOK(h, flow'[h])
                      /\ SameDid(flow[h], flow'[h]) /\ SameDidClean(flow[h], flow'[h])
                      /\ flow'[h].clean => EffectOK(flow'[h], owner, status)
    OBVIOUS
  <2> DEFINE p == flow[h]
             q == [p EXCEPT !.dropped = TRUE]
  <2>1. p \in Flow /\ FlowOK(h, p) /\ CleanOK(h) BY FlowFacts
  <2>2. CASE flow'[h] = p
    BY <2>1, <2>2 DEF SameDid, SameDidClean, CleanOK
  <2>3. CASE flow'[h] = Idle
    BY <2>3, IdleType, IdleOK, IdleFields DEF SameDid, SameDidClean
  <2>4. CASE flow'[h] = q /\ p.at \in {"wire", "work", "save"}
    <3>1. /\ q \in Flow /\ q.dropped /\ q.kind = p.kind /\ q.step = p.step /\ q.at = p.at
          /\ q.t = p.t /\ q.v = p.v /\ q.s = p.s /\ q.newest = p.newest
          /\ q.made = p.made /\ q.told = p.told /\ q.clean = p.clean
      BY <2>1 DEF Flow
    <3> HIDE DEF q
    <3>2. FlowOK(h, q) BY <2>1, <2>4, <3>1 DEF FlowOK
    <3>3. q.clean => EffectOK(q, owner, status)
      BY <2>1, <3>1 DEF CleanOK, EffectOK, Attached, Landed
    <3> QED BY <2>4, <3>1, <3>2, <3>3 DEF SameDid, SameDidClean
  <2> QED BY <1>6, <2>2, <2>3, <2>4
<1>8. flow' \in [Flows -> Flow]
  <2>1. flow' = [h \in Flows |-> flow'[h]] BY DEF Unload
  <2> QED BY <1>7, <2>1
<1>9. TypeOK' BY <1>4, <1>5, <1>8 DEF CInv, TypeOK, RestType, TabsKept
<1>10. FlowsOK' BY <1>7 DEF FlowsOK
<1>11. CleansOK' BY <1>5, <1>7, CleanAll
<1>12. ShownsOK'
  <2>1. \A u \in Tabs : u # t => \A h \in Flows : ListKept(flow[h], flow'[h], u)
    <3> SUFFICES ASSUME NEW u \in Tabs, u # t, NEW h \in Flows
                 PROVE  ListKept(flow[h], flow'[h], u)
      OBVIOUS
    <3>1. CASE flow[h].t # t BY <1>6, <3>1, ListSame
    <3>2. CASE flow[h].t = t
      <4>1. flow'[h].t # u
        <5>1. flow[h] \in Flow BY <1>1
        <5>2. flow'[h] = Idle \/ flow'[h] = [flow[h] EXCEPT !.dropped = TRUE] BY <1>6, <3>2
        <5>3. [flow[h] EXCEPT !.dropped = TRUE].t = flow[h].t BY <5>1 DEF Flow
        <5> QED BY <3>2, <5>2, <5>3, IdleFields, NothingIs
      <4> QED BY <3>2, <4>1 DEF ListKept, IsDecided, IsFetch
    <3> QED BY <3>1, <3>2
  <2> QED BY <1>4, <1>5, <2>1, ShownAll
<1>13. ClerkOK(clerk, owner)' BY <1>5 DEF CInv
<1> QED BY <1>9, <1>10, <1>11, <1>12, <1>13 DEF CInv

LEMMA ExpireKeeps == ASSUME CInv, NEW t \in Tabs, Expire(t) PROVE CInv'
<1> DEFINE a == Aged(tab[t].access)
           b == Aged(tab[t].header)
           x == [tab[t] EXCEPT !.access = a, !.header = b]
<1>1. tab \in [Tabs -> Tab] /\ flow \in [Flows -> Flow] BY DEF CInv, TypeOK
<1>2. a \in Tokens /\ b \in Tokens BY <1>1, AgedType DEF Tab
<1>3. tab' = [tab EXCEPT ![t] = x] BY <1>1 DEF Expire, Tab
<1> HIDE DEF a, b
<1>4. x \in Tab /\ x.page = tab[t].page /\ x.sure = tab[t].sure /\ x.shown = tab[t].shown
  BY <1>1, <1>2 DEF Tab
<1> HIDE DEF x
<1>5. TabsKept BY <1>3, <1>4, PageKept
<1>6. RestType /\ UNCHANGED <<owner, status, clerk>> BY RestSame DEF Expire, server
<1>7. \A h \in Flows : Bystander(flow[h], flow'[h]) /\ flow'[h].newest = flow[h].newest
  <2> SUFFICES ASSUME NEW h \in Flows
               PROVE  Bystander(flow[h], flow'[h]) /\ flow'[h].newest = flow[h].newest
    OBVIOUS
  <2>1. flow[h] \in Flow /\ Aged(flow[h].token) \in Tokens BY <1>1, AgedType DEF Flow
  <2>2. flow'[h] = flow[h] \/ flow'[h] = [flow[h] EXCEPT !.token = Aged(flow[h].token)]
    BY DEF Expire
  <2> QED BY <2>1, <2>2, BystanderSelf, BystanderToken
<1>8. flow' \in [Flows -> Flow]
  <2>1. flow' = [h \in Flows |-> flow'[h]] BY DEF Expire
  <2> QED BY <1>7, <2>1 DEF Bystander
<1> QED BY <1>5, <1>6, <1>7, <1>8, BystandersKeep

LEMMA EndSessionKeeps == ASSUME CInv, EndSession PROVE CInv'
<1>1. tab \in [Tabs -> Tab] /\ flow \in [Flows -> Flow] BY DEF CInv, TypeOK
<1>2. \A t \in Tabs : /\ tab'[t] \in Tab /\ tab'[t].page = tab[t].page
                      /\ tab'[t].sure = tab[t].sure /\ tab'[t].shown = tab[t].shown
  <2> SUFFICES ASSUME NEW t \in Tabs
               PROVE  /\ tab'[t] \in Tab /\ tab'[t].page = tab[t].page
                      /\ tab'[t].sure = tab[t].sure /\ tab'[t].shown = tab[t].shown
    OBVIOUS
  <2>1. tab[t] \in Tab /\ Aged(tab[t].held) \in Tokens BY <1>1, AgedType DEF Tab
  <2>2. tab'[t] = [tab[t] EXCEPT !.held = Aged(tab[t].held)] BY DEF EndSession
  <2> QED BY <2>1, <2>2 DEF Tab
<1>3. TabsKept
  <2>1. tab' = [t \in Tabs |-> tab'[t]] BY DEF EndSession
  <2> QED BY <1>2, <2>1 DEF TabsKept
<1>6. RestType /\ UNCHANGED <<owner, status, clerk>>
  BY DEF EndSession, server, RestType, CInv, TypeOK, Tokens, Fault
<1>7. \A h \in Flows : Bystander(flow[h], flow'[h]) /\ flow'[h].newest = flow[h].newest
  <2> SUFFICES ASSUME NEW h \in Flows
               PROVE  Bystander(flow[h], flow'[h]) /\ flow'[h].newest = flow[h].newest
    OBVIOUS
  <2>1. flow[h] \in Flow /\ Aged(flow[h].token) \in Tokens BY <1>1, AgedType DEF Flow
  <2>2. flow'[h] = flow[h] \/ flow'[h] = [flow[h] EXCEPT !.token = Aged(flow[h].token)]
    BY DEF EndSession
  <2> QED BY <2>1, <2>2, BystanderSelf, BystanderToken
<1>8. flow' \in [Flows -> Flow]
  <2>1. flow' = [h \in Flows |-> flow'[h]] BY DEF EndSession
  <2> QED BY <1>7, <2>1 DEF Bystander
<1> QED BY <1>3, <1>6, <1>7, <1>8, BystandersKeep

-----------------------------------------------------------------------------
(***************************************************************************)
(* The REST interface.                                                     *)
(***************************************************************************)
LEMMA ClerkFacts ==
    ASSUME CInv
    PROVE  /\ clerk \in Clerk /\ ClerkOK(clerk, owner)
           /\ owner \in [Dids -> Students \cup {None}]
           /\ students \in [Students -> Lives]
    BY DEF CInv, TypeOK

LEMMA NoClerkType == NoClerk \in Clerk
    BY DEF NoClerk, Clerk

LEMMA NoClerkIdle == NoClerk.at = "idle"
    BY DEF NoClerk

\* While the clerk is at work no dialog is clean.
LEMMA NoneClean == ASSUME CInv, clerk.at # "idle", NEW f \in Flows PROVE ~flow[f].clean
    BY DEF CInv, CleansOK, CleanOK

\* What remains to be shown of a step of the clerk.
LEMMA FilesKeep ==
    ASSUME CInv, clerk.at # "idle", UNCHANGED flow, ByClerk, UNCHANGED count,
           students' \in [Students -> Lives], owner' \in [Dids -> Students \cup {None}],
           clerk' \in Clerk, ClerkOK(clerk', owner')
    PROVE  CInv'
<1>1. RestType /\ TabsKept BY TabsSame DEF ByClerk, RestType, CInv, TypeOK
<1>2. TypeOK' BY <1>1 DEF CInv, TypeOK, RestType, TabsKept, ByClerk
<1>3. FlowsOK' BY DEF CInv, FlowsOK
<1>4. CleansOK' BY NoneClean DEF CleansOK, CleanOK
<1>5. ShownsOK' BY DEF CInv, ShownsOK, ShownOK, ByClerk
<1> QED BY <1>2, <1>3, <1>4, <1>5 DEF CInv

LEMMA BeginKeeps ==
    ASSUME CInv, NEW c \in Clerk, Begin(c),
           c.s \in Students, c.op = "delete" \/ (c.op = "detach" /\ c.at = "save"),
           UndoneOK([c EXCEPT !.before = owner, !.clean = TRUE], owner)
    PROVE  CInv'
<1> DEFINE k == [c EXCEPT !.before = owner, !.clean = TRUE]
<1>1. clerk' = k /\ UNCHANGED <<students, owner>> /\ ByClerk BY DEF Begin
<1>2. k \in Clerk /\ k.at = c.at /\ k.s = c.s /\ k.op = c.op
  BY ClerkFacts DEF Clerk
<1> HIDE DEF k
<1>3. \A h \in Flows : /\ Bystander(flow[h], flow'[h]) /\ flow'[h].newest = flow[h].newest
                       /\ ~flow'[h].clean
  <2> SUFFICES ASSUME NEW h \in Flows
               PROVE  /\ Bystander(flow[h], flow'[h]) /\ flow'[h].newest = flow[h].newest
                      /\ ~flow'[h].clean
    OBVIOUS
  <2>1. flow[h] \in Flow BY FlowFacts
  <2>2. flow'[h] = [flow[h] EXCEPT !.clean = FALSE] BY DEF Begin
  <2> QED BY <2>1, <2>2, BystanderUnclean
<1>4. flow' \in [Flows -> Flow]
  <2>1. flow' = [h \in Flows |-> flow'[h]] BY DEF Begin
  <2> QED BY <1>3, <2>1 DEF Bystander
<1>5. RestType
  <2>1. UNCHANGED <<students, refresh, trusted>> /\ Asked BY DEF Begin, ByClerk
  <2> QED BY <2>1, RestSame
<1>6. TabsKept BY <1>1, TabsSame DEF ByClerk
<1>7. TypeOK' BY <1>1, <1>2, <1>4, <1>5, <1>6 DEF CInv, TypeOK, RestType, TabsKept, ByClerk
<1>8. FlowsOK' BY <1>3, BystanderOK DEF CInv, FlowsOK
<1>9. CleansOK' BY <1>3 DEF CleansOK, CleanOK
<1>10. ShownsOK'
  <2>1. \A t \in Tabs : \A h \in Flows : ListKept(flow[h], flow'[h], t)
    BY <1>3, BystanderList
  <2> QED BY <1>1, <1>6, <2>1, ShownAll DEF ByClerk
<1>11. ClerkOK(clerk', owner') BY <1>1, <1>2 DEF ClerkOK, k
<1> QED BY <1>7, <1>8, <1>9, <1>10, <1>11 DEF CInv

LEMMA DetachKeeps ==
    ASSUME CInv, NEW s \in Students, NEW d \in Dids, Detach(s, d) PROVE CInv'
<1> DEFINE c == [NoClerk EXCEPT !.at = "save", !.op = "detach", !.s = s, !.d = d,
                                !.dids = DidsOf(s)]
           k == [c EXCEPT !.before = owner, !.clean = TRUE]
<1>1. Begin(c) /\ owner[d] = s BY DEF Detach
<1>2. /\ c \in Clerk /\ c.s = s /\ c.op = "detach" /\ c.at = "save" /\ c.d = d
      /\ c.dids = DidsOf(s) /\ c.left = {}
  BY DEF NoClerk, Clerk, DidsOf
<1> HIDE DEF c
<1>3. /\ k.before = owner /\ k.s = s /\ k.op = "detach" /\ k.at = "save" /\ k.d = d
      /\ k.dids = DidsOf(s) /\ k.left = {}
  BY <1>2 DEF Clerk
<1> HIDE DEF k
<1>4. UndoneOK(k, owner) BY <1>1, <1>3 DEF UndoneOK, DidsOf
<1> QED BY <1>1, <1>2, <1>4, BeginKeeps DEF k

LEMMA DeleteKeeps == ASSUME CInv, NEW s \in Students, Delete(s) PROVE CInv'
<1> DEFINE c == [NoClerk EXCEPT !.at = "loop", !.op = "delete", !.s = s, !.left = DidsOf(s)]
           k == [c EXCEPT !.before = owner, !.clean = TRUE]
<1>1. Begin(c) BY DEF Delete
<1>2. /\ c \in Clerk /\ c.s = s /\ c.op = "delete" /\ c.at = "loop" /\ c.left = DidsOf(s)
  BY DEF NoClerk, Clerk, DidsOf
<1> HIDE DEF c
<1>3. k.before = owner /\ k.s = s /\ k.op = "delete" /\ k.at = "loop" /\ k.left = DidsOf(s)
  BY <1>2 DEF Clerk
<1> HIDE DEF k
<1>4. UndoneOK(k, owner) BY <1>3 DEF UndoneOK, DidsOf
<1> QED BY <1>1, <1>2, <1>4, BeginKeeps DEF k

\* The list saved is the one that was read, without the did: if nothing came in
\* between, every other did stays where it is.
LEMMA SavedOwner ==
    ASSUME CInv, SaveDetached, clerk.clean
    PROVE  /\ clerk.d \in Dids /\ UndoneOK(clerk, owner) /\ clerk.s # None
           /\ \A d \in Dids : owner'[d] = IF d = clerk.d THEN None ELSE owner[d]
<1>1. UndoneOK(clerk, owner) /\ clerk.s \in Students
  BY ClerkFacts DEF ClerkOK, SaveDetached
<1>2. clerk.d \in Dids /\ clerk.dids = {d \in Dids : owner[d] = clerk.s}
  BY <1>1 DEF UndoneOK, SaveDetached
<1>3. owner[clerk.d] = clerk.s
  BY <1>1, ClerkFacts DEF UndoneOK, ClerkOK, SaveDetached
<1>4. \A d \in Dids : owner'[d] = IF d \in clerk.dids \ {clerk.d} THEN clerk.s
                                  ELSE IF owner[d] = clerk.s THEN None ELSE owner[d]
  BY DEF SaveDetached
<1> QED BY <1>1, <1>2, <1>3, <1>4, NothingIs

LEMMA SaveDetachedKeeps == ASSUME CInv, SaveDetached PROVE CInv'
<1>1. clerk.at = "save" /\ ByClerk /\ UNCHANGED <<flow, count>> BY DEF SaveDetached
<1>2. /\ clerk \in Clerk /\ ClerkOK(clerk, owner)
      /\ owner \in [Dids -> Students \cup {None}] /\ students \in [Students -> Lives]
  BY ClerkFacts
<1>3. clerk.s \in Students BY <1>1, <1>2 DEF ClerkOK
<1>4. owner' \in [Dids -> Students \cup {None}] BY <1>2, <1>3 DEF SaveDetached
<1>5. students' \in [Students -> Lives] BY <1>2 DEF SaveDetached, Lives
<1>6. CASE clerk.op = "delete"
  <2> DEFINE k == [clerk EXCEPT !.at = "loop"]
  <2>1. clerk' = k BY <1>6 DEF SaveDetached
  <2>2. /\ k \in Clerk /\ k.at = "loop" /\ k.op = "delete" /\ k.s = clerk.s
        /\ k.left = clerk.left /\ k.before = clerk.before /\ k.clean = clerk.clean
    BY <1>2, <1>6 DEF Clerk
  <2> HIDE DEF k
  <2>3. k.clean => UndoneOK(k, owner')
    <3> SUFFICES ASSUME clerk.clean PROVE UndoneOK(k, owner') BY <2>2
    <3>1. /\ clerk.d \in Dids /\ UndoneOK(clerk, owner) /\ clerk.s # None
          /\ \A d \in Dids : owner'[d] = IF d = clerk.d THEN None ELSE owner[d]
      BY SavedOwner
    <3>2. \A d \in Dids : k.before[d] # k.s => owner'[d] = k.before[d]
      BY <1>1, <2>2, <3>1 DEF UndoneOK
    <3>3. \A d \in Dids : k.before[d] = k.s => owner'[d] = IF d \in k.left THEN k.s ELSE None
      BY <1>1, <1>6, <2>2, <3>1 DEF UndoneOK
    <3>4. \A d \in k.left : k.before[d] = k.s BY <2>2, <3>1 DEF UndoneOK
    <3> QED BY <2>2, <3>2, <3>3, <3>4 DEF UndoneOK
  <2>4. ClerkOK(k, owner') BY <1>3, <2>2, <2>3 DEF ClerkOK
  <2> QED BY <1>1, <1>4, <1>5, <2>1, <2>2, <2>4, FilesKeep
<1>7. CASE clerk.op # "delete"
  <2>1. clerk' = NoClerk BY <1>7 DEF SaveDetached
  <2>2. ClerkOK(clerk', owner') BY <2>1, NoClerkIdle DEF ClerkOK
  <2> QED BY <1>1, <1>4, <1>5, <2>1, <2>2, NoClerkType, FilesKeep
<1> QED BY <1>6, <1>7

\* The next did of the list is still the student's, if nothing came in between.
LEMMA NextOwned ==
    ASSUME CInv, DetachNext, clerk.clean
    PROVE  LET d == CHOOSE x \in clerk.left : TRUE
           IN  d \in clerk.left /\ d \in Dids /\ clerk.before[d] = clerk.s /\ owner[d] = clerk.s
<1> DEFINE d == CHOOSE x \in clerk.left : TRUE
<1>1. d \in clerk.left BY DEF DetachNext
<1>2. clerk \in Clerk /\ UndoneOK(clerk, owner) /\ clerk.at = "loop" /\ clerk.op = "delete"
  BY ClerkFacts DEF ClerkOK, DetachNext
<1>3. d \in Dids BY <1>1, <1>2 DEF Clerk
<1> HIDE DEF d
<1>4. clerk.before[d] = clerk.s /\ owner[d] = clerk.s BY <1>1, <1>2, <1>3 DEF UndoneOK
<1> QED BY <1>1, <1>3, <1>4 DEF d

LEMMA DetachNextKeeps == ASSUME CInv, DetachNext PROVE CInv'
<1> DEFINE d == CHOOSE x \in clerk.left : TRUE
           k == [clerk EXCEPT !.at = "save", !.d = d, !.dids = DidsOf(clerk.s), !.left = @ \ {d}]
<1>1. clerk.at = "loop" /\ ByClerk /\ UNCHANGED <<students, owner, flow, count>>
  BY DEF DetachNext
<1>2. /\ clerk \in Clerk /\ ClerkOK(clerk, owner)
      /\ owner \in [Dids -> Students \cup {None}] /\ students \in [Students -> Lives]
  BY ClerkFacts
<1>3. d \in clerk.left BY DEF DetachNext
<1>4. d \in Dids BY <1>2, <1>3 DEF Clerk
<1>5. clerk.s \in Students /\ clerk.op = "delete" BY <1>1, <1>2 DEF ClerkOK
<1>6. clerk' = IF owner[d] = clerk.s THEN k ELSE NoClerk BY DEF DetachNext
<1>7. clerk.clean => clerk.before[d] = clerk.s /\ owner[d] = clerk.s BY NextOwned
<1> HIDE DEF d
<1>8. CASE owner[d] = clerk.s
  <2>1. /\ k \in Clerk /\ k.at = "save" /\ k.op = "delete" /\ k.s = clerk.s /\ k.d = d
        /\ k.dids = DidsOf(clerk.s) /\ k.left = clerk.left \ {d}
        /\ k.before = clerk.before /\ k.clean = clerk.clean
    BY <1>2, <1>4, <1>5 DEF Clerk, DidsOf
  <2> HIDE DEF k
  <2>2. k.clean => UndoneOK(k, owner)
    <3> SUFFICES ASSUME clerk.clean PROVE UndoneOK(k, owner) BY <2>1
    <3>1. UndoneOK(clerk, owner) BY <1>1, <1>2 DEF ClerkOK
    <3>2. \A x \in Dids : k.before[x] = k.s =>
             owner[x] = IF x \in k.left \/ x = k.d THEN k.s ELSE None
      BY <1>1, <1>3, <1>5, <1>8, <2>1, <3>1 DEF UndoneOK
    <3>3. k.dids = {x \in Dids : owner[x] = k.s} BY <2>1 DEF DidsOf
    <3>4. /\ \A x \in Dids : k.before[x] # k.s => owner[x] = k.before[x]
          /\ \A x \in k.left : k.before[x] = k.s
      BY <2>1, <3>1 DEF UndoneOK
    <3>5. k.d \in Dids /\ k.before[k.d] = k.s /\ k.d \notin k.left BY <1>4, <1>7, <2>1
    <3> QED BY <2>1, <3>2, <3>3, <3>4, <3>5 DEF UndoneOK
  <2>3. ClerkOK(k, owner) BY <1>5, <2>1, <2>2 DEF ClerkOK
  <2>4. clerk' = k /\ owner' = owner BY <1>1, <1>6, <1>8
  <2>5. ClerkOK(clerk', owner') BY <2>3, <2>4
  <2> QED BY <1>1, <1>2, <2>1, <2>4, <2>5, FilesKeep
<1>9. CASE owner[d] # clerk.s
  <2>1. clerk' = NoClerk BY <1>6, <1>9
  <2>2. ClerkOK(clerk', owner') BY <2>1, NoClerkIdle DEF ClerkOK
  <2> QED BY <1>1, <1>2, <2>1, <2>2, NoClerkType, FilesKeep
<1> QED BY <1>8, <1>9

LEMMA RemoveKeeps == ASSUME CInv, Remove PROVE CInv'
<1>1. clerk.at = "loop" /\ ByClerk /\ UNCHANGED <<owner, flow, count>> /\ clerk' = NoClerk
  BY DEF Remove
<1>2. students' \in [Students -> Lives] BY ClerkFacts DEF Remove, Lives
<1>3. ClerkOK(clerk', owner') BY <1>1, NoClerkIdle DEF ClerkOK
<1> QED BY <1>1, <1>2, <1>3, ClerkFacts, NoClerkType, FilesKeep

-----------------------------------------------------------------------------
(***************************************************************************)
(* The invariant.                                                          *)
(***************************************************************************)
LEMMA InitHolds == ASSUME Init PROVE CInv
<1>1. students \in [Students -> Lives] BY DEF Init, Lives
<1>2. owner \in [Dids -> Students \cup {None}] BY DEF Init, Live
<1>3. /\ status = AllPending /\ refresh = "live" /\ trusted = TRUE
      /\ flow = [f \in Flows |-> Idle] /\ clerk = NoClerk
      /\ count = [asked |-> 0, faults |-> 0]
  BY DEF Init
<1>4. \A x \in {Opened("app", "live"), Opened("closed", "none")} :
         x \in Tab /\ x.shown = AllPending
  <2>1. /\ Opened("app", "live") \in Tab /\ Opened("app", "live").shown = AllPending
        /\ Opened("closed", "none") \in Tab /\ Opened("closed", "none").shown = AllPending
    BY PendingType DEF Opened, Tab, Tokens
  <2> QED BY <2>1
<1>5. tab \in [Tabs -> Tab] /\ \A t \in Tabs : tab[t].shown = AllPending
  BY <1>4 DEF Init
<1>6. \A f \in Flows : flow[f] = Idle BY <1>3
<1>7. trusted \in BOOLEAN BY <1>3, Zenon
<1>8. TypeOK
  BY <1>1, <1>2, <1>3, <1>5, <1>7, PendingType, IdleType, NoClerkType DEF TypeOK, Tokens
<1>9. FlowsOK BY <1>6, IdleOK DEF FlowsOK
<1>10. CleansOK BY <1>6, IdleFields DEF CleansOK, CleanOK
<1>11. ShownsOK
  <2>1. \A t \in Tabs, f \in Flows : ~IsFetch(flow[f], t) BY <1>6, IdleFields DEF IsFetch
  <2> QED BY <1>3, <1>5, <2>1 DEF ShownsOK, ShownOK
<1>12. ClerkOK(clerk, owner) BY <1>3, NoClerkIdle DEF ClerkOK
<1> QED BY <1>8, <1>9, <1>10, <1>11, <1>12 DEF CInv

LEMMA PeopleKeep == ASSUME CInv, People PROVE CInv'
<1>1. CASE \E f \in Slots, t \in Tabs, v \in Vcs, s \in Students \cup {None} : Approve(f, t, v, s)
  BY <1>1, ApproveKeeps
<1>2. CASE \E f \in Slots, t \in Tabs, v \in Vcs : Reject(f, t, v) \/ Undo(f, t, v)
  BY <1>2, RejectKeeps, UndoKeeps
<1>3. CASE \E f \in Slots, t \in Tabs : Look(f, t) BY <1>3, LookKeeps
<1>4. CASE \E t \in Tabs : OpenTab(t) \/ SignIn(t) \/ SignOut(t) \/ Navigate(t)
  BY <1>4, OpenTabKeeps, SignInKeeps, SignOutKeeps, NavigateKeeps
<1>5. CASE \E s \in Students, d \in Dids : Detach(s, d) BY <1>5, DetachKeeps
<1>6. CASE \E s \in Students : Delete(s) BY <1>6, DeleteKeeps
<1> QED BY <1>1, <1>2, <1>3, <1>4, <1>5, <1>6 DEF People

LEMMA ServeKeeps == ASSUME CInv, NEW f \in Flows, Serve(f) PROVE CInv'
    BY ArriveKeeps, CreateStudentKeeps, ReadAttachKeeps, SaveAttachKeeps, ReadVcKeeps,
       MarkIssuedKeeps, SetStatusKeeps, ReadListKeeps DEF Serve

LEMMA ReactKeeps == ASSUME CInv, NEW f \in Flows, React(f) PROVE CInv'
    BY AskRefreshKeeps, RefreshedKeeps, RefreshFailsKeeps, RefusedKeeps, AfterCreateKeeps,
       NotCreatedKeeps, AfterAttachKeeps, NotAttachedKeeps, AfterDecideKeeps,
       NotDecidedKeeps, AfterListKeeps, NotListedKeeps DEF React

LEMMA TurnKeeps == ASSUME CInv, NEW t \in Tabs, Turn(t) PROVE CInv'
    BY CheckedKeeps, NotCheckedKeeps, LoginKeeps, UnloadKeeps DEF Turn

LEMMA FaultsKeep == ASSUME CInv, Faults PROVE CInv'
    BY RekeyKeeps, EndSessionKeeps, ExpireKeeps, LoseKeeps DEF Faults

LEMMA StutterKeeps == ASSUME CInv, UNCHANGED vars PROVE CInv'
<1>1. RestType /\ TabsKept BY RestSame, TabsSame DEF vars
<1> QED BY <1>1, QuietKeeps DEF vars

LEMMA NextKeeps == ASSUME CInv, [Next]_vars PROVE CInv'
<1>1. CASE People BY <1>1, PeopleKeep
<1>2. CASE Files BY <1>2, SaveDetachedKeeps, DetachNextKeeps, RemoveKeeps DEF Files
<1>3. CASE Faults BY <1>3, FaultsKeep
<1>4. CASE \E f \in Flows : Serve(f) \/ React(f) BY <1>4, ServeKeeps, ReactKeeps
<1>5. CASE \E t \in Tabs : Turn(t) \/ Poll(t) BY <1>5, TurnKeeps, PollKeeps
<1>6. CASE UNCHANGED vars BY <1>6, StutterKeeps
<1> QED BY <1>1, <1>2, <1>3, <1>4, <1>5, <1>6 DEF Next

LEMMA Invariant == Spec => []CInv
<1>1. Init => CInv BY InitHolds
<1>2. CInv /\ [Next]_vars => CInv' BY NextKeeps
<1> QED BY <1>1, <1>2, PTL DEF Spec

-----------------------------------------------------------------------------
(***************************************************************************)
(* What it gives.                                                          *)
(***************************************************************************)
\* Every variable keeps its type: what the dialogs, the server and the
\* interceptor of failed answers write is always a value the others can read.
THEOREM ConsoleTyped == Spec => []TypeOK
<1>1. CInv => TypeOK BY DEF CInv
<1> QED BY <1>1, Invariant, PTL

\* However often a dialog's calls are sent again after the session was
\* refreshed, it creates one student at most (CreateStudent).
THEOREM StudentOnce == Spec => []CreatedOnce
<1>1. CInv => CreatedOnce BY DEF CInv, FlowsOK, FlowOK, CreatedOnce
<1> QED BY <1>1, Invariant, PTL

\* Who is told that a credential was approved finds its did with the student
\* chosen and the credential issued, if no rival worked on the did (SaveAttach,
\* MarkIssued).
THEOREM ChosenStays == Spec => []ChosenOwns
<1>1. CInv => ChosenOwns
  <2> SUFFICES ASSUME CInv, NEW f \in Slots, flow[f].told, flow[f].clean, Issuing(f)
               PROVE  /\ owner[DidOf[flow[f].v]] = flow[f].s
                      /\ status[flow[f].v] = "issued"
    BY DEF ChosenOwns
  <2>1. f \in Flows BY NothingIs
  <2>2. FlowOK(f, flow[f]) /\ CleanOK(f) BY <2>1, FlowFacts
  <2>3. flow[f].step = "list" BY <2>2 DEF FlowOK
  <2> QED BY <2>2, <2>3 DEF CleanOK, EffectOK, Attached, Landed, Issuing
<1> QED BY <1>1, Invariant, PTL

\* A tab at rest shows the decisions as they are stored, whatever order the
\* fetches of its dialogs were answered in (Fetch, AfterList).
THEOREM ShownAtRest == Spec => []ShownIsStored
<1>1. CInv => ShownIsStored
  <2> SUFFICES ASSUME CInv, NEW t \in Tabs, tab[t].page = "app", tab[t].sure,
                      \A f \in Slots : flow[f].t # t
               PROVE  tab[t].shown = status
    BY DEF ShownIsStored
  <2>1. ShownOK(t) BY DEF CInv, ShownsOK
  <2>2. \A f \in Flows : ~IsDecided(flow[f], t) /\ ~IsFetch(flow[f], t)
    <3> SUFFICES ASSUME NEW f \in Flows PROVE ~IsDecided(flow[f], t) /\ ~IsFetch(flow[f], t)
      OBVIOUS
    <3>1. CASE f \in Slots BY <3>1 DEF IsDecided, IsFetch
    <3>2. CASE f \in Tabs
      <4>1. FlowOK(f, flow[f]) BY FlowFacts
      <4>2. flow[f].kind \in {"none", "poll"} BY <3>2, <4>1 DEF FlowOK
      <4> QED BY <4>1, <4>2 DEF FlowOK, IsDecided, IsFetch, Deciding
    <3> QED BY <3>1, <3>2, NothingIs
  <2> QED BY <2>1, <2>2 DEF ShownOK
<1> QED BY <1>1, Invariant, PTL

-----------------------------------------------------------------------------
EndsAsAsked ==
    clerk.at # "idle" /\ clerk'.at = "idle" /\ clerk.clean =>
      /\ \A d \in Dids : clerk.before[d] # clerk.s => owner'[d] = clerk.before[d]
      /\ clerk.op = "detach" => owner' = [clerk.before EXCEPT ![clerk.d] = None]
      /\ clerk.op = "delete" => students'[clerk.s] = "gone"

LEMMA SaveDetachedAsked == ASSUME CInv, SaveDetached PROVE EndsAsAsked
<1> SUFFICES ASSUME clerk'.at = "idle", clerk.clean
             PROVE  /\ \A d \in Dids : clerk.before[d] # clerk.s => owner'[d] = clerk.before[d]
                    /\ clerk.op = "detach" => owner' = [clerk.before EXCEPT ![clerk.d] = None]
                    /\ clerk.op = "delete" => students'[clerk.s] = "gone"
  BY DEF EndsAsAsked
<1>1. clerk \in Clerk /\ owner \in [Dids -> Students \cup {None}] BY ClerkFacts
<1>2. clerk.op # "delete"
  <2>1. [clerk EXCEPT !.at = "loop"].at = "loop" BY <1>1 DEF Clerk
  <2> QED BY <2>1 DEF SaveDetached
<1>3. /\ clerk.d \in Dids /\ UndoneOK(clerk, owner)
      /\ \A d \in Dids : owner'[d] = IF d = clerk.d THEN None ELSE owner[d]
  BY SavedOwner
<1>4. clerk.before[clerk.d] = clerk.s BY <1>3 DEF UndoneOK, SaveDetached
<1>5. \A d \in Dids : clerk.before[d] # clerk.s => owner'[d] = clerk.before[d]
  BY <1>3, <1>4 DEF UndoneOK
<1>6. clerk.op = "detach" => owner' = [clerk.before EXCEPT ![clerk.d] = None]
  <2> SUFFICES ASSUME clerk.op = "detach"
               PROVE  owner' = [clerk.before EXCEPT ![clerk.d] = None]
    OBVIOUS
  <2>1. clerk.before \in [Dids -> Students \cup {None}] BY <1>1 DEF Clerk
  <2>2. \A d \in Dids : owner[d] = clerk.before[d] BY <1>3 DEF UndoneOK
  <2>3. owner' = [d \in Dids |-> owner'[d]] BY DEF SaveDetached
  <2> QED BY <1>3, <2>1, <2>2, <2>3
<1> QED BY <1>2, <1>5, <1>6

LEMMA RemoveAsked == ASSUME CInv, Remove PROVE EndsAsAsked
<1> SUFFICES ASSUME clerk.clean
             PROVE  /\ \A d \in Dids : clerk.before[d] # clerk.s => owner'[d] = clerk.before[d]
                    /\ clerk.op = "detach" => owner' = [clerk.before EXCEPT ![clerk.d] = None]
                    /\ clerk.op = "delete" => students'[clerk.s] = "gone"
  BY DEF EndsAsAsked
<1>1. clerk.at = "loop" /\ clerk.left = {} /\ owner' = owner BY DEF Remove, ByClerk
<1>2. /\ clerk \in Clerk /\ UndoneOK(clerk, owner) /\ clerk.op = "delete"
      /\ clerk.s \in Students /\ students \in [Students -> Lives]
  BY <1>1, ClerkFacts DEF ClerkOK
<1>3. DidsOf(clerk.s) = {} BY <1>1, <1>2, NothingIs DEF UndoneOK, DidsOf
<1>4. students'[clerk.s] = "gone" BY <1>2, <1>3 DEF Remove
<1> QED BY <1>1, <1>2, <1>4 DEF UndoneOK

LEMMA SubmitByOthers == ASSUME NEW f, NEW g, Submit(f, g) PROVE clerk' = clerk
    BY DEF Submit

LEMMA ClerkStays == ASSUME CInv, Next, ~Files, clerk.at # "idle" PROVE clerk'.at # "idle" \/ EndsAsAsked
<1>1. clerk \in Clerk BY ClerkFacts
<1>2. \A f \in Flows : SaveAttach(f) => clerk'.at = clerk.at
  BY <1>1 DEF SaveAttach, Clerk
<1>3. \A f \in Flows : Serve(f) => clerk'.at = clerk.at
  BY <1>2 DEF Serve, Arrive, CreateStudent, ReadAttach, ReadVc, MarkIssued, SetStatus,
              ReadList, Decide
<1>4. \A f \in Flows : React(f) => clerk' = clerk
  BY DEF React, AskRefresh, GiveUp, Refreshed, RefreshFails, Refused, AfterCreate, NotCreated,
         AfterAttach, NotAttached, AfterDecide, NotDecided, AfterList, NotListed, Came
<1>5. \A t \in Tabs : Turn(t) \/ Poll(t) => clerk' = clerk
  BY DEF Turn, Poll, Checked, NotChecked, Login, Unload, Page
<1>6. Faults => clerk' = clerk BY DEF Faults, Rekey, EndSession, Expire, Lose
<1>7. People => clerk' = clerk
  <2>1. \A f \in Slots, t \in Tabs, v \in Vcs :
           /\ \A s \in Students \cup {None} : Approve(f, t, v, s) => clerk' = clerk
           /\ Reject(f, t, v) \/ Undo(f, t, v) => clerk' = clerk
    BY SubmitByOthers DEF Approve, Reject, Undo
  <2>2. \A f \in Slots, t \in Tabs : Look(f, t) => clerk' = clerk BY DEF Look
  <2>3. \A t \in Tabs : OpenTab(t) \/ SignIn(t) \/ SignOut(t) \/ Navigate(t) => clerk' = clerk
    BY DEF OpenTab, SignIn, SignOut, Navigate, Page
  <2>4. \A s \in Students, d \in Dids : ~Detach(s, d) BY DEF Detach, Begin
  <2>5. \A s \in Students : ~Delete(s) BY DEF Delete, Begin
  <2> QED BY <2>1, <2>2, <2>3, <2>4, <2>5 DEF People
<1> QED BY <1>3, <1>4, <1>5, <1>6, <1>7 DEF Next

\* Removing a did from a student, and deleting one, leaves every other
\* student's dids alone and ends with what was asked, unless a did was attached
\* in between (SaveDetached, DetachNext, Remove).
THEOREM AskedOnly == Spec => OnlyWhatWasAsked
<1>1. CInv /\ [Next]_vars => [EndsAsAsked]_vars
  <2> SUFFICES ASSUME CInv, Next PROVE EndsAsAsked OBVIOUS
  <2>1. CASE SaveDetached BY <2>1, SaveDetachedAsked
  <2>2. CASE Remove BY <2>2, RemoveAsked
  <2>3. CASE DetachNext
    <3>1. clerk.clean => owner[CHOOSE x \in clerk.left : TRUE] = clerk.s BY <2>3, NextOwned
    <3>2. clerk \in Clerk BY ClerkFacts
    <3>3. clerk.clean => clerk'.at = "save" BY <2>3, <3>1, <3>2 DEF DetachNext, Clerk
    <3> QED BY <3>3 DEF EndsAsAsked
  <2>4. CASE ~Files /\ clerk.at # "idle" BY <2>4, ClerkStays DEF EndsAsAsked
  <2>5. CASE clerk.at = "idle" BY <2>5 DEF EndsAsAsked
  <2> QED BY <2>1, <2>2, <2>3, <2>4, <2>5 DEF Files
<1>2. Spec => [][EndsAsAsked]_vars
  <2>1. Spec => [][Next]_vars BY DEF Spec
  <2> QED BY <1>1, <2>1, Invariant, PTL
<1> QED BY <1>2 DEF OnlyWhatWasAsked, EndsAsAsked
=============================================================================
