------------------------------ MODULE Console -------------------------------
(***************************************************************************)
(* The administrators' console: browser tabs that share a session, the     *)
(* calls their dialogs make one after the other (create a student, attach  *)
(* the did, decide about the credential, fetch the list again), and the    *)
(* server's students, dids and decisions behind them.                      *)
(*                                                                         *)
(* A flow is one submitted dialog; it has one call out at a time.  Of the  *)
(* server's handlers an action is one database call with the code up to    *)
(* the next; of a browser it is the code between two awaited answers.      *)
(***************************************************************************)
EXTENDS Naturals, FiniteSets

CONSTANTS
    Students,    \* serial ids of student rows
    Vcs,         \* credential requests
    Dids,
    DidOf,       \* the did that a request came from
    Tabs,
    Slots,       \* dialogs under way at once, over all tabs
    Polling,     \* tabs whose minute poll is followed
    Clerking,    \* what is asked of the REST interface: "detach", "delete"
    Retries,     \* how often the query library fetches again (3)
    MaxFaults,   \* bound: lost calls, ended sessions, expired tokens, sign-outs
    MaxEvents,   \* bound: those, dialogs submitted and operations of the clerk
    None

\* A tab's own slot is its poll.
Flows == Slots \cup Tabs

ASSUME ConsoleAssumption ==
    /\ Students \subseteq Nat
    /\ DidOf \in [Vcs -> Dids]
    /\ Polling \subseteq Tabs /\ Tabs \cap Slots = {}
    /\ Clerking \subseteq {"detach", "delete"}
    /\ Retries \in Nat /\ MaxFaults \in Nat /\ MaxEvents \in Nat
    /\ None \notin Students \cup Vcs \cup Dids \cup Tabs

VARIABLES
    students,  \* student
    owner,     \* did: the student a did belongs to
    status,    \* verifiable_credential: the decision
    tab,       \* what each browser tab keeps
    refresh,   \* localStorage: the refresh token all tabs share
    trusted,   \* the server's copy of the realm's key fits
    flow,      \* dialogs and polls under way
    clerk,     \* an operation on the REST interface itself
    count      \* what was asked for and what failed so far

server  == <<students, owner, status>>
vars    == <<students, owner, status, tab, refresh, trusted, flow, clerk, count>>

-----------------------------------------------------------------------------
Lives    == {"unborn", "live", "gone"}
Statuses == {"pending", "issued", "rejected"}
Tokens   == {"none", "live", "dead"}

\* page: the router's, "leaving" once location.href was set; access:
\* sessionStorage; header: the client's default header; shown: the list as the
\* tab last fetched it; undo: credentials with an Undo toast; sure: no call of
\* the tab failed and no other tab decided since it was opened.
Tab == [page : {"closed", "checking", "signIn", "granted", "app", "leaving"},
        access : Tokens, header : Tokens, held : Tokens,
        shown : [Vcs -> Statuses], undo : SUBSET Vcs, sure : BOOLEAN]

Kinds == {"none", "existing", "new", "reject", "undo", "look", "poll"}
Steps == {"none", "create", "attach", "decide", "list"}
At    == {"idle", "wire", "work", "save", "ok", "failed", "unauthorised", "refresh"}

\* token: what the call carries; newest: no later fetch replaced this one;
\* made: students created for it; told: the success toast was shown; clean: no
\* other flow or clerk touched the same did, and no call of it failed.
Flow == [kind : Kinds, step : Steps, at : At, t : Tabs \cup {None},
         v : Vcs \cup {None}, s : Students \cup {None}, token : Tokens,
         retried : BOOLEAN, tries : 0 .. Retries, newest : BOOLEAN,
         seen : [Vcs -> Statuses], dropped : BOOLEAN,
         made : Nat, told : BOOLEAN, clean : BOOLEAN]

AllPending == [v \in Vcs |-> "pending"]

Idle == [kind |-> "none", step |-> "none", at |-> "idle", t |-> None, v |-> None,
         s |-> None, token |-> "none", retried |-> FALSE, tries |-> 0,
         newest |-> TRUE, seen |-> AllPending, dropped |-> FALSE,
         made |-> 0, told |-> FALSE, clean |-> FALSE]

\* before: the owners when it began; dids: the student's dids as last read.
Clerk == [at : {"idle", "loop", "save"},
          op : {"none", "detach", "delete"}, s : Students \cup {None},
          d : Dids \cup {None}, dids : SUBSET Dids, left : SUBSET Dids,
          before : [Dids -> Students \cup {None}], clean : BOOLEAN]

NoClerk == [at |-> "idle", op |-> "none", s |-> None, d |-> None, dids |-> {},
            left |-> {}, before |-> [d \in Dids |-> None], clean |-> FALSE]

Live       == {s \in Students : students[s] = "live"}
DidsOf(s)  == {d \in Dids : owner[d] = s}
Free(f)    == flow[f].at = "idle"
Here(f, step, at) == flow[f].step = step /\ flow[f].at = at
InBrowser(f)      == ~flow[f].dropped

Events == count.asked + count.faults
Asked  == Events < MaxEvents /\ count' = [count EXCEPT !.asked = @ + 1]
Fault  == /\ Events < MaxEvents /\ count.faults < MaxFaults
          /\ count' = [count EXCEPT !.faults = @ + 1]

-----------------------------------------------------------------------------
(***************************************************************************)
(* Calls.  A request carries the default header as the call before it left *)
(* it; the interceptor then sets the default from the tab's storage.       *)
(***************************************************************************)
Carrying(g, step) == [g EXCEPT !.step = step, !.at = "wire",
                               !.token = tab[g.t].header, !.retried = FALSE]

Headers(t) == [tab EXCEPT ![t].header = tab[t].access]

Call(f, g, step) == flow' = [flow EXCEPT ![f] = Carrying(g, step)]

\* Fetching the list again replaces a fetch that the tab has under way.
Fetch(f, g) ==
    flow' = [h \in Flows |->
               IF h = f THEN Carrying(g, "list")
               ELSE IF flow[h].t = g.t /\ flow[h].step = "list" /\ flow[h].kind # "poll"
               THEN [flow[h] EXCEPT !.newest = FALSE] ELSE flow[h]]

\* What the server answers, if the browser still waits for it.
Answer(f, at) ==
    flow' = [flow EXCEPT ![f] = IF @.dropped THEN Idle
                                ELSE [@ EXCEPT !.at = at, !.token = "none"]]
End(f)        == flow' = [flow EXCEPT ![f] = Idle]

-----------------------------------------------------------------------------
(***************************************************************************)
(* Submitting.                                                             *)
(***************************************************************************)
Deciding == {"existing", "new", "reject", "undo"}

Rivals(h, v) == /\ flow[h].at # "idle" /\ flow[h].kind \in Deciding
                /\ DidOf[flow[h].v] = DidOf[v]

Submit(f, g) ==
    /\ f \in Slots /\ Free(f)
    /\ tab[g.t].page = "app"
    /\ Asked
    /\ LET step == CASE g.kind = "new" -> "create" [] g.kind = "existing" -> "attach"
                     [] g.kind \in {"reject", "undo"} -> "decide"
           alone == clerk.at = "idle" /\ \A h \in Flows : ~Rivals(h, g.v)
       IN  flow' = [h \in Flows |->
                      IF h = f THEN [Carrying(g, step) EXCEPT !.clean = alone]
                      ELSE IF Rivals(h, g.v) THEN [flow[h] EXCEPT !.clean = FALSE]
                      ELSE flow[h]]
    /\ UNCHANGED <<server, refresh, trusted, clerk>>

\* Bound: an id is left for every student about to be created.
SpareStudent ==
    Cardinality({f \in Flows : flow[f].step = "create"})
        < Cardinality({s \in Students : students[s] = "unborn"})

\* The menu of a listed credential: only what it is shown as is disabled.
Approve(f, t, v, s) ==
    /\ tab[t].shown[v] # "issued"
    /\ IF s = None THEN SpareStudent ELSE s \in Live
    /\ Submit(f, [Idle EXCEPT !.kind = IF s = None THEN "new" ELSE "existing",
                              !.t = t, !.v = v, !.s = s])
    /\ tab' = Headers(t)

Reject(f, t, v) ==
    /\ tab[t].shown[v] # "rejected"
    /\ Submit(f, [Idle EXCEPT !.kind = "reject", !.t = t, !.v = v])
    /\ tab' = Headers(t)

Undo(f, t, v) ==
    /\ v \in tab[t].undo
    /\ Submit(f, [Idle EXCEPT !.kind = "undo", !.t = t, !.v = v])
    /\ tab' = [Headers(t) EXCEPT ![t].undo = @ \ {v}]

\* UpdateData: the list is fetched again by hand.
Look(f, t) ==
    /\ f \in Slots /\ Free(f)
    /\ tab[t].page = "app"
    /\ Asked
    /\ Fetch(f, [Idle EXCEPT !.kind = "look", !.t = t])
    /\ tab' = Headers(t)
    /\ UNCHANGED <<server, refresh, trusted, clerk>>

\* NotificationsProvider: the counts are fetched every minute.
Poll(t) ==
    /\ t \in Polling /\ Free(t)
    /\ tab[t].page = "app"
    /\ Call(t, [Idle EXCEPT !.kind = "poll", !.t = t], "list")
    /\ tab' = Headers(t)
    /\ UNCHANGED <<server, refresh, trusted, clerk, count>>

-----------------------------------------------------------------------------
(***************************************************************************)
(* The server.                                                             *)
(***************************************************************************)
Arrive(f) ==
    /\ flow[f].at = "wire"
    /\ IF flow[f].token = "live" /\ trusted
       THEN flow' = [flow EXCEPT ![f].at = "work", ![f].token = "none", ![f].retried = FALSE]
       ELSE Answer(f, "unauthorised")
    /\ UNCHANGED <<server, tab, refresh, trusted, clerk, count>>

\* A call does not get through, or its answer does not.
Lose(f) ==
    /\ flow[f].at \in {"wire", "ok", "unauthorised"}
    /\ Fault
    /\ Answer(f, "failed")
    /\ UNCHANGED <<server, tab, refresh, trusted, clerk>>

CreateStudent(f) ==
    /\ Here(f, "create", "work")
    /\ \E s \in Students :
         /\ students[s] = "unborn"
         /\ \A r \in Students : r < s => students[r] # "unborn"
         /\ students' = [students EXCEPT ![s] = "live"]
         /\ flow' = [flow EXCEPT ![f] = IF @.dropped THEN Idle
                       ELSE [@ EXCEPT !.at = "ok", !.s = s, !.made = flow[f].made + 1]]
    /\ UNCHANGED <<owner, status, tab, refresh, trusted, clerk, count>>

\* attachDidToStudent reads the student and the did ...
ReadAttach(f) ==
    /\ Here(f, "attach", "work")
    /\ Answer(f, IF flow[f].s \in Live THEN "save" ELSE "failed")
    /\ UNCHANGED <<server, tab, refresh, trusted, clerk, count>>

\* Mutant of SaveAttach: a did that has a student keeps it.
SaveAttachFirst(f) ==
    /\ Here(f, "attach", "save")
    /\ IF flow[f].s \in Live
       THEN /\ owner' = [owner EXCEPT ![DidOf[flow[f].v]] = IF @ = None THEN flow[f].s ELSE @]
            /\ clerk' = [clerk EXCEPT !.clean = FALSE]
            /\ Answer(f, "ok")
       ELSE UNCHANGED <<owner, clerk>> /\ Answer(f, "failed")
    /\ UNCHANGED <<students, status, tab, refresh, trusted, count>>

\* ... and makes the student the did's owner, whoever owned it; the foreign
\* key rolls the transaction back when the student is gone.
SaveAttach(f) ==
    /\ Here(f, "attach", "save")
    /\ IF flow[f].s \in Live
       THEN /\ owner' = [owner EXCEPT ![DidOf[flow[f].v]] = flow[f].s]
            /\ clerk' = [clerk EXCEPT !.clean = FALSE]
            /\ Answer(f, "ok")
       ELSE UNCHANGED <<owner, clerk>> /\ Answer(f, "failed")
    /\ UNCHANGED <<students, status, tab, refresh, trusted, count>>

Issuing(f) == flow[f].kind \in {"existing", "new"}

\* updateStatus with "issued" reads the credential with its did and student,
\* and refuses without a student or when it is issued already ...
ReadVc(f) ==
    /\ Here(f, "decide", "work") /\ Issuing(f)
    /\ Answer(f, IF owner[DidOf[flow[f].v]] # None /\ status[flow[f].v] # "issued"
                 THEN "save" ELSE "failed")
    /\ UNCHANGED <<server, tab, refresh, trusted, clerk, count>>

\* A decision that lands makes the lists of the other tabs uncertain.
Decide(f, s) ==
    /\ status' = [status EXCEPT ![flow[f].v] = s]
    /\ tab' = [t \in Tabs |-> IF t = flow[f].t /\ ~flow[f].dropped THEN tab[t]
                              ELSE [tab[t] EXCEPT !.sure = FALSE]]
    /\ Answer(f, "ok")
    /\ UNCHANGED <<students, owner, refresh, trusted, clerk, count>>

\* ... and marks it issued at the end.
MarkIssued(f) == Here(f, "decide", "save") /\ Decide(f, "issued")

\* Any other status is stored as it is.
SetStatus(f) ==
    /\ Here(f, "decide", "work") /\ ~Issuing(f)
    /\ Decide(f, IF flow[f].kind = "reject" THEN "rejected" ELSE "pending")

ReadList(f) ==
    /\ Here(f, "list", "work")
    /\ flow' = [flow EXCEPT ![f] = IF @.dropped THEN Idle
                                   ELSE [@ EXCEPT !.at = "ok", !.seen = status]]
    /\ UNCHANGED <<server, tab, refresh, trusted, clerk, count>>

-----------------------------------------------------------------------------
(***************************************************************************)
(* The interceptor of failed answers.                                      *)
(***************************************************************************)
\* Mutant of LeaveFor: the tokens are removed, the page stays.
LeaveForStays(t) == [tab EXCEPT ![t].access = "none", ![t].sure = FALSE]

\* Both tokens are removed, the refresh token for all tabs, and the page is
\* left; its code runs on until the browser has unloaded it.
LeaveFor(t) == [tab EXCEPT ![t].access = "none", ![t].page = "leaving", ![t].sure = FALSE]

GiveUp(f) ==
    /\ flow' = [flow EXCEPT ![f].at = "failed", ![f].retried = TRUE]
    /\ tab' = LeaveFor(flow[f].t)
    /\ refresh' = "none"
    /\ UNCHANGED <<server, trusted, clerk, count>>

\* Mutant of AskRefresh: the session is refreshed whenever a call is refused.
AskRefreshAgain(f) ==
    /\ flow[f].at = "unauthorised"
    /\ IF refresh = "none" THEN GiveUp(f)
       ELSE /\ flow' = [flow EXCEPT ![f].at = "refresh", ![f].retried = TRUE,
                                    ![f].token = refresh]
            /\ UNCHANGED <<server, tab, refresh, trusted, clerk, count>>

\* Refused for the first time: the session is refreshed, if there is one.
AskRefresh(f) ==
    /\ flow[f].at = "unauthorised" /\ ~flow[f].retried
    /\ IF refresh = "none" THEN GiveUp(f)
       ELSE /\ flow' = [flow EXCEPT ![f].at = "refresh", ![f].retried = TRUE,
                                    ![f].token = refresh]
            /\ UNCHANGED <<server, tab, refresh, trusted, clerk, count>>

\* Keycloak answers with a token, and the call is sent again with it ...
Refreshed(f) ==
    /\ flow[f].at = "refresh" /\ flow[f].token = "live"
    /\ tab' = [tab EXCEPT ![flow[f].t].access = "live", ![flow[f].t].header = "live"]
    /\ flow' = [flow EXCEPT ![f].at = "wire"]
    /\ UNCHANGED <<server, refresh, trusted, clerk, count>>

\* ... or it refuses, or cannot be reached.
RefreshFails(f) ==
    /\ flow[f].at = "refresh"
    /\ IF flow[f].token = "dead" THEN GiveUp(f)
       ELSE /\ Fault
            /\ flow' = [flow EXCEPT ![f].at = "failed"]
            /\ tab' = LeaveFor(flow[f].t)
            /\ refresh' = "none"
            /\ UNCHANGED <<server, trusted, clerk>>

\* Refused again: the error goes to the caller.
Refused(f) ==
    /\ flow[f].at = "unauthorised" /\ flow[f].retried
    /\ flow' = [flow EXCEPT ![f].at = "failed"]
    /\ UNCHANGED <<server, tab, refresh, trusted, clerk, count>>

-----------------------------------------------------------------------------
(***************************************************************************)
(* The dialogs: what follows an answer.                                    *)
(***************************************************************************)
Came(f, step, at) ==
    Here(f, step, at) /\ UNCHANGED <<server, refresh, trusted, clerk, count>>

\* The answer is followed by another call.
Go(f, g, step) == Call(f, g, step) /\ tab' = Headers(g.t)

Unclean(f) == [flow[f] EXCEPT !.clean = FALSE]
Unsure(f)  == [tab EXCEPT ![flow[f].t].sure = FALSE]

\* The created student is the one attached; without one the dialog stops.
AfterCreate(f) == Came(f, "create", "ok") /\ Go(f, flow[f], "attach")

\* Mutant of NotCreated: a call that failed is sent again.
NotCreatedAgain(f) == Came(f, "create", "failed") /\ Go(f, flow[f], "create")

NotCreated(f) == Came(f, "create", "failed") /\ End(f) /\ UNCHANGED tab

\* An attach that failed is only logged: the decision is sent all the same.
AfterAttach(f) == Came(f, "attach", "ok") /\ Go(f, flow[f], "decide")
NotAttached(f) == Came(f, "attach", "failed") /\ Go(f, Unclean(f), "decide")

\* The success toast offers to undo; the toast of an undo does not.
AfterDecide(f) ==
    LET t == flow[f].t
    IN  /\ Came(f, "decide", "ok")
        /\ Fetch(f, [flow[f] EXCEPT !.told = TRUE])
        /\ tab' = [Headers(t) EXCEPT ![t].undo =
                     IF flow[f].kind = "undo" THEN @ ELSE @ \cup {flow[f].v}]

\* The list is fetched again, but not when an undo failed.
NotDecided(f) ==
    /\ Came(f, "decide", "failed")
    /\ IF flow[f].kind = "undo" THEN End(f) /\ tab' = Unsure(f)
       ELSE Fetch(f, Unclean(f)) /\ tab' = Headers(flow[f].t)

\* Mutant of Shows: whatever fetch is answered last is shown.
ShowsLatest(f) == flow[f].kind # "poll"

Shows(f) == flow[f].newest /\ flow[f].kind # "poll"

AfterList(f) ==
    /\ Came(f, "list", "ok")
    /\ End(f)
    /\ tab' = IF Shows(f) THEN [tab EXCEPT ![flow[f].t].shown = flow[f].seen] ELSE tab

\* Mutant of NotListed: the tries are not counted.
NotListedForever(f) ==
    /\ Came(f, "list", "failed")
    /\ IF flow[f].newest
       THEN Go(f, [flow[f] EXCEPT !.tries = @ + 1], "list")
       ELSE End(f) /\ tab' = IF Shows(f) THEN Unsure(f) ELSE tab

\* A query is tried again some times, unless a newer one replaced it.
NotListed(f) ==
    /\ Came(f, "list", "failed")
    /\ IF flow[f].newest /\ flow[f].tries < Retries
       THEN Go(f, [flow[f] EXCEPT !.tries = @ + 1], "list")
       ELSE End(f) /\ tab' = IF Shows(f) THEN Unsure(f) ELSE tab

-----------------------------------------------------------------------------
(***************************************************************************)
(* Pages and the session.                                                  *)
(***************************************************************************)
\* A tab enters the application and fetches its list.
Enter(t, header) ==
    tab' = [tab EXCEPT ![t] = [@ EXCEPT
              !.page = "app", !.access = "live", !.header = header, !.held = "none",
              !.shown = status, !.undo = {}, !.sure = \A f \in Flows : flow[f].t # t]]

Page(t, page) == tab[t].page = page /\ UNCHANGED <<server, trusted, clerk>>

\* AuthWrapper in a tab that has no access token yet: it asks for one if
\* another tab left a refresh token.
OpenTab(t) ==
    /\ Page(t, "closed")
    /\ tab' = [tab EXCEPT ![t].page = IF refresh = "none" THEN "signIn" ELSE "checking",
                          ![t].held = refresh]
    /\ UNCHANGED <<refresh, flow, count>>

Checked(t) ==
    /\ Page(t, "checking") /\ tab[t].held = "live"
    /\ Enter(t, "live")
    /\ UNCHANGED <<refresh, flow, count>>

NotChecked(t) ==
    /\ Page(t, "checking")
    /\ IF tab[t].held = "dead" THEN UNCHANGED count ELSE Fault
    /\ tab' = LeaveFor(t)
    /\ refresh' = "none"
    /\ UNCHANGED flow

\* Keycloak grants both tokens, which are stored 1.5 seconds later.
SignIn(t) ==
    /\ Page(t, "signIn")
    /\ tab' = [tab EXCEPT ![t].page = "granted", ![t].header = "live"]
    /\ UNCHANGED <<refresh, flow, count>>

Login(t) ==
    /\ Page(t, "granted")
    /\ Enter(t, tab[t].header)
    /\ refresh' = "live"
    /\ UNCHANGED <<flow, count>>

\* handleLogout: what the tab has under way goes on.
SignOut(t) ==
    /\ Page(t, "app")
    /\ Fault
    /\ tab' = [tab EXCEPT ![t].page = "signIn", ![t].access = "none"]
    /\ refresh' = "none"
    /\ UNCHANGED flow

\* AuthWrapper on another page of the application: no refresh token is left.
Navigate(t) ==
    /\ Page(t, "app") /\ refresh = "none"
    /\ tab' = [tab EXCEPT ![t].page = "signIn"]
    /\ UNCHANGED <<refresh, flow, count>>

\* The browser loads the sign-in page: the tab's code is gone, while the server
\* goes on with what it received.
Unload(t) ==
    /\ Page(t, "leaving")
    /\ tab' = [tab EXCEPT ![t].page = "signIn", ![t].header = tab[t].access,
                          ![t].undo = {}]
    /\ flow' = [f \in Flows |->
                  IF flow[f].t # t THEN flow[f]
                  ELSE IF flow[f].at \in {"wire", "work", "save"}
                  THEN [flow[f] EXCEPT !.dropped = TRUE] ELSE Idle]
    /\ UNCHANGED <<refresh, count>>

Aged(x) == IF x = "live" THEN "dead" ELSE x

\* Access tokens of a tab expire.
Expire(t) ==
    /\ tab[t].page # "closed"
    /\ Fault
    /\ tab' = [tab EXCEPT ![t].access = Aged(@), ![t].header = Aged(@)]
    /\ flow' = [f \in Flows |-> IF flow[f].t = t /\ flow[f].at = "wire"
                                THEN [flow[f] EXCEPT !.token = Aged(@)] ELSE flow[f]]
    /\ UNCHANGED <<server, refresh, trusted, clerk>>

\* Keycloak ends the session: refresh tokens are of no more use.
EndSession ==
    /\ refresh = "live"
    /\ Fault
    /\ refresh' = "dead"
    /\ tab' = [t \in Tabs |-> [tab[t] EXCEPT !.held = Aged(@)]]
    /\ flow' = [f \in Flows |-> IF flow[f].at = "refresh"
                                THEN [flow[f] EXCEPT !.token = Aged(@)] ELSE flow[f]]
    /\ UNCHANGED <<server, trusted, clerk>>

\* The realm signs with another key than the server was configured with.
Rekey ==
    /\ trusted
    /\ Fault
    /\ trusted' = FALSE
    /\ UNCHANGED <<server, tab, refresh, flow, clerk>>

-----------------------------------------------------------------------------
(***************************************************************************)
(* The REST interface: a did is removed from a student, a student deleted. *)
(***************************************************************************)
ByClerk == UNCHANGED <<status, tab, refresh, trusted>>

Begin(c) ==
    /\ clerk.at = "idle"
    /\ c.op \in Clerking
    /\ Asked
    /\ c.s \in Live
    /\ clerk' = [c EXCEPT !.before = owner, !.clean = TRUE]
    /\ flow' = [f \in Flows |-> [flow[f] EXCEPT !.clean = FALSE]]
    /\ ByClerk /\ UNCHANGED <<students, owner>>

\* removeDidFromStudent reads the student with its dids, ...
Detach(s, d) ==
    /\ owner[d] = s
    /\ Begin([NoClerk EXCEPT !.at = "save", !.op = "detach", !.s = s, !.d = d,
                             !.dids = DidsOf(s)])

\* Mutant of SaveDetached: the list is saved empty.
SaveDetachedAll ==
    /\ clerk.at = "save"
    /\ owner' = [d \in Dids |-> IF owner[d] = clerk.s THEN None ELSE owner[d]]
    /\ students' = [students EXCEPT ![clerk.s] = "live"]
    /\ clerk' = IF clerk.op = "delete" THEN [clerk EXCEPT !.at = "loop"] ELSE NoClerk
    /\ ByClerk /\ UNCHANGED <<flow, count>>

\* ... and saves it without the one: the others it read become the student's
\* again, and those it did not read are nobody's.
SaveDetached ==
    /\ clerk.at = "save"
    /\ owner' = [d \in Dids |-> IF d \in clerk.dids \ {clerk.d} THEN clerk.s
                                ELSE IF owner[d] = clerk.s THEN None ELSE owner[d]]
    /\ students' = [students EXCEPT ![clerk.s] = "live"]
    /\ clerk' = IF clerk.op = "delete" THEN [clerk EXCEPT !.at = "loop"] ELSE NoClerk
    /\ ByClerk /\ UNCHANGED <<flow, count>>

\* delete: every did is removed in turn, then the row.
Delete(s) ==
    Begin([NoClerk EXCEPT !.at = "loop", !.op = "delete", !.s = s, !.left = DidsOf(s)])

\* The next did of the list, by a removal that reads the student again.
DetachNext ==
    /\ clerk.at = "loop" /\ clerk.left # {}
    /\ LET d == CHOOSE x \in clerk.left : TRUE
       IN  clerk' = IF owner[d] = clerk.s
                    THEN [clerk EXCEPT !.at = "save", !.d = d, !.dids = DidsOf(clerk.s),
                                       !.left = @ \ {d}]
                    ELSE NoClerk
    /\ ByClerk /\ UNCHANGED <<students, owner, flow, count>>

\* The row of a student with a did attached meanwhile cannot be deleted.
Remove ==
    /\ clerk.at = "loop" /\ clerk.left = {}
    /\ students' = IF DidsOf(clerk.s) = {} THEN [students EXCEPT ![clerk.s] = "gone"]
                                            ELSE students
    /\ clerk' = NoClerk
    /\ ByClerk /\ UNCHANGED <<owner, flow, count>>

-----------------------------------------------------------------------------
\* A tab with its page and the access token it has.
Opened(page, access) ==
    [page |-> page, access |-> access, header |-> access, held |-> "none",
     shown |-> AllPending, undo |-> {}, sure |-> TRUE]

\* Some students, dids with and without one, and tabs in the application or
\* not opened yet.
Init ==
    /\ \E n \in 0 .. Cardinality(Students) :
         students = [s \in Students |->
                       IF Cardinality({r \in Students : r <= s}) <= n THEN "live" ELSE "unborn"]
    /\ owner \in [Dids -> Live \cup {None}]
    /\ status = AllPending
    /\ tab \in [Tabs -> {Opened("app", "live"), Opened("closed", "none")}]
    /\ refresh = "live"
    /\ trusted = TRUE
    /\ flow = [f \in Flows |-> Idle]
    /\ clerk = NoClerk
    /\ count = [asked |-> 0, faults |-> 0]

People ==
    \/ \E f \in Slots, t \in Tabs, v \in Vcs, s \in Students \cup {None} : Approve(f, t, v, s)
    \/ \E f \in Slots, t \in Tabs, v \in Vcs : Reject(f, t, v) \/ Undo(f, t, v)
    \/ \E f \in Slots, t \in Tabs : Look(f, t)
    \/ \E t \in Tabs : OpenTab(t) \/ SignIn(t) \/ SignOut(t) \/ Navigate(t)
    \/ \E s \in Students, d \in Dids : Detach(s, d)
    \/ \E s \in Students : Delete(s)

\* What the server and the browser do with a flow.
Serve(f) ==
    \/ Arrive(f) \/ CreateStudent(f) \/ ReadAttach(f) \/ SaveAttach(f)
    \/ ReadVc(f) \/ MarkIssued(f) \/ SetStatus(f) \/ ReadList(f)

React(f) ==
    \/ AskRefresh(f) \/ Refreshed(f) \/ RefreshFails(f) \/ Refused(f)
    \/ AfterCreate(f) \/ NotCreated(f) \/ AfterAttach(f) \/ NotAttached(f)
    \/ AfterDecide(f) \/ NotDecided(f) \/ AfterList(f) \/ NotListed(f)

Turn(t) == Checked(t) \/ NotChecked(t) \/ Login(t) \/ Unload(t)

Files == SaveDetached \/ DetachNext \/ Remove

Faults == Rekey \/ EndSession \/ (\E t \in Tabs : Expire(t)) \/ (\E f \in Flows : Lose(f))

Next ==
    \/ People \/ Files \/ Faults
    \/ \E f \in Flows : Serve(f) \/ React(f)
    \/ \E t \in Tabs : Turn(t) \/ Poll(t)

Spec == Init /\ [][Next]_vars

\* Calls that got through are answered, a browser goes on when an answer is
\* there, and its timers run.
FairSpec ==
    /\ Spec
    /\ \A f \in Flows : WF_vars(Serve(f) \/ React(f))
    /\ \A t \in Tabs : WF_vars(Turn(t)) /\ WF_vars(Poll(t))

-----------------------------------------------------------------------------
TypeOK ==
    /\ students \in [Students -> Lives]
    /\ owner \in [Dids -> Students \cup {None}]
    /\ status \in [Vcs -> Statuses]
    /\ tab \in [Tabs -> Tab]
    /\ refresh \in Tokens
    /\ trusted \in BOOLEAN
    /\ flow \in [Flows -> Flow]
    /\ clerk \in Clerk
    /\ count \in [asked : Nat, faults : Nat]

\* A submitted dialog creates one student at most, though its calls are sent
\* again after a refresh of the session, and answers are lost.
CreatedOnce == \A f \in Flows : flow[f].made <= 1

\* Who is told that a credential was approved finds its did with the student
\* chosen or created, whoever had it before and however often the session had
\* to be refreshed, unless another dialog or the clerk worked on the same did
\* or a call failed.
ChosenOwns ==
    \A f \in Slots :
        flow[f].told /\ flow[f].clean /\ Issuing(f) =>
            /\ owner[DidOf[flow[f].v]] = flow[f].s
            /\ status[flow[f].v] = "issued"

\* A tab at rest shows the decisions as they are stored, in whatever order the
\* fetches of its dialogs were answered, whether approved, rejected, undone,
\* refused or lost on the way.
ShownIsStored ==
    \A t \in Tabs :
        /\ tab[t].page = "app" /\ tab[t].sure
        /\ \A f \in Slots : flow[f].t # t
        => tab[t].shown = status

\* Removing a did from a student, and deleting one, leaves every other
\* student's dids alone and ends with what was asked, unless a did was
\* attached in between.
OnlyWhatWasAsked ==
    [][clerk.at # "idle" /\ clerk'.at = "idle" /\ clerk.clean =>
         /\ \A d \in Dids : clerk.before[d] # clerk.s => owner'[d] = clerk.before[d]
         /\ clerk.op = "detach" =>
              owner' = [clerk.before EXCEPT ![clerk.d] = None]
         /\ clerk.op = "delete" => students'[clerk.s] = "gone"]_vars

\* Every submitted dialog comes to its end, also when the server refuses every
\* token it is given.
Settles == \A f \in Slots : ~Free(f) ~> Free(f)

\* An open tab whose session was ended in another tab does not stay open for
\* longer than its access token lasts.
EndedElsewhere ==
    \A t \in Polling :
        tab[t].page = "app" /\ refresh = "none" /\ tab[t].access # "live"
            ~> tab[t].page # "app" \/ refresh # "none" \/ tab[t].access = "live"
=============================================================================
