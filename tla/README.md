# Formal model of Kredential Manager

TLA+ specifications of Kredential Manager, its issuance backend, the wallets that talk to
it and the console of its administrators, model-checked with TLC and proved about with
TLAPS. Paths below are relative to the repository; `backend` stands for
`apps/backend/src`.

## 1. The system

Kredential Manager is a NestJS backend over PostgreSQL (TypeORM), a React front end
for administrators, and libraries for OpenID4VCI messages and EBSI. Wallets talk to
the backend by HTTP; administrators through the front end or with an API key. One
Node process serves all requests: code between two `await`s runs alone, and every
`await` of a database call lets other handlers run. No handler opens a transaction
around its reads and writes (one method of `student.service.ts` excepted) and no row
has a version column, so what protects the tables is the constraints of the
migrations: unique columns and foreign keys.

### Inventory

| Component | State | Operations | What makes it correct |
|---|---|---|---|
| Issuance protocol, `backend/auth` | none of its own | `authorize`, `direct_post`, `token`, `credential`, `credential_deferred` | one credential per offer, about the holder it was offered to, revocable, and a holder who is told the outcome |
| Sessions, `backend/state` | `state`: client, scope, offer, step, status, code, c_nonce, pre-authorised code | create, four read-then-save updates, lookups by one field, delete | a late save must not bring a deleted session back to use |
| Credential records, `backend/vc` | `verifiable_credential`: status, holder, offer (unique), credential | create, update, issue, conformance issue | never issued without a status list entry; a deleted one stays deleted |
| Offers, `backend/credential-offer` | `credential_offers`: grant, pin, status, expiry, issuer state | create, get (marks USED), verify pin, delete with cascade | expired or deleted offers are not redeemed |
| Revocation registry, `backend/credential-status` | lists (a bit per index) and entries | add to a list, revoke, verify, publish | the bits set are those of revoked credentials, and stay set |
| Presentation verification, `backend/vp` | none | verify a VP, check revocation | a revoked credential is rejected |
| Students and DIDs, `backend/student` | `student`, `did` (identifier unique) | create, attach, detach, delete | a did has one owner |
| Nonces, `backend/nonce` | nonce, step, status | create, advance, delete | unused: no handler is given the service |
| Schema templates, `backend/schemas` | templates, versions | create, update, remove, generate | every variable of a template is filled in |
| Scope mappings, presentation definitions | scope to schema, scope to definition (unique) | CRUD | one schema per scope |
| Provider cache, `backend/openId` | metadata built from the templates | first use, refresh after a template is created or removed | it announces what the rows of the templates say, those aside that changed without a refresh |
| Interop claims, `backend/interop` | `credential_claim` | test credentials, single offers, verify | whoever asks is given every test credential, however the catalogue looked before |
| Verifier, `backend/request-uri`, `backend/verification` | request URIs, verifications | create, present, result | one result per request |
| API keys, `backend/api-key` | `api_key` | create, list, delete, guard of the offer endpoint | a deleted key opens nothing |
| Signing, `backend/issuer` | keys | sign, verify, hash code challenges | a verifier opens the one challenge made from it |
| Messages, `apps/kredential-core` | what a composer was told | compose and decode the messages of both sides | an answer reaches the attempt it is for, and a wallet that sets what is asked for is served |
| Front end: session and dialogs, `apps/frontend` | access and refresh token, the lists as last fetched | sign in and out, refresh on 401, dialogs of several calls | a dialog takes effect once, about the right student; tables show what is stored |
| Front end: lists and tables | page, size, order, filter, text; the query cache; columns and their pins | go to a page, resize, sort, filter, search, open a row, pin and move columns | the rows on screen are those asked for; paging misses none; a column moves where its menu says |
| SDK, RPC, CDK, Keycloak, plumbing | | | no state of the system |

Interaction: `auth` calls `state`, `vc`, `student`, `credential-offer` and the mapping
services; `vc.issueVerifiableCredential` calls `schemas`, `issuer` and
`credential-status`; administrators call `vc`, `credential-offer`, `student` and
`credential-status` at any moment, also while a wallet's request is in flight. All of
it meets in the tables: there are no queues, locks or events. The conformance and
interop suites of EBSI have branches of their own inside the production handlers.

What is hard: handlers that interleave between the read and the save of a row; saves of
whole rows that another handler has changed or deleted; repeated requests with codes
and nonces that nothing marks as used; the administrator's decision while a request is
in flight; a handler that dies between two writes; check-then-act on lists and dids; a
provider built from tables that change; offers whose two ends of life come from two
clock readings; dialogs of the console that make several calls, each of which may be
refused, lost or sent again; tabs that share one refresh token; controls that take effect
at different times while answers of earlier queries come in; redirects that only a state
tells apart.
`PROJECT.json` lists these hazards at their lines.

## 2. Modules

| Module | Models |
|---|---|
| `Issuance` | the tables `credential_offers`, `state`, `verifiable_credential`, `did`, the number of status list entries per credential, and every handler that reads or writes them |
| `MCIssuance` | instances of it for TLC |
| `IssuanceProofs` | its inductive invariant and theorems |
| `RedemptionProofs` | a second inductive invariant of it, over offer, session and record, and four more theorems |
| `CredentialStatus` | status lists and entries, the issuing handler's path through them, the revoke endpoint |
| `Registry` | what the registry promises: issued once, revoked one at a time, for good |
| `MCCredentialStatus`, `CredentialStatusProofs` | instances and theorems of `CredentialStatus` |
| `Catalogue` | schema templates, presentation definitions, scope mappings, the provider in memory, and the interoperability desk that fills them |
| `MCCatalogue`, `CatalogueProofs` | instances and theorems of `Catalogue` |
| `Offers` | how an offer is made, handed out, marked used, expires and is deleted; API keys; claims; the console's tables of offers and keys |
| `MCOffers`, `OffersProofs` | instances and theorems of `Offers` |
| `Console` | browser tabs, their session and dialogs, and the students, dids and decisions behind them |
| `Tables` | the console's lists: controls, queries, their cache, and the server's paging, order and filter |
| `Columns` | the columns of a table: order, pins, the menu of a header |
| `Exchange` | wallets made with kredential-core's composers and the endpoints they talk to, message by message |
| `ConsoleProofs`, `TablesProofs`, `ExchangeProofs` | theorems of `Console`, of `Tables` and `Columns`, of `Exchange` |
| `MCConsole`, `MCClients` | instances of `Console`, and of it with the three others |

The modules overlap where the components meet, and each looks at the overlap for its own
question. `Issuance` and `CredentialStatus` meet in `issueVerifiableCredential`: the first
counts the entry that `AddEntry` creates and follows the record; the second follows lists,
indices and bits and reduces the record to "open or issued". `Issuance` starts with offers
that are there and takes codes as never expiring; `Offers` makes them call by call under a
clock, and reduces what becomes of them to "a session row refers to it". `Catalogue`
decides what can be asked for; `Issuance` takes a kind of credential as given. `Console`
decides about credentials as an administrator does, call by call; in `Issuance` a decision
is a handler of the server. `Exchange` has the endpoints of `Issuance` again, with the checks
that `Issuance` takes as passed, and each in one step but for the credential endpoint, in
which two attempts can collide: there the question is what other handlers do in the middle,
here what the messages around a handler carry.

### Issuance

An action is the code from one database call to the next. A handler in flight is a
*slot*: `pc` names the `await` it stands at, `s` and `v` the session and credential it
works on, `row` the session row it read and will save, `n` the random string it made.

- Rows are `unborn`, `live` or `gone`, since serial ids and uuids are not reused.
  `DeleteOffer` applies the cascades of the migration; `OfferHolds` and `Insertable` are
  its foreign key and its unique `offerId`.
- `Saved` is `repository.save` of a row that was loaded without its relations: every
  column is written back, a deleted row is inserted again, and it has lost its offer.
  `Marked` is `repository.update`: a missing row is ignored.
- `AuthorizeOffer`, `AuthorizeOpenid`, `AuthorizeScope` are the three ways through
  `authorize`; a presentation scope first inserts an offer of its own.
- `DirectPost` (ID token and VP token alike) and the two token grants look the session
  up by one field, `Mint` a random string, and read and save the row. The conformance
  suite's code is the `Mock...` actions: delete, check, insert, look up.
- `Credential` starts the longest handler: did, student, credential record, then
  `Branch`: issue at once, defer, conformance or interop.
- `Poll...` is `credential_deferred`. `Approve`, `Reject`, `Reopen` are
  `PATCH :id/status`; an approval is a handler like the holder's own.
- `Reply` hands the response to the wallet; what wallets know is `wallet`, and a wallet
  presents only what it received. `Fail` ends a handler at any `await`.

Requests that fail before they write (unknown code, wrong pin, bad signature) change
nothing and are left out. Signatures, code challenges and pins are taken as right;
random strings are numbers that do not repeat within a session.

### CredentialStatus

`Issue`, `Sign`, `GetList`/`NoListToGet`/`CreateList`, `AddRead`/`TooFull`, `AddSave`,
`Store` are the awaits of `issueVerifiableCredential`; `signed` records the
`credentialStatus` that the object carried when it was signed. `Revoke`, `RevokeRead`,
`ListSave`, `EntrySave` are the revoke endpoint; `RevokeAgain` its early answer. Indices
are drawn from a small set in place of 0 to `LIST_SIZE - 2`. `Capacity` stands for
`LIST_SIZE * 0.8`.

### Catalogue

A row of a template keeps what the mappings read of it: its name, its list of types,
whether its schema has `{{...}}` placeholders (`holes`) and whether `templateVariables`
was filled in when it was created (`variables`); and what the provider announces of it:
the types and, in one value, display, format, trust framework and criteria (`display`).
The provider keeps copies of these (`Metadata`, `Announced`), not references.
Administrators create, update and remove templates, create, update and remove presentation
definitions, map and unmap scopes; each is a request in a slot, with the reads that decide
and the save or delete as steps of their own, so a row may be changed or gone in between.
`update` saves the whole row that was read and `templateVariables` stay as they were.
After a creation and a deletion the controller refreshes the provider: `ReadTemplates`,
`ReadDefinitions`, `SetProvider`. After an update it does not, and neither does the
interoperability desk after it made a template. A `Restart` loses the provider and every
request; `Fail` ends one request.

`createTestCredentials` and `createCredentialOffer` are the longest requests: find each
default template by name among the first `Window` (100) rows, create those that seem
missing, then per scope find or make the definition and the mapping, then offer and claim.
`calm` tells that no two requests overlapped since the start, `unseen` which templates
changed since the provider was built without a refresh that got through: updated ones, those
of the desk, and those whose refresh failed. The next refresh that gets through empties it.
`ListedWhenCalm` is about all templates that are not in `unseen`: what is announced of them
is what their rows say, and of a deleted one nothing.

### Offers

A slot is a request of a desk clerk, an API client, the interoperability desk or a wallet.
`createOffer` computes the expiry of the offer and of its issuer state or code (`Compute`)
and stores the data, the offer and, for a code, the row of the session table in three
calls; an interop request repeats this for each grant of `Batch` and saves a claim, and a
presentation scope makes an offer of its own inside `authorize`. `Fetch`, `HandOut` hand
an offer out and start the update to USED that nobody awaits (`marks`); `MarkUsed` or
`MarkFails` is its end. `Authorize` takes an offer up with three calls between which it
may be deleted. `Delete` follows the foreign keys of the migrations: rows of the session
table cascade, a claim blocks the deletion. `Tick` is the clock. `Open` is the first load
of one of the desk's two tables. Each creation and deletion fetches again (`Refetch`):
once the table has data, the new fetch replaces one under way; before that, the query
library lets the caller share the fetch that is under way, which may have read the table
before. `shared` keeps what was made meanwhile. A refetch after a failed first load is a
first load again. `MarkFails` rejects a promise that nobody handles: the process ends and
starts again at once, and what it worked on is lost. `ghost` records what was told to whom
and is read by no guard.

Pins are left out (codes do not repeat since ES256 signatures are randomised; `verifyPin`
changes nothing), a refused call commits nothing, and refusals without effect are no
action. Ids suffice for what requests in flight may still insert.

### Console

A flow is one submitted dialog with one call out at a time: create a student (`new`), attach
the did, decide, fetch the list again. A call is on its `wire`, at `work` in the server,
answered, failed or refused as unauthorised; then the interceptor may refresh the session
and send it again. `tab` keeps the router's page, the access token of `sessionStorage`, the
client's default header, the list as last fetched and the pending undos; `refresh` is the
one `localStorage` entry all tabs share. The interceptor reads the header as the call before
left it. `clerk` is somebody who detaches a did or deletes a student through the REST
interface, read and save as two steps. What may go wrong is counted by `MaxFaults`: a call
lost before it arrives, an answer lost after, an expired access token, an ended session.

Fetching at page load is one step; wallets, offers and status list entries are `Issuance`'s;
between `ReadVc` and `MarkIssued` the handler is taken as one. `sure` and `clean` are
history: no call of the tab failed and nobody else touched the same rows. Properties about
what a dialog promises use them, since nothing promises more when another administrator
decides the same at the same time.

### Tables

`screen` is the component state of the list that is open, `late` what of it is debounced, by
two timers that fire one without the other (page, size and order; the text) in `Debounced`,
`kept` the page and size that `PaginationProvider` holds for two of the lists across visits.
`Key` is the query they make: the overall and pending lists take page, size and filter as
they are on screen and the order half a second late, the others take all but the ticked
statuses late. `cache` and `flight` are the query client's data and fetches by key;
`Follow` is what every control ends in, a fetch of the new key, and the total that the
footer works with stays that of the last key with data. `Read` is the server: filter, order,
skip and take; `AnswerIn` caches an answer under its own key, whatever is on screen by then;
`Fail` stands for all tries of a fetch. `ComesIn`, `Decided` are wallets and other
administrators. `walk` is history: the rows seen by who goes through the pages one by one.
Without an order the rows of a joined query come by id; schema templates, fetched without a
join, in any order at each fetch.

### Columns

`order` is the component's `columnOrder`, `pins` its `columnPinning`; `Shown` is what is
on screen. `Pin`, `Unpin`, `MoveFree`, `MovePinned` are the entries of a header's menu, with
the conditions under which they are visible; `Reinserted` is the pair of `splice` calls,
the negative index included.

### Exchange

A plan is what a wallet sets before it starts: which composer (a holder's, a service's, a
request URI, a pre-authorised code), whether did, state, redirect and types are set, the
scope and the challenge method. `wire` holds messages; one may be taken in any order,
twice (`MaxAgain`), late (`Late`, for those with an expiry that is checked) or never.
`row` is a session: whose it is, the state it will tell, the challenge, and counters for
the newest code and nonce, so that "the row is found by the code" is "the code is the
row's newest". `Authorize`, `PostId`, `PostVp`, `Token`, `PreToken`, `Deferred` are the
endpoints whole. The credential endpoint is four steps, and a request between them is on
the `wire` with its worker: `Credential` up to the look for the did, `AddDid` its
insertion (identifiers are unique), `Store` the record's (one per offer), `Issue` the
answer in time, which refuses a record that has been issued already. `maker` is whose
request made the did row of a holder, `found` whose request found one. `Answer...` and
`Take...` the wallet, which knows an attempt only by what a message carries (`Meant`): a
redirect with its state is for the attempt that gave it, one without for any attempt that
gave none. Where kredential-core only composes a message, when a wallet sends it is the
wallet's own doing and modelled as soon as it can.

## 3. Runs

All specifications run out of ids, so TLC's deadlock check is off: a state where all ids
are used and all handlers have answered is an end of the bounded instance, not of the
program.

| Run | Instance | Distinct states | Shows |
|---|---|---|---|
| `IssuanceOffers` | 1 holder, 1 offer, 2 sessions, 2 credentials, 2 slots, 1 death, all administrator operations | 1,256,201 | `TypeOK`, `IssuedHasStatusEntry`, `DeliveredHasStatusEntry`, `IssuedBackedByOffer`, `OneCredentialPerOffer`, `ClaimedWasIssued`, `DeletedStaysDeleted` |
| `IssuanceScopes` | 2 holders, 2 offers, 2 sessions, 2 credentials, 2 slots, scope flows, conformance and interop kinds | 892,631 | `IssuedHasStatusEntry`, `SubjectIsOfferee` |
| `IssuanceServed` | 1 holder, 1 session, 2 credentials, fair | 58,556 | `HolderIsServed` |
| `IssuanceNoOffer` | `openid` without an issuer state, fair | | violation of `HolderIsServed` |
| `StatusOverlap` | 2 credentials, 2 lists, 3 entries, 2 slots, 1 death, re-issue | 437,746 | `TypeOK`, `NobodyElseRevoked`, `ListHasRoom` |
| `StatusAlone` | the same with 1 slot, fair | 77,456 | `MarkedIsListed`, `AnsweredIsListed`, `RegistrySpec`, `RevocationLasts` |
| `StatusLost` | 2 credentials in 1 list, 2 slots | | violation of `AnsweredIsListed` |
| `StatusSigned` | 1 credential, 1 slot | | violation of `AnsweredIsRejected` |
| `CatalogueDesk` | 3 templates, 2 definitions, 2 mappings, 2 slots, a window of 2, 1 crash, 3 events | 2,229,026 | `TypeOK`, `ScopeMapsToOne`, `ListedWhenCalm`, `TestsComplete` |
| `OffersDesk` | 2 offers (1 handed out before), 1 key, 2 slots, all four makers, a lifetime of 1 second, 2 seconds, 1 fault, 3 events, fair | 1,195,828 | `TypeOK`, `FetchedIsAccepted`, `AnsweredIsRedeemable`, `UsedWasHanded`, `DeskSeesOwn`, `DeletedStaysGone`, `MarkedUsed` |
| `Clients` | dialogs: 2 students, 1 request, 2 dids, 1 tab, 2 dialogs at once, 1 retry, 2 faults, 3 events; lists: 3 rows, 2 page sizes, 3 clicks, 1 change, 1 lost answer; 5 columns; 2 attempts, 3 sessions, 2 credentials, 1 message again, 2 requests for a credential at once, 11 pairs of plans | 2,629,408 | `TypeOK`, `CreatedOnce`, `ChosenOwns`, `ShownIsStored`, `OnlyWhatWasAsked`, `RestShowsAsked`, `WalkSeesAll`, `MovesItsWay`, `HoldsItsOwn`, `InOrderIsServed` |
| `ConsoleSession` | 2 tabs, 1 polling, 1 dialog, 1 student, the clerk, 2 faults, 2 events, fair | 105,158 | `Settles`, `EndedElsewhere` |

**Why the bounds are enough.** The hazards are between two handlers, or a handler and
an administrator: two slots and one administrator meet all of them. Two sessions of one
offer give repeated redemption in one session and in two; two credential ids give a
second insert for one offer; two entries per credential (`MaxEntries`) an approval after
a reopening. `MaxMinted` limits the random strings of a session, and so how often a
session may be taken back to an earlier step: twice is once more than the protocol asks
for. A fault anywhere leaves every intermediate state behind once. In `StatusOverlap` a
capacity of 1 makes every handler meet the threshold, and 3 indices let two handlers
draw the same one or run into `TooFull`. Handlers start only when an id is left for the
rows they insert (`SpareOffer`, `SpareSession`, `SpareVc`, `SpareEntry`, `SpareList`),
so that no handler in flight is stopped by a bound.

In `CatalogueDesk` two templates fill the window, so a third is one that
`findTemplateByName` overlooks, and three events are a removal or an update between two
requests for test credentials. In `OffersDesk` a lifetime of 1 and a clock up to 2 put
every reading before, at and after the end; a batch of two grants has a middle, and two
offers two requests that may take up each other's. `ConsoleSession`'s two tabs, one of
them polling, are two parties for the one refresh token, and two events are a dialog, with
or without a new student, and what the other tab does meanwhile.

`Clients` checks `Console`, `Tables`, `Columns` and `Exchange` in one run: they share no
variable, and a behaviour is one part's with the others at rest, so the states are the sum
of the parts' and not their product. The three events of the dialogs are a dialog, a fault
in it and a second dialog or the clerk's doing. Three rows, two of them of one age, in pages
of one or two have a middle page and a last one that is not full; three clicks are a
control, another before its answer and a third after, and a visit to a second list and
back. The lists start empty or full, with one change anywhere. The orders and pins of five
columns are all that can be reached, without a bound. The pairs of plans put each way to be
refused next to a way that is not, with the same did for both, since only then could a
message be taken for the wrong attempt or two requests want the same did row, and one pair
shares an offer as well; what the plans leave out are pairs in which the
attempts never use the same endpoint. One message twice is a repeated redirect, code, nonce
or answer.

Symmetry is used in runs without liveness properties only; the conformance suite's
holder is left out of it.

**Fairness.** `WF(Step(r))`: Node resumes a handler whose database call has returned, and
the model's calls return. `IssuanceServed` adds the people of the user flow in the
repository's README: an administrator who decides about a pending record, and a wallet
that uses a nonce and a token again while it may. These are strong because the model has
two slots where the server takes any number of requests: a request may find both taken
again and again. The property demands an answer only of a holder who is *again and again*
able to use a nonce: a stale `direct_post` or token save can invalidate the nonce that a
wallet holds, and then the wallet has to ask for another. Without deaths: a handler that
dies after it inserted the record makes every retry fail on the unique offer.
`Offers`: `WF(MarkUsed(o))`, the database carries out the update it was sent.
`Console`: the server answers, browsers handle answers and timers fire; nobody has to
press a button.

## 4. Disagreements between the code and its words

- **`IssuanceNoOffer`**: the README says an administrator approves or denies a request
  and the holder gets the credential or is told. A record requested with scope `openid`
  and no issuer state has no offer; approving it throws at `vc.service.ts:243-244`, and
  the wallet is told "pending" for good.
- **`StatusLost`**: two overlapping revocations in one list; the later save of the list
  undoes the earlier. Both callers are told "Credential revoked successfully".
- **`StatusSigned`**: the status list information is added to the credential after it was
  signed, so the credential the holder presents carries none and verification accepts
  it after its revocation.

Seen while modelling, and without a run, since nothing in the repository says otherwise:

- Undo of an approval sets the record back to pending and leaves what the holder collected
  and its status list entry as they are (`ApproveCredentialDialog.tsx:152`).
- A PUT of a template, unlike POST and DELETE, does not refresh the provider
  (`schema-template.controller.ts:63-76`): the old types and display are announced until the
  next creation or deletion gets through, or a restart. Its body is a `Partial` of the dto
  and not validated; of the columns it could set, the model takes those of the dto.
- A row created while a table of the desk is loading for the first time may be missing from
  the table at rest, until the next change.
- Three things that others do make a faultless request for a credential fail
  (`InOrderIsServed` names them): two attempts of a new holder both find no did and the
  unique `identifier` refuses the second (`auth.service.ts:125-130`); the unique `offerId`
  refuses the second attempt at one offer (`:766`); an approval by hand between the record's
  insertion and its issue (`:857`).
- An updated template keeps the `templateVariables` of its old schema, so a mapping is
  checked against placeholders that may be gone or may be new.
- The interop handler changes a claim's status in memory and never saves it
  (`auth.service.ts:1041`).
- A pre-authorised code is redeemed after its own expiry: only its pin and row are checked.
- `NonceService` and `revokeApiKey` are called by nobody; no code sets a key's
  `expires_at`, and its `allowedCredentialTypes` are stored and never read.
- The badge of pending requests is set and never reset (`NotificationsProvider.tsx:46`).
- A failed deletion at the desk of offers or keys is not caught and the table is not
  fetched again.
- Lists. A new page size resets the page of the hook, and not the one kept by
  `PaginationProvider`: the footer may then say page 5 of 1 over an empty table. A changed
  filter or text leaves the page where it is: `useServerSideTableData` would reset it, but
  the lists put their filter into the query hook and not into `filterApiParams`. A click on
  a row stores the hook's page, which is 1 after a second visit. Schema templates have no
  order, so paging may skip or repeat them (`WalkSeesAll` leaves them out). The pattern of
  filters refuses texts with a space or an accent.
- Columns. In a table without a permanent pin, "Move left" on the first right pin next to a
  left one calls `splice` with -1, which puts the column before the last of its side, and
  "Move right" on the last left pin does nothing (`MovesItsWay` asks for a permanent pin).
  No table has a `name`, so `useTableStorage` never stores anything.
- Exchange. An attempt of `AuthRequestComposer.service` gives no challenge and can never get
  a token; a request with a `request_uri` only is refused, though the metadata announces
  `request_uri_parameter_supported`. Without a redirect URI an ID token is answered with a
  code that is told to nobody. A presentation test that asks for no `vp_token` is refused
  after its row was stored. The method of a challenge is looked at for scope `openid` only.
  Access token and nonce have lifetimes that are never checked. Attempts of a test scope end
  at the credential request, for which they have no mapping.

## 5. Proofs

For every value of the constants that satisfies the module's assumption
(`ConstantsAssumption`, `StatusAssumption`, `CatalogueAssumption`, `OffersAssumption`,
`ConsoleAssumption`, `TablesAssumption`, `ColumnsAssumption`, `ExchangeAssumption`:
well-typed forms and bounds, ids that are numbers where a sequence hands them out, finite
ids for the registry, finitely many rows in a list, no column twice in a table, a value for
"none" that is no id):

| Module | Theorem | States |
|---|---|---|
| `IssuanceProofs` | `TypeCorrect` | `[]TypeOK` |
| | `IssuedIsRevocable` | `[]IssuedHasStatusEntry` |
| | `DeliveredIsRevocable` | `[]DeliveredHasStatusEntry` |
| | `DeletedForGood` | `DeletedStaysDeleted` |
| `RedemptionProofs` | `OneForAnOffer` | `[]OneCredentialPerOffer` |
| | `SubjectWasOffered` | `[]SubjectIsOfferee` |
| | `IssuedHasOffer` | `[]IssuedBackedByOffer` |
| | `ClaimedWasServed` | `[]ClaimedWasIssued` |
| `CredentialStatusProofs` | `TypeCorrect` | `[]TypeOK` |
| | `RevokedWasAsked` | `[]NobodyElseRevoked` |
| | `ListKeepsRoom` | `[]ListHasRoom` |
| | `MarkedWhileApart` | `[]OneCopy => []MarkedIsListed` |
| | `RevokedWhileApart` | `[]OneCopy => []AnsweredIsListed` |
| | `RegistryWhileAlone` | `[]Alone => RegistrySpec`, without re-issue |
| `CatalogueProofs` | `CatalogueTyped` | `[]TypeOK` |
| | `MappedScopesStayOneToOne` | `[]ScopeMapsToOne` |
| | `ListedInCalm` | `[]ListedWhenCalm` |
| | `TestsCompleteInCalm` | `[]TestsComplete` |
| `OffersProofs` | `TypesHold` | `[]TypeOK` |
| | `FetchedAccepted` | `[]FetchedIsAccepted` |
| | `AnsweredRedeemable` | `[]AnsweredIsRedeemable` |
| | `UsedHanded` | `[]UsedWasHanded` |
| | `StaysGone` | `DeletedStaysGone` |
| | `DeskSees` | `[]DeskSeesOwn` |
| `ConsoleProofs` | `ConsoleTyped` | `[]TypeOK` |
| | `StudentOnce` | `[]CreatedOnce` |
| | `ChosenStays` | `[]ChosenOwns` |
| | `ShownAtRest` | `[]ShownIsStored` |
| | `AskedOnly` | `OnlyWhatWasAsked` |
| `TablesProofs` | `ListsShowAsked` | `[]RestShowsAsked` |
| | `WalksSeeAll` | `[]WalkSeesAll` |
| | `MovesAsShown` | `[]MovesItsWay` |
| `ExchangeProofs` | `WalletsHoldTheirOwn` | `[]HoldsItsOwn` |
| | `InOrderServed` | `[]InOrderIsServed` |

**The argument for Issuance.** `IssuedHasStatusEntry` is not inductive: a handler at
`markIssued` would break it unless it had added the entry. `IInv` adds what every
suspended handler relies on when it resumes (`SlotOK`): at which `pc` it has a session, a
kind that is mapped, a credential that was inserted, or one that is *backed*, that is,
inserted and, if it comes from a template, with an entry. `IssuedOK` and `DeliveredOK`
say the same of records and wallets. Two facts carry the proof. Records last
(`RecordsLast`): no step unmakes an inserted record, changes its kind or takes an entry
away, so what a handler relies on survives the steps of all others (`OthersLast`).
And only four steps set the status to issued (`Marks`), each at a `pc` where the record
is backed. Each invariant part then has one case per action.

**The argument for redemption.** `RInv` adds to `IInv` what ties offer, session and record
together. A reference to an offer, in a row or in what a handler holds of one, is to an
offer made for that row's client (`MadeFor`). A session keeps its client and its offer, save
that deleting the offer, followed by a late save, takes the offer away; so a handler's copy
of a session names the offer its row names, or the row names none (`TaskOK`). A record
shares its offer's fate: it is deleted when and only when the offer is (`VcsOK`), and the
unique `offerId` leaves one record per offer (`OnePerOffer`). A session becomes CLAIMED only
in `ClaimSave`, whose handler holds a backed record for the session's offer, if the
session still has one (`SessionsOK`).

**The argument for CredentialStatus.** A bit that is set, or that a suspended handler is
about to write back from an old copy of its list, belongs to an entry in that list whose
credential's revocation was begun. Entries are only added, never moved, and requests are
never forgotten, so the claim about an old copy stays true however old it gets: lost
updates lose bits, they never invent them.

`ListHasRoom` counts (`Room`): the entries of a list and the handlers that have looked at
it and will still add one are together fewer than its capacity and all handlers there can
be, since whoever looked found fewer entries than the capacity. Which bits are *kept*
depends on overlap. `OneCopy` says that no two handlers hold a copy of one list at the
same time; as long as it holds, a copy has all the bits its list has (`CopyOK`), so
writing it back loses none, whatever else overlaps or dies. `Alone` says that handlers do
not overlap at all; then also two entries never share a reference (`UniqueOK`), a bit is
one credential's, and the reference that is stored with a credential is the one its own
entry has (`StoredOK`), so that the tables change as `Registry` allows. These hypotheses
are about the load, not about the code: the server does nothing to bring them about. The
run `StatusLost` shows what happens without the first; `StatusAlone`, where both hold,
checks the same properties.

**The argument for Catalogue.** `ScopeMapsToOne` is about three tables at once: a mapping
refers to a template and a definition that are there, and the template has no variables.
The unique columns and the cascades keep the references; what keeps the third part is that
a template's `variables` never change once its row has an id, whatever stale row a request
saves, so the check made several calls before the insert is still true.

`ListedWhenCalm` and `TestsComplete` speak of requests that did not overlap. `CalmInv` says
of calm what makes it useful: at most one request is under way, so the tables stand still
between its steps. The provider then announces every template that is not in `unseen` as
its row says, or the one request is on its way to refresh it, and its copy, once taken, is
right (`Fresh`). A template that changes without a refresh joins `unseen` in the same step;
one that changes with a refresh to come is the business of the request that changed it, and
joins `unseen` if that request fails. A request for test credentials has
made the templates up to the one it is at, holds ids that are live and carry the right
names, and has made the claims so far (`ProgressOK`). The three excuses, too many templates
in the window, a name that is taken and variables to fill, do not go away while it runs,
since nobody but itself adds or removes rows (`Excused`).

**The argument for Offers.** `IInv` adds to the types: `SlotsOK`, what a request has done so
far shows in the tables as long as its offer is there; `Apart`, two requests never store
the same offer; `TablesOK`, a live offer ends no later than the state or code made for it,
and session rows and claims belong to live offers; `GhostOK`, an update under way was
handed out, and what somebody was told is backed by a row or a claim. `Keeps` says what a
step of one request leaves alone for all others: once stored, the maker and grant of an offer
never change and it can only be deleted. There is a lemma per action.

`DeskSeesOwn` needs `DInv`: what the desk was told it made is in the tables or was deleted
since, what it was told it deleted is gone for good (`DeskOK`), and a table of the console
that was read after the last telling, or is at rest without a failure, shows the one and
not the other, what is in `shared` aside (`ViewOK`). What tells the desk more also sends the
next fetch, or the table has no data and the item joins `shared`; nothing is dropped from a
table that has no data, since the desk deletes what it sees.

**The argument for Console.** `FlowOK` says of a dialog which records it may hold at which
of its steps. `CleanOK` is about dialogs that met no fault and no rival: no other dialog
and not the clerk works on the same did, so every call that was answered had its effect and
still has it. `ShownOK`: where a tab's list is not what is stored, a dialog of that tab has
just decided, or a newer fetch is coming. `ClerkOK` says the same of the clerk's two calls.
For a step of one dialog, `Bystander` collects what it leaves alone for all others: that a
did belongs to somebody is changed only by a dialog about that did, which would make both
rivals. `OnlyWhatWasAsked` follows step by step from the types and `FlowOK`.

**The argument for Tables.** `TInv` says of every answer, kept in the cache or on its way,
that if it was read after the last change of the rows, it is the right one *for its own
key* (`CacheOK`, `FlightOK`), so that it does not matter in which order answers come. The
footer's total is the one kept for the key on screen (`TotalOK`); a change of the rows makes
every answer old. A walk that is on has seen exactly the rows before the page on screen
(`WalkOK`). That pages of `InOrder` cover all rows once rests on the order being a bijection:
the number of rows before a row is less than the number of rows and is another for each
row, and an injection between finite sets of one size is onto.

**The argument for Columns.** `ColumnsInv`: the order has every column once, each side has
its pins once, none is on both sides, and the first pin on the right is a permanent one, if
there is any. So what is shown has every column at one place, a column's neighbour among
the unpinned (`FreeNeighbour`) or among the pins of its side (`PinnedNeighbour`) is the one
next to it, and the move never leaves the side. The order may hold pinned columns between
two that are shown next to each other; moving one past them changes nobody's rank among
the unpinned but these two's (`Passes`). `Those` states a filter by ranks, which makes
this a matter of counting and needs no induction over sequences.

**The argument for Exchange.** `EInv` follows a message through the rows: a nonce, a
credential and the requests for them lead to a live row, or to a record of a row, of the
attempt they will be taken for (`MsgOK`), a row keeps no other attempt's state or
challenge (`RowsOK`), and a wallet's entries are its own (`WalletOK`). Redirects that
carry no state lead to anybody's row; an attempt that gave a state takes none of those,
and for the others the token endpoint compares the challenge. No step takes away what a
message relies on (`Kept`): live rows keep who asked and what was told, records keep their
row. So a message that comes late or twice says as much as when it was sent.

`InOrderIsServed` needs `OInv`: an attempt that asks for what `AuthService` wants, and
none of whose messages was repeated or late, has exactly one message on its way between
its start and its end, and what that message carries is still the newest code or nonce of
the attempt's own row (`InOrder`). A "no" on its way to it has one of the three reasons,
which stay true: a did row keeps its maker, an offer its record, an issued record its
status (`OInv`). `AddDid` refuses whose request is not in `found` and finds a maker,
`Store` whom an offer's record of another attempt hinders, since an attempt has one
request under way; and `Issue` a record that nobody but the administrator can have issued.
Only the attempt's own messages make newer ones: a stray redirect carries no state and
leads away only attempts that gave none, which are not among those the property is about.

**Model-checked only**: the liveness properties `HolderIsServed`, `RevocationLasts`,
`MarkedUsed`, `Settles` and `EndedElsewhere`; liveness is outside what TLAPS does here, as is
`ENABLED`. Every invariant and action property that a run finds true has a theorem above;
those of `CredentialStatus` that need handlers not to overlap have it under that hypothesis.

## 6. Not modelled

- Cryptography, JWT and OpenID message formats, EBSI's resolver: a step that succeeds or
  fails.
- In `Exchange`, the conformance and interop branches of the credential endpoint, which are
  `Issuance`'s, and the types a test scope names. There the administrator decides about a
  record once, no call fails halfway and nothing is deleted; that is `Issuance`'s too.
- Refetches of the desk's tables when the page is left and opened again or the connection
  comes back, and the refetch of the list of schema templates after one is made or deleted.
- A did whose removal fails while a student is deleted (`student.service.ts:143`): `clerk`
  removes them one by one, and what is left then is not followed.
- Two did rows with students of the same holder: `EnsureStudent` is one step, since a
  second student changes nothing that issuance reads.
- The value checks of validation rules and the generation of a credential from a
  template; the verifier, whose request URI is one insert that is read back and whose
  result is computed from its input.
- `NonceService`, which nobody calls; plumbing, empty modules, deployment, SDK and RPC:
  no state of the system.
- Of the front end, forms and their checks, the editor of schema templates, filters that
  only the component showcase uses, looks, language and theme.
- `VerifiableDiploma202211.ts` and its like: types without code.

## 7. Plan

What is left: the entry that a crash between `addCredential` and
`updateVerifiableCredential` leaves and that no credential refers to. A later revocation
takes whichever entry of the credential `findOne` returns, so no property of the stored
reference holds once a request was repeated; `RegistryWhileAlone` says where it does.
Further: action properties of `Exchange` and `Tables`; the refetch of the list of schema
templates; a removal that fails in the middle of a student's deletion.
