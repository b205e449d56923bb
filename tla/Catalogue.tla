----------------------------- MODULE Catalogue ------------------------------
(***************************************************************************)
(* What the issuer can offer: the schema templates, the presentation       *)
(* definitions, the scope mappings between them, and the OpenID provider   *)
(* that openId.service.ts builds from the tables and keeps in memory.      *)
(* The interoperability desk (interop.service.ts) fills the catalogue by   *)
(* itself whenever somebody asks it for test credentials.                  *)
(*                                                                         *)
(* A slot is a request in flight; an action is one database call together  *)
(* with the code up to the next one.                                       *)
(***************************************************************************)
EXTENDS Naturals, FiniteSets, Sequences

CONSTANTS
    Templates,    \* serial ids of credential_schemas rows
    Definitions,  \* serial ids of presentation_definitions rows
    Mappings,     \* serial ids of scope_credential_mappings rows
    Slots,        \* requests the server has in flight at once
    DefaultNames, \* names of the interop templates, in the order they are made
    Verification, \* the one that the interop scopes are mapped to
    AdminNames,   \* default names administrators give theirs, or None: others
    AdminTypes,   \* lists of types administrators give their templates
    Displays,     \* displays, and what else is announced, that they give them
    AdminOps,     \* the operations administrators use
    Window,       \* templates that findTemplateByName looks at (100)
    MaxCrashes,   \* bound: restarts of the server and handlers that die
    MaxEvents,    \* bound: those, and requests the server takes
    None

N        == Len(DefaultNames)
Defaults == {DefaultNames[i] : i \in 1 .. N}
Types    == Defaults \cup AdminTypes  \* a default template is named for its type
Scopes   == {"openid", "interop"}
\* The scopes of the test credentials, in the order they are ensured.
ScopeList == <<"openid", "interop">>

ASSUME CatalogueAssumption ==
    /\ Templates \cup Definitions \cup Mappings \subseteq Nat
    /\ DefaultNames \in Seq(Defaults) /\ N \in Nat \ {0}
    /\ Verification \in Defaults
    /\ AdminNames \subseteq Defaults \cup {None}
    /\ AdminOps \subseteq {"create", "update", "remove", "define", "redefine",
                           "undefine", "map", "unmap"}
    /\ Window \in Nat
    /\ MaxCrashes \in Nat /\ MaxEvents \in Nat
    /\ None \notin Templates \cup Definitions \cup Mappings
    /\ None \notin Types

VARIABLES
    templates,    \* credential_schemas
    definitions,  \* presentation_definitions
    mappings,     \* scope_credential_mappings
    claims,       \* credential types that credential_claim has rows for
    provider,     \* the provider in memory, or None before its first use
    req,          \* requests in flight
    calm,         \* no two requests overlapped since the start
    unseen,       \* templates changed since the provider was built, and since
                  \* then no creation or deletion got through to its end
    count         \* requests and crashes so far

tables == <<templates, definitions, mappings, claims>>
vars   == <<templates, definitions, mappings, claims, provider, req, calm, unseen, count>>

-----------------------------------------------------------------------------
(***************************************************************************)
(* Rows.  holes: the schema text has {{...}} placeholders, whose rules are *)
(* required fields; variables: the templateVariables column is not empty;  *)
(* display: with format, trust framework and criteria, what is announced.  *)
(***************************************************************************)
Lives == {"unborn", "live", "gone"}

TemplateRow   == [live : Lives, name : Defaults \cup {None}, types : Types \cup {None},
                  holes : BOOLEAN, variables : BOOLEAN, display : Displays \cup {None}]
DefinitionRow == [live : Lives, scope : Scopes]
MappingRow    == [live : Lives, definition : Definitions \cup {None},
                  template : Templates \cup {None}]

NoTemplate   == [live |-> "unborn", name |-> None, types |-> None,
                 holes |-> FALSE, variables |-> FALSE, display |-> None]
NoDefinition == [live |-> "unborn", scope |-> "openid"]
NoMapping    == [live |-> "unborn", definition |-> None, template |-> None]

\* The provider's credentials_supported, copied from the rows, and the scopes
\* it announces.
Metadata == [types : Types \cup {None}, display : Displays \cup {None}]
Listing  == [Templates -> Metadata \cup {None}]
Provider == [listed : Listing, scopes : SUBSET Scopes]

Ops == {"none", "admin", "use", "test", "offer"}

Pc == {"idle", "readTypes", "saveTemplate", "saveUpdate", "deleteTemplate",
       "readTemplates", "readDefinitions", "setProvider",
       "saveRedefined", "mapTemplate", "mapCheck", "saveMapping", "deleteMapping",
       "findDefault", "pickTemplate", "findScope", "findWanted", "define",
       "findVerification", "findMade", "mapDefinition", "offer", "claim", "answered"}

\* op: who runs; k, i: positions in DefaultNames and ScopeList; back: where
\* making the default templates returns to; picked: template ids by position;
\* got: the positions that the asker has a claim for.
Slot == [pc : Pc, op : Ops, k : 1 .. N, i : 1 .. 2, scope : Scopes,
         back : {"idle", "pickTemplate", "findScope", "findMade"},
         t : Templates \cup {None}, d : Definitions \cup {None},
         m : Mappings \cup {None}, row : TemplateRow, drow : DefinitionRow,
         seen : Listing, announce : SUBSET Scopes,
         picked : [1 .. N -> Templates \cup {None}], got : SUBSET (1 .. N)]

Idle == [pc |-> "idle", op |-> "none", k |-> 1, i |-> 1, back |-> "idle", scope |-> "openid",
         t |-> None, d |-> None, m |-> None, row |-> NoTemplate, drow |-> NoDefinition,
         seen |-> [t \in Templates |-> None], announce |-> {},
         picked |-> [i \in 1 .. N |-> None], got |-> {}]

LiveTemplates   == {t \in Templates : templates[t].live = "live"}
\* getCredentialsSupported.
Announced == [t \in Templates |->
                 IF t \in LiveTemplates
                 THEN [types |-> templates[t].types, display |-> templates[t].display]
                 ELSE None]

LiveDefinitions == {d \in Definitions : definitions[d].live = "live"}
LiveMappings    == {m \in Mappings : mappings[m].live = "live"}

\* The id that the table's sequence gives the next row.
Serial(table, i) ==
    /\ table[i].live = "unborn"
    /\ \A j \in DOMAIN table : j < i => table[j].live # "unborn"

WithScope(s) == {d \in LiveDefinitions : definitions[d].scope = s}

\* arraysAreEqual: lists of types are equal up to their order.
SameTypes(ty) == {t \in LiveTemplates : templates[t].types = ty}

\* findTemplateByName looks through the first Window rows, in no order.
FoundByName(n) ==
    LET named == {t \in LiveTemplates : templates[t].name = n}
    IN  IF named = {} \/ Cardinality(LiveTemplates) > Window
        THEN named \cup {None} ELSE named

BoundTo(d) == {m \in LiveMappings : mappings[m].definition = d}
BoundBy(t) == {m \in LiveMappings : mappings[m].template = t}

\* mappings without some rows; deleting a definition or a template takes the
\* rows bound to it along (ON DELETE CASCADE).
Without(ms) ==
    [m \in Mappings |-> IF m \in ms THEN [NoMapping EXCEPT !.live = "gone"]
                                    ELSE mappings[m]]

-----------------------------------------------------------------------------
(***************************************************************************)
(* Slots.                                                                  *)
(***************************************************************************)
Busy(r, pc)  == req[r].pc = pc
Quiet        == \A r \in Slots : Busy(r, "idle")
Goto(r, pc)  == req' = [req EXCEPT ![r].pc = pc]
Become(r, f) == req' = [req EXCEPT ![r] = f]
End(r)       == Become(r, Idle)

Events == count.requests + count.crashes

Crash ==
    /\ Events < MaxEvents /\ count.crashes < MaxCrashes
    /\ count' = [count EXCEPT !.crashes = @ + 1]

\* A request is taken; calm tells whether it is the only one.
Take(r, f) ==
    /\ Busy(r, "idle")
    /\ Events < MaxEvents
    /\ count' = [count EXCEPT !.requests = @ + 1]
    /\ calm' = (calm /\ Quiet)
    /\ Become(r, f)
    /\ UNCHANGED unseen

\* A later step of a request that was taken.
Resume(r, pc) == Busy(r, pc) /\ UNCHANGED <<calm, count>>
Step(r, pc)   == Resume(r, pc) /\ UNCHANGED unseen

\* What a provider that is there and was built without overlap does not show.
Missed(ts) == unseen' = IF calm /\ provider # None THEN unseen \cup ts ELSE unseen

Start(pc, op) == [Idle EXCEPT !.pc = pc, !.op = op]

-----------------------------------------------------------------------------
(***************************************************************************)
(* The provider.                                                           *)
(***************************************************************************)
\* getInstance: the first request after a start builds the provider.
UseProvider(r) ==
    /\ provider = None
    /\ Take(r, Start("readTemplates", "use"))
    /\ UNCHANGED <<tables, provider>>

\* initializeProvider: getCredentialsSupported, ...
ReadTemplates(r) ==
    /\ Step(r, "readTemplates")
    /\ Become(r, [req[r] EXCEPT !.pc = "readDefinitions", !.seen = Announced])
    /\ UNCHANGED <<tables, provider>>

\* ... then the presentation definitions, whose scopes are announced ...
ReadDefinitions(r) ==
    /\ Step(r, "readDefinitions")
    /\ Become(r, [req[r] EXCEPT !.pc = "setProvider",
                    !.announce = {definitions[d].scope : d \in LiveDefinitions}])
    /\ UNCHANGED <<tables, provider>>

\* ... and the new provider replaces the one in memory.
SetProvider(r) ==
    /\ Resume(r, "setProvider")
    /\ unseen' = {}
    /\ provider' = [listed |-> req[r].seen, scopes |-> req[r].announce]
    /\ End(r)
    /\ UNCHANGED tables

-----------------------------------------------------------------------------
(***************************************************************************)
(* Schema templates.  A request that a check rejects changes nothing and   *)
(* is not an action.                                                       *)
(***************************************************************************)
\* A new row, with the template variables that its schema text has.
Template(n, ty, holes, display) ==
    [live |-> "live", name |-> n, types |-> ty, holes |-> holes,
     variables |-> holes, display |-> display]

\* create, after the check for templates of the same type among those read.
CreateTemplate(r, n, ty, holes, display) ==
    /\ "create" \in AdminOps
    /\ SameTypes(ty) = {}
    /\ Take(r, [Start("saveTemplate", "admin") EXCEPT
                  !.row = Template(n, ty, holes, display)])
    /\ UNCHANGED <<tables, provider>>

\* After a default template is found or made.
NextDefault(r) ==
    IF req[r].k < N
    THEN Become(r, [req[r] EXCEPT !.pc = "findDefault", !.k = @ + 1, !.row = NoTemplate])
    ELSE Become(r, [req[r] EXCEPT !.pc = req[r].back, !.k = 1, !.row = NoTemplate])

\* Mutant of AfterSave: the controller does not refresh the provider.
AfterSaveForgets(r, t) ==
    IF req[r].op = "admin" THEN End(r) /\ UNCHANGED unseen
    ELSE NextDefault(r) /\ Missed({t})

\* The controller refreshes the provider, the interoperability desk does not.
AfterSave(r, t) ==
    IF req[r].op = "admin"
    THEN Become(r, [req[r] EXCEPT !.pc = "readTemplates", !.t = t]) /\ UNCHANGED unseen
    ELSE NextDefault(r) /\ Missed({t})

SaveTemplate(r) ==
    /\ Resume(r, "saveTemplate")
    /\ \E t \in Templates :
         /\ Serial(templates, t)
         /\ templates' = [templates EXCEPT ![t] = req[r].row]
         /\ AfterSave(r, t)
    /\ UNCHANGED <<definitions, mappings, claims, provider>>

\* What an update may bring: each column from the dto, or as it was.
Updates(t) == [name    : AdminNames \cup {templates[t].name},
               types   : AdminTypes \cup {templates[t].types},
               display : Displays \cup {templates[t].display}, holes : BOOLEAN]

Updated(t, dto) ==
    [templates[t] EXCEPT !.name = dto.name, !.types = dto.types,
                         !.display = dto.display, !.holes = dto.holes]

\* Mutant of UpdateTemplate: the template variables are extracted again.
UpdateTemplateVariables(r, t, dto) ==
    /\ "update" \in AdminOps
    /\ t \in LiveTemplates
    /\ Take(r, [Start("saveUpdate", "admin") EXCEPT !.t = t,
                  !.row = [Updated(t, dto) EXCEPT !.variables = dto.holes]])
    /\ UNCHANGED <<tables, provider>>

\* update reads the row ...
UpdateTemplate(r, t, dto) ==
    /\ "update" \in AdminOps
    /\ t \in LiveTemplates
    /\ Take(r, [Start("saveUpdate", "admin") EXCEPT !.t = t, !.row = Updated(t, dto)])
    /\ UNCHANGED <<tables, provider>>

\* ... and saves it with what the dto brings: templateVariables stay as they
\* were, the provider is not refreshed, and a row deleted meanwhile is back.
SaveUpdate(r) ==
    /\ Resume(r, "saveUpdate")
    /\ templates' = [templates EXCEPT ![req[r].t] = req[r].row]
    /\ Missed({req[r].t})
    /\ End(r)
    /\ UNCHANGED <<definitions, mappings, claims, provider>>

RemoveTemplate(r, t) ==
    /\ "remove" \in AdminOps
    /\ t \in LiveTemplates
    /\ Take(r, [Start("deleteTemplate", "admin") EXCEPT !.t = t])
    /\ UNCHANGED <<tables, provider>>

DeleteTemplate(r) ==
    /\ Step(r, "deleteTemplate")
    /\ templates' = [templates EXCEPT ![req[r].t].live = "gone"]
    /\ mappings' = Without(BoundBy(req[r].t))
    /\ Goto(r, "readTemplates")
    /\ UNCHANGED <<definitions, claims, provider>>

-----------------------------------------------------------------------------
(***************************************************************************)
(* Presentation definitions.  Nothing refreshes the provider after them.   *)
(***************************************************************************)
\* Of what a definition is created with, only the scope is used by others.
NewDefinition(s) == [live |-> "live", scope |-> s]

\* The scope column is unique.
Defined(d, s) ==
    /\ WithScope(s) = {}
    /\ Serial(definitions, d)
    /\ definitions' = [definitions EXCEPT ![d] = NewDefinition(s)]

\* Mutant of DefineScope: the scope may have any form.
DefineScopeUnvalidated(r, s) ==
    /\ "define" \in AdminOps
    /\ \E d \in Definitions : Defined(d, "profile")
    /\ Take(r, Idle)
    /\ UNCHANGED <<templates, mappings, claims, provider>>

\* create: the scope is openid, or openid: and a name.
DefineScope(r, s) ==
    /\ "define" \in AdminOps
    /\ \E d \in Definitions : Defined(d, s)
    /\ Take(r, Idle)
    /\ UNCHANGED <<templates, mappings, claims, provider>>

\* update: findOne, and the dto's fields over the row's; no scope among them.
RedefineScope(r, d) ==
    /\ "redefine" \in AdminOps
    /\ d \in LiveDefinitions
    /\ Take(r, [Start("saveRedefined", "admin") EXCEPT !.d = d,
                                                      !.drow = definitions[d]])
    /\ UNCHANGED <<tables, provider>>

\* A row deleted meanwhile is inserted again, unless its scope is taken.
SaveRedefined(r) ==
    /\ Step(r, "saveRedefined")
    /\ definitions' = IF WithScope(req[r].drow.scope) \subseteq {req[r].d}
                      THEN [definitions EXCEPT ![req[r].d] = req[r].drow]
                      ELSE definitions
    /\ End(r)
    /\ UNCHANGED <<templates, mappings, claims, provider>>

Undefine(r, d) ==
    /\ "undefine" \in AdminOps
    /\ d \in LiveDefinitions
    /\ definitions' = [definitions EXCEPT ![d] = [NoDefinition EXCEPT !.live = "gone"]]
    /\ mappings' = Without(BoundTo(d))
    /\ Take(r, Idle)
    /\ UNCHANGED <<templates, claims, provider>>

-----------------------------------------------------------------------------
(***************************************************************************)
(* Scope mappings.  Administrators and the interoperability desk call      *)
(* create; the desk carries on when it fails.                              *)
(***************************************************************************)
\* After the desk has ensured one scope: the next one, then the offers.
AfterScope(r) ==
    IF req[r].op = "test" /\ req[r].i = 1
    THEN Become(r, [req[r] EXCEPT !.pc = "findScope", !.i = 2, !.t = None, !.d = None])
    ELSE Become(r, [req[r] EXCEPT !.pc = "offer", !.k = 1, !.t = None, !.d = None])

AfterMapping(r) == IF req[r].op = "admin" THEN End(r) ELSE AfterScope(r)

MapScope(r, d, t) ==
    /\ "map" \in AdminOps
    /\ d \in LiveDefinitions
    /\ Take(r, [Start("mapTemplate", "admin") EXCEPT !.d = d, !.t = t])
    /\ UNCHANGED <<tables, provider>>

\* The schema must exist and have no template variables.
MapTemplate(r) ==
    /\ Step(r, "mapTemplate")
    /\ IF req[r].t \in LiveTemplates /\ ~templates[req[r].t].variables
       THEN Goto(r, "mapCheck") ELSE AfterMapping(r)
    /\ UNCHANGED <<tables, provider>>

MapCheck(r) ==
    /\ Step(r, "mapCheck")
    /\ IF BoundTo(req[r].d) = {} THEN Goto(r, "saveMapping") ELSE AfterMapping(r)
    /\ UNCHANGED <<tables, provider>>

\* What the database accepts: both columns are unique foreign keys.
Mappable(d, t) ==
    /\ d \in LiveDefinitions /\ BoundTo(d) = {}
    /\ t \in LiveTemplates   /\ BoundBy(t) = {}

SaveMapping(r) ==
    /\ Step(r, "saveMapping")
    /\ IF Mappable(req[r].d, req[r].t)
       THEN \E m \in Mappings :
              /\ Serial(mappings, m)
              /\ mappings' = [mappings EXCEPT ![m] =
                   [live |-> "live", definition |-> req[r].d, template |-> req[r].t]]
       ELSE UNCHANGED mappings
    /\ AfterMapping(r)
    /\ UNCHANGED <<templates, definitions, claims, provider>>

Unmap(r, m) ==
    /\ "unmap" \in AdminOps
    /\ m \in LiveMappings
    /\ Take(r, [Start("deleteMapping", "admin") EXCEPT !.m = m])
    /\ UNCHANGED <<tables, provider>>

DeleteMapping(r) ==
    /\ Step(r, "deleteMapping")
    /\ mappings' = Without({req[r].m})
    /\ End(r)
    /\ UNCHANGED <<templates, definitions, claims, provider>>

-----------------------------------------------------------------------------
(***************************************************************************)
(* The interoperability desk: createTestCredentials ("test") makes one     *)
(* claim per default template, createCredentialOffer ("offer") one claim.  *)
(***************************************************************************)
AskTests(r) ==
    /\ Take(r, [Start("findDefault", "test") EXCEPT !.back = "pickTemplate"])
    /\ UNCHANGED <<tables, provider>>

AskOffer(r, t, s) ==
    /\ Take(r, [Start("findDefault", "offer") EXCEPT
                  !.back = "findScope", !.picked[1] = t, !.scope = s])
    /\ UNCHANGED <<tables, provider>>

Answer(r) == IF req[r].op = "test" THEN Goto(r, "answered") ELSE End(r)

\* ensureTemplatesExist looks for two names that nothing creates, and so
\* createDefaultSchemaTemplates runs at every request.
FindDefault(r) ==
    /\ Step(r, "findDefault")
    /\ \E t \in FoundByName(DefaultNames[req[r].k]) :
         IF t = None THEN Goto(r, "readTypes") ELSE NextDefault(r)
    /\ UNCHANGED <<tables, provider>>

\* Making the default templates failed: no claims for a test, an error for an
\* offer, and the desk goes on without the mapping when it was for a scope.
GiveUp(r) == IF req[r].back = "findMade" THEN AfterScope(r) ELSE Answer(r)

\* The templates that the desk makes by itself have no placeholders.
DefaultTemplate(n) == Template(n, n, FALSE, None)

\* SchemaTemplateService.create: no other template may have the same type.
ReadTypes(r) ==
    /\ Step(r, "readTypes")
    /\ LET n == DefaultNames[req[r].k]
       IN  IF SameTypes(n) = {}
           THEN Become(r, [req[r] EXCEPT !.pc = "saveTemplate",
                             !.row = DefaultTemplate(n)])
           ELSE GiveUp(r)
    /\ UNCHANGED <<tables, provider>>

\* The ids of the four templates, or nothing at all.
PickTemplate(r) ==
    /\ Step(r, "pickTemplate")
    /\ \E t \in FoundByName(DefaultNames[req[r].k]) :
         LET now == [req[r] EXCEPT !.picked[req[r].k] = t]
         IN  IF req[r].k < N THEN Become(r, [now EXCEPT !.k = @ + 1])
             ELSE IF \E j \in 1 .. N : now.picked[j] = None THEN Answer(r)
             ELSE Become(r, [now EXCEPT !.pc = "findScope"])
    /\ UNCHANGED <<tables, provider>>

\* Whatever scope a test misses, it is the interop definition that is made.
FindScope(r) ==
    /\ Step(r, "findScope")
    /\ LET s      == IF req[r].op = "test" THEN ScopeList[req[r].i] ELSE req[r].scope
           wanted == IF req[r].op = "test" THEN "interop" ELSE s
       IN  IF WithScope(s) # {} THEN AfterScope(r)
           ELSE Become(r, [req[r] EXCEPT !.pc = "findWanted", !.scope = wanted])
    /\ UNCHANGED <<tables, provider>>

FindWanted(r) ==
    /\ Step(r, "findWanted")
    /\ IF WithScope(req[r].scope) # {} THEN AfterScope(r) ELSE Goto(r, "define")
    /\ UNCHANGED <<tables, provider>>

Define(r) ==
    /\ Step(r, "define")
    /\ \/ \E d \in Definitions :
            /\ Defined(d, req[r].scope)
            /\ Become(r, [req[r] EXCEPT !.pc = "findVerification", !.d = d])
       \/ WithScope(req[r].scope) # {} /\ AfterScope(r) /\ UNCHANGED definitions
    /\ UNCHANGED <<templates, mappings, claims, provider>>

FindVerification(r) ==
    /\ Step(r, "findVerification")
    /\ \E t \in FoundByName(Verification) :
         IF t = None
         THEN Become(r, [req[r] EXCEPT !.pc = "findDefault", !.k = 1, !.back = "findMade"])
         ELSE Become(r, [req[r] EXCEPT !.pc = "mapDefinition", !.t = t])
    /\ UNCHANGED <<tables, provider>>

FindMade(r) ==
    /\ Step(r, "findMade")
    /\ \E t \in FoundByName(Verification) :
         IF t = None THEN AfterScope(r)
         ELSE Become(r, [req[r] EXCEPT !.pc = "mapDefinition", !.t = t])
    /\ UNCHANGED <<tables, provider>>

MapDefinition(r) ==
    /\ Step(r, "mapDefinition")
    /\ IF req[r].d \in LiveDefinitions THEN Goto(r, "mapTemplate") ELSE AfterScope(r)
    /\ UNCHANGED <<tables, provider>>

\* After the k-th offer of a test succeeded or failed.
NextOffer(r, got) ==
    IF req[r].op = "test" /\ req[r].k < N
    THEN Become(r, [req[r] EXCEPT !.pc = "offer", !.k = @ + 1, !.got = got])
    ELSE IF req[r].op = "test"
    THEN Become(r, [req[r] EXCEPT !.pc = "answered", !.got = got])
    ELSE End(r)

OfferScope(r) ==
    IF req[r].op = "offer" THEN req[r].scope
    ELSE IF DefaultNames[req[r].k] = Verification THEN "interop" ELSE "openid"

\* Mutant of Offerable: the scope openid needs a definition, too.
OfferableDefined(r) ==
    LET t == req[r].picked[req[r].k]
    IN  /\ t \in LiveTemplates
        /\ req[r].op = "test" => ~templates[t].holes
        /\ WithScope(OfferScope(r)) # {}

\* CredentialOfferService.createOffer: the template exists, the data has what
\* its rules require (a test's data has nothing), the scope is defined.
Offerable(r) ==
    LET t == req[r].picked[req[r].k]
    IN  /\ t \in LiveTemplates
        /\ req[r].op = "test" => ~templates[t].holes
        /\ OfferScope(r) = "openid" \/ WithScope(OfferScope(r)) # {}

MakeOffer(r) ==
    /\ Step(r, "offer")
    /\ IF Offerable(r) THEN Goto(r, "claim") ELSE NextOffer(r, req[r].got)
    /\ UNCHANGED <<tables, provider>>

\* The type a claim is filed under: most offers outside the tests have none, and
\* those for the template found under the name Verification have that.
ClaimTypes(r) ==
    IF req[r].op = "test" THEN {DefaultNames[req[r].k]}
    ELSE IF req[r].scope = "interop"
    THEN {IF t # None /\ t = req[r].picked[1] THEN Verification ELSE None :
              t \in FoundByName(Verification)}
    ELSE {None}

SaveClaim(r) ==
    /\ Step(r, "claim")
    /\ \E type \in ClaimTypes(r) : claims' = claims \cup {type}
    /\ NextOffer(r, req[r].got \cup {req[r].k})
    /\ UNCHANGED <<templates, definitions, mappings, provider>>

Deliver(r) == Step(r, "answered") /\ End(r) /\ UNCHANGED <<tables, provider>>

-----------------------------------------------------------------------------
Refreshing == {"readTemplates", "readDefinitions", "setProvider"}

\* A handler dies: the database refuses a call, or the request is cut off.  What
\* was to be refreshed is not.
Fail(r) ==
    /\ req[r].pc \notin {"idle", "answered"}
    /\ Crash
    /\ Missed(IF req[r].pc \in Refreshing THEN {req[r].t} \ {None} ELSE {})
    /\ End(r)
    /\ UNCHANGED <<tables, provider, calm>>

\* The server stops and starts again: memory is lost, the tables stay.
Restart ==
    /\ Crash
    /\ req' = [r \in Slots |-> Idle]
    /\ provider' = None
    /\ calm' = TRUE
    /\ unseen' = {}
    /\ UNCHANGED tables

Init ==
    /\ templates = [t \in Templates |-> NoTemplate]
    /\ definitions = [d \in Definitions |-> NoDefinition]
    /\ mappings = [m \in Mappings |-> NoMapping]
    /\ claims = {}
    /\ provider = None
    /\ req = [r \in Slots |-> Idle]
    /\ calm = TRUE
    /\ unseen = {}
    /\ count = [requests |-> 0, crashes |-> 0]

\* Take's guard, ahead of all that might be asked for.
Free(r) == Busy(r, "idle") /\ Events < MaxEvents

Admin(r) ==
    \/ Free(r) /\ \E n \in AdminNames, ty \in AdminTypes, holes \in BOOLEAN, display \in Displays :
         CreateTemplate(r, n, ty, holes, display)
    \/ Free(r) /\ \E t \in LiveTemplates : \E dto \in Updates(t) : UpdateTemplate(r, t, dto)
    \/ \E t \in Templates : RemoveTemplate(r, t)
    \/ SaveUpdate(r) \/ DeleteTemplate(r)
    \/ \E s \in Scopes : DefineScope(r, s)
    \/ \E d \in Definitions : RedefineScope(r, d) \/ Undefine(r, d)
    \/ SaveRedefined(r)
    \/ Free(r) /\ \E d \in Definitions, t \in LiveTemplates : MapScope(r, d, t)
    \/ \E m \in Mappings : Unmap(r, m)
    \/ DeleteMapping(r)

Desk(r) ==
    \/ AskTests(r)
    \/ Free(r) /\ \E t \in LiveTemplates, s \in Scopes : AskOffer(r, t, s)
    \/ FindDefault(r) \/ ReadTypes(r) \/ PickTemplate(r)
    \/ FindScope(r) \/ FindWanted(r) \/ Define(r)
    \/ FindVerification(r) \/ FindMade(r) \/ MapDefinition(r)
    \/ MakeOffer(r) \/ SaveClaim(r) \/ Deliver(r)

Shared(r) ==
    \/ UseProvider(r) \/ ReadTemplates(r) \/ ReadDefinitions(r) \/ SetProvider(r)
    \/ SaveTemplate(r) \/ MapTemplate(r) \/ MapCheck(r) \/ SaveMapping(r)
    \/ Fail(r)

Next == Restart \/ \E r \in Slots : Admin(r) \/ Desk(r) \/ Shared(r)

Spec == Init /\ [][Next]_vars

-----------------------------------------------------------------------------
TypeOK ==
    /\ templates \in [Templates -> TemplateRow]
    /\ definitions \in [Definitions -> DefinitionRow]
    /\ mappings \in [Mappings -> MappingRow]
    /\ claims \subseteq Defaults \cup {None}
    /\ provider \in Provider \cup {None}
    /\ req \in [Slots -> Slot]
    /\ calm \in BOOLEAN
    /\ unseen \subseteq Templates
    /\ count \in [requests : Nat, crashes : Nat]

\* A scope issues one schema, a schema serves one scope, both exist, and the
\* schema has no template variables when the mapping is used: also when the
\* template is updated, deleted or saved back while the mapping is made.
ScopeMapsToOne ==
    \A m \in LiveMappings :
        LET row == mappings[m]
        IN  /\ BoundTo(row.definition) = {m} /\ BoundBy(row.template) = {m}
            /\ row.definition \in LiveDefinitions
            /\ row.template \in LiveTemplates
            /\ ~templates[row.template].variables

\* As long as no two requests overlap, the provider that wallets are checked
\* against announces every template as it is stored, and none that was removed,
\* but for those that were updated, that the desk made or whose refresh failed
\* since a creation or a deletion last got through.
ListedWhenCalm ==
    calm /\ Quiet /\ provider # None =>
        \A t \in Templates \ unseen : provider.listed[t] = Announced[t]

\* The reasons why a test holder goes without one of the claims.
TooMany  == Cardinality(LiveTemplates) > Window
Clash    == \E t \in LiveTemplates : templates[t].types \in Defaults \ {templates[t].name}
Unfilled == \E t \in LiveTemplates : templates[t].name \in Defaults /\ templates[t].holes

\* A test holder whose request overlapped no other gets a claim for every
\* default template, on any catalogue that administrators or a crash in an
\* earlier request left behind, but for the three reasons above.
TestsComplete ==
    \A r \in Slots :
        Busy(r, "answered") /\ calm => req[r].got = 1 .. N \/ TooMany \/ Clash \/ Unfilled
=============================================================================
