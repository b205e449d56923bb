-------------------------- MODULE CatalogueProofs ---------------------------
(***************************************************************************)
(* Proofs about Catalogue, for every set of ids, every list of default     *)
(* templates and every bound: the tables keep their types, a scope mapping *)
(* stays one to one, between rows that exist, onto a template without      *)
(* variables, and while requests come one at a time the provider lists     *)
(* what is stored and a test holder gets every claim.                      *)
(***************************************************************************)
EXTENDS Catalogue, FiniteSetTheorems, TLAPS

(***************************************************************************)
(* The inductive invariant.  A template's variables never change once it   *)
(* has an id, not even when it is deleted and saved back; so what a        *)
(* handler checked before it waited still holds when it goes on.           *)
(***************************************************************************)
Born(t, ts) == t \in Templates /\ ts[t].live # "unborn"

SlotOK(q, ts) ==
    /\ q.pc = "saveUpdate" =>
          /\ Born(q.t, ts) /\ q.row.live = "live"
          /\ q.row.variables = ts[q.t].variables
    /\ q.pc \in {"mapCheck", "saveMapping"} =>
          Born(q.t, ts) /\ ~ts[q.t].variables
    /\ q.pc = "deleteTemplate" => Born(q.t, ts)
    /\ q.pc = "deleteMapping" => q.m \in Mappings
    /\ q.pc = "saveRedefined" => q.d \in Definitions /\ q.drow.live = "live"

SlotsOK == \A r \in Slots : SlotOK(req[r], templates)

\* ScopeMapsToOne, row by row.
EndsLive(ms, ds, ts) ==
    \A m \in Mappings : ms[m].live = "live" =>
        /\ ms[m].definition \in Definitions /\ ds[ms[m].definition].live = "live"
        /\ ms[m].template \in Templates /\ ts[ms[m].template].live = "live"
        /\ ~ts[ms[m].template].variables
OneToOne(ms) ==
    \A m, n \in Mappings :
        /\ ms[m].live = "live" /\ ms[n].live = "live"
        /\ ms[m].definition = ms[n].definition \/ ms[m].template = ms[n].template
        => m = n

MapsOK == EndsLive(mappings, definitions, templates) /\ OneToOne(mappings)

IInv == TypeOK /\ SlotsOK /\ MapsOK

\* What a step may make of the variables beside the tables and the slots.
FlagsTyped == /\ calm' \in BOOLEAN /\ unseen' \subseteq Templates
              /\ count' \in [requests : Nat, crashes : Nat]

\* What no step does to a template that has an id.
Keeps(ts, us) ==
    \A t \in Templates : ts[t].live # "unborn" =>
        us[t].live # "unborn" /\ us[t].variables = ts[t].variables

-----------------------------------------------------------------------------
LEMMA NInNat == N \in Nat /\ N > 0 /\ 1 \in 1 .. N
<1>1. N \in Nat \ {0}
  BY CatalogueAssumption DEF CatalogueAssumption
<1> QED BY <1>1, SMT

LEMMA NamesTyped == \A k \in 1 .. N : DefaultNames[k] \in Defaults
  BY DEF Defaults

LEMMA IdleType == Idle \in Slot
<1>1. /\ [i \in 1 .. N |-> None] \in [1 .. N -> Templates \cup {None}]
      /\ [t \in Templates |-> None] \in Listing
  BY Zenon DEF Listing
<1>2. NoTemplate \in TemplateRow /\ NoDefinition \in DefinitionRow
  BY SMT DEF NoTemplate, NoDefinition, TemplateRow, DefinitionRow, Lives, Scopes
<1> QED BY <1>1, <1>2, NInNat, SMT DEF Idle, Slot, Pc, Ops, Scopes

LEMMA SlotFields ==
  ASSUME NEW q \in Slot
  PROVE  /\ q.pc \in Pc /\ q.op \in Ops /\ q.k \in 1 .. N /\ q.i \in 1 .. 2
         /\ q.scope \in Scopes /\ q.back \in {"idle", "pickTemplate", "findScope", "findMade"}
         /\ q.t \in Templates \cup {None} /\ q.d \in Definitions \cup {None}
         /\ q.m \in Mappings \cup {None} /\ q.row \in TemplateRow /\ q.drow \in DefinitionRow
         /\ q.seen \in Listing /\ q.announce \in SUBSET Scopes
         /\ q.picked \in [1 .. N -> Templates \cup {None}] /\ q.got \in SUBSET (1 .. N)
  BY SMT DEF Slot

LEMMA GotoType ==
  ASSUME NEW q \in Slot, NEW pc \in Pc
  PROVE  [q EXCEPT !.pc = pc] \in Slot
  BY SMT DEF Slot

LEMMA StartType ==
  ASSUME NEW pc \in Pc, NEW op \in Ops
  PROVE  Start(pc, op) \in Slot /\ Start(pc, op).pc = pc /\ Start(pc, op).op = op
<1> DEFINE I == Idle
           f == [I EXCEPT !.pc = pc, !.op = op]
<1>1. I \in Slot
  BY IdleType
<1>2. f \in Slot
  <2> HIDE DEF I
  <2> QED BY <1>1, Zenon DEF Slot
<1>3. f.pc = pc /\ f.op = op
  <2> HIDE DEF I
  <2> QED BY <1>1, SMT DEF Slot
<1> QED BY <1>2, <1>3 DEF Start

\* The program counters, as a fact that needs no enumeration afterwards.
LEMMA PcTyped == {"findDefault", "findScope", "offer", "answered", "idle",
                  "pickTemplate", "findMade"} \subseteq Pc
  BY SMT DEF Pc

LEMMA EmptyRow == NoTemplate \in TemplateRow
  BY SMT DEF NoTemplate, TemplateRow, Lives

\* A move: the slot goes on at a program counter that relies on nothing.
Resting == Pc \ {"saveUpdate", "mapCheck", "saveMapping", "deleteTemplate",
                 "deleteMapping", "saveRedefined"}
Moves(r) == \E f \in Slot : f.pc \in Resting /\ Become(r, f)

LEMMA EndMoves ==
  ASSUME NEW r \in Slots, End(r)
  PROVE  Moves(r)
<1>1. Idle.pc = "idle"
  BY DEF Idle
<1> QED BY <1>1, IdleType, Zenon DEF End, Moves, Resting, Pc

LEMMA GotoMoves ==
  ASSUME NEW r \in Slots, TypeOK, NEW pc \in Resting, Goto(r, pc)
  PROVE  Moves(r)
<1> DEFINE f == [req[r] EXCEPT !.pc = pc]
<1>1. req[r] \in Slot /\ pc \in Pc
  BY DEF TypeOK, Resting
<1>2. f \in Slot /\ f.pc = pc
  BY <1>1, SMT DEF Slot
<1>3. Become(r, f)
  BY <1>1, SMT DEF Goto, Become, TypeOK, Slot
<1> QED BY <1>2, <1>3 DEF Moves

LEMMA NextDefaultMoves ==
  ASSUME NEW r \in Slots, TypeOK, NextDefault(r)
  PROVE  Moves(r)
<1>1. req[r] \in Slot
  BY DEF TypeOK
<1>2. CASE req[r].k < N
  <2> DEFINE f == [req[r] EXCEPT !.pc = "findDefault", !.k = @ + 1, !.row = NoTemplate]
  <2> "findDefault" \in Pc /\ req[r].k + 1 \in 1 .. N
    BY <1>1, <1>2, NInNat, SlotFields, PcTyped, SMT
  <2>1. f \in Slot /\ f.pc = "findDefault"
    <3>1. f \in Slot
      BY <1>1, EmptyRow, Zenon DEF Slot
    <3> QED BY <1>1, <3>1, Zenon DEF Slot
  <2> QED BY <1>2, <2>1, Zenon DEF NextDefault, Moves, Resting, Pc
<1>3. CASE ~(req[r].k < N)
  <2> DEFINE f == [req[r] EXCEPT !.pc = req[r].back, !.k = 1, !.row = NoTemplate]
  <2> req[r].back \in Pc /\ req[r].back \in Resting
    BY <1>1, SlotFields, SMT DEF Resting, Pc
  <2>1. f \in Slot
    BY <1>1, NInNat, EmptyRow, Zenon DEF Slot
  <2>2. f.pc \in Resting
    BY <1>1, Zenon DEF Slot
  <2> QED BY <1>3, <2>1, <2>2, Zenon DEF NextDefault, Moves
<1> QED BY <1>2, <1>3

LEMMA AfterScopeMoves ==
  ASSUME NEW r \in Slots, TypeOK, AfterScope(r)
  PROVE  Moves(r)
<1>1. req[r] \in Slot
  BY DEF TypeOK
<1>2. CASE req[r].op = "test" /\ req[r].i = 1
  <2> DEFINE f == [req[r] EXCEPT !.pc = "findScope", !.i = 2, !.t = None, !.d = None]
  <2> "findScope" \in Pc /\ 2 \in 1 .. 2
    BY PcTyped, SMT
  <2>1. f \in Slot /\ f.pc = "findScope"
    <3>1. f \in Slot
      BY <1>1, Zenon DEF Slot
    <3> QED BY <1>1, <3>1, Zenon DEF Slot
  <2> QED BY <1>2, <2>1, Zenon DEF AfterScope, Moves, Resting, Pc
<1>3. CASE ~(req[r].op = "test" /\ req[r].i = 1)
  <2> DEFINE f == [req[r] EXCEPT !.pc = "offer", !.k = 1, !.t = None, !.d = None]
  <2> "offer" \in Pc
    BY PcTyped
  <2>1. f \in Slot /\ f.pc = "offer"
    <3>1. f \in Slot
      BY <1>1, NInNat, Zenon DEF Slot
    <3> QED BY <1>1, <3>1, Zenon DEF Slot
  <2> QED BY <1>3, <2>1, Zenon DEF AfterScope, Moves, Resting, Pc
<1> QED BY <1>2, <1>3

LEMMA AfterMappingMoves ==
  ASSUME NEW r \in Slots, TypeOK, AfterMapping(r)
  PROVE  Moves(r)
  BY AfterScopeMoves, EndMoves DEF AfterMapping

LEMMA RestingGoto == {"readTypes", "answered", "readTemplates", "findWanted", "define",
                      "mapTemplate", "claim"} \subseteq Resting
  BY SMT DEF Resting, Pc

LEMMA AfterSaveMoves ==
  ASSUME NEW r \in Slots, TypeOK, NEW t \in Templates, AfterSave(r, t)
  PROVE  Moves(r)
<1>1. CASE req[r].op = "admin"
  <2> DEFINE f == [req[r] EXCEPT !.pc = "readTemplates", !.t = t]
  <2>1. req[r] \in Slot /\ "readTemplates" \in Pc /\ "readTemplates" \in Resting
    BY SMT DEF TypeOK, Resting, Pc
  <2>2. f \in Slot
    BY <2>1, Zenon DEF Slot
  <2>3. f.pc = "readTemplates"
    BY <2>1, Zenon DEF Slot
  <2>4. Become(r, f)
    BY <1>1 DEF AfterSave
  <2> QED BY <2>1, <2>2, <2>3, <2>4 DEF Moves
<1>2. CASE req[r].op # "admin"
  BY <1>2, NextDefaultMoves DEF AfterSave
<1> QED BY <1>1, <1>2

LEMMA AnswerMoves ==
  ASSUME NEW r \in Slots, TypeOK, Answer(r)
  PROVE  Moves(r)
<1>1. CASE req[r].op = "test"
  BY <1>1, RestingGoto, GotoMoves DEF Answer
<1>2. CASE req[r].op # "test"
  BY <1>2, EndMoves DEF Answer
<1> QED BY <1>1, <1>2

LEMMA GiveUpMoves ==
  ASSUME NEW r \in Slots, TypeOK, GiveUp(r)
  PROVE  Moves(r)
  BY AnswerMoves, AfterScopeMoves DEF GiveUp

LEMMA NextOfferMoves ==
  ASSUME NEW r \in Slots, TypeOK, NEW got \in SUBSET (1 .. N), NextOffer(r, got)
  PROVE  Moves(r)
<1>1. req[r] \in Slot
  BY DEF TypeOK
<1>2. CASE req[r].op = "test" /\ req[r].k < N
  <2> DEFINE f == [req[r] EXCEPT !.pc = "offer", !.k = @ + 1, !.got = got]
  <2> "offer" \in Pc /\ req[r].k + 1 \in 1 .. N
    BY <1>1, <1>2, NInNat, SlotFields, PcTyped, SMT
  <2>1. f \in Slot /\ f.pc = "offer"
    <3>1. f \in Slot
      BY <1>1, Zenon DEF Slot
    <3> QED BY <1>1, <3>1, Zenon DEF Slot
  <2> QED BY <1>2, <2>1, Zenon DEF NextOffer, Moves, Resting, Pc
<1>3. CASE req[r].op = "test" /\ ~(req[r].k < N)
  <2> DEFINE f == [req[r] EXCEPT !.pc = "answered", !.got = got]
  <2> "answered" \in Pc
    BY PcTyped
  <2>1. f \in Slot /\ f.pc = "answered"
    <3>1. f \in Slot
      BY <1>1, Zenon DEF Slot
    <3> QED BY <1>1, <3>1, Zenon DEF Slot
  <2> QED BY <1>3, <2>1, Zenon DEF NextOffer, Moves, Resting, Pc
<1>4. CASE req[r].op # "test"
  BY <1>4, EndMoves DEF NextOffer
<1> QED BY <1>2, <1>3, <1>4

-----------------------------------------------------------------------------
(***************************************************************************)
(* What a step has to show.                                                *)
(***************************************************************************)
LEMMA RestingOK ==
  ASSUME NEW f, f.pc \in Resting, NEW ts
  PROVE  SlotOK(f, ts)
  BY SMT DEF SlotOK, Resting

\* The tables may change as long as templates with an id keep their variables.
LEMMA Frame ==
  ASSUME IInv, NEW r \in Slots, NEW f \in Slot, Become(r, f),
         templates' \in [Templates -> TemplateRow],
         definitions' \in [Definitions -> DefinitionRow],
         mappings' \in [Mappings -> MappingRow],
         claims' \subseteq Defaults \cup {None},
         provider' \in Provider \cup {None},
         FlagsTyped,
         Keeps(templates, templates'), SlotOK(f, templates'), MapsOK'
  PROVE  IInv'
<1>1. req' \in [Slots -> Slot] /\ req' = [req EXCEPT ![r] = f]
  BY Zenon DEF IInv, TypeOK, Become
<1>2. TypeOK'
  BY <1>1 DEF TypeOK, FlagsTyped
<1>3. SlotsOK'
  <2> SUFFICES ASSUME NEW s \in Slots
               PROVE  SlotOK(req[s], templates)'
    BY DEF SlotsOK
  <2>1. CASE s = r
    BY <2>1, <1>1, Zenon DEF IInv, TypeOK
  <2>2. CASE s # r
    <3>1. req'[s] = req[s]
      BY <2>2, <1>1, Zenon DEF IInv, TypeOK
    <3>2. SlotOK(req[s], templates)
      BY DEF IInv, SlotsOK
    <3>3. SlotOK(req[s], templates')
      BY <3>2, SMT DEF SlotOK, Born, Keeps
    <3> QED BY <3>1, <3>3
  <2> QED BY <2>1, <2>2
<1> QED BY <1>2, <1>3 DEF IInv

\* A step of a handler that leaves the three tables alone.
Reading == UNCHANGED <<templates, definitions, mappings>>

LEMMA ReadingFrame ==
  ASSUME IInv, NEW r \in Slots, NEW f \in Slot, Become(r, f), Reading,
         claims' \subseteq Defaults \cup {None},
         provider' \in Provider \cup {None},
         FlagsTyped,
         SlotOK(f, templates)
  PROVE  IInv'
<1>1. Keeps(templates, templates') /\ SlotOK(f, templates')
  BY DEF Keeps, Reading
<1>2. MapsOK'
  BY DEF IInv, MapsOK, Reading
<1>3. /\ templates' \in [Templates -> TemplateRow]
      /\ definitions' \in [Definitions -> DefinitionRow]
      /\ mappings' \in [Mappings -> MappingRow]
  BY DEF IInv, TypeOK, Reading
<1> QED BY <1>1, <1>2, <1>3, Frame

LEMMA MovesFrame ==
  ASSUME IInv, NEW r \in Slots, Moves(r), Reading,
         claims' \subseteq Defaults \cup {None},
         provider' \in Provider \cup {None},
         FlagsTyped
  PROVE  IInv'
<1>1. PICK f \in Slot : f.pc \in Resting /\ Become(r, f)
  BY DEF Moves
<1> QED BY <1>1, RestingOK, ReadingFrame

\* Taking a request and going on with one leave the counters typed.
LEMMA TakeFacts ==
  ASSUME TypeOK, NEW r \in Slots, NEW f, Take(r, f)
  PROVE  Become(r, f) /\ FlagsTyped
<1>1. (calm /\ Quiet) \in BOOLEAN
  OBVIOUS
<1>2. count' \in [requests : Nat, crashes : Nat]
  BY SMT DEF TypeOK, Take
<1>3. unseen' \subseteq Templates
  BY DEF TypeOK, Take
<1> QED BY <1>1, <1>2, <1>3, Zenon DEF Take, FlagsTyped

LEMMA ResumeFacts ==
  ASSUME TypeOK, NEW r \in Slots, NEW pc, Resume(r, pc), unseen' \subseteq Templates
  PROVE  FlagsTyped /\ req[r].pc = pc
  BY DEF TypeOK, Resume, Busy, FlagsTyped

LEMMA MissedTyped ==
  ASSUME TypeOK, NEW ts \in SUBSET Templates, Missed(ts)
  PROVE  unseen' \subseteq Templates
  BY DEF TypeOK, Missed

LEMMA StepFacts ==
  ASSUME TypeOK, NEW r \in Slots, NEW pc, Step(r, pc)
  PROVE  /\ FlagsTyped
         /\ req[r].pc = pc
  BY DEF TypeOK, Step, Resume, Busy, FlagsTyped

\* A step of a handler on the way, that reads only.
LEMMA MovesStep ==
  ASSUME IInv, NEW r \in Slots, NEW pc, Step(r, pc), Moves(r),
         UNCHANGED <<tables, provider>>
  PROVE  IInv'
<1>1. /\ FlagsTyped
      /\ claims' \subseteq Defaults \cup {None} /\ provider' \in Provider \cup {None}
  BY StepFacts DEF IInv, TypeOK, tables
<1>2. Reading
  BY DEF Reading, tables
<1> QED BY <1>1, <1>2, MovesFrame

\* A request that is taken.
LEMMA TakenFrame ==
  ASSUME IInv, NEW r \in Slots, NEW f \in Slot, Take(r, f), SlotOK(f, templates),
         UNCHANGED <<tables, provider>>
  PROVE  IInv'
<1>1. /\ claims' \subseteq Defaults \cup {None} /\ provider' \in Provider \cup {None}
      /\ TypeOK
  BY DEF IInv, TypeOK, tables
<1>2. Reading
  BY DEF Reading, tables
<1> QED BY <1>1, <1>2, TakeFacts, ReadingFrame

-----------------------------------------------------------------------------
(***************************************************************************)
(* Requests that are taken.                                                *)
(***************************************************************************)
LEMMA UseProviderStep ==
  ASSUME IInv, NEW r \in Slots, UseProvider(r)
  PROVE  IInv'
<1>1. "readTemplates" \in Pc /\ "use" \in Ops /\ "readTemplates" \in Resting
  BY SMT DEF Pc, Ops, Resting
<1> QED BY <1>1, StartType, RestingOK, TakenFrame DEF UseProvider

LEMMA CreateTemplateStep ==
  ASSUME IInv, NEW r \in Slots, NEW n \in AdminNames, NEW ty \in AdminTypes,
         NEW holes \in BOOLEAN, NEW display \in Displays,
         CreateTemplate(r, n, ty, holes, display)
  PROVE  IInv'
<1> DEFINE q == Start("saveTemplate", "admin")
           row == [live |-> "live", name |-> n, types |-> ty, holes |-> holes,
                   variables |-> holes, display |-> display]
           f == [q EXCEPT !.row = row]
<1>1. "saveTemplate" \in Pc /\ "admin" \in Ops /\ "saveTemplate" \in Resting
  BY SMT DEF Pc, Ops, Resting
<1>2. q \in Slot /\ q.pc = "saveTemplate"
  BY <1>1, StartType
<1>3. row \in TemplateRow
  BY CatalogueAssumption, SMT DEF CatalogueAssumption, TemplateRow, Lives, Types
<1>4. f \in Slot /\ f.pc = "saveTemplate"
  <2> HIDE DEF q, row
  <2> QED BY <1>2, <1>3, Zenon DEF Slot
<1>5. Take(r, f) /\ UNCHANGED <<tables, provider>>
  BY DEF CreateTemplate, Template
<1> QED BY <1>1, <1>4, <1>5, RestingOK, TakenFrame

LEMMA UpdateTemplateStep ==
  ASSUME IInv, NEW r \in Slots, NEW t \in LiveTemplates, NEW dto \in Updates(t),
         UpdateTemplate(r, t, dto)
  PROVE  IInv'
<1> DEFINE q == Start("saveUpdate", "admin")
           row == Updated(t, dto)
           f == [q EXCEPT !.t = t, !.row = row]
<1>1. "saveUpdate" \in Pc /\ "admin" \in Ops
  BY SMT DEF Pc, Ops
<1>2. q \in Slot /\ q.pc = "saveUpdate"
  BY <1>1, StartType
<1>3. t \in Templates /\ templates[t] \in TemplateRow /\ templates[t].live = "live"
  BY DEF LiveTemplates, IInv, TypeOK
<1>4. row \in TemplateRow /\ row.live = "live" /\ row.variables = templates[t].variables
  <2>0. /\ dto.name \in Defaults \cup {None} /\ dto.types \in Types \cup {None}
        /\ dto.display \in Displays \cup {None} /\ dto.holes \in BOOLEAN
    BY <1>3, CatalogueAssumption, SMT
    DEF CatalogueAssumption, Updates, TemplateRow, Types
  <2>1. row \in TemplateRow
    BY <1>3, <2>0, Zenon DEF TemplateRow, Updated
  <2>2. row.live = "live" /\ row.variables = templates[t].variables
    BY <1>3, Zenon DEF TemplateRow, Updated
  <2> QED BY <2>1, <2>2
<1>5. f \in Slot /\ f.pc = "saveUpdate" /\ f.t = t /\ f.row = row
  <2> HIDE DEF q, row
  <2>1. f \in Slot
    BY <1>2, <1>3, <1>4, Zenon DEF Slot
  <2>2. f.pc = "saveUpdate" /\ f.t = t /\ f.row = row
    BY <1>2, Zenon DEF Slot
  <2> QED BY <2>1, <2>2
<1>6. SlotOK(f, templates)
  <2> HIDE DEF f, row
  <2> QED BY <1>3, <1>4, <1>5, SMT DEF SlotOK, Born
<1>7. Take(r, f) /\ UNCHANGED <<tables, provider>>
  BY DEF UpdateTemplate
<1> QED BY <1>5, <1>6, <1>7, TakenFrame

LEMMA RemoveTemplateStep ==
  ASSUME IInv, NEW r \in Slots, NEW t \in Templates, RemoveTemplate(r, t)
  PROVE  IInv'
<1> DEFINE q == Start("deleteTemplate", "admin")
           f == [q EXCEPT !.t = t]
<1>1. "deleteTemplate" \in Pc /\ "admin" \in Ops
  BY SMT DEF Pc, Ops
<1>2. q \in Slot /\ q.pc = "deleteTemplate"
  BY <1>1, StartType
<1>3. f \in Slot /\ f.pc = "deleteTemplate" /\ f.t = t
  <2> HIDE DEF q
  <2> QED BY <1>2, SMT DEF Slot
<1>4. SlotOK(f, templates)
  <2> HIDE DEF f
  <2>1. templates[t].live = "live"
    BY DEF RemoveTemplate, LiveTemplates
  <2> QED BY <1>3, <2>1, SMT DEF SlotOK, Born
<1>5. Take(r, f) /\ UNCHANGED <<tables, provider>>
  BY DEF RemoveTemplate
<1> QED BY <1>3, <1>4, <1>5, TakenFrame

LEMMA RedefineScopeStep ==
  ASSUME IInv, NEW r \in Slots, NEW d \in Definitions, RedefineScope(r, d)
  PROVE  IInv'
<1> DEFINE q == Start("saveRedefined", "admin")
           f == [q EXCEPT !.d = d, !.drow = definitions[d]]
<1>1. "saveRedefined" \in Pc /\ "admin" \in Ops
  BY SMT DEF Pc, Ops
<1>2. q \in Slot /\ q.pc = "saveRedefined"
  BY <1>1, StartType
<1>3. definitions[d] \in DefinitionRow
  BY DEF IInv, TypeOK
<1>4. f \in Slot /\ f.pc = "saveRedefined" /\ f.d = d /\ f.drow = definitions[d]
  <2> HIDE DEF q
  <2>1. f \in Slot
    BY <1>2, <1>3, Zenon DEF Slot
  <2>2. f.pc = "saveRedefined" /\ f.d = d /\ f.drow = definitions[d]
    BY <1>2, Zenon DEF Slot
  <2> QED BY <2>1, <2>2
<1>5. SlotOK(f, templates)
  <2>1. definitions[d].live = "live"
    BY DEF RedefineScope, LiveDefinitions
  <2> HIDE DEF f
  <2> QED BY <1>4, <2>1, SMT DEF SlotOK
<1>6. Take(r, f) /\ UNCHANGED <<tables, provider>>
  BY DEF RedefineScope
<1> QED BY <1>4, <1>5, <1>6, TakenFrame

LEMMA MapScopeStep ==
  ASSUME IInv, NEW r \in Slots, NEW d \in Definitions, NEW t \in LiveTemplates,
         MapScope(r, d, t)
  PROVE  IInv'
<1> DEFINE q == Start("mapTemplate", "admin")
           f == [q EXCEPT !.d = d, !.t = t]
<1>1. "mapTemplate" \in Pc /\ "admin" \in Ops /\ "mapTemplate" \in Resting
  BY SMT DEF Pc, Ops, Resting
<1>2. q \in Slot /\ q.pc = "mapTemplate" /\ t \in Templates
  BY <1>1, StartType DEF LiveTemplates
<1>3. f \in Slot /\ f.pc = "mapTemplate"
  <2> HIDE DEF q
  <2>1. f \in Slot
    BY <1>2, Zenon DEF Slot
  <2>2. f.pc = "mapTemplate"
    BY <1>2, Zenon DEF Slot
  <2> QED BY <2>1, <2>2
<1>4. Take(r, f) /\ UNCHANGED <<tables, provider>>
  BY DEF MapScope
<1> QED BY <1>1, <1>3, <1>4, RestingOK, TakenFrame

LEMMA UnmapStep ==
  ASSUME IInv, NEW r \in Slots, NEW m \in Mappings, Unmap(r, m)
  PROVE  IInv'
<1> DEFINE q == Start("deleteMapping", "admin")
           f == [q EXCEPT !.m = m]
<1>1. "deleteMapping" \in Pc /\ "admin" \in Ops
  BY SMT DEF Pc, Ops
<1>2. q \in Slot /\ q.pc = "deleteMapping"
  BY <1>1, StartType
<1>3. f \in Slot /\ f.pc = "deleteMapping" /\ f.m = m
  <2> HIDE DEF q
  <2> QED BY <1>2, SMT DEF Slot
<1>4. SlotOK(f, templates)
  <2> HIDE DEF f
  <2> QED BY <1>3, SMT DEF SlotOK
<1>5. Take(r, f) /\ UNCHANGED <<tables, provider>>
  BY DEF Unmap
<1> QED BY <1>3, <1>4, <1>5, TakenFrame

LEMMA AskTestsStep ==
  ASSUME IInv, NEW r \in Slots, AskTests(r)
  PROVE  IInv'
<1> DEFINE q == Start("findDefault", "test")
           f == [q EXCEPT !.back = "pickTemplate"]
<1>1. "findDefault" \in Pc /\ "test" \in Ops /\ "findDefault" \in Resting
  BY SMT DEF Pc, Ops, Resting
<1>2. q \in Slot /\ q.pc = "findDefault"
  BY <1>1, StartType
<1>3. f \in Slot /\ f.pc = "findDefault"
  <2> HIDE DEF q
  <2> QED BY <1>2, Zenon DEF Slot
<1>4. Take(r, f) /\ UNCHANGED <<tables, provider>>
  BY DEF AskTests
<1> QED BY <1>1, <1>3, <1>4, RestingOK, TakenFrame

LEMMA AskOfferStep ==
  ASSUME IInv, NEW r \in Slots, NEW t \in LiveTemplates, NEW s \in Scopes,
         AskOffer(r, t, s)
  PROVE  IInv'
<1> DEFINE q == Start("findDefault", "offer")
           p == [q.picked EXCEPT ![1] = t]
           f == [q EXCEPT !.back = "findScope", !.picked[1] = t, !.scope = s]
           g == [q EXCEPT !.back = "findScope", !.picked = p, !.scope = s]
<1>1. "findDefault" \in Pc /\ "offer" \in Ops /\ "findDefault" \in Resting
  BY SMT DEF Pc, Ops, Resting
<1>2. q \in Slot /\ q.pc = "findDefault" /\ t \in Templates
  BY <1>1, StartType DEF LiveTemplates
<1>3. p \in [1 .. N -> Templates \cup {None}]
  <2>1. q.picked \in [1 .. N -> Templates \cup {None}]
    BY <1>2, SlotFields
  <2> QED BY <2>1, <1>2, Zenon
<1>4. f = g
  BY Zenon
<1>5. g \in Slot /\ g.pc = "findDefault"
  <2> HIDE DEF q, p
  <2>1. g \in Slot
    BY <1>2, <1>3, Zenon DEF Slot
  <2>2. g.pc = "findDefault"
    BY <1>2, Zenon DEF Slot
  <2> QED BY <2>1, <2>2
<1>6. Take(r, f) /\ UNCHANGED <<tables, provider>>
  BY DEF AskOffer
<1> QED BY <1>1, <1>4, <1>5, <1>6, RestingOK, TakenFrame

-----------------------------------------------------------------------------
(***************************************************************************)
(* Steps that read, or write what IInv only types.                         *)
(***************************************************************************)
LEMMA FindDefaultStep ==
  ASSUME IInv, NEW r \in Slots, FindDefault(r)
  PROVE  IInv'
<1>1. Step(r, "findDefault") /\ UNCHANGED <<tables, provider>> /\ TypeOK
  BY DEF FindDefault, IInv
<1>2. Goto(r, "readTypes") \/ NextDefault(r)
  BY DEF FindDefault
<1> QED BY <1>1, <1>2, RestingGoto, GotoMoves, NextDefaultMoves, MovesStep

LEMMA ReadTypesStep ==
  ASSUME IInv, NEW r \in Slots, ReadTypes(r)
  PROVE  IInv'
<1> DEFINE n   == DefaultNames[req[r].k]
           row == [live |-> "live", name |-> n, types |-> n, holes |-> FALSE,
                   variables |-> FALSE, display |-> None]
           f   == [req[r] EXCEPT !.pc = "saveTemplate", !.row = row]
<1>1. Step(r, "readTypes") /\ UNCHANGED <<tables, provider>> /\ TypeOK
  BY DEF ReadTypes, DefaultTemplate, Template, IInv
<1>2. req[r] \in Slot
  BY <1>1 DEF TypeOK
<1>3. n \in Defaults
  BY <1>2, SlotFields, NamesTyped
<1>4. row \in TemplateRow
  <2> HIDE DEF n
  <2> QED BY <1>3, SMT DEF TemplateRow, Lives, Types
<1>5. "saveTemplate" \in Pc /\ "saveTemplate" \in Resting
  BY SMT DEF Pc, Resting
<1>6. f \in Slot /\ f.pc = "saveTemplate"
  <2> HIDE DEF row
  <2>1. f \in Slot
    BY <1>2, <1>4, <1>5, Zenon DEF Slot
  <2>2. f.pc = "saveTemplate"
    BY <1>2, Zenon DEF Slot
  <2> QED BY <2>1, <2>2
<1>7. Become(r, f) \/ GiveUp(r)
  BY DEF ReadTypes, DefaultTemplate, Template
<1>8. Moves(r)
  BY <1>1, <1>5, <1>6, <1>7, GiveUpMoves DEF Moves
<1> QED BY <1>1, <1>8, MovesStep

LEMMA PickTemplateStep ==
  ASSUME IInv, NEW r \in Slots, PickTemplate(r)
  PROVE  IInv'
<1>1. Step(r, "pickTemplate") /\ UNCHANGED <<tables, provider>> /\ TypeOK
  BY DEF PickTemplate, IInv
<1>2. req[r] \in Slot
  BY <1>1 DEF TypeOK
<1>3. PICK t \in FoundByName(DefaultNames[req[r].k]) :
        LET now == [req[r] EXCEPT !.picked[req[r].k] = t]
        IN  IF req[r].k < N THEN Become(r, [now EXCEPT !.k = @ + 1])
            ELSE IF \E j \in 1 .. N : now.picked[j] = None THEN Answer(r)
            ELSE Become(r, [now EXCEPT !.pc = "findScope"])
  BY DEF PickTemplate
<1> DEFINE p   == [req[r].picked EXCEPT ![req[r].k] = t]
           now == [req[r] EXCEPT !.picked = p]
<1>4. t \in Templates \cup {None}
  BY Zenon DEF FoundByName, LiveTemplates
<1>5. now \in Slot /\ now.pc = "pickTemplate"
  <2>1. p \in [1 .. N -> Templates \cup {None}]
    <3>1. req[r].picked \in [1 .. N -> Templates \cup {None}]
      BY <1>2, SlotFields
    <3> QED BY <3>1, <1>4, Zenon
  <2> HIDE DEF p
  <2>2. now \in Slot
    BY <1>2, <2>1, Zenon DEF Slot
  <2>3. now.pc = req[r].pc
    BY <1>2, Zenon DEF Slot
  <2> QED BY <2>2, <2>3, <1>1, StepFacts
<1>6. [req[r] EXCEPT !.picked[req[r].k] = t] = now
  BY Zenon
<1> HIDE DEF now
<1>7. CASE req[r].k < N
  <2> DEFINE f == [now EXCEPT !.k = @ + 1]
  <2>1. now.k = req[r].k
    BY <1>2, Zenon DEF Slot, now
  <2>2. now.k + 1 \in 1 .. N
    BY <1>2, <1>7, <2>1, NInNat, SlotFields, SMT
  <2>3. f \in Slot
    BY <1>5, <2>2, Zenon DEF Slot
  <2>4. f.pc = "pickTemplate"
    BY <1>5, Zenon DEF Slot
  <2>5. Become(r, f)
    BY <1>3, <1>6, <1>7
  <2>6. "pickTemplate" \in Resting
    BY SMT DEF Resting, Pc
  <2>7. Moves(r)
    BY <2>3, <2>4, <2>5, <2>6 DEF Moves
  <2> QED BY <1>1, <2>7, MovesStep
<1>8. CASE ~(req[r].k < N)
  <2>1. Answer(r) \/ Become(r, [now EXCEPT !.pc = "findScope"])
    BY <1>3, <1>6, <1>8
  <2>2. CASE Answer(r)
    BY <1>1, <2>2, AnswerMoves, MovesStep
  <2>3. CASE Become(r, [now EXCEPT !.pc = "findScope"])
    <3>1. "findScope" \in Pc /\ "findScope" \in Resting
      BY SMT DEF Resting, Pc
    <3>2. /\ [now EXCEPT !.pc = "findScope"] \in Slot
          /\ [now EXCEPT !.pc = "findScope"].pc = "findScope"
      BY <1>5, <3>1, GotoType, Zenon DEF Slot
    <3>3. Moves(r)
      BY <2>3, <3>1, <3>2 DEF Moves
    <3> QED BY <1>1, <3>3, MovesStep
  <2> QED BY <2>1, <2>2, <2>3
<1> QED BY <1>7, <1>8

LEMMA FindScopeStep ==
  ASSUME IInv, NEW r \in Slots, FindScope(r)
  PROVE  IInv'
<1> DEFINE wanted == IF req[r].op = "test" THEN "interop" ELSE req[r].scope
           f      == [req[r] EXCEPT !.pc = "findWanted", !.scope = wanted]
<1>1. Step(r, "findScope") /\ UNCHANGED <<tables, provider>> /\ TypeOK
  BY DEF FindScope, IInv
<1>2. req[r] \in Slot
  BY <1>1 DEF TypeOK
<1>3. wanted \in Scopes
  BY <1>2, SlotFields, SMT DEF Scopes
<1>4. "findWanted" \in Pc /\ "findWanted" \in Resting
  BY SMT DEF Pc, Resting
<1>5. f \in Slot /\ f.pc = "findWanted"
  <2> HIDE DEF wanted
  <2>1. f \in Slot
    BY <1>2, <1>3, <1>4, Zenon DEF Slot
  <2>2. f.pc = "findWanted"
    BY <1>2, Zenon DEF Slot
  <2> QED BY <2>1, <2>2
<1>6. AfterScope(r) \/ Become(r, f)
  BY DEF FindScope
<1>7. CASE AfterScope(r)
  BY <1>1, <1>7, AfterScopeMoves, MovesStep
<1>8. CASE Become(r, f)
  BY <1>1, <1>4, <1>5, <1>8, MovesStep, Zenon DEF Moves
<1> QED BY <1>6, <1>7, <1>8

LEMMA FindWantedStep ==
  ASSUME IInv, NEW r \in Slots, FindWanted(r)
  PROVE  IInv'
<1>1. Step(r, "findWanted") /\ UNCHANGED <<tables, provider>> /\ TypeOK
  BY DEF FindWanted, IInv
<1>2. AfterScope(r) \/ Goto(r, "define")
  BY DEF FindWanted
<1> QED BY <1>1, <1>2, RestingGoto, GotoMoves, AfterScopeMoves, MovesStep

\* A handler that has found a Verification template goes on to map it.
LEMMA MapFoundMoves ==
  ASSUME NEW r \in Slots, TypeOK, NEW t \in Templates \cup {None},
         Become(r, [req[r] EXCEPT !.pc = "mapDefinition", !.t = t])
  PROVE  Moves(r)
<1> DEFINE f == [req[r] EXCEPT !.pc = "mapDefinition", !.t = t]
<1>1. "mapDefinition" \in Pc /\ "mapDefinition" \in Resting
  BY SMT DEF Pc, Resting
<1>2. req[r] \in Slot
  BY DEF TypeOK
<1>3. f \in Slot
  BY <1>1, <1>2, Zenon DEF Slot
<1>4. f.pc = "mapDefinition"
  BY <1>2, Zenon DEF Slot
<1> QED BY <1>1, <1>3, <1>4 DEF Moves

LEMMA FindVerificationStep ==
  ASSUME IInv, NEW r \in Slots, FindVerification(r)
  PROVE  IInv'
<1> DEFINE f == [req[r] EXCEPT !.pc = "findDefault", !.k = 1, !.back = "findMade"]
<1>1. Step(r, "findVerification") /\ UNCHANGED <<tables, provider>> /\ TypeOK
  BY DEF FindVerification, IInv
<1>2. req[r] \in Slot
  BY <1>1 DEF TypeOK
<1>3. "findDefault" \in Pc /\ "findDefault" \in Resting
  BY SMT DEF Pc, Resting
<1>4. f \in Slot /\ f.pc = "findDefault"
  <2>1. f \in Slot
    BY <1>2, <1>3, NInNat, Zenon DEF Slot
  <2>2. f.pc = "findDefault"
    BY <1>2, Zenon DEF Slot
  <2> QED BY <2>1, <2>2
<1>5. PICK t \in FoundByName(Verification) :
        Become(r, f) \/ Become(r, [req[r] EXCEPT !.pc = "mapDefinition", !.t = t])
  BY DEF FindVerification
<1>6. t \in Templates \cup {None}
  BY Zenon DEF FoundByName, LiveTemplates
<1>7. CASE Become(r, f)
  BY <1>1, <1>3, <1>4, <1>7, MovesStep, Zenon DEF Moves
<1>8. CASE ~Become(r, f)
  BY <1>1, <1>5, <1>6, <1>8, MapFoundMoves, MovesStep
<1> QED BY <1>7, <1>8

LEMMA FindMadeStep ==
  ASSUME IInv, NEW r \in Slots, FindMade(r)
  PROVE  IInv'
<1>1. Step(r, "findMade") /\ UNCHANGED <<tables, provider>> /\ TypeOK
  BY DEF FindMade, IInv
<1>2. PICK t \in FoundByName(Verification) :
        AfterScope(r) \/ Become(r, [req[r] EXCEPT !.pc = "mapDefinition", !.t = t])
  BY DEF FindMade
<1>3. t \in Templates \cup {None}
  BY Zenon DEF FoundByName, LiveTemplates
<1> QED BY <1>1, <1>2, <1>3, AfterScopeMoves, MapFoundMoves, MovesStep

LEMMA MapDefinitionStep ==
  ASSUME IInv, NEW r \in Slots, MapDefinition(r)
  PROVE  IInv'
<1>1. Step(r, "mapDefinition") /\ UNCHANGED <<tables, provider>> /\ TypeOK
  BY DEF MapDefinition, IInv
<1>2. Goto(r, "mapTemplate") \/ AfterScope(r)
  BY DEF MapDefinition
<1> QED BY <1>1, <1>2, RestingGoto, GotoMoves, AfterScopeMoves, MovesStep

LEMMA MakeOfferStep ==
  ASSUME IInv, NEW r \in Slots, MakeOffer(r)
  PROVE  IInv'
<1>1. Step(r, "offer") /\ UNCHANGED <<tables, provider>> /\ TypeOK
  BY DEF MakeOffer, IInv
<1>2. Goto(r, "claim") \/ NextOffer(r, req[r].got)
  BY DEF MakeOffer
<1>3. req[r].got \in SUBSET (1 .. N)
  BY <1>1, SlotFields DEF TypeOK
<1> QED BY <1>1, <1>2, <1>3, RestingGoto, GotoMoves, NextOfferMoves, MovesStep

LEMMA DeliverStep ==
  ASSUME IInv, NEW r \in Slots, Deliver(r)
  PROVE  IInv'
  BY EndMoves, MovesStep DEF Deliver, IInv

LEMMA SaveClaimStep ==
  ASSUME IInv, NEW r \in Slots, SaveClaim(r)
  PROVE  IInv'
<1>1. Step(r, "claim") /\ TypeOK /\ req[r] \in Slot
  BY DEF SaveClaim, IInv, TypeOK
<1>2. ClaimTypes(r) \subseteq Defaults \cup {None}
  BY <1>1, SlotFields, NamesTyped, CatalogueAssumption DEF ClaimTypes, CatalogueAssumption
<1>3. claims' \subseteq Defaults \cup {None}
  BY <1>1, <1>2 DEF SaveClaim, TypeOK
<1>4. req[r].got \cup {req[r].k} \in SUBSET (1 .. N)
  BY <1>1, SlotFields
<1>5. Moves(r)
  BY <1>1, <1>4, NextOfferMoves DEF SaveClaim
<1>6. Reading /\ provider' \in Provider \cup {None}
  BY <1>1 DEF SaveClaim, Reading, TypeOK
<1> QED BY <1>1, <1>3, <1>5, <1>6, StepFacts, MovesFrame

LEMMA FailStep ==
  ASSUME IInv, NEW r \in Slots, Fail(r)
  PROVE  IInv'
<1>1. TypeOK /\ Moves(r)
  BY EndMoves DEF Fail, IInv
<1>2. Reading /\ provider' \in Provider \cup {None} /\ claims' \subseteq Defaults \cup {None}
  BY <1>1 DEF Fail, Reading, tables, TypeOK
<1>3. unseen' \subseteq Templates
  <2>1. req[r].t \in Templates \cup {None}
    BY <1>1, SlotFields DEF TypeOK
  <2>2. (IF req[r].pc \in Refreshing THEN {req[r].t} \ {None} ELSE {}) \in SUBSET Templates
    BY <2>1
  <2> QED BY <1>1, <2>2, MissedTyped DEF Fail
<1>4. FlagsTyped
  BY <1>1, <1>3, SMT DEF Fail, Crash, TypeOK, FlagsTyped
<1> QED BY <1>1, <1>2, <1>4, MovesFrame

LEMMA ReadTemplatesStep ==
  ASSUME IInv, NEW r \in Slots, ReadTemplates(r)
  PROVE  IInv'
<1> DEFINE f == [req[r] EXCEPT !.pc = "readDefinitions", !.seen = Announced]
<1>1. Step(r, "readTemplates") /\ UNCHANGED <<tables, provider>> /\ req[r] \in Slot
  BY DEF ReadTemplates, IInv, TypeOK
<1>2. "readDefinitions" \in Pc /\ "readDefinitions" \in Resting
  BY SMT DEF Pc, Resting
<1>3. Announced \in Listing
  <2>1. \A t \in Templates : /\ templates[t].types \in Types \cup {None}
                             /\ templates[t].display \in Displays \cup {None}
    BY SMT DEF IInv, TypeOK, TemplateRow
  <2> QED BY <2>1, SMT DEF Announced, Listing, Metadata
<1>4. f \in Slot
  BY <1>1, <1>2, <1>3, Zenon DEF Slot
<1>5. f.pc = "readDefinitions"
  BY <1>1, Zenon DEF Slot
<1>6. Moves(r)
  BY <1>2, <1>4, <1>5 DEF ReadTemplates, Moves
<1> QED BY <1>1, <1>6, MovesStep

LEMMA ReadDefinitionsStep ==
  ASSUME IInv, NEW r \in Slots, ReadDefinitions(r)
  PROVE  IInv'
<1> DEFINE a == {definitions[d].scope : d \in LiveDefinitions}
           f == [req[r] EXCEPT !.pc = "setProvider", !.announce = a]
<1>1. Step(r, "readDefinitions") /\ UNCHANGED <<tables, provider>> /\ req[r] \in Slot
  BY DEF ReadDefinitions, IInv, TypeOK
<1>2. "setProvider" \in Pc /\ "setProvider" \in Resting
  BY SMT DEF Pc, Resting
<1>3. a \in SUBSET Scopes
  BY SMT DEF LiveDefinitions, IInv, TypeOK, DefinitionRow
<1>4. f \in Slot /\ f.pc = "setProvider"
  <2> HIDE DEF a
  <2>1. f \in Slot
    BY <1>1, <1>2, <1>3, Zenon DEF Slot
  <2>2. f.pc = "setProvider"
    BY <1>1, Zenon DEF Slot
  <2> QED BY <2>1, <2>2
<1>5. Moves(r)
  BY <1>2, <1>4 DEF ReadDefinitions, Moves
<1> QED BY <1>1, <1>5, MovesStep

LEMMA SetProviderStep ==
  ASSUME IInv, NEW r \in Slots, SetProvider(r)
  PROVE  IInv'
<1>1. TypeOK /\ Moves(r) /\ req[r] \in Slot /\ FlagsTyped
  BY EndMoves DEF SetProvider, IInv, TypeOK, Resume, FlagsTyped
<1>2. Reading /\ claims' \subseteq Defaults \cup {None}
  BY <1>1 DEF SetProvider, Reading, tables, TypeOK
<1>3. provider' \in Provider \cup {None}
  BY <1>1, SlotFields, SMT DEF SetProvider, Provider
<1> QED BY <1>1, <1>2, <1>3, MovesFrame

\* A handler that goes on to a program counter that relies on something.
LEMMA CheckedStep ==
  ASSUME IInv, NEW r \in Slots, NEW pc \in Pc, NEW at, Step(r, at), Goto(r, pc),
         pc \in {"mapCheck", "saveMapping"},
         Born(req[r].t, templates), ~templates[req[r].t].variables,
         UNCHANGED <<tables, provider>>
  PROVE  IInv'
<1> DEFINE f == [req[r] EXCEPT !.pc = pc]
<1>1. req[r] \in Slot /\ TypeOK
  BY DEF IInv, TypeOK
<1>2. f \in Slot /\ f.pc = pc /\ f.t = req[r].t
  BY <1>1, SMT DEF Slot
<1>3. Become(r, f)
  BY <1>1, SMT DEF Goto, Become, TypeOK, Slot
<1>4. SlotOK(f, templates)
  <2> HIDE DEF f
  <2> QED BY <1>2, SMT DEF SlotOK
<1>5. /\ claims' \subseteq Defaults \cup {None} /\ provider' \in Provider \cup {None}
      /\ Reading
  BY <1>1 DEF TypeOK, tables, Reading
<1> QED BY <1>1, <1>2, <1>3, <1>4, <1>5, StepFacts, ReadingFrame

LEMMA MapTemplateStep ==
  ASSUME IInv, NEW r \in Slots, MapTemplate(r)
  PROVE  IInv'
<1>1. Step(r, "mapTemplate") /\ UNCHANGED <<tables, provider>> /\ TypeOK
  BY DEF MapTemplate, IInv
<1>2. CASE req[r].t \in LiveTemplates /\ ~templates[req[r].t].variables
  <2>1. Goto(r, "mapCheck") /\ "mapCheck" \in Pc
    BY <1>2, SMT DEF MapTemplate, Pc
  <2>2. Born(req[r].t, templates)
    BY <1>2, SMT DEF Born, LiveTemplates
  <2> QED BY <1>1, <1>2, <2>1, <2>2, CheckedStep
<1>3. CASE ~(req[r].t \in LiveTemplates /\ ~templates[req[r].t].variables)
  BY <1>1, <1>3, AfterMappingMoves, MovesStep DEF MapTemplate
<1> QED BY <1>2, <1>3

LEMMA MapCheckStep ==
  ASSUME IInv, NEW r \in Slots, MapCheck(r)
  PROVE  IInv'
<1>1. Step(r, "mapCheck") /\ UNCHANGED <<tables, provider>> /\ TypeOK
  BY DEF MapCheck, IInv
<1>2. CASE BoundTo(req[r].d) = {}
  <2>1. Goto(r, "saveMapping") /\ "saveMapping" \in Pc
    BY <1>2, SMT DEF MapCheck, Pc
  <2>2. Born(req[r].t, templates) /\ ~templates[req[r].t].variables
    BY <1>1, StepFacts DEF IInv, SlotsOK, SlotOK
  <2> QED BY <1>1, <2>1, <2>2, CheckedStep
<1>3. CASE BoundTo(req[r].d) # {}
  BY <1>1, <1>3, AfterMappingMoves, MovesStep DEF MapCheck
<1> QED BY <1>2, <1>3
-----------------------------------------------------------------------------
(***************************************************************************)
(* Steps that write a table.                                               *)
(***************************************************************************)
\* Moves, with a change of the tables.
LEMMA WritesFrame ==
  ASSUME IInv, NEW r \in Slots, Moves(r),
         templates' \in [Templates -> TemplateRow],
         definitions' \in [Definitions -> DefinitionRow],
         mappings' \in [Mappings -> MappingRow],
         UNCHANGED <<claims, provider>>,
         FlagsTyped,
         Keeps(templates, templates'), MapsOK'
  PROVE  IInv'
<1>1. PICK f \in Slot : f.pc \in Resting /\ Become(r, f)
  BY DEF Moves
<1>2. claims' \subseteq Defaults \cup {None} /\ provider' \in Provider \cup {None}
  BY DEF IInv, TypeOK
<1> QED BY <1>1, <1>2, RestingOK, Frame

\* Taking a request that is answered at once.
LEMMA TakeMoves ==
  ASSUME TypeOK, NEW r \in Slots, Take(r, Idle)
  PROVE  /\ Moves(r)
         /\ FlagsTyped
  BY TakeFacts, EndMoves DEF End

\* The tables that a step leaves alone.
LEMMA Tables ==
  ASSUME IInv
  PROVE  /\ templates \in [Templates -> TemplateRow]
         /\ definitions \in [Definitions -> DefinitionRow]
         /\ mappings \in [Mappings -> MappingRow]
         /\ Keeps(templates, templates)
         /\ EndsLive(mappings, definitions, templates) /\ OneToOne(mappings)
         /\ TypeOK
  BY DEF IInv, TypeOK, MapsOK, Keeps

\* Every mapping keeps its ends when live templates stay live and keep their
\* variables.
LEMMA EndsKept ==
  ASSUME IInv, NEW ts \in [Templates -> TemplateRow],
         \A t \in Templates : templates[t].live = "live" =>
             ts[t].live = "live" /\ ts[t].variables = templates[t].variables
  PROVE  EndsLive(mappings, definitions, ts)
  BY Tables DEF EndsLive

LEMMA SaveTemplateStep ==
  ASSUME IInv, NEW r \in Slots, SaveTemplate(r)
  PROVE  IInv'
<1>1. Resume(r, "saveTemplate") /\ req[r].row \in TemplateRow
  BY Tables, SlotFields DEF SaveTemplate, TypeOK
<1>2. PICK t \in Templates : /\ Serial(templates, t)
                             /\ templates' = [templates EXCEPT ![t] = req[r].row]
                             /\ AfterSave(r, t)
  BY DEF SaveTemplate
<1>10. Moves(r) /\ FlagsTyped
  <2>1. unseen' \subseteq Templates
    BY <1>2, Tables, MissedTyped DEF AfterSave, TypeOK
  <2> QED BY <1>1, <1>2, <2>1, Tables, AfterSaveMoves, ResumeFacts
<1>3. templates[t].live = "unborn"
  BY <1>2 DEF Serial
<1>4. templates' \in [Templates -> TemplateRow]
  BY <1>1, <1>2, Tables, Zenon
<1>5. \A u \in Templates : u # t => templates'[u] = templates[u]
  BY <1>2, Tables, Zenon
<1>6. Keeps(templates, templates')
  BY <1>3, <1>5 DEF Keeps
<1>7. EndsLive(mappings, definitions, templates')
  BY <1>3, <1>4, <1>5, EndsKept
<1>8. UNCHANGED <<definitions, mappings, claims, provider>>
  BY DEF SaveTemplate
<1>9. MapsOK'
  BY <1>7, <1>8, Tables DEF MapsOK
<1> QED BY <1>4, <1>6, <1>8, <1>9, <1>10, Tables, WritesFrame

LEMMA SaveUpdateStep ==
  ASSUME IInv, NEW r \in Slots, SaveUpdate(r)
  PROVE  IInv'
<1> DEFINE t == req[r].t
<1>1. Busy(r, "saveUpdate") /\ req[r].row \in TemplateRow /\ Moves(r)
  BY Tables, SlotFields, EndMoves DEF SaveUpdate, Resume, TypeOK
<1>2. /\ Born(t, templates) /\ req[r].row.live = "live"
      /\ req[r].row.variables = templates[t].variables
  BY <1>1 DEF IInv, SlotsOK, SlotOK, Busy
<1>3. templates' = [templates EXCEPT ![t] = req[r].row] /\ t \in Templates
  BY <1>2 DEF SaveUpdate, Born
<1>10. FlagsTyped
  BY <1>3, Tables, MissedTyped, ResumeFacts DEF SaveUpdate
<1> HIDE DEF t
<1>4. templates' \in [Templates -> TemplateRow]
  BY <1>1, <1>3, Tables, Zenon
<1>5. \A u \in Templates : IF u = t THEN templates'[u] = req[r].row
                                    ELSE templates'[u] = templates[u]
  BY <1>3, Tables, Zenon
<1>6. Keeps(templates, templates')
  BY <1>2, <1>5, SMT DEF Keeps
<1>7. EndsLive(mappings, definitions, templates')
  BY <1>2, <1>4, <1>5, EndsKept
<1>8. UNCHANGED <<definitions, mappings, claims, provider>>
  BY DEF SaveUpdate
<1>9. MapsOK'
  BY <1>7, <1>8, Tables DEF MapsOK
<1> QED BY <1>1, <1>4, <1>6, <1>8, <1>9, <1>10, Tables, WritesFrame

\* Taking rows away leaves the rest as they are.
LEMMA WithoutFacts ==
  ASSUME IInv, NEW ms
  PROVE  /\ Without(ms) \in [Mappings -> MappingRow]
         /\ \A m \in Mappings : Without(ms)[m].live = "live" =>
               m \notin ms /\ Without(ms)[m] = mappings[m]
         /\ OneToOne(Without(ms))
<1> DEFINE gone == [NoMapping EXCEPT !.live = "gone"]
           ws   == Without(ms)
<1>1. gone \in MappingRow /\ gone.live = "gone"
  BY SMT DEF NoMapping, MappingRow, Lives
<1>2. \A m \in Mappings : ws[m] = IF m \in ms THEN gone ELSE mappings[m]
  BY Zenon DEF Without
<1>3. ws \in [Mappings -> MappingRow]
  BY <1>1, <1>2, Tables, Zenon DEF Without
<1>4. \A m \in Mappings : ws[m].live = "live" => m \notin ms /\ ws[m] = mappings[m]
  <2> HIDE DEF gone, ws
  <2> QED BY <1>1, <1>2, SMT
<1>5. OneToOne(ws)
  <2> HIDE DEF ws
  <2> QED BY <1>4, Tables DEF OneToOne
<1> QED BY <1>3, <1>4, <1>5

LEMMA DeleteTemplateStep ==
  ASSUME IInv, NEW r \in Slots, DeleteTemplate(r)
  PROVE  IInv'
<1> DEFINE t == req[r].t
           ms == BoundBy(t)
<1>1. Step(r, "deleteTemplate") /\ Moves(r)
  BY Tables, RestingGoto, GotoMoves DEF DeleteTemplate
<1>2. Born(t, templates) /\ t \in Templates
  BY <1>1, Tables, StepFacts DEF IInv, SlotsOK, SlotOK, Born
<1>3. templates' = [templates EXCEPT ![t].live = "gone"] /\ mappings' = Without(ms)
  BY DEF DeleteTemplate
<1>4. \A m \in Mappings : m \notin ms => mappings[m].live # "live" \/ mappings[m].template # t
  BY DEF BoundBy, LiveMappings
<1> HIDE DEF t, ms
<1>5. templates' \in [Templates -> TemplateRow]
  BY <1>2, <1>3, Tables, SMT DEF TemplateRow, Lives
<1>6. \A u \in Templates : u # t => templates'[u] = templates[u]
  BY <1>2, <1>3, Tables, SMT
<1>7. templates'[t].live = "gone" /\ templates'[t].variables = templates[t].variables
  BY <1>2, <1>3, Tables, SMT DEF TemplateRow
<1>8. Keeps(templates, templates')
  BY <1>6, <1>7, SMT DEF Keeps
<1>9. EndsLive(mappings', definitions, templates')
  <2> SUFFICES ASSUME NEW m \in Mappings, mappings'[m].live = "live"
               PROVE  /\ mappings'[m].definition \in Definitions
                      /\ definitions[mappings'[m].definition].live = "live"
                      /\ mappings'[m].template \in Templates
                      /\ templates'[mappings'[m].template].live = "live"
                      /\ ~templates'[mappings'[m].template].variables
    BY Zenon DEF EndsLive
  <2>1. mappings'[m] = mappings[m] /\ mappings[m].live = "live" /\ mappings[m].template # t
    BY <1>3, <1>4, WithoutFacts
  <2> QED BY <2>1, <1>6, Tables, Zenon DEF EndsLive
<1>10. UNCHANGED <<definitions, claims, provider>>
  BY DEF DeleteTemplate
<1>11. MapsOK' /\ mappings' \in [Mappings -> MappingRow]
  BY <1>3, <1>9, <1>10, WithoutFacts DEF MapsOK
<1> QED BY <1>1, <1>5, <1>8, <1>10, <1>11, Tables, StepFacts, WritesFrame

\* A definition that appears disturbs no mapping.
LEMMA DefinedFacts ==
  ASSUME IInv, NEW d \in Definitions, NEW s \in Scopes, Defined(d, s)
  PROVE  /\ definitions' \in [Definitions -> DefinitionRow]
         /\ EndsLive(mappings, definitions', templates)
<1> DEFINE row == [live |-> "live", scope |-> s]
<1>1. row \in DefinitionRow /\ row.live = "live"
  BY SMT DEF DefinitionRow, Lives
<1>2. definitions' = [definitions EXCEPT ![d] = row]
  BY DEF Defined, NewDefinition
<1> HIDE DEF row
<1>3. definitions' \in [Definitions -> DefinitionRow]
  BY <1>1, <1>2, Tables, Zenon
<1>4. \A e \in Definitions : definitions[e].live = "live" => definitions'[e].live = "live"
  BY <1>1, <1>2, Tables, Zenon
<1> QED BY <1>3, <1>4, Tables, Zenon DEF EndsLive

LEMMA DefineScopeStep ==
  ASSUME IInv, NEW r \in Slots, NEW s \in Scopes, DefineScope(r, s)
  PROVE  IInv'
<1>1. PICK d \in Definitions : Defined(d, s)
  BY DEF DefineScope
<1>2. Take(r, Idle) /\ UNCHANGED <<templates, mappings, claims, provider>>
  BY DEF DefineScope
<1>3. MapsOK' /\ definitions' \in [Definitions -> DefinitionRow]
  BY <1>1, <1>2, DefinedFacts, Tables DEF MapsOK
<1> QED BY <1>2, <1>3, Tables, TakeMoves, WritesFrame

LEMMA DefineStep ==
  ASSUME IInv, NEW r \in Slots, Define(r)
  PROVE  IInv'
<1>1. /\ Step(r, "define") /\ UNCHANGED <<templates, mappings, claims, provider>>
      /\ req[r] \in Slot /\ req[r].scope \in Scopes
  BY Tables, SlotFields DEF Define, TypeOK
<1>2. CASE AfterScope(r) /\ UNCHANGED definitions
  <2>1. Moves(r) /\ MapsOK'
    BY <1>1, <1>2, Tables, AfterScopeMoves DEF MapsOK
  <2> QED BY <1>1, <1>2, <2>1, Tables, StepFacts, WritesFrame
<1>3. CASE \E d \in Definitions :
            /\ Defined(d, req[r].scope)
            /\ Become(r, [req[r] EXCEPT !.pc = "findVerification", !.d = d])
  <2>1. PICK d \in Definitions :
            /\ Defined(d, req[r].scope)
            /\ Become(r, [req[r] EXCEPT !.pc = "findVerification", !.d = d])
    BY <1>3
  <2> DEFINE f == [req[r] EXCEPT !.pc = "findVerification", !.d = d]
  <2>2. "findVerification" \in Pc /\ "findVerification" \in Resting
    BY SMT DEF Pc, Resting
  <2>3. f \in Slot
    BY <1>1, <2>2, Zenon DEF Slot
  <2>4. f.pc = "findVerification"
    BY <1>1, Zenon DEF Slot
  <2>5. Moves(r)
    BY <2>1, <2>2, <2>3, <2>4, Zenon DEF Moves
  <2>6. MapsOK' /\ definitions' \in [Definitions -> DefinitionRow]
    BY <1>1, <2>1, DefinedFacts, Tables DEF MapsOK
  <2> QED BY <1>1, <2>5, <2>6, Tables, StepFacts, WritesFrame
<1> QED BY <1>2, <1>3 DEF Define

LEMMA SaveRedefinedStep ==
  ASSUME IInv, NEW r \in Slots, SaveRedefined(r)
  PROVE  IInv'
<1>1. Step(r, "saveRedefined") /\ UNCHANGED <<templates, mappings, claims, provider>>
  BY DEF SaveRedefined
<1>2. Moves(r) /\ req[r].drow \in DefinitionRow
  BY Tables, EndMoves, SlotFields DEF SaveRedefined, TypeOK
<1>3. req[r].d \in Definitions /\ req[r].drow.live = "live"
  BY <1>1, Tables, StepFacts DEF IInv, SlotsOK, SlotOK
<1>4. definitions' = [definitions EXCEPT ![req[r].d] = req[r].drow] \/ definitions' = definitions
  BY DEF SaveRedefined
<1>5. definitions' \in [Definitions -> DefinitionRow]
  BY <1>2, <1>3, <1>4, Tables, Zenon
<1>6. \A e \in Definitions : definitions[e].live = "live" => definitions'[e].live = "live"
  BY <1>3, <1>4, Tables, Zenon
<1>7. MapsOK'
  BY <1>1, <1>6, Tables, Zenon DEF MapsOK, EndsLive
<1> QED BY <1>1, <1>2, <1>5, <1>7, Tables, StepFacts, WritesFrame

LEMMA UndefineStep ==
  ASSUME IInv, NEW r \in Slots, NEW d \in Definitions, Undefine(r, d)
  PROVE  IInv'
<1> DEFINE ms   == BoundTo(d)
           gone == [NoDefinition EXCEPT !.live = "gone"]
<1>1. /\ Take(r, Idle) /\ UNCHANGED <<templates, claims, provider>>
      /\ definitions' = [definitions EXCEPT ![d] = gone] /\ mappings' = Without(ms)
  BY DEF Undefine
<1>2. gone \in DefinitionRow
  BY SMT DEF NoDefinition, DefinitionRow, Lives, Scopes
<1>3. \A m \in Mappings :
        m \notin ms => mappings[m].live # "live" \/ mappings[m].definition # d
  BY DEF BoundTo, LiveMappings
<1> HIDE DEF gone, ms
<1>4. definitions' \in [Definitions -> DefinitionRow]
  BY <1>1, <1>2, Tables, Zenon
<1>5. \A e \in Definitions : e # d => definitions'[e] = definitions[e]
  BY <1>1, Tables, Zenon
<1>6. EndsLive(mappings', definitions', templates)
  <2> SUFFICES ASSUME NEW m \in Mappings, mappings'[m].live = "live"
               PROVE  /\ mappings'[m].definition \in Definitions
                      /\ definitions'[mappings'[m].definition].live = "live"
                      /\ mappings'[m].template \in Templates
                      /\ templates[mappings'[m].template].live = "live"
                      /\ ~templates[mappings'[m].template].variables
    BY Zenon DEF EndsLive
  <2>1. mappings'[m] = mappings[m] /\ mappings[m].live = "live" /\ mappings[m].definition # d
    BY <1>1, <1>3, WithoutFacts
  <2> QED BY <2>1, <1>5, Tables, Zenon DEF EndsLive
<1>7. MapsOK' /\ mappings' \in [Mappings -> MappingRow]
  BY <1>1, <1>6, WithoutFacts DEF MapsOK
<1> QED BY <1>1, <1>4, <1>7, Tables, TakeMoves, WritesFrame

LEMMA DeleteMappingStep ==
  ASSUME IInv, NEW r \in Slots, DeleteMapping(r)
  PROVE  IInv'
<1>1. /\ Step(r, "deleteMapping") /\ UNCHANGED <<templates, definitions, claims, provider>>
      /\ mappings' = Without({req[r].m}) /\ Moves(r)
  BY Tables, EndMoves DEF DeleteMapping
<1>2. EndsLive(mappings', definitions, templates)
  BY <1>1, WithoutFacts, Tables DEF EndsLive
<1>3. MapsOK' /\ mappings' \in [Mappings -> MappingRow]
  BY <1>1, <1>2, WithoutFacts DEF MapsOK
<1> QED BY <1>1, <1>3, Tables, StepFacts, WritesFrame

LEMMA SaveMappingStep ==
  ASSUME IInv, NEW r \in Slots, SaveMapping(r)
  PROVE  IInv'
<1> DEFINE d == req[r].d
           t == req[r].t
           row == [live |-> "live", definition |-> d, template |-> t]
<1>1. /\ Step(r, "saveMapping") /\ UNCHANGED <<templates, definitions, claims, provider>>
      /\ Moves(r)
  BY Tables, AfterMappingMoves DEF SaveMapping
<1>2. CASE UNCHANGED mappings
  <2>1. MapsOK'
    BY <1>1, <1>2, Tables DEF MapsOK
  <2> QED BY <1>1, <1>2, <2>1, Tables, StepFacts, WritesFrame
<1>3. CASE ~UNCHANGED mappings
  <2>1. Mappable(d, t)
    BY <1>3 DEF SaveMapping
  <2>2. PICK m \in Mappings : mappings' = [mappings EXCEPT ![m] = row]
    BY <1>3 DEF SaveMapping
  <2>3. /\ d \in Definitions /\ definitions[d].live = "live"
        /\ t \in Templates /\ templates[t].live = "live"
    BY <2>1 DEF Mappable, LiveDefinitions, LiveTemplates
  <2>4. \A n \in Mappings : mappings[n].live = "live" =>
            mappings[n].definition # d /\ mappings[n].template # t
    BY <2>1 DEF Mappable, BoundTo, BoundBy, LiveMappings
  <2>5. ~templates[t].variables
    BY <1>1, Tables, StepFacts DEF IInv, SlotsOK, SlotOK
  <2> HIDE DEF d, t
  <2>6. /\ row \in MappingRow /\ row.live = "live"
        /\ row.definition = d /\ row.template = t
    BY <2>3, SMT DEF MappingRow, Lives
  <2> HIDE DEF row
  <2>7. mappings' \in [Mappings -> MappingRow]
    BY <2>2, <2>6, Tables, Zenon
  <2>8. \A n \in Mappings : IF n = m THEN mappings'[n] = row
                                     ELSE mappings'[n] = mappings[n]
    BY <2>2, Tables, Zenon
  <2>9. EndsLive(mappings', definitions, templates)
    BY <2>3, <2>5, <2>6, <2>8, Tables, SMT DEF EndsLive
  <2>10. OneToOne(mappings')
    BY <2>4, <2>6, <2>8, Tables, SMT DEF OneToOne
  <2>11. MapsOK'
    BY <1>1, <2>9, <2>10 DEF MapsOK
  <2> QED BY <1>1, <2>7, <2>11, Tables, StepFacts, WritesFrame
<1> QED BY <1>2, <1>3

-----------------------------------------------------------------------------
(***************************************************************************)
(* The invariant holds in every state.                                     *)
(***************************************************************************)
LEMMA RestartStep ==
  ASSUME IInv, Restart
  PROVE  IInv'
<1>1. req' = [r \in Slots |-> Idle] /\ req' \in [Slots -> Slot]
  BY IdleType, Zenon DEF Restart
<1>2. provider' \in Provider \cup {None} /\ calm' \in BOOLEAN /\ unseen' \subseteq Templates
  BY Zenon DEF Restart
<1>3. count' \in [requests : Nat, crashes : Nat]
  BY SMT DEF Restart, Crash, IInv, TypeOK
<1>4. UNCHANGED tables
  BY DEF Restart
<1>5. TypeOK'
  BY <1>1, <1>2, <1>3, <1>4 DEF IInv, TypeOK, tables
<1>6. Idle.pc \in Resting
  BY SMT DEF Idle, Resting, Pc
<1>7. SlotsOK'
  BY <1>1, <1>6, RestingOK DEF SlotsOK
<1>8. MapsOK'
  BY <1>4 DEF IInv, MapsOK, tables
<1> QED BY <1>5, <1>7, <1>8 DEF IInv

LEMMA InitIInv == Init => IInv
<1> SUFFICES ASSUME Init PROVE IInv
  OBVIOUS
<1>1. req = [r \in Slots |-> Idle] /\ req \in [Slots -> Slot]
  BY IdleType, Zenon DEF Init
<1>2. /\ templates \in [Templates -> TemplateRow]
      /\ definitions \in [Definitions -> DefinitionRow]
      /\ mappings \in [Mappings -> MappingRow]
  BY EmptyRow, SMT DEF Init, NoDefinition, NoMapping, DefinitionRow, MappingRow, Lives, Scopes
<1>3. count \in [requests : Nat, crashes : Nat]
  BY SMT DEF Init
<1>4. TypeOK
  BY <1>1, <1>2, <1>3 DEF Init, TypeOK
<1>5. Idle.pc \in Resting
  BY SMT DEF Idle, Resting, Pc
<1>6. SlotsOK
  BY <1>1, <1>5, RestingOK DEF SlotsOK
<1>7. \A m \in Mappings : mappings[m].live # "live"
  BY SMT DEF Init, NoMapping
<1>8. MapsOK
  BY <1>7 DEF MapsOK, EndsLive, OneToOne
<1> QED BY <1>4, <1>6, <1>8 DEF IInv

LEMMA AdminStep ==
  ASSUME IInv, NEW r \in Slots, Admin(r)
  PROVE  IInv'
<1>1. CASE \E n \in AdminNames, ty \in AdminTypes, holes \in BOOLEAN, display \in Displays :
             CreateTemplate(r, n, ty, holes, display)
  BY <1>1, CreateTemplateStep
<1>2. CASE \E t \in LiveTemplates : \E dto \in Updates(t) : UpdateTemplate(r, t, dto)
  BY <1>2, UpdateTemplateStep
<1>3. CASE \E t \in Templates : RemoveTemplate(r, t)
  BY <1>3, RemoveTemplateStep
<1>4. CASE SaveUpdate(r) \/ DeleteTemplate(r) \/ SaveRedefined(r) \/ DeleteMapping(r)
  BY <1>4, SaveUpdateStep, DeleteTemplateStep, SaveRedefinedStep, DeleteMappingStep
<1>5. CASE \E s \in Scopes : DefineScope(r, s)
  BY <1>5, DefineScopeStep
<1>6. CASE \E d \in Definitions : RedefineScope(r, d) \/ Undefine(r, d)
  BY <1>6, RedefineScopeStep, UndefineStep
<1>7. CASE \E d \in Definitions, t \in LiveTemplates : MapScope(r, d, t)
  BY <1>7, MapScopeStep
<1>8. CASE \E m \in Mappings : Unmap(r, m)
  BY <1>8, UnmapStep
<1> QED BY <1>1, <1>2, <1>3, <1>4, <1>5, <1>6, <1>7, <1>8 DEF Admin

LEMMA DeskStep ==
  ASSUME IInv, NEW r \in Slots, Desk(r)
  PROVE  IInv'
<1>1. CASE \E t \in LiveTemplates, s \in Scopes : AskOffer(r, t, s)
  BY <1>1, AskOfferStep
<1>2. CASE AskTests(r) \/ FindDefault(r) \/ ReadTypes(r) \/ PickTemplate(r)
  BY <1>2, AskTestsStep, FindDefaultStep, ReadTypesStep, PickTemplateStep
<1>3. CASE FindScope(r) \/ FindWanted(r) \/ Define(r) \/ FindVerification(r)
  BY <1>3, FindScopeStep, FindWantedStep, DefineStep, FindVerificationStep
<1>4. CASE FindMade(r) \/ MapDefinition(r) \/ MakeOffer(r) \/ SaveClaim(r) \/ Deliver(r)
  BY <1>4, FindMadeStep, MapDefinitionStep, MakeOfferStep, SaveClaimStep, DeliverStep
<1> QED BY <1>1, <1>2, <1>3, <1>4 DEF Desk

LEMMA SharedStep ==
  ASSUME IInv, NEW r \in Slots, Shared(r)
  PROVE  IInv'
<1>1. CASE UseProvider(r) \/ ReadTemplates(r) \/ ReadDefinitions(r) \/ SetProvider(r)
  BY <1>1, UseProviderStep, ReadTemplatesStep, ReadDefinitionsStep, SetProviderStep
<1>2. CASE SaveTemplate(r) \/ MapTemplate(r) \/ MapCheck(r) \/ SaveMapping(r) \/ Fail(r)
  BY <1>2, SaveTemplateStep, MapTemplateStep, MapCheckStep, SaveMappingStep, FailStep
<1> QED BY <1>1, <1>2 DEF Shared

LEMMA StepIInv == IInv /\ [Next]_vars => IInv'
<1> SUFFICES ASSUME IInv, [Next]_vars PROVE IInv'
  OBVIOUS
<1>1. CASE Restart
  BY <1>1, RestartStep
<1>2. CASE \E r \in Slots : Admin(r) \/ Desk(r) \/ Shared(r)
  BY <1>2, AdminStep, DeskStep, SharedStep
<1>3. CASE UNCHANGED vars
  BY <1>3 DEF vars, IInv, TypeOK, SlotsOK, MapsOK
<1> QED BY <1>1, <1>2, <1>3 DEF Next

LEMMA IInvAlways == Spec => []IInv
  BY InitIInv, StepIInv, PTL DEF Spec

\* The tables, the provider and the requests in flight are what the code's
\* types say, in every state: a scope that is stored has one of the forms
\* that create accepts.
THEOREM CatalogueTyped == Spec => []TypeOK
<1>1. IInv => TypeOK
  BY DEF IInv
<1> QED BY <1>1, IInvAlways, PTL

LEMMA MapsAreOne == IInv => ScopeMapsToOne
<1> SUFFICES ASSUME IInv, NEW m \in LiveMappings
             PROVE  /\ BoundTo(mappings[m].definition) = {m}
                    /\ BoundBy(mappings[m].template) = {m}
                    /\ mappings[m].definition \in LiveDefinitions
                    /\ mappings[m].template \in LiveTemplates
                    /\ ~templates[mappings[m].template].variables
  BY DEF ScopeMapsToOne
<1>1. m \in Mappings /\ mappings[m].live = "live"
  BY DEF LiveMappings
<1>2. /\ mappings[m].definition \in LiveDefinitions
      /\ mappings[m].template \in LiveTemplates
      /\ ~templates[mappings[m].template].variables
  BY <1>1, Tables DEF EndsLive, LiveDefinitions, LiveTemplates
<1>3. BoundTo(mappings[m].definition) = {m}
  BY <1>1, Tables DEF OneToOne, BoundTo, LiveMappings
<1>4. BoundBy(mappings[m].template) = {m}
  BY <1>1, Tables DEF OneToOne, BoundBy, LiveMappings
<1> QED BY <1>2, <1>3, <1>4

\* In every state a mapped scope issues one schema that no other scope
\* issues, both exist, and the schema has no template variables, although
\* the checks of a handler and its writes are separate database calls.
THEOREM MappedScopesStayOneToOne == Spec => []ScopeMapsToOne
  BY MapsAreOne, IInvAlways, PTL

-----------------------------------------------------------------------------
(***************************************************************************)
(* One request at a time.  While it is calm at most one request is busy,   *)
(* so the tables hold still between its steps but for what it does itself. *)
(***************************************************************************)
Alone == \A r, s \in Slots : ~Busy(r, "idle") /\ ~Busy(s, "idle") => r = s

\* The provider shows every template that did not change unseen, or is about to:
\* whoever changed it is on the way to a new provider.
AllShown == provider # None => \A t \in Templates \ unseen : provider.listed[t] = Announced[t]
Brings(q, t) == q.pc \in Refreshing /\ q.t = t
Fresh == provider # None =>
    \A t \in Templates \ unseen :
        provider.listed[t] = Announced[t] \/ \E r \in Slots : Brings(req[r], t)

\* What a handler carries over into its next step: a row that is made is live,
\* what was read for the provider is what is stored; only tests are answered late.
CarriedOK(q) ==
    /\ q.pc = "saveTemplate" => q.row.live = "live"
    /\ q.pc \in {"readDefinitions", "setProvider"} => q.seen = Announced
    /\ q.pc = "answered" => q.op = "test"

\* How far a request for test credentials has come.
Excused     == TooMany \/ Clash \/ Unfilled
Named(t, k) == t \in LiveTemplates /\ templates[t].name = DefaultNames[k]
Made(k)     == \E t \in Templates : Named(t, k)
Making(q)   == q.pc \in {"findDefault", "readTypes", "saveTemplate"}
Offering(q) == q.pc \in {"offer", "claim"}
\* Before, and after, it is settled that the scope interop has a definition.
Looking(q)  == q.pc \in {"findScope", "findWanted", "define"}
Scoping(q)  == \/ q.pc \in {"findVerification", "findMade", "mapDefinition",
                            "mapTemplate", "mapCheck", "saveMapping"}
               \/ Making(q) /\ q.back = "findMade"

ProgressOK(q) ==
    /\ Making(q) => q.back \in {"pickTemplate", "findMade"}
    /\ Making(q) /\ q.back = "pickTemplate" => \A j \in 1 .. N : j < q.k => Made(j)
    /\ q.pc = "readTypes" => ~Made(q.k)
    /\ q.pc = "saveTemplate" => q.row.name = DefaultNames[q.k]
    /\ q.pc = "pickTemplate" =>
          \A j \in 1 .. N : Made(j) /\ (j < q.k => Named(q.picked[j], j))
    /\ Looking(q) \/ Scoping(q) \/ Offering(q) => \A j \in 1 .. N : Named(q.picked[j], j)
    /\ q.pc \in {"findWanted", "define"} => q.scope = "interop"
    /\ Scoping(q) \/ Offering(q) => WithScope("interop") # {}
    /\ Offering(q) => \A j \in 1 .. N : j < q.k => j \in q.got
    /\ q.pc = "answered" => q.got = 1 .. N

TestOK(q) == q.op = "test" => Excused \/ ProgressOK(q)

CalmSlot(q) == CarriedOK(q) /\ TestOK(q)

CalmInv ==
    /\ IsFiniteSet(LiveTemplates)
    /\ calm => Alone /\ Fresh /\ \A r \in Slots : CalmSlot(req[r])

-----------------------------------------------------------------------------
(***************************************************************************)
(* Where a step leaves its own slot, field by field.                       *)
(***************************************************************************)
Others(r) == \A s \in Slots : s # r => req'[s] = req[s]

\* The fields that the desk keeps while it asks.
KeepsAsk(r) ==
    /\ req'[r].op = req[r].op /\ req'[r].back = req[r].back
    /\ req'[r].scope = req[r].scope /\ req'[r].got = req[r].got
    /\ req'[r].picked = req[r].picked

LEMMA BecomeFacts ==
  ASSUME TypeOK, NEW r \in Slots, NEW f, Become(r, f)
  PROVE  req'[r] = f /\ Others(r)
  BY Zenon DEF TypeOK, Become, Others

LEMMA EndFacts ==
  ASSUME TypeOK, NEW r \in Slots, End(r)
  PROVE  Others(r) /\ req'[r].pc = "idle" /\ req'[r].op = "none"
<1>1. req'[r] = Idle /\ Others(r)
  BY BecomeFacts DEF End
<1>2. Idle.pc = "idle" /\ Idle.op = "none"
  BY DEF Idle
<1> QED BY <1>1, <1>2

LEMMA GotoFacts ==
  ASSUME TypeOK, NEW r \in Slots, NEW pc, Goto(r, pc)
  PROVE  /\ Others(r) /\ KeepsAsk(r) /\ req'[r].pc = pc
         /\ req'[r].k = req[r].k /\ req'[r].row = req[r].row /\ req'[r].t = req[r].t
<1> DEFINE q == req[r]
           f == [q EXCEPT !.pc = pc]
<1>1. Become(r, f) /\ q \in Slot
  BY SMT DEF Goto, Become, TypeOK
<1>2. req'[r] = f /\ Others(r)
  BY <1>1, BecomeFacts
<1>3. /\ f.pc = pc /\ f.op = q.op /\ f.back = q.back /\ f.scope = q.scope /\ f.got = q.got
      /\ f.picked = q.picked /\ f.k = q.k /\ f.row = q.row /\ f.t = q.t
  <2> HIDE DEF q
  <2> QED BY <1>1, SMT DEF Slot
<1> QED BY <1>2, <1>3 DEF KeepsAsk

LEMMA NextDefaultFacts ==
  ASSUME TypeOK, NEW r \in Slots, NextDefault(r)
  PROVE  /\ Others(r) /\ KeepsAsk(r)
         /\ \/ req[r].k < N /\ req'[r].pc = "findDefault" /\ req'[r].k = req[r].k + 1
            \/ req[r].k = N /\ req'[r].pc = req[r].back /\ req'[r].k = 1
<1> DEFINE q == req[r]
           f == [q EXCEPT !.pc = "findDefault", !.k = @ + 1, !.row = NoTemplate]
           g == [q EXCEPT !.pc = q.back, !.k = 1, !.row = NoTemplate]
<1>1. q \in Slot /\ q.k \in 1 .. N
  BY SlotFields DEF TypeOK
<1>2. CASE q.k < N
  <2>1. req'[r] = f /\ Others(r)
    BY <1>2, BecomeFacts DEF NextDefault
  <2>2. /\ f.pc = "findDefault" /\ f.op = q.op /\ f.back = q.back /\ f.scope = q.scope
        /\ f.got = q.got /\ f.picked = q.picked /\ f.k = q.k + 1
    <3> HIDE DEF q
    <3> QED BY <1>1, Zenon DEF Slot
  <2> QED BY <1>2, <2>1, <2>2, Zenon DEF KeepsAsk
<1>3. CASE ~(q.k < N)
  <2>1. req'[r] = g /\ Others(r)
    BY <1>3, BecomeFacts DEF NextDefault
  <2>2. /\ g.pc = q.back /\ g.op = q.op /\ g.back = q.back /\ g.scope = q.scope
        /\ g.got = q.got /\ g.picked = q.picked /\ g.k = 1
    <3> HIDE DEF q
    <3> QED BY <1>1, Zenon DEF Slot
  <2>3. q.k = N
    BY <1>1, <1>3, NInNat, SMT
  <2> QED BY <2>1, <2>2, <2>3, Zenon DEF KeepsAsk
<1> QED BY <1>2, <1>3

LEMMA AfterScopeFacts ==
  ASSUME TypeOK, NEW r \in Slots, AfterScope(r)
  PROVE  /\ Others(r) /\ KeepsAsk(r)
         /\ \/ req[r].op = "test" /\ req[r].i = 1 /\ req'[r].pc = "findScope"
            \/ ~(req[r].op = "test" /\ req[r].i = 1) /\ req'[r].pc = "offer" /\ req'[r].k = 1
<1> DEFINE q == req[r]
           f == [q EXCEPT !.pc = "findScope", !.i = 2, !.t = None, !.d = None]
           g == [q EXCEPT !.pc = "offer", !.k = 1, !.t = None, !.d = None]
<1>1. q \in Slot
  BY DEF TypeOK
<1>2. CASE q.op = "test" /\ q.i = 1
  <2>1. req'[r] = f /\ Others(r)
    BY <1>2, BecomeFacts DEF AfterScope
  <2>2. /\ f.pc = "findScope" /\ f.op = q.op /\ f.back = q.back /\ f.scope = q.scope
        /\ f.got = q.got /\ f.picked = q.picked
    <3> HIDE DEF q
    <3> QED BY <1>1, Zenon DEF Slot
  <2> QED BY <1>2, <2>1, <2>2, Zenon DEF KeepsAsk
<1>3. CASE ~(q.op = "test" /\ q.i = 1)
  <2>1. req'[r] = g /\ Others(r)
    BY <1>3, BecomeFacts DEF AfterScope
  <2>2. /\ g.pc = "offer" /\ g.op = q.op /\ g.back = q.back /\ g.scope = q.scope
        /\ g.got = q.got /\ g.picked = q.picked /\ g.k = 1
    <3> HIDE DEF q
    <3> QED BY <1>1, Zenon DEF Slot
  <2> QED BY <1>3, <2>1, <2>2, Zenon DEF KeepsAsk
<1> QED BY <1>2, <1>3

LEMMA NextOfferFacts ==
  ASSUME TypeOK, NEW r \in Slots, NEW got, NextOffer(r, got)
  PROVE  /\ Others(r)
         /\ \/ /\ req[r].op = "test" /\ req'[r].op = "test" /\ req[r].k < N
               /\ req'[r].pc = "offer" /\ req'[r].k = req[r].k + 1
               /\ req'[r].got = got /\ req'[r].picked = req[r].picked
            \/ /\ req[r].op = "test" /\ req'[r].op = "test" /\ req[r].k = N
               /\ req'[r].pc = "answered" /\ req'[r].got = got
            \/ req[r].op # "test" /\ req'[r].op = "none" /\ req'[r].pc = "idle"
<1> DEFINE q == req[r]
           f == [q EXCEPT !.pc = "offer", !.k = @ + 1, !.got = got]
           g == [q EXCEPT !.pc = "answered", !.got = got]
<1>1. q \in Slot /\ q.k \in 1 .. N
  BY SlotFields DEF TypeOK
<1>2. CASE q.op = "test" /\ q.k < N
  <2>1. req'[r] = f /\ Others(r)
    BY <1>2, BecomeFacts DEF NextOffer
  <2>2. /\ f.pc = "offer" /\ f.op = q.op /\ f.k = q.k + 1 /\ f.got = got
        /\ f.picked = q.picked
    <3> HIDE DEF q
    <3> QED BY <1>1, Zenon DEF Slot
  <2> QED BY <1>2, <2>1, <2>2, Zenon
<1>3. CASE q.op = "test" /\ ~(q.k < N)
  <2>1. req'[r] = g /\ Others(r)
    BY <1>3, BecomeFacts DEF NextOffer
  <2>2. g.pc = "answered" /\ g.op = q.op /\ g.got = got
    <3> HIDE DEF q
    <3> QED BY <1>1, Zenon DEF Slot
  <2>3. q.k = N
    BY <1>1, <1>3, NInNat, SMT
  <2> QED BY <1>3, <2>1, <2>2, <2>3, Zenon
<1>4. CASE q.op # "test"
  BY <1>4, EndFacts DEF NextOffer
<1> QED BY <1>2, <1>3, <1>4

-----------------------------------------------------------------------------
(***************************************************************************)
(* What a step has to show.                                                *)
(***************************************************************************)
LEMMA IdleCalm ==
  ASSUME NEW r \in Slots, req'[r].pc = "idle"
  PROVE  CalmSlot(req[r])'
  BY SMT DEF CalmSlot, CarriedOK, TestOK, ProgressOK, Making, Offering, Looking, Scoping

\* Where nothing is carried over.
Plain(pc) == pc \notin {"saveTemplate", "readDefinitions", "setProvider", "answered"}

LEMMA PlainCalm ==
  ASSUME NEW r \in Slots, Plain(req'[r].pc), req'[r].op # "test"
  PROVE  CalmSlot(req[r])'
  BY SMT DEF CalmSlot, CarriedOK, TestOK, Plain

LEMMA CalmFrame ==
  ASSUME CalmInv, NEW r \in Slots, Others(r), calm' => calm,
         UNCHANGED <<templates, provider, unseen>>,
         calm' => \A s \in Slots : s # r => Busy(s, "idle"),
         calm' => AllShown,
         calm' => CalmSlot(req[r])'
  PROVE  CalmInv'
<1>1. LiveTemplates' = LiveTemplates /\ AllShown' = AllShown
  BY DEF LiveTemplates, AllShown, Announced
<1>2. IsFiniteSet(LiveTemplates)'
  BY <1>1 DEF CalmInv
<1>3. ASSUME calm'
      PROVE  Alone'
  <2>1. \A s \in Slots : s # r => req'[s].pc = "idle"
    BY <1>3 DEF Others, Busy
  <2> QED BY <2>1 DEF Alone, Busy
<1>4. ASSUME calm'
      PROVE  Fresh'
  BY <1>1, <1>4 DEF Fresh, AllShown
<1>5. ASSUME calm', NEW s \in Slots
      PROVE  CalmSlot(req[s])'
  <2>1. CASE s = r
    BY <1>5, <2>1
  <2>2. CASE s # r
    <3>1. req'[s].pc = "idle"
      BY <1>5, <2>2 DEF Others, Busy
    <3> QED BY <3>1, IdleCalm
  <2> QED BY <2>1, <2>2
<1> QED BY <1>2, <1>3, <1>4, <1>5 DEF CalmInv

\* A request that is taken.
LEMMA CalmTaken ==
  ASSUME TypeOK, CalmInv, NEW r \in Slots, NEW f, Take(r, f),
         UNCHANGED <<templates, provider>>, CalmSlot(req[r])'
  PROVE  CalmInv'
<1>1. Become(r, f) /\ (calm' => calm /\ Quiet)
  BY DEF Take
<1>2. Others(r)
  BY <1>1, BecomeFacts
<1>3. Quiet => \A s \in Slots : Busy(s, "idle")
  BY DEF Quiet
<1>4. calm /\ Quiet => AllShown
  <2>1. Quiet => \A s \in Slots : req[s].pc \notin Refreshing
    BY SMT DEF Quiet, Busy, Refreshing
  <2> QED BY <2>1, Zenon DEF CalmInv, Fresh, Brings, AllShown
<1>5. UNCHANGED <<templates, provider, unseen>>
  BY DEF Take
<1> QED BY <1>1, <1>2, <1>3, <1>4, <1>5, CalmFrame

\* A later step of a request, away from the provider.
LEMMA AloneIdle ==
  ASSUME CalmInv, calm, NEW r \in Slots, req[r].pc # "idle"
  PROVE  \A s \in Slots : s # r => Busy(s, "idle")
  BY DEF CalmInv, Alone, Busy

LEMMA CalmStep ==
  ASSUME CalmInv, NEW r \in Slots, NEW pc, Step(r, pc), pc \notin Refreshing, pc # "idle",
         UNCHANGED <<templates, provider>>, Others(r), calm => CalmSlot(req[r])'
  PROVE  CalmInv'
<1>1. req[r].pc = pc /\ calm' = calm /\ unseen' = unseen
  BY DEF Step, Resume, Busy
<1>2. calm => \A s \in Slots : s # r => Busy(s, "idle")
  BY <1>1, AloneIdle
<1>3. calm => AllShown
  <2>1. calm => \A s \in Slots : req[s].pc \notin Refreshing
    <3> SUFFICES ASSUME calm, NEW s \in Slots
                 PROVE  req[s].pc \notin Refreshing
      OBVIOUS
    <3>1. CASE s = r
      BY <1>1, <3>1
    <3>2. CASE s # r
      BY <1>2, <3>2, SMT DEF Busy, Refreshing
    <3> QED BY <3>1, <3>2
  <2> QED BY <2>1, Zenon DEF CalmInv, Fresh, Brings, AllShown
<1> QED BY <1>1, <1>2, <1>3, CalmFrame

-----------------------------------------------------------------------------
(***************************************************************************)
(* Requests that are taken.                                                *)
(***************************************************************************)
\* One that starts somewhere plain, and is not for test credentials.
LEMMA PlainTaken ==
  ASSUME TypeOK, CalmInv, NEW r \in Slots, NEW f, Take(r, f),
         UNCHANGED <<templates, provider>>, Plain(f.pc), f.op # "test"
  PROVE  CalmInv'
<1>1. req'[r] = f
  BY BecomeFacts DEF Take
<1>2. CalmSlot(req[r])'
  BY <1>1, PlainCalm
<1> QED BY <1>2, CalmTaken

LEMMA UseProviderCalm ==
  ASSUME IInv, CalmInv, NEW r \in Slots, UseProvider(r)
  PROVE  CalmInv'
<1> DEFINE f == Start("readTemplates", "use")
<1>1. "readTemplates" \in Pc /\ "use" \in Ops
  BY SMT DEF Pc, Ops
<1>2. f.pc = "readTemplates" /\ f.op = "use"
  BY <1>1, StartType
<1>3. Take(r, f) /\ UNCHANGED <<templates, provider>> /\ TypeOK
  BY DEF UseProvider, tables, IInv
<1> HIDE DEF f
<1> QED BY <1>2, <1>3, PlainTaken, Zenon DEF Plain

LEMMA CreateTemplateCalm ==
  ASSUME IInv, CalmInv, NEW r \in Slots, NEW n \in AdminNames, NEW ty \in AdminTypes,
         NEW holes \in BOOLEAN, NEW display \in Displays,
         CreateTemplate(r, n, ty, holes, display)
  PROVE  CalmInv'
<1> DEFINE q == Start("saveTemplate", "admin")
           row == [live |-> "live", name |-> n, types |-> ty, holes |-> holes,
                   variables |-> holes, display |-> display]
           f == [q EXCEPT !.row = row]
<1>1. "saveTemplate" \in Pc /\ "admin" \in Ops
  BY SMT DEF Pc, Ops
<1>2. q \in Slot /\ q.pc = "saveTemplate" /\ q.op = "admin"
  BY <1>1, StartType
<1>3. f.pc = "saveTemplate" /\ f.op = "admin" /\ f.row = row /\ row.live = "live"
  <2> HIDE DEF q
  <2> QED BY <1>2, Zenon DEF Slot
<1>4. Take(r, f) /\ UNCHANGED <<templates, provider>> /\ TypeOK
  BY DEF CreateTemplate, Template, tables, IInv
<1>5. req'[r] = f
  BY <1>4, BecomeFacts DEF Take
<1>6. CalmSlot(req[r])'
  <2> HIDE DEF f, row
  <2>1. CarriedOK(req[r])'
    BY <1>3, <1>5, SMT DEF CarriedOK
  <2>2. TestOK(req[r])'
    BY <1>3, <1>5, Zenon DEF TestOK
  <2> QED BY <2>1, <2>2 DEF CalmSlot
<1> QED BY <1>4, <1>6, CalmTaken

LEMMA UpdateTemplateCalm ==
  ASSUME IInv, CalmInv, NEW r \in Slots, NEW t \in LiveTemplates, NEW dto \in Updates(t),
         UpdateTemplate(r, t, dto)
  PROVE  CalmInv'
<1> DEFINE q == Start("saveUpdate", "admin")
           row == Updated(t, dto)
           f == [q EXCEPT !.t = t, !.row = row]
<1>1. "saveUpdate" \in Pc /\ "admin" \in Ops
  BY SMT DEF Pc, Ops
<1>2. q \in Slot /\ q.pc = "saveUpdate" /\ q.op = "admin"
  BY <1>1, StartType
<1>3. f.pc = "saveUpdate" /\ f.op = "admin"
  <2> HIDE DEF q, row
  <2> QED BY <1>2, Zenon DEF Slot
<1>4. Take(r, f) /\ UNCHANGED <<templates, provider>> /\ TypeOK
  BY DEF UpdateTemplate, tables, IInv
<1> HIDE DEF f
<1> QED BY <1>3, <1>4, PlainTaken, Zenon DEF Plain

LEMMA RemoveTemplateCalm ==
  ASSUME IInv, CalmInv, NEW r \in Slots, NEW t \in Templates, RemoveTemplate(r, t)
  PROVE  CalmInv'
<1> DEFINE q == Start("deleteTemplate", "admin")
           f == [q EXCEPT !.t = t]
<1>1. "deleteTemplate" \in Pc /\ "admin" \in Ops
  BY SMT DEF Pc, Ops
<1>2. q \in Slot /\ q.pc = "deleteTemplate" /\ q.op = "admin"
  BY <1>1, StartType
<1>3. f.pc = "deleteTemplate" /\ f.op = "admin"
  <2> HIDE DEF q
  <2> QED BY <1>2, Zenon DEF Slot
<1>4. Take(r, f) /\ UNCHANGED <<templates, provider>> /\ TypeOK
  BY DEF RemoveTemplate, tables, IInv
<1> HIDE DEF f
<1> QED BY <1>3, <1>4, PlainTaken, Zenon DEF Plain

LEMMA RedefineScopeCalm ==
  ASSUME IInv, CalmInv, NEW r \in Slots, NEW d \in Definitions, RedefineScope(r, d)
  PROVE  CalmInv'
<1> DEFINE q == Start("saveRedefined", "admin")
           f == [q EXCEPT !.d = d, !.drow = definitions[d]]
<1>1. "saveRedefined" \in Pc /\ "admin" \in Ops
  BY SMT DEF Pc, Ops
<1>2. q \in Slot /\ q.pc = "saveRedefined" /\ q.op = "admin"
  BY <1>1, StartType
<1>3. f.pc = "saveRedefined" /\ f.op = "admin"
  <2> HIDE DEF q
  <2> QED BY <1>2, Zenon DEF Slot
<1>4. Take(r, f) /\ UNCHANGED <<templates, provider>> /\ TypeOK
  BY DEF RedefineScope, tables, IInv
<1> HIDE DEF f
<1> QED BY <1>3, <1>4, PlainTaken, Zenon DEF Plain

LEMMA MapScopeCalm ==
  ASSUME IInv, CalmInv, NEW r \in Slots, NEW d \in Definitions, NEW t \in LiveTemplates,
         MapScope(r, d, t)
  PROVE  CalmInv'
<1> DEFINE q == Start("mapTemplate", "admin")
           f == [q EXCEPT !.d = d, !.t = t]
<1>1. "mapTemplate" \in Pc /\ "admin" \in Ops
  BY SMT DEF Pc, Ops
<1>2. q \in Slot /\ q.pc = "mapTemplate" /\ q.op = "admin"
  BY <1>1, StartType
<1>3. f.pc = "mapTemplate" /\ f.op = "admin"
  <2> HIDE DEF q
  <2> QED BY <1>2, Zenon DEF Slot
<1>4. Take(r, f) /\ UNCHANGED <<templates, provider>> /\ TypeOK
  BY DEF MapScope, tables, IInv
<1> HIDE DEF f
<1> QED BY <1>3, <1>4, PlainTaken, Zenon DEF Plain

LEMMA UnmapCalm ==
  ASSUME IInv, CalmInv, NEW r \in Slots, NEW m \in Mappings, Unmap(r, m)
  PROVE  CalmInv'
<1> DEFINE q == Start("deleteMapping", "admin")
           f == [q EXCEPT !.m = m]
<1>1. "deleteMapping" \in Pc /\ "admin" \in Ops
  BY SMT DEF Pc, Ops
<1>2. q \in Slot /\ q.pc = "deleteMapping" /\ q.op = "admin"
  BY <1>1, StartType
<1>3. f.pc = "deleteMapping" /\ f.op = "admin"
  <2> HIDE DEF q
  <2> QED BY <1>2, Zenon DEF Slot
<1>4. Take(r, f) /\ UNCHANGED <<templates, provider>> /\ TypeOK
  BY DEF Unmap, tables, IInv
<1> HIDE DEF f
<1> QED BY <1>3, <1>4, PlainTaken, Zenon DEF Plain

\* What is done at once leaves the slot as it was.
LEMMA DoneCalm ==
  ASSUME TypeOK, CalmInv, NEW r \in Slots, Take(r, Idle), UNCHANGED <<templates, provider>>
  PROVE  CalmInv'
<1>1. Idle.pc = "idle" /\ Idle.op = "none"
  BY DEF Idle
<1> QED BY <1>1, PlainTaken, Zenon DEF Plain

LEMMA AskOfferCalm ==
  ASSUME IInv, CalmInv, NEW r \in Slots, NEW t \in LiveTemplates, NEW s \in Scopes,
         AskOffer(r, t, s)
  PROVE  CalmInv'
<1> DEFINE q == Start("findDefault", "offer")
           f == [q EXCEPT !.back = "findScope", !.picked[1] = t, !.scope = s]
<1>1. "findDefault" \in Pc /\ "offer" \in Ops
  BY SMT DEF Pc, Ops
<1>2. q \in Slot /\ q.pc = "findDefault" /\ q.op = "offer"
  BY <1>1, StartType
<1>3. f.pc = "findDefault" /\ f.op = "offer"
  <2> HIDE DEF q
  <2> QED BY <1>2, Zenon DEF Slot
<1>4. Take(r, f) /\ UNCHANGED <<templates, provider>> /\ TypeOK
  BY DEF AskOffer, tables, IInv
<1> HIDE DEF f
<1> QED BY <1>3, <1>4, PlainTaken, Zenon DEF Plain

LEMMA AskTestsCalm ==
  ASSUME IInv, CalmInv, NEW r \in Slots, AskTests(r)
  PROVE  CalmInv'
<1> DEFINE q == Start("findDefault", "test")
           f == [q EXCEPT !.back = "pickTemplate"]
<1>1. "findDefault" \in Pc /\ "test" \in Ops
  BY SMT DEF Pc, Ops
<1>2. q \in Slot /\ q.pc = "findDefault" /\ q.k = 1
  <2>1. q.k = 1
    BY DEF Start, Idle
  <2> QED BY <1>1, <2>1, StartType
<1>3. f.pc = "findDefault" /\ f.back = "pickTemplate" /\ f.k = 1
  <2> HIDE DEF q
  <2> QED BY <1>2, Zenon DEF Slot
<1>4. Take(r, f) /\ UNCHANGED <<templates, provider>> /\ TypeOK
  BY DEF AskTests, tables, IInv
<1>5. req'[r] = f
  BY <1>4, BecomeFacts DEF Take
<1>6. CalmSlot(req[r])'
  <2> HIDE DEF f
  <2>1. \A j \in 1 .. N : ~(j < 1)
    BY NInNat, SMT
  <2>2. CarriedOK(req[r])'
    BY <1>3, <1>5, SMT DEF CarriedOK
  <2>3. ProgressOK(req[r])'
    BY <1>3, <1>5, <2>1, SMT DEF ProgressOK, Making, Offering, Looking, Scoping
  <2> QED BY <2>2, <2>3 DEF CalmSlot, TestOK
<1> QED BY <1>4, <1>6, CalmTaken

-----------------------------------------------------------------------------
(***************************************************************************)
(* The desk at its work.  GoesPlain is what every continuation shows; the  *)
(* progress of a test is shown when it is not excused.                     *)
(***************************************************************************)
GoesPlain(r) ==
    /\ Others(r) /\ (req'[r].op # "test" \/ req[r].op = "test")
    /\ Plain(req'[r].pc) \/ (req'[r].pc = "answered" /\ req'[r].op = "test")

LEMMA EndPlain ==
  ASSUME TypeOK, NEW r \in Slots, End(r)
  PROVE  GoesPlain(r)
  BY EndFacts, Zenon DEF GoesPlain, Plain

LEMMA GotoPlain ==
  ASSUME TypeOK, NEW r \in Slots, NEW pc, Goto(r, pc), Plain(pc)
  PROVE  GoesPlain(r)
  BY GotoFacts, Zenon DEF GoesPlain, KeepsAsk

LEMMA NextDefaultPlain ==
  ASSUME TypeOK, NEW r \in Slots, NextDefault(r)
  PROVE  GoesPlain(r)
<1>1. req[r].back \in {"idle", "pickTemplate", "findScope", "findMade"}
  BY SlotFields DEF TypeOK
<1>2. Others(r) /\ req'[r].op = req[r].op /\ req'[r].pc \in {"findDefault", req[r].back}
  BY NextDefaultFacts, Zenon DEF KeepsAsk
<1>3. Plain(req'[r].pc)
  BY <1>1, <1>2, SMT DEF Plain
<1> QED BY <1>2, <1>3, Zenon DEF GoesPlain

LEMMA AfterScopePlain ==
  ASSUME TypeOK, NEW r \in Slots, AfterScope(r)
  PROVE  GoesPlain(r)
  BY AfterScopeFacts, Zenon DEF GoesPlain, Plain, KeepsAsk

LEMMA AfterMappingPlain ==
  ASSUME TypeOK, NEW r \in Slots, AfterMapping(r)
  PROVE  GoesPlain(r)
  BY AfterScopePlain, EndPlain DEF AfterMapping

LEMMA AnswerPlain ==
  ASSUME TypeOK, NEW r \in Slots, Answer(r)
  PROVE  GoesPlain(r)
<1>1. CASE req[r].op = "test"
  BY <1>1, GotoFacts DEF Answer, GoesPlain, KeepsAsk
<1>2. CASE req[r].op # "test"
  BY <1>2, EndPlain DEF Answer
<1> QED BY <1>1, <1>2

LEMMA GiveUpPlain ==
  ASSUME TypeOK, NEW r \in Slots, GiveUp(r)
  PROVE  GoesPlain(r)
  BY AfterScopePlain, AnswerPlain DEF GiveUp

LEMMA NextOfferPlain ==
  ASSUME TypeOK, NEW r \in Slots, NEW got, NextOffer(r, got)
  PROVE  GoesPlain(r)
  BY NextOfferFacts, Zenon DEF GoesPlain, Plain

\* The progress of a test that is not excused.
Tested(r) == req[r].op = "test" /\ ~Excused /\ ProgressOK(req[r])

LEMMA StepCalm ==
  ASSUME CalmInv, NEW r \in Slots, NEW pc, Step(r, pc), pc \notin Refreshing, pc # "idle",
         UNCHANGED <<templates, provider>>, GoesPlain(r),
         Tested(r) => ProgressOK(req[r])'
  PROVE  CalmInv'
<1>1. Excused' = Excused
  BY DEF Excused, TooMany, Clash, Unfilled, LiveTemplates
<1>2. ASSUME calm
      PROVE  CalmSlot(req[r])'
  <2>1. CASE req'[r].op # "test"
    BY <2>1, PlainCalm DEF GoesPlain
  <2>2. CASE req'[r].op = "test"
    <3>1. req[r].op = "test" /\ CalmSlot(req[r])
      BY <1>2, <2>2 DEF GoesPlain, CalmInv
    <3>2. Excused' \/ ProgressOK(req[r])'
      BY <1>1, <3>1 DEF CalmSlot, TestOK, Tested
    <3>3. CarriedOK(req[r])'
      BY SMT DEF GoesPlain, Plain, CarriedOK
    <3> QED BY <3>2, <3>3 DEF CalmSlot, TestOK
  <2> QED BY <2>1, <2>2
<1> QED BY <1>2, CalmStep DEF GoesPlain

\* A step that only reads leaves what is named and defined as it was.
LEMMA SameNames ==
  ASSUME UNCHANGED templates
  PROVE  /\ LiveTemplates' = LiveTemplates
         /\ \A t, k : Named(t, k)' <=> Named(t, k)
         /\ \A k : Made(k)' <=> Made(k)
  BY DEF LiveTemplates, Named, Made

LEMMA SameScopes ==
  ASSUME UNCHANGED definitions
  PROVE  \A s : WithScope(s)' = WithScope(s)
  BY DEF WithScope, LiveDefinitions

LEMMA Found ==
  ASSUME ~TooMany, NEW n, NEW t \in FoundByName(n)
  PROVE  IF t = None THEN \A u \in LiveTemplates : templates[u].name # n
         ELSE t \in LiveTemplates /\ templates[t].name = n
<1> DEFINE named == {u \in LiveTemplates : templates[u].name = n}
<1>1. IF named = {} THEN t \in named \cup {None} ELSE t \in named
  BY DEF FoundByName, TooMany
<1>2. None \notin LiveTemplates
  BY CatalogueAssumption DEF CatalogueAssumption, LiveTemplates
<1> QED BY <1>1, <1>2

LEMMA FoundDefault ==
  ASSUME ~Excused, NEW k, NEW t \in FoundByName(DefaultNames[k])
  PROVE  IF t = None THEN ~Made(k) ELSE Named(t, k) /\ Made(k)
<1>1. ~TooMany
  BY DEF Excused
<1>2. IF t = None THEN \A u \in LiveTemplates : templates[u].name # DefaultNames[k]
      ELSE t \in LiveTemplates /\ templates[t].name = DefaultNames[k]
  BY <1>1, Found
<1>3. LiveTemplates \subseteq Templates
  BY DEF LiveTemplates
<1> QED BY <1>2, <1>3 DEF Named, Made

\* After the k-th default template is there.
LEMMA NextDefaultProgress ==
  ASSUME TypeOK, NEW r \in Slots, NextDefault(r),
         req[r].back \in {"pickTemplate", "findMade"},
         req[r].back = "pickTemplate" => \A j \in 1 .. N : j =< req[r].k => Made(j)',
         req[r].back = "findMade" =>
            /\ \A j \in 1 .. N : Named(req[r].picked[j], j)'
            /\ WithScope("interop")' # {}
  PROVE  ProgressOK(req[r])'
<1>1. req[r].k \in 1 .. N /\ N \in Nat
  BY SlotFields, NInNat DEF TypeOK
<1>2. req'[r].back = req[r].back
  BY NextDefaultFacts DEF KeepsAsk
<1>3. CASE req'[r].pc = "findDefault" /\ req'[r].k = req[r].k + 1
  <2>1. req[r].back = "pickTemplate" => \A j \in 1 .. N : j < req'[r].k => Made(j)'
    BY <1>1, <1>3, SMT
  <2> QED BY <1>2, <1>3, <2>1, SMT DEF ProgressOK, Making, Offering, Looking, Scoping
<1>4. CASE req[r].k = N /\ req'[r].pc = req[r].back /\ req'[r].k = 1
  <2>1. req[r].back = "pickTemplate" => \A j \in 1 .. N : Made(j)'
    BY <1>1, <1>4, SMT
  <2>2. \A j \in 1 .. N : ~(j < req'[r].k)
    BY <1>1, <1>4, SMT
  <2> QED BY <1>2, <1>4, <2>1, <2>2, SMT DEF ProgressOK, Making, Offering, Looking, Scoping
<1> QED BY <1>3, <1>4, NextDefaultFacts, Zenon

\* After one scope is settled.
LEMMA AfterScopeProgress ==
  ASSUME TypeOK, NEW r \in Slots, AfterScope(r),
         \A j \in 1 .. N : Named(req[r].picked[j], j)',
         req[r].i # 1 => WithScope("interop")' # {}, req[r].op = "test"
  PROVE  ProgressOK(req[r])'
<1>1. req[r].i \in 1 .. 2
  BY SlotFields DEF TypeOK
<1>2. CASE req'[r].pc = "findScope"
  BY <1>2, SMT DEF ProgressOK, Making, Offering, Looking, Scoping
<1>3. CASE req[r].i # 1 /\ req'[r].pc = "offer" /\ req'[r].k = 1
  <2>1. \A j \in 1 .. N : ~(j < req'[r].k)
    BY <1>3, NInNat, SMT
  <2> QED BY <1>3, <2>1, SMT DEF ProgressOK, Making, Offering, Looking, Scoping
<1> QED BY <1>2, <1>3, AfterScopeFacts, Zenon

LEMMA FindDefaultCalm ==
  ASSUME IInv, CalmInv, NEW r \in Slots, FindDefault(r)
  PROVE  CalmInv'
<1> DEFINE k == req[r].k
<1>1. Step(r, "findDefault") /\ UNCHANGED <<templates, definitions, provider>> /\ TypeOK
  BY DEF FindDefault, tables, IInv
<1>2. PICK t \in FoundByName(DefaultNames[k]) :
        IF t = None THEN Goto(r, "readTypes") ELSE NextDefault(r)
  BY DEF FindDefault
<1>3. Plain("readTypes") /\ "findDefault" \notin Refreshing
  BY SMT DEF Plain, Refreshing
<1>4. GoesPlain(r)
  BY <1>1, <1>2, <1>3, GotoPlain, NextDefaultPlain
<1>5. ASSUME Tested(r)
      PROVE  ProgressOK(req[r])'
  <2>1. /\ req[r].pc = "findDefault" /\ ~Excused
        /\ req[r].back \in {"pickTemplate", "findMade"}
        /\ req[r].back = "pickTemplate" => \A j \in 1 .. N : j < k => Made(j)
        /\ req[r].back = "findMade" =>
              (\A j \in 1 .. N : Named(req[r].picked[j], j)) /\ WithScope("interop") # {}
    <3>1. req[r].pc = "findDefault" /\ ProgressOK(req[r]) /\ ~Excused
      BY <1>1, <1>5 DEF Step, Resume, Busy, Tested
    <3> QED BY <3>1, SMT DEF ProgressOK, Making, Scoping
  <2>2. CASE t = None
    <3>1. /\ req'[r].pc = "readTypes" /\ req'[r].k = k /\ req'[r].back = req[r].back
          /\ req'[r].picked = req[r].picked
      BY <1>1, <1>2, <2>2, GotoFacts DEF KeepsAsk
    <3>2. ~Made(k)
      BY <2>1, <2>2, FoundDefault, Zenon
    <3>3. /\ ~Made(req[r].k)'
          /\ req[r].back = "pickTemplate" => \A j \in 1 .. N : j < req'[r].k => Made(j)'
          /\ req[r].back = "findMade" =>
               (\A j \in 1 .. N : Named(req[r].picked[j], j)') /\ WithScope("interop")' # {}
      BY <1>1, <2>1, <3>1, <3>2, SameNames, SameScopes, Zenon
    <3> QED BY <2>1, <3>1, <3>3, SMT DEF ProgressOK, Making, Offering, Looking, Scoping
  <2>3. CASE t # None
    <3>1. NextDefault(r)
      BY <1>2, <2>3
    <3>2. Made(k) /\ k \in 1 .. N
      BY <1>1, <2>1, <2>3, FoundDefault, SlotFields, Zenon DEF TypeOK
    <3>3. req[r].back = "pickTemplate" => \A j \in 1 .. N : j =< k => Made(j)'
      <4>1. req[r].back = "pickTemplate" => \A j \in 1 .. N : j =< k => Made(j)
        BY <2>1, <3>2, NInNat, SMT
      <4> QED BY <1>1, <4>1, SameNames, Zenon
    <3>4. req'[r].picked = req[r].picked
      BY <1>1, <3>1, NextDefaultFacts DEF KeepsAsk
    <3>5. req[r].back = "findMade" =>
            (\A j \in 1 .. N : Named(req[r].picked[j], j)') /\ WithScope("interop")' # {}
      BY <1>1, <2>1, <3>4, SameNames, SameScopes, Zenon
    <3> QED BY <1>1, <2>1, <3>1, <3>3, <3>5, NextDefaultProgress
  <2> QED BY <2>2, <2>3
<1> QED BY <1>1, <1>3, <1>4, <1>5, StepCalm

LEMMA IdleProgress ==
  ASSUME NEW r \in Slots, req'[r].pc = "idle"
  PROVE  ProgressOK(req[r])'
  BY SMT DEF ProgressOK, Making, Offering, Looking, Scoping

LEMMA PicksKept ==
  ASSUME NEW r \in Slots, UNCHANGED templates, req'[r].picked = req[r].picked,
         \A j \in 1 .. N : Named(req[r].picked[j], j)
  PROVE  \A j \in 1 .. N : Named(req[r].picked[j], j)'
  BY SameNames, Zenon

LEMMA ReadTypesCalm ==
  ASSUME IInv, CalmInv, NEW r \in Slots, ReadTypes(r)
  PROVE  CalmInv'
<1> DEFINE q   == req[r]
           n   == DefaultNames[q.k]
           row == [live |-> "live", name |-> n, types |-> n, holes |-> FALSE,
                   variables |-> FALSE, display |-> None]
           f   == [q EXCEPT !.pc = "saveTemplate", !.row = row]
<1>1. /\ Step(r, "readTypes") /\ UNCHANGED <<templates, definitions, provider>>
      /\ TypeOK /\ q \in Slot
  BY DEF ReadTypes, DefaultTemplate, Template, tables, IInv, TypeOK
<1>2. "readTypes" \notin Refreshing /\ q.pc = "readTypes"
  BY <1>1, SMT DEF Refreshing, Step, Resume, Busy
<1>3. n \in Defaults
  BY <1>1, SlotFields, NamesTyped
<1>4. CASE SameTypes(n) = {}
  <2>1. req'[r] = f /\ Others(r)
    BY <1>1, <1>4, BecomeFacts DEF ReadTypes, DefaultTemplate, Template
  <2>2. /\ f.pc = "saveTemplate" /\ f.op = q.op /\ f.k = q.k /\ f.back = q.back
        /\ f.picked = q.picked /\ f.row = row
    <3> HIDE DEF q, row
    <3> QED BY <1>1, Zenon DEF Slot
  <2>3. row.live = "live" /\ row.name = n /\ n # None
    BY <1>3, CatalogueAssumption DEF CatalogueAssumption, Types
  <2> HIDE DEF f, row, n
  <2>4. CarriedOK(req[r])'
    BY <2>1, <2>2, <2>3, SMT DEF CarriedOK
  <2>5. ASSUME Tested(r)
        PROVE  ProgressOK(req[r])'
    <3>1. /\ q.back \in {"pickTemplate", "findMade"}
          /\ q.back = "pickTemplate" => \A j \in 1 .. N : j < q.k => Made(j)
          /\ q.back = "findMade" =>
               (\A j \in 1 .. N : Named(q.picked[j], j)) /\ WithScope("interop") # {}
      BY <1>2, <2>5, SMT DEF Tested, ProgressOK, Making, Scoping
    <3>2. /\ req'[r].pc = "saveTemplate" /\ req'[r].k = q.k /\ req'[r].back = q.back
          /\ req'[r].picked = q.picked /\ req'[r].row.name = DefaultNames[q.k]
      BY <2>1, <2>2, <2>3 DEF n
    <3>3. /\ q.back = "pickTemplate" => \A j \in 1 .. N : j < q.k => Made(j)'
          /\ q.back = "findMade" =>
               (\A j \in 1 .. N : Named(req[r].picked[j], j)') /\ WithScope("interop")' # {}
      BY <1>1, <3>1, <3>2, PicksKept, SameNames, SameScopes, Zenon
    <3> HIDE DEF q
    <3> QED BY <3>1, <3>2, <3>3, SMT DEF ProgressOK, Making, Offering, Looking, Scoping
  <2>6. Excused' = Excused
    BY <1>1 DEF Excused, TooMany, Clash, Unfilled, LiveTemplates
  <2>7. ASSUME calm
        PROVE  TestOK(req[r])'
    <3>1. req'[r].op = "test" => Excused \/ Tested(r)
      BY <2>1, <2>2, <2>7, Zenon DEF CalmInv, CalmSlot, TestOK, Tested
    <3> QED BY <2>5, <2>6, <3>1 DEF TestOK
  <2> QED BY <1>1, <1>2, <2>1, <2>4, <2>7, CalmStep, Zenon DEF CalmSlot
<1>5. CASE SameTypes(n) # {}
  <2>1. GoesPlain(r)
    BY <1>1, <1>5, GiveUpPlain DEF ReadTypes, DefaultTemplate, Template
  <2>2. ~Tested(r)
    <3> SUFFICES ASSUME Tested(r)
                 PROVE  FALSE
      OBVIOUS
    <3>1. ~Made(q.k) /\ ~Clash
      BY <1>2 DEF Tested, ProgressOK, Excused
    <3>2. PICK t \in LiveTemplates : templates[t].types = n
      BY <1>5 DEF SameTypes
    <3>3. templates[t].name # n
      BY <3>1 DEF Made, Named, LiveTemplates
    <3> QED BY <1>3, <3>1, <3>2, <3>3 DEF Clash
  <2> QED BY <1>1, <1>2, <2>1, <2>2, StepCalm
<1> QED BY <1>4, <1>5

LEMMA PickTemplateCalm ==
  ASSUME IInv, CalmInv, NEW r \in Slots, PickTemplate(r)
  PROVE  CalmInv'
<1> DEFINE q == req[r]
           k == q.k
<1>1. /\ Step(r, "pickTemplate") /\ UNCHANGED <<templates, definitions, provider>>
      /\ TypeOK /\ q \in Slot
  BY DEF PickTemplate, tables, IInv, TypeOK
<1>2. "pickTemplate" \notin Refreshing /\ q.pc = "pickTemplate"
  BY <1>1, SMT DEF Refreshing, Step, Resume, Busy
<1>3. PICK t \in FoundByName(DefaultNames[k]) :
        LET now == [req[r] EXCEPT !.picked[req[r].k] = t]
        IN  IF req[r].k < N THEN Become(r, [now EXCEPT !.k = @ + 1])
            ELSE IF \E j \in 1 .. N : now.picked[j] = None THEN Answer(r)
            ELSE Become(r, [now EXCEPT !.pc = "findScope"])
  BY DEF PickTemplate
<1> DEFINE p   == [q.picked EXCEPT ![k] = t]
           now == [q EXCEPT !.picked = p]
           f   == [now EXCEPT !.k = @ + 1]
           g   == [now EXCEPT !.pc = "findScope"]
<1>4. k \in 1 .. N /\ N \in Nat
  BY <1>1, SlotFields, NInNat
<1>5. p \in [1 .. N -> Templates \cup {None}] /\ \A j \in 1 .. N : p[j] = IF j = k THEN t ELSE q.picked[j]
  <2>1. t \in Templates \cup {None} /\ q.picked \in [1 .. N -> Templates \cup {None}]
    BY <1>1, SlotFields, Zenon DEF FoundByName, LiveTemplates
  <2> HIDE DEF q
  <2> QED BY <1>4, <2>1, Zenon
<1>6. now \in Slot /\ now.pc = q.pc /\ now.op = q.op /\ now.k = k /\ now.picked = p
  <2> HIDE DEF p, q
  <2>1. now \in Slot
    BY <1>1, <1>5, Zenon DEF Slot
  <2>2. now.pc = q.pc /\ now.op = q.op /\ now.k = q.k /\ now.picked = p
    BY <1>1, Zenon DEF Slot
  <2> QED BY <2>1, <2>2
<1>7. [req[r] EXCEPT !.picked[req[r].k] = t] = now
  BY Zenon
<1>8. f.pc = q.pc /\ f.op = q.op /\ f.k = k + 1 /\ f.picked = p
  <2> HIDE DEF now
  <2> QED BY <1>6, Zenon DEF Slot
<1>9. g.pc = "findScope" /\ g.op = q.op /\ g.picked = p
  <2> HIDE DEF now
  <2> QED BY <1>6, Zenon DEF Slot
<1>10. \/ k < N /\ Become(r, f)
       \/ k = N /\ (\E j \in 1 .. N : p[j] = None) /\ Answer(r)
       \/ k = N /\ Become(r, g)
  <2>1. now.picked = p
    BY <1>6
  <2>2. k < N \/ k = N
    BY <1>4, SMT
  <2> HIDE DEF now, p
  <2> QED BY <1>3, <1>7, <2>1, <2>2 DEF f, g
<1> HIDE DEF f, g, now
<1>11. ASSUME Tested(r)
       PROVE  \A j \in 1 .. N : Made(j) /\ (j =< k => Named(p[j], j) /\ p[j] # None)
  <2>1. ~Excused /\ \A j \in 1 .. N : Made(j) /\ (j < k => Named(q.picked[j], j))
    BY <1>2, <1>11, SMT DEF Tested, ProgressOK
  <2>2. Named(t, k)
    BY <1>4, <2>1, FoundDefault
  <2> HIDE DEF p, q, k
  <2>3. \A j \in 1 .. N : j =< k => Named(p[j], j)
    <3> SUFFICES ASSUME NEW j \in 1 .. N, j =< k
                 PROVE  Named(p[j], j)
      OBVIOUS
    <3>1. CASE j = k
      BY <1>5, <2>2, <3>1
    <3>2. CASE j # k
      <4>1. j < k
        BY <1>4, <3>2, SMT
      <4> QED BY <1>5, <2>1, <3>2, <4>1
    <3> QED BY <3>1, <3>2
  <2>4. None \notin LiveTemplates
    BY CatalogueAssumption DEF CatalogueAssumption, LiveTemplates
  <2> QED BY <2>1, <2>3, <2>4 DEF Named
<1>12. CASE k < N /\ Become(r, f)
  <2>1. Others(r) /\ req'[r] = f
    BY <1>1, <1>12, BecomeFacts
  <2>2. GoesPlain(r)
    BY <1>2, <1>8, <2>1, Zenon DEF GoesPlain, Plain
  <2>3. ASSUME Tested(r)
        PROVE  ProgressOK(req[r])'
    <3>1. req'[r].pc = "pickTemplate" /\ req'[r].k = k + 1 /\ req'[r].picked = p
      BY <1>2, <1>8, <2>1
    <3>2. \A j \in 1 .. N : Made(j)' /\ (j =< k => Named(req[r].picked[j], j)')
      BY <1>1, <1>11, <2>3, <3>1, SameNames, Zenon
    <3>3. \A j \in 1 .. N : j < k + 1 => j =< k
      BY <1>4, SMT
    <3> QED BY <3>1, <3>2, <3>3, SMT DEF ProgressOK, Making, Offering, Looking, Scoping
  <2> QED BY <1>1, <1>2, <2>2, <2>3, StepCalm
<1>13. CASE k = N /\ (\E j \in 1 .. N : p[j] = None) /\ Answer(r)
  <2>1. ~Tested(r)
    <3>1. \A j \in 1 .. N : j =< N
      BY <1>4, SMT
    <3> QED BY <1>11, <1>13, <3>1
  <2> QED BY <1>1, <1>2, <1>13, <2>1, AnswerPlain, StepCalm
<1>14. CASE k = N /\ Become(r, g)
  <2>1. Others(r) /\ req'[r] = g
    BY <1>1, <1>14, BecomeFacts
  <2>2. GoesPlain(r)
    BY <1>9, <2>1, Zenon DEF GoesPlain, Plain
  <2>3. ASSUME Tested(r)
        PROVE  ProgressOK(req[r])'
    <3>1. req'[r].pc = "findScope" /\ req'[r].picked = p
      BY <1>9, <2>1
    <3>2. \A j \in 1 .. N : j =< k
      BY <1>4, <1>14, SMT
    <3>3. \A j \in 1 .. N : Named(req[r].picked[j], j)'
      BY <1>1, <1>11, <2>3, <3>1, <3>2, SameNames, Zenon
    <3> QED BY <3>1, <3>3, SMT DEF ProgressOK, Making, Offering, Looking, Scoping
  <2> QED BY <1>1, <1>2, <2>2, <2>3, StepCalm
<1> QED BY <1>10, <1>12, <1>13, <1>14

\* A test that leaves a scope behind it, or goes on with it.
LEMMA LeavesScope ==
  ASSUME TypeOK, NEW r \in Slots, UNCHANGED templates, AfterScope(r), req[r].op = "test",
         \A j \in 1 .. N : Named(req[r].picked[j], j),
         req[r].i # 1 => WithScope("interop")' # {}
  PROVE  ProgressOK(req[r])'
<1>1. req'[r].picked = req[r].picked
  BY AfterScopeFacts DEF KeepsAsk
<1>2. \A j \in 1 .. N : Named(req[r].picked[j], j)'
  BY <1>1, PicksKept
<1> QED BY <1>2, AfterScopeProgress

\* Where a test has its templates, and its scope is settled.
Settled == {"findVerification", "findMade", "mapDefinition",
            "mapTemplate", "mapCheck", "saveMapping"}

LEMMA StaysInScope ==
  ASSUME NEW r \in Slots, UNCHANGED templates, req'[r].picked = req[r].picked,
         \A j \in 1 .. N : Named(req[r].picked[j], j), WithScope("interop")' # {},
         req'[r].pc \in Settled
  PROVE  ProgressOK(req[r])'
<1>1. \A j \in 1 .. N : Named(req[r].picked[j], j)'
  BY PicksKept
<1> QED BY <1>1, SMT DEF Settled, ProgressOK, Making, Offering, Looking, Scoping

LEMMA SettledFacts ==
  ASSUME NEW r \in Slots, Tested(r), req[r].pc \in Settled
  PROVE  /\ \A j \in 1 .. N : Named(req[r].picked[j], j)
         /\ WithScope("interop") # {} /\ req[r].op = "test"
  BY SMT DEF Tested, Settled, ProgressOK, Scoping

LEMMA LookingFacts ==
  ASSUME NEW r \in Slots, Tested(r), Looking(req[r])
  PROVE  /\ \A j \in 1 .. N : Named(req[r].picked[j], j)
         /\ req[r].op = "test"
         /\ req[r].pc # "findScope" => req[r].scope = "interop"
  BY SMT DEF Tested, ProgressOK, Looking

\* A step within the mapping of a scope, or out of it.
LEMMA SettledStep ==
  ASSUME IInv, CalmInv, NEW r \in Slots, NEW pc \in Settled, Step(r, pc),
         UNCHANGED <<templates, definitions, provider>>,
         \/ AfterMapping(r)
         \/ \E to \in Settled : Goto(r, to)
  PROVE  CalmInv'
<1>1. /\ TypeOK /\ req[r].pc \in Settled /\ WithScope("interop")' = WithScope("interop")
      /\ pc \notin Refreshing /\ pc # "idle"
  BY SameScopes, SMT DEF Step, Resume, Busy, IInv, Settled, Refreshing
<1>2. CASE AfterMapping(r)
  <2>1. ASSUME Tested(r)
        PROVE  ProgressOK(req[r])'
    <3>1. AfterScope(r)
      BY <1>2, <2>1, Zenon DEF AfterMapping, Tested
    <3> QED BY <1>1, <2>1, <3>1, SettledFacts, LeavesScope
  <2> QED BY <1>1, <1>2, <2>1, AfterMappingPlain, StepCalm
<1>3. CASE \E to \in Settled : Goto(r, to)
  <2>1. PICK to \in Settled : Goto(r, to)
    BY <1>3
  <2>2. Plain(to)
    BY SMT DEF Plain, Settled
  <2>3. req'[r].pc \in Settled /\ req'[r].picked = req[r].picked
    BY <1>1, <2>1, GotoFacts DEF KeepsAsk
  <2>4. Tested(r) => ProgressOK(req[r])'
    BY <1>1, <2>3, SettledFacts, StaysInScope
  <2> QED BY <1>1, <2>1, <2>2, <2>4, GotoPlain, StepCalm
<1> QED BY <1>2, <1>3

LEMMA FindScopeCalm ==
  ASSUME IInv, CalmInv, NEW r \in Slots, FindScope(r)
  PROVE  CalmInv'
<1> DEFINE q      == req[r]
           s      == IF q.op = "test" THEN ScopeList[q.i] ELSE q.scope
           wanted == IF q.op = "test" THEN "interop" ELSE q.scope
           f      == [q EXCEPT !.pc = "findWanted", !.scope = wanted]
<1>1. /\ Step(r, "findScope") /\ UNCHANGED <<templates, definitions, provider>>
      /\ TypeOK /\ q \in Slot
  BY DEF FindScope, tables, IInv, TypeOK
<1>2. "findScope" \notin Refreshing /\ q.pc = "findScope" /\ Looking(q)
  BY <1>1, SMT DEF Refreshing, Step, Resume, Busy, Looking
<1>3. CASE WithScope(s) # {}
  <2>1. AfterScope(r)
    BY <1>3 DEF FindScope
  <2>2. ASSUME Tested(r)
        PROVE  ProgressOK(req[r])'
    <3>1. q.op = "test" /\ \A j \in 1 .. N : Named(q.picked[j], j)
      BY <1>2, <2>2, LookingFacts
    <3>2. q.i # 1 => WithScope("interop")' # {}
      <4>1. q.i # 1 => q.i = 2
        BY <1>1, SlotFields, SMT
      <4>2. q.i # 1 => s = "interop"
        BY <3>1, <4>1, SMT DEF ScopeList
      <4> HIDE DEF s
      <4> QED BY <1>1, <1>3, <4>2, SameScopes, Zenon
    <3> QED BY <1>1, <2>1, <3>1, <3>2, LeavesScope
  <2> QED BY <1>1, <1>2, <2>1, <2>2, AfterScopePlain, StepCalm
<1>4. CASE WithScope(s) = {}
  <2>1. req'[r] = f /\ Others(r)
    BY <1>1, <1>4, BecomeFacts DEF FindScope
  <2>2. f.pc = "findWanted" /\ f.op = q.op /\ f.scope = wanted /\ f.picked = q.picked
    <3> HIDE DEF q, wanted
    <3> QED BY <1>1, Zenon DEF Slot
  <2>3. GoesPlain(r)
    <3> HIDE DEF f
    <3> QED BY <2>1, <2>2, Zenon DEF GoesPlain, Plain
  <2>4. ASSUME Tested(r)
        PROVE  ProgressOK(req[r])'
    <3>1. q.op = "test" /\ \A j \in 1 .. N : Named(q.picked[j], j)
      BY <1>2, <2>4, LookingFacts
    <3>2. req'[r].pc = "findWanted" /\ req'[r].scope = "interop" /\ req'[r].picked = q.picked
      BY <2>1, <2>2, <3>1
    <3>3. \A j \in 1 .. N : Named(req[r].picked[j], j)'
      BY <1>1, <3>1, <3>2, PicksKept
    <3> QED BY <3>2, <3>3, SMT DEF ProgressOK, Making, Offering, Looking, Scoping
  <2> QED BY <1>1, <1>2, <2>3, <2>4, StepCalm
<1> QED BY <1>3, <1>4

LEMMA FindWantedCalm ==
  ASSUME IInv, CalmInv, NEW r \in Slots, FindWanted(r)
  PROVE  CalmInv'
<1>1. Step(r, "findWanted") /\ UNCHANGED <<templates, definitions, provider>> /\ TypeOK
  BY DEF FindWanted, tables, IInv
<1>2. /\ "findWanted" \notin Refreshing /\ req[r].pc = "findWanted" /\ Looking(req[r])
      /\ Plain("define")
  BY <1>1, SMT DEF Refreshing, Step, Resume, Busy, Looking, Plain
<1>3. CASE WithScope(req[r].scope) # {}
  <2>1. AfterScope(r)
    BY <1>3 DEF FindWanted
  <2>2. ASSUME Tested(r)
        PROVE  ProgressOK(req[r])'
    <3>1. /\ \A j \in 1 .. N : Named(req[r].picked[j], j)
          /\ req[r].op = "test" /\ req[r].scope = "interop"
      BY <1>2, <2>2, LookingFacts, SMT
    <3>2. WithScope("interop")' # {}
      BY <1>1, <1>3, <3>1, SameScopes, Zenon
    <3> QED BY <1>1, <2>1, <3>1, <3>2, LeavesScope
  <2> QED BY <1>1, <1>2, <2>1, <2>2, AfterScopePlain, StepCalm
<1>4. CASE WithScope(req[r].scope) = {}
  <2>1. Goto(r, "define")
    BY <1>4 DEF FindWanted
  <2>2. ASSUME Tested(r)
        PROVE  ProgressOK(req[r])'
    <3>1. req[r].scope = "interop" /\ \A j \in 1 .. N : Named(req[r].picked[j], j)
      BY <1>2, <2>2, LookingFacts, SMT
    <3>2. /\ req'[r].pc = "define" /\ req'[r].scope = "interop"
          /\ req'[r].picked = req[r].picked
      BY <1>1, <2>1, <3>1, GotoFacts DEF KeepsAsk
    <3>3. \A j \in 1 .. N : Named(req[r].picked[j], j)'
      BY <1>1, <3>1, <3>2, PicksKept
    <3> QED BY <3>2, <3>3, SMT DEF ProgressOK, Making, Offering, Looking, Scoping
  <2> QED BY <1>1, <1>2, <2>1, <2>2, GotoPlain, StepCalm
<1> QED BY <1>3, <1>4

LEMMA DefineCalm ==
  ASSUME IInv, CalmInv, NEW r \in Slots, Define(r)
  PROVE  CalmInv'
<1> DEFINE q == req[r]
<1>1. Step(r, "define") /\ UNCHANGED <<templates, provider>> /\ TypeOK /\ q \in Slot
  BY DEF Define, IInv, TypeOK
<1>2. "define" \notin Refreshing /\ q.pc = "define" /\ Looking(q) /\ "findVerification" \in Settled
  BY <1>1, SMT DEF Refreshing, Step, Resume, Busy, Looking, Settled
<1>3. Tested(r) => /\ \A j \in 1 .. N : Named(q.picked[j], j)
                   /\ q.scope = "interop" /\ q.op = "test"
  BY <1>2, LookingFacts, SMT
<1>4. ASSUME NEW d \in Definitions, Defined(d, q.scope),
             Become(r, [req[r] EXCEPT !.pc = "findVerification", !.d = d])
      PROVE  CalmInv'
  <2> DEFINE f == [q EXCEPT !.pc = "findVerification", !.d = d]
  <2>1. req'[r] = f /\ Others(r)
    BY <1>1, <1>4, BecomeFacts
  <2>2. f.pc = "findVerification" /\ f.op = q.op /\ f.picked = q.picked
    <3> HIDE DEF q
    <3> QED BY <1>1, Zenon DEF Slot
  <2> HIDE DEF f
  <2>3. GoesPlain(r)
    BY <2>1, <2>2, Zenon DEF GoesPlain, Plain
  <2>4. ASSUME Tested(r)
        PROVE  ProgressOK(req[r])'
    <3>1. definitions'[d] = [live |-> "live", scope |-> q.scope]
      BY <1>1, <1>4, Zenon DEF Defined, NewDefinition, TypeOK
    <3>2. definitions'[d].live = "live" /\ definitions'[d].scope = "interop"
      BY <1>3, <2>4, <3>1
    <3>3. d \in WithScope("interop")'
      BY <3>2, Zenon DEF WithScope, LiveDefinitions
    <3> QED BY <1>1, <1>2, <1>3, <2>1, <2>2, <2>4, <3>3, StaysInScope
  <2> QED BY <1>1, <1>2, <2>3, <2>4, StepCalm
<1>5. ASSUME WithScope(q.scope) # {}, AfterScope(r), UNCHANGED definitions
      PROVE  CalmInv'
  <2>1. ASSUME Tested(r)
        PROVE  ProgressOK(req[r])'
    <3>1. WithScope("interop")' # {}
      BY <1>3, <1>5, <2>1, SameScopes, Zenon
    <3> QED BY <1>1, <1>3, <1>5, <2>1, <3>1, LeavesScope
  <2> QED BY <1>1, <1>2, <1>5, <2>1, AfterScopePlain, StepCalm
<1> QED BY <1>4, <1>5 DEF Define

\* A Verification template is found, and the definition is looked up for it.
LEMMA MapFoundFacts ==
  ASSUME TypeOK, NEW r \in Slots, NEW t,
         Become(r, [req[r] EXCEPT !.pc = "mapDefinition", !.t = t])
  PROVE  /\ GoesPlain(r) /\ req'[r].pc = "mapDefinition"
         /\ req'[r].picked = req[r].picked
<1> DEFINE q == req[r]
           f == [q EXCEPT !.pc = "mapDefinition", !.t = t]
<1>1. q \in Slot /\ req'[r] = f /\ Others(r)
  BY BecomeFacts DEF TypeOK
<1>2. f.pc = "mapDefinition" /\ f.op = q.op /\ f.picked = q.picked
  <2> HIDE DEF q
  <2> QED BY <1>1, Zenon DEF Slot
<1> HIDE DEF f
<1> QED BY <1>1, <1>2, Zenon DEF GoesPlain, Plain

LEMMA FindVerificationCalm ==
  ASSUME IInv, CalmInv, NEW r \in Slots, FindVerification(r)
  PROVE  CalmInv'
<1> DEFINE q == req[r]
           f == [q EXCEPT !.pc = "findDefault", !.k = 1, !.back = "findMade"]
<1>1. /\ Step(r, "findVerification") /\ UNCHANGED <<templates, definitions, provider>>
      /\ TypeOK /\ q \in Slot
  BY DEF FindVerification, tables, IInv, TypeOK
<1>2. /\ "findVerification" \notin Refreshing /\ q.pc \in Settled
      /\ "mapDefinition" \in Settled
  BY <1>1, SMT DEF Refreshing, Step, Resume, Busy, Settled
<1>3. PICK t \in FoundByName(Verification) :
        Become(r, f) \/ Become(r, [req[r] EXCEPT !.pc = "mapDefinition", !.t = t])
  BY DEF FindVerification
<1>4. CASE Become(r, f)
  <2>1. req'[r] = f /\ Others(r)
    BY <1>1, <1>4, BecomeFacts
  <2>2. f.pc = "findDefault" /\ f.op = q.op /\ f.back = "findMade" /\ f.picked = q.picked
    <3> HIDE DEF q
    <3> QED BY <1>1, Zenon DEF Slot
  <2> HIDE DEF f
  <2>3. GoesPlain(r)
    BY <2>1, <2>2, Zenon DEF GoesPlain, Plain
  <2>4. ASSUME Tested(r)
        PROVE  ProgressOK(req[r])'
    <3>1. (\A j \in 1 .. N : Named(q.picked[j], j)) /\ WithScope("interop") # {}
      BY <1>2, <2>4, SettledFacts
    <3>2. \A j \in 1 .. N : Named(req[r].picked[j], j)'
      BY <1>1, <2>1, <2>2, <3>1, PicksKept
    <3>3. WithScope("interop")' # {}
      BY <1>1, <3>1, SameScopes, Zenon
    <3> HIDE DEF q
    <3> QED BY <2>1, <2>2, <3>2, <3>3, SMT
            DEF ProgressOK, Making, Offering, Looking, Scoping
  <2> QED BY <1>1, <1>2, <2>3, <2>4, StepCalm
<1>5. CASE Become(r, [req[r] EXCEPT !.pc = "mapDefinition", !.t = t])
  <2>1. /\ GoesPlain(r) /\ req'[r].pc = "mapDefinition" /\ req'[r].picked = q.picked
        /\ WithScope("interop")' = WithScope("interop")
    BY <1>1, <1>5, MapFoundFacts, SameScopes
  <2>2. Tested(r) => ProgressOK(req[r])'
    BY <1>1, <1>2, <2>1, SettledFacts, StaysInScope
  <2> QED BY <1>1, <1>2, <2>1, <2>2, StepCalm
<1> QED BY <1>3, <1>4, <1>5

LEMMA FindMadeCalm ==
  ASSUME IInv, CalmInv, NEW r \in Slots, FindMade(r)
  PROVE  CalmInv'
<1>1. Step(r, "findMade") /\ UNCHANGED <<templates, definitions, provider>> /\ TypeOK
  BY DEF FindMade, tables, IInv
<1>2. /\ "findMade" \notin Refreshing /\ req[r].pc \in Settled /\ "mapDefinition" \in Settled
      /\ WithScope("interop")' = WithScope("interop")
  BY <1>1, SameScopes, SMT DEF Refreshing, Step, Resume, Busy, Settled
<1>3. PICK t \in FoundByName(Verification) :
        AfterScope(r) \/ Become(r, [req[r] EXCEPT !.pc = "mapDefinition", !.t = t])
  BY DEF FindMade
<1>4. CASE AfterScope(r)
  <2>1. Tested(r) => ProgressOK(req[r])'
    BY <1>1, <1>2, <1>4, SettledFacts, LeavesScope
  <2> QED BY <1>1, <1>2, <1>4, <2>1, AfterScopePlain, StepCalm
<1>5. CASE Become(r, [req[r] EXCEPT !.pc = "mapDefinition", !.t = t])
  <2>1. GoesPlain(r) /\ req'[r].pc = "mapDefinition" /\ req'[r].picked = req[r].picked
    BY <1>1, <1>5, MapFoundFacts
  <2>2. Tested(r) => ProgressOK(req[r])'
    BY <1>1, <1>2, <2>1, SettledFacts, StaysInScope
  <2> QED BY <1>1, <1>2, <2>1, <2>2, StepCalm
<1> QED BY <1>3, <1>4, <1>5

LEMMA MapDefinitionCalm ==
  ASSUME IInv, CalmInv, NEW r \in Slots, MapDefinition(r)
  PROVE  CalmInv'
<1>1. Step(r, "mapDefinition") /\ UNCHANGED <<templates, definitions, provider>> /\ TypeOK
  BY DEF MapDefinition, tables, IInv
<1>2. /\ "mapDefinition" \notin Refreshing /\ req[r].pc \in Settled
      /\ "mapDefinition" \in Settled /\ "mapTemplate" \in Settled
      /\ WithScope("interop")' = WithScope("interop")
  BY <1>1, SameScopes, SMT DEF Refreshing, Step, Resume, Busy, Settled
<1>3. CASE Goto(r, "mapTemplate")
  BY <1>1, <1>2, <1>3, SettledStep
<1>4. CASE AfterScope(r)
  <2>1. Tested(r) => ProgressOK(req[r])'
    BY <1>1, <1>2, <1>4, SettledFacts, LeavesScope
  <2> QED BY <1>1, <1>2, <1>4, <2>1, AfterScopePlain, StepCalm
<1> QED BY <1>3, <1>4 DEF MapDefinition

LEMMA MapTemplateCalm ==
  ASSUME IInv, CalmInv, NEW r \in Slots, MapTemplate(r)
  PROVE  CalmInv'
<1>1. Step(r, "mapTemplate") /\ UNCHANGED <<templates, definitions, provider>>
  BY DEF MapTemplate, tables
<1>2. "mapTemplate" \in Settled /\ "mapCheck" \in Settled
  BY SMT DEF Settled
<1>3. Goto(r, "mapCheck") \/ AfterMapping(r)
  BY DEF MapTemplate
<1> QED BY <1>1, <1>2, <1>3, SettledStep

LEMMA MapCheckCalm ==
  ASSUME IInv, CalmInv, NEW r \in Slots, MapCheck(r)
  PROVE  CalmInv'
<1>1. Step(r, "mapCheck") /\ UNCHANGED <<templates, definitions, provider>>
  BY DEF MapCheck, tables
<1>2. "mapCheck" \in Settled /\ "saveMapping" \in Settled
  BY SMT DEF Settled
<1>3. Goto(r, "saveMapping") \/ AfterMapping(r)
  BY DEF MapCheck
<1> QED BY <1>1, <1>2, <1>3, SettledStep

LEMMA SaveMappingCalm ==
  ASSUME IInv, CalmInv, NEW r \in Slots, SaveMapping(r)
  PROVE  CalmInv'
<1>1. /\ Step(r, "saveMapping") /\ UNCHANGED <<templates, definitions, provider>>
      /\ AfterMapping(r)
  BY DEF SaveMapping
<1>2. "saveMapping" \in Settled
  BY SMT DEF Settled
<1> QED BY <1>1, <1>2, SettledStep

LEMMA OfferingFacts ==
  ASSUME NEW r \in Slots, Tested(r), Offering(req[r])
  PROVE  /\ \A j \in 1 .. N : Named(req[r].picked[j], j)
         /\ WithScope("interop") # {} /\ req[r].op = "test"
         /\ \A j \in 1 .. N : j < req[r].k => j \in req[r].got
  BY DEF Tested, ProgressOK

\* Nothing that createOffer asks for is missing.
LEMMA TestedIsOfferable ==
  ASSUME TypeOK, NEW r \in Slots, Tested(r), Offering(req[r])
  PROVE  Offerable(r)
<1> DEFINE k == req[r].k
           t == req[r].picked[k]
<1>1. /\ req[r].op = "test" /\ WithScope("interop") # {}
      /\ \A j \in 1 .. N : Named(req[r].picked[j], j)
  BY OfferingFacts
<1>2. k \in 1 .. N
  BY SlotFields DEF TypeOK
<1>3. t \in LiveTemplates /\ templates[t].name = DefaultNames[k]
  BY <1>1, <1>2 DEF Named
<1>4. DefaultNames[k] \in Defaults /\ ~Unfilled
  BY <1>2, NamesTyped DEF Tested, Excused
<1>5. ~templates[t].holes
  <2> HIDE DEF t, k
  <2> QED BY <1>3, <1>4 DEF Unfilled
<1>6. OfferScope(r) \in {"interop", "openid"}
  BY <1>1, SMT DEF OfferScope
<1>7. OfferScope(r) = "openid" \/ WithScope(OfferScope(r)) # {}
  BY <1>1, <1>6
<1> QED BY <1>3, <1>5, <1>7 DEF Offerable

LEMMA MakeOfferCalm ==
  ASSUME IInv, CalmInv, NEW r \in Slots, MakeOffer(r)
  PROVE  CalmInv'
<1>1. Step(r, "offer") /\ UNCHANGED <<templates, definitions, provider>> /\ TypeOK
  BY DEF MakeOffer, tables, IInv
<1>2. "offer" \notin Refreshing /\ Offering(req[r]) /\ Plain("claim")
  BY <1>1, SMT DEF Refreshing, Step, Resume, Busy, Offering, Plain
<1>3. Goto(r, "claim") \/ NextOffer(r, req[r].got)
  BY DEF MakeOffer
<1>4. GoesPlain(r)
  BY <1>1, <1>2, <1>3, GotoPlain, NextOfferPlain
<1>5. ASSUME Tested(r)
      PROVE  ProgressOK(req[r])'
  <2>1. Goto(r, "claim")
    BY <1>1, <1>2, <1>5, TestedIsOfferable DEF MakeOffer
  <2>2. /\ req'[r].pc = "claim" /\ req'[r].k = req[r].k /\ req'[r].got = req[r].got
        /\ req'[r].picked = req[r].picked
    BY <1>1, <2>1, GotoFacts DEF KeepsAsk
  <2>3. /\ \A j \in 1 .. N : Named(req[r].picked[j], j)
        /\ WithScope("interop") # {}
        /\ \A j \in 1 .. N : j < req[r].k => j \in req[r].got
    BY <1>2, <1>5, OfferingFacts
  <2>4. \A j \in 1 .. N : Named(req[r].picked[j], j)'
    BY <1>1, <2>2, <2>3, PicksKept
  <2>5. WithScope("interop")' # {}
    BY <1>1, <2>3, SameScopes, Zenon
  <2> QED BY <2>2, <2>3, <2>4, <2>5, SMT DEF ProgressOK, Making, Offering, Looking, Scoping
<1> QED BY <1>1, <1>2, <1>4, <1>5, StepCalm

LEMMA SaveClaimCalm ==
  ASSUME IInv, CalmInv, NEW r \in Slots, SaveClaim(r)
  PROVE  CalmInv'
<1> DEFINE k   == req[r].k
           got == req[r].got \cup {k}
<1>1. /\ Step(r, "claim") /\ UNCHANGED <<templates, definitions, provider>> /\ TypeOK
      /\ NextOffer(r, got)
  BY DEF SaveClaim, IInv
<1>2. "claim" \notin Refreshing /\ Offering(req[r])
  BY <1>1, SMT DEF Refreshing, Step, Resume, Busy, Offering
<1>3. GoesPlain(r)
  BY <1>1, NextOfferPlain
<1>4. k \in 1 .. N /\ N \in Nat /\ req[r].got \in SUBSET (1 .. N)
  BY <1>1, SlotFields, NInNat DEF TypeOK
<1>5. ASSUME Tested(r)
      PROVE  ProgressOK(req[r])'
  <2>1. /\ req[r].op = "test" /\ WithScope("interop") # {}
        /\ \A j \in 1 .. N : Named(req[r].picked[j], j)
        /\ \A j \in 1 .. N : j < k => j \in req[r].got
    BY <1>2, <1>5, OfferingFacts
  <2> HIDE DEF k
  <2>2. CASE /\ req'[r].pc = "offer" /\ req'[r].k = k + 1
             /\ req'[r].got = got /\ req'[r].picked = req[r].picked
    <3>1. \A j \in 1 .. N : j < k + 1 => j \in got
      BY <1>4, <2>1, SMT
    <3>2. \A j \in 1 .. N : Named(req[r].picked[j], j)'
      BY <1>1, <2>1, <2>2, PicksKept
    <3>3. WithScope("interop")' # {}
      BY <1>1, <2>1, SameScopes, Zenon
    <3>4. \A j \in 1 .. N : j < req'[r].k => j \in req'[r].got
      BY <2>2, <3>1
    <3> QED BY <2>2, <3>2, <3>3, <3>4, SMT DEF ProgressOK, Making, Offering, Looking, Scoping
  <2>3. CASE k = N /\ req'[r].pc = "answered" /\ req'[r].got = got
    <3>1. got = 1 .. N
      BY <1>4, <2>1, <2>3, SMT
    <3> HIDE DEF got
    <3> QED BY <2>3, <3>1, SMT DEF ProgressOK, Making, Offering, Looking, Scoping
  <2> QED BY <1>1, <2>1, <2>2, <2>3, NextOfferFacts DEF k
<1> QED BY <1>1, <1>2, <1>3, <1>5, StepCalm

\* What ends where it was: the answer, and the administrators' last writes.
LEMMA EndCalm ==
  ASSUME IInv, CalmInv, NEW r \in Slots, NEW pc, Step(r, pc), End(r),
         pc \notin Refreshing, pc # "idle", UNCHANGED <<templates, provider>>
  PROVE  CalmInv'
<1>1. TypeOK
  BY DEF IInv
<1>2. GoesPlain(r) /\ req'[r].pc = "idle"
  BY <1>1, EndPlain, EndFacts
<1> QED BY <1>2, IdleProgress, StepCalm

-----------------------------------------------------------------------------
(***************************************************************************)
(* Steps that write the templates, or the provider.                        *)
(***************************************************************************)
\* A step of the only busy request: what the new state has to show.
LEMMA CalmAlone ==
  ASSUME CalmInv, NEW r \in Slots, Others(r), req[r].pc # "idle", calm' = calm,
         IsFiniteSet(LiveTemplates)', calm => Fresh' /\ CalmSlot(req[r])'
  PROVE  CalmInv'
<1>1. ASSUME calm
      PROVE  Alone' /\ \A s \in Slots : CalmSlot(req[s])'
  <2>1. \A s \in Slots : s # r => req'[s].pc = "idle"
    BY <1>1, AloneIdle DEF Others, Busy
  <2>2. Alone'
    BY <2>1 DEF Alone, Busy
  <2>3. ASSUME NEW s \in Slots
        PROVE  CalmSlot(req[s])'
    <3>1. CASE s = r
      BY <1>1, <3>1
    <3>2. CASE s # r
      BY <2>1, <3>2, IdleCalm
    <3> QED BY <3>1, <3>2
  <2> QED BY <2>2, <2>3
<1> QED BY <1>1 DEF CalmInv

\* The provider shows everything when the only busy request is not refreshing it.
LEMMA FreshNow ==
  ASSUME CalmInv, calm, NEW r \in Slots, req[r].pc # "idle", req[r].pc \notin Refreshing
  PROVE  AllShown
<1>1. \A s \in Slots : s # r => req[s].pc = "idle"
  BY AloneIdle DEF Busy
<1>2. \A s \in Slots : req[s].pc \notin Refreshing
  BY <1>1, SMT DEF Refreshing
<1> QED BY <1>2, Zenon DEF CalmInv, Fresh, Brings, AllShown

\* A change of one template leaves the others shown.
LEMMA OthersShown ==
  ASSUME TypeOK, AllShown, NEW t \in Templates, NEW row, provider' = provider, provider # None,
         templates' = [templates EXCEPT ![t] = row], unseen \subseteq unseen'
  PROVE  \A u \in Templates \ unseen' : u # t => provider'.listed[u] = Announced'[u]
<1>1. \A u \in Templates : u # t => templates'[u] = templates[u]
  BY Zenon DEF TypeOK
<1>2. \A u \in Templates : u # t => Announced'[u] = Announced[u]
  BY <1>1, SMT DEF Announced, LiveTemplates
<1> QED BY <1>2 DEF AllShown

LEMMA OneMore ==
  ASSUME TypeOK, IsFiniteSet(LiveTemplates), NEW t \in Templates, NEW row,
         templates' = [templates EXCEPT ![t] = row]
  PROVE  IsFiniteSet(LiveTemplates)'
<1>1. LiveTemplates' \subseteq LiveTemplates \cup {t}
  BY Zenon DEF LiveTemplates, TypeOK
<1> QED BY <1>1, FS_AddElement, FS_Subset

\* A row that is added takes nothing away, and no excuse.
LEMMA Grows ==
  ASSUME TypeOK, IsFiniteSet(LiveTemplates), NEW t \in Templates, NEW row,
         templates' = [templates EXCEPT ![t] = row], templates[t].live = "unborn",
         row.live = "live"
  PROVE  /\ LiveTemplates' = LiveTemplates \cup {t} /\ templates'[t] = row
         /\ \A u \in Templates : u # t => templates'[u] = templates[u]
         /\ \A u \in LiveTemplates : u # t /\ templates'[u] = templates[u]
         /\ Excused => Excused'
<1>1. templates'[t] = row /\ \A u \in Templates : u # t => templates'[u] = templates[u]
  BY Zenon DEF TypeOK
<1>2. \A u \in LiveTemplates : u # t /\ templates'[u] = templates[u]
  BY <1>1, SMT DEF LiveTemplates
<1>3. LiveTemplates' = LiveTemplates \cup {t}
  BY <1>1, SMT DEF LiveTemplates
<1>4. TooMany => TooMany'
  <2>1. IsFiniteSet(LiveTemplates \cup {t})
    BY FS_AddElement
  <2>2. Cardinality(LiveTemplates) =< Cardinality(LiveTemplates \cup {t})
    BY <2>1, FS_Subset
  <2>3. /\ Cardinality(LiveTemplates) \in Nat /\ Cardinality(LiveTemplates \cup {t}) \in Nat
        /\ Window \in Nat
    BY <2>1, FS_CardinalityType, CatalogueAssumption DEF CatalogueAssumption
  <2> QED BY <1>3, <2>2, <2>3, SMT DEF TooMany
<1>5. Clash => Clash'
  BY <1>2, <1>3 DEF Clash
<1>6. Unfilled => Unfilled'
  BY <1>2, <1>3 DEF Unfilled
<1> QED BY <1>1, <1>2, <1>3, <1>4, <1>5, <1>6 DEF Excused

LEMMA SaveTemplateCalm ==
  ASSUME IInv, CalmInv, NEW r \in Slots, SaveTemplate(r)
  PROVE  CalmInv'
<1> DEFINE q == req[r]
<1>1. /\ TypeOK /\ q.pc = "saveTemplate" /\ calm' = calm /\ IsFiniteSet(LiveTemplates)
      /\ UNCHANGED <<definitions, provider>> /\ q \in Slot
  BY DEF SaveTemplate, Resume, Busy, IInv, CalmInv, TypeOK
<1>2. "saveTemplate" \notin Refreshing /\ q.pc # "idle" /\ "readTemplates" \in Refreshing
      /\ Plain("readTemplates")
  BY <1>1, SMT DEF Refreshing, Plain
<1>3. PICK t \in Templates : /\ templates[t].live = "unborn" /\ AfterSave(r, t)
                             /\ templates' = [templates EXCEPT ![t] = q.row]
  BY DEF SaveTemplate, Serial
<1>4. IsFiniteSet(LiveTemplates)'
  BY <1>1, <1>3, OneMore
<1>5. ASSUME calm, provider # None, unseen \subseteq unseen'
      PROVE  \A u \in Templates \ unseen' : u # t => provider'.listed[u] = Announced'[u]
  BY <1>1, <1>2, <1>3, <1>5, FreshNow, OthersShown
<1>6. CASE q.op = "admin"
  <2> DEFINE f == [q EXCEPT !.pc = "readTemplates", !.t = t]
  <2>1. req'[r] = f /\ Others(r) /\ unseen' = unseen
    BY <1>1, <1>3, <1>6, BecomeFacts DEF AfterSave
  <2>2. f.pc = "readTemplates" /\ f.op = q.op /\ f.t = t
    <3> HIDE DEF q
    <3> QED BY <1>1, Zenon DEF Slot
  <2> HIDE DEF f
  <2>3. Brings(req[r], t)'
    BY <1>2, <2>1, <2>2 DEF Brings
  <2>4. calm => Fresh'
    BY <1>1, <1>5, <2>1, <2>3, Zenon DEF Fresh
  <2>5. CalmSlot(req[r])'
    BY <1>2, <1>6, <2>1, <2>2, PlainCalm
  <2> QED BY <1>1, <1>2, <1>4, <2>1, <2>4, <2>5, CalmAlone
<1>7. CASE q.op # "admin"
  <2>1. NextDefault(r) /\ Missed({t})
    BY <1>3, <1>7 DEF AfterSave
  <2>6. GoesPlain(r)
    BY <1>1, <2>1, NextDefaultPlain
  <2>2. ASSUME calm
        PROVE  Fresh' /\ CalmSlot(req[r])'
    <3>1. q.row.live = "live"
      BY <1>1, <2>2 DEF CalmInv, CalmSlot, CarriedOK
    <3>2. /\ LiveTemplates' = LiveTemplates \cup {t} /\ templates'[t] = q.row
          /\ \A u \in Templates : u # t => templates'[u] = templates[u]
          /\ \A u \in LiveTemplates : u # t /\ templates'[u] = templates[u]
          /\ Excused => Excused'
      BY <1>1, <1>3, <3>1, Grows
    <3>3. Fresh'
      <4>1. provider # None => t \in unseen' /\ unseen \subseteq unseen'
        BY <2>1, <2>2 DEF Missed
      <4> QED BY <1>1, <1>5, <2>2, <4>1, Zenon DEF Fresh
    <3>4. TestOK(req[r])'
      <4> SUFFICES ASSUME req'[r].op = "test", ~Excused'
                   PROVE  ProgressOK(req[r])'
        BY DEF TestOK
      <4>1. Tested(r)
        <5>1. q.op = "test" /\ TestOK(q)
          BY <2>2, <2>6 DEF GoesPlain, CalmInv, CalmSlot
        <5> QED BY <3>2, <5>1 DEF Tested, TestOK
      <4>2. /\ q.back \in {"pickTemplate", "findMade"} /\ q.row.name = DefaultNames[q.k]
            /\ q.back = "pickTemplate" => \A j \in 1 .. N : j < q.k => Made(j)
            /\ q.back = "findMade" =>
                 (\A j \in 1 .. N : Named(q.picked[j], j)) /\ WithScope("interop") # {}
        BY <1>1, <4>1, SMT DEF Tested, ProgressOK, Making, Scoping
      <4>3. \A u, j : Named(u, j) => Named(u, j)'
        BY <3>2, Zenon DEF Named
      <4>4. \A j : j = q.k => Made(j)'
        <5>1. templates'[t].name = DefaultNames[q.k] /\ t \in LiveTemplates'
          BY <3>2, <4>2
        <5> QED BY <5>1, Zenon DEF Made, Named
      <4>5. q.back = "pickTemplate" => \A j \in 1 .. N : j =< q.k => Made(j)'
        <5>1. \A j : Made(j) => Made(j)'
          BY <4>3, Zenon DEF Made
        <5>2. q.k \in 1 .. N
          BY <1>1, SlotFields DEF TypeOK
        <5>3. \A j \in 1 .. N : j =< q.k => j < q.k \/ j = q.k
          BY <5>2, NInNat, SMT
        <5> QED BY <4>2, <4>4, <5>1, <5>3
      <4>6. q.back = "findMade" =>
              (\A j \in 1 .. N : Named(req[r].picked[j], j)') /\ WithScope("interop")' # {}
        <5>1. req'[r].picked = q.picked
          BY <1>1, <2>1, NextDefaultFacts DEF KeepsAsk
        <5> QED BY <1>1, <4>2, <4>3, <5>1, SameScopes, Zenon
      <4> QED BY <1>1, <2>1, <4>2, <4>5, <4>6, NextDefaultProgress
    <3>5. CarriedOK(req[r])'
      BY <2>6, SMT DEF GoesPlain, Plain, CarriedOK
    <3> QED BY <3>3, <3>4, <3>5 DEF CalmSlot
  <2> QED BY <1>1, <1>2, <1>4, <2>2, <2>6, CalmAlone DEF GoesPlain
<1> QED BY <1>6, <1>7

LEMMA SaveUpdateCalm ==
  ASSUME IInv, CalmInv, NEW r \in Slots, SaveUpdate(r)
  PROVE  CalmInv'
<1> DEFINE t   == req[r].t
           row == req[r].row
<1>1. /\ TypeOK /\ req[r].pc = "saveUpdate" /\ calm' = calm /\ IsFiniteSet(LiveTemplates)
      /\ provider' = provider /\ End(r) /\ templates' = [templates EXCEPT ![t] = row]
      /\ Missed({t})
  BY DEF SaveUpdate, Resume, Busy, IInv, CalmInv
<1>2. t \in Templates
  BY <1>1 DEF IInv, SlotsOK, SlotOK, Born
<1>3. Others(r) /\ req'[r].pc = "idle" /\ CalmSlot(req[r])'
  BY <1>1, EndFacts, IdleCalm
<1>4. "saveUpdate" \notin Refreshing /\ "saveUpdate" # "idle"
  BY SMT DEF Refreshing
<1> HIDE DEF t, row
<1>5. IsFiniteSet(LiveTemplates)'
  BY <1>1, <1>2, OneMore
<1>6. ASSUME calm
      PROVE  Fresh'
  <2> SUFFICES ASSUME provider # None
               PROVE  \A u \in Templates \ unseen' : provider'.listed[u] = Announced'[u]
    BY <1>1, Zenon DEF Fresh
  <2>1. t \in unseen' /\ unseen \subseteq unseen'
    BY <1>1, <1>6 DEF Missed
  <2> QED BY <1>1, <1>2, <1>4, <1>6, <2>1, FreshNow, OthersShown
<1> QED BY <1>1, <1>3, <1>4, <1>5, <1>6, CalmAlone

\* What refreshes the provider next has nothing to carry over but what it read.
LEMMA RefreshingCalm ==
  ASSUME NEW r \in Slots, req'[r].pc \in Refreshing,
         req'[r].pc # "readTemplates" => req'[r].seen = Announced'
  PROVE  CalmSlot(req[r])'
<1>1. CarriedOK(req[r])'
  BY SMT DEF Refreshing, CarriedOK
<1>2. ProgressOK(req[r])'
  BY SMT DEF Refreshing, ProgressOK, Making, Offering, Looking, Scoping
<1> QED BY <1>1, <1>2 DEF CalmSlot, TestOK

LEMMA DeleteTemplateCalm ==
  ASSUME IInv, CalmInv, NEW r \in Slots, DeleteTemplate(r)
  PROVE  CalmInv'
<1> DEFINE t   == req[r].t
           row == [templates[t] EXCEPT !.live = "gone"]
<1>1. /\ TypeOK /\ req[r].pc = "deleteTemplate" /\ calm' = calm /\ unseen' = unseen
      /\ IsFiniteSet(LiveTemplates) /\ Goto(r, "readTemplates") /\ provider' = provider
      /\ templates' = [templates EXCEPT ![t].live = "gone"]
  BY DEF DeleteTemplate, Step, Resume, Busy, IInv, CalmInv
<1>2. t \in Templates
  BY <1>1 DEF IInv, SlotsOK, SlotOK, Born
<1>3. Others(r) /\ req'[r].pc = "readTemplates" /\ req'[r].t = t
  BY <1>1, GotoFacts
<1>4. "readTemplates" \in Refreshing /\ "deleteTemplate" \notin Refreshing /\ "deleteTemplate" # "idle"
  BY SMT DEF Refreshing
<1>5. CalmSlot(req[r])' /\ Brings(req'[r], t)
  BY <1>3, <1>4, RefreshingCalm DEF Brings
<1>6. templates' = [templates EXCEPT ![t] = row]
  BY <1>1, Zenon
<1> HIDE DEF row, t
<1>7. IsFiniteSet(LiveTemplates)'
  BY <1>1, <1>2, <1>6, OneMore
<1>8. ASSUME calm
      PROVE  Fresh'
  <2>1. provider # None =>
          \A u \in Templates \ unseen' : u # t => provider'.listed[u] = Announced'[u]
    BY <1>1, <1>2, <1>4, <1>6, <1>8, FreshNow, OthersShown
  <2> QED BY <1>1, <1>5, <2>1, Zenon DEF Fresh
<1> QED BY <1>1, <1>3, <1>4, <1>5, <1>7, <1>8, CalmAlone

\* A refresh on its way keeps what it brings, and everything else, as it was.
LEMMA StillFresh ==
  ASSUME Fresh, NEW r \in Slots, Others(r), UNCHANGED <<templates, provider, unseen>>,
         req'[r].pc \in Refreshing, req'[r].t = req[r].t
  PROVE  Fresh'
<1>1. Announced' = Announced
  BY DEF Announced, LiveTemplates
<1>2. \A s \in Slots, t \in Templates : Brings(req[s], t) => Brings(req[s], t)'
  <2> SUFFICES ASSUME NEW s \in Slots, NEW t \in Templates, Brings(req[s], t)
               PROVE  Brings(req[s], t)'
    OBVIOUS
  <2>1. CASE s = r
    BY <2>1 DEF Brings
  <2>2. CASE s # r
    BY <2>2 DEF Brings, Others
  <2> QED BY <2>1, <2>2
<1> QED BY <1>1, <1>2 DEF Fresh

LEMMA ReadTemplatesCalm ==
  ASSUME IInv, CalmInv, NEW r \in Slots, ReadTemplates(r)
  PROVE  CalmInv'
<1> DEFINE q == req[r]
           f == [q EXCEPT !.pc = "readDefinitions", !.seen = Announced]
<1>1. /\ TypeOK /\ q \in Slot /\ q.pc = "readTemplates" /\ calm' = calm
      /\ IsFiniteSet(LiveTemplates) /\ Become(r, f)
      /\ UNCHANGED <<templates, provider, unseen>>
  BY DEF ReadTemplates, Step, Resume, Busy, IInv, CalmInv, TypeOK, tables
<1>2. Others(r) /\ req'[r] = f
  BY <1>1, BecomeFacts
<1>3. f.pc = "readDefinitions" /\ f.seen = Announced /\ f.t = q.t
  <2> HIDE DEF q
  <2> QED BY <1>1, Zenon DEF Slot
<1> HIDE DEF f
<1>4. "readDefinitions" \in Refreshing /\ "readTemplates" # "idle"
  BY SMT DEF Refreshing
<1>5. LiveTemplates' = LiveTemplates /\ Announced' = Announced
  BY <1>1, SameNames DEF Announced
<1>6. CalmSlot(req[r])'
  BY <1>2, <1>3, <1>4, <1>5, RefreshingCalm
<1>7. calm => Fresh'
  BY <1>1, <1>2, <1>3, <1>4, StillFresh DEF CalmInv
<1> QED BY <1>1, <1>2, <1>4, <1>5, <1>6, <1>7, CalmAlone

LEMMA ReadDefinitionsCalm ==
  ASSUME IInv, CalmInv, NEW r \in Slots, ReadDefinitions(r)
  PROVE  CalmInv'
<1> DEFINE q == req[r]
           a == {definitions[d].scope : d \in LiveDefinitions}
           f == [q EXCEPT !.pc = "setProvider", !.announce = a]
<1>1. /\ TypeOK /\ q \in Slot /\ q.pc = "readDefinitions" /\ calm' = calm
      /\ IsFiniteSet(LiveTemplates) /\ Become(r, f)
      /\ UNCHANGED <<templates, provider, unseen>>
  BY DEF ReadDefinitions, Step, Resume, Busy, IInv, CalmInv, TypeOK, tables
<1>2. Others(r) /\ req'[r] = f
  BY <1>1, BecomeFacts
<1>3. f.pc = "setProvider" /\ f.seen = q.seen /\ f.t = q.t
  <2> HIDE DEF q, a
  <2> QED BY <1>1, Zenon DEF Slot
<1> HIDE DEF f
<1>4. "setProvider" \in Refreshing /\ "readDefinitions" # "idle"
  BY SMT DEF Refreshing
<1>5. LiveTemplates' = LiveTemplates /\ Announced' = Announced
  BY <1>1, SameNames DEF Announced
<1>6. ASSUME calm
      PROVE  CalmSlot(req[r])' /\ Fresh'
  <2>1. q.seen = Announced /\ Fresh
    BY <1>1, <1>6 DEF CalmInv, CalmSlot, CarriedOK
  <2>2. CalmSlot(req[r])'
    BY <1>2, <1>3, <1>4, <1>5, <2>1, RefreshingCalm
  <2> QED BY <1>1, <1>2, <1>3, <1>4, <2>1, <2>2, StillFresh
<1> QED BY <1>1, <1>2, <1>4, <1>5, <1>6, CalmAlone

LEMMA SetProviderCalm ==
  ASSUME IInv, CalmInv, NEW r \in Slots, SetProvider(r)
  PROVE  CalmInv'
<1> DEFINE q == req[r]
<1>1. /\ TypeOK /\ q.pc = "setProvider" /\ calm' = calm /\ IsFiniteSet(LiveTemplates)
      /\ End(r) /\ templates' = templates
      /\ provider' = [listed |-> q.seen, scopes |-> q.announce]
  BY DEF SetProvider, Resume, Busy, IInv, CalmInv, tables
<1>2. Others(r) /\ CalmSlot(req[r])' /\ "setProvider" # "idle"
  BY <1>1, EndFacts, IdleCalm
<1>3. LiveTemplates' = LiveTemplates /\ Announced' = Announced
  BY <1>1, SameNames DEF Announced
<1>4. ASSUME calm
      PROVE  Fresh'
  <2>1. q.seen = Announced
    BY <1>1, <1>4 DEF CalmInv, CalmSlot, CarriedOK
  <2>2. provider'.listed = q.seen
    BY <1>1
  <2> QED BY <1>3, <2>1, <2>2 DEF Fresh
<1> QED BY <1>1, <1>2, <1>3, <1>4, CalmAlone

\* A refresh that fails leaves its template unseen.
LEMMA FailCalm ==
  ASSUME IInv, CalmInv, NEW r \in Slots, Fail(r)
  PROVE  CalmInv'
<1> DEFINE ts == IF req[r].pc \in Refreshing THEN {req[r].t} \ {None} ELSE {}
<1>1. /\ TypeOK /\ req[r].pc # "idle" /\ calm' = calm /\ End(r) /\ Missed(ts)
      /\ UNCHANGED <<templates, provider>>
  BY DEF Fail, tables, IInv
<1>2. Others(r) /\ CalmSlot(req[r])'
  BY <1>1, EndFacts, IdleCalm
<1>3. LiveTemplates' = LiveTemplates /\ Announced' = Announced /\ IsFiniteSet(LiveTemplates)
  BY <1>1, SameNames DEF Announced, CalmInv
<1>4. ASSUME calm, provider # None
      PROVE  \A u \in Templates \ unseen' : provider.listed[u] = Announced[u]
  <2> SUFFICES ASSUME NEW u \in Templates, u \notin unseen'
               PROVE  provider.listed[u] = Announced[u]
    OBVIOUS
  <2>1. u \notin unseen /\ u \notin ts
    BY <1>1, <1>4 DEF Missed
  <2>2. u # None
    BY CatalogueAssumption DEF CatalogueAssumption
  <2>3. ~Brings(req[r], u)
    BY <2>1, <2>2 DEF Brings
  <2>4. \A s \in Slots : s # r => ~Brings(req[s], u)
    <3>1. \A s \in Slots : s # r => req[s].pc = "idle"
      BY <1>1, <1>4, AloneIdle DEF Busy
    <3> QED BY <3>1, SMT DEF Brings, Refreshing
  <2> QED BY <1>4, <2>1, <2>3, <2>4 DEF CalmInv, Fresh
<1>5. calm => Fresh'
  BY <1>1, <1>3, <1>4, Zenon DEF Fresh
<1> QED BY <1>1, <1>2, <1>3, <1>5, CalmAlone

\* After a restart nothing is in flight and there is no provider.
LEMMA RestartCalm ==
  ASSUME CalmInv, Restart
  PROVE  CalmInv'
<1>1. \A r \in Slots : req'[r].pc = "idle"
  BY Zenon DEF Restart, Idle
<1>2. Alone' /\ \A r \in Slots : CalmSlot(req[r])'
  BY <1>1, IdleCalm DEF Alone, Busy
<1>3. Fresh'
  BY DEF Restart, Fresh
<1>4. LiveTemplates' = LiveTemplates
  BY DEF Restart, tables, LiveTemplates
<1> QED BY <1>2, <1>3, <1>4 DEF CalmInv

LEMMA InitCalm == Init => CalmInv
<1> SUFFICES ASSUME Init
             PROVE  CalmInv
  OBVIOUS
<1>1. \A r \in Slots : req[r].pc = "idle"
  BY Zenon DEF Init, Idle
<1>2. LiveTemplates = {}
  BY SMT DEF Init, LiveTemplates, NoTemplate
<1>3. IsFiniteSet(LiveTemplates)
  BY <1>2, FS_EmptySet
<1>4. Alone /\ Fresh
  BY <1>1 DEF Init, Alone, Busy, Fresh
<1>5. \A r \in Slots : CalmSlot(req[r])
  BY <1>1, SMT DEF CalmSlot, CarriedOK, TestOK, ProgressOK, Making, Offering, Looking, Scoping
<1> QED BY <1>3, <1>4, <1>5 DEF CalmInv

-----------------------------------------------------------------------------
LEMMA AdminCalm ==
  ASSUME IInv, CalmInv, NEW r \in Slots, Admin(r)
  PROVE  CalmInv'
<1>1. CASE \E n \in AdminNames, ty \in AdminTypes, holes \in BOOLEAN, display \in Displays :
             CreateTemplate(r, n, ty, holes, display)
  BY <1>1, CreateTemplateCalm
<1>2. CASE \E t \in LiveTemplates : \E dto \in Updates(t) : UpdateTemplate(r, t, dto)
  BY <1>2, UpdateTemplateCalm
<1>3. CASE \E t \in Templates : RemoveTemplate(r, t)
  BY <1>3, RemoveTemplateCalm
<1>4. CASE SaveUpdate(r) \/ DeleteTemplate(r)
  BY <1>4, SaveUpdateCalm, DeleteTemplateCalm
<1>5. CASE \E s \in Scopes : DefineScope(r, s)
  BY <1>5, DoneCalm DEF DefineScope, IInv
<1>6. CASE \E d \in Definitions : RedefineScope(r, d)
  BY <1>6, RedefineScopeCalm
<1>7. CASE \E d \in Definitions : Undefine(r, d)
  BY <1>7, DoneCalm DEF Undefine, IInv
<1>8. CASE SaveRedefined(r) \/ DeleteMapping(r)
  <2>1. "saveRedefined" \notin Refreshing /\ "deleteMapping" \notin Refreshing
    BY SMT DEF Refreshing
  <2> QED BY <1>8, <2>1, EndCalm DEF SaveRedefined, DeleteMapping
<1>9. CASE \E d \in Definitions, t \in LiveTemplates : MapScope(r, d, t)
  BY <1>9, MapScopeCalm
<1>10. CASE \E m \in Mappings : Unmap(r, m)
  BY <1>10, UnmapCalm
<1> QED BY <1>1, <1>2, <1>3, <1>4, <1>5, <1>6, <1>7, <1>8, <1>9, <1>10 DEF Admin

LEMMA DeskCalm ==
  ASSUME IInv, CalmInv, NEW r \in Slots, Desk(r)
  PROVE  CalmInv'
<1>1. CASE Deliver(r)
  <2>1. "answered" \notin Refreshing
    BY SMT DEF Refreshing
  <2> QED BY <1>1, <2>1, EndCalm DEF Deliver, tables
<1>2. CASE AskTests(r) \/ \E t \in LiveTemplates, s \in Scopes : AskOffer(r, t, s)
  BY <1>2, AskTestsCalm, AskOfferCalm
<1>3. CASE FindDefault(r) \/ ReadTypes(r) \/ PickTemplate(r)
  BY <1>3, FindDefaultCalm, ReadTypesCalm, PickTemplateCalm
<1>4. CASE FindScope(r) \/ FindWanted(r) \/ Define(r)
  BY <1>4, FindScopeCalm, FindWantedCalm, DefineCalm
<1>5. CASE FindVerification(r) \/ FindMade(r) \/ MapDefinition(r)
  BY <1>5, FindVerificationCalm, FindMadeCalm, MapDefinitionCalm
<1>6. CASE MakeOffer(r) \/ SaveClaim(r)
  BY <1>6, MakeOfferCalm, SaveClaimCalm
<1> QED BY <1>1, <1>2, <1>3, <1>4, <1>5, <1>6 DEF Desk

LEMMA SharedCalm ==
  ASSUME IInv, CalmInv, NEW r \in Slots, Shared(r)
  PROVE  CalmInv'
  BY UseProviderCalm, ReadTemplatesCalm, ReadDefinitionsCalm, SetProviderCalm,
     SaveTemplateCalm, MapTemplateCalm, MapCheckCalm, SaveMappingCalm, FailCalm DEF Shared

LEMMA StepCalmInv == IInv /\ CalmInv /\ [Next]_vars => CalmInv'
<1> SUFFICES ASSUME IInv, CalmInv, [Next]_vars
             PROVE  CalmInv'
  OBVIOUS
<1>1. CASE Next
  BY <1>1, RestartCalm, AdminCalm, DeskCalm, SharedCalm DEF Next
<1>2. CASE UNCHANGED vars
  <2>1. UNCHANGED <<templates, definitions, provider, req, calm, unseen>>
    BY <1>2 DEF vars, tables
  <2>2. LiveTemplates' = LiveTemplates /\ Alone' = Alone /\ Fresh' = Fresh
    BY <2>1 DEF LiveTemplates, Alone, Busy, Fresh, Announced, Brings
  <2>3. ASSUME NEW r \in Slots
        PROVE  CalmSlot(req[r])' = CalmSlot(req[r])
    <3>1. CarriedOK(req[r])' = CarriedOK(req[r])
      BY <2>1 DEF CarriedOK, LiveTemplates, Announced
    <3>2. Excused' = Excused
      BY <2>1 DEF Excused, TooMany, Clash, Unfilled, LiveTemplates
    <3>3. ProgressOK(req[r])' = ProgressOK(req[r])
      BY <2>1 DEF ProgressOK, Named, Made, LiveTemplates, WithScope, LiveDefinitions,
                  Making, Offering, Looking, Scoping
    <3> QED BY <2>1, <3>1, <3>2, <3>3 DEF CalmSlot, TestOK
  <2> QED BY <2>1, <2>2, <2>3 DEF CalmInv
<1> QED BY <1>1, <1>2

LEMMA CalmAlways == Spec => []CalmInv
  BY InitCalm, StepCalmInv, IInvAlways, PTL DEF Spec

\* While requests come one at a time, the provider announces every template as it
\* is stored and none that was removed, but for those that were updated, that the
\* desk made or whose refresh failed since a creation or a deletion last got
\* through to its new provider.
THEOREM ListedInCalm == Spec => []ListedWhenCalm
<1>1. ASSUME CalmInv
      PROVE  ListedWhenCalm
  <2>1. Quiet => \A r \in Slots : req[r].pc \notin Refreshing
    BY SMT DEF Quiet, Busy, Refreshing
  <2> QED BY <1>1, <2>1, Zenon DEF CalmInv, Fresh, Brings, ListedWhenCalm
<1> QED BY <1>1, CalmAlways, PTL

\* A test holder whose request overlapped no other gets a claim for every
\* default template, but for the three reasons that TestsComplete names.
THEOREM TestsCompleteInCalm == Spec => []TestsComplete
<1>1. ASSUME CalmInv
      PROVE  TestsComplete
  <2> SUFFICES ASSUME NEW r \in Slots, req[r].pc = "answered", calm, ~Excused
               PROVE  req[r].got = 1 .. N
    BY DEF TestsComplete, Busy, Excused
  <2>1. CalmSlot(req[r])
    BY <1>1 DEF CalmInv
  <2>2. req[r].op = "test"
    BY <2>1 DEF CalmSlot, CarriedOK
  <2> QED BY <2>1, <2>2 DEF CalmSlot, TestOK, ProgressOK
<1> QED BY <1>1, CalmAlways, PTL
=============================================================================
