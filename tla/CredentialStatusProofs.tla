------------------------ MODULE CredentialStatusProofs ------------------------
(***************************************************************************)
(* Proofs about CredentialStatus for every number of credentials, lists,   *)
(* entries and handlers: the tables keep their types, and overlapping      *)
(* handlers never revoke a credential that nobody asked to revoke.         *)
(***************************************************************************)
EXTENDS CredentialStatus, FiniteSetTheorems, TLAPS

(***************************************************************************)
(* The inductive invariant.  Its operators take the tables as parameters,  *)
(* to compare them before and after a step.                                *)
(***************************************************************************)

\* Index i of list l belongs to a credential whose revocation was begun.
Asked(l, i, es, asked) ==
    \E e \in Entries : /\ es[e].cred # None /\ es[e].cred \in asked
                       /\ es[e].ref.list = l /\ es[e].ref.index = i

\* What a handler relies on when it goes on.
SlotOK(q, es, asked) ==
    /\ q.pc # "idle" => q.cred \in Credentials
    /\ q.pc = "addRead" => q.list \in Lists
    /\ q.pc \in {"addSave", "store", "listSave"} => q.ref \in Refs
    /\ q.pc \in {"listSave", "entrySave"} => q.entry \in Entries
    /\ q.pc = "revokeRead" => q.cred \in asked
    /\ q.pc = "listSave" => \A i \in q.bits : Asked(q.ref.list, i, es, asked)

SlotsOK   == \A r \in Slots : SlotOK(req[r], entries, requested)
EntriesOK == \A e \in Entries : IsBorn(e) => entries[e].ref \in Refs
ListsOK   == \A l \in Lists : \A i \in lists[l].bits : Asked(l, i, entries, requested)

IInv == TypeOK /\ SlotsOK /\ EntriesOK /\ ListsOK

-----------------------------------------------------------------------------
(***************************************************************************)
(* Records.                                                                *)
(***************************************************************************)
LEMMA IdleType == Idle \in Slot
  BY SMT DEF Idle, Slot

LEMMA SlotFields ==
  ASSUME NEW q \in Slot
  PROVE  /\ q.cred \in Credentials \cup {None} /\ q.list \in Lists \cup {None}
         /\ q.ref \in Refs \cup {None} /\ q.signed \in Refs \cup {None}
         /\ q.entry \in Entries \cup {None} /\ q.bits \in SUBSET Indices
  BY SMT DEF Slot

LEMMA RefType ==
  ASSUME NEW l \in Lists, NEW i \in Indices
  PROVE  [list |-> l, index |-> i] \in Refs
  BY DEF Refs

LEMMA RefFields ==
  ASSUME NEW ref \in Refs
  PROVE  ref.list \in Lists /\ ref.index \in Indices
  BY DEF Refs

LEMMA RefIsNotNone == None \notin Refs
  BY StatusAssumption DEF Refs

\* What is known of the slot of a handler, and of an entry that it finds.
LEMMA SlotFacts ==
  ASSUME IInv, NEW r \in Slots
  PROVE  req[r] \in Slot /\ SlotOK(req[r], entries, requested)
  BY DEF IInv, TypeOK, SlotsOK

LEMMA EntryFacts ==
  ASSUME IInv, NEW e \in Entries
  PROVE  /\ entries[e] \in Entry /\ entries[e].cred \in Credentials \cup {None}
         /\ IsBorn(e) => entries[e].ref \in Refs
  BY DEF IInv, TypeOK, EntriesOK, Entry

-----------------------------------------------------------------------------
(***************************************************************************)
(* Types.                                                                  *)
(***************************************************************************)
LEMMA TypeStep ==
  ASSUME IInv, [Next]_vars
  PROVE  TypeOK'
<1> USE DEF IInv
<1>1. ASSUME NEW r \in Slots, NEW c \in Credentials, Issue(r, c) PROVE TypeOK'
  <2>1. [Idle EXCEPT !.pc = "sign", !.cred = c] \in Slot
    BY IdleType, Zenon DEF Slot
  <2> QED
    BY <1>1, <2>1 DEF Issue, TypeOK
<1>2. ASSUME NEW r \in Slots, NEW c \in Credentials, NEW e \in Entries, Revoke(r, c, e)
      PROVE  TypeOK'
  <2>1. [Idle EXCEPT !.pc = "revokeRead", !.cred = c] \in Slot
    BY IdleType, Zenon DEF Slot
  <2> QED
    BY <1>2, <2>1 DEF Revoke, TypeOK
<1>3. ASSUME NEW c \in Credentials, NEW e \in Entries, RevokeAgain(c, e) PROVE TypeOK'
  BY <1>3 DEF RevokeAgain, TypeOK
<1>4. ASSUME NEW c \in Credentials, Reopen(c) PROVE TypeOK'
  BY <1>4 DEF Reopen, TypeOK
<1>5. ASSUME NEW r \in Slots, Sign(r) PROVE TypeOK'
  <2>1. req[r] \in Slot /\ req[r].ref \in Refs \cup {None}
    BY SlotFacts, SlotFields
  <2>2. [req[r] EXCEPT !.pc = "getList", !.signed = req[r].ref] \in Slot
    BY <2>1, Zenon DEF Slot
  <2> QED
    BY <1>5, <2>2 DEF Sign, TypeOK
<1>6. ASSUME NEW r \in Slots, NEW l \in Lists, GetList(r, l) PROVE TypeOK'
  <2>1. [req[r] EXCEPT !.pc = "addRead", !.list = l] \in Slot
    BY SlotFacts, Zenon DEF Slot
  <2> QED
    BY <1>6, <2>1 DEF GetList, TypeOK
<1>7. ASSUME NEW r \in Slots, NoListToGet(r) PROVE TypeOK'
  <2>1. [req[r] EXCEPT !.pc = "createList"] \in Slot
    BY SlotFacts, Zenon DEF Slot
  <2> QED
    BY <1>7, <2>1 DEF NoListToGet, Goto, TypeOK
<1>8. ASSUME NEW r \in Slots, NEW l \in Lists, CreateList(r, l) PROVE TypeOK'
  <2>1. [req[r] EXCEPT !.pc = "addRead", !.list = l] \in Slot
    BY SlotFacts, Zenon DEF Slot
  <2> DEFINE age == 1 + Cardinality({k \in Lists : lists[k].age > 0})
  <2>2. age \in Nat
    BY StatusAssumption, FS_Subset, FS_CardinalityType
  <2>3. lists[l] \in List
    BY DEF TypeOK
  <2>4. [lists[l] EXCEPT !.age = age] \in List
    <3> HIDE DEF age
    <3> QED
      BY <2>2, <2>3, Zenon DEF List
  <2> QED
    BY <1>8, <2>1, <2>4 DEF CreateList, TypeOK
<1>9. ASSUME NEW r \in Slots, NEW i \in Indices, AddRead(r, i) PROVE TypeOK'
  <2> DEFINE ref == [list |-> req[r].list, index |-> i]
  <2>1. ref \in Refs
    BY <1>9, SlotFacts, RefType DEF AddRead, Busy, SlotOK
  <2>2. [req[r] EXCEPT !.pc = "addSave", !.ref = ref] \in Slot
    <3> HIDE DEF ref
    <3> QED
      BY <2>1, SlotFacts, Zenon DEF Slot
  <2> QED
    BY <1>9, <2>2 DEF AddRead, TypeOK
<1>10. ASSUME NEW r \in Slots, TooFull(r) \/ Fail(r) PROVE TypeOK'
  BY <1>10, IdleType DEF TooFull, Fail, End, TypeOK
<1>11. ASSUME NEW r \in Slots, NEW e \in Entries, AddSave(r, e) PROVE TypeOK'
  <2>1. req[r].cred \in Credentials /\ req[r].ref \in Refs
    BY <1>11, SlotFacts DEF AddSave, Busy, SlotOK
  <2>2. [cred |-> req[r].cred, ref |-> req[r].ref, revoked |-> FALSE] \in Entry
    BY <2>1 DEF Entry
  <2>3. [req[r] EXCEPT !.pc = "store"] \in Slot
    BY SlotFacts, Zenon DEF Slot
  <2> QED
    BY <1>11, <2>2, <2>3 DEF AddSave, Goto, TypeOK
<1>12. ASSUME NEW r \in Slots, Store(r) PROVE TypeOK'
  <2>1. req[r].cred \in Credentials /\ req[r].ref \in Refs
    BY <1>12, SlotFacts DEF Store, Busy, SlotOK
  <2>2. [cred |-> req[r].cred, ref |-> req[r].signed] \in Jwt
    BY <2>1, SlotFacts, SlotFields DEF Jwt
  <2> QED
    BY <1>12, <2>1, <2>2, IdleType DEF Store, End, TypeOK
<1>13. ASSUME NEW r \in Slots, NEW e \in Entries, RevokeRead(r, e) PROVE TypeOK'
  <2> DEFINE ref  == entries[e].ref
             bits == lists[ref.list].bits \cup {ref.index}
  <2>1. ref \in Refs
    BY <1>13, EntryFacts, SlotFacts, StatusAssumption
       DEF RevokeRead, EntriesOf, IsBorn, Busy, SlotOK
  <2>2. bits \in SUBSET Indices
    BY <2>1, RefFields DEF TypeOK, List
  <2>3. [req[r] EXCEPT !.pc = "listSave", !.entry = e, !.ref = ref, !.bits = bits] \in Slot
    <3> HIDE DEF ref, bits
    <3> QED
      BY <2>1, <2>2, SlotFacts, Zenon DEF Slot
  <2> QED
    BY <1>13, <2>3 DEF RevokeRead, TypeOK
<1>14. ASSUME NEW r \in Slots, ListSave(r) PROVE TypeOK'
  <2>1. req[r].ref.list \in Lists /\ req[r].bits \in SUBSET Indices
    BY <1>14, SlotFacts, SlotFields, RefFields DEF ListSave, Busy, SlotOK
  <2>2. [lists[req[r].ref.list] EXCEPT !.bits = req[r].bits] \in List
    BY <2>1, Zenon DEF TypeOK, List
  <2>3. [req[r] EXCEPT !.pc = "entrySave"] \in Slot
    BY SlotFacts, Zenon DEF Slot
  <2> QED
    BY <1>14, <2>2, <2>3 DEF ListSave, Goto, TypeOK
<1>15. ASSUME NEW r \in Slots, EntrySave(r) PROVE TypeOK'
  <2>1. req[r].cred \in Credentials /\ req[r].entry \in Entries
    BY <1>15, SlotFacts DEF EntrySave, Busy, SlotOK
  <2>2. [entries[req[r].entry] EXCEPT !.revoked = TRUE] \in Entry
    BY <2>1, Zenon DEF TypeOK, Entry
  <2> QED
    BY <1>15, <2>1, <2>2, IdleType DEF EntrySave, End, TypeOK
<1>16. CASE UNCHANGED vars
  BY <1>16 DEF vars, TypeOK
<1> QED
  BY <1>1, <1>2, <1>3, <1>4, <1>5, <1>6, <1>7, <1>8, <1>9, <1>10, <1>11, <1>12, <1>13,
     <1>14, <1>15, <1>16
     DEF Next, Step

-----------------------------------------------------------------------------
(***************************************************************************)
(* Entries last: what is born keeps its credential and its index, and a    *)
(* revocation that was begun stays begun.                                  *)
(***************************************************************************)
LEMMA EntryLasts ==
  ASSUME IInv, [Next]_vars, NEW e \in Entries, IsBorn(e)
  PROVE  entries'[e].cred = entries[e].cred /\ entries'[e].ref = entries[e].ref
<1>1. entries \in [Entries -> Entry] /\ entries[e] \in Entry
  BY DEF IInv, TypeOK
<1>2. ASSUME NEW r \in Slots, NEW d \in Entries, AddSave(r, d) PROVE entries'[e] = entries[e]
  BY <1>1, <1>2 DEF AddSave, IsBorn
<1>3. ASSUME NEW r \in Slots, EntrySave(r)
      PROVE  entries'[e] = entries[e] \/ entries'[e] = [entries[e] EXCEPT !.revoked = TRUE]
  BY <1>1, <1>3 DEF EntrySave
<1>4. \/ entries'[e] = entries[e]
      \/ entries'[e] = [entries[e] EXCEPT !.revoked = TRUE]
  BY <1>2, <1>3
     DEF Next, Step, vars, Issue, Revoke, RevokeAgain, Reopen, Fail, Sign, NoListToGet,
         TooFull, Store, GetList, CreateList, AddRead, RevokeRead, ListSave
<1> QED
  BY <1>1, <1>4 DEF Entry

LEMMA RequestLasts ==
  ASSUME [Next]_vars
  PROVE  requested \subseteq requested'
  BY DEF Next, Step, vars, Issue, Revoke, RevokeAgain, Reopen, Fail, Sign, NoListToGet,
         TooFull, Store, GetList, CreateList, AddRead, AddSave, RevokeRead, ListSave,
         EntrySave

LEMMA AskedLasts ==
  ASSUME IInv, [Next]_vars, NEW l, NEW i, Asked(l, i, entries, requested)
  PROVE  Asked(l, i, entries', requested')
  BY EntryLasts, RequestLasts DEF Asked, IsBorn

LEMMA SlotLasts ==
  ASSUME IInv, [Next]_vars, NEW q, SlotOK(q, entries, requested)
  PROVE  SlotOK(q, entries', requested')
  BY AskedLasts, RequestLasts DEF SlotOK

LEMMA OthersLast ==
  ASSUME IInv, [Next]_vars, NEW r \in Slots, NEW f, req' = [req EXCEPT ![r] = f],
         SlotOK(f, entries', requested')
  PROVE  SlotsOK'
<1> SUFFICES ASSUME NEW x \in Slots PROVE SlotOK(req'[x], entries', requested')
  BY DEF SlotsOK
<1>1. CASE x = r
  BY <1>1 DEF IInv, TypeOK
<1>2. CASE x # r
  <2>1. req'[x] = req[x]
    BY <1>2 DEF IInv, TypeOK
  <2>2. SlotOK(req[x], entries', requested')
    BY SlotFacts, SlotLasts
  <2> QED
    BY <2>1, <2>2
<1> QED
  BY <1>1, <1>2

LEMMA EndLasts ==
  ASSUME IInv, [Next]_vars, NEW r \in Slots, End(r)
  PROVE  SlotsOK'
<1>1. SlotOK(Idle, entries', requested')
  BY DEF SlotOK, Idle
<1> QED
  BY <1>1, OthersLast DEF End

LEMMA AllLast ==
  ASSUME IInv, [Next]_vars, req' = req
  PROVE  SlotsOK'
<1>1. \A x \in Slots : SlotOK(req[x], entries', requested')
  BY SlotFacts, SlotLasts
<1> QED
  BY <1>1 DEF SlotsOK

\* A step leaves every handler what it relies on when it goes on.
LEMMA SlotsStep ==
  ASSUME IInv, [Next]_vars
  PROVE  SlotsOK'
<1>1. ASSUME NEW r \in Slots, NEW c \in Credentials, Issue(r, c) PROVE SlotsOK'
  <2> DEFINE f == [Idle EXCEPT !.pc = "sign", !.cred = c]
  <2>1. f.pc = "sign" /\ f.cred = c
    BY DEF Idle
  <2>2. SlotOK(f, entries', requested')
    BY <2>1 DEF SlotOK
  <2> QED
    BY <1>1, <2>2, OthersLast DEF Issue
<1>2. ASSUME NEW r \in Slots, NEW c \in Credentials, NEW e \in Entries, Revoke(r, c, e)
      PROVE  SlotsOK'
  <2> DEFINE f == [Idle EXCEPT !.pc = "revokeRead", !.cred = c]
  <2>1. f.pc = "revokeRead" /\ f.cred = c
    BY DEF Idle
  <2>2. SlotOK(f, entries', requested')
    BY <1>2, <2>1 DEF SlotOK, Revoke
  <2> QED
    BY <1>2, <2>2, OthersLast DEF Revoke
<1>3. ASSUME NEW c \in Credentials, NEW e \in Entries, RevokeAgain(c, e) PROVE SlotsOK'
  BY <1>3, AllLast DEF RevokeAgain
<1>4. ASSUME NEW c \in Credentials, Reopen(c) PROVE SlotsOK'
  BY <1>4, AllLast DEF Reopen
<1>5. ASSUME NEW r \in Slots, Sign(r) PROVE SlotsOK'
  <2> DEFINE f == [req[r] EXCEPT !.pc = "getList", !.signed = req[r].ref]
  <2>1. req[r] \in Slot /\ req[r].cred \in Credentials
    BY <1>5, SlotFacts DEF Sign, Busy, SlotOK
  <2>2. f.pc = "getList" /\ f.cred = req[r].cred
    BY <2>1 DEF Slot
  <2>3. SlotOK(f, entries', requested')
    BY <2>1, <2>2 DEF SlotOK
  <2> QED
    BY <1>5, <2>3, OthersLast DEF Sign
<1>6. ASSUME NEW r \in Slots, NEW l \in Lists, GetList(r, l) \/ CreateList(r, l)
      PROVE  SlotsOK'
  <2> DEFINE f == [req[r] EXCEPT !.pc = "addRead", !.list = l]
  <2>1. req[r] \in Slot /\ req[r].cred \in Credentials
    BY <1>6, SlotFacts DEF GetList, CreateList, Busy, SlotOK
  <2>2. f.pc = "addRead" /\ f.cred = req[r].cred /\ f.list = l
    BY <2>1 DEF Slot
  <2>3. SlotOK(f, entries', requested')
    BY <2>1, <2>2 DEF SlotOK
  <2>4. req' = [req EXCEPT ![r] = f]
    BY <1>6 DEF GetList, CreateList
  <2> QED
    BY <2>3, <2>4, OthersLast
<1>7. ASSUME NEW r \in Slots, NoListToGet(r) PROVE SlotsOK'
  <2> DEFINE f == [req[r] EXCEPT !.pc = "createList"]
  <2>1. req[r] \in Slot /\ req[r].cred \in Credentials
    BY <1>7, SlotFacts DEF NoListToGet, Busy, SlotOK
  <2>2. f.pc = "createList" /\ f.cred = req[r].cred
    BY <2>1 DEF Slot
  <2>3. SlotOK(f, entries', requested')
    BY <2>1, <2>2 DEF SlotOK
  <2> QED
    BY <1>7, <2>3, OthersLast DEF NoListToGet, Goto
<1>8. ASSUME NEW r \in Slots, NEW i \in Indices, AddRead(r, i) PROVE SlotsOK'
  <2> DEFINE ref == [list |-> req[r].list, index |-> i]
             f   == [req[r] EXCEPT !.pc = "addSave", !.ref = ref]
  <2>1. req[r] \in Slot /\ req[r].cred \in Credentials /\ req[r].list \in Lists
    BY <1>8, SlotFacts DEF AddRead, Busy, SlotOK
  <2>2. f.pc = "addSave" /\ f.cred = req[r].cred /\ f.ref = ref
    BY <2>1 DEF Slot
  <2>3. ref \in Refs
    BY <2>1, RefType
  <2>4. SlotOK(f, entries', requested')
    <3> HIDE DEF ref, f
    <3> QED
      BY <2>1, <2>2, <2>3 DEF SlotOK
  <2> QED
    BY <1>8, <2>4, OthersLast DEF AddRead
<1>9. ASSUME NEW r \in Slots, TooFull(r) \/ Store(r) \/ EntrySave(r) \/ Fail(r)
      PROVE  SlotsOK'
  BY <1>9, EndLasts DEF TooFull, Store, EntrySave, Fail
<1>10. ASSUME NEW r \in Slots, NEW e \in Entries, AddSave(r, e) PROVE SlotsOK'
  <2> DEFINE f == [req[r] EXCEPT !.pc = "store"]
  <2>1. req[r] \in Slot /\ req[r].cred \in Credentials /\ req[r].ref \in Refs
    BY <1>10, SlotFacts DEF AddSave, Busy, SlotOK
  <2>2. f.pc = "store" /\ f.cred = req[r].cred /\ f.ref = req[r].ref
    BY <2>1 DEF Slot
  <2>3. SlotOK(f, entries', requested')
    BY <2>1, <2>2 DEF SlotOK
  <2> QED
    BY <1>10, <2>3, OthersLast DEF AddSave, Goto
<1>11. ASSUME NEW r \in Slots, NEW e \in Entries, RevokeRead(r, e) PROVE SlotsOK'
  <2> DEFINE ref  == entries[e].ref
             bits == lists[ref.list].bits \cup {ref.index}
             f    == [req[r] EXCEPT !.pc = "listSave", !.entry = e, !.ref = ref,
                                    !.bits = bits]
  <2>1. /\ req[r] \in Slot /\ req[r].cred \in Credentials /\ req[r].cred \in requested
        /\ entries[e].cred = req[r].cred
    BY <1>11, SlotFacts DEF RevokeRead, Busy, SlotOK, EntriesOf
  <2>2. IsBorn(e) /\ ref \in Refs /\ ref.list \in Lists
    BY <2>1, EntryFacts, RefFields, StatusAssumption DEF IsBorn
  <2>3. Asked(ref.list, ref.index, entries, requested)
    BY <2>1, <2>2 DEF Asked, IsBorn
  <2>4. \A i \in bits : Asked(ref.list, i, entries', requested')
    <3>1. \A i \in bits : Asked(ref.list, i, entries, requested)
      BY <2>2, <2>3 DEF IInv, ListsOK
    <3> QED
      BY <3>1, AskedLasts
  <2>5. /\ f.pc = "listSave" /\ f.cred = req[r].cred /\ f.entry = e /\ f.ref = ref
        /\ f.bits = bits
    BY <2>1 DEF Slot
  <2>6. SlotOK(f, entries', requested')
    <3> HIDE DEF ref, bits, f
    <3> QED
      BY <2>1, <2>2, <2>4, <2>5 DEF SlotOK
  <2> QED
    BY <1>11, <2>6, OthersLast DEF RevokeRead
<1>12. ASSUME NEW r \in Slots, ListSave(r) PROVE SlotsOK'
  <2> DEFINE f == [req[r] EXCEPT !.pc = "entrySave"]
  <2>1. req[r] \in Slot /\ req[r].cred \in Credentials /\ req[r].entry \in Entries
    BY <1>12, SlotFacts DEF ListSave, Busy, SlotOK
  <2>2. f.pc = "entrySave" /\ f.cred = req[r].cred /\ f.entry = req[r].entry
    BY <2>1 DEF Slot
  <2>3. SlotOK(f, entries', requested')
    BY <2>1, <2>2 DEF SlotOK
  <2> QED
    BY <1>12, <2>3, OthersLast DEF ListSave, Goto
<1>13. CASE UNCHANGED vars
  BY <1>13, AllLast DEF vars
<1> QED
  BY <1>1, <1>2, <1>3, <1>4, <1>5, <1>6, <1>7, <1>8, <1>9, <1>10, <1>11, <1>12, <1>13
     DEF Next, Step

-----------------------------------------------------------------------------
(***************************************************************************)
(* Entries and lists.                                                      *)
(***************************************************************************)

\* An entry is inserted with the reference that its handler drew.
LEMMA EntriesStep ==
  ASSUME IInv, [Next]_vars
  PROVE  EntriesOK'
<1> SUFFICES ASSUME NEW e \in Entries, entries'[e].cred # None
             PROVE  entries'[e].ref \in Refs
  BY DEF EntriesOK, IsBorn
<1>1. CASE IsBorn(e)
  BY <1>1, EntryLasts, EntryFacts
<1>2. ASSUME ~IsBorn(e), NEW r \in Slots, NEW d \in Entries, AddSave(r, d)
      PROVE  entries'[e].ref \in Refs
  <2>1. req[r].ref \in Refs
    BY <1>2, SlotFacts DEF AddSave, Busy, SlotOK
  <2> QED
    BY <1>2, <2>1 DEF AddSave, IInv, TypeOK, IsBorn
<1>3. ASSUME ~IsBorn(e), NEW r \in Slots, EntrySave(r) PROVE FALSE
  <2>1. entries'[e].cred = entries[e].cred
    BY <1>3 DEF EntrySave, IInv, TypeOK, Entry
  <2> QED
    BY <1>3, <2>1 DEF IsBorn
<1>4. IsBorn(e) \/ entries'[e].ref \in Refs \/ entries' = entries
  BY <1>2, <1>3
     DEF Next, Step, vars, Issue, Revoke, RevokeAgain, Reopen, Fail, Sign, NoListToGet,
         TooFull, Store, GetList, CreateList, AddRead, RevokeRead, ListSave
<1> QED
  BY <1>1, <1>4 DEF IsBorn

\* A list is written back with bits that were asked for when it was read.
LEMMA ListsStep ==
  ASSUME IInv, [Next]_vars
  PROVE  ListsOK'
<1> SUFFICES ASSUME NEW l \in Lists, NEW i \in lists'[l].bits
             PROVE  Asked(l, i, entries', requested')
  BY DEF ListsOK
<1>1. lists \in [Lists -> List] /\ lists[l] \in List
  BY DEF IInv, TypeOK
<1>2. CASE i \in lists[l].bits
  BY <1>2, AskedLasts DEF IInv, ListsOK
<1>3. ASSUME NEW r \in Slots, ListSave(r), i \notin lists[l].bits
      PROVE  Asked(l, i, entries', requested')
  <2>1. SlotOK(req[r], entries, requested) /\ req[r].pc = "listSave"
    BY <1>3, SlotFacts DEF ListSave, Busy
  <2>2. l = req[r].ref.list /\ i \in req[r].bits
    BY <1>1, <1>3 DEF ListSave, List
  <2> QED
    BY <2>1, <2>2, AskedLasts DEF SlotOK
<1>4. ASSUME NEW r \in Slots, NEW k \in Lists, CreateList(r, k) PROVE i \in lists[l].bits
  BY <1>1, <1>4 DEF CreateList, List
<1>5. i \in lists[l].bits \/ Asked(l, i, entries', requested')
  BY <1>3, <1>4
     DEF Next, Step, vars, Issue, Revoke, RevokeAgain, Reopen, Fail, Sign, NoListToGet,
         TooFull, Store, GetList, AddRead, AddSave, RevokeRead, EntrySave
<1> QED
  BY <1>2, <1>5

-----------------------------------------------------------------------------
(***************************************************************************)
(* Theorems.                                                               *)
(***************************************************************************)
LEMMA InitIInv == Init => IInv
<1> SUFFICES ASSUME Init PROVE IInv
  OBVIOUS
<1>1. TypeOK
  <2>1. NoList \in List /\ NoEntry \in Entry
    BY DEF NoList, List, NoEntry, Entry
  <2> QED
    BY <2>1, IdleType DEF Init, TypeOK
<1>2. SlotsOK
  BY DEF Init, SlotsOK, SlotOK, Idle
<1>3. EntriesOK /\ ListsOK
  BY DEF Init, EntriesOK, ListsOK, IsBorn, NoEntry, NoList
<1> QED
  BY <1>1, <1>2, <1>3 DEF IInv

\* IInv holds in every state.
THEOREM Inductive == Spec => []IInv
<1>1. IInv /\ [Next]_vars => IInv'
  BY TypeStep, SlotsStep, EntriesStep, ListsStep DEF IInv
<1> QED
  BY InitIInv, <1>1, PTL DEF Spec

\* Every table and slot keeps its type.
THEOREM TypeCorrect == Spec => []TypeOK
<1>1. IInv => TypeOK
  BY DEF IInv
<1> QED
  BY Inductive, <1>1, PTL

\* Whatever handlers overlap, die, or draw the same index: a bit is set only
\* where an entry belongs to a credential whose revocation was begun.
THEOREM RevokedWasAsked == Spec => []NobodyElseRevoked
<1>1. IInv => NobodyElseRevoked
  BY DEF IInv, ListsOK, Asked, NobodyElseRevoked, EntriesIn, IsBorn
<1> QED
  BY Inductive, <1>1, PTL

-----------------------------------------------------------------------------
(***************************************************************************)
(* Room.  ListHasRoom is not inductive: a handler that looked at the size  *)
(* of a list is still to add its entry.  Room counts these handlers with   *)
(* the entries, and the list that a handler was given exists, so that one  *)
(* about to be created is empty.                                           *)
(***************************************************************************)
InList(l, es) == {e \in Entries : es[e].cred # None /\ es[e].ref.list = l}
Adding(l, rq) == {r \in Slots : rq[r].pc \in {"addRead", "addSave"} /\ rq[r].list = l}

Room(l, es, rq) ==
    Cardinality(InList(l, es)) + Cardinality(Adding(l, rq)) < Capacity + Cardinality(Slots)

Made(l, ls) == ls[l].age > 0
GivenOK(q, ls) ==
    /\ q.pc \in {"addRead", "addSave"} => q.list \in Lists /\ Made(q.list, ls)
    /\ q.pc = "addSave" => q.ref.list = q.list

RoomOK   == \A l \in Lists : Room(l, entries, req)
FilledOK == \A e \in Entries : IsBorn(e) => Made(entries[e].ref.list, lists)
GivensOK == \A r \in Slots : GivenOK(req[r], lists)

RoomInv == IInv /\ RoomOK /\ FilledOK /\ GivensOK

LEMMA Counts ==
  ASSUME NEW l, NEW es, NEW rq
  PROVE  /\ IsFiniteSet(InList(l, es)) /\ IsFiniteSet(Adding(l, rq))
         /\ Cardinality(InList(l, es)) \in Nat /\ Cardinality(Adding(l, rq)) \in Nat
         /\ Cardinality(Adding(l, rq)) <= Cardinality(Slots)
         /\ Cardinality(Slots) \in Nat
<1>1. InList(l, es) \in SUBSET Entries /\ Adding(l, rq) \in SUBSET Slots
  BY DEF InList, Adding
<1> QED BY <1>1, FS_Subset, FS_CardinalityType, StatusAssumption

LEMMA RoomKept ==
  ASSUME NEW l, NEW es, NEW rq, NEW fs, NEW sq, Room(l, es, rq),
         InList(l, fs) = InList(l, es), Adding(l, sq) \subseteq Adding(l, rq)
  PROVE  Room(l, fs, sq)
<1>1. Cardinality(Adding(l, sq)) <= Cardinality(Adding(l, rq))
  BY Counts, FS_Subset
<1> QED BY <1>1, Counts, StatusAssumption DEF Room

\* A list with fewer entries than Capacity has room for every handler there is.
LEMMA RoomForAll ==
  ASSUME NEW l, NEW es, NEW rq, Cardinality(InList(l, es)) < Capacity
  PROVE  Room(l, es, rq)
BY Counts, StatusAssumption DEF Room

\* Adding an entry turns a handler that was counted into an entry.
LEMMA RoomFilled ==
  ASSUME NEW l, NEW es, NEW rq, NEW fs, NEW sq, NEW e, NEW r, Room(l, es, rq),
         InList(l, fs) = InList(l, es) \cup {e},
         r \in Adding(l, rq), Adding(l, sq) = Adding(l, rq) \ {r}
  PROVE  Room(l, fs, sq)
<1>1. Cardinality(InList(l, fs)) <= Cardinality(InList(l, es)) + 1
  <2>1. IsFiniteSet(InList(l, es)) /\ Cardinality(InList(l, es)) \in Nat
    BY Counts
  <2>2. Cardinality(InList(l, es) \cup {e}) = IF e \in InList(l, es)
           THEN Cardinality(InList(l, es)) ELSE Cardinality(InList(l, es)) + 1
    BY <2>1, FS_AddElement, Zenon
  <2> QED BY <2>1, <2>2
<1>2. Cardinality(Adding(l, sq)) = Cardinality(Adding(l, rq)) - 1
  <2>1. IsFiniteSet(Adding(l, rq))
    BY Counts
  <2> QED BY <2>1, FS_RemoveElement
<1>3. /\ Cardinality(InList(l, es)) \in Nat /\ Cardinality(InList(l, fs)) \in Nat
      /\ Cardinality(Adding(l, rq)) \in Nat /\ Cardinality(Adding(l, sq)) \in Nat
      /\ Cardinality(Slots) \in Nat /\ Capacity \in Nat
  BY Counts, StatusAssumption
<1> QED BY <1>1, <1>2, <1>3 DEF Room

\* Lists are not unmade.
LEMMA MadeLasts ==
  ASSUME IInv, [Next]_vars, NEW l \in Lists, Made(l, lists)
  PROVE  Made(l, lists')
<1>1. lists \in [Lists -> List] /\ lists[l] \in List
  BY DEF IInv, TypeOK
<1>2. ASSUME NEW r \in Slots, NEW k \in Lists, CreateList(r, k) PROVE lists'[l] = lists[l]
  BY <1>1, <1>2 DEF CreateList, Made
<1>3. ASSUME NEW r \in Slots, ListSave(r) PROVE lists'[l].age = lists[l].age
  BY <1>1, <1>3 DEF ListSave, List
<1> QED
  BY <1>2, <1>3
     DEF Made, Next, Step, vars, Issue, Revoke, RevokeAgain, Reopen, Fail, Sign, NoListToGet,
         TooFull, Store, GetList, AddRead, AddSave, RevokeRead, EntrySave

\* A step adds one entry at most: the one a handler saves.
LEMMA NewEntry ==
  ASSUME IInv, [Next]_vars, NEW e \in Entries, ~IsBorn(e), entries'[e].cred # None
  PROVE  \E r \in Slots : AddSave(r, e)
<1>1. entries \in [Entries -> Entry] /\ entries[e] \in Entry
  BY DEF IInv, TypeOK
<1>2. ASSUME NEW r \in Slots, EntrySave(r) PROVE FALSE
  BY <1>1, <1>2 DEF EntrySave, Entry, IsBorn
<1>3. ASSUME NEW r \in Slots, NEW d \in Entries, AddSave(r, d) PROVE d = e
  BY <1>1, <1>3 DEF AddSave, IsBorn
<1> QED
  BY <1>2, <1>3
     DEF IsBorn, Next, Step, vars, Issue, Revoke, RevokeAgain, Reopen, Fail, Sign,
         NoListToGet, TooFull, Store, GetList, CreateList, AddRead, RevokeRead, ListSave

LEMMA GivenLasts ==
  ASSUME RoomInv, [Next]_vars, NEW r \in Slots
  PROVE  GivenOK(req[r], lists')
BY MadeLasts DEF GivenOK, RoomInv, GivensOK

LEMMA SameEntries ==
  ASSUME IInv, [Next]_vars, NEW l, \A r \in Slots, e \in Entries : ~AddSave(r, e)
  PROVE  InList(l, entries') = InList(l, entries)
<1>1. ASSUME NEW e \in Entries, IsBorn(e)
      PROVE  entries'[e].cred = entries[e].cred /\ entries'[e].ref = entries[e].ref
  BY <1>1, EntryLasts
<1>2. ASSUME NEW e \in Entries, ~IsBorn(e) PROVE entries'[e].cred = None
  BY <1>2, NewEntry
<1> QED BY <1>1, <1>2 DEF InList, IsBorn

LEMMA AddingKept ==
  ASSUME IInv, NEW l, NEW r \in Slots, NEW f, req' = [req EXCEPT ![r] = f],
         f.pc \in {"addRead", "addSave"} /\ f.list = l => r \in Adding(l, req)
  PROVE  Adding(l, req') \subseteq Adding(l, req)
BY DEF Adding, IInv, TypeOK

\* What becomes of a handler's list.
LEMMA FieldsOf ==
  ASSUME NEW q \in Slot
  PROVE  /\ \A p : [q EXCEPT !.pc = p].pc = p /\ [q EXCEPT !.pc = p].list = q.list
         /\ \A p, ref : /\ [q EXCEPT !.pc = p, !.ref = ref].pc = p
                        /\ [q EXCEPT !.pc = p, !.ref = ref].list = q.list
                        /\ [q EXCEPT !.pc = p, !.ref = ref].ref = ref
         /\ \A p, l : /\ [q EXCEPT !.pc = p, !.list = l].pc = p
                      /\ [q EXCEPT !.pc = p, !.list = l].list = l
BY DEF Slot

LEMMA RoomStep ==
  ASSUME RoomInv, [Next]_vars
  PROVE  RoomOK'
<1> SUFFICES ASSUME NEW l \in Lists PROVE Room(l, entries', req')
  BY DEF RoomOK
<1>1. IInv /\ Room(l, entries, req) /\ req \in [Slots -> Slot] /\ entries \in [Entries -> Entry]
  BY DEF RoomInv, RoomOK, IInv, TypeOK
<1>2. ASSUME NEW r \in Slots, NEW e \in Entries, AddSave(r, e) PROVE Room(l, entries', req')
  <2> DEFINE f == [req[r] EXCEPT !.pc = "store"]
  <2>1. /\ req[r].pc = "addSave" /\ req[r].ref.list = req[r].list /\ ~IsBorn(e)
        /\ req[r].cred \in Credentials
        /\ entries' = [entries EXCEPT ![e] = [cred |-> req[r].cred, ref |-> req[r].ref,
                                              revoked |-> FALSE]]
        /\ req' = [req EXCEPT ![r] = f]
    BY <1>1, <1>2, SlotFacts DEF AddSave, Busy, Goto, RoomInv, GivensOK, GivenOK, SlotOK
  <2>2. f.pc = "store"
    BY <1>1, FieldsOf
  <2> HIDE DEF f
  <2>3. CASE req[r].list = l
    <3>1. InList(l, entries') = InList(l, entries) \cup {e}
      BY <1>1, <2>1, <2>3, StatusAssumption DEF InList, IsBorn
    <3>2. r \in Adding(l, req) /\ Adding(l, req') = Adding(l, req) \ {r}
      BY <1>1, <2>1, <2>2, <2>3 DEF Adding
    <3> QED BY <1>1, <3>1, <3>2, RoomFilled
  <2>4. CASE req[r].list # l
    <3>1. InList(l, entries') = InList(l, entries)
      BY <1>1, <2>1, <2>4 DEF InList, IsBorn
    <3>2. Adding(l, req') \subseteq Adding(l, req)
      BY <1>1, <2>1, <2>2, AddingKept
    <3> QED BY <1>1, <3>1, <3>2, RoomKept
  <2> QED BY <2>3, <2>4
<1> SUFFICES ASSUME \A r \in Slots, e \in Entries : ~AddSave(r, e)
             PROVE  Room(l, entries', req')
  BY <1>2
<1>3. InList(l, entries') = InList(l, entries)
  BY <1>1, SameEntries
<1>4. ASSUME Adding(l, req') \subseteq Adding(l, req) PROVE Room(l, entries', req')
  BY <1>1, <1>3, <1>4, RoomKept
<1>5. ASSUME NEW r \in Slots, NEW f, req' = [req EXCEPT ![r] = f],
             f.pc \notin {"addRead", "addSave"}
      PROVE  Room(l, entries', req')
  BY <1>1, <1>4, <1>5, AddingKept
<1>6. ASSUME NEW r \in Slots, NEW k \in Lists, GetList(r, k) \/ CreateList(r, k)
      PROVE  Room(l, entries', req')
  <2> DEFINE f == [req[r] EXCEPT !.pc = "addRead", !.list = k]
  <2>0. req' = [req EXCEPT ![r] = f]
    BY <1>1, <1>6 DEF GetList, CreateList
  <2>1. f.list = k
    BY <1>1, FieldsOf
  <2>2. CASE k # l
    <3> HIDE DEF f
    <3> QED BY <1>1, <1>4, <2>0, <2>1, <2>2, AddingKept
  <2>3. CASE k = l /\ GetList(r, k)
    <3>1. Cardinality(InList(l, entries')) < Capacity
      BY <1>3, <2>3 DEF GetList, EntriesIn, InList, IsBorn
    <3> QED BY <3>1, RoomForAll
  <2>4. CASE k = l /\ CreateList(r, k)
    <3>1. InList(l, entries) = {}
      BY <2>4 DEF CreateList, RoomInv, FilledOK, Made, InList, IsBorn
    <3>2. Cardinality(InList(l, entries')) < Capacity
      BY <1>3, <3>1, FS_EmptySet, StatusAssumption
    <3> QED BY <3>2, RoomForAll
  <2> QED BY <1>6, <2>2, <2>3, <2>4
<1>7. ASSUME NEW r \in Slots, NEW i \in Indices, AddRead(r, i) PROVE Room(l, entries', req')
  <2> DEFINE f == [req[r] EXCEPT !.pc = "addSave", !.ref = [list |-> req[r].list, index |-> i]]
  <2>1. req' = [req EXCEPT ![r] = f] /\ req[r].pc = "addRead"
    BY <1>1, <1>7 DEF AddRead, Busy
  <2>2. f.list = req[r].list
    BY <1>1 DEF Slot
  <2> HIDE DEF f
  <2> QED BY <1>1, <1>4, <2>1, <2>2, AddingKept DEF Adding
<1>8. ASSUME NEW r \in Slots, NEW c \in Credentials, Issue(r, c) PROVE Room(l, entries', req')
  <2>1. [Idle EXCEPT !.pc = "sign", !.cred = c].pc = "sign"
    BY DEF Idle
  <2> QED BY <1>5, <1>8, <2>1 DEF Issue
<1>9. ASSUME NEW r \in Slots, NEW c \in Credentials, NEW e \in Entries, Revoke(r, c, e)
      PROVE  Room(l, entries', req')
  <2>1. [Idle EXCEPT !.pc = "revokeRead", !.cred = c].pc = "revokeRead"
    BY DEF Idle
  <2> QED BY <1>5, <1>9, <2>1 DEF Revoke
<1>10. ASSUME NEW r \in Slots, Sign(r) PROVE Room(l, entries', req')
  <2>1. [req[r] EXCEPT !.pc = "getList", !.signed = req[r].ref].pc = "getList"
    BY <1>1 DEF Slot
  <2> QED BY <1>5, <1>10, <2>1 DEF Sign
<1>11. ASSUME NEW r \in Slots, NoListToGet(r) \/ ListSave(r) PROVE Room(l, entries', req')
  <2>1. \A p : [req[r] EXCEPT !.pc = p].pc = p
    BY <1>1, FieldsOf
  <2> QED BY <1>5, <1>11, <2>1 DEF NoListToGet, ListSave, Goto
<1>12. ASSUME NEW r \in Slots, NEW e \in Entries, RevokeRead(r, e) PROVE Room(l, entries', req')
  <2> DEFINE f == [req[r] EXCEPT !.pc = "listSave", !.entry = e, !.ref = entries[e].ref,
                      !.bits = lists[entries[e].ref.list].bits \cup {entries[e].ref.index}]
  <2>1. f.pc = "listSave"
    BY <1>1 DEF Slot
  <2>2. req' = [req EXCEPT ![r] = f]
    BY <1>12 DEF RevokeRead
  <2> HIDE DEF f
  <2> QED BY <1>5, <2>1, <2>2
<1>13. ASSUME NEW r \in Slots, TooFull(r) \/ Store(r) \/ EntrySave(r) \/ Fail(r)
       PROVE  Room(l, entries', req')
  <2>1. Idle.pc = "idle"
    BY DEF Idle
  <2> QED BY <1>5, <1>13, <2>1 DEF TooFull, Store, EntrySave, Fail, End
<1>14. req' = req => Room(l, entries', req')
  BY <1>4
<1> QED
  BY <1>6, <1>7, <1>8, <1>9, <1>10, <1>11, <1>12, <1>13, <1>14
     DEF Next, Step, vars, RevokeAgain, Reopen

LEMMA GivenOthers ==
  ASSUME RoomInv, [Next]_vars, NEW r \in Slots, NEW f, req' = [req EXCEPT ![r] = f],
         GivenOK(f, lists')
  PROVE  GivensOK'
<1>1. req \in [Slots -> Slot]
  BY DEF RoomInv, IInv, TypeOK
<1> QED BY <1>1, GivenLasts DEF GivensOK

\* A handler draws its index in the list that it was given.
LEMMA GivensStep ==
  ASSUME RoomInv, [Next]_vars
  PROVE  GivensOK'
<1>1. IInv /\ req \in [Slots -> Slot] /\ lists \in [Lists -> List]
  BY DEF RoomInv, IInv, TypeOK
<1>2. ASSUME NEW r \in Slots, NEW f, req' = [req EXCEPT ![r] = f],
             f.pc \notin {"addRead", "addSave"}
      PROVE  GivensOK'
  BY <1>2, GivenOthers DEF GivenOK
<1>3. req' = req => GivensOK'
  BY GivenLasts DEF GivensOK
<1>4. ASSUME NEW r \in Slots, NEW k \in Lists, GetList(r, k) \/ CreateList(r, k) PROVE GivensOK'
  <2> DEFINE f == [req[r] EXCEPT !.pc = "addRead", !.list = k]
  <2>1. req' = [req EXCEPT ![r] = f]
    BY <1>1, <1>4 DEF GetList, CreateList
  <2>2. f.pc = "addRead" /\ f.list = k
    BY <1>1, FieldsOf
  <2>3. Made(k, lists')
    <3>1. CASE GetList(r, k)
      BY <3>1 DEF GetList, Newest, Made
    <3>2. CASE CreateList(r, k)
      <4>1. Cardinality({l \in Lists : lists[l].age > 0}) \in Nat
        BY FS_Subset, FS_CardinalityType, StatusAssumption
      <4>2. lists'[k].age = 1 + Cardinality({l \in Lists : lists[l].age > 0})
        BY <1>1, <3>2 DEF CreateList, List
      <4> QED BY <4>1, <4>2 DEF Made
    <3> QED BY <1>4, <3>1, <3>2
  <2> HIDE DEF f
  <2> QED BY <2>1, <2>2, <2>3, GivenOthers DEF GivenOK
<1>5. ASSUME NEW r \in Slots, NEW i \in Indices, AddRead(r, i) PROVE GivensOK'
  <2> DEFINE f == [req[r] EXCEPT !.pc = "addSave", !.ref = [list |-> req[r].list, index |-> i]]
  <2>1. req' = [req EXCEPT ![r] = f] /\ req[r].pc = "addRead"
    BY <1>1, <1>5 DEF AddRead, Busy
  <2>2. f.list = req[r].list /\ f.ref.list = req[r].list
    BY <1>1 DEF Slot
  <2>3. req[r].list \in Lists /\ Made(req[r].list, lists')
    BY <2>1, GivenLasts DEF GivenOK
  <2> HIDE DEF f
  <2> QED BY <2>1, <2>2, <2>3, GivenOthers DEF GivenOK
<1>6. ASSUME NEW r \in Slots, NEW c \in Credentials, Issue(r, c) PROVE GivensOK'
  <2>1. [Idle EXCEPT !.pc = "sign", !.cred = c].pc = "sign"
    BY DEF Idle
  <2> QED BY <1>2, <1>6, <2>1 DEF Issue
<1>7. ASSUME NEW r \in Slots, NEW c \in Credentials, NEW e \in Entries, Revoke(r, c, e)
      PROVE  GivensOK'
  <2>1. [Idle EXCEPT !.pc = "revokeRead", !.cred = c].pc = "revokeRead"
    BY DEF Idle
  <2> QED BY <1>2, <1>7, <2>1 DEF Revoke
<1>8. ASSUME NEW r \in Slots, Sign(r) PROVE GivensOK'
  <2>1. [req[r] EXCEPT !.pc = "getList", !.signed = req[r].ref].pc = "getList"
    BY <1>1 DEF Slot
  <2> QED BY <1>2, <1>8, <2>1 DEF Sign
<1>9. ASSUME NEW r \in Slots, NEW e \in Entries, AddSave(r, e) PROVE GivensOK'
  <2>1. \A p : [req[r] EXCEPT !.pc = p].pc = p
    BY <1>1, FieldsOf
  <2> QED BY <1>2, <1>9, <2>1 DEF AddSave, Goto
<1>10. ASSUME NEW r \in Slots, NEW e \in Entries, RevokeRead(r, e) PROVE GivensOK'
  <2> DEFINE f == [req[r] EXCEPT !.pc = "listSave", !.entry = e, !.ref = entries[e].ref,
                      !.bits = lists[entries[e].ref.list].bits \cup {entries[e].ref.index}]
  <2>1. f.pc = "listSave"
    BY <1>1 DEF Slot
  <2>2. req' = [req EXCEPT ![r] = f]
    BY <1>10 DEF RevokeRead
  <2> HIDE DEF f
  <2> QED BY <1>2, <2>1, <2>2
<1>11. ASSUME NEW r \in Slots, TooFull(r) \/ Store(r) \/ EntrySave(r) \/ Fail(r) PROVE GivensOK'
  <2>1. Idle.pc = "idle"
    BY DEF Idle
  <2> QED BY <1>2, <1>11, <2>1 DEF TooFull, Store, EntrySave, Fail, End
<1>12. ASSUME NEW r \in Slots, NoListToGet(r) \/ ListSave(r) PROVE GivensOK'
  <2>1. \A p : [req[r] EXCEPT !.pc = p].pc = p
    BY <1>1, FieldsOf
  <2> QED BY <1>2, <1>12, <2>1 DEF NoListToGet, ListSave, Goto
<1> QED
  BY <1>3, <1>4, <1>5, <1>6, <1>7, <1>8, <1>9, <1>10, <1>11, <1>12
     DEF Next, Step, vars, RevokeAgain, Reopen

LEMMA FilledStep ==
  ASSUME RoomInv, [Next]_vars
  PROVE  FilledOK'
<1> SUFFICES ASSUME NEW e \in Entries, entries'[e].cred # None
             PROVE  Made(entries'[e].ref.list, lists')
  BY DEF FilledOK, IsBorn
<1>1. IInv /\ entries \in [Entries -> Entry]
  BY DEF RoomInv, IInv, TypeOK
<1>2. CASE IsBorn(e)
  <2>1. entries[e].ref.list \in Lists /\ Made(entries[e].ref.list, lists)
    BY <1>1, <1>2, EntryFacts, RefFields DEF RoomInv, FilledOK
  <2> QED BY <1>1, <1>2, <2>1, EntryLasts, MadeLasts
<1>3. CASE ~IsBorn(e)
  <2>1. PICK r \in Slots : AddSave(r, e)
    BY <1>1, <1>3, NewEntry
  <2>2. entries'[e].ref = req[r].ref /\ req[r].pc = "addSave"
    BY <1>1, <2>1 DEF AddSave, Busy
  <2>3. req[r].ref.list \in Lists /\ Made(req[r].ref.list, lists)
    BY <2>2 DEF RoomInv, GivensOK, GivenOK
  <2> QED BY <1>1, <2>2, <2>3, MadeLasts
<1> QED BY <1>2, <1>3

LEMMA RoomInit == Init => RoomInv
<1> SUFFICES ASSUME Init PROVE RoomInv
  OBVIOUS
<1>1. \A l \in Lists : InList(l, entries) = {}
  BY DEF Init, NoEntry, InList
<1>2. \A l \in Lists : Cardinality(InList(l, entries)) < Capacity
  BY <1>1, FS_EmptySet, StatusAssumption
<1>3. RoomOK
  BY <1>2, RoomForAll DEF RoomOK
<1>4. FilledOK /\ GivensOK
  BY DEF Init, NoEntry, Idle, FilledOK, GivensOK, GivenOK, IsBorn
<1> QED BY <1>3, <1>4, InitIInv DEF RoomInv

LEMMA RoomInvariant == Spec => []RoomInv
<1>1. RoomInv /\ [Next]_vars => RoomInv'
  BY TypeStep, SlotsStep, EntriesStep, ListsStep, RoomStep, FilledStep, GivensStep
     DEF RoomInv, IInv
<1> QED
  BY RoomInit, <1>1, PTL DEF Spec

\* getOrCreateStatusList looks at the size of a list long before addCredential
\* adds to it: whatever number of handlers is between the two, a list outgrows
\* its threshold by less than there are handlers.
THEOREM ListKeepsRoom == Spec => []ListHasRoom
<1>1. RoomInv => ListHasRoom
  <2> SUFFICES ASSUME RoomInv, NEW l \in Lists
               PROVE  Cardinality(EntriesIn(l)) < Capacity + Cardinality(Slots)
    BY DEF ListHasRoom
  <2>1. EntriesIn(l) = InList(l, entries)
    BY DEF EntriesIn, InList, IsBorn
  <2>2. Room(l, entries, req)
    BY DEF RoomInv, RoomOK
  <2> QED BY <2>1, <2>2, Counts, StatusAssumption DEF Room
<1> QED BY RoomInvariant, <1>1, PTL

-----------------------------------------------------------------------------
(***************************************************************************)
(* Lost updates.  revokeCredential saves a list that it read earlier, so   *)
(* two handlers with copies of one list lose a bit (see the run            *)
(* StatusLost).  Nothing else does: while no two copies of a list are out  *)
(* at once, a bit that is set stays set, whatever else overlaps, fails, or *)
(* issues meanwhile.                                                       *)
(***************************************************************************)
OneCopy ==
    \A r, s \in Slots :
        /\ Busy(r, "listSave") /\ Busy(s, "listSave")
        /\ req[r].ref.list = req[s].ref.list
        => r = s

BitIn(ref, ls) == ref.index \in ls[ref.list].bits

\* A copy misses no bit of its list; what comes after it was saved finds the bit.
CopyOK(q, ls, es) ==
    /\ q.pc = "listSave" => /\ ls[q.ref.list].bits \subseteq q.bits
                            /\ q.ref.index \in q.bits
                            /\ es[q.entry].ref = q.ref
    /\ q.pc = "entrySave" => BitIn(es[q.entry].ref, ls)
    /\ q.pc \in {"listSave", "entrySave"} => es[q.entry].cred = q.cred

CopiesOK == \A r \in Slots : CopyOK(req[r], lists, entries)

CopyInv == IInv /\ CopiesOK /\ MarkedIsListed /\ AnsweredIsListed

LEMMA BitsLast ==
  ASSUME CopyInv, [Next]_vars, NEW l \in Lists
  PROVE  lists[l].bits \subseteq lists'[l].bits
<1>1. lists \in [Lists -> List] /\ lists[l] \in List
  BY DEF CopyInv, IInv, TypeOK
<1>2. ASSUME NEW r \in Slots, ListSave(r) PROVE lists[l].bits \subseteq lists'[l].bits
  <2>1. lists[req[r].ref.list].bits \subseteq req[r].bits
    BY <1>2 DEF CopyInv, CopiesOK, CopyOK, ListSave, Busy
  <2> QED BY <1>1, <1>2, <2>1 DEF ListSave, List
<1>3. ASSUME NEW r \in Slots, NEW k \in Lists, CreateList(r, k)
      PROVE  lists[l].bits \subseteq lists'[l].bits
  BY <1>1, <1>3 DEF CreateList, List
<1> QED
  BY <1>2, <1>3
     DEF Next, Step, vars, Issue, Revoke, RevokeAgain, Reopen, Fail, Sign, NoListToGet,
         TooFull, Store, GetList, AddRead, AddSave, RevokeRead, EntrySave

\* The list of a copy does not change but by the handler that holds the copy.
LEMMA ListWaits ==
  ASSUME CopyInv, OneCopy, [Next]_vars, NEW r \in Slots, req[r].pc = "listSave", ~ListSave(r)
  PROVE  lists'[req[r].ref.list].bits = lists[req[r].ref.list].bits
<1>1. IInv /\ lists \in [Lists -> List] /\ req[r].ref.list \in Lists
  BY SlotFacts, RefFields DEF CopyInv, IInv, TypeOK, SlotOK
<1>2. ASSUME NEW s \in Slots, ListSave(s)
      PROVE  lists'[req[r].ref.list].bits = lists[req[r].ref.list].bits
  <2>1. req[s].ref.list # req[r].ref.list
    BY <1>2 DEF ListSave, OneCopy, Busy
  <2> QED BY <1>1, <1>2, <2>1 DEF ListSave
<1>3. ASSUME NEW s \in Slots, NEW k \in Lists, CreateList(s, k)
      PROVE  lists'[req[r].ref.list].bits = lists[req[r].ref.list].bits
  BY <1>1, <1>3 DEF CreateList, List
<1> QED
  BY <1>2, <1>3
     DEF Next, Step, vars, Issue, Revoke, RevokeAgain, Reopen, Fail, Sign, NoListToGet,
         TooFull, Store, GetList, AddRead, AddSave, RevokeRead, EntrySave

LEMMA CopyLasts ==
  ASSUME CopyInv, OneCopy, [Next]_vars, NEW r \in Slots, ~ListSave(r)
  PROVE  CopyOK(req[r], lists', entries')
<1> DEFINE e == req[r].entry
<1>1. IInv /\ SlotOK(req[r], entries, requested) /\ CopyOK(req[r], lists, entries)
  BY SlotFacts DEF CopyInv, CopiesOK
<1>2. ASSUME req[r].pc \in {"listSave", "entrySave"}
      PROVE  /\ e \in Entries /\ IsBorn(e) /\ entries[e].ref \in Refs
             /\ entries'[e].cred = entries[e].cred /\ entries'[e].ref = entries[e].ref
  <2>1. e \in Entries /\ IsBorn(e)
    BY <1>1, <1>2, StatusAssumption DEF SlotOK, CopyOK, IsBorn
  <2> QED BY <1>1, <2>1, EntryLasts, EntryFacts
<1>3. CASE req[r].pc = "listSave"
  <2>1. lists'[req[r].ref.list].bits = lists[req[r].ref.list].bits
    BY <1>3, ListWaits
  <2> QED BY <1>1, <1>2, <1>3, <2>1 DEF CopyOK
<1>4. CASE req[r].pc = "entrySave"
  <2>1. lists[entries[e].ref.list].bits \subseteq lists'[entries[e].ref.list].bits
    BY <1>2, <1>4, BitsLast, RefFields
  <2> QED BY <1>1, <1>2, <1>4, <2>1 DEF CopyOK, BitIn
<1>5. CASE req[r].pc \notin {"listSave", "entrySave"}
  BY <1>5 DEF CopyOK
<1> QED BY <1>3, <1>4, <1>5

LEMMA CopyOthers ==
  ASSUME CopyInv, OneCopy, [Next]_vars, NEW r \in Slots, NEW f, req' = [req EXCEPT ![r] = f],
         CopyOK(f, lists', entries')
  PROVE  CopiesOK'
<1> SUFFICES ASSUME NEW s \in Slots PROVE CopyOK(req'[s], lists', entries')
  BY DEF CopiesOK
<1>1. req \in [Slots -> Slot]
  BY DEF CopyInv, IInv, TypeOK
<1>2. CASE s = r
  BY <1>1, <1>2
<1>3. CASE s # r
  <2>1. req'[s] = req[s]
    BY <1>1, <1>3
  <2>2. ~ListSave(s)
    BY <1>1, <2>1 DEF ListSave, Goto, Busy, Slot
  <2> QED BY <2>1, <2>2, CopyLasts
<1> QED BY <1>2, <1>3

LEMMA CopiesStep ==
  ASSUME CopyInv, OneCopy, [Next]_vars
  PROVE  CopiesOK'
<1>1. IInv /\ req \in [Slots -> Slot] /\ lists \in [Lists -> List]
      /\ entries \in [Entries -> Entry]
  BY DEF CopyInv, IInv, TypeOK
<1>2. ASSUME NEW r \in Slots, NEW f, req' = [req EXCEPT ![r] = f],
             f.pc \notin {"listSave", "entrySave"}
      PROVE  CopiesOK'
  BY <1>2, CopyOthers DEF CopyOK
<1>3. ASSUME req' = req PROVE CopiesOK'
  <2>1. \A s \in Slots : ~ListSave(s)
    BY <1>1, <1>3 DEF ListSave, Goto, Busy, Slot
  <2> QED BY <1>3, <2>1, CopyLasts DEF CopiesOK
<1>4. ASSUME NEW r \in Slots, NEW e \in Entries, RevokeRead(r, e) PROVE CopiesOK'
  <2> DEFINE ref  == entries[e].ref
             bits == lists[ref.list].bits \cup {ref.index}
             f    == [req[r] EXCEPT !.pc = "listSave", !.entry = e, !.ref = ref,
                                    !.bits = bits]
  <2>1. /\ f.pc = "listSave" /\ f.entry = e /\ f.ref = ref /\ f.bits = bits
        /\ f.cred = req[r].cred
    BY <1>1 DEF Slot
  <2>2. /\ req' = [req EXCEPT ![r] = f] /\ lists' = lists /\ entries' = entries
        /\ entries[e].cred = req[r].cred
    BY <1>4 DEF RevokeRead, EntriesOf
  <2>3. CopyOK(f, lists', entries')
    <3> HIDE DEF f
    <3> QED BY <2>1, <2>2 DEF CopyOK
  <2> HIDE DEF f
  <2> QED BY <2>2, <2>3, CopyOthers
<1>5. ASSUME NEW r \in Slots, ListSave(r) PROVE CopiesOK'
  <2> DEFINE f == [req[r] EXCEPT !.pc = "entrySave"]
             e == req[r].entry
  <2>1. /\ SlotOK(req[r], entries, requested) /\ CopyOK(req[r], lists, entries)
        /\ req[r].pc = "listSave" /\ req[r].ref \in Refs /\ req[r].ref.list \in Lists
    BY <1>1, <1>5, SlotFacts, RefFields DEF ListSave, Busy, CopyInv, CopiesOK, SlotOK
  <2>2. f.pc = "entrySave" /\ f.entry = e /\ f.cred = req[r].cred
    BY <1>1 DEF Slot
  <2>3. lists'[req[r].ref.list].bits = req[r].bits
    BY <1>1, <1>5, <2>1 DEF ListSave, List
  <2>4. entries' = entries /\ req' = [req EXCEPT ![r] = f]
    BY <1>5 DEF ListSave, Goto
  <2>5. CopyOK(f, lists', entries')
    <3> HIDE DEF f
    <3> QED BY <2>1, <2>2, <2>3, <2>4 DEF CopyOK, BitIn
  <2> HIDE DEF f
  <2> QED BY <2>4, <2>5, CopyOthers
<1>6. ASSUME NEW r \in Slots, NEW c \in Credentials, Issue(r, c) PROVE CopiesOK'
  <2>1. [Idle EXCEPT !.pc = "sign", !.cred = c].pc = "sign"
    BY DEF Idle
  <2> QED BY <1>2, <1>6, <2>1 DEF Issue
<1>7. ASSUME NEW r \in Slots, NEW c \in Credentials, NEW e \in Entries, Revoke(r, c, e)
      PROVE  CopiesOK'
  <2>1. [Idle EXCEPT !.pc = "revokeRead", !.cred = c].pc = "revokeRead"
    BY DEF Idle
  <2> QED BY <1>2, <1>7, <2>1 DEF Revoke
<1>8. ASSUME NEW r \in Slots, Sign(r) PROVE CopiesOK'
  <2>1. [req[r] EXCEPT !.pc = "getList", !.signed = req[r].ref].pc = "getList"
    BY <1>1 DEF Slot
  <2> QED BY <1>2, <1>8, <2>1 DEF Sign
<1>9. ASSUME NEW r \in Slots, NEW e \in Entries, AddSave(r, e) PROVE CopiesOK'
  <2>1. [req[r] EXCEPT !.pc = "store"].pc = "store"
    BY <1>1, FieldsOf
  <2> QED BY <1>2, <1>9, <2>1 DEF AddSave, Goto
<1>10. ASSUME NEW r \in Slots, NoListToGet(r) PROVE CopiesOK'
  <2>1. [req[r] EXCEPT !.pc = "createList"].pc = "createList"
    BY <1>1, FieldsOf
  <2> QED BY <1>2, <1>10, <2>1 DEF NoListToGet, Goto
<1>11. ASSUME NEW r \in Slots, NEW k \in Lists, GetList(r, k) \/ CreateList(r, k) PROVE CopiesOK'
  <2> DEFINE f == [req[r] EXCEPT !.pc = "addRead", !.list = k]
  <2>1. req' = [req EXCEPT ![r] = f]
    BY <1>1, <1>11 DEF GetList, CreateList
  <2>2. f.pc = "addRead"
    BY <1>1, FieldsOf
  <2> HIDE DEF f
  <2> QED BY <1>2, <2>1, <2>2
<1>12. ASSUME NEW r \in Slots, NEW i \in Indices, AddRead(r, i) PROVE CopiesOK'
  <2> DEFINE f == [req[r] EXCEPT !.pc = "addSave", !.ref = [list |-> req[r].list, index |-> i]]
  <2>1. f.pc = "addSave" /\ req' = [req EXCEPT ![r] = f]
    BY <1>1, <1>12 DEF AddRead, Slot
  <2> HIDE DEF f
  <2> QED BY <1>2, <2>1
<1>13. ASSUME NEW r \in Slots, TooFull(r) \/ Store(r) \/ EntrySave(r) \/ Fail(r) PROVE CopiesOK'
  <2>1. Idle.pc = "idle"
    BY DEF Idle
  <2> QED BY <1>2, <1>13, <2>1 DEF TooFull, Store, EntrySave, Fail, End
<1> QED
  BY <1>3, <1>4, <1>5, <1>6, <1>7, <1>8, <1>9, <1>10, <1>11, <1>12, <1>13
     DEF Next, Step, vars, RevokeAgain, Reopen

LEMMA MarkedStep ==
  ASSUME CopyInv, OneCopy, [Next]_vars
  PROVE  MarkedIsListed'
<1> SUFFICES ASSUME NEW e \in Entries, entries'[e].cred # None, entries'[e].revoked
             PROVE  BitIn(entries'[e].ref, lists')
  BY DEF MarkedIsListed, IsBorn, BitSet, BitIn
<1>1. IInv /\ entries \in [Entries -> Entry] /\ entries[e] \in Entry
  BY DEF CopyInv, IInv, TypeOK
<1>2. CASE ~IsBorn(e)
  <2>1. PICK r \in Slots : AddSave(r, e)
    BY <1>1, <1>2, NewEntry
  <2>2. entries'[e].revoked = FALSE
    BY <1>1, <2>1 DEF AddSave
  <2> QED BY <2>2
<1>3. ASSUME IsBorn(e), BitIn(entries[e].ref, lists) PROVE BitIn(entries'[e].ref, lists')
  <2>1. entries[e].ref \in Refs /\ entries'[e].ref = entries[e].ref
    BY <1>1, <1>3, EntryFacts, EntryLasts
  <2> QED BY <1>3, <2>1, BitsLast, RefFields DEF BitIn
<1>4. CASE IsBorn(e) /\ entries[e].revoked
  BY <1>3, <1>4 DEF CopyInv, MarkedIsListed, BitSet, BitIn
<1>5. CASE IsBorn(e) /\ ~entries[e].revoked
  <2>1. ASSUME NEW r \in Slots, EntrySave(r) PROVE BitIn(entries'[e].ref, lists')
    <3>1. e = req[r].entry
      BY <1>1, <1>5, <2>1 DEF EntrySave
    <3> QED BY <1>3, <1>5, <2>1, <3>1 DEF EntrySave, Busy, CopyInv, CopiesOK, CopyOK
  <2>2. ASSUME NEW r \in Slots, NEW d \in Entries, AddSave(r, d) PROVE FALSE
    BY <1>1, <1>5, <2>2 DEF AddSave, IsBorn
  <2> QED
    BY <1>5, <2>1, <2>2
       DEF Next, Step, vars, Issue, Revoke, RevokeAgain, Reopen, Fail, Sign, NoListToGet,
           TooFull, Store, GetList, CreateList, AddRead, RevokeRead, ListSave
<1> QED BY <1>2, <1>4, <1>5

\* An entry of a credential whose bit is set is one after any step.
LEMMA ListedLasts ==
  ASSUME CopyInv, [Next]_vars, NEW c \in Credentials, NEW e \in Entries,
         entries[e].cred = c, BitIn(entries[e].ref, lists)
  PROVE  entries'[e].cred = c /\ BitIn(entries'[e].ref, lists')
<1>1. IInv /\ IsBorn(e)
  BY StatusAssumption DEF CopyInv, IsBorn
<1>2. /\ entries[e].ref \in Refs
      /\ entries'[e].cred = entries[e].cred /\ entries'[e].ref = entries[e].ref
  BY <1>1, EntryFacts, EntryLasts
<1> QED BY <1>2, BitsLast, RefFields DEF BitIn

LEMMA AnsweredStep ==
  ASSUME CopyInv, OneCopy, [Next]_vars
  PROVE  AnsweredIsListed'
<1> SUFFICES ASSUME NEW c \in answered'
             PROVE  \E e \in Entries : entries'[e].cred = c /\ BitIn(entries'[e].ref, lists')
  BY DEF AnsweredIsListed, EntriesOf, BitSet, BitIn
<1>1. IInv /\ answered \subseteq Credentials
  BY DEF CopyInv, IInv, TypeOK
<1>2. CASE c \in answered
  <2>1. PICK e \in Entries : entries[e].cred = c /\ BitIn(entries[e].ref, lists)
    BY <1>2 DEF CopyInv, AnsweredIsListed, EntriesOf, BitSet, BitIn
  <2> QED BY <1>1, <1>2, <2>1, ListedLasts
<1>3. ASSUME NEW r \in Slots, EntrySave(r), c \notin answered
      PROVE  \E e \in Entries : entries'[e].cred = c /\ BitIn(entries'[e].ref, lists')
  <2> DEFINE e == req[r].entry
  <2>1. /\ c = req[r].cred /\ c \in Credentials /\ e \in Entries
        /\ entries[e].cred = c /\ BitIn(entries[e].ref, lists)
    BY <1>1, <1>3, SlotFacts DEF EntrySave, Busy, SlotOK, CopyInv, CopiesOK, CopyOK
  <2> QED BY <2>1, ListedLasts
<1>4. ASSUME NEW d \in Credentials, NEW e \in Entries, RevokeAgain(d, e), c \notin answered
      PROVE  entries'[e].cred = c /\ BitIn(entries'[e].ref, lists')
  BY <1>4, ListedLasts DEF RevokeAgain, EntriesOf, BitSet, BitIn
<1> QED
  BY <1>2, <1>3, <1>4
     DEF Next, Step, vars, Issue, Revoke, Reopen, Fail, Sign, NoListToGet,
         TooFull, Store, GetList, CreateList, AddRead, AddSave, RevokeRead, ListSave

LEMMA CopyInvariant == Spec /\ []OneCopy => []CopyInv
<1>1. Init => CopyInv
  BY InitIInv DEF Init, CopyInv, CopiesOK, CopyOK, Idle, MarkedIsListed, AnsweredIsListed,
                  IsBorn, NoEntry
<1>2. CopyInv /\ OneCopy /\ [Next]_vars => CopyInv'
  <2> SUFFICES ASSUME CopyInv, OneCopy, [Next]_vars PROVE CopyInv'
    OBVIOUS
  <2>1. IInv'
    BY TypeStep, SlotsStep, EntriesStep, ListsStep DEF CopyInv, IInv
  <2> QED BY <2>1, CopiesStep, MarkedStep, AnsweredStep DEF CopyInv
<1> QED BY <1>1, <1>2, PTL DEF Spec

\* An entry is marked as revoked only where its list says so, unless two
\* revocations held a copy of one list at once.
THEOREM MarkedWhileApart == Spec /\ []OneCopy => []MarkedIsListed
<1>1. CopyInv => MarkedIsListed
  BY DEF CopyInv
<1> QED BY <1>1, CopyInvariant, PTL

\* "Credential revoked successfully" is true for good, unless two revocations
\* held a copy of one list at once: no failure, restart, repetition or issuing
\* handler takes a revocation back.
THEOREM RevokedWhileApart == Spec /\ []OneCopy => []AnsweredIsListed
<1>1. CopyInv => AnsweredIsListed
  BY DEF CopyInv
<1> QED BY <1>1, CopyInvariant, PTL

-----------------------------------------------------------------------------
(***************************************************************************)
(* The registry.  Handlers that do not overlap implement Registry: each    *)
(* stored reference is that of one entry, a bit belongs to one credential, *)
(* and a credential that is being issued is not revoked yet.  The index of *)
(* an entry is drawn before it is saved, and the entry is there before the *)
(* credential refers to it: that is why the handlers must not overlap.     *)
(***************************************************************************)
Alone == \A r, s \in Slots : ~Busy(r, "idle") /\ ~Busy(s, "idle") => r = s

ForIssue == {"sign", "getList", "createList", "addRead", "addSave", "store"}

SoloOK(q, ls, es, op) ==
    /\ q.pc = "listSave" => q.bits = ls[q.ref.list].bits \cup {q.ref.index}
    /\ q.pc = "addSave" => \A e \in Entries : es[e].cred # None => es[e].ref # q.ref
    /\ q.pc = "store" => /\ ~BitIn(q.ref, ls)
                         /\ \E e \in Entries : es[e].cred = q.cred /\ es[e].ref = q.ref
    /\ q.pc \in ForIssue => q.cred \in op

UniqueOK == \A e, d \in Entries :
               IsBorn(e) /\ IsBorn(d) /\ entries[e].ref = entries[d].ref => e = d
StoredOK == \A c \in Credentials : stored[c] # None =>
               \E e \in Entries : entries[e].cred = c /\ entries[e].ref = stored[c]
OpenOK   == \A c \in open : stored[c] = None
SolosOK  == \A r \in Slots : SoloOK(req[r], lists, entries, open)

AloneInv == CopyInv /\ UniqueOK /\ StoredOK /\ OpenOK /\ SolosOK

LEMMA UniqueStep ==
  ASSUME AloneInv, [Next]_vars
  PROVE  UniqueOK'
<1> SUFFICES ASSUME NEW e \in Entries, NEW d \in Entries, entries'[e].cred # None,
                    entries'[d].cred # None, entries'[e].ref = entries'[d].ref, e # d
             PROVE  FALSE
  BY DEF UniqueOK, IsBorn
<1>1. IInv /\ entries \in [Entries -> Entry]
  BY DEF AloneInv, CopyInv, IInv, TypeOK
<1>2. ASSUME NEW a \in Entries, NEW b \in Entries, a # b, ~IsBorn(a),
             entries'[a].cred # None, entries'[b].cred # None, entries'[a].ref = entries'[b].ref
      PROVE  FALSE
  <2>1. PICK r \in Slots : AddSave(r, a)
    BY <1>1, <1>2, NewEntry
  <2>2. /\ req[r].pc = "addSave" /\ entries'[a].ref = req[r].ref
        /\ entries'[b] = entries[b]
    BY <1>1, <1>2, <2>1 DEF AddSave, Busy
  <2>3. entries[b].cred # None /\ entries[b].ref = req[r].ref
    BY <1>2, <2>2
  <2>4. SoloOK(req[r], lists, entries, open)
    BY DEF AloneInv, SolosOK
  <2> QED BY <2>2, <2>3, <2>4 DEF SoloOK
<1>3. CASE IsBorn(e) /\ IsBorn(d)
  BY <1>1, <1>3, EntryLasts DEF AloneInv, UniqueOK
<1>4. CASE ~IsBorn(e)
  BY <1>2, <1>4
<1>5. CASE ~IsBorn(d)
  BY <1>2, <1>5
<1> QED BY <1>3, <1>4, <1>5

\* Only Store changes what is stored with a credential.
LEMMA StoredBy ==
  ASSUME AloneInv, [Next]_vars, ~Reissue
  PROVE  \/ stored' = stored /\ open' = open
         \/ \E r \in Slots : Store(r)
BY DEF Next, Step, vars, Issue, Revoke, RevokeAgain, Reopen, Fail, Sign, NoListToGet, TooFull,
       GetList, CreateList, AddRead, AddSave, RevokeRead, ListSave, EntrySave

LEMMA EntryStays ==
  ASSUME AloneInv, [Next]_vars, NEW c \in Credentials, NEW ref,
         \E e \in Entries : entries[e].cred = c /\ entries[e].ref = ref
  PROVE  \E e \in Entries : entries'[e].cred = c /\ entries'[e].ref = ref
<1>1. PICK e \in Entries : entries[e].cred = c /\ entries[e].ref = ref
  OBVIOUS
<1>2. IInv /\ IsBorn(e)
  BY <1>1, StatusAssumption DEF AloneInv, CopyInv, IsBorn
<1> QED BY <1>1, <1>2, EntryLasts

LEMMA StoredStep ==
  ASSUME AloneInv, [Next]_vars, ~Reissue
  PROVE  StoredOK' /\ OpenOK'
<1>1. IInv /\ stored \in [Credentials -> Refs \cup {None}] /\ open \subseteq Credentials
  BY DEF AloneInv, CopyInv, IInv, TypeOK
<1>2. \A c \in Credentials : stored[c] # None =>
         \E e \in Entries : entries'[e].cred = c /\ entries'[e].ref = stored[c]
  BY EntryStays DEF AloneInv, StoredOK
<1>3. CASE stored' = stored /\ open' = open
  BY <1>2, <1>3 DEF StoredOK, OpenOK, AloneInv
<1>4. ASSUME NEW r \in Slots, Store(r) PROVE StoredOK' /\ OpenOK'
  <2> DEFINE c == req[r].cred
  <2>1. /\ c \in Credentials
        /\ \E e \in Entries : entries[e].cred = c /\ entries[e].ref = req[r].ref
    BY <1>1, <1>4, SlotFacts DEF Store, Busy, SlotOK, AloneInv, SolosOK, SoloOK
  <2>2. /\ stored' = [stored EXCEPT ![c] = req[r].ref] /\ open' = open \ {c}
        /\ entries' = entries
    BY <1>4 DEF Store
  <2>3. StoredOK'
    BY <1>1, <1>2, <2>1, <2>2 DEF StoredOK
  <2>4. OpenOK'
    BY <1>1, <2>2 DEF OpenOK, AloneInv
  <2> QED BY <2>3, <2>4
<1> QED BY <1>3, <1>4, StoredBy

\* Who steps is alone.
LEMMA SoloOnly ==
  ASSUME AloneInv, Alone, Alone', NEW r \in Slots, NEW f, req' = [req EXCEPT ![r] = f],
         f.pc # "idle" \/ req[r].pc # "idle",
         SoloOK(f, lists', entries', open')
  PROVE  SolosOK'
<1> SUFFICES ASSUME NEW s \in Slots PROVE SoloOK(req'[s], lists', entries', open')
  BY DEF SolosOK
<1>1. req \in [Slots -> Slot]
  BY DEF AloneInv, CopyInv, IInv, TypeOK
<1>2. CASE s = r
  BY <1>1, <1>2
<1>3. CASE s # r
  <2>1. req'[s] = req[s] /\ req'[r] = f
    BY <1>1, <1>3
  <2>2. req'[s].pc = "idle"
    BY <1>3, <2>1 DEF Alone, Busy
  <2> QED BY <2>2 DEF SoloOK, ForIssue
<1> QED BY <1>2, <1>3

LEMMA SolosStep ==
  ASSUME AloneInv, Alone, Alone', [Next]_vars, ~Reissue
  PROVE  SolosOK'
<1>1. /\ IInv /\ req \in [Slots -> Slot] /\ lists \in [Lists -> List]
      /\ entries \in [Entries -> Entry]
  BY DEF AloneInv, CopyInv, IInv, TypeOK
<1>2. \A r \in Slots : SoloOK(req[r], lists, entries, open)
  BY DEF AloneInv, SolosOK
<1>3. req' = req /\ lists' = lists /\ entries' = entries /\ open' = open => SolosOK'
  BY <1>2 DEF SolosOK
<1>4. ASSUME NEW r \in Slots, NEW c \in Credentials, Issue(r, c) PROVE SolosOK'
  <2> DEFINE f == [Idle EXCEPT !.pc = "sign", !.cred = c]
  <2>1. f.pc = "sign" /\ f.cred = c
    BY DEF Idle
  <2>2. SoloOK(f, lists', entries', open') /\ req' = [req EXCEPT ![r] = f]
    BY <1>4, <2>1 DEF Issue, SoloOK
  <2> HIDE DEF f
  <2> QED BY <2>1, <2>2, SoloOnly
<1>5. ASSUME NEW r \in Slots, NEW c \in Credentials, NEW e \in Entries, Revoke(r, c, e)
      PROVE  SolosOK'
  <2> DEFINE f == [Idle EXCEPT !.pc = "revokeRead", !.cred = c]
  <2>1. f.pc = "revokeRead"
    BY DEF Idle
  <2>2. SoloOK(f, lists', entries', open') /\ req' = [req EXCEPT ![r] = f]
    BY <1>5, <2>1 DEF Revoke, SoloOK, ForIssue
  <2> HIDE DEF f
  <2> QED BY <2>1, <2>2, SoloOnly
<1>6. ASSUME NEW r \in Slots, NEW f, req' = [req EXCEPT ![r] = f], open' = open,
             req[r].pc \in ForIssue, f.cred = req[r].cred,
             f.pc \in ForIssue \ {"addSave", "store"}
      PROVE  SolosOK'
  <2>1. SoloOK(f, lists', entries', open')
    BY <1>2, <1>6 DEF SoloOK, ForIssue
  <2> QED BY <1>6, <2>1, SoloOnly DEF ForIssue
<1>7. ASSUME NEW r \in Slots, Sign(r) PROVE SolosOK'
  <2> DEFINE f == [req[r] EXCEPT !.pc = "getList", !.signed = req[r].ref]
  <2>1. f.pc = "getList" /\ f.cred = req[r].cred
    BY <1>1 DEF Slot
  <2>2. req' = [req EXCEPT ![r] = f] /\ open' = open /\ req[r].pc \in ForIssue
    BY <1>7 DEF Sign, Busy, ForIssue
  <2> HIDE DEF f
  <2> QED BY <1>6, <2>1, <2>2 DEF ForIssue
<1>8. ASSUME NEW r \in Slots, NoListToGet(r) PROVE SolosOK'
  <2> DEFINE f == [req[r] EXCEPT !.pc = "createList"]
  <2>1. f.pc = "createList" /\ f.cred = req[r].cred
    BY <1>1 DEF Slot
  <2>2. req' = [req EXCEPT ![r] = f] /\ open' = open /\ req[r].pc \in ForIssue
    BY <1>8 DEF NoListToGet, Goto, Busy, ForIssue
  <2> HIDE DEF f
  <2> QED BY <1>6, <2>1, <2>2 DEF ForIssue
<1>9. ASSUME NEW r \in Slots, NEW k \in Lists, GetList(r, k) \/ CreateList(r, k) PROVE SolosOK'
  <2> DEFINE f == [req[r] EXCEPT !.pc = "addRead", !.list = k]
  <2>1. f.pc = "addRead" /\ f.cred = req[r].cred
    BY <1>1 DEF Slot
  <2>2. req' = [req EXCEPT ![r] = f] /\ open' = open
    BY <1>9 DEF GetList, CreateList
  <2>3. req[r].pc \in ForIssue
    BY <1>9 DEF GetList, CreateList, Busy, ForIssue
  <2> HIDE DEF f
  <2> QED BY <1>6, <2>1, <2>2, <2>3 DEF ForIssue
<1>10. ASSUME NEW r \in Slots, NEW i \in Indices, AddRead(r, i) PROVE SolosOK'
  <2> DEFINE ref == [list |-> req[r].list, index |-> i]
             f   == [req[r] EXCEPT !.pc = "addSave", !.ref = ref]
  <2>1. f.pc = "addSave" /\ f.cred = req[r].cred /\ f.ref = ref
    BY <1>1 DEF Slot
  <2>2. /\ req' = [req EXCEPT ![r] = f] /\ open' = open /\ entries' = entries
        /\ req[r].pc = "addRead" /\ i \notin Used(req[r].list)
    BY <1>10 DEF AddRead, Busy
  <2>3. \A e \in Entries : entries[e].cred # None => entries[e].ref # ref
    BY <2>2 DEF Used, EntriesIn, IsBorn
  <2>4. SoloOK(f, lists', entries', open')
    <3> HIDE DEF ref, f
    <3> QED BY <1>2, <2>1, <2>2, <2>3 DEF SoloOK, ForIssue
  <2> HIDE DEF f
  <2> QED BY <2>1, <2>2, <2>4, SoloOnly
<1>11. ASSUME NEW r \in Slots, NEW d \in Entries, AddSave(r, d) PROVE SolosOK'
  <2> DEFINE f == [req[r] EXCEPT !.pc = "store"]
  <2>1. f.pc = "store" /\ f.cred = req[r].cred /\ f.ref = req[r].ref
    BY <1>1 DEF Slot
  <2>2. /\ req' = [req EXCEPT ![r] = f] /\ open' = open /\ lists' = lists
        /\ entries'[d].cred = req[r].cred /\ entries'[d].ref = req[r].ref
        /\ req[r].pc = "addSave" /\ req[r].ref \in Refs
    BY <1>1, <1>11, SlotFacts DEF AddSave, Goto, Busy, SlotOK
  <2>3. ~BitIn(req[r].ref, lists)
    <3> SUFFICES ASSUME BitIn(req[r].ref, lists) PROVE FALSE
      OBVIOUS
    <3>1. PICK e \in Entries : /\ entries[e].cred # None
                               /\ entries[e].ref.list = req[r].ref.list
                               /\ entries[e].ref.index = req[r].ref.index
      BY <1>1, <2>2, RefFields DEF BitIn, IInv, ListsOK, Asked
    <3>2. entries[e].ref \in Refs
      BY <1>1, <3>1, EntryFacts DEF IsBorn
    <3>3. entries[e].ref = req[r].ref
      BY <2>2, <3>1, <3>2 DEF Refs
    <3> QED BY <1>2, <2>2, <3>1, <3>3 DEF SoloOK
  <2>4. SoloOK(f, lists', entries', open')
    <3> HIDE DEF f
    <3> QED BY <1>2, <2>1, <2>2, <2>3 DEF SoloOK, ForIssue
  <2> HIDE DEF f
  <2> QED BY <2>1, <2>2, <2>4, SoloOnly
<1>12. ASSUME NEW r \in Slots, NEW e \in Entries, RevokeRead(r, e) PROVE SolosOK'
  <2> DEFINE ref  == entries[e].ref
             bits == lists[ref.list].bits \cup {ref.index}
             f    == [req[r] EXCEPT !.pc = "listSave", !.entry = e, !.ref = ref,
                                    !.bits = bits]
  <2>1. f.pc = "listSave" /\ f.ref = ref /\ f.bits = bits
    BY <1>1 DEF Slot
  <2>2. req' = [req EXCEPT ![r] = f] /\ lists' = lists
    BY <1>12 DEF RevokeRead
  <2>3. SoloOK(f, lists', entries', open')
    <3> HIDE DEF f
    <3> QED BY <2>1, <2>2 DEF SoloOK, ForIssue
  <2> HIDE DEF f
  <2> QED BY <2>1, <2>2, <2>3, SoloOnly
<1>13. ASSUME NEW r \in Slots, ListSave(r) PROVE SolosOK'
  <2> DEFINE f == [req[r] EXCEPT !.pc = "entrySave"]
  <2>1. f.pc = "entrySave" /\ req' = [req EXCEPT ![r] = f]
    BY <1>1, <1>13 DEF ListSave, Goto, Slot
  <2>2. SoloOK(f, lists', entries', open')
    <3> HIDE DEF f
    <3> QED BY <2>1 DEF SoloOK, ForIssue
  <2> HIDE DEF f
  <2> QED BY <2>1, <2>2, SoloOnly
<1>14. ASSUME NEW r \in Slots, TooFull(r) \/ Store(r) \/ EntrySave(r) \/ Fail(r) PROVE SolosOK'
  <2>1. SoloOK(Idle, lists', entries', open')
    BY DEF Idle, SoloOK, ForIssue
  <2>2. req[r].pc # "idle" /\ req' = [req EXCEPT ![r] = Idle]
    BY <1>14 DEF TooFull, Store, EntrySave, Fail, End, Busy
  <2> QED BY <2>1, <2>2, SoloOnly
<1> QED
  BY <1>3, <1>4, <1>5, <1>7, <1>8, <1>9, <1>10, <1>11, <1>12, <1>13, <1>14
     DEF Next, Step, vars, RevokeAgain, Reopen

LEMMA AloneInvariant ==
  ASSUME ~Reissue
  PROVE  Spec /\ []Alone => []AloneInv
<1>1. Init => AloneInv
  <2> SUFFICES ASSUME Init PROVE AloneInv
    OBVIOUS
  <2>1. IInv
    BY InitIInv
  <2>2. CopyInv
    BY <2>1 DEF Init, CopyInv, CopiesOK, CopyOK, Idle, MarkedIsListed, AnsweredIsListed,
                IsBorn, NoEntry
  <2>3. UniqueOK /\ StoredOK /\ OpenOK /\ SolosOK
    BY DEF Init, UniqueOK, StoredOK, OpenOK, SolosOK, SoloOK, Idle, IsBorn, NoEntry, ForIssue
  <2> QED BY <2>2, <2>3 DEF AloneInv
<1>2. AloneInv /\ Alone /\ Alone' /\ [Next]_vars => AloneInv'
  <2> SUFFICES ASSUME AloneInv, Alone, Alone', [Next]_vars PROVE AloneInv'
    OBVIOUS
  <2>1. CopyInv /\ OneCopy
    BY DEF AloneInv, Alone, OneCopy, Busy
  <2>2. IInv'
    BY <2>1, TypeStep, SlotsStep, EntriesStep, ListsStep DEF CopyInv, IInv
  <2>3. CopyInv'
    BY <2>1, <2>2, CopiesStep, MarkedStep, AnsweredStep DEF CopyInv
  <2> QED BY <2>3, UniqueStep, StoredStep, SolosStep DEF AloneInv
<1> QED BY <1>1, <1>2, PTL DEF Spec

\* What Registry sees of the tables.
Issued  == {c \in Credentials : stored[c] # None}
Revoked == {c \in Credentials : stored[c] # None /\ BitSet(stored[c])}

LEMMA PromiseIssue ==
  ASSUME AloneInv, NEW r \in Slots, Store(r)
  PROVE  [Promise!Next]_<<Issued, Revoked>>
<1>0. PICK c \in Credentials : c = req[r].cred
  BY SlotFacts DEF Store, Busy, SlotOK, AloneInv, CopyInv
<1>1. /\ IInv /\ c \in open /\ req[r].ref \in Refs
      /\ ~BitIn(req[r].ref, lists)
      /\ stored \in [Credentials -> Refs \cup {None}]
  BY <1>0, SlotFacts DEF Store, Busy, SlotOK, AloneInv, CopyInv, IInv, TypeOK, SolosOK,
                         SoloOK, ForIssue
<1>2. req[r].ref # None /\ stored[c] = None
  BY <1>1, RefFields, RefIsNotNone DEF AloneInv, OpenOK
<1>3. stored' = [stored EXCEPT ![c] = req[r].ref] /\ lists' = lists
  BY <1>0 DEF Store
<1>4. c \notin Issued /\ Issued' = Issued \cup {c}
  BY <1>1, <1>2, <1>3 DEF Issued
<1>5. Revoked' = Revoked
  BY <1>1, <1>2, <1>3 DEF Revoked, BitSet, BitIn
<1>6. Promise!Issue(c)
  BY <1>4, <1>5 DEF Promise!Issue, Issued, Revoked
<1> QED BY <1>6 DEF Promise!Next

LEMMA PromiseRevoke ==
  ASSUME AloneInv, NEW r \in Slots, ListSave(r)
  PROVE  [Promise!Next]_<<Issued, Revoked>>
<1> DEFINE ref == req[r].ref
<1>1. /\ IInv /\ ref \in Refs /\ ref.list \in Lists
      /\ req[r].bits = lists[ref.list].bits \cup {ref.index}
      /\ stored \in [Credentials -> Refs \cup {None}] /\ lists \in [Lists -> List]
  BY SlotFacts, RefFields DEF ListSave, Busy, SlotOK, AloneInv, CopyInv, IInv, TypeOK, SolosOK,
                              SoloOK
<1>2. stored' = stored /\ lists' = [lists EXCEPT ![ref.list].bits = req[r].bits]
  BY DEF ListSave
<1>3. ASSUME NEW p \in Refs
      PROVE  BitIn(p, lists') <=> BitIn(p, lists) \/ p = ref
  <2>1. p.list \in Lists /\ lists[p.list] \in List /\ (p.list = ref.list /\ p.index = ref.index
           <=> p = ref)
    BY <1>1, RefFields DEF Refs
  <2>2. CASE p.list = ref.list
    BY <1>1, <1>2, <2>1, <2>2 DEF BitIn, List
  <2>3. CASE p.list # ref.list
    BY <1>1, <1>2, <2>1, <2>3 DEF BitIn
  <2> QED BY <2>2, <2>3
<1>4. Issued' = Issued
  BY <1>2 DEF Issued
<1>5. Revoked' = Revoked \cup {c \in Credentials : stored[c] = ref}
  <2>1. \A c \in Credentials : stored[c] # None => stored[c] \in Refs
    BY <1>1
  <2>2. ref # None
    BY <1>1, RefIsNotNone
  <2> QED BY <1>2, <1>3, <2>1, <2>2 DEF Revoked, BitSet, BitIn
<1>6. CASE \A c \in Credentials : stored[c] # ref
  <2>1. Revoked' = Revoked
    BY <1>5, <1>6
  <2> QED BY <1>4, <2>1
<1>7. ASSUME NEW c \in Credentials, stored[c] = ref PROVE [Promise!Next]_<<Issued, Revoked>>
  <2>1. \A d \in Credentials : stored[d] = ref => d = c
    <3> SUFFICES ASSUME NEW d \in Credentials, stored[d] = ref PROVE d = c
      OBVIOUS
    <3>1. ref # None
      BY <1>1, RefIsNotNone
    <3>2. PICK e \in Entries : entries[e].cred = c /\ entries[e].ref = ref
      BY <1>7, <3>1 DEF AloneInv, StoredOK
    <3>3. PICK a \in Entries : entries[a].cred = d /\ entries[a].ref = ref
      BY <3>1 DEF AloneInv, StoredOK
    <3>4. e = a
      BY <3>2, <3>3, StatusAssumption DEF AloneInv, UniqueOK, IsBorn
    <3> QED BY <3>2, <3>3, <3>4
  <2>2. Revoked' = Revoked \cup {c} /\ c \in Issued
    BY <1>1, <1>5, <1>7, <2>1, RefIsNotNone DEF Issued
  <2>3. CASE c \in Revoked
    BY <1>4, <2>2, <2>3
  <2>4. CASE c \notin Revoked
    <3>1. Promise!Revoke(c)
      BY <1>4, <2>2, <2>4 DEF Promise!Revoke, Issued, Revoked
    <3> QED BY <3>1 DEF Promise!Next
  <2> QED BY <2>3, <2>4
<1> QED BY <1>6, <1>7

LEMMA PromiseKept ==
  ASSUME AloneInv, [Next]_vars, stored' = stored, \A r \in Slots : ~ListSave(r)
  PROVE  UNCHANGED <<Issued, Revoked>>
<1>1. IInv /\ lists \in [Lists -> List] /\ stored \in [Credentials -> Refs \cup {None}]
  BY DEF AloneInv, CopyInv, IInv, TypeOK
<1>2. ASSUME NEW l \in Lists PROVE lists'[l].bits = lists[l].bits
  <2>1. ASSUME NEW r \in Slots, NEW k \in Lists, CreateList(r, k)
        PROVE  lists'[l].bits = lists[l].bits
    BY <1>1, <2>1 DEF CreateList, List
  <2> QED
    BY <2>1
       DEF Next, Step, vars, Issue, Revoke, RevokeAgain, Reopen, Fail, Sign, NoListToGet,
           TooFull, Store, GetList, AddRead, AddSave, RevokeRead, EntrySave
<1>3. \A c \in Credentials : stored[c] # None => (BitIn(stored[c], lists') <=> BitIn(stored[c], lists))
  BY <1>1, <1>2, RefFields DEF BitIn
<1> QED BY <1>3 DEF Issued, Revoked, BitSet, BitIn

\* Handlers of the registry that do not overlap, failing or not, keep its
\* promise: what the tables say is issued and revoked changes as Registry
\* allows, one credential at a time and for good.
THEOREM RegistryWhileAlone ==
  ASSUME ~Reissue
  PROVE  Spec /\ []Alone => RegistrySpec
<1>1. Init => Promise!Init
  BY DEF Init, Promise!Init
<1>2. AloneInv /\ [Next]_vars => [Promise!Next]_<<Issued, Revoked>>
  <2> SUFFICES ASSUME AloneInv, [Next]_vars
               PROVE  [Promise!Next]_<<Issued, Revoked>>
    OBVIOUS
  <2>1. CASE \E r \in Slots : Store(r)
    BY <2>1, PromiseIssue
  <2>2. CASE \E r \in Slots : ListSave(r)
    BY <2>2, PromiseRevoke
  <2>3. CASE \A r \in Slots : ~Store(r) /\ ~ListSave(r)
    <3>1. stored' = stored
      BY <2>3, StoredBy
    <3> QED BY <2>3, <3>1, PromiseKept
  <2> QED BY <2>1, <2>2, <2>3
<1> QED
  BY <1>1, <1>2, AloneInvariant, PTL DEF Spec, RegistrySpec, Promise!Spec, Issued, Revoked
=============================================================================
