---------------------------- MODULE TablesProofs -----------------------------
(***************************************************************************)
(* Proofs about Tables, for every set of rows, ages, texts, page sizes and *)
(* bound, and about Columns, for every list of columns.                    *)
(***************************************************************************)
EXTENDS Tables, Columns, FiniteSetTheorems, TLAPS

-----------------------------------------------------------------------------
(***************************************************************************)
(* Orders and pages.                                                       *)
(***************************************************************************)
LEMMA Finite ==
  ASSUME NEW S \in SUBSET Items
  PROVE  /\ IsFiniteSet(S) /\ Cardinality(S) \in Nat
         /\ \A i \in S : i \in Nat /\ Age[i] \in Nat
<1>1. IsFiniteSet(Items) /\ Items \subseteq Nat /\ Age \in [Items -> Nat]
  BY TablesAssumption DEF TablesAssumption
<1>2. IsFiniteSet(S)
  BY <1>1, FS_Subset
<1> QED BY <1>1, <1>2, FS_CardinalityType

LEMMA BeforeOrders ==
  ASSUME NEW S \in SUBSET Items, NEW sort, NEW a \in S, NEW b \in S, NEW c \in S
  PROVE  /\ ~Before(sort, a, a)
         /\ Before(sort, a, b) /\ Before(sort, b, c) => Before(sort, a, c)
         /\ a # b => Before(sort, a, b) \/ Before(sort, b, a)
<1>1. /\ a \in Nat /\ b \in Nat /\ c \in Nat
      /\ Age[a] \in Nat /\ Age[b] \in Nat /\ Age[c] \in Nat
  BY Finite
<1> QED BY <1>1, SMT DEF Before

\* How many rows come before a row.
Ahead(S, sort, i) == {j \in S : Before(sort, j, i)}
Rank(S, sort)     == [i \in S |-> Cardinality(Ahead(S, sort, i))]

LEMMA Ranks ==
  ASSUME NEW S \in SUBSET Items, NEW sort
  PROVE  Rank(S, sort) \in Bijection(S, 0 .. Cardinality(S) - 1)
<1> DEFINE R == Rank(S, sort)
           N == Cardinality(S)
<1>1. IsFiniteSet(S) /\ N \in Nat
  BY Finite
<1>2. ASSUME NEW i \in S PROVE R[i] \in 0 .. N - 1
  <2> DEFINE A == Ahead(S, sort, i)
  <2>1. A \in SUBSET S /\ i \notin A
    BY BeforeOrders DEF Ahead
  <2>2. R[i] = Cardinality(A)
    BY DEF Rank
  <2> HIDE DEF A, R
  <2>3. Cardinality(A) <= N /\ (N = Cardinality(A) => S = A)
    BY <1>1, <2>1, FS_Subset
  <2>4. Cardinality(A) \in Nat
    BY <2>1, Finite
  <2>5. S # A
    BY <2>1
  <2> HIDE DEF N
  <2> QED BY <1>1, <2>2, <2>3, <2>4, <2>5, SMT
<1>3. ASSUME NEW i \in S, NEW k \in S, Before(sort, i, k)
      PROVE  R[i] # R[k]
  <2> DEFINE A == Ahead(S, sort, i)
             B == Ahead(S, sort, k)
  <2>1. A \in SUBSET B /\ i \in B /\ i \notin A /\ B \in SUBSET S
    BY <1>3, BeforeOrders DEF Ahead
  <2>2. R[i] = Cardinality(A) /\ R[k] = Cardinality(B)
    BY DEF Rank
  <2> HIDE DEF A, B, R
  <2>3. IsFiniteSet(B)
    BY <2>1, Finite
  <2>4. Cardinality(B) = Cardinality(A) => B = A
    BY <2>1, <2>3, FS_Subset
  <2> QED BY <2>1, <2>2, <2>4
<1>4. \A i, k \in S : R[i] = R[k] => i = k
  BY <1>3, BeforeOrders
<1>5. R \in Injection(S, 0 .. N - 1)
  <2>1. R = [i \in S |-> R[i]]
    BY DEF Rank
  <2> HIDE DEF R, N
  <2>2. R \in [S -> 0 .. N - 1]
    BY <1>2, <2>1
  <2> QED BY <1>4, <2>2 DEF Injection, IsInjective
<1>6. IsFiniteSet(0 .. N - 1) /\ Cardinality(0 .. N - 1) = N
  <2>1. 0 \in Int /\ N - 1 \in Int
    BY <1>1, SMT
  <2>2. IsFiniteSet(0 .. N - 1)
        /\ Cardinality(0 .. N - 1) = IF 0 > N - 1 THEN 0 ELSE N - 1 - 0 + 1
    BY <2>1, FS_Interval
  <2> HIDE DEF N
  <2> QED BY <1>1, <2>2, SMT
<1> HIDE DEF R
<1>7. R \in Surjection(S, 0 .. N - 1)
  BY <1>5, <1>6, FS_Injection
<1> QED BY <1>5, <1>7 DEF Bijection, R

LEMMA InOrders ==
  ASSUME NEW S \in SUBSET Items, NEW sort
  PROVE  LET s == InOrder(S, sort)
         IN  /\ s \in [1 .. Cardinality(S) -> S]
             /\ Len(s) = Cardinality(S)
             /\ \A m, n \in 1 .. Cardinality(S) : s[m] = s[n] => m = n
             /\ \A i \in S : \E n \in 1 .. Cardinality(S) : s[n] = i
<1> DEFINE N == Cardinality(S)
           R == Rank(S, sort)
           s == InOrder(S, sort)
<1>1. N \in Nat
  BY Finite
<1>2. R \in Bijection(S, 0 .. N - 1)
  BY Ranks
<1>3. \A i \in S : R[i] = Cardinality({j \in S : Before(sort, j, i)})
  BY DEF Rank, Ahead
<1>4. \A n \in 1 .. N : s[n] = CHOOSE i \in S : Cardinality({j \in S : Before(sort, j, i)}) = n - 1
  BY DEF InOrder
<1>5. ASSUME NEW n \in 1 .. N PROVE s[n] \in S /\ R[s[n]] = n - 1
  <2>1. n - 1 \in 0 .. N - 1
    BY <1>1, SMT
  <2>2. PICK i \in S : R[i] = n - 1
    BY <1>2, <2>1 DEF Bijection, Surjection
  <2>3. \E x \in S : Cardinality({j \in S : Before(sort, j, x)}) = n - 1
    BY <1>3, <2>2
  <2>4. s[n] \in S /\ Cardinality({j \in S : Before(sort, j, s[n])}) = n - 1
    BY <1>4, <2>3
  <2> QED BY <1>3, <2>4
<1>6. s \in [1 .. N -> S]
  <2> DEFINE f(n) == CHOOSE i \in S : Cardinality({j \in S : Before(sort, j, i)}) = n - 1
  <2>1. s = [n \in 1 .. N |-> f(n)]
    BY DEF InOrder
  <2>2. \A n \in 1 .. N : s[n] = f(n)
    BY <1>4
  <2> HIDE DEF s, N, f
  <2> QED BY <1>5, <2>1, <2>2
<1> HIDE DEF s, N, R
<1>7. Len(s) = N
  BY <1>1, <1>6, SMT
<1>8. \A m, n \in 1 .. N : s[m] = s[n] => m = n
  <2> SUFFICES ASSUME NEW m \in 1 .. N, NEW n \in 1 .. N, s[m] = s[n]
               PROVE  m = n
    OBVIOUS
  <2>1. m - 1 = n - 1
    BY <1>5
  <2> QED BY <1>1, <2>1, SMT
<1>9. ASSUME NEW i \in S PROVE \E n \in 1 .. N : s[n] = i
  <2>1. R[i] \in 0 .. N - 1 /\ \A x, y \in S : R[x] = R[y] => x = y
    BY <1>2 DEF Bijection, Injection, Surjection, IsInjective
  <2> DEFINE n == R[i] + 1
  <2>2. n \in 1 .. N /\ n - 1 = R[i]
    BY <1>1, <2>1, SMT
  <2> HIDE DEF n
  <2>3. s[n] \in S /\ R[s[n]] = R[i]
    BY <1>5, <2>2
  <2>4. s[n] = i
    BY <2>1, <2>3
  <2> QED BY <2>2, <2>4
<1> QED BY <1>6, <1>7, <1>8, <1>9 DEF s, N

\* The rows of a page, and of those before it.
RowsOf(s)        == {s[i] : i \in DOMAIN s}
Upto(s, n)       == {s[m] : m \in {k \in DOMAIN s : k <= n}}
Between(s, m, n) == {s[i] : i \in {k \in DOMAIN s : m < k /\ k <= n}}

LEMMA Slices ==
  ASSUME NEW S, NEW N \in Nat, NEW s \in [1 .. N -> S],
         NEW page \in Nat \ {0}, NEW size \in Nat \ {0}
  PROVE  RowsOf(Slice(s, page, size)) = Between(s, (page - 1) * size, page * size)
<1> DEFINE a == (page - 1) * size
           b == page * size
           c == IF b < Len(s) THEN b ELSE Len(s)
           t == SubSeq(s, a + 1, c)
<1>1. a \in Nat /\ b \in Nat /\ a <= b
  BY SMT
<1>2. Len(s) = N /\ DOMAIN s = 1 .. N
  BY SMT
<1>3. Slice(s, page, size) = t
  BY DEF Slice
<1> HIDE DEF a, b
<1>4. c \in Nat /\ c <= N /\ c <= b /\ (b <= N => c = b) /\ (N <= b => c = N)
  BY <1>1, <1>2, SMT
<1> HIDE DEF c
<1>5. DOMAIN t = 1 .. (c - a) /\ \A i \in 1 .. (c - a) : t[i] = s[a + i]
  BY <1>1, <1>2, <1>4, SMT
<1> HIDE DEF t
<1>6. ASSUME NEW i \in DOMAIN t
      PROVE  a + i \in DOMAIN s /\ a < a + i /\ a + i <= b /\ t[i] = s[a + i]
  BY <1>1, <1>2, <1>4, <1>5, SMT
<1>7. ASSUME NEW k \in DOMAIN s, a < k, k <= b
      PROVE  k - a \in DOMAIN t /\ t[k - a] = s[k]
  BY <1>1, <1>2, <1>4, <1>5, <1>7, SMT
<1>8. RowsOf(t) \subseteq Between(s, a, b)
  BY <1>6 DEF RowsOf, Between
<1>9. Between(s, a, b) \subseteq RowsOf(t)
  BY <1>7 DEF RowsOf, Between
<1> QED BY <1>3, <1>8, <1>9 DEF a, b

-----------------------------------------------------------------------------
(***************************************************************************)
(* The inductive invariant.  An answer, kept or on its way, that was read  *)
(* after the last change of the rows is right for its own key; the total   *)
(* of the footer is the one kept for the key on screen; and a walk that is *)
(* on has seen all rows before the page on screen.                         *)
(***************************************************************************)
Place1  == Nat \ {0}
Screens == [list : Lists \cup {"away"}, page : Place1, size : PageSizes, sort : Orders,
            ticked : SUBSET Marks, typed : SUBSET Texts]
Lates   == [page : Place1, size : PageSizes, sort : Orders, typed : SUBSET Texts]
Kepts   == [Keeping -> [page : Place1, size : PageSizes]]
Uses    == [moves : Nat, writes : Nat, lost : Nat]
Walks   == [on : BOOLEAN, seen : SUBSET Items]

\* The filter on screen.
Filter(s) == CASE s.list = "pending"  -> {Fixed}
               [] s.list = "students" -> s.typed
               [] OTHER               -> s.ticked

KeyOK(k) == k.page \in Place1 /\ k.size \in PageSizes

\* w: changes so far; S: the rows that match.
AnswerOK(k, a, w, S) ==
    /\ a.rev \in Nat /\ a.rev <= w
    /\ a.rev = w =>
         /\ a.total = Cardinality(S)
         /\ IF k.table = "schemas" THEN RowsOf(a.rows) \subseteq S
            ELSE a.rows = Slice(InOrder(S, k.sort), k.page, k.size)

TypesOK  == /\ screen \in Screens /\ late \in Lates /\ kept \in Kepts
            /\ used \in Uses /\ walk \in Walks
CacheOK  == \A k \in DOMAIN cache :
                KeyOK(k) /\ AnswerOK(k, cache[k], used.writes, Matching(k.table, k.filter))
FlightOK == \A k \in DOMAIN flight :
                /\ KeyOK(k)
                /\ flight[k].at = "read" =>
                     AnswerOK(k, flight[k], used.writes, Matching(k.table, k.filter))
TotalOK  == Open /\ Cached(Key) => total = cache[Key].total
WalkOK   == walk.on =>
                /\ Open
                /\ screen.list # "schemas" =>
                     walk.seen = Upto(InOrder(Matching(TableOf(screen.list), Filter(screen)),
                                              screen.sort),
                                      (Place.page - 1) * Place.size)
TInv     == TypesOK /\ CacheOK /\ FlightOK /\ TotalOK /\ WalkOK

-----------------------------------------------------------------------------
LEMMA Assumed ==
  /\ Fixed \in Marks /\ DefaultSize \in PageSizes
  /\ \A z \in PageSizes : z \in Place1
<1>1. PageSizes \subseteq 1 .. 100 /\ DefaultSize \in PageSizes /\ Fixed \in Marks
  BY TablesAssumption DEF TablesAssumption
<1>2. \A z \in 1 .. 100 : z \in Nat /\ z # 0
  BY SMT
<1> QED BY <1>1, <1>2 DEF Place1

LEMMA Matches ==
  ASSUME NEW table, NEW filter
  PROVE  Matching(table, filter) \in SUBSET Items
BY Zenon DEF Matching

LEMMA ScreenFields ==
  ASSUME NEW s \in Screens
  PROVE  /\ s.list \in Lists \cup {"away"} /\ s.page \in Place1 /\ s.size \in PageSizes
         /\ s.sort \in Orders /\ s.ticked \in SUBSET Marks /\ s.typed \in SUBSET Texts
BY SMT DEF Screens

\* The place of the page, and the key, are a page and a size there is.
LEMMA PlaceTyped ==
  ASSUME TypesOK
  PROVE  Place.page \in Place1 /\ Place.size \in PageSizes /\ Place.size \in Place1
<1>1. screen.page \in Place1 /\ screen.size \in PageSizes
  BY ScreenFields DEF TypesOK
<1>2. ASSUME screen.list \in Keeping PROVE kept[screen.list].page \in Place1 /\ kept[screen.list].size \in PageSizes
  BY <1>2, SMT DEF TypesOK, Kepts
<1>3. Place.page \in Place1 /\ Place.size \in PageSizes
  BY <1>1, <1>2, SMT DEF Place
<1> QED BY <1>3, Assumed

LEMMA KeyTyped ==
  ASSUME TypesOK
  PROVE  KeyOK(Key)
<1>1. late.page \in Place1 /\ late.size \in PageSizes
  BY SMT DEF TypesOK, Lates
<1>2. ASSUME screen.list \in Keeping PROVE kept[screen.list].page \in Place1 /\ kept[screen.list].size \in PageSizes
  BY <1>2, SMT DEF TypesOK, Kepts
<1> QED BY <1>1, <1>2, SMT DEF Key, KeyOK

LEMMA NextKeyTyped ==
  ASSUME TypesOK'
  PROVE  KeyOK(Key')
<1>1. late'.page \in Place1 /\ late'.size \in PageSizes
  BY SMT DEF TypesOK, Lates
<1>2. ASSUME screen'.list \in Keeping
      PROVE  kept'[screen'.list].page \in Place1 /\ kept'[screen'.list].size \in PageSizes
  BY <1>2, SMT DEF TypesOK, Kepts
<1> QED BY <1>1, <1>2, SMT DEF Key, KeyOK

LEMMA KeyAtRest ==
  ASSUME TypesOK, late = Params(screen)
  PROVE  /\ Key.table = TableOf(screen.list) /\ Key.filter = Filter(screen)
         /\ Key.page = Place.page /\ Key.size = Place.size /\ Key.sort = screen.sort
<1>1. /\ late.page = screen.page /\ late.size = screen.size
      /\ late.sort = screen.sort /\ late.typed = screen.typed
  BY SMT DEF Params
<1>2. Key.table = TableOf(screen.list) /\ Key.sort = screen.sort
  BY <1>1, SMT DEF Key
<1>3. Key.page = Place.page /\ Key.size = Place.size
  BY <1>1, SMT DEF Key, Place
<1>4. Key.filter = Filter(screen)
  BY <1>1, SMT DEF Key, Filter
<1> QED BY <1>2, <1>3, <1>4

\* What a list at rest shows.
LEMMA SoundShows ==
  ASSUME TInv, Sound
  PROVE  LET M == Matching(TableOf(screen.list), Filter(screen))
             s == InOrder(M, screen.sort)
         IN  /\ total = Cardinality(M)
             /\ RowSet \subseteq M
             /\ screen.list # "schemas" =>
                  /\ Rows = Slice(s, Place.page, Place.size)
                  /\ RowSet = Between(s, (Place.page - 1) * Place.size,
                                      Place.page * Place.size)
<1> DEFINE M == Matching(TableOf(screen.list), Filter(screen))
           s == InOrder(M, screen.sort)
           a == cache[Key]
<1>1. Open /\ late = Params(screen) /\ Cached(Key) /\ a.rev = used.writes /\ TypesOK
  BY DEF Sound, Rest, TInv
<1>2. AnswerOK(Key, a, used.writes, Matching(Key.table, Key.filter)) /\ KeyOK(Key)
  BY <1>1 DEF TInv, CacheOK, Cached
<1>3. /\ Key.table = TableOf(screen.list) /\ Key.filter = Filter(screen)
      /\ Key.page = Place.page /\ Key.size = Place.size /\ Key.sort = screen.sort
  BY <1>1, KeyAtRest
<1>4. Key.table = "schemas" <=> screen.list = "schemas"
  BY <1>3, SMT DEF TableOf
<1>5. total = a.total /\ Rows = a.rows /\ RowSet = RowsOf(a.rows)
  BY <1>1 DEF TInv, TotalOK, Rows, RowSet, RowsOf
<1>6. total = Cardinality(M)
  BY <1>1, <1>2, <1>3, <1>5 DEF AnswerOK
<1>7. ASSUME screen.list = "schemas" PROVE RowSet \subseteq M
  BY <1>1, <1>2, <1>3, <1>4, <1>5, <1>7 DEF AnswerOK
<1>8. ASSUME screen.list # "schemas"
      PROVE  /\ Rows = Slice(s, Place.page, Place.size)
             /\ RowSet = Between(s, (Place.page - 1) * Place.size, Place.page * Place.size)
             /\ RowSet \subseteq M
  <2>1. a.rows = Slice(s, Place.page, Place.size)
    BY <1>1, <1>2, <1>3, <1>4, <1>8 DEF AnswerOK
  <2>2. M \in SUBSET Items
    BY Matches
  <2> DEFINE N == Cardinality(M)
             p == Place.page
             z == Place.size
  <2>3. N \in Nat
    BY <2>2, Finite
  <2>4. s \in [1 .. N -> M]
    BY <2>2, InOrders
  <2>5. p \in Nat \ {0} /\ z \in Nat \ {0}
    BY <1>1, PlaceTyped DEF Place1
  <2> HIDE DEF N, s, p, z, M, a
  <2>6. RowsOf(Slice(s, p, z)) = Between(s, (p - 1) * z, p * z)
    BY <2>3, <2>4, <2>5, Slices
  <2>7. Between(s, (p - 1) * z, p * z) \subseteq M
    BY <2>4 DEF Between
  <2> QED BY <1>5, <2>1, <2>6, <2>7 DEF p, z
<1> QED BY <1>6, <1>7, <1>8

LEMMA RestShows ==
  ASSUME TInv
  PROVE  RestShowsAsked
<1> DEFINE f == CASE screen.list = "pending"  -> {Fixed}
                  [] screen.list = "students" -> screen.typed
                  [] OTHER                    -> screen.ticked
           M == Matching(TableOf(screen.list), f)
<1> SUFFICES ASSUME Sound
             PROVE  /\ total = Cardinality(M)
                    /\ IF screen.list = "schemas" THEN RowSet \subseteq M
                       ELSE Rows = Slice(InOrder(M, screen.sort), Place.page, Place.size)
  BY DEF RestShowsAsked
<1>1. f = Filter(screen)
  BY DEF Filter
<1> HIDE DEF f
<1> QED BY <1>1, SoundShows

\* The last page ends with the last row.
LEMMA NoNext ==
  ASSUME NEW t \in Nat, NEW p \in Nat, NEW z \in Nat \ {0}, p >= (t + z - 1) \div z
  PROVE  p * z >= t
BY SMT

LEMMA WalkSees ==
  ASSUME TInv
  PROVE  WalkSeesAll
<1> DEFINE M == Matching(TableOf(screen.list), Filter(screen))
           s == InOrder(M, screen.sort)
           N == Cardinality(M)
           p == Place.page
           z == Place.size
<1> SUFFICES ASSUME Sound, walk.on, screen.list \in Footed \ {"schemas"}, ~Offered(p + 1)
             PROVE  /\ walk.seen \cup RowSet = Matching(TableOf(screen.list), Key.filter)
                    /\ walk.seen \cap RowSet = {}
  BY DEF WalkSeesAll
<1>1. TypesOK /\ screen.list # "schemas" /\ late = Params(screen)
  BY DEF TInv, Sound, Rest
<1>2. walk.seen = Upto(s, (p - 1) * z)
  BY <1>1 DEF TInv, WalkOK
<1>3. RowSet = Between(s, (p - 1) * z, p * z) /\ total = N
  BY <1>1, SoundShows
<1>4. Key.filter = Filter(screen)
  BY <1>1, KeyAtRest
<1>5. M \in SUBSET Items
  BY Matches
<1>6. /\ N \in Nat /\ s \in [1 .. N -> M]
      /\ \A m, n \in 1 .. N : s[m] = s[n] => m = n
      /\ \A i \in M : \E n \in 1 .. N : s[n] = i
  <2>1. N \in Nat
    BY <1>5, Finite
  <2>2. s \in [1 .. N -> M]
    BY <1>5, InOrders
  <2>3. \A m, n \in 1 .. N : s[m] = s[n] => m = n
    BY <1>5, InOrders
  <2>4. \A i \in M : \E n \in 1 .. N : s[n] = i
    BY <1>5, InOrders
  <2> QED BY <2>1, <2>2, <2>3, <2>4
<1>7. p \in Nat \ {0} /\ z \in Nat \ {0}
  BY <1>1, PlaceTyped DEF Place1
<1>8. total = 0 \/ p + 1 = p \/ ~(p < Pages)
  BY Zenon DEF Offered
<1>9. Pages = (total + z - 1) \div z
  BY DEF Pages
<1> HIDE DEF M, s, N, p, z
<1>10. p * z >= N
  <2>1. CASE total = 0
    <3>1. p * z \in Nat
      BY <1>7, SMT
    <3> QED BY <1>3, <2>1, <3>1, SMT
  <2>2. CASE total # 0
    <3> DEFINE d == (N + z - 1) \div z
    <3>1. ~(p < d)
      <4>1. p + 1 # p
        BY <1>7, SMT
      <4> QED BY <1>3, <1>8, <1>9, <2>2, <4>1
    <3>2. d \in Int
      BY <1>6, <1>7, SMT
    <3>3. p >= d
      BY <1>7, <3>1, <3>2, SMT
    <3> QED BY <1>6, <1>7, <3>3, NoNext
  <2> QED BY <2>1, <2>2
<1> DEFINE a == (p - 1) * z
           b == p * z
<1>11. a \in Nat /\ b \in Nat
  BY <1>7, SMT
<1>12. b >= N
  BY <1>10
<1> HIDE DEF a, b
<1>13. walk.seen = Upto(s, a) /\ RowSet = Between(s, a, b) /\ DOMAIN s = 1 .. N
  BY <1>2, <1>3, <1>6 DEF a, b
<1>14. \A i \in M : i \in Upto(s, a) \cup Between(s, a, b)
  <2> SUFFICES ASSUME NEW n \in 1 .. N
               PROVE  s[n] \in Upto(s, a) \cup Between(s, a, b)
    BY <1>6
  <2>1. n <= a \/ (a < n /\ n <= b)
    BY <1>6, <1>11, <1>12, SMT
  <2> QED BY <1>13, <2>1 DEF Upto, Between
<1>15. Upto(s, a) \cup Between(s, a, b) \subseteq M
  BY <1>6, <1>13 DEF Upto, Between
<1>16. Upto(s, a) \cap Between(s, a, b) = {}
  <2> SUFFICES ASSUME NEW m \in 1 .. N, NEW n \in 1 .. N, m <= a, a < n, s[m] = s[n]
               PROVE  FALSE
    BY <1>13 DEF Upto, Between
  <2>1. m = n
    BY <1>6
  <2> QED BY <1>6, <1>11, <2>1, SMT
<1> QED BY <1>4, <1>13, <1>14, <1>15, <1>16 DEF M

-----------------------------------------------------------------------------
(***************************************************************************)
(* What steps have in common.                                              *)
(***************************************************************************)
LEMMA Unwritten ==
  ASSUME state' = state
  PROVE  \A table, filter : Matching(table, filter)' = Matching(table, filter)
BY DEF Matching

LEMMA Entering ==
  ASSUME NEW f, NEW k, NEW v
  PROVE  /\ DOMAIN Entered(f, k, v) = DOMAIN f \cup {k} /\ Entered(f, k, v)[k] = v
         /\ \A j \in DOMAIN f : j # k => Entered(f, k, v)[j] = f[j]
BY DEF Entered

\* Fetches are sent or given up, and no answer comes.
LEMMA Sends ==
  ASSUME TInv, state' = state, cache' = cache, used'.writes = used.writes,
         \A k \in DOMAIN flight' :
            \/ k \in DOMAIN flight /\ flight'[k] = flight[k]
            \/ KeyOK(k) /\ flight'[k].at # "read"
  PROVE  CacheOK' /\ FlightOK'
<1>1. \A table, filter : Matching(table, filter)' = Matching(table, filter)
  BY Unwritten
<1>2. CacheOK'
  <2> SUFFICES ASSUME NEW k \in DOMAIN cache
               PROVE  /\ KeyOK(k)
                      /\ AnswerOK(k, cache[k], used'.writes, Matching(k.table, k.filter)')
    BY DEF CacheOK
  <2>1. KeyOK(k) /\ AnswerOK(k, cache[k], used.writes, Matching(k.table, k.filter))
    BY DEF TInv, CacheOK
  <2> QED BY <1>1, <2>1
<1>3. FlightOK'
  <2> SUFFICES ASSUME NEW k \in DOMAIN flight'
               PROVE  /\ KeyOK(k)
                      /\ flight'[k].at = "read" =>
                           AnswerOK(k, flight'[k], used'.writes, Matching(k.table, k.filter)')
    BY DEF FlightOK
  <2>1. CASE k \in DOMAIN flight /\ flight'[k] = flight[k]
    <3>1. /\ KeyOK(k)
          /\ flight[k].at = "read" =>
               AnswerOK(k, flight[k], used.writes, Matching(k.table, k.filter))
      BY <2>1 DEF TInv, FlightOK
    <3> QED BY <1>1, <2>1, <3>1
  <2>2. CASE KeyOK(k) /\ flight'[k].at # "read"
    BY <2>2
  <2> QED BY <2>1, <2>2
<1> QED BY <1>2, <1>3

LEMMA SendsOne ==
  ASSUME TInv, state' = state, cache' = cache, used'.writes = used.writes,
         NEW k, KeyOK(k), flight' = flight \/ flight' = Asking(k) \/ flight' = Entered(flight, k, Sent)
  PROVE  CacheOK' /\ FlightOK'
<1>1. Sent.at # "read"
  BY DEF Sent
<1>2. ASSUME flight' = Entered(flight, k, Sent)
      PROVE  \A j \in DOMAIN flight' : \/ j \in DOMAIN flight /\ flight'[j] = flight[j]
                                       \/ KeyOK(j) /\ flight'[j].at # "read"
  <2>1. /\ DOMAIN flight' = DOMAIN flight \cup {k} /\ flight'[k] = Sent
        /\ \A j \in DOMAIN flight : j # k => flight'[j] = flight[j]
    BY <1>2 DEF Entered
  <2> QED BY <1>1, <2>1
<1>3. \A j \in DOMAIN flight' : \/ j \in DOMAIN flight /\ flight'[j] = flight[j]
                                \/ KeyOK(j) /\ flight'[j].at # "read"
  BY <1>2 DEF Asking
<1> QED BY <1>3, Sends

LEMMA Follows ==
  ASSUME TInv, TypesOK', Follow, used'.writes = used.writes
  PROVE  CacheOK' /\ FlightOK' /\ TotalOK'
<1>1. /\ state' = state /\ cache' = cache
      /\ flight' = flight \/ flight' = Asking(Key')
      /\ Key' \in DOMAIN cache => total' = cache[Key'].total
  BY DEF Follow, Cached
<1>2. KeyOK(Key')
  BY NextKeyTyped
<1>3. CacheOK' /\ FlightOK'
  <2> DEFINE k == Key'
  <2>1. KeyOK(k) /\ (flight' = flight \/ flight' = Asking(k))
    BY <1>1, <1>2
  <2> HIDE DEF k
  <2> QED BY <1>1, <2>1, SendsOne
<1>4. TotalOK'
  BY <1>1 DEF TotalOK, Cached
<1> QED BY <1>3, <1>4

LEMMA Clicks ==
  ASSUME TypesOK, Clicked
  PROVE  used' \in Uses /\ used'.writes = used.writes
<1>1. used \in Uses /\ used' = [used EXCEPT !.moves = @ + 1]
  BY DEF TypesOK, Clicked
<1> QED BY <1>1, SMT DEF Uses

LEMMA NotWalkingTyped == NotWalking \in Walks /\ ~NotWalking.on
BY SMT DEF NotWalking, Walks

LEMMA WalksAnew == [on |-> TRUE, seen |-> {}] \in Walks
BY SMT DEF Walks

\* A walk that is off, as it was, or begins.
LEMMA WalkOff ==
  ASSUME walk' = NotWalking
  PROVE  WalkOK'
BY NotWalkingTyped DEF WalkOK

LEMMA WalkSame ==
  ASSUME TInv, state' = state, screen' = screen, kept' = kept, walk' = walk
  PROVE  WalkOK'
<1>1. Place' = Place /\ (Open' <=> Open)
  BY DEF Place, Open
<1>2. \A table, filter : Matching(table, filter)' = Matching(table, filter)
  BY Unwritten
<1>3. Matching(TableOf(screen.list), Filter(screen))' = Matching(TableOf(screen.list), Filter(screen))
  BY <1>2
<1> QED BY <1>1, <1>3 DEF TInv, WalkOK

LEMMA WalkBegins ==
  ASSUME TypesOK', walk' = [on |-> TRUE, seen |-> {}], Open', Place'.page = 1
  PROVE  WalkOK'
<1> DEFINE M == Matching(TableOf(screen.list), Filter(screen))'
           s == InOrder(M, screen'.sort)
           z == Place'.size
<1>1. z \in Place1
  <2>1. screen'.size \in PageSizes
    BY ScreenFields DEF TypesOK
  <2>2. ASSUME screen'.list \in Keeping PROVE kept'[screen'.list].size \in PageSizes
    BY <2>2, SMT DEF TypesOK, Kepts
  <2>3. z \in PageSizes
    BY <2>1, <2>2, SMT DEF Place
  <2> QED BY <2>3, Assumed
<1>2. walk'.seen = {}
  BY SMT
<1>3. Upto(s, 0) = {}
  <2>1. M \in SUBSET Items
    BY Zenon DEF Matching
  <2> HIDE DEF M
  <2>2. Cardinality(M) \in Nat /\ s \in [1 .. Cardinality(M) -> M]
    BY <2>1, Finite, InOrders
  <2> HIDE DEF s
  <2>3. \A k \in DOMAIN s : ~(k <= 0)
    BY <2>2, SMT
  <2> QED BY <2>3 DEF Upto
<1> HIDE DEF z
<1>4. (1 - 1) * z = 0
  BY <1>1, SMT DEF Place1
<1>5. Upto(s, (Place'.page - 1) * Place'.size) = {}
  BY <1>3, <1>4 DEF z
<1> HIDE DEF z
<1> QED BY <1>2, <1>5 DEF WalkOK

-----------------------------------------------------------------------------
(***************************************************************************)
(* The server and the queries.                                             *)
(***************************************************************************)
LEMMA Orders1 ==
  ASSUME NEW k, NEW s \in Orderings(k)
  PROVE  LET S == Matching(k.table, k.filter)
         IN  /\ s \in [1 .. Cardinality(S) -> S] /\ Cardinality(S) \in Nat
             /\ k.table # "schemas" => s = InOrder(S, k.sort)
<1> DEFINE S == Matching(k.table, k.filter)
<1>1. S \in SUBSET Items
  BY Matches
<1>2. Orderings(k) = IF k.table = "schemas"
                     THEN {t \in [1 .. Cardinality(S) -> S] : \A i \in S : \E n \in DOMAIN t : t[n] = i}
                     ELSE {InOrder(S, k.sort)}
  BY DEF Orderings
<1> HIDE DEF S
<1>3. Cardinality(S) \in Nat
  BY <1>1, Finite
<1>4. InOrder(S, k.sort) \in [1 .. Cardinality(S) -> S]
  BY <1>1, InOrders
<1> QED BY <1>2, <1>3, <1>4 DEF S

LEMMA Reads ==
  ASSUME TInv, NEW k \in DOMAIN flight, Read(k)
  PROVE  TInv'
<1> DEFINE S == Matching(k.table, k.filter)
<1>1. PICK s \in Orderings(k) :
         flight' = [flight EXCEPT ![k] = [at |-> "read", rows |-> Slice(s, k.page, k.size),
                                          total |-> Len(s), rev |-> used.writes]]
  BY DEF Read
<1>2. UNCHANGED <<state, screen, late, kept, cache, failed, total, walk, used>>
  BY Zenon DEF Read
<1> DEFINE a == [at |-> "read", rows |-> Slice(s, k.page, k.size),
                 total |-> Len(s), rev |-> used.writes]
<1>3. DOMAIN flight' = DOMAIN flight /\ flight'[k] = a
      /\ \A j \in DOMAIN flight : j # k => flight'[j] = flight[j]
  BY <1>1
<1>4. KeyOK(k) /\ used.writes \in Nat
  BY SMT DEF TInv, FlightOK, TypesOK, Uses
<1>5. AnswerOK(k, a, used.writes, S)
  <2>1. /\ s \in [1 .. Cardinality(S) -> S] /\ Cardinality(S) \in Nat
        /\ k.table # "schemas" => s = InOrder(S, k.sort)
    BY Orders1
  <2>2. a.rows = Slice(s, k.page, k.size) /\ a.total = Len(s) /\ a.rev = used.writes
    OBVIOUS
  <2> HIDE DEF a
  <2>3. Len(s) = Cardinality(S)
    BY <2>1, SMT
  <2>4. RowsOf(Slice(s, k.page, k.size)) \subseteq S
    <3> DEFINE N == Cardinality(S)
               T == S
               p == k.page
               z == k.size
    <3>1. p \in Nat \ {0} /\ z \in Nat \ {0}
      BY <1>4, Assumed DEF KeyOK, Place1
    <3>2. N \in Nat /\ s \in [1 .. N -> T]
      BY <2>1
    <3> HIDE DEF N, T, p, z
    <3>3. RowsOf(Slice(s, p, z)) = Between(s, (p - 1) * z, p * z)
      BY <3>1, <3>2, Slices
    <3>4. Between(s, (p - 1) * z, p * z) \subseteq T
      BY <3>2 DEF Between
    <3> QED BY <3>3, <3>4 DEF p, z, T
  <2> QED BY <1>4, <2>1, <2>2, <2>3, <2>4 DEF AnswerOK
<1> HIDE DEF a
<1>6. FlightOK'
  <2> SUFFICES ASSUME NEW j \in DOMAIN flight'
               PROVE  /\ KeyOK(j)
                      /\ flight'[j].at = "read" =>
                           AnswerOK(j, flight'[j], used'.writes, Matching(j.table, j.filter)')
    BY DEF FlightOK
  <2>1. \A table, filter : Matching(table, filter)' = Matching(table, filter)
    BY <1>2, Unwritten
  <2>2. CASE j = k
    BY <1>2, <1>3, <1>4, <1>5, <2>1, <2>2
  <2>3. CASE j # k
    BY <1>2, <1>3, <2>1, <2>3 DEF TInv, FlightOK
  <2> QED BY <2>2, <2>3
<1>7. CacheOK'
  <2>1. \A table, filter : Matching(table, filter)' = Matching(table, filter)
    BY <1>2, Unwritten
  <2> SUFFICES ASSUME NEW j \in DOMAIN cache
               PROVE  /\ KeyOK(j)
                      /\ AnswerOK(j, cache[j], used.writes, Matching(j.table, j.filter)')
    BY <1>2 DEF CacheOK
  <2> QED BY <2>1 DEF TInv, CacheOK
<1>8. TypesOK' /\ TotalOK'
  BY <1>2 DEF TInv, TypesOK, TotalOK, Open, Cached, Key
<1>9. WalkOK'
  BY <1>2, WalkSame
<1> QED BY <1>6, <1>7, <1>8, <1>9 DEF TInv

LEMMA Lands ==
  ASSUME NEW k
  PROVE  \A j \in DOMAIN Landed(k) : j \in DOMAIN flight /\ Landed(k)[j] = flight[j]
BY DEF Landed

LEMMA AnswersIn ==
  ASSUME TInv, NEW k \in DOMAIN flight, AnswerIn(k)
  PROVE  TInv'
<1> DEFINE a == [rows |-> flight[k].rows, total |-> flight[k].total, rev |-> flight[k].rev]
<1>1. /\ UNCHANGED <<state, screen, late, kept, walk, used>> /\ flight[k].at = "read"
      /\ flight' = Landed(k) /\ cache' = Entered(cache, k, a)
      /\ total' = IF Open /\ k = Key THEN flight[k].total ELSE total
  BY Zenon DEF AnswerIn
<1>2. /\ DOMAIN cache' = DOMAIN cache \cup {k} /\ cache'[k] = a
      /\ \A j \in DOMAIN cache : j # k => cache'[j] = cache[j]
  BY <1>1 DEF Entered
<1>3. \A table, filter : Matching(table, filter)' = Matching(table, filter)
  BY <1>1, Unwritten
<1>4. KeyOK(k) /\ AnswerOK(k, flight[k], used.writes, Matching(k.table, k.filter))
  BY <1>1 DEF TInv, FlightOK
<1>5. a.rows = flight[k].rows /\ a.total = flight[k].total /\ a.rev = flight[k].rev
  OBVIOUS
<1> HIDE DEF a
<1>6. AnswerOK(k, a, used.writes, Matching(k.table, k.filter))
  BY <1>4, <1>5 DEF AnswerOK
<1>7. CacheOK'
  <2> SUFFICES ASSUME NEW j \in DOMAIN cache'
               PROVE  /\ KeyOK(j)
                      /\ AnswerOK(j, cache'[j], used'.writes, Matching(j.table, j.filter)')
    BY DEF CacheOK
  <2>1. CASE j = k
    BY <1>1, <1>2, <1>3, <1>4, <1>6, <2>1
  <2>2. CASE j # k
    BY <1>1, <1>2, <1>3, <2>2 DEF TInv, CacheOK
  <2> QED BY <2>1, <2>2
<1>8. FlightOK'
  <2> SUFFICES ASSUME NEW j \in DOMAIN flight'
               PROVE  /\ KeyOK(j)
                      /\ flight'[j].at = "read" =>
                           AnswerOK(j, flight'[j], used'.writes, Matching(j.table, j.filter)')
    BY DEF FlightOK
  <2>1. j \in DOMAIN flight /\ flight'[j] = flight[j]
    BY <1>1, Lands
  <2> QED BY <1>1, <1>3, <2>1 DEF TInv, FlightOK
<1>9. TypesOK'
  BY <1>1 DEF TInv, TypesOK
<1>10. TotalOK'
  <2>1. Key' = Key /\ (Open' <=> Open)
    BY <1>1 DEF Key, Open
  <2> SUFFICES ASSUME Open, Key \in DOMAIN cache'
               PROVE  total' = cache'[Key].total
    BY <2>1 DEF TotalOK, Cached
  <2>2. CASE Key = k
    BY <1>1, <1>2, <1>5, <2>2
  <2>3. CASE Key # k
    BY <1>1, <1>2, <2>3 DEF TInv, TotalOK, Cached
  <2> QED BY <2>2, <2>3
<1>11. WalkOK'
  BY <1>1, WalkSame
<1> QED BY <1>7, <1>8, <1>9, <1>10, <1>11 DEF TInv

LEMMA Fails ==
  ASSUME TInv, NEW k \in DOMAIN flight, Fail(k)
  PROVE  TInv'
<1>1. /\ UNCHANGED <<state, screen, late, kept, cache, total, walk>> /\ flight' = Landed(k)
      /\ used' = used \/ used' = [used EXCEPT !.lost = @ + 1]
  BY Zenon DEF Fail
<1>2. used' \in Uses /\ used'.writes = used.writes
  <2>1. used \in Uses
    BY DEF TInv, TypesOK
  <2> QED BY <1>1, <2>1, SMT DEF Uses
<1>3. CacheOK' /\ FlightOK'
  <2>1. \A j \in DOMAIN flight' : \/ j \in DOMAIN flight /\ flight'[j] = flight[j]
                                  \/ KeyOK(j) /\ flight'[j].at # "read"
    BY <1>1, Lands
  <2> QED BY <1>1, <1>2, <2>1, Sends
<1>4. TypesOK' /\ TotalOK'
  BY <1>1, <1>2 DEF TInv, TypesOK, TotalOK, Open, Cached, Key
<1>5. WalkOK'
  BY <1>1, WalkSame
<1> QED BY <1>3, <1>4, <1>5 DEF TInv

\* A change of the rows makes every answer old.
LEMMA Changes ==
  ASSUME TInv, Changed
  PROVE  TInv'
<1>1. /\ UNCHANGED <<screen, late, kept, cache, flight, failed, total>> /\ walk' = NotWalking
      /\ used' = [used EXCEPT !.writes = @ + 1]
  BY Zenon DEF Changed
<1>2. used' \in Uses /\ used'.writes = used.writes + 1 /\ used.writes \in Nat
  <2>1. used \in Uses
    BY DEF TInv, TypesOK
  <2> QED BY <1>1, <2>1, SMT DEF Uses
<1>3. ASSUME NEW k, NEW a, NEW S, NEW T, AnswerOK(k, a, used.writes, S)
      PROVE  AnswerOK(k, a, used'.writes, T)
  BY <1>2, <1>3, SMT DEF AnswerOK
<1>4. CacheOK' /\ FlightOK'
  BY <1>1, <1>3 DEF TInv, CacheOK, FlightOK
<1>5. TypesOK' /\ TotalOK'
  BY <1>1, <1>2, NotWalkingTyped DEF TInv, TypesOK, TotalOK, Open, Cached, Key
<1>6. WalkOK'
  BY <1>1, WalkOff
<1> QED BY <1>4, <1>5, <1>6 DEF TInv

-----------------------------------------------------------------------------
(***************************************************************************)
(* The page.                                                               *)
(***************************************************************************)
LEMMA ParamsTyped ==
  ASSUME NEW s \in Screens
  PROVE  Params(s) \in Lates
BY ScreenFields, SMT DEF Params, Lates

LEMMA Retyped ==
  ASSUME NEW l \in Lates, NEW k \in Lates, NEW x \in SUBSET Texts
  PROVE  [l EXCEPT !.typed = k.typed] \in Lates /\ [l EXCEPT !.typed = x] \in Lates
BY SMT DEF Lates

LEMMA FreshTyped ==
  ASSUME NEW list \in Lists \cup {"away"}
  PROVE  /\ Fresh(list) \in Screens /\ Fresh(list).list = list /\ Fresh(list).page = 1
<1>1. 1 \in Place1
  BY SMT DEF Place1
<1> QED BY <1>1, Assumed, SMT DEF Fresh, Screens, Orders

LEMMA Visits ==
  ASSUME TInv, NEW list \in Lists, Visit(list)
  PROVE  TInv'
<1>1. /\ Clicked /\ screen' = Fresh(list) /\ late' = Params(Fresh(list))
      /\ UNCHANGED <<kept, state, cache, failed>> /\ flight' = Asking(Key')
      /\ total' = IF Cached(Key') THEN cache[Key'].total ELSE 0
      /\ walk' = IF Place'.page = 1 THEN [on |-> TRUE, seen |-> {}] ELSE NotWalking
  BY Zenon DEF Visit
<1>2. used' \in Uses /\ used'.writes = used.writes
  BY <1>1, Clicks DEF TInv
<1>3. screen' \in Screens /\ screen'.list = list /\ late' \in Lates
  BY <1>1, FreshTyped, ParamsTyped
<1>4. TypesOK'
  <2>1. walk' \in Walks
    BY <1>1, NotWalkingTyped, WalksAnew
  <2> QED BY <1>1, <1>2, <1>3, <2>1 DEF TInv, TypesOK
<1>5. CacheOK' /\ FlightOK'
  <2> DEFINE k == Key'
  <2>1. KeyOK(k) /\ flight' = Asking(k)
    BY <1>1, <1>4, NextKeyTyped
  <2> HIDE DEF k
  <2> QED BY <1>1, <1>2, <2>1, SendsOne
<1>6. TotalOK'
  BY <1>1 DEF TotalOK, Cached
<1>7. Open'
  BY <1>3, SMT DEF Open, Lists
<1>8. WalkOK'
  BY <1>1, <1>4, <1>7, WalkBegins, WalkOff
<1> QED BY <1>4, <1>5, <1>6, <1>8 DEF TInv

\* The list of a screen stays, or the screen is left.
LEMMA KeptTyped ==
  ASSUME TypesOK, NEW page \in Place1, NEW size \in PageSizes, NEW l \in Keeping
  PROVE  /\ [kept EXCEPT ![l].page = page] \in Kepts
         /\ [kept EXCEPT ![l].page = page][l].page = page
         /\ [kept EXCEPT ![l].page = page][l].size = kept[l].size
         /\ [kept EXCEPT ![l].size = size] \in Kepts
         /\ [kept EXCEPT ![l].size = size][l].page = kept[l].page
<1>1. kept \in [Keeping -> [page : Place1, size : PageSizes]]
  BY DEF TypesOK, Kepts
<1> QED BY <1>1, SMT DEF Kepts

LEMMA RowClicks ==
  ASSUME TInv, RowClick
  PROVE  TInv'
<1>1. /\ Clicked /\ screen' = [screen EXCEPT !.list = "away"] /\ walk' = NotWalking
      /\ kept' = IF screen.list \in Keeping
                 THEN [kept EXCEPT ![screen.list].page = screen.page] ELSE kept
      /\ UNCHANGED <<state, late, cache, flight, failed, total>>
  BY Zenon DEF RowClick
<1>2. used' \in Uses /\ used'.writes = used.writes
  BY <1>1, Clicks DEF TInv
<1>3. screen \in Screens /\ kept \in Kepts /\ late \in Lates /\ TypesOK
  BY DEF TInv, TypesOK
<1>4. screen' \in Screens /\ screen'.list = "away"
  BY <1>1, <1>3, SMT DEF Screens
<1>5. kept' \in Kepts
  <2>1. screen.page \in Place1
    BY <1>3, ScreenFields
  <2>2. DefaultSize \in PageSizes
    BY Assumed
  <2> QED BY <1>1, <1>3, <2>1, <2>2, KeptTyped
<1>6. TypesOK'
  BY <1>1, <1>2, <1>3, <1>4, <1>5, NotWalkingTyped DEF TypesOK
<1>7. ~Open'
  BY <1>4 DEF Open
<1>8. CacheOK' /\ FlightOK'
  <2>1. \A j \in DOMAIN flight' : \/ j \in DOMAIN flight /\ flight'[j] = flight[j]
                                  \/ KeyOK(j) /\ flight'[j].at # "read"
    BY <1>1
  <2> QED BY <1>1, <1>2, <2>1, Sends
<1>9. TotalOK' /\ WalkOK'
  BY <1>1, <1>7, WalkOff DEF TotalOK
<1> QED BY <1>6, <1>8, <1>9 DEF TInv

LEMMA GoesTo ==
  ASSUME TInv, NEW page \in Place1, GoTo(page)
  PROVE  TInv'
<1>1. /\ Clicked /\ screen' = [screen EXCEPT !.page = page] /\ late' = late /\ Follow
      /\ kept' = IF screen.list \in Keeping
                 THEN [kept EXCEPT ![screen.list].page = page] ELSE kept
      /\ Walked(page) /\ screen.list \in Footed
  BY Zenon DEF GoTo
<1>2. used' \in Uses /\ used'.writes = used.writes
  BY <1>1, Clicks DEF TInv
<1>3. screen \in Screens /\ kept \in Kepts /\ late \in Lates /\ walk \in Walks /\ TypesOK
  BY DEF TInv, TypesOK
<1>4. /\ screen' \in Screens /\ screen'.page = page /\ screen'.list = screen.list
      /\ screen'.size = screen.size /\ screen'.sort = screen.sort
      /\ screen'.ticked = screen.ticked /\ screen'.typed = screen.typed
  BY <1>1, <1>3, SMT DEF Screens
<1>5. kept' \in Kepts
  BY <1>1, <1>3, Assumed, KeptTyped
<1>6. Place'.page = page /\ Place'.size = Place.size
  <2>1. CASE screen.list \in Keeping
    <3>1. kept'[screen.list].page = page /\ kept'[screen.list].size = kept[screen.list].size
      BY <1>1, <1>3, <2>1, Assumed, KeptTyped
    <3> QED BY <1>4, <2>1, <3>1, SMT DEF Place
  <2>2. CASE screen.list \notin Keeping
    BY <1>4, <2>2, SMT DEF Place
  <2> QED BY <2>1, <2>2
<1>7. Open' /\ Filter(screen') = Filter(screen)
  BY <1>1, <1>4, SMT DEF Open, Footed, Lists, Filter
<1>8. \/ walk' = NotWalking
      \/ page = 1 /\ walk' = [on |-> TRUE, seen |-> {}]
      \/ page = Place.page + 1 /\ Sound /\ walk.on /\ walk' = [walk EXCEPT !.seen = @ \cup RowSet]
  <2>1. CASE page = 1
    <3>1. ~(page = Place.page + 1)
      BY <1>3, <2>1, PlaceTyped, SMT DEF Place1
    <3> QED BY <1>1, <2>1, <3>1 DEF Walked
  <2>2. CASE page # 1
    BY <1>1, <2>2 DEF Walked
  <2> QED BY <2>1, <2>2
<1>9. ASSUME page = Place.page + 1, Sound, walk.on, walk' = [walk EXCEPT !.seen = @ \cup RowSet]
      PROVE  walk' \in Walks /\ WalkOK'
  <2> DEFINE M == Matching(TableOf(screen.list), Filter(screen))
             s == InOrder(M, screen.sort)
             p == Place.page
             z == Place.size
             T == RowSet
  <2>1. M \in SUBSET Items
    BY Matches
  <2>2. T \subseteq M
    BY <1>9, SoundShows
  <2>3. screen.list # "schemas" => T = Between(s, (p - 1) * z, p * z)
                                   /\ walk.seen = Upto(s, (p - 1) * z)
    BY <1>9, SoundShows DEF TInv, WalkOK
  <2>4. p \in Nat \ {0} /\ z \in Nat \ {0} /\ page = p + 1
    BY <1>3, <1>9, PlaceTyped DEF Place1
  <2>5. Cardinality(M) \in Nat /\ s \in [1 .. Cardinality(M) -> M]
    BY <2>1, Finite, InOrders
  <2>6. walk' = [walk EXCEPT !.seen = @ \cup T]
    BY <1>9
  <2> HIDE DEF M, s, p, z, T
  <2>7. walk' \in Walks /\ walk'.seen = walk.seen \cup T
    BY <1>3, <2>1, <2>2, <2>6, SMT DEF Walks
  <2> DEFINE a == (p - 1) * z
             b == p * z
  <2>8. a \in Nat /\ b \in Nat /\ a <= b /\ (page - 1) * z = b
    BY <2>4, SMT
  <2> HIDE DEF a, b
  <2>9. Upto(s, a) \cup Between(s, a, b) = Upto(s, b)
    <3>1. \A k \in DOMAIN s : k <= b <=> (k <= a \/ (a < k /\ k <= b))
      BY <2>5, <2>8, SMT
    <3> QED BY <3>1 DEF Upto, Between
  <2>10. screen.list # "schemas" => walk'.seen = Upto(s, (page - 1) * z)
    BY <2>3, <2>7, <2>8, <2>9 DEF a, b
  <2>11. Matching(TableOf(screen.list), Filter(screen))' = M
    <3>1. state' = state
      BY <1>1 DEF Follow
    <3> QED BY <1>4, <1>7, <3>1 DEF Matching, M
  <2>12. WalkOK'
    <3>1. InOrder(Matching(TableOf(screen.list), Filter(screen))', screen'.sort) = s
      BY <1>4, <2>11 DEF s
    <3>2. (Place'.page - 1) * Place'.size = (page - 1) * z
      BY <1>6 DEF z
    <3> QED BY <1>4, <1>7, <2>10, <3>1, <3>2 DEF WalkOK
  <2> QED BY <2>7, <2>12
<1>10. TypesOK'
  <2>1. walk' \in Walks
    BY <1>8, <1>9, NotWalkingTyped, WalksAnew
  <2> QED BY <1>1, <1>2, <1>3, <1>4, <1>5, <2>1 DEF TypesOK
<1>11. WalkOK'
  BY <1>6, <1>7, <1>8, <1>9, <1>10, WalkBegins, WalkOff
<1>12. CacheOK' /\ FlightOK' /\ TotalOK'
  BY <1>1, <1>2, <1>10, Follows
<1> QED BY <1>10, <1>11, <1>12 DEF TInv

LEMMA Resizes ==
  ASSUME TInv, NEW size \in PageSizes, Resize(size)
  PROVE  TInv'
<1>1. /\ Clicked /\ screen' = [screen EXCEPT !.size = size, !.page = 1] /\ late' = late /\ Follow
      /\ kept' = IF screen.list \in Keeping
                 THEN [kept EXCEPT ![screen.list].size = size] ELSE kept
      /\ walk' = IF Place'.page = 1 THEN [on |-> TRUE, seen |-> {}] ELSE NotWalking
      /\ screen.list \in Footed
  BY Zenon DEF Resize
<1>2. used' \in Uses /\ used'.writes = used.writes
  BY <1>1, Clicks DEF TInv
<1>3. screen \in Screens /\ kept \in Kepts /\ late \in Lates /\ TypesOK /\ 1 \in Place1
  BY SMT DEF TInv, TypesOK, Place1
<1>4. screen' \in Screens /\ screen'.list = screen.list
  <2> DEFINE v == screen
             s == [v EXCEPT !.size = size]
  <2>1. v \in Screens /\ screen' = [s EXCEPT !.page = 1] /\ 1 \in Place1
    BY <1>1, <1>3
  <2> HIDE DEF v
  <2>2. s \in Screens /\ s.list = v.list
    BY <2>1, SMT DEF Screens
  <2> HIDE DEF s
  <2>3. screen' \in Screens /\ screen'.list = s.list
    BY <2>1, <2>2, SMT DEF Screens
  <2> QED BY <2>2, <2>3 DEF v
<1>5. kept' \in Kepts
  BY <1>1, <1>3, KeptTyped
<1>6. TypesOK'
  <2>1. walk' \in Walks
    BY <1>1, NotWalkingTyped, WalksAnew
  <2> QED BY <1>1, <1>2, <1>3, <1>4, <1>5, <2>1 DEF TypesOK
<1>7. Open'
  BY <1>1, <1>4, SMT DEF Open, Footed, Lists
<1>8. WalkOK'
  BY <1>1, <1>6, <1>7, WalkBegins, WalkOff
<1>9. CacheOK' /\ FlightOK' /\ TotalOK'
  BY <1>1, <1>2, <1>6, Follows
<1> QED BY <1>6, <1>8, <1>9 DEF TInv

\* Another control than the footer's.
LEMMA Controls ==
  ASSUME TInv, NEW s \in Screens, s.list = screen.list, s.page = screen.page, Open, Control(s)
  PROVE  TInv'
<1>1. /\ Clicked /\ screen' = s /\ UNCHANGED <<late, kept>> /\ Follow
      /\ walk' = IF Place.page = 1 THEN [on |-> TRUE, seen |-> {}] ELSE NotWalking
  BY Zenon DEF Control
<1>2. used' \in Uses /\ used'.writes = used.writes
  BY <1>1, Clicks DEF TInv
<1>3. TypesOK'
  <2>1. walk' \in Walks
    BY <1>1, NotWalkingTyped, WalksAnew
  <2> QED BY <1>1, <1>2, <2>1 DEF TInv, TypesOK
<1>4. Place'.page = Place.page /\ Open'
  BY <1>1, SMT DEF Place, Open
<1>5. WalkOK'
  BY <1>1, <1>3, <1>4, WalkBegins, WalkOff
<1>6. CacheOK' /\ FlightOK' /\ TotalOK'
  BY <1>1, <1>2, <1>3, Follows
<1> QED BY <1>3, <1>5, <1>6 DEF TInv

LEMMA Controlled ==
  ASSUME TInv, \/ \E m \in Marks : Tick(m)
               \/ \E sort \in Orders : SortBy(sort)
               \/ \E x \in Texts : Type({x})
               \/ Type({}) \/ ClearAll
  PROVE  TInv'
<1> DEFINE v == screen
<1>1. v \in Screens /\ v.ticked \in SUBSET Marks
  BY ScreenFields DEF TInv, TypesOK
<1>2. ASSUME NEW T \in SUBSET Marks, v.list \in {"overall", "dashboard"},
             Control([v EXCEPT !.ticked = T])
      PROVE  TInv'
  <2> DEFINE s == [v EXCEPT !.ticked = T]
  <2>1. Open /\ Control(s)
    BY <1>2, SMT DEF Open
  <2> HIDE DEF v
  <2>2. s \in Screens /\ s.list = v.list /\ s.page = v.page
    BY <1>1, SMT DEF Screens
  <2> HIDE DEF s
  <2> QED BY <2>1, <2>2, Controls DEF v
<1>3. ASSUME NEW sort \in Orders, TableOf(v.list) = "vc", Control([v EXCEPT !.sort = sort])
      PROVE  TInv'
  <2> DEFINE s == [v EXCEPT !.sort = sort]
  <2>1. Open /\ Control(s)
    BY <1>3, SMT DEF Open, TableOf
  <2> HIDE DEF v
  <2>2. s \in Screens /\ s.list = v.list /\ s.page = v.page
    BY <1>1, SMT DEF Screens
  <2> HIDE DEF s
  <2> QED BY <2>1, <2>2, Controls DEF v
<1>4. ASSUME NEW T \in SUBSET Texts, Type(T) PROVE TInv'
  <2> DEFINE s == [v EXCEPT !.typed = T]
  <2>1. Open /\ Control(s)
    BY <1>4, SMT DEF Open, Type
  <2> HIDE DEF v
  <2>2. s \in Screens /\ s.list = v.list /\ s.page = v.page
    BY <1>1, SMT DEF Screens
  <2> HIDE DEF s
  <2> QED BY <2>1, <2>2, Controls DEF v
<1>5. ASSUME NEW m \in Marks, Tick(m) PROVE TInv'
  <2> DEFINE T == IF m \in v.ticked THEN v.ticked \ {m} ELSE v.ticked \cup {m}
  <2>1. T \in SUBSET Marks
    BY <1>1
  <2>2. v.list \in {"overall", "dashboard"} /\ Control([v EXCEPT !.ticked = T])
    BY <1>5, Zenon DEF Tick
  <2> HIDE DEF T
  <2> QED BY <1>2, <2>1, <2>2
<1>6. CASE ClearAll
  <2> DEFINE T == {}
  <2>1. v.list \in {"overall", "dashboard"} /\ Control([v EXCEPT !.ticked = T])
    BY <1>6, Zenon DEF ClearAll
  <2>2. T \in SUBSET Marks
    OBVIOUS
  <2> HIDE DEF T
  <2> QED BY <1>2, <2>1, <2>2
<1>7. CASE \E sort \in Orders : SortBy(sort)
  BY <1>3, <1>7, Zenon DEF SortBy
<1>8. CASE (\E x \in Texts : Type({x})) \/ Type({})
  <2>1. \A x \in Texts : {x} \in SUBSET Texts
    OBVIOUS
  <2>2. {} \in SUBSET Texts
    OBVIOUS
  <2> QED BY <1>4, <1>8, <2>1, <2>2
<1> QED BY <1>5, <1>6, <1>7, <1>8

LEMMA Debounces ==
  ASSUME TInv, Debounced
  PROVE  TInv'
<1>1. /\ UNCHANGED <<screen, kept, walk, used>> /\ Follow /\ state' = state
      /\ \/ late' = [Params(screen) EXCEPT !.typed = late.typed]
         \/ late' = [late EXCEPT !.typed = screen.typed]
  BY Zenon DEF Debounced, Follow
<1>2. TypesOK'
  <2>1. screen \in Screens /\ late \in Lates
    BY DEF TInv, TypesOK
  <2>2. Params(screen) \in Lates /\ screen.typed \in SUBSET Texts
    BY <2>1, ParamsTyped, ScreenFields
  <2>3. late' \in Lates
    BY <1>1, <2>1, <2>2, Retyped
  <2> QED BY <1>1, <2>3 DEF TInv, TypesOK
<1>3. CacheOK' /\ FlightOK' /\ TotalOK'
  BY <1>1, <1>2, Follows
<1>4. WalkOK'
  BY <1>1, WalkSame
<1> QED BY <1>2, <1>3, <1>4 DEF TInv

LEMMA Updates ==
  ASSUME TInv, Update
  PROVE  TInv'
<1>1. /\ Clicked /\ walk' = NotWalking
      /\ flight' = Asking(Key) \/ flight' = Entered(flight, Key, Sent)
      /\ UNCHANGED <<state, screen, late, kept, cache, failed, total>>
  BY Zenon DEF Update
<1>2. used' \in Uses /\ used'.writes = used.writes
  BY <1>1, Clicks DEF TInv
<1>3. CacheOK' /\ FlightOK'
  <2> DEFINE k == Key
  <2>1. KeyOK(k) /\ (flight' = Asking(k) \/ flight' = Entered(flight, k, Sent))
    BY <1>1, KeyTyped DEF TInv
  <2> HIDE DEF k
  <2> QED BY <1>1, <1>2, <2>1, SendsOne
<1>4. TypesOK' /\ TotalOK'
  BY <1>1, <1>2, NotWalkingTyped DEF TInv, TypesOK, TotalOK, Open, Cached, Key
<1>5. WalkOK'
  BY <1>1, WalkOff
<1> QED BY <1>3, <1>4, <1>5 DEF TInv

-----------------------------------------------------------------------------
LEMMA Starts ==
  ASSUME TablesInit
  PROVE  TInv
<1>1. /\ screen = Fresh("away") /\ late = Params(screen)
      /\ kept = [list \in Keeping |-> [page |-> 1, size |-> DefaultSize]]
      /\ cache = <<>> /\ flight = <<>> /\ walk = NotWalking
      /\ used = [moves |-> 0, writes |-> 0, lost |-> 0]
  BY Zenon DEF TablesInit
<1>2. screen \in Screens /\ screen.list = "away" /\ late \in Lates
  BY <1>1, FreshTyped, ParamsTyped
<1>3. kept \in Kepts /\ used \in Uses /\ walk \in Walks /\ ~walk.on
  BY <1>1, Assumed, NotWalkingTyped, SMT DEF Kepts, Uses, Place1
<1>4. DOMAIN cache = {} /\ DOMAIN flight = {}
  BY <1>1, SMT
<1>5. CacheOK /\ FlightOK
  BY <1>4 DEF CacheOK, FlightOK
<1>6. TotalOK /\ WalkOK
  BY <1>2, <1>3 DEF TotalOK, WalkOK, Open
<1> QED BY <1>2, <1>3, <1>5, <1>6 DEF TInv, TypesOK

LEMMA Steps ==
  ASSUME TInv, [TablesNext]_tablesVars
  PROVE  TInv'
<1>1. CASE OnPage
  <2>1. \A page \in 1 .. Cardinality(Items) : page \in Place1
    <3>1. Items \in SUBSET Items
      OBVIOUS
    <3>2. Cardinality(Items) \in Nat
      BY <3>1, Finite
    <3> QED BY <3>2, SMT DEF Place1
  <2>2. CASE \/ \E m \in Marks : Tick(m)
             \/ \E sort \in Orders : SortBy(sort)
             \/ \E x \in Texts : Type({x})
             \/ Type({}) \/ ClearAll
    BY <2>2, Controlled
  <2>3. CASE \E list \in Lists : Visit(list)
    BY <2>3, Visits
  <2>4. CASE \E page \in 1 .. Cardinality(Items) : GoTo(page)
    BY <2>1, <2>4, GoesTo
  <2>5. CASE \E size \in PageSizes : Resize(size)
    BY <2>5, Resizes
  <2>6. CASE RowClick \/ Update \/ Debounced
    BY <2>6, RowClicks, Updates, Debounces
  <2> QED BY <1>1, <2>2, <2>3, <2>4, <2>5, <2>6, Zenon DEF OnPage
<1>2. CASE \E k \in DOMAIN flight : Read(k) \/ AnswerIn(k) \/ Fail(k)
  BY <1>2, Reads, AnswersIn, Fails
<1>3. CASE \E i \in Items : ComesIn(i) \/ \E m \in Marks : Decided(i, m)
  <2>1. Changed
    BY <1>3, Zenon DEF ComesIn, Decided
  <2> QED BY <2>1, Changes
<1>4. CASE UNCHANGED tablesVars
  <2>1. UNCHANGED <<state, screen, late, kept, cache, flight, failed, total, walk, used>>
    BY <1>4 DEF tablesVars
  <2>2. CacheOK' /\ FlightOK'
    <3>1. \A j \in DOMAIN flight' : \/ j \in DOMAIN flight /\ flight'[j] = flight[j]
                                    \/ KeyOK(j) /\ flight'[j].at # "read"
      BY <2>1
    <3> QED BY <2>1, <3>1, Sends
  <2>3. TypesOK' /\ TotalOK'
    BY <2>1 DEF TInv, TypesOK, TotalOK, Open, Cached, Key
  <2>4. WalkOK'
    BY <2>1, WalkSame
  <2> QED BY <2>2, <2>3, <2>4 DEF TInv
<1> QED BY <1>1, <1>2, <1>3, <1>4, Zenon DEF TablesNext

\* A list of the console at rest shows the rows of the page, size, order and
\* filter on screen, and its footer counts what matches them, whatever answers
\* to earlier queries came in before or after.
THEOREM ListsShowAsked == TablesSpec => []RestShowsAsked
BY Starts, Steps, RestShows, PTL DEF TablesSpec

\* Going through a list page by page shows every matching row once.
THEOREM WalksSeeAll == TablesSpec => []WalkSeesAll
BY Starts, Steps, WalkSees, PTL DEF TablesSpec

-----------------------------------------------------------------------------
(***************************************************************************)
(* Sequences of columns: where a column is, filtered, and with one moved.  *)
(***************************************************************************)
Once(s) == \A i, j \in DOMAIN s : s[i] = s[j] => i = j

LEMMA PlaceIs ==
  ASSUME NEW s, Once(s), NEW i \in DOMAIN s
  PROVE  PlaceOf(s, s[i]) = i /\ Holds(s, s[i])
BY DEF Once, PlaceOf, Holds

LEMMA PlaceHeld ==
  ASSUME NEW s, NEW c, Holds(s, c)
  PROVE  PlaceOf(s, c) \in DOMAIN s /\ s[PlaceOf(s, c)] = c
BY DEF PlaceOf, Holds

LEMMA Concats ==
  ASSUME NEW T, NEW s \in Seq(T), NEW t \in Seq(T)
  PROVE  /\ s \o t \in Seq(T) /\ Len(s \o t) = Len(s) + Len(t)
         /\ \A k \in 1 .. Len(s) + Len(t) :
              (s \o t)[k] = IF k <= Len(s) THEN s[k] ELSE t[k - Len(s)]
BY SMT

LEMMA Withouts ==
  ASSUME NEW T, NEW s \in Seq(T), NEW i \in 1 .. Len(s)
  PROVE  /\ Without(s, i) \in Seq(T) /\ Len(Without(s, i)) = Len(s) - 1
         /\ \A k \in 1 .. Len(s) - 1 : Without(s, i)[k] = IF k < i THEN s[k] ELSE s[k + 1]
<1> DEFINE a == SubSeq(s, 1, i - 1)
           b == SubSeq(s, i + 1, Len(s))
<1>1. a \in Seq(T) /\ Len(a) = i - 1 /\ \A k \in 1 .. i - 1 : a[k] = s[k]
  BY SMT
<1>2. b \in Seq(T) /\ Len(b) = Len(s) - i /\ \A k \in 1 .. Len(s) - i : b[k] = s[i + k]
  BY SMT
<1> DEFINE w == a \o b
<1>3. Without(s, i) = w
  BY DEF Without
<1> HIDE DEF a, b
<1>4. /\ w \in Seq(T) /\ Len(w) = Len(a) + Len(b)
      /\ \A k \in 1 .. Len(a) + Len(b) : w[k] = IF k <= Len(a) THEN a[k] ELSE b[k - Len(a)]
  BY <1>1, <1>2, Concats
<1> HIDE DEF w
<1>5. ASSUME NEW k \in 1 .. Len(s) - 1
      PROVE  w[k] = IF k < i THEN s[k] ELSE s[k + 1]
  <2>1. w[k] = IF k <= Len(a) THEN a[k] ELSE b[k - Len(a)]
    BY <1>1, <1>2, <1>4, SMT
  <2>2. CASE k < i
    BY <1>1, <2>1, <2>2, SMT
  <2>3. CASE ~(k < i)
    <3>1. k - Len(a) \in 1 .. Len(s) - i /\ i + (k - Len(a)) = k + 1 /\ ~(k <= Len(a))
      BY <1>1, <2>3, SMT
    <3>2. b[k - Len(a)] = s[i + (k - Len(a))]
      BY <1>2, <3>1
    <3> QED BY <2>1, <2>3, <3>1, <3>2
  <2> QED BY <2>2, <2>3
<1>6. Len(w) = Len(s) - 1
  BY <1>1, <1>2, <1>4, SMT
<1> QED BY <1>3, <1>4, <1>5, <1>6

Inserted(s, c, at) == SubSeq(s, 1, at - 1) \o <<c>> \o SubSeq(s, at, Len(s))

LEMMA Inserts ==
  ASSUME NEW T, NEW s \in Seq(T), NEW c \in T, NEW at \in 1 .. Len(s) + 1
  PROVE  /\ Inserted(s, c, at) \in Seq(T) /\ Len(Inserted(s, c, at)) = Len(s) + 1
         /\ \A k \in 1 .. Len(s) + 1 :
              Inserted(s, c, at)[k] = IF k < at THEN s[k] ELSE IF k = at THEN c ELSE s[k - 1]
<1> DEFINE a == SubSeq(s, 1, at - 1)
           b == SubSeq(s, at, Len(s))
           d == <<c>>
           e == a \o d
           t == e \o b
<1>1. a \in Seq(T) /\ Len(a) = at - 1 /\ \A k \in 1 .. at - 1 : a[k] = s[k]
  BY SMT
<1>2. /\ b \in Seq(T) /\ Len(b) = Len(s) - at + 1
      /\ \A k \in 1 .. Len(s) - at + 1 : b[k] = s[at + k - 1]
  BY SMT
<1>3. d \in Seq(T) /\ Len(d) = 1 /\ d[1] = c
  BY SMT
<1>4. Inserted(s, c, at) = t
  BY DEF Inserted
<1> HIDE DEF a, b, d
<1>5. /\ e \in Seq(T) /\ Len(e) = Len(a) + Len(d)
      /\ \A k \in 1 .. Len(a) + Len(d) : e[k] = IF k <= Len(a) THEN a[k] ELSE d[k - Len(a)]
  BY <1>1, <1>3, Concats
<1> HIDE DEF e
<1>6. Len(e) = at /\ \A k \in 1 .. at : e[k] = IF k < at THEN s[k] ELSE c
  <2>1. Len(e) = at
    BY <1>1, <1>3, <1>5, SMT
  <2>2. ASSUME NEW k \in 1 .. at PROVE e[k] = IF k < at THEN s[k] ELSE c
    <3>1. e[k] = IF k <= Len(a) THEN a[k] ELSE d[k - Len(a)]
      BY <1>1, <1>3, <1>5, SMT
    <3>2. k < at => k \in 1 .. at - 1 /\ k <= Len(a)
      BY <1>1, SMT
    <3>3. ~(k < at) => k - Len(a) = 1 /\ ~(k <= Len(a))
      BY <1>1, SMT
    <3> QED BY <1>1, <1>3, <3>1, <3>2, <3>3
  <2> QED BY <2>1, <2>2
<1>7. /\ t \in Seq(T) /\ Len(t) = Len(e) + Len(b)
      /\ \A k \in 1 .. Len(e) + Len(b) : t[k] = IF k <= Len(e) THEN e[k] ELSE b[k - Len(e)]
  <2>1. e \in Seq(T) /\ b \in Seq(T)
    BY <1>2, <1>5
  <2> QED BY ONLY <2>1, Concats, Zenon
<1> HIDE DEF t
<1>8. Len(t) = Len(s) + 1
  BY <1>2, <1>6, <1>7, SMT
<1>9. ASSUME NEW k \in 1 .. Len(s) + 1
      PROVE  t[k] = IF k < at THEN s[k] ELSE IF k = at THEN c ELSE s[k - 1]
  <2>1. t[k] = IF k <= Len(e) THEN e[k] ELSE b[k - Len(e)]
    BY <1>2, <1>6, <1>7, SMT
  <2>2. k <= at => k \in 1 .. at /\ k <= Len(e)
    BY <1>6, SMT
  <2>3. CASE k <= at
    <3>1. t[k] = IF k < at THEN s[k] ELSE c
      BY <1>6, <2>1, <2>2, <2>3
    <3> QED BY <2>3, <3>1, SMT
  <2>4. CASE ~(k <= at)
    <3>1. /\ k - Len(e) \in 1 .. Len(s) - at + 1 /\ at + (k - Len(e)) - 1 = k - 1
          /\ ~(k <= Len(e)) /\ ~(k < at) /\ k # at
      BY <1>6, <2>4, SMT
    <3>2. b[k - Len(e)] = s[at + (k - Len(e)) - 1]
      BY <1>2, <3>1
    <3> QED BY <2>1, <3>1, <3>2
  <2> QED BY <2>3, <2>4
<1> QED BY <1>4, <1>7, <1>8, <1>9

\* Where the column at k is after the one at i went to a, and which one is at m.
To(i, a, k)   == IF k = i THEN a
                 ELSE IF i < k /\ k <= a THEN k - 1
                 ELSE IF a <= k /\ k < i THEN k + 1 ELSE k
From(i, a, m) == IF m = a THEN i
                 ELSE IF i <= m /\ m < a THEN m + 1
                 ELSE IF a < m /\ m <= i THEN m - 1 ELSE m
MovedTo(s, i, a) == [m \in 1 .. Len(s) |-> s[From(i, a, m)]]

LEMMA ToFrom ==
  ASSUME NEW n \in Nat, NEW i \in 1 .. n, NEW a \in 1 .. n, NEW k \in 1 .. n
  PROVE  /\ To(i, a, k) \in 1 .. n /\ From(i, a, To(i, a, k)) = k
         /\ From(i, a, k) \in 1 .. n /\ To(i, a, From(i, a, k)) = k
BY SMT DEF To, From

LEMMA Reinserts ==
  ASSUME NEW T, NEW s \in Seq(T), NEW i \in 1 .. Len(s), NEW j \in Nat
  PROVE  \E a \in 1 .. Len(s) : /\ Reinserted(s, i, j) = MovedTo(s, i, a)
                                /\ j \in 1 .. Len(s) => a = j
<1> DEFINE rest == Without(s, i)
           n == Len(rest)
           at == CASE j \in 1 .. n -> j
                   [] j > n        -> n + 1
                   [] OTHER        -> IF n = 0 THEN 1 ELSE n
           t == Inserted(rest, s[i], at)
<1>1. /\ rest \in Seq(T) /\ n = Len(s) - 1 /\ Len(s) \in Nat
      /\ \A k \in 1 .. Len(s) - 1 : rest[k] = IF k < i THEN s[k] ELSE s[k + 1]
  <2>1. Len(s) \in Nat
    OBVIOUS
  <2>2. /\ Without(s, i) \in Seq(T) /\ Len(Without(s, i)) = Len(s) - 1
        /\ \A k \in 1 .. Len(s) - 1 : Without(s, i)[k] = IF k < i THEN s[k] ELSE s[k + 1]
    BY Withouts, Zenon
  <2> QED BY <2>1, <2>2
<1>2. Reinserted(s, i, j) = t
  BY DEF Reinserted, Inserted
<1> HIDE DEF rest
<1>3. n \in Nat
  BY <1>1
<1>4. at \in 1 .. Len(s) /\ (j \in 1 .. Len(s) => at = j)
  <2>1. CASE j \in 1 .. n
    BY <1>1, <2>1, SMT
  <2>2. CASE j > n
    <3>1. at = n + 1
      BY <2>2, <1>3, SMT
    <3> HIDE DEF at
    <3> QED BY <1>1, <2>2, <3>1, SMT
  <2>3. CASE j = 0
    <3>1. at = IF n = 0 THEN 1 ELSE n
      BY <2>3, <1>3, SMT
    <3> HIDE DEF at
    <3> QED BY <1>1, <2>3, <3>1, SMT
  <2> QED BY <1>3, <2>1, <2>2, <2>3, SMT
<1> HIDE DEF at
<1>5. s[i] \in T /\ at \in 1 .. n + 1
  BY <1>1, <1>4, SMT
<1>6. /\ t \in Seq(T) /\ Len(t) = n + 1
      /\ \A k \in 1 .. n + 1 :
           t[k] = IF k < at THEN rest[k] ELSE IF k = at THEN s[i] ELSE rest[k - 1]
  <2> DEFINE c == s[i]
  <2>1. rest \in Seq(T) /\ c \in T /\ at \in 1 .. n + 1
    BY <1>1, <1>5
  <2> HIDE DEF c
  <2>2. /\ Inserted(rest, c, at) \in Seq(T) /\ Len(Inserted(rest, c, at)) = n + 1
        /\ \A k \in 1 .. n + 1 :
             Inserted(rest, c, at)[k] = IF k < at THEN rest[k] ELSE IF k = at THEN c ELSE rest[k - 1]
    <3>1. at \in 1 .. Len(rest) + 1
      BY <2>1
    <3> HIDE DEF n
    <3>2. /\ Inserted(rest, c, at) \in Seq(T) /\ Len(Inserted(rest, c, at)) = Len(rest) + 1
          /\ \A k \in 1 .. Len(rest) + 1 :
               Inserted(rest, c, at)[k] = IF k < at THEN rest[k] ELSE IF k = at THEN c ELSE rest[k - 1]
      BY ONLY <2>1, <3>1, Inserts, SMTT(30)
    <3> QED BY <3>2 DEF n
  <2> QED BY <2>2 DEF c
<1> HIDE DEF t
<1>7. ASSUME NEW k \in 1 .. Len(s) PROVE t[k] = s[From(i, at, k)]
  <2>1. t[k] = IF k < at THEN rest[k] ELSE IF k = at THEN s[i] ELSE rest[k - 1]
    BY <1>1, <1>6, SMT
  <2>2. CASE k < at
    <3>1. k \in 1 .. Len(s) - 1
      BY <1>1, <1>4, <2>2, SMT
    <3> QED BY <1>1, <1>4, <2>1, <2>2, <3>1, SMT DEF From
  <2>3. CASE k = at
    BY <1>4, <2>1, <2>3, SMT DEF From
  <2>4. CASE k > at
    <3>1. k - 1 \in 1 .. Len(s) - 1
      BY <1>1, <1>4, <2>4, SMT
    <3> QED BY <1>1, <1>4, <2>1, <2>4, <3>1, SMT DEF From
  <2> QED BY <1>4, <2>2, <2>3, <2>4, SMT
<1>8. t = MovedTo(s, i, at)
  <2>1. t = [k \in 1 .. Len(s) |-> t[k]]
    BY <1>1, <1>6, SMT
  <2> QED BY <1>7, <2>1, Zenon DEF MovedTo
<1> QED BY <1>2, <1>4, <1>8

LEMMA MovedKeeps ==
  ASSUME NEW T, NEW s \in Seq(T), Once(s), NEW i \in 1 .. Len(s), NEW a \in 1 .. Len(s)
  PROVE  LET t == MovedTo(s, i, a)
         IN  /\ t \in Seq(T) /\ Len(t) = Len(s) /\ Once(t)
             /\ \A c : Holds(t, c) <=> Holds(s, c)
             /\ \A k \in 1 .. Len(s) : PlaceOf(t, s[k]) = To(i, a, k)
<1> DEFINE t == MovedTo(s, i, a)
<1>1. Len(s) \in Nat /\ DOMAIN s = 1 .. Len(s) /\ \A k \in 1 .. Len(s) : s[k] \in T
  OBVIOUS
<1>2. \A k \in 1 .. Len(s) :
        /\ To(i, a, k) \in 1 .. Len(s) /\ From(i, a, To(i, a, k)) = k
        /\ From(i, a, k) \in 1 .. Len(s) /\ To(i, a, From(i, a, k)) = k
  BY <1>1, ToFrom
<1>3. \A m \in 1 .. Len(s) : t[m] = s[From(i, a, m)]
  BY DEF MovedTo
<1>4. DOMAIN t = 1 .. Len(s) /\ t = [m \in 1 .. Len(s) |-> t[m]]
  BY DEF MovedTo
<1> HIDE DEF t
<1>5. t \in Seq(T) /\ Len(t) = Len(s)
  <2>1. t \in [1 .. Len(s) -> T]
    BY <1>1, <1>2, <1>3, <1>4
  <2> QED BY <1>1, <2>1, SMT
<1>6. Once(t)
  <2> SUFFICES ASSUME NEW k \in 1 .. Len(s), NEW m \in 1 .. Len(s), t[k] = t[m]
               PROVE  k = m
    BY <1>4 DEF Once
  <2>1. From(i, a, k) = From(i, a, m)
    BY <1>1, <1>2, <1>3 DEF Once
  <2> QED BY <1>2, <2>1
<1>7. ASSUME NEW k \in 1 .. Len(s) PROVE t[To(i, a, k)] = s[k]
  BY <1>2, <1>3
<1>8. \A c : Holds(t, c) <=> Holds(s, c)
  BY <1>1, <1>2, <1>3, <1>4, <1>7 DEF Holds
<1>9. ASSUME NEW k \in 1 .. Len(s) PROVE PlaceOf(t, s[k]) = To(i, a, k)
  <2>1. PlaceOf(t, t[To(i, a, k)]) = To(i, a, k)
    BY <1>2, <1>4, <1>6, PlaceIs
  <2> QED BY <1>7, <2>1
<1> QED BY <1>5, <1>6, <1>8, <1>9 DEF t

-----------------------------------------------------------------------------
(***************************************************************************)
(* Filtered sequences: how many of the columns kept come before a column   *)
(* is its place.                                                           *)
(***************************************************************************)
Below(F, f, x) == {y \in F : f[y] < f[x]}

LEMMA RanksBelow ==
  ASSUME NEW F, IsFiniteSet(F), NEW f \in [F -> Nat], \A x, y \in F : f[x] = f[y] => x = y
  PROVE  LET R == [x \in F |-> Cardinality(Below(F, f, x))]
         IN  /\ R \in [F -> 0 .. Cardinality(F) - 1]
             /\ \A x, y \in F : f[x] < f[y] => R[x] < R[y]
             /\ \A n \in 0 .. Cardinality(F) - 1 : \E x \in F : R[x] = n
<1> DEFINE R == [x \in F |-> Cardinality(Below(F, f, x))]
           N == Cardinality(F)
<1>1. N \in Nat /\ \A x \in F : f[x] \in Nat
  BY FS_CardinalityType
<1>2. ASSUME NEW x \in F PROVE R[x] \in 0 .. N - 1
  <2> DEFINE A == Below(F, f, x)
  <2>1. A \in SUBSET F /\ x \notin A
    BY <1>1, SMT DEF Below
  <2>2. R[x] = Cardinality(A)
    OBVIOUS
  <2> HIDE DEF A, R
  <2>3. IsFiniteSet(A) /\ Cardinality(A) <= N /\ (N = Cardinality(A) => F = A)
    BY <2>1, FS_Subset
  <2>4. Cardinality(A) \in Nat
    BY <2>3, FS_CardinalityType
  <2>5. F # A
    BY <2>1
  <2> HIDE DEF N
  <2> QED BY <1>1, <2>2, <2>3, <2>4, <2>5, SMT
<1>3. ASSUME NEW x \in F, NEW y \in F, f[x] < f[y] PROVE R[x] < R[y]
  <2> DEFINE A == Below(F, f, x)
             B == Below(F, f, y)
  <2>1. A \in SUBSET B /\ x \in B /\ x \notin A /\ B \in SUBSET F
    BY <1>1, <1>3, SMT DEF Below
  <2>2. R[x] = Cardinality(A) /\ R[y] = Cardinality(B)
    OBVIOUS
  <2> HIDE DEF A, B, R
  <2>3. IsFiniteSet(B)
    BY <2>1, FS_Subset
  <2>4. /\ IsFiniteSet(A) /\ Cardinality(A) <= Cardinality(B)
        /\ Cardinality(B) = Cardinality(A) => B = A
    BY <2>1, <2>3, FS_Subset
  <2>5. Cardinality(A) \in Nat /\ Cardinality(B) \in Nat
    BY <2>3, <2>4, FS_CardinalityType
  <2>6. A # B
    BY <2>1
  <2> QED BY <2>2, <2>4, <2>5, <2>6, SMT
<1>4. \A x, y \in F : R[x] = R[y] => x = y
  <2> SUFFICES ASSUME NEW x \in F, NEW y \in F, R[x] = R[y], x # y
               PROVE  FALSE
    OBVIOUS
  <2> HIDE DEF R, N
  <2>1. f[x] \in Nat /\ f[y] \in Nat /\ f[x] # f[y] /\ R[x] \in 0 .. N - 1
    BY <1>1, <1>2
  <2>2. CASE f[x] < f[y]
    BY <1>3, <2>1, <2>2, SMT
  <2>3. CASE f[y] < f[x]
    BY <1>3, <2>1, <2>3, SMT
  <2> QED BY <2>1, <2>2, <2>3, SMT
<1>5. R \in Injection(F, 0 .. N - 1) /\ R \in [F -> 0 .. N - 1]
  <2>1. R = [x \in F |-> R[x]]
    OBVIOUS
  <2> HIDE DEF R, N
  <2>2. R \in [F -> 0 .. N - 1]
    BY <1>2, <2>1
  <2> QED BY <1>4, <2>2 DEF Injection, IsInjective
<1>6. IsFiniteSet(0 .. N - 1) /\ Cardinality(0 .. N - 1) = N
  <2>1. 0 \in Int /\ N - 1 \in Int
    BY <1>1, SMT
  <2>2. IsFiniteSet(0 .. N - 1)
        /\ Cardinality(0 .. N - 1) = IF 0 > N - 1 THEN 0 ELSE N - 1 - 0 + 1
    BY <2>1, FS_Interval
  <2> HIDE DEF N
  <2> QED BY <1>1, <2>2, SMT
<1> HIDE DEF R
<1>7. R \in Surjection(F, 0 .. N - 1)
  BY <1>5, <1>6, FS_Injection
<1>8. \A n \in 0 .. N - 1 : \E x \in F : R[x] = n
  BY <1>7 DEF Surjection
<1> QED BY <1>3, <1>5, <1>8 DEF R

Held(s, S)       == {c \in S : Holds(s, c)}
Earlier(s, S, c) == {d \in Held(s, S) : PlaceOf(s, d) < PlaceOf(s, c)}

LEMMA HeldRanks ==
  ASSUME NEW S, IsFiniteSet(S), NEW s \in Seq(S), Once(s), NEW Q \in SUBSET S
  PROVE  LET R == [c \in Held(s, Q) |-> Cardinality(Earlier(s, Q, c))]
             N == Cardinality(Held(s, Q))
         IN  /\ N \in Nat /\ R \in [Held(s, Q) -> 0 .. N - 1]
             /\ \A c, d \in Held(s, Q) : PlaceOf(s, c) < PlaceOf(s, d) => R[c] < R[d]
             /\ \A c, d \in Held(s, Q) : R[c] = R[d] => c = d
             /\ \A n \in 0 .. N - 1 : \E c \in Held(s, Q) : R[c] = n
<1> DEFINE F == Held(s, Q)
           f == [c \in F |-> PlaceOf(s, c)]
           N == Cardinality(F)
           R == [c \in F |-> Cardinality(Below(F, f, c))]
<1>1. F \in SUBSET S
  BY DEF Held
<1>2. IsFiniteSet(F) /\ N \in Nat
  BY <1>1, FS_Subset, FS_CardinalityType
<1>3. ASSUME NEW c \in F PROVE PlaceOf(s, c) \in DOMAIN s /\ s[PlaceOf(s, c)] = c
  BY PlaceHeld DEF Held
<1>4. DOMAIN s \subseteq Nat
  BY SMT
<1>5. f \in [F -> Nat] /\ \A c \in F : f[c] = PlaceOf(s, c)
  BY <1>3, <1>4
<1>6. \A c, d \in F : f[c] = f[d] => c = d
  BY <1>3, <1>5
<1>7. \A c \in F : Below(F, f, c) = Earlier(s, Q, c)
  BY <1>5 DEF Below, Earlier
<1> HIDE DEF F, f, N
<1>8. /\ R \in [F -> 0 .. Cardinality(F) - 1]
      /\ \A c, d \in F : f[c] < f[d] => R[c] < R[d]
      /\ \A n \in 0 .. Cardinality(F) - 1 : \E c \in F : R[c] = n
  BY <1>2, <1>5, <1>6, RanksBelow
<1>9. \A c, d \in F : R[c] = R[d] => c = d
  <2> SUFFICES ASSUME NEW c \in F, NEW d \in F, R[c] = R[d], c # d
               PROVE  FALSE
    OBVIOUS
  <2> HIDE DEF R
  <2>1. /\ f[c] \in Nat /\ f[d] \in Nat /\ f[c] # f[d]
        /\ f[c] < f[d] => R[c] < R[d]
        /\ f[d] < f[c] => R[d] < R[c]
    BY <1>5, <1>6, <1>8
  <2>2. R[c] \in Int
    <3>1. R[c] \in 0 .. Cardinality(F) - 1
      BY <1>8
    <3> QED BY <3>1, SMT
  <2> QED BY <2>1, <2>2, SMT
<1>10. R = [c \in F |-> Cardinality(Earlier(s, Q, c))]
  BY <1>7
<1> HIDE DEF R
<1>11. \A c, d \in F : PlaceOf(s, c) < PlaceOf(s, d) => R[c] < R[d]
  BY <1>5, <1>8
<1> QED BY <1>2, <1>8, <1>9, <1>10, <1>11 DEF F, N

LEMMA ThoseAre ==
  ASSUME NEW S, IsFiniteSet(S), NEW s \in Seq(S), Once(s), NEW Q \in SUBSET S
  PROVE  LET t == Those(s, Q)
         IN  /\ t \in Seq(S) /\ Once(t) /\ Len(t) = Cardinality(Held(s, Q))
             /\ \A c : Holds(t, c) <=> c \in Held(s, Q)
             /\ \A c \in Held(s, Q) : PlaceOf(t, c) = Cardinality(Earlier(s, Q, c)) + 1
             /\ \A c, d \in Held(s, Q) :
                  PlaceOf(s, c) < PlaceOf(s, d) => PlaceOf(t, c) < PlaceOf(t, d)
<1> DEFINE F == Held(s, Q)
           N == Cardinality(F)
           R == [c \in F |-> Cardinality(Earlier(s, Q, c))]
           g(n) == CHOOSE c \in F : Cardinality(Earlier(s, Q, c)) = n - 1
           t == Those(s, Q)
<1>1. /\ N \in Nat /\ R \in [F -> 0 .. N - 1]
      /\ \A c, d \in F : PlaceOf(s, c) < PlaceOf(s, d) => R[c] < R[d]
      /\ \A c, d \in F : R[c] = R[d] => c = d
      /\ \A n \in 0 .. N - 1 : \E c \in F : R[c] = n
  BY HeldRanks
<1>2. \A c \in F : R[c] = Cardinality(Earlier(s, Q, c))
  OBVIOUS
<1>3. t = [n \in 1 .. N |-> g(n)]
  BY DEF Those, Held, Earlier
<1>4. F \in SUBSET S
  BY DEF Held
<1> HIDE DEF F, R, N
<1>5. ASSUME NEW n \in 1 .. N PROVE g(n) \in F /\ R[g(n)] = n - 1
  <2>1. n - 1 \in 0 .. N - 1
    BY <1>1, SMT
  <2>2. \E c \in F : Cardinality(Earlier(s, Q, c)) = n - 1
    BY <1>1, <1>2, <2>1
  <2>3. g(n) \in F /\ Cardinality(Earlier(s, Q, g(n))) = n - 1
    BY <2>2
  <2> QED BY <1>2, <2>3
<1> HIDE DEF g, t
<1>6. t \in [1 .. N -> F] /\ DOMAIN t = 1 .. N /\ \A n \in 1 .. N : t[n] \in F /\ R[t[n]] = n - 1
  BY <1>3, <1>5
<1>7. t \in Seq(S) /\ Len(t) = N
  <2>1. t \in [1 .. N -> S]
    BY <1>4, <1>6
  <2> QED BY <1>1, <2>1, SMT
<1>8. Once(t)
  <2> SUFFICES ASSUME NEW m \in 1 .. N, NEW n \in 1 .. N, t[m] = t[n]
               PROVE  m = n
    BY <1>6 DEF Once
  <2>1. m - 1 = n - 1
    BY <1>6
  <2> QED BY <1>1, <2>1, SMT
<1>9. ASSUME NEW c \in F PROVE R[c] + 1 \in 1 .. N /\ t[R[c] + 1] = c
  <2> DEFINE n == R[c] + 1
  <2>1. R[c] \in 0 .. N - 1
    BY <1>1
  <2>2. n \in 1 .. N /\ n - 1 = R[c]
    BY <1>1, <2>1, SMT
  <2> HIDE DEF n
  <2>3. t[n] \in F /\ R[t[n]] = R[c]
    BY <1>6, <2>2
  <2>4. t[n] = c
    BY <1>1, <2>3
  <2> QED BY <2>2, <2>4 DEF n
<1>10. \A c : Holds(t, c) <=> c \in F
  BY <1>6, <1>9 DEF Holds
<1>11. ASSUME NEW c \in F PROVE PlaceOf(t, c) = R[c] + 1
  <2>1. R[c] + 1 \in DOMAIN t
    BY <1>6, <1>9
  <2>2. PlaceOf(t, t[R[c] + 1]) = R[c] + 1
    BY <1>8, <2>1, PlaceIs
  <2> QED BY <1>9, <2>2
<1>12. ASSUME NEW c \in F, NEW d \in F, PlaceOf(s, c) < PlaceOf(s, d)
       PROVE  PlaceOf(t, c) < PlaceOf(t, d)
  <2>1. R[c] < R[d] /\ R[c] \in 0 .. N - 1 /\ R[d] \in 0 .. N - 1
    BY <1>1, <1>12
  <2>2. PlaceOf(t, c) = R[c] + 1 /\ PlaceOf(t, d) = R[d] + 1
    BY <1>11
  <2> QED BY <2>1, <2>2, SMT
<1>13. \A c \in F : PlaceOf(t, c) = Cardinality(Earlier(s, Q, c)) + 1
  BY <1>2, <1>11
<1> QED BY <1>7, <1>8, <1>10, <1>12, <1>13 DEF t, F, N

\* Two columns that follow each other among those kept, and change places,
\* change places in what is kept.
LEMMA ThoseSwap ==
  ASSUME NEW S, IsFiniteSet(S), NEW s \in Seq(S), Once(s), NEW t \in Seq(S), Once(t),
         NEW Q \in SUBSET S, Held(t, Q) = Held(s, Q),
         NEW a \in Held(s, Q), NEW b \in Held(s, Q), a # b,
         Earlier(s, Q, b) = Earlier(s, Q, a) \cup {a},
         Earlier(t, Q, b) = Earlier(s, Q, a),
         Earlier(t, Q, a) = Earlier(s, Q, a) \cup {b},
         \A x \in Held(s, Q) \ {a, b} : Earlier(t, Q, x) = Earlier(s, Q, x)
  PROVE  LET u == Those(s, Q)
             v == Those(t, Q)
         IN  /\ Len(v) = Len(u)
             /\ \A k \in 1 .. Len(u) :
                  v[k] = IF k = PlaceOf(u, a) THEN b ELSE IF k = PlaceOf(u, b) THEN a ELSE u[k]
<1> DEFINE F == Held(s, Q)
           u == Those(s, Q)
           v == Those(t, Q)
           E == Earlier(s, Q, a)
<1>1. /\ u \in Seq(S) /\ Once(u) /\ Len(u) = Cardinality(F)
      /\ \A c : Holds(u, c) <=> c \in F
      /\ \A c \in F : PlaceOf(u, c) = Cardinality(Earlier(s, Q, c)) + 1
  BY ThoseAre
<1>2. /\ v \in Seq(S) /\ Once(v) /\ Len(v) = Cardinality(Held(t, Q))
      /\ \A c : Holds(v, c) <=> c \in Held(t, Q)
      /\ \A c \in Held(t, Q) : PlaceOf(v, c) = Cardinality(Earlier(t, Q, c)) + 1
  BY ThoseAre
<1>3. IsFiniteSet(E)
  <2>1. E \in SUBSET S
    BY DEF Earlier, Held
  <2> QED BY <2>1, FS_Subset
<1>4. a \notin E /\ b \notin E
  <2>1. ASSUME NEW c \in F PROVE PlaceOf(s, c) \in Int
    <3>1. PlaceOf(s, c) \in DOMAIN s
      BY PlaceHeld DEF Held
    <3> QED BY <3>1, SMT
  <2>2. a \in Earlier(s, Q, b)
    OBVIOUS
  <2>3. PlaceOf(s, a) < PlaceOf(s, b)
    BY <2>2 DEF Earlier
  <2>4. PlaceOf(s, a) \in Int /\ PlaceOf(s, b) \in Int
    BY <2>1
  <2>5. ~(PlaceOf(s, b) < PlaceOf(s, a)) /\ ~(PlaceOf(s, a) < PlaceOf(s, a))
    BY <2>3, <2>4, SMT
  <2> QED BY <2>5 DEF Earlier
<1>5. Cardinality(E \cup {a}) = Cardinality(E \cup {b})
  <2> HIDE DEF E
  <2>1. Cardinality(E \cup {a}) = IF a \in E THEN Cardinality(E) ELSE Cardinality(E) + 1
    BY <1>3, FS_AddElement, Zenon
  <2>2. Cardinality(E \cup {b}) = IF b \in E THEN Cardinality(E) ELSE Cardinality(E) + 1
    BY <1>3, FS_AddElement, Zenon
  <2> QED BY <1>4, <2>1, <2>2
<1>6. PlaceOf(v, b) = PlaceOf(u, a) /\ PlaceOf(v, a) = PlaceOf(u, b)
  BY <1>1, <1>2, <1>5
<1>7. \A x \in F \ {a, b} : PlaceOf(v, x) = PlaceOf(u, x)
  BY <1>1, <1>2
<1>8. Len(v) = Len(u)
  BY <1>1, <1>2
<1>9. \A c \in F : PlaceOf(v, c) \in DOMAIN v /\ v[PlaceOf(v, c)] = c
  BY <1>2, PlaceHeld
<1>10. a \in F /\ b \in F
  OBVIOUS
<1>11. \A k \in 1 .. Len(u) : k \in DOMAIN u
  BY <1>1, SMT
<1> HIDE DEF F, u, v
<1>12. ASSUME NEW k \in 1 .. Len(u)
       PROVE  v[k] = IF k = PlaceOf(u, a) THEN b ELSE IF k = PlaceOf(u, b) THEN a ELSE u[k]
  <2> DEFINE x == u[k]
  <2>1. PlaceOf(u, x) = k /\ x \in F
    BY <1>1, <1>11, PlaceIs
  <2>2. CASE k = PlaceOf(u, a)
    BY <1>6, <1>9, <1>10, <2>2
  <2>3. CASE k # PlaceOf(u, a) /\ k = PlaceOf(u, b)
    BY <1>6, <1>9, <1>10, <2>3
  <2>4. CASE k # PlaceOf(u, a) /\ k # PlaceOf(u, b)
    <3>1. x \in F \ {a, b}
      BY <2>1, <2>4
    <3>2. v[k] = x
      BY <1>7, <1>9, <2>1, <3>1
    <3> QED BY <2>4, <3>2
  <2> QED BY <2>2, <2>3, <2>4
<1> QED BY <1>8, <1>12 DEF u, v

\* A column that is moved past one other of those kept changes places with it.
LEMMA Passes ==
  ASSUME NEW S, IsFiniteSet(S), NEW s \in Seq(S), Once(s), NEW Q \in SUBSET S,
         NEW i \in 1 .. Len(s), NEW j \in 1 .. Len(s), i # j, s[i] \in Q, s[j] \in Q,
         \A k \in 1 .. Len(s) :
           (i < k /\ k < j) \/ (j < k /\ k < i) => s[k] \notin Q
  PROVE  LET u == Those(s, Q)
             v == Those(MovedTo(s, i, j), Q)
         IN  /\ Len(v) = Len(u)
             /\ \A k \in 1 .. Len(u) :
                  v[k] = IF k = PlaceOf(u, s[i]) THEN s[j]
                         ELSE IF k = PlaceOf(u, s[j]) THEN s[i] ELSE u[k]
<1> DEFINE t == MovedTo(s, i, j)
           F == Held(s, Q)
           u == Those(s, Q)
           v == Those(t, Q)
           p(x) == PlaceOf(s, x)
<1>1. /\ t \in Seq(S) /\ Len(t) = Len(s) /\ Once(t)
      /\ \A c : Holds(t, c) <=> Holds(s, c)
      /\ \A k \in 1 .. Len(s) : PlaceOf(t, s[k]) = To(i, j, k)
  BY MovedKeeps
<1> HIDE DEF t
<1>2. Held(t, Q) = F
  BY <1>1 DEF Held
<1>3. Len(s) \in Nat /\ DOMAIN s = 1 .. Len(s)
  BY SMT
<1>4. ASSUME NEW x \in F
      PROVE  /\ p(x) \in 1 .. Len(s) /\ s[p(x)] = x /\ PlaceOf(t, x) = To(i, j, p(x))
             /\ (i < p(x) /\ p(x) < j) \/ (j < p(x) /\ p(x) < i) => FALSE
  <2>1. p(x) \in 1 .. Len(s) /\ s[p(x)] = x /\ x \in Q
    BY <1>3, PlaceHeld DEF Held
  <2> QED BY <1>1, <2>1
<1>5. s[i] \in F /\ s[j] \in F /\ p(s[i]) = i /\ p(s[j]) = j /\ s[i] # s[j]
  BY <1>3, PlaceIs DEF Held, Once
<1>6. ASSUME NEW x \in F, x # s[i]
      PROVE  p(x) # i
  BY <1>4, <1>6
<1>7. ASSUME NEW x \in F, x # s[j]
      PROVE  p(x) # j
  BY <1>4, <1>7
<1>8. \A c \in F : Earlier(s, Q, c) = {d \in F : p(d) < p(c)}
  BY DEF Earlier
<1>9. \A c \in F : Earlier(t, Q, c) = {d \in F : To(i, j, p(d)) < To(i, j, p(c))}
  BY <1>2, <1>4 DEF Earlier
<1> HIDE DEF F, p
<1>10. ASSUME NEW x \in F \ {s[i], s[j]}
       PROVE  Earlier(t, Q, x) = Earlier(s, Q, x)
  <2>1. ASSUME NEW d \in F PROVE To(i, j, p(d)) < To(i, j, p(x)) <=> p(d) < p(x)
    <3>1. p(x) # i /\ p(x) # j
      BY <1>6, <1>7
    <3>2. /\ p(x) \in 1 .. Len(s) /\ p(d) \in 1 .. Len(s)
          /\ ~(i < p(x) /\ p(x) < j) /\ ~(j < p(x) /\ p(x) < i)
          /\ ~(i < p(d) /\ p(d) < j) /\ ~(j < p(d) /\ p(d) < i)
      BY <1>4
    <3> QED BY <1>3, <3>1, <3>2, SMT DEF To
  <2> QED BY <1>8, <1>9, <2>1
<1>11. CASE j < i
  <2>1. ASSUME NEW d \in F
        PROVE  /\ p(d) < i <=> p(d) < j \/ d = s[j]
               /\ To(i, j, p(d)) < To(i, j, i) <=> p(d) < j
               /\ To(i, j, p(d)) < To(i, j, j) <=> p(d) < j \/ d = s[i]
    <3>1. /\ p(d) \in 1 .. Len(s)
          /\ ~(i < p(d) /\ p(d) < j) /\ ~(j < p(d) /\ p(d) < i)
      BY <1>4
    <3>2. (d = s[i] <=> p(d) = i) /\ (d = s[j] <=> p(d) = j)
      BY <1>5, <1>6, <1>7
    <3> QED BY <1>3, <1>11, <3>1, <3>2, SMT DEF To
  <2>2. Earlier(s, Q, s[i]) = Earlier(s, Q, s[j]) \cup {s[j]}
    BY <1>5, <1>8, <2>1
  <2>3. Earlier(t, Q, s[i]) = Earlier(s, Q, s[j])
    <3>1. Earlier(t, Q, s[i]) = {d \in F : To(i, j, p(d)) < To(i, j, i)}
      BY <1>5, <1>9
    <3>2. Earlier(s, Q, s[j]) = {d \in F : p(d) < j}
      BY <1>5, <1>8
    <3> QED BY <2>1, <3>1, <3>2
  <2>4. Earlier(t, Q, s[j]) = Earlier(s, Q, s[j]) \cup {s[i]}
    BY <1>5, <1>8, <1>9, <2>1
  <2>5. /\ Len(v) = Len(u)
        /\ \A k \in 1 .. Len(u) :
             v[k] = IF k = PlaceOf(u, s[j]) THEN s[i]
                    ELSE IF k = PlaceOf(u, s[i]) THEN s[j] ELSE u[k]
    <3> DEFINE a == s[j]
               b == s[i]
    <3>1. /\ a \in Held(s, Q) /\ b \in Held(s, Q) /\ a # b
          /\ Earlier(s, Q, b) = Earlier(s, Q, a) \cup {a}
          /\ Earlier(t, Q, b) = Earlier(s, Q, a)
          /\ Earlier(t, Q, a) = Earlier(s, Q, a) \cup {b}
          /\ \A x \in Held(s, Q) \ {a, b} : Earlier(t, Q, x) = Earlier(s, Q, x)
          /\ Held(t, Q) = Held(s, Q)
      BY <1>2, <1>5, <1>10, <2>2, <2>3, <2>4 DEF F
    <3> HIDE DEF a, b
    <3>2. /\ Len(v) = Len(u)
          /\ \A k \in 1 .. Len(u) :
               v[k] = IF k = PlaceOf(u, a) THEN b ELSE IF k = PlaceOf(u, b) THEN a ELSE u[k]
      BY <1>1, <3>1, ThoseSwap
    <3> QED BY <3>2 DEF a, b
  <2> HIDE DEF u, v
  <2>6. PlaceOf(u, s[i]) = PlaceOf(u, s[j]) => s[i] = s[j]
    <3>1. Holds(u, s[i]) /\ Holds(u, s[j])
      BY <1>5, ThoseAre DEF u, F
    <3> QED BY <3>1, PlaceHeld
  <2> QED BY <1>5, <2>5, <2>6 DEF u, v, t
<1>12. CASE i < j
  <2>1. ASSUME NEW d \in F
        PROVE  /\ p(d) < j <=> p(d) < i \/ d = s[i]
               /\ To(i, j, p(d)) < To(i, j, j) <=> p(d) < i
               /\ To(i, j, p(d)) < To(i, j, i) <=> p(d) < i \/ d = s[j]
    <3>1. /\ p(d) \in 1 .. Len(s)
          /\ ~(i < p(d) /\ p(d) < j) /\ ~(j < p(d) /\ p(d) < i)
      BY <1>4
    <3>2. (d = s[i] <=> p(d) = i) /\ (d = s[j] <=> p(d) = j)
      BY <1>5, <1>6, <1>7
    <3> QED BY <1>3, <1>12, <3>1, <3>2, SMT DEF To
  <2>2. Earlier(s, Q, s[j]) = Earlier(s, Q, s[i]) \cup {s[i]}
    BY <1>5, <1>8, <2>1
  <2>3. Earlier(t, Q, s[j]) = Earlier(s, Q, s[i])
    <3>1. Earlier(t, Q, s[j]) = {d \in F : To(i, j, p(d)) < To(i, j, j)}
      BY <1>5, <1>9
    <3>2. Earlier(s, Q, s[i]) = {d \in F : p(d) < i}
      BY <1>5, <1>8
    <3> QED BY <2>1, <3>1, <3>2
  <2>4. Earlier(t, Q, s[i]) = Earlier(s, Q, s[i]) \cup {s[j]}
    BY <1>5, <1>8, <1>9, <2>1
  <2> DEFINE a == s[i]
             b == s[j]
  <2>5. /\ a \in Held(s, Q) /\ b \in Held(s, Q) /\ a # b
        /\ Earlier(s, Q, b) = Earlier(s, Q, a) \cup {a}
        /\ Earlier(t, Q, b) = Earlier(s, Q, a)
        /\ Earlier(t, Q, a) = Earlier(s, Q, a) \cup {b}
        /\ \A x \in Held(s, Q) \ {a, b} : Earlier(t, Q, x) = Earlier(s, Q, x)
        /\ Held(t, Q) = Held(s, Q)
    BY <1>2, <1>5, <1>10, <2>2, <2>3, <2>4 DEF F
  <2> HIDE DEF a, b
  <2>6. /\ Len(v) = Len(u)
        /\ \A k \in 1 .. Len(u) :
             v[k] = IF k = PlaceOf(u, a) THEN b ELSE IF k = PlaceOf(u, b) THEN a ELSE u[k]
    BY <1>1, <2>5, ThoseSwap
  <2> QED BY <2>6 DEF a, b, t
<1> QED BY <1>3, <1>11, <1>12, SMT

LEMMA Drops ==
  ASSUME NEW T, NEW s \in Seq(T), Once(s), NEW c
  PROVE  LET t == Dropping(s, c)
         IN  /\ t \in Seq(T) /\ Once(t)
             /\ \A d : Holds(t, d) <=> Holds(s, d) /\ d # c
             /\ s # <<>> /\ s[1] # c => t # <<>> /\ t[1] = s[1]
<1> DEFINE i == PlaceOf(s, c)
           t == Without(s, i)
<1>1. CASE ~Holds(s, c)
  BY <1>1 DEF Dropping
<1>2. CASE Holds(s, c)
  <2>1. Dropping(s, c) = t
    BY <1>2 DEF Dropping
  <2>2. Len(s) \in Nat /\ DOMAIN s = 1 .. Len(s)
    OBVIOUS
  <2>3. i \in 1 .. Len(s) /\ s[i] = c
    BY <1>2, <2>2, PlaceHeld
  <2> HIDE DEF i
  <2>4. /\ t \in Seq(T) /\ Len(t) = Len(s) - 1
        /\ \A k \in 1 .. Len(s) - 1 : t[k] = IF k < i THEN s[k] ELSE s[k + 1]
    BY <2>3, Withouts
  <2> HIDE DEF t
  <2>5. DOMAIN t = 1 .. Len(s) - 1
    BY <2>4
  <2> DEFINE f(k) == IF k < i THEN k ELSE k + 1
             g(k) == IF k < i THEN k ELSE k - 1
  <2>6. ASSUME NEW k \in 1 .. Len(s) - 1
        PROVE  t[k] = s[f(k)] /\ f(k) \in 1 .. Len(s) /\ f(k) # i /\ g(f(k)) = k
    <3>1. t[k] = s[f(k)]
      BY <2>4
    <3>2. f(k) \in 1 .. Len(s) /\ f(k) # i /\ g(f(k)) = k
      BY <2>2, <2>3, SMT
    <3> QED BY <3>1, <3>2
  <2>7. ASSUME NEW k \in 1 .. Len(s), k # i
        PROVE  g(k) \in 1 .. Len(s) - 1 /\ f(g(k)) = k
    BY <2>2, <2>3, <2>7, SMT
  <2> HIDE DEF f, g
  <2>8. Once(t)
    <3> SUFFICES ASSUME NEW k \in 1 .. Len(s) - 1, NEW m \in 1 .. Len(s) - 1, t[k] = t[m]
                 PROVE  k = m
      BY <2>5 DEF Once
    <3>1. f(k) = f(m)
      BY <2>2, <2>6 DEF Once
    <3> QED BY <2>6, <3>1
  <2>9. ASSUME NEW d PROVE Holds(t, d) <=> Holds(s, d) /\ d # c
    <3>1. ASSUME NEW k \in 1 .. Len(s) - 1, t[k] = d PROVE Holds(s, d) /\ d # c
      <4>1. s[f(k)] = d /\ f(k) \in DOMAIN s /\ f(k) # i /\ i \in DOMAIN s
        BY <2>2, <2>3, <2>6, <3>1
      <4> QED BY <2>3, <4>1 DEF Holds, Once
    <3>2. ASSUME NEW k \in 1 .. Len(s), s[k] = d, d # c PROVE Holds(t, d)
      <4>1. k # i
        BY <2>3, <3>2
      <4>2. g(k) \in DOMAIN t /\ t[g(k)] = s[k]
        BY <2>5, <2>6, <2>7, <4>1
      <4> QED BY <3>2, <4>2 DEF Holds
    <3> QED BY <2>2, <2>5, <3>1, <3>2 DEF Holds
  <2>10. ASSUME s # <<>>, s[1] # c PROVE t # <<>> /\ t[1] = s[1]
    <3>1. 1 < i
      BY <2>2, <2>3, <2>10, SMT
    <3>2. 1 \in 1 .. Len(s) - 1
      BY <2>2, <2>3, <3>1, SMT
    <3>3. t[1] = s[1]
      BY <2>4, <3>1, <3>2
    <3>4. Len(t) # 0
      BY <2>2, <2>3, <2>4, <3>1, SMT
    <3> QED BY <2>4, <3>3, <3>4, SMT
  <2> QED BY <2>1, <2>4, <2>8, <2>9, <2>10
<1> QED BY <1>1, <1>2

LEMMA Appends ==
  ASSUME NEW T, NEW s \in Seq(T), Once(s), NEW c \in T, ~Holds(s, c)
  PROVE  LET t == Append(s, c)
         IN  /\ t \in Seq(T) /\ Once(t)
             /\ \A d : Holds(t, d) <=> Holds(s, d) \/ d = c
             /\ s # <<>> => t # <<>> /\ t[1] = s[1]
<1> DEFINE t == Append(s, c)
           n == Len(s)
<1>1. n \in Nat /\ DOMAIN s = 1 .. n
  OBVIOUS
<1>2. t \in Seq(T) /\ Len(t) = n + 1 /\ \A k \in 1 .. n : t[k] = s[k]
  BY SMT
<1>3. t[n + 1] = c
  BY SMT
<1> HIDE DEF t, n
<1>4. DOMAIN t = 1 .. n + 1
  BY <1>2
<1>5. \A k \in 1 .. n + 1 : k \in 1 .. n \/ k = n + 1
  BY <1>1, SMT
<1>6. n + 1 \in 1 .. n + 1 /\ \A k \in 1 .. n : k \in 1 .. n + 1
  BY <1>1, SMT
<1>7. \A k \in 1 .. n : s[k] # c
  BY <1>1 DEF Holds
<1>8. Once(t)
  <2> SUFFICES ASSUME NEW k \in 1 .. n + 1, NEW m \in 1 .. n + 1, t[k] = t[m]
               PROVE  k = m
    BY <1>4 DEF Once
  <2>1. CASE k \in 1 .. n /\ m \in 1 .. n
    BY <1>1, <1>2, <2>1 DEF Once
  <2>2. CASE k = n + 1 /\ m \in 1 .. n
    BY <1>2, <1>3, <1>7, <2>2
  <2>3. CASE k \in 1 .. n /\ m = n + 1
    BY <1>2, <1>3, <1>7, <2>3
  <2> QED BY <1>5, <2>1, <2>2, <2>3
<1>9. ASSUME NEW d PROVE Holds(t, d) <=> Holds(s, d) \/ d = c
  BY <1>1, <1>2, <1>3, <1>4, <1>5, <1>6 DEF Holds
<1>10. s # <<>> => t # <<>> /\ t[1] = s[1]
  <2>1. s # <<>> => 1 \in 1 .. n
    BY <1>1, SMT DEF n
  <2>2. t # <<>>
    BY <1>1, <1>2, SMT
  <2> QED BY <1>2, <2>1, <2>2
<1> QED BY <1>2, <1>8, <1>9, <1>10 DEF t

\* Three sequences in a row.
LEMMA Threes ==
  ASSUME NEW T, NEW a \in Seq(T), NEW b \in Seq(T), NEW d \in Seq(T)
  PROVE  LET s == a \o b \o d
         IN  /\ s \in Seq(T) /\ Len(s) = Len(a) + Len(b) + Len(d)
             /\ \A k \in 1 .. Len(a) + Len(b) + Len(d) :
                  s[k] = IF k <= Len(a) THEN a[k]
                         ELSE IF k <= Len(a) + Len(b) THEN b[k - Len(a)]
                         ELSE d[k - Len(a) - Len(b)]
<1> DEFINE e == a \o b
           s == e \o d
<1>1. Len(a) \in Nat /\ Len(b) \in Nat /\ Len(d) \in Nat
  OBVIOUS
<1>2. /\ e \in Seq(T) /\ Len(e) = Len(a) + Len(b)
      /\ \A k \in 1 .. Len(a) + Len(b) : e[k] = IF k <= Len(a) THEN a[k] ELSE b[k - Len(a)]
  BY Concats
<1> HIDE DEF e
<1>3. /\ s \in Seq(T) /\ Len(s) = Len(e) + Len(d)
      /\ \A k \in 1 .. Len(e) + Len(d) : s[k] = IF k <= Len(e) THEN e[k] ELSE d[k - Len(e)]
  <2>1. e \in Seq(T) /\ d \in Seq(T)
    BY <1>2
  <2> QED BY ONLY <2>1, Concats, Zenon
<1> HIDE DEF s
<1>4. ASSUME NEW k \in 1 .. Len(a) + Len(b) + Len(d)
      PROVE  s[k] = IF k <= Len(a) THEN a[k]
                    ELSE IF k <= Len(a) + Len(b) THEN b[k - Len(a)]
                    ELSE d[k - Len(a) - Len(b)]
  <2>1. s[k] = IF k <= Len(e) THEN e[k] ELSE d[k - Len(e)]
    BY <1>1, <1>2, <1>3
  <2>2. k <= Len(e) => e[k] = IF k <= Len(a) THEN a[k] ELSE b[k - Len(a)]
    BY <1>1, <1>2, SMT
  <2>3. k <= Len(a) => k <= Len(e)
    BY <1>1, <1>2, SMT
  <2>4. k - Len(e) = k - Len(a) - Len(b) /\ (k <= Len(e) <=> k <= Len(a) + Len(b))
    BY <1>1, <1>2, SMT
  <2> QED BY <2>1, <2>2, <2>3, <2>4
<1> QED BY <1>2, <1>3, <1>4 DEF s, e

Swapped(s, i, j) == [s EXCEPT ![i] = s[j], ![j] = s[i]]

\* What is swapped, place by place.
LEMMA SwapsTwo ==
  ASSUME NEW T, NEW s \in Seq(T), NEW t \in Seq(T), Len(t) = Len(s),
         NEW i \in 1 .. Len(s), NEW j \in 1 .. Len(s),
         \A k \in 1 .. Len(s) : t[k] = IF k = i THEN s[j] ELSE IF k = j THEN s[i] ELSE s[k]
  PROVE  t = Swapped(s, i, j)
<1> DEFINE u == [s EXCEPT ![i] = s[j], ![j] = s[i]]
<1>1. DOMAIN s = 1 .. Len(s) /\ t = [k \in 1 .. Len(s) |-> t[k]]
  BY SMT
<1>2. u = [k \in 1 .. Len(s) |-> u[k]]
  BY <1>1
<1>3. ASSUME NEW k \in 1 .. Len(s) PROVE u[k] = t[k]
  BY <1>1
<1> HIDE DEF u
<1>4. t = u
  BY <1>1, <1>2, <1>3
<1> QED BY <1>4 DEF u, Swapped

\* A part u of a sequence s that becomes v, with two of its places swapped.
PartSwapped(s, t, u, v, base, i, j) ==
  /\ s \in Seq(Columns) /\ t \in Seq(Columns) /\ u \in Seq(Columns) /\ Len(t) = Len(s)
  /\ base \in Nat /\ base + Len(u) <= Len(s) /\ i \in 1 .. Len(u) /\ j \in 1 .. Len(u)
  /\ \A k \in 1 .. Len(u) : s[base + k] = u[k]
  /\ \A k \in 1 .. Len(u) : v[k] = IF k = i THEN u[j] ELSE IF k = j THEN u[i] ELSE u[k]
  /\ \A k \in 1 .. Len(s) :
       t[k] = IF base < k /\ k <= base + Len(u) THEN v[k - base] ELSE s[k]

LEMMA SwapsPart ==
  ASSUME NEW s, NEW t, NEW u, NEW v, NEW base, NEW i, NEW j,
         PartSwapped(s, t, u, v, base, i, j)
  PROVE  t = Swapped(s, base + i, base + j)
<1> USE DEF PartSwapped
<1> DEFINE h == base + i
           g == base + j
<1>1. Len(s) \in Nat /\ Len(u) \in Nat
  OBVIOUS
<1>2. h \in 1 .. Len(s) /\ g \in 1 .. Len(s)
  BY <1>1, SMT
<1>3. s[h] = u[i] /\ s[g] = u[j]
  OBVIOUS
<1>4. ASSUME NEW k \in 1 .. Len(s)
      PROVE  t[k] = IF k = h THEN s[g] ELSE IF k = g THEN s[h] ELSE s[k]
  <2>1. CASE base < k /\ k <= base + Len(u)
    <3>1. /\ k - base \in 1 .. Len(u) /\ base + (k - base) = k
          /\ (k - base = i <=> k = h) /\ (k - base = j <=> k = g)
      BY <1>1, <2>1, SMT
    <3>2. t[k] = v[k - base] /\ s[k] = u[k - base]
      BY <2>1, <3>1
    <3>3. v[k - base] = IF k - base = i THEN u[j] ELSE IF k - base = j THEN u[i] ELSE u[k - base]
      BY <3>1
    <3> QED BY <1>3, <3>1, <3>2, <3>3
  <2>2. CASE ~(base < k /\ k <= base + Len(u))
    <3>1. k # h /\ k # g
      BY <1>1, <2>2, SMT
    <3>2. t[k] = s[k]
      BY <2>2
    <3> QED BY <3>1, <3>2
  <2> QED BY <2>1, <2>2
<1> HIDE DEF h, g
<1>5. t = Swapped(s, h, g)
  <2>1. s \in Seq(Columns) /\ t \in Seq(Columns) /\ Len(t) = Len(s)
    OBVIOUS
  <2> QED BY ONLY <1>2, <1>4, <2>1, SwapsTwo, SMT
<1> QED BY <1>5 DEF h, g

NoneShared(s, t) == \A c : ~(Holds(s, c) /\ Holds(t, c))

LEMMA ThreePlaces ==
  ASSUME NEW T, NEW a \in Seq(T), NEW b \in Seq(T), NEW d \in Seq(T),
         Once(a), Once(b), Once(d), NoneShared(a, b), NoneShared(a, d), NoneShared(b, d)
  PROVE  LET s == a \o b \o d
         IN  /\ Once(s)
             /\ \A k \in 1 .. Len(a) : s[k] = a[k] /\ PlaceOf(s, a[k]) = k
             /\ \A k \in 1 .. Len(b) :
                  s[Len(a) + k] = b[k] /\ PlaceOf(s, b[k]) = Len(a) + k
             /\ \A k \in 1 .. Len(d) :
                  /\ s[Len(a) + Len(b) + k] = d[k]
                  /\ PlaceOf(s, d[k]) = Len(a) + Len(b) + k
<1> DEFINE s == a \o b \o d
           l == Len(a)
           m == Len(b)
           n == Len(d)
<1>1. /\ l \in Nat /\ m \in Nat /\ n \in Nat
      /\ DOMAIN a = 1 .. l /\ DOMAIN b = 1 .. m /\ DOMAIN d = 1 .. n
  OBVIOUS
<1>2. /\ s \in Seq(T) /\ Len(s) = l + m + n
      /\ \A k \in 1 .. l + m + n :
           s[k] = IF k <= l THEN a[k] ELSE IF k <= l + m THEN b[k - l] ELSE d[k - l - m]
  BY Threes
<1>3. DOMAIN s = 1 .. l + m + n
  BY <1>2
<1> HIDE DEF s, l, m, n
<1>4. ASSUME NEW k \in 1 .. l PROVE k \in DOMAIN s /\ s[k] = a[k]
  <2>1. k \in 1 .. l + m + n /\ k <= l
    BY <1>1, SMT
  <2> QED BY <1>2, <1>3, <2>1
<1>5. ASSUME NEW k \in 1 .. m PROVE l + k \in DOMAIN s /\ s[l + k] = b[k]
  <2>1. l + k \in 1 .. l + m + n /\ ~(l + k <= l) /\ l + k <= l + m /\ (l + k) - l = k
    BY <1>1, SMT
  <2> QED BY <1>2, <1>3, <2>1
<1>6. ASSUME NEW k \in 1 .. n PROVE l + m + k \in DOMAIN s /\ s[l + m + k] = d[k]
  <2>1. /\ l + m + k \in 1 .. l + m + n /\ ~(l + m + k <= l) /\ ~(l + m + k <= l + m)
        /\ (l + m + k) - l - m = k
    BY <1>1, SMT
  <2> QED BY <1>2, <1>3, <2>1
<1>7. ASSUME NEW k \in DOMAIN s
      PROVE  \/ k \in 1 .. l
             \/ \E i \in 1 .. m : k = l + i
             \/ \E i \in 1 .. n : k = l + m + i
  <2>1. k \in 1 .. l + m + n
    BY <1>3
  <2>2. CASE l < k /\ k <= l + m
    <3>1. k - l \in 1 .. m /\ k = l + (k - l)
      BY <1>1, <2>1, <2>2, SMT
    <3> QED BY <3>1
  <2>3. CASE l + m < k
    <3>1. k - l - m \in 1 .. n /\ k = l + m + (k - l - m)
      BY <1>1, <2>1, <2>3, SMT
    <3> QED BY <3>1
  <2> QED BY <1>1, <2>1, <2>2, <2>3, SMT
<1>8. Once(s)
  <2> SUFFICES ASSUME NEW x \in DOMAIN s, NEW y \in DOMAIN s, s[x] = s[y]
               PROVE  x = y
    BY DEF Once
  <2>1. CASE x \in 1 .. l
    <3>1. Holds(a, s[x])
      BY <1>1, <1>4, <2>1 DEF Holds
    <3>2. ~Holds(b, s[y]) /\ ~Holds(d, s[y])
      BY <3>1 DEF NoneShared
    <3>3. y \in 1 .. l
      BY <1>1, <1>5, <1>6, <1>7, <3>2 DEF Holds
    <3> QED BY <1>1, <1>4, <2>1, <3>3 DEF Once
  <2>2. ASSUME NEW i \in 1 .. m, x = l + i PROVE x = y
    <3>1. Holds(b, s[x])
      BY <1>1, <1>5, <2>2 DEF Holds
    <3>2. ~Holds(a, s[y]) /\ ~Holds(d, s[y])
      BY <3>1 DEF NoneShared
    <3>3. PICK j \in 1 .. m : y = l + j
      BY <1>1, <1>4, <1>6, <1>7, <3>2 DEF Holds
    <3> QED BY <1>1, <1>5, <2>2, <3>3 DEF Once
  <2>3. ASSUME NEW i \in 1 .. n, x = l + m + i PROVE x = y
    <3>1. Holds(d, s[x])
      BY <1>1, <1>6, <2>3 DEF Holds
    <3>2. ~Holds(a, s[y]) /\ ~Holds(b, s[y])
      BY <3>1 DEF NoneShared
    <3>3. PICK j \in 1 .. n : y = l + m + j
      BY <1>1, <1>4, <1>5, <1>7, <3>2 DEF Holds
    <3> QED BY <1>1, <1>6, <2>3, <3>3 DEF Once
  <2> QED BY <1>7, <2>1, <2>2, <2>3
<1>9. \A k \in DOMAIN s : PlaceOf(s, s[k]) = k
  BY <1>8, PlaceIs
<1>10. \A k \in 1 .. l : s[k] = a[k] /\ PlaceOf(s, a[k]) = k
  BY <1>4, <1>9
<1>11. \A k \in 1 .. m : s[l + k] = b[k] /\ PlaceOf(s, b[k]) = l + k
  BY <1>5, <1>9
<1>12. \A k \in 1 .. n : s[l + m + k] = d[k] /\ PlaceOf(s, d[k]) = l + m + k
  BY <1>6, <1>9
<1> QED BY <1>8, <1>10, <1>11, <1>12 DEF s, l, m, n

-----------------------------------------------------------------------------
(***************************************************************************)
(* The inductive invariant: the order has every column once, each side     *)
(* has its pins once, no column is pinned to both, and the first pin on    *)
(* the right is a permanent one where there are any.                       *)
(***************************************************************************)
Free == {c \in Columns : ~Pinned(c)}

OrderOK == order # <<>> => order \in Seq(Columns) /\ Once(order) /\ \A c \in Columns : Holds(order, c)
PinsOK  == /\ pins \in [Sides -> Seq(Columns)]
           /\ \A side \in Sides : Once(pins[side])
           /\ NoneShared(pins["left"], pins["right"])
FirstOK == Permanent # {} => pins["right"] # <<>> /\ pins["right"][1] \in Permanent
ColumnsInv == OrderOK /\ PinsOK /\ FirstOK /\ MovesItsWay

LEMMA OrderedAll ==
  ASSUME OrderOK
  PROVE  Ordered \in Seq(Columns) /\ Once(Ordered) /\ \A c \in Columns : Holds(Ordered, c)
<1>1. Headers0 \in Seq(Columns) /\ Once(Headers0)
  BY ColumnsAssumption DEF ColumnsAssumption, Once
<1>2. \A c \in Columns : Holds(Headers0, c)
  BY DEF Columns, Holds
<1> QED BY <1>1, <1>2 DEF Ordered, OrderOK

LEMMA CenterIs ==
  ASSUME OrderOK
  PROVE  /\ Center \in Seq(Columns) /\ Once(Center)
         /\ \A c : Holds(Center, c) <=> c \in Free
         /\ \A c, d \in Free :
              PlaceOf(Ordered, c) < PlaceOf(Ordered, d) => PlaceOf(Center, c) < PlaceOf(Center, d)
<1> DEFINE o == Ordered
           Q == Free
<1>1. o \in Seq(Columns) /\ Once(o) /\ \A c \in Columns : Holds(o, c)
  BY OrderedAll
<1>2. Q \in SUBSET Columns /\ IsFiniteSet(Columns)
  BY ColumnsAssumption DEF ColumnsAssumption, Free
<1>3. Center = Those(o, Q)
  BY DEF Center, Free
<1> HIDE DEF o, Q
<1>4. Held(o, Q) = Q
  BY <1>1, <1>2 DEF Held
<1> DEFINE t == Those(o, Q)
<1>5. /\ t \in Seq(Columns) /\ Once(t)
      /\ \A c : Holds(t, c) <=> c \in Held(o, Q)
      /\ \A c, d \in Held(o, Q) : PlaceOf(o, c) < PlaceOf(o, d) => PlaceOf(t, c) < PlaceOf(t, d)
  BY <1>1, <1>2, ThoseAre
<1> HIDE DEF t
<1>6. Center = t
  BY <1>3 DEF t
<1>7. \A c, d \in Q : PlaceOf(o, c) < PlaceOf(o, d) => PlaceOf(t, c) < PlaceOf(t, d)
  BY <1>4, <1>5
<1> QED BY <1>4, <1>5, <1>6, <1>7 DEF o, Q

LEMMA ShownIs ==
  ASSUME OrderOK, PinsOK
  PROVE  LET l == Len(pins["left"])
             m == Len(Center)
             n == Len(pins["right"])
         IN  /\ l \in Nat /\ m \in Nat /\ n \in Nat
             /\ Shown \in Seq(Columns) /\ Len(Shown) = l + m + n
             /\ \A k \in 1 .. l :
                  /\ Shown[k] = pins["left"][k] /\ PlaceOf(Shown, pins["left"][k]) = k
                  /\ Pinned(pins["left"][k])
             /\ \A k \in 1 .. m :
                  /\ Shown[l + k] = Center[k] /\ PlaceOf(Shown, Center[k]) = l + k
                  /\ ~Pinned(Center[k])
             /\ \A k \in 1 .. n :
                  /\ Shown[l + m + k] = pins["right"][k]
                  /\ PlaceOf(Shown, pins["right"][k]) = l + m + k
                  /\ Pinned(pins["right"][k])
<1> DEFINE a == pins["left"]
           b == Center
           d == pins["right"]
<1>1. /\ a \in Seq(Columns) /\ Once(a) /\ d \in Seq(Columns) /\ Once(d) /\ NoneShared(a, d)
  BY DEF PinsOK, Sides
<1>2. b \in Seq(Columns) /\ Once(b) /\ \A c : Holds(b, c) <=> c \in Free
  BY CenterIs
<1>3. \A c : Holds(a, c) \/ Holds(d, c) => Pinned(c)
  BY DEF Pinned, Sides
<1>4. Shown = a \o b \o d
  BY DEF Shown
<1> HIDE DEF a, b, d
<1>5. NoneShared(a, b) /\ NoneShared(b, d)
  BY <1>2, <1>3 DEF NoneShared, Free
<1> DEFINE s == a \o b \o d
<1>6. s \in Seq(Columns) /\ Len(s) = Len(a) + Len(b) + Len(d)
  BY <1>1, <1>2, Threes
<1>7. /\ \A k \in 1 .. Len(a) : s[k] = a[k] /\ PlaceOf(s, a[k]) = k
      /\ \A k \in 1 .. Len(b) : s[Len(a) + k] = b[k] /\ PlaceOf(s, b[k]) = Len(a) + k
      /\ \A k \in 1 .. Len(d) : /\ s[Len(a) + Len(b) + k] = d[k]
                                /\ PlaceOf(s, d[k]) = Len(a) + Len(b) + k
  BY <1>1, <1>2, <1>5, ThreePlaces
<1> HIDE DEF s
<1>8. /\ Len(a) \in Nat /\ Len(b) \in Nat /\ Len(d) \in Nat
      /\ DOMAIN a = 1 .. Len(a) /\ DOMAIN b = 1 .. Len(b) /\ DOMAIN d = 1 .. Len(d)
  BY <1>1, <1>2
<1>9. /\ \A k \in 1 .. Len(a) : Pinned(a[k])
      /\ \A k \in 1 .. Len(b) : ~Pinned(b[k])
      /\ \A k \in 1 .. Len(d) : Pinned(d[k])
  BY <1>2, <1>3, <1>8 DEF Holds, Free
<1>10. Shown = s
  BY <1>4 DEF s
<1> QED BY <1>6, <1>7, <1>8, <1>9, <1>10 DEF a, b, d

LEMMA StartsColumns ==
  ColumnsInit => ColumnsInv
<1> SUFFICES ASSUME ColumnsInit PROVE ColumnsInv
  OBVIOUS
<1> DEFINE t == Those(Headers0, Permanent)
<1>1. /\ Headers0 \in Seq(Columns) /\ Once(Headers0) /\ IsFiniteSet(Columns)
      /\ Permanent \in SUBSET Columns
  BY ColumnsAssumption DEF ColumnsAssumption, Once
<1>2. Held(Headers0, Permanent) = Permanent
  BY <1>1 DEF Held, Columns, Holds
<1>3. /\ t \in Seq(Columns) /\ Once(t) /\ Len(t) = Cardinality(Held(Headers0, Permanent))
      /\ \A c : Holds(t, c) <=> c \in Held(Headers0, Permanent)
  BY <1>1, ThoseAre
<1>4. pins["left"] = <<>> /\ pins["right"] = t /\ DOMAIN pins = Sides
      /\ pins = [side \in Sides |-> pins[side]]
  BY DEF ColumnsInit, Sides
<1> HIDE DEF t
<1>5. OrderOK
  BY DEF ColumnsInit, OrderOK
<1>6. PinsOK
  <2>1. \A side \in Sides : pins[side] \in Seq(Columns) /\ Once(pins[side])
    <3>1. <<>> \in Seq(Columns) /\ Once(<<>>)
      BY DEF Once
    <3> QED BY <1>3, <1>4, <3>1 DEF Sides
  <2>2. NoneShared(pins["left"], pins["right"])
    BY <1>4 DEF NoneShared, Holds
  <2> QED BY <1>4, <2>1, <2>2 DEF PinsOK
<1>7. FirstOK
  <2> SUFFICES ASSUME Permanent # {} PROVE t # <<>> /\ t[1] \in Permanent
    BY <1>4 DEF FirstOK
  <2>1. PICK c \in Permanent : Holds(t, c)
    BY <1>2, <1>3
  <2>2. Len(t) \in Nat /\ DOMAIN t = 1 .. Len(t) /\ DOMAIN t # {}
    BY <1>3, <2>1 DEF Holds
  <2>3. t # <<>> /\ 1 \in DOMAIN t
    BY <1>3, <2>2, SMT
  <2> QED BY <1>2, <1>3, <2>3 DEF Holds
<1>8. MovesItsWay
  <2>1. moved.dir = "none"
    BY DEF ColumnsInit, NotMoved
  <2> QED BY <2>1 DEF MovesItsWay
<1> QED BY <1>5, <1>6, <1>7, <1>8 DEF ColumnsInv

LEMMA Stays ==
  ASSUME ColumnsInv, order' = order
  PROVE  OrderOK'
BY DEF ColumnsInv, OrderOK

LEMMA NotAMove ==
  ASSUME moved' = NotMoved
  PROVE  MovesItsWay'
<1>1. moved'.dir = "none"
  BY DEF NotMoved
<1> QED BY <1>1 DEF MovesItsWay

\* Pins that keep the first one on the right, if that is permanent.
LEMMA PinsFrom ==
  ASSUME ColumnsInv, NEW c \in Columns, c \notin Permanent,
         DOMAIN pins' = Sides, pins' = [side \in Sides |-> pins'[side]],
         \A side \in Sides :
            /\ pins'[side] \in Seq(Columns) /\ Once(pins'[side])
            /\ \A d : d # c => (Holds(pins'[side], d) <=> Holds(pins[side], d))
            /\ pins[side] # <<>> /\ pins[side][1] # c =>
                 pins'[side] # <<>> /\ pins'[side][1] = pins[side][1],
         ~(Holds(pins'["left"], c) /\ Holds(pins'["right"], c))
  PROVE  PinsOK' /\ FirstOK'
<1>1. "left" \in Sides /\ "right" \in Sides
  BY DEF Sides
<1>2. NoneShared(pins["left"], pins["right"])
  BY DEF ColumnsInv, PinsOK
<1>3. NoneShared(pins'["left"], pins'["right"])
  BY <1>1, <1>2 DEF NoneShared
<1>4. PinsOK'
  BY <1>3 DEF PinsOK, Sides
<1>5. FirstOK'
  BY <1>1 DEF ColumnsInv, FirstOK
<1> QED BY <1>4, <1>5

LEMMA Pins ==
  ASSUME ColumnsInv, NEW c \in Columns, NEW side \in Sides, Pin(c, side)
  PROVE  ColumnsInv'
<1> DEFINE dropped(s) == Dropping(pins[s], c)
<1>1. /\ c \notin Permanent /\ order' = order /\ moved' = NotMoved
      /\ pins' = [s \in Sides |-> IF s = side THEN Append(dropped(s), c) ELSE dropped(s)]
  BY DEF Pin
<1>2. ASSUME NEW s \in Sides
      PROVE  /\ dropped(s) \in Seq(Columns) /\ Once(dropped(s))
             /\ \A d : Holds(dropped(s), d) <=> Holds(pins[s], d) /\ d # c
             /\ pins[s] # <<>> /\ pins[s][1] # c =>
                  dropped(s) # <<>> /\ dropped(s)[1] = pins[s][1]
  <2>1. pins[s] \in Seq(Columns) /\ Once(pins[s])
    BY DEF ColumnsInv, PinsOK
  <2> QED BY <2>1, Drops
<1> HIDE DEF dropped
<1> DEFINE added == Append(dropped(side), c)
<1>3. /\ added \in Seq(Columns) /\ Once(added)
      /\ \A d : Holds(added, d) <=> Holds(dropped(side), d) \/ d = c
      /\ dropped(side) # <<>> => added # <<>> /\ added[1] = dropped(side)[1]
  <2> DEFINE t == dropped(side)
  <2>1. t \in Seq(Columns) /\ Once(t) /\ ~Holds(t, c)
    BY <1>2
  <2> HIDE DEF t
  <2>2. /\ Append(t, c) \in Seq(Columns) /\ Once(Append(t, c))
        /\ \A d : Holds(Append(t, c), d) <=> Holds(t, d) \/ d = c
        /\ t # <<>> => Append(t, c) # <<>> /\ Append(t, c)[1] = t[1]
    BY <2>1, Appends
  <2> QED BY <2>2 DEF t
<1> HIDE DEF added
<1>4. DOMAIN pins' = Sides /\ pins' = [s \in Sides |-> pins'[s]]
  BY <1>1
<1>5. \A s \in Sides : pins'[s] = IF s = side THEN added ELSE dropped(s)
  BY <1>1 DEF added
<1>6. \A s \in Sides :
        /\ pins'[s] \in Seq(Columns) /\ Once(pins'[s])
        /\ \A d : d # c => (Holds(pins'[s], d) <=> Holds(pins[s], d))
        /\ pins[s] # <<>> /\ pins[s][1] # c => pins'[s] # <<>> /\ pins'[s][1] = pins[s][1]
  BY <1>2, <1>3, <1>5
<1>7. ~(Holds(pins'["left"], c) /\ Holds(pins'["right"], c))
  BY <1>2, <1>5 DEF Sides
<1>8. PinsOK' /\ FirstOK'
  BY <1>1, <1>4, <1>6, <1>7, PinsFrom
<1> QED BY <1>1, <1>8, Stays, NotAMove DEF ColumnsInv

LEMMA Unpins ==
  ASSUME ColumnsInv, NEW c \in Columns, Unpin(c)
  PROVE  ColumnsInv'
<1> DEFINE dropped(s) == Dropping(pins[s], c)
<1>1. /\ c \notin Permanent /\ order' = order /\ moved' = NotMoved
      /\ pins' = [s \in Sides |-> dropped(s)]
  BY DEF Unpin
<1>2. ASSUME NEW s \in Sides
      PROVE  /\ dropped(s) \in Seq(Columns) /\ Once(dropped(s))
             /\ \A d : Holds(dropped(s), d) <=> Holds(pins[s], d) /\ d # c
             /\ pins[s] # <<>> /\ pins[s][1] # c =>
                  dropped(s) # <<>> /\ dropped(s)[1] = pins[s][1]
  <2>1. pins[s] \in Seq(Columns) /\ Once(pins[s])
    BY DEF ColumnsInv, PinsOK
  <2> QED BY <2>1, Drops
<1> HIDE DEF dropped
<1>3. DOMAIN pins' = Sides /\ pins' = [s \in Sides |-> pins'[s]]
      /\ \A s \in Sides : pins'[s] = dropped(s)
  BY <1>1
<1>4. \A s \in Sides :
        /\ pins'[s] \in Seq(Columns) /\ Once(pins'[s])
        /\ \A d : d # c => (Holds(pins'[s], d) <=> Holds(pins[s], d))
        /\ pins[s] # <<>> /\ pins[s][1] # c => pins'[s] # <<>> /\ pins'[s][1] = pins[s][1]
  BY <1>2, <1>3
<1>5. ~(Holds(pins'["left"], c) /\ Holds(pins'["right"], c))
  BY <1>2, <1>3 DEF Sides
<1>6. PinsOK' /\ FirstOK'
  BY <1>1, <1>3, <1>4, <1>5, PinsFrom
<1> QED BY <1>1, <1>6, Stays, NotAMove DEF ColumnsInv

\* The neighbour of a column that is not pinned, and with which it may change
\* places, is the next of those that are not pinned.
LEMMA FreeNeighbour ==
  ASSUME OrderOK, PinsOK, NEW c \in Free, NEW dir \in Sides, Movable(c, dir)
  PROVE  LET p == PlaceOf(Center, c)
             q == IF dir = "left" THEN p - 1 ELSE p + 1
         IN  /\ p \in 1 .. Len(Center) /\ q \in 1 .. Len(Center)
             /\ Center[p] = c /\ Center[q] \in Free /\ PlaceOf(Center, Center[q]) = q
             /\ PlaceOf(Shown, c) = Len(pins["left"]) + p
<1> DEFINE l == Len(pins["left"])
           m == Len(Center)
           n == Len(pins["right"])
           p == PlaceOf(Center, c)
           q == IF dir = "left" THEN p - 1 ELSE p + 1
           P == PlaceOf(Shown, c)
           nb == Shown[IF dir = "left" THEN P - 1 ELSE P + 1]
<1>1. /\ l \in Nat /\ m \in Nat /\ n \in Nat /\ Len(Shown) = l + m + n
      /\ \A k \in 1 .. l : Shown[k] = pins["left"][k] /\ Pinned(pins["left"][k])
      /\ \A k \in 1 .. m : Shown[l + k] = Center[k] /\ PlaceOf(Shown, Center[k]) = l + k
      /\ \A k \in 1 .. n : Shown[l + m + k] = pins["right"][k] /\ Pinned(pins["right"][k])
  BY ShownIs
<1>2. /\ Center \in Seq(Columns) /\ Once(Center)
      /\ \A d : Holds(Center, d) <=> d \in Free
  BY CenterIs
<1>3. DOMAIN Center = 1 .. m
  BY <1>2
<1>4. p \in 1 .. m /\ Center[p] = c
  BY <1>2, <1>3, PlaceHeld
<1>5. P = l + p
  BY <1>1, <1>4
<1>6. /\ (IF dir = "left" THEN P # 1 ELSE P # Len(Shown))
      /\ ~Pinned(nb)
  BY DEF Movable, HasNeighbour, Neighbour, Free
<1> HIDE DEF l, m, n, p, P
<1>7. q \in 1 .. m
  <2>1. CASE dir = "left"
    <3>1. p # 1
      <4> SUFFICES ASSUME p = 1 PROVE FALSE
        OBVIOUS
      <4>1. P - 1 \in 1 .. l
        BY <1>1, <1>4, <1>5, <1>6, <2>1, SMT
      <4>2. nb = Shown[P - 1]
        BY <2>1
      <4> QED BY <1>1, <1>6, <4>1, <4>2
    <3> QED BY <1>1, <1>4, <2>1, <3>1, SMT
  <2>2. CASE dir # "left"
    <3>1. p # m
      <4> SUFFICES ASSUME p = m PROVE FALSE
        OBVIOUS
      <4>1. 1 \in 1 .. n /\ P + 1 = l + m + 1
        BY <1>1, <1>4, <1>5, <1>6, <2>2, SMT
      <4>2. nb = Shown[l + m + 1]
        BY <2>2, <4>1
      <4> QED BY <1>1, <1>6, <4>1, <4>2
    <3> QED BY <1>1, <1>4, <2>2, <3>1, SMT
  <2> QED BY <2>1, <2>2
<1> HIDE DEF q
<1>8. Center[q] \in Free /\ PlaceOf(Center, Center[q]) = q
  BY <1>2, <1>3, <1>7, PlaceIs
<1> QED BY <1>4, <1>5, <1>7, <1>8 DEF l, m, p, q, P

LEMMA MovesFree ==
  ASSUME ColumnsInv, NEW c \in Columns, NEW dir \in Sides, MoveFree(c, dir)
  PROVE  ColumnsInv'
<1> DEFINE o == Ordered
           b == Center
           i == PlaceOf(o, c)
           p == PlaceOf(b, c)
           q == IF dir = "left" THEN p - 1 ELSE p + 1
           x == b[q]
           j == PlaceOf(o, x)
<1>1. /\ c \in Free /\ Movable(c, dir) /\ pins' = pins
      /\ order' = Reinserted(o, i, NextFree(c, dir))
      /\ moved' = [c |-> c, dir |-> dir, from |-> Shown]
  BY DEF MoveFree, Free
<1>2. OrderOK /\ PinsOK /\ FirstOK
  BY DEF ColumnsInv
<1>3. o \in Seq(Columns) /\ Once(o) /\ \A d \in Columns : Holds(o, d)
  BY <1>2, OrderedAll
<1>4. /\ b \in Seq(Columns) /\ Once(b) /\ \A d : Holds(b, d) <=> d \in Free
      /\ \A d, e \in Free : PlaceOf(o, d) < PlaceOf(o, e) => PlaceOf(b, d) < PlaceOf(b, e)
  BY <1>2, CenterIs
<1>5. /\ p \in 1 .. Len(b) /\ q \in 1 .. Len(b) /\ b[p] = c
      /\ x \in Free /\ PlaceOf(b, x) = q /\ PlaceOf(Shown, c) = Len(pins["left"]) + p
  BY <1>1, <1>2, FreeNeighbour
<1>6. Len(b) \in Nat /\ Len(o) \in Nat /\ DOMAIN o = 1 .. Len(o)
  BY <1>3, <1>4
<1>7. Free \in SUBSET Columns /\ \A d \in Columns : d \in Free <=> ~Pinned(d)
  BY DEF Free
<1>8. i \in 1 .. Len(o) /\ o[i] = c /\ j \in 1 .. Len(o) /\ o[j] = x
  BY <1>3, <1>5, <1>6, <1>7, PlaceHeld
<1>9. \A k \in 1 .. Len(o) : PlaceOf(o, o[k]) = k /\ o[k] \in Columns
  BY <1>3, <1>6, PlaceIs
<1>10. NextFree(c, dir) = IF dir = "left"
         THEN CHOOSE k \in {h \in 1 .. Len(o) : o[h] \in Free} :
                k < i /\ \A h \in {g \in 1 .. Len(o) : o[g] \in Free} : h < i => h <= k
         ELSE CHOOSE k \in {h \in 1 .. Len(o) : o[h] \in Free} :
                k > i /\ \A h \in {g \in 1 .. Len(o) : o[g] \in Free} : h > i => h >= k
  <2> DEFINE f == {k \in DOMAIN o : ~Pinned(o[k])}
             g == {h \in 1 .. Len(o) : o[h] \in Free}
  <2>1. f = g
    BY <1>6, <1>7, <1>9
  <2>2. NextFree(c, dir) = IF dir = "left"
          THEN CHOOSE k \in f : k < i /\ \A h \in f : h < i => h <= k
          ELSE CHOOSE k \in f : k > i /\ \A h \in f : h > i => h >= k
    BY DEF NextFree
  <2> HIDE DEF f, g
  <2>3. NextFree(c, dir) = IF dir = "left"
          THEN CHOOSE k \in g : k < i /\ \A h \in g : h < i => h <= k
          ELSE CHOOSE k \in g : k > i /\ \A h \in g : h > i => h >= k
    BY <2>1, <2>2
  <2> QED BY <2>3 DEF g
<1> HIDE DEF o, b, q
<1> HIDE DEF i, p, x, j
<1>11. p \in Int /\ q \in Int /\ p # q /\ (dir = "left" => q = p - 1) /\ (dir # "left" => q = p + 1)
  BY <1>5, <1>6, SMT DEF q
<1>12. i # j
  <2>1. i = j => c = x
    BY <1>8
  <2>2. c = x => p = q
    BY <1>5 DEF p
  <2> QED BY <1>11, <2>1, <2>2
<1>13. ASSUME NEW k \in 1 .. Len(o), o[k] \in Free
       PROVE  /\ PlaceOf(b, o[k]) \in Int
              /\ k < i => PlaceOf(b, o[k]) < p
              /\ i < k => p < PlaceOf(b, o[k])
              /\ k < j => PlaceOf(b, o[k]) < q
              /\ j < k => q < PlaceOf(b, o[k])
  <2>1. PlaceOf(b, o[k]) \in DOMAIN b /\ DOMAIN b = 1 .. Len(b)
    BY <1>4, <1>13, PlaceHeld
  <2>2. PlaceOf(b, o[k]) \in Int
    BY <1>6, <2>1, SMT
  <2>3. PlaceOf(o, o[k]) = k /\ PlaceOf(o, c) = i /\ PlaceOf(o, x) = j
    BY <1>9 DEF i, j
  <2>4. PlaceOf(b, c) = p /\ PlaceOf(b, x) = q
    BY <1>5 DEF p
  <2> QED BY <1>1, <1>4, <1>5, <1>13, <2>2, <2>3, <2>4
<1>14. (dir = "left" => j < i) /\ (dir # "left" => i < j)
  <2>1. o[j] \in Free /\ PlaceOf(b, o[j]) = q
    BY <1>5, <1>8
  <2>2. (j < i => q < p) /\ (i < j => p < q)
    BY <1>8, <1>13, <2>1
  <2>3. i \in Int /\ j \in Int
    BY <1>6, <1>8, SMT
  <2> QED BY <1>11, <1>12, <2>2, <2>3, SMT
<1>15. ASSUME NEW k \in 1 .. Len(o), (i < k /\ k < j) \/ (j < k /\ k < i)
       PROVE  o[k] \notin Free
  <2> SUFFICES ASSUME o[k] \in Free PROVE FALSE
    OBVIOUS
  <2>1. /\ PlaceOf(b, o[k]) \in Int
        /\ k < i => PlaceOf(b, o[k]) < p
        /\ i < k => p < PlaceOf(b, o[k])
        /\ k < j => PlaceOf(b, o[k]) < q
        /\ j < k => q < PlaceOf(b, o[k])
    BY <1>13
  <2>2. k \in Int /\ i \in Int /\ j \in Int
    BY <1>6, <1>8, SMT
  <2> QED BY <1>11, <1>14, <1>15, <2>1, <2>2, SMT
<1>16. NextFree(c, dir) = j
  <2> DEFINE J == {h \in 1 .. Len(o) : o[h] \in Free}
             L(k) == k < i /\ \A h \in J : h < i => h <= k
             G(k) == k > i /\ \A h \in J : h > i => h >= k
  <2>1. j \in J /\ \A k \in J : k \in Int
    BY <1>5, <1>6, <1>8, SMT
  <2>2. i \in Int
    BY <1>6, <1>8, SMT
  <2>3. \A h \in J : ~(i < h /\ h < j) /\ ~(j < h /\ h < i)
    BY <1>15
  <2>4. CASE dir = "left"
    <3>1. NextFree(c, dir) = CHOOSE k \in J : L(k)
      BY <1>10, <2>4
    <3> HIDE DEF J
    <3>2. L(j)
      BY <1>14, <2>1, <2>2, <2>3, <2>4, SMT
    <3>3. \A k \in J : L(k) => k = j
      BY <1>14, <2>1, <2>2, <2>4, <3>2, SMT
    <3> HIDE DEF L
    <3> QED BY <2>1, <3>1, <3>2, <3>3
  <2>5. CASE dir # "left"
    <3>1. NextFree(c, dir) = CHOOSE k \in J : G(k)
      BY <1>10, <2>5
    <3> HIDE DEF J
    <3>2. G(j)
      BY <1>14, <2>1, <2>2, <2>3, <2>5, SMT
    <3>3. \A k \in J : G(k) => k = j
      BY <1>14, <2>1, <2>2, <2>5, <3>2, SMT
    <3> HIDE DEF G
    <3> QED BY <2>1, <3>1, <3>2, <3>3
  <2> QED BY <2>4, <2>5
<1> DEFINE t == MovedTo(o, i, j)
<1>17. order' = t
  <2>1. j \in Nat
    BY <1>6, <1>8, SMT
  <2>2. PICK a \in 1 .. Len(o) : Reinserted(o, i, j) = MovedTo(o, i, a) /\ (j \in 1 .. Len(o) => a = j)
    BY <1>3, <1>8, <2>1, Reinserts
  <2> QED BY <1>1, <1>8, <1>16, <2>2
<1>18. /\ t \in Seq(Columns) /\ Len(t) = Len(o) /\ Once(t)
       /\ \A d : Holds(t, d) <=> Holds(o, d)
  BY <1>3, <1>8, MovedKeeps
<1> DEFINE v == Those(t, Free)
<1>19. /\ Len(v) = Len(b)
       /\ \A k \in 1 .. Len(b) :
            v[k] = IF k = p THEN x ELSE IF k = q THEN c ELSE b[k]
  <2>1. b = Those(o, Free)
    BY DEF b, o, Center, Free
  <2> DEFINE u == Those(o, Free)
  <2>2. IsFiniteSet(Columns) /\ o[i] \in Free /\ o[j] \in Free
    BY <1>1, <1>5, <1>8, ColumnsAssumption DEF ColumnsAssumption
  <2>3. /\ Len(v) = Len(u)
        /\ \A k \in 1 .. Len(u) :
             v[k] = IF k = PlaceOf(u, o[i]) THEN o[j]
                    ELSE IF k = PlaceOf(u, o[j]) THEN o[i] ELSE u[k]
    BY <1>3, <1>7, <1>8, <1>12, <1>15, <2>2, Passes
  <2> HIDE DEF u, v
  <2>4. u = b /\ PlaceOf(b, c) = p
    BY <2>1 DEF u, p
  <2> QED BY <1>5, <1>8, <2>3, <2>4
<1> HIDE DEF t
<1>20. OrderOK' /\ t # <<>>
  <2>1. t # <<>>
    BY <1>6, <1>8, <1>18, SMT
  <2> QED BY <1>3, <1>17, <1>18, <2>1 DEF OrderOK
<1>21. PinsOK' /\ FirstOK'
  BY <1>1, <1>2 DEF PinsOK, FirstOK
<1>22. Center' = v
  <2>1. Ordered' = t
    BY <1>17, <1>20 DEF Ordered
  <2>2. {d \in Columns : ~Pinned(d)'} = Free
    BY <1>1 DEF Pinned, Free
  <2> QED BY <2>1, <2>2 DEF Center
<1> HIDE DEF v
<1>23. Shown' = Swapped(Shown, Len(pins["left"]) + p, Len(pins["left"]) + q)
  <2> DEFINE a == pins["left"]
             d == pins["right"]
             s == Shown
             w == Shown'
  <2>1. /\ a \in Seq(Columns) /\ d \in Seq(Columns) /\ b \in Seq(Columns)
        /\ Len(a) \in Nat /\ Len(d) \in Nat
    BY <1>2, <1>4 DEF PinsOK, Sides
  <2>2. v \in Seq(Columns)
    <3>1. IsFiniteSet(Columns)
      BY ColumnsAssumption DEF ColumnsAssumption
    <3> QED BY <1>7, <1>18, <3>1, ThoseAre DEF v
  <2>3. s = a \o b \o d /\ w = a \o v \o d
    BY <1>1, <1>22 DEF Shown, b
  <2> HIDE DEF a, d, s, w
  <2>4. /\ s \in Seq(Columns) /\ Len(s) = Len(a) + Len(b) + Len(d)
        /\ \A k \in 1 .. Len(a) + Len(b) + Len(d) :
             s[k] = IF k <= Len(a) THEN a[k]
                    ELSE IF k <= Len(a) + Len(b) THEN b[k - Len(a)]
                    ELSE d[k - Len(a) - Len(b)]
    BY ONLY <2>1, <2>3, Threes, SMT
  <2>5. /\ w \in Seq(Columns) /\ Len(w) = Len(a) + Len(v) + Len(d)
        /\ \A k \in 1 .. Len(a) + Len(v) + Len(d) :
             w[k] = IF k <= Len(a) THEN a[k]
                    ELSE IF k <= Len(a) + Len(v) THEN v[k - Len(a)]
                    ELSE d[k - Len(a) - Len(v)]
    BY ONLY <2>1, <2>2, <2>3, Threes, SMT
  <2>6. \A k \in 1 .. Len(b) : s[Len(a) + k] = b[k]
    BY <1>2, ShownIs DEF s, a, b
  <2>7. Len(w) = Len(s) /\ Len(a) + Len(b) <= Len(s)
    BY <1>6, <1>19, <2>1, <2>4, <2>5, SMT
  <2>8. ASSUME NEW k \in 1 .. Len(s)
        PROVE  w[k] = IF Len(a) < k /\ k <= Len(a) + Len(b) THEN v[k - Len(a)] ELSE s[k]
    <3>1. k <= Len(a) => k <= Len(a) + Len(b)
      BY <1>6, <2>1, SMT
    <3>2. Len(a) < k <=> ~(k <= Len(a))
      BY <1>6, <2>1, <2>4, SMT
    <3> QED BY <1>19, <2>4, <2>5, <3>1, <3>2
  <2>9. p \in 1 .. Len(b) /\ q \in 1 .. Len(b) /\ x = b[q] /\ c = b[p]
    BY <1>5 DEF x
  <2>10. \A k \in 1 .. Len(b) : v[k] = IF k = p THEN b[q] ELSE IF k = q THEN b[p] ELSE b[k]
    BY <1>19, <2>9
  <2>11. w = Swapped(s, Len(a) + p, Len(a) + q)
    <3> DEFINE base == Len(a)
    <3>1. base \in Nat
      BY <2>1
    <3> HIDE DEF base
    <3>2. /\ base + Len(b) <= Len(s) /\ \A k \in 1 .. Len(b) : s[base + k] = b[k]
          /\ \A k \in 1 .. Len(s) :
               w[k] = IF base < k /\ k <= base + Len(b) THEN v[k - base] ELSE s[k]
      BY <2>6, <2>7, <2>8 DEF base
    <3>3. w = Swapped(s, base + p, base + q)
      <4>1. /\ s \in Seq(Columns) /\ w \in Seq(Columns) /\ b \in Seq(Columns)
            /\ Len(w) = Len(s) /\ p \in 1 .. Len(b) /\ q \in 1 .. Len(b)
        BY <2>1, <2>4, <2>5, <2>7, <2>9
      <4>2. PartSwapped(s, w, b, v, base, p, q)
        BY <4>1, <2>10, <3>1, <3>2 DEF PartSwapped
      <4> QED BY <4>2, SwapsPart
    <3> QED BY <3>3 DEF base
  <2> QED BY <2>11 DEF s, a, w
<1>24. MovesItsWay'
  <2> DEFINE h == PlaceOf(Shown, c)
             g == IF dir = "left" THEN h - 1 ELSE h + 1
  <2>1. h = Len(pins["left"]) + p /\ g = Len(pins["left"]) + q
    <3>1. Len(pins["left"]) \in Nat
      BY <1>2 DEF PinsOK, Sides
    <3> QED BY <1>5, <1>11, <3>1, SMT
  <2> HIDE DEF h
  <2>2. Shown' = [Shown EXCEPT ![h] = Shown[g], ![g] = Shown[h]]
    BY <1>23, <2>1 DEF Swapped
  <2> QED BY <1>1, <2>2, Zenon DEF MovesItsWay, h
<1> QED BY <1>20, <1>21, <1>24 DEF ColumnsInv

\* The neighbour of a pinned column, and with which it may change places, is
\* the next pin of its side, and not the first one on the right.
LEMMA PinnedNeighbour ==
  ASSUME OrderOK, PinsOK, FirstOK, Permanent # {}, NEW dir \in Sides, NEW side \in Sides,
         NEW c, Pinned(c), Holds(pins[side], c), Movable(c, dir)
  PROVE  LET s == pins[side]
             i == PlaceOf(s, c)
             j == IF dir = "left" THEN i - 1 ELSE i + 1
             base == IF side = "left" THEN 0 ELSE Len(pins["left"]) + Len(Center)
         IN  /\ i \in 1 .. Len(s) /\ j \in 1 .. Len(s) /\ s[i] = c
             /\ PlaceOf(Shown, c) = base + i
             /\ side = "right" => i # 1 /\ j # 1
<1> DEFINE l == Len(pins["left"])
           m == Len(Center)
           n == Len(pins["right"])
           s == pins[side]
           i == PlaceOf(s, c)
           j == IF dir = "left" THEN i - 1 ELSE i + 1
           base == IF side = "left" THEN 0 ELSE l + m
           P == PlaceOf(Shown, c)
           nb == Shown[IF dir = "left" THEN P - 1 ELSE P + 1]
<1>1. /\ l \in Nat /\ m \in Nat /\ n \in Nat /\ Len(Shown) = l + m + n
      /\ \A k \in 1 .. l : Shown[k] = pins["left"][k] /\ PlaceOf(Shown, pins["left"][k]) = k
      /\ \A k \in 1 .. m : Shown[l + k] = Center[k] /\ ~Pinned(Center[k])
      /\ \A k \in 1 .. n : /\ Shown[l + m + k] = pins["right"][k]
                           /\ PlaceOf(Shown, pins["right"][k]) = l + m + k
  BY ShownIs
<1>2. s \in Seq(Columns) /\ DOMAIN s = 1 .. Len(s) /\ Len(s) \in Nat
  <2>1. s \in Seq(Columns)
    BY DEF PinsOK
  <2> QED BY <2>1
<1>3. i \in 1 .. Len(s) /\ s[i] = c
  BY <1>2, PlaceHeld
<1>4. /\ (IF dir = "left" THEN P # 1 ELSE P # Len(Shown))
      /\ Pinned(nb) /\ c \notin Permanent /\ nb \notin Permanent
  BY DEF Movable, HasNeighbour, Neighbour
<1>5. pins["right"][1] \in Permanent /\ n # 0 /\ pins["right"] \in Seq(Columns)
  <2>1. pins["right"] \in Seq(Columns)
    BY DEF PinsOK, Sides
  <2> QED BY <2>1 DEF FirstOK
<1>6. (side = "left" => s = pins["left"]) /\ (side = "right" => s = pins["right"])
      /\ (side = "left" \/ side = "right") /\ (dir = "left" \/ dir = "right")
  BY DEF Sides
<1>7. P = base + i
  <2>1. CASE side = "left"
    <3>1. base = 0 /\ s = pins["left"]
      BY <2>1
    <3> HIDE DEF base, i, s
    <3>2. i \in 1 .. l
      BY <1>3, <3>1
    <3>3. PlaceOf(Shown, pins["left"][i]) = i
      BY <1>1, <3>2
    <3>4. P = i /\ i \in Int
      BY <1>1, <1>3, <3>1, <3>2, <3>3
    <3> HIDE DEF P
    <3> QED BY <3>1, <3>4, SMT
  <2>2. CASE side = "right"
    BY <1>1, <1>3, <1>6, <2>2
  <2> QED BY <1>6, <2>1, <2>2
<1> HIDE DEF i, P, s, l, m, n
<1>8. CASE side = "left"
  <2>1. Len(s) = l /\ P = i
    BY <1>3, <1>1, <1>2, <1>6, <1>7, <1>8 DEF l
  <2>2. j \in 1 .. Len(s)
    <3>1. CASE dir = "left"
      BY <1>3, <1>4, <1>2, <2>1, <3>1, SMT
    <3>2. CASE dir = "right"
      <4>1. i # Len(s)
        <5> SUFFICES ASSUME i = Len(s) PROVE FALSE
          OBVIOUS
        <5>1. nb = Shown[l + 1]
          BY <2>1, <3>2
        <5>2. CASE m = 0
          <6>1. 1 \in 1 .. n /\ l + m + 1 = l + 1
            BY <1>1, <1>5, <5>2, SMT
          <6>2. Shown[l + m + 1] = pins["right"][1]
            BY <1>1, <6>1
          <6> QED BY <1>4, <1>5, <5>1, <6>1, <6>2
        <5>3. CASE m # 0
          <6>1. 1 \in 1 .. m
            BY <1>1, <5>3, SMT
          <6> QED BY <1>1, <1>4, <5>1, <6>1
        <5> QED BY <5>2, <5>3
      <4>2. j = i + 1
        BY <3>2
      <4> HIDE DEF j
      <4>3. i \in 1 .. Len(s) /\ Len(s) \in Nat
        BY <1>2, <1>3
      <4> QED BY ONLY <4>1, <4>2, <4>3, SMT
    <3> QED BY <1>6, <3>1, <3>2
  <2> QED BY <1>3, <1>7, <1>8, <2>2 DEF i, s, l, m, P
<1>9. CASE side = "right"
  <2>1. Len(s) = n /\ P = l + m + i
    BY <1>6, <1>7, <1>9 DEF n
  <2>2. i # 1
    BY <1>3, <1>4, <1>5, <1>6, <1>9
  <2>3. j \in 1 .. Len(s)
    BY <1>1, <1>2, <1>3, <1>4, <1>6, <2>1, <2>2, SMT
  <2>4. j # 1
    <3> SUFFICES ASSUME j = 1 PROVE FALSE
      OBVIOUS
    <3>1. dir = "left" /\ P - 1 = l + m + 1 /\ 1 \in 1 .. n
      BY <1>1, <1>2, <1>3, <1>6, <2>1, <2>3, SMT
    <3>2. nb = Shown[l + m + 1]
      BY <3>1
    <3> QED BY <1>1, <1>4, <1>5, <3>1, <3>2
  <2> QED BY <1>3, <1>7, <1>9, <2>2, <2>3, <2>4 DEF i, s, l, m, P
<1> QED BY <1>6, <1>8, <1>9

LEMMA MovesPinned ==
  ASSUME ColumnsInv, NEW c \in Columns, NEW dir \in Sides, MovePinned(c, dir)
  PROVE  ColumnsInv'
<1>1. PICK side \in Sides :
        /\ Holds(pins[side], c)
        /\ LET i == PlaceOf(pins[side], c)
               j == IF dir = "left" THEN i - 1 ELSE i + 1
           IN  pins' = [pins EXCEPT ![side] = Reinserted(@, i, j)]
  BY Zenon DEF MovePinned
<1> DEFINE s == pins[side]
           i == PlaceOf(s, c)
           j == IF dir = "left" THEN i - 1 ELSE i + 1
<1>2. /\ Pinned(c) /\ Movable(c, dir) /\ order' = order /\ Holds(s, c)
      /\ moved' = [c |-> c, dir |-> dir, from |-> Shown]
      /\ pins' = [pins EXCEPT ![side] = Reinserted(s, i, j)]
  BY <1>1 DEF MovePinned
<1>3. OrderOK /\ PinsOK /\ FirstOK
  BY DEF ColumnsInv
<1>4. s \in Seq(Columns) /\ Once(s) /\ DOMAIN s = 1 .. Len(s) /\ Len(s) \in Nat
  <2>1. s \in Seq(Columns) /\ Once(s)
    BY <1>3 DEF PinsOK
  <2> QED BY <2>1
<1>5. i \in 1 .. Len(s) /\ s[i] = c
  BY <1>2, <1>4, PlaceHeld
<1> HIDE DEF s, i
<1>6. j \in Nat
  BY <1>4, <1>5, SMT
<1> HIDE DEF j
<1>7. PICK a \in 1 .. Len(s) :
        Reinserted(s, i, j) = MovedTo(s, i, a) /\ (j \in 1 .. Len(s) => a = j)
  BY <1>4, <1>5, <1>6, Reinserts
<1> DEFINE t == MovedTo(s, i, a)
<1>8. /\ t \in Seq(Columns) /\ Len(t) = Len(s) /\ Once(t)
      /\ \A d : Holds(t, d) <=> Holds(s, d)
  BY <1>4, <1>5, MovedKeeps
<1> HIDE DEF t
<1>9. /\ pins' \in [Sides -> Seq(Columns)]
      /\ \A z \in Sides : pins'[z] = IF z = side THEN t ELSE pins[z]
  <2>1. pins \in [Sides -> Seq(Columns)] /\ pins' = [pins EXCEPT ![side] = t]
    BY <1>2, <1>3, <1>7 DEF PinsOK, t
  <2> QED BY <1>8, <2>1
<1>10. \A z \in Sides : Once(pins'[z]) /\ \A d : Holds(pins'[z], d) <=> Holds(pins[z], d)
  BY <1>3, <1>8, <1>9 DEF PinsOK, s
<1>11. PinsOK'
  <2>1. NoneShared(pins'["left"], pins'["right"])
    BY <1>3, <1>10 DEF PinsOK, NoneShared, Sides
  <2> QED BY <1>9, <1>10, <2>1 DEF PinsOK
<1>12. OrderOK'
  BY <1>2, Stays
<1>13. Center' = Center
  <2>1. {d \in Columns : ~Pinned(d)'} = {d \in Columns : ~Pinned(d)}
    BY <1>10 DEF Pinned
  <2>2. Ordered' = Ordered
    BY <1>2 DEF Ordered
  <2> QED BY <2>1, <2>2 DEF Center
<1>14. CASE Permanent = {}
  BY <1>11, <1>12, <1>14 DEF ColumnsInv, FirstOK, MovesItsWay
<1>15. CASE Permanent # {}
  <2> DEFINE u == pins["left"]
             d == pins["right"]
             b == Center
             base == IF side = "left" THEN 0 ELSE Len(u) + Len(b)
  <2>1. /\ j \in 1 .. Len(s) /\ PlaceOf(Shown, c) = base + i
        /\ side = "right" => i # 1 /\ j # 1
    BY <1>2, <1>3, <1>15, PinnedNeighbour DEF s, i, j
  <2>2. /\ u \in Seq(Columns) /\ d \in Seq(Columns) /\ b \in Seq(Columns)
        /\ Len(u) \in Nat /\ Len(d) \in Nat /\ Len(b) \in Nat
    <3>1. u \in Seq(Columns) /\ d \in Seq(Columns) /\ b \in Seq(Columns)
      BY <1>3, CenterIs DEF PinsOK, Sides
    <3> QED BY <3>1
  <2>3. \A k \in 1 .. Len(s) : t[k] = IF k = i THEN s[j] ELSE IF k = j THEN s[i] ELSE s[k]
    <3>1. t = MovedTo(s, i, j)
      BY <1>7, <2>1 DEF t
    <3>2. j = i - 1 \/ j = i + 1
      BY DEF j
    <3>3. ASSUME NEW k \in 1 .. Len(s)
          PROVE  From(i, j, k) = IF k = i THEN j ELSE IF k = j THEN i ELSE k
      BY <1>4, <1>5, <2>1, <3>2, SMT DEF From
    <3>4. \A k \in 1 .. Len(s) : t[k] = s[From(i, j, k)]
      BY <3>1 DEF MovedTo
    <3> QED BY <3>3, <3>4
  <2>4. side = "left" \/ side = "right"
    BY DEF Sides
  <2>5. FirstOK'
    <3>1. CASE side = "left"
      <4>1. pins'["right"] = pins["right"]
        BY <1>9, <3>1 DEF Sides
      <4> QED BY <1>3, <4>1 DEF FirstOK
    <3>2. CASE side = "right"
      <4>1. pins'["right"] = t /\ s = pins["right"]
        BY <1>9, <3>2 DEF Sides, s
      <4>2. 1 \in 1 .. Len(s)
        BY <1>4, <1>5, SMT
      <4>3. t[1] = s[1]
        BY <2>1, <2>3, <3>2, <4>2
      <4>4. t # <<>>
        BY <1>8, <4>2, SMT
      <4> QED BY <1>3, <4>1, <4>3, <4>4 DEF FirstOK
    <3> QED BY <2>4, <3>1, <3>2
  <2> DEFINE x == Shown
             y == Shown'
             u2 == pins'["left"]
             d2 == pins'["right"]
  <2>6. x = u \o b \o d /\ y = u2 \o b \o d2
    BY <1>13 DEF Shown
  <2>7. /\ u2 \in Seq(Columns) /\ d2 \in Seq(Columns)
        /\ u2 = (IF side = "left" THEN t ELSE u) /\ d2 = (IF side = "left" THEN d ELSE t)
        /\ s = (IF side = "left" THEN u ELSE d)
    BY <1>9, <2>4 DEF Sides, s
  <2> HIDE DEF u, d, b, x, y, u2, d2
  <2>8. Len(u2) = Len(u) /\ Len(d2) = Len(d)
    BY <1>8, <2>7
  <2>9. /\ x \in Seq(Columns) /\ Len(x) = Len(u) + Len(b) + Len(d)
        /\ \A k \in 1 .. Len(u) + Len(b) + Len(d) :
             x[k] = IF k <= Len(u) THEN u[k]
                    ELSE IF k <= Len(u) + Len(b) THEN b[k - Len(u)]
                    ELSE d[k - Len(u) - Len(b)]
    BY ONLY <2>2, <2>6, Threes, SMT
  <2>10. /\ y \in Seq(Columns) /\ Len(y) = Len(u2) + Len(b) + Len(d2)
         /\ \A k \in 1 .. Len(u2) + Len(b) + Len(d2) :
              y[k] = IF k <= Len(u2) THEN u2[k]
                     ELSE IF k <= Len(u2) + Len(b) THEN b[k - Len(u2)]
                     ELSE d2[k - Len(u2) - Len(b)]
    BY ONLY <2>2, <2>6, <2>7, Threes, SMT
  <2>11. \A k \in 1 .. Len(s) : x[base + k] = s[k]
    <3>1. /\ \A k \in 1 .. Len(u) : x[k] = u[k]
          /\ \A k \in 1 .. Len(d) : x[Len(u) + Len(b) + k] = d[k]
      BY <1>3, ShownIs DEF x, u, b, d
    <3>2. CASE side = "left"
      <4>1. \A k \in 1 .. Len(u) : base + k = k
        BY <2>2, <3>2, SMT
      <4> QED BY <2>7, <3>1, <3>2, <4>1
    <3>3. CASE side # "left"
      BY <2>7, <3>1, <3>3
    <3> QED BY <3>2, <3>3
  <2>12. base \in Nat /\ base + Len(s) <= Len(x) /\ Len(y) = Len(x)
    <3>1. base \in Nat
      BY <2>2, SMT
    <3>2. CASE side = "left"
      BY <2>2, <2>7, <2>8, <2>9, <2>10, <3>2, SMT
    <3>3. CASE side # "left"
      BY <2>2, <2>7, <2>8, <2>9, <2>10, <3>3, SMT
    <3> QED BY <3>1, <3>2, <3>3
  <2>13. ASSUME NEW k \in 1 .. Len(x)
         PROVE  y[k] = IF base < k /\ k <= base + Len(s) THEN t[k - base] ELSE x[k]
    <3>1. /\ x[k] = IF k <= Len(u) THEN u[k]
                    ELSE IF k <= Len(u) + Len(b) THEN b[k - Len(u)]
                    ELSE d[k - Len(u) - Len(b)]
          /\ y[k] = IF k <= Len(u) THEN u2[k]
                    ELSE IF k <= Len(u) + Len(b) THEN b[k - Len(u)]
                    ELSE d2[k - Len(u) - Len(b)]
      BY <2>8, <2>9, <2>10
    <3>2. CASE side = "left"
      <4>1. /\ base < k /\ k <= base + Len(s) <=> k <= Len(u)
            /\ k - base = k
        BY <2>2, <2>7, <2>9, <3>2, SMT
      <4> QED BY <2>7, <3>1, <3>2, <4>1
    <3>3. CASE side # "left"
      <4>1. /\ base < k /\ k <= base + Len(s) <=> ~(k <= Len(u)) /\ ~(k <= Len(u) + Len(b))
            /\ k - base = k - Len(u) - Len(b)
        BY <2>2, <2>7, <2>9, <3>3, SMT
      <4> QED BY <2>7, <3>1, <3>3, <4>1
    <3> QED BY <3>2, <3>3
  <2> HIDE DEF base
  <2>14. PartSwapped(x, y, s, t, base, i, j)
    BY <1>4, <1>5, <2>1, <2>3, <2>9, <2>10, <2>11, <2>12, <2>13 DEF PartSwapped
  <2>15. y = Swapped(x, base + i, base + j)
    BY <2>14, SwapsPart
  <2>16. MovesItsWay'
    <3> DEFINE h == PlaceOf(Shown, c)
               g == IF dir = "left" THEN h - 1 ELSE h + 1
    <3>1. h = base + i /\ g = base + j
      <4>1. h = base + i
        BY <2>1
      <4> HIDE DEF h
      <4> QED BY <1>4, <1>5, <2>12, <4>1, SMT DEF j
    <3> HIDE DEF h
    <3>2. Shown' = [Shown EXCEPT ![h] = Shown[g], ![g] = Shown[h]]
      BY <2>15, <3>1 DEF Swapped, x, y
    <3> QED BY <1>2, <3>2, Zenon DEF MovesItsWay, h
  <2> QED BY <1>11, <1>12, <2>5, <2>16 DEF ColumnsInv
<1> QED BY <1>14, <1>15

LEMMA StepsColumns ==
  ColumnsInv /\ [ColumnsNext]_columnsVars => ColumnsInv'
<1> SUFFICES ASSUME ColumnsInv, [ColumnsNext]_columnsVars PROVE ColumnsInv'
  OBVIOUS
<1>1. CASE ColumnsNext
  BY <1>1, Pins, MovesFree, MovesPinned, Unpins DEF ColumnsNext
<1>2. CASE UNCHANGED columnsVars
  BY <1>2 DEF columnsVars, ColumnsInv, OrderOK, PinsOK, FirstOK, MovesItsWay, Shown, Center,
              Ordered, Pinned
<1> QED BY <1>1, <1>2

\* Where there is a permanent column, a move changes a column's place with its
\* neighbour's and no other, whatever was pinned, unpinned and moved before.
THEOREM MovesAsShown == ColumnsSpec => []MovesItsWay
<1>1. ColumnsInv => MovesItsWay
  BY DEF ColumnsInv
<1> QED BY <1>1, StartsColumns, StepsColumns, PTL DEF ColumnsSpec
=============================================================================
