------------------------------- MODULE Tables --------------------------------
(***************************************************************************)
(* The console's lists: the page, page size, order, filter and search text *)
(* on screen, the query they make, the answers kept per query, and the     *)
(* rows and the total that the table and its footer show.                  *)
(*                                                                         *)
(* A query is known by its key.  What the page asks for follows the        *)
(* controls, some of them half a second late; its first answer is awaited, *)
(* an older one is shown until the next comes.                             *)
(***************************************************************************)
EXTENDS Naturals, Sequences, FiniteSets

CONSTANTS
    Items,        \* ids of rows, in the order of their insertion
    Age,          \* created_at of a credential
    Marks,        \* statuses that the filter offers
    Texts,        \* what may be typed in the search of students
    Named,        \* the students whose name holds a text
    Unsearchable, \* texts that the server's pattern of a filter refuses
    PageSizes, DefaultSize,
    Fixed,        \* the filter of the pending list
    MaxMoves, MaxWrites, MaxLost  \* bounds: clicks, changes, lost answers

ASSUME TablesAssumption ==
    /\ Items \subseteq Nat /\ IsFiniteSet(Items)
    /\ Age \in [Items -> Nat]
    /\ Fixed \in Marks
    /\ Named \in [Texts -> SUBSET Items] /\ Unsearchable \subseteq Texts
    /\ PageSizes \subseteq 1 .. 100 /\ DefaultSize \in PageSizes
    /\ MaxMoves \in Nat /\ MaxWrites \in Nat /\ MaxLost \in Nat

VARIABLES
    state,    \* verifiable_credential: status of a row, "absent" before it is there
    screen,   \* component state: list, page, size, order, filter, typed text
    late,     \* the debounced page, size, order and text
    kept,     \* PaginationProvider: page and size of two lists, across visits
    cache,    \* the query client's data by key
    flight,   \* fetches under way by key
    failed,   \* keys whose last fetch failed
    total,    \* totalItems: the number the footer works with
    walk,     \* rows seen by going through the pages from the first
    used      \* clicks, changes and lost answers so far

tablesVars == <<state, screen, late, kept, cache, flight, failed, total, walk, used>>

-----------------------------------------------------------------------------
Lists    == {"overall", "pending", "dashboard", "students", "schemas"}
Keeping  == {"overall", "pending"}
Footed   == Lists \ {"dashboard"}
Orders   == {"none", "asc", "desc"}

TableOf(list) == IF list \in {"overall", "pending", "dashboard"} THEN "vc" ELSE list

Fresh(list) == [list |-> list, page |-> 1, size |-> DefaultSize, sort |-> "none",
                ticked |-> {}, typed |-> {}]

\* What is debounced; typed: no text, or one.
Params(s) == [page |-> s.page, size |-> s.size, sort |-> s.sort, typed |-> s.typed]

Open == screen.list # "away"

\* Page and size as the footer shows them.
Place == IF screen.list \in Keeping THEN kept[screen.list]
                                    ELSE [page |-> screen.page, size |-> screen.size]

\* Mutant of Key: credentials are asked for under the debounced order only.
KeyWithoutFilter ==
    [table  |-> TableOf(screen.list),
     page   |-> IF screen.list \in Keeping THEN kept[screen.list].page ELSE late.page,
     size   |-> IF screen.list \in Keeping THEN kept[screen.list].size ELSE late.size,
     sort   |-> late.sort,
     filter |-> {}]

\* The query's key.  Lists of credentials with a page kept take page, size and
\* filter as they are, and the order late.
Key ==
    [table  |-> TableOf(screen.list),
     page   |-> IF screen.list \in Keeping THEN kept[screen.list].page ELSE late.page,
     size   |-> IF screen.list \in Keeping THEN kept[screen.list].size ELSE late.size,
     sort   |-> late.sort,
     filter |-> CASE screen.list = "pending"  -> {Fixed}
                  [] screen.list = "students" -> late.typed
                  [] OTHER                    -> screen.ticked]

Cached(k) == k \in DOMAIN cache
Rows      == IF Open /\ Cached(Key) THEN cache[Key].rows ELSE <<>>
RowSet    == {Rows[i] : i \in DOMAIN Rows}
Pages     == (total + Place.size - 1) \div Place.size

-----------------------------------------------------------------------------
(***************************************************************************)
(* The server.                                                             *)
(***************************************************************************)
Matching(table, filter) ==
    CASE table = "vc" ->
            {i \in Items : state[i] # "absent" /\ (filter = {} \/ state[i] \in filter)}
      [] table = "students" -> {i \in Items : \A x \in filter : i \in Named[x]}
      [] OTHER -> Items

\* Rows of equal age come in the order of their ids.
Before(sort, a, b) ==
    IF sort = "none" \/ Age[a] = Age[b] THEN a < b
    ELSE (Age[a] < Age[b]) = (sort = "asc")

InOrder(S, sort) ==
    [n \in 1 .. Cardinality(S) |->
        CHOOSE i \in S : Cardinality({j \in S : Before(sort, j, i)}) = n - 1]

\* Templates are fetched without a join, and without one in no order at all.
Orderings(k) ==
    LET S == Matching(k.table, k.filter)
    IN  IF k.table = "schemas"
        THEN {s \in [1 .. Cardinality(S) -> S] : \A i \in S : \E n \in DOMAIN s : s[n] = i}
        ELSE {InOrder(S, k.sort)}

\* Mutant of Slice: the page is taken as counted from zero.
SliceFromZero(s, page, size) ==
    LET last == (page + 1) * size
    IN  SubSeq(s, page * size + 1, IF last < Len(s) THEN last ELSE Len(s))

\* skip and take: page - 1 goes over the wire.
Slice(s, page, size) ==
    LET last == page * size
    IN  SubSeq(s, (page - 1) * size + 1, IF last < Len(s) THEN last ELSE Len(s))

RefusedText(k) == k.table = "students" /\ k.filter \cap Unsearchable # {}

-----------------------------------------------------------------------------
(***************************************************************************)
(* Queries.                                                                *)
(***************************************************************************)
Sent == [at |-> "sent", rows |-> <<>>, total |-> 0, rev |-> 0]

Entered(f, k, v) == [j \in DOMAIN f \cup {k} |-> IF j = k THEN v ELSE f[j]]

\* A key that comes to be watched is fetched, whatever is cached, unless a
\* fetch of it is under way.
Asking(k) == IF k \in DOMAIN flight THEN flight ELSE Entered(flight, k, Sent)

\* The query follows the controls; the total stays until the new key has data.
Follow ==
    /\ flight' = IF Key' = Key THEN flight ELSE Asking(Key')
    /\ total' = IF Cached(Key') THEN cache[Key'].total ELSE total
    /\ UNCHANGED <<state, cache, failed>>

Landed(k) == [j \in DOMAIN flight \ {k} |-> flight[j]]

\* At rest: nothing is debounced or fetched for what is on screen.
Rest  == Open /\ late = Params(screen) /\ Key \notin DOMAIN flight
\* And the rows are as the server has them now.
Sound == Rest /\ Key \notin failed /\ Cached(Key) /\ cache[Key].rev = used.writes

Read(k) ==
    /\ flight[k].at = "sent" /\ ~RefusedText(k)
    /\ \E s \in Orderings(k) :
         flight' = [flight EXCEPT ![k] = [at |-> "read", rows |-> Slice(s, k.page, k.size),
                                          total |-> Len(s), rev |-> used.writes]]
    /\ UNCHANGED <<state, screen, late, kept, cache, failed, total, walk, used>>

\* Mutant of AnswerIn: the total is counted from the rows that came.
AnswerInCounted(k) ==
    /\ flight[k].at = "read"
    /\ cache' = Entered(cache, k, [rows |-> flight[k].rows, total |-> Len(flight[k].rows),
                                   rev |-> flight[k].rev])
    /\ total' = IF Open /\ k = Key THEN Len(flight[k].rows) ELSE total
    /\ failed' = failed \ {k}
    /\ flight' = Landed(k)
    /\ UNCHANGED <<state, screen, late, kept, walk, used>>

\* The answer is cached under its own key, watched or not.
AnswerIn(k) ==
    /\ flight[k].at = "read"
    /\ cache' = Entered(cache, k, [rows |-> flight[k].rows, total |-> flight[k].total,
                                   rev |-> flight[k].rev])
    /\ total' = IF Open /\ k = Key THEN flight[k].total ELSE total
    /\ failed' = failed \ {k}
    /\ flight' = Landed(k)
    /\ UNCHANGED <<state, screen, late, kept, walk, used>>

\* All tries are refused or lost: data of an earlier fetch stays.
Fail(k) ==
    /\ IF RefusedText(k) THEN UNCHANGED used
       ELSE used.lost < MaxLost /\ used' = [used EXCEPT !.lost = @ + 1]
    /\ failed' = failed \cup {k}
    /\ flight' = Landed(k)
    /\ UNCHANGED <<state, screen, late, kept, cache, total, walk>>

-----------------------------------------------------------------------------
(***************************************************************************)
(* The page.                                                               *)
(***************************************************************************)
Clicked == used.moves < MaxMoves /\ used' = [used EXCEPT !.moves = @ + 1]

\* Through the pages one after the other, reading each at rest.
NotWalking == [on |-> FALSE, seen |-> {}]
Walked(page) ==
    walk' = CASE page = 1 -> [on |-> TRUE, seen |-> {}]
              [] page = Place.page + 1 /\ Sound /\ walk.on ->
                   [walk EXCEPT !.seen = @ \cup RowSet]
              [] OTHER -> NotWalking

\* A list is mounted: all but the provider's page and size start anew, the
\* total as well.
Visit(list) ==
    /\ screen.list # list
    /\ Clicked
    /\ screen' = Fresh(list) /\ late' = Params(Fresh(list)) /\ UNCHANGED kept
    /\ flight' = Asking(Key')
    /\ total' = IF Cached(Key') THEN cache[Key'].total ELSE 0
    /\ walk' = IF Place'.page = 1 THEN [on |-> TRUE, seen |-> {}] ELSE NotWalking
    /\ UNCHANGED <<state, cache, failed>>

\* handleRowClick: the page kept for the way back is the hook's own, which is
\* the first unless it was changed since the list was mounted.
RowClick ==
    /\ Rows # <<>> /\ screen.list # "schemas"
    /\ Clicked
    /\ kept' = IF screen.list \in Keeping
               THEN [kept EXCEPT ![screen.list].page = screen.page] ELSE kept
    /\ screen' = [screen EXCEPT !.list = "away"]
    /\ walk' = NotWalking
    /\ UNCHANGED <<state, late, cache, flight, failed, total>>

\* Mutant of Offered: the last full page is the last one.
OfferedFull(page) ==
    LET pages == total \div Place.size
    IN  /\ total # 0 /\ page # Place.page
        /\ \/ page = Place.page - 1 /\ page # 0
           \/ page = Place.page + 1 /\ Place.page < pages
           \/ pages # 1 /\ page \in 1 .. pages

\* The footer: one back, one on, or any page there is.
Offered(page) ==
    /\ total # 0 /\ page # Place.page
    /\ \/ page = Place.page - 1 /\ page # 0
       \/ page = Place.page + 1 /\ Place.page < Pages
       \/ Pages # 1 /\ page \in 1 .. Pages

GoTo(page) ==
    /\ screen.list \in Footed /\ Offered(page)
    /\ Clicked
    /\ screen' = [screen EXCEPT !.page = page]
    /\ kept' = IF screen.list \in Keeping
               THEN [kept EXCEPT ![screen.list].page = page] ELSE kept
    /\ Walked(page)
    /\ UNCHANGED late /\ Follow

\* The hook goes back to the first page, the provider's page stays.
Resize(size) ==
    /\ screen.list \in Footed /\ total # 0 /\ size # Place.size
    /\ Clicked
    /\ screen' = [screen EXCEPT !.size = size, !.page = 1]
    /\ kept' = IF screen.list \in Keeping
               THEN [kept EXCEPT ![screen.list].size = size] ELSE kept
    /\ walk' = IF Place'.page = 1 THEN [on |-> TRUE, seen |-> {}] ELSE NotWalking
    /\ UNCHANGED late /\ Follow

\* Other controls leave the page where it is.
Control(s) ==
    /\ Clicked
    /\ screen' = s
    /\ walk' = IF Place.page = 1 THEN [on |-> TRUE, seen |-> {}] ELSE NotWalking
    /\ UNCHANGED <<late, kept>> /\ Follow

\* FilterMultiSelect: a status is ticked or not any more; "Clear all".
Tick(m) ==
    /\ screen.list \in {"overall", "dashboard"}
    /\ Control([screen EXCEPT !.ticked = IF m \in @ THEN @ \ {m} ELSE @ \cup {m}])

ClearAll ==
    /\ screen.list \in {"overall", "dashboard"} /\ screen.ticked # {}
    /\ Control([screen EXCEPT !.ticked = {}])

\* The header menu of created_at, the one column that sorts.
SortBy(sort) ==
    /\ TableOf(screen.list) = "vc" /\ sort # screen.sort
    /\ Control([screen EXCEPT !.sort = sort])

Type(typed) ==
    /\ screen.list = "students" /\ typed # screen.typed
    /\ Control([screen EXCEPT !.typed = typed])

\* Half a second after the last change; the text typed has a timer of its own.
Debounced ==
    /\ Open
    /\ late' \in {[Params(screen) EXCEPT !.typed = late.typed],
                   [late EXCEPT !.typed = screen.typed]}
    /\ late' # late
    /\ UNCHANGED <<screen, kept, walk, used>> /\ Follow

\* UpdateData: a fetch under way is replaced, the first one of a key is not.
Update ==
    /\ TableOf(screen.list) = "vc"
    /\ Clicked
    /\ flight' = IF Cached(Key) THEN Entered(flight, Key, Sent) ELSE Asking(Key)
    /\ walk' = NotWalking
    /\ UNCHANGED <<state, screen, late, kept, cache, failed, total>>

-----------------------------------------------------------------------------
\* Wallets and other tabs: a request comes in, a credential is decided about.
Changed ==
    /\ used.writes < MaxWrites /\ used' = [used EXCEPT !.writes = @ + 1]
    /\ walk' = NotWalking
    /\ UNCHANGED <<screen, late, kept, cache, flight, failed, total>>

ComesIn(i) ==
    /\ state[i] = "absent" /\ \A j \in Items : j < i => state[j] # "absent"
    /\ state' = [state EXCEPT ![i] = Fixed]
    /\ Changed

Decided(i, m) ==
    /\ state[i] \notin {"absent", m}
    /\ state' = [state EXCEPT ![i] = m]
    /\ Changed

-----------------------------------------------------------------------------
TablesInit ==
    /\ \E n \in Items \cup {0} :
         /\ state \in [Items -> Marks \cup {"absent"}]
         /\ \A i \in Items : state[i] = "absent" <=> i > n
    /\ screen = Fresh("away") /\ late = Params(screen)
    /\ kept = [list \in Keeping |-> [page |-> 1, size |-> DefaultSize]]
    /\ cache = <<>> /\ flight = <<>> /\ failed = {}
    /\ total = 0 /\ walk = NotWalking
    /\ used = [moves |-> 0, writes |-> 0, lost |-> 0]

OnPage ==
    \/ \E list \in Lists : Visit(list)
    \/ \E page \in 1 .. Cardinality(Items) : GoTo(page)
    \/ \E size \in PageSizes : Resize(size)
    \/ \E m \in Marks : Tick(m)
    \/ \E sort \in Orders : SortBy(sort)
    \/ \E x \in Texts : Type({x})
    \/ Type({}) \/ ClearAll \/ RowClick \/ Update \/ Debounced

TablesNext ==
    \/ OnPage
    \/ \E k \in DOMAIN flight : Read(k) \/ AnswerIn(k) \/ Fail(k)
    \/ \E i \in Items : ComesIn(i) \/ \E m \in Marks : Decided(i, m)

TablesSpec == TablesInit /\ [][TablesNext]_tablesVars

-----------------------------------------------------------------------------
\* A list at rest shows the rows of the page, the page size, the order, the
\* filter and the text that are on screen, and the footer counts what matches
\* them, in whatever order controls were used and answers came, unless the
\* last fetch failed or the rows changed since.
RestShowsAsked ==
    Sound =>
        LET filter == CASE screen.list = "pending"  -> {Fixed}
                        [] screen.list = "students" -> screen.typed
                        [] OTHER                    -> screen.ticked
            all == Matching(TableOf(screen.list), filter)
        IN  /\ total = Cardinality(all)
            /\ IF screen.list = "schemas"
               THEN RowSet \subseteq all
               ELSE Rows = Slice(InOrder(all, screen.sort), Place.page, Place.size)

\* Who goes through a list from its first page to where the footer offers no
\* next one, with each page at rest before the next click, has seen every row
\* that matches and none of them twice, unless rows changed meanwhile.
WalkSeesAll ==
    Sound /\ walk.on /\ screen.list \in Footed \ {"schemas"} /\ ~Offered(Place.page + 1) =>
        /\ walk.seen \cup RowSet = Matching(TableOf(screen.list), Key.filter)
        /\ walk.seen \cap RowSet = {}
=============================================================================
