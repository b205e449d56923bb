------------------------------ MODULE Columns -------------------------------
(***************************************************************************)
(* The columns of a console table: pinned to either side, unpinned, and    *)
(* moved one place by the menu of their header.  What is shown is the left *)
(* pins, then the columns that are not pinned in their order, then the     *)
(* right pins.                                                             *)
(***************************************************************************)
EXTENDS Naturals, Sequences, FiniteSets

CONSTANTS
    Headers0,   \* the columns in the order the page defines them
    Permanent   \* those it pins to the right for good (the menu of a row)

Columns == {Headers0[i] : i \in DOMAIN Headers0}

ASSUME ColumnsAssumption ==
    /\ Headers0 \in Seq(Columns) /\ IsFiniteSet(Columns)
    /\ \A i, j \in DOMAIN Headers0 : Headers0[i] = Headers0[j] => i = j
    /\ Permanent \subseteq Columns

VARIABLES
    order,    \* columnOrder: empty until a column is moved
    pins,     \* columnPinning
    moved     \* the last click, if it was a move: what, where to, shown before

columnsVars == <<order, pins, moved>>

-----------------------------------------------------------------------------
Sides == {"left", "right"}

\* Sequences of columns hold none twice.
PlaceOf(s, c) == CHOOSE i \in DOMAIN s : s[i] = c
Holds(s, c)   == \E i \in DOMAIN s : s[i] = c

\* filter: the columns of S that s holds, in its order; and without one column.
Those(s, S) ==
    LET held == {c \in S : Holds(s, c)}
    IN  [n \in 1 .. Cardinality(held) |->
           CHOOSE c \in held :
             Cardinality({d \in held : PlaceOf(s, d) < PlaceOf(s, c)}) = n - 1]

Without(s, i)  == SubSeq(s, 1, i - 1) \o SubSeq(s, i + 1, Len(s))
Dropping(s, c) == IF Holds(s, c) THEN Without(s, PlaceOf(s, c)) ELSE s

\* splice(i, 1), then splice(j, 0, c): no place before the first counts from
\* the end, and none after the last is the last.
Reinserted(s, i, j) ==
    LET rest == Without(s, i)
        n    == Len(rest)
        at   == CASE j \in 1 .. n -> j
                  [] j > n        -> n + 1
                  [] OTHER        -> IF n = 0 THEN 1 ELSE n
    IN  SubSeq(rest, 1, at - 1) \o <<s[i]>> \o SubSeq(rest, at, n)

Ordered    == IF order = <<>> THEN Headers0 ELSE order
Pinned(c)  == \E side \in Sides : Holds(pins[side], c)
Center     == Those(Ordered, {c \in Columns : ~Pinned(c)})
Shown      == pins["left"] \o Center \o pins["right"]

NotMoved == [c |-> Headers0[1], dir |-> "none", from |-> <<>>]

-----------------------------------------------------------------------------
\* Pinning puts a column last of its side, from wherever it was.
Pin(c, side) ==
    /\ c \notin Permanent
    /\ ~Holds(pins[side], c)
    /\ pins' = [s \in Sides |-> IF s = side THEN Append(Dropping(pins[s], c), c)
                                            ELSE Dropping(pins[s], c)]
    /\ moved' = NotMoved
    /\ UNCHANGED order

Unpin(c) ==
    /\ c \notin Permanent /\ Pinned(c)
    /\ pins' = [s \in Sides |-> Dropping(pins[s], c)]
    /\ moved' = NotMoved
    /\ UNCHANGED order

\* The header shown on that side of a column's.
HasNeighbour(c, dir) == IF dir = "left" THEN PlaceOf(Shown, c) # 1
                                        ELSE PlaceOf(Shown, c) # Len(Shown)
Neighbour(c, dir)    == Shown[IF dir = "left" THEN PlaceOf(Shown, c) - 1
                                              ELSE PlaceOf(Shown, c) + 1]
\* The menu offers a move towards a neighbour that is pinned as the column is,
\* and not for good.
Movable(c, dir) ==
    /\ HasNeighbour(c, dir)
    /\ Pinned(c) <=> Pinned(Neighbour(c, dir))
    /\ Pinned(c) => c \notin Permanent
    /\ Neighbour(c, dir) \notin Permanent

\* Mutant of NextFree: the next column of the order, pinned or not.
NextAny(c, dir) == LET i == PlaceOf(Ordered, c) IN IF dir = "left" THEN i - 1 ELSE i + 1

\* findNextIndexOfNonPinnedColumn: pinned columns keep a place in the order.
NextFree(c, dir) ==
    LET i    == PlaceOf(Ordered, c)
        free == {j \in DOMAIN Ordered : ~Pinned(Ordered[j])}
    IN  IF dir = "left"
        THEN CHOOSE j \in free : j < i /\ \A k \in free : k < i => k <= j
        ELSE CHOOSE j \in free : j > i /\ \A k \in free : k > i => k >= j

\* changeColumnOrder: taken out, and put in at the place of that column.
MoveFree(c, dir) ==
    /\ ~Pinned(c) /\ Movable(c, dir)
    /\ order' = Reinserted(Ordered, PlaceOf(Ordered, c), NextFree(c, dir))
    /\ moved' = [c |-> c, dir |-> dir, from |-> Shown]
    /\ UNCHANGED pins

\* setPinOrder: one place within the pins of its side.
MovePinned(c, dir) ==
    /\ Pinned(c) /\ Movable(c, dir)
    /\ \E side \in Sides :
         /\ Holds(pins[side], c)
         /\ LET i == PlaceOf(pins[side], c)
                j == IF dir = "left" THEN i - 1 ELSE i + 1
            IN  pins' = [pins EXCEPT ![side] = Reinserted(@, i, j)]
    /\ moved' = [c |-> c, dir |-> dir, from |-> Shown]
    /\ UNCHANGED order

-----------------------------------------------------------------------------
ColumnsInit ==
    /\ order = <<>>
    /\ pins = [left |-> <<>>, right |-> Those(Headers0, Permanent)]
    /\ moved = NotMoved

ColumnsNext ==
    \E c \in Columns :
        \/ \E side \in Sides : Pin(c, side) \/ MoveFree(c, side) \/ MovePinned(c, side)
        \/ Unpin(c)

ColumnsSpec == ColumnsInit /\ [][ColumnsNext]_columnsVars

-----------------------------------------------------------------------------
\* Where a table has a permanent column, a move changes the column's place with
\* the neighbour shown on that side and leaves all others where they are shown,
\* however columns were pinned, unpinned and moved before.
MovesItsWay ==
    LET m == moved
        i == PlaceOf(m.from, m.c)
        j == IF m.dir = "left" THEN i - 1 ELSE i + 1
    IN  Permanent # {} /\ m.dir # "none" =>
            Shown = [m.from EXCEPT ![i] = m.from[j], ![j] = m.from[i]]
=============================================================================
