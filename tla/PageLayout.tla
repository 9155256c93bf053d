---------------------------- MODULE PageLayout ----------------------------
(***************************************************************************)
(* services/ocr-shim/layout.py: in which order the recognised lines of a   *)
(* page are read.  A line is its number in the list of lines, and the box  *)
(* [x0, y0, x1, y1] it has on the page; a table is a box too.  A text is   *)
(* the sequence of its rows, and a row the set of its lines, which is read *)
(* from the left.                                                          *)
(***************************************************************************)
EXTENDS Integers, Sequences, FiniteSetsExt

CONSTANTS Boxes, WIDTH

ASSUME PageType ==
  WIDTH \in Nat /\ Boxes \subseteq [x0 : Int, y0 : Int, x1 : Int, y1 : Int]

VARIABLES
  box,       \* the lines, as they were recognised
  tables     \* the tables, as they were found

pageVars == <<box, tables>>

Blank == box = <<>> /\ tables = <<>>

Finds(lines, ruled) == box' = box \o lines /\ tables' = tables \o ruled

TurnsOver == box' = <<>> /\ tables' = <<>>

AnyLayout ==
  Blank /\ [][(\E lines, ruled \in Seq(Boxes) : Finds(lines, ruled)) \/ TurnsOver]_pageVars

Lines == DOMAIN box

Top(l) == box[l].y0
Width(l) == box[l].x1 - box[l].x0
Height(l) == IF box[l].y1 - box[l].y0 < 1 THEN 1 ELSE box[l].y1 - box[l].y0
CenterY2(l) == box[l].y0 + box[l].y1       \* twice the centre

(*********************************** rows **********************************)

\* The k-th of the heights in their order.
Ranked(lines, k) ==
  CHOOSE h \in {Height(l) : l \in lines} :
    /\ Cardinality({l \in lines : Height(l) < h}) < k
    /\ k <= Cardinality({l \in lines : Height(l) <= h})

\* Twice the median of the heights.
Tall2(lines) ==
  LET n == Cardinality(lines) IN Ranked(lines, (n + 1) \div 2) + Ranked(lines, n \div 2 + 1)

Distance(a, b) == IF a < b THEN b - a ELSE a - b

\* A line joins the row whose first line is within half a line height.
Joins(l, head, tall2) == 2 * Distance(CenterY2(l), CenterY2(head)) <= tall2

Highest(lines) ==
  CHOOSE l \in lines : \A k \in lines :
    CenterY2(l) < CenterY2(k) \/ (CenterY2(l) = CenterY2(k) /\ l <= k)

Rows(lines) ==
  LET tall2 == Tall2(lines)
      from[rest \in SUBSET lines] ==
        IF rest = {} THEN <<>>
        ELSE LET row == {l \in rest : Joins(l, Highest(rest), tall2)}
             IN <<row>> \o from[rest \ row]
  IN from[lines]

\* The line a row is read from: of equal left edges the higher one.
Leftmost(row) ==
  CHOOSE l \in row : \A k \in row :
    \/ box[l].x0 < box[k].x0
    \/ box[l].x0 = box[k].x0 /\ CenterY2(l) < CenterY2(k)
    \/ box[l].x0 = box[k].x0 /\ CenterY2(l) = CenterY2(k) /\ l <= k

(********************************** columns ********************************)

Prose(column) == Cardinality({l \in column : 10 * Width(l) > 3 * WIDTH}) >= 3

NoGutter == -1

Smaller(a, b) == IF a <= b THEN a ELSE b

\* The empty band that splits the narrow lines into two columns best.
Gutter(lines) ==
  LET narrow == {l \in lines : 100 * Width(l) < 48 * WIDTH}
      left(x) == {l \in narrow : box[l].x1 <= x}
      right(x) == {l \in narrow : box[l].x0 >= x}
      balance(x) == Smaller(Cardinality(left(x)), Cardinality(right(x)))
      first == (35 * WIDTH) \div 100
      step == IF WIDTH < 200 THEN 1 ELSE WIDTH \div 200
      splits == {x \in first .. (65 * WIDTH) \div 100 - 1 :
                   /\ (x - first) % step = 0
                   /\ \A l \in narrow : ~(box[l].x0 < x /\ x < box[l].x1)
                   /\ balance(x) >= 4 /\ Prose(left(x)) /\ Prose(right(x))}
  IN IF Cardinality(narrow) < 8 \/ splits = {} THEN NoGutter
     ELSE CHOOSE x \in splits : \A y \in splits :
            balance(y) < balance(x) \/ (balance(y) = balance(x) /\ x <= y)

\* A bug: a full-width row does not end the stretch above it.
NeverEnds(row, split) == FALSE

Spans(row, split) == \E l \in row : box[l].x0 < split /\ split < box[l].x1

(********************************** blocks *********************************)
(* A block is its top, its place in the list of blocks, and its text.      *)

RowBlock(row, k) == [top |-> Top(Leftmost(row)), at |-> k, text |-> <<row>>]

\* A two-column stretch, the left column first.
StretchBlock(stretch, split, k) ==
  LET left == {l \in stretch : box[l].x1 <= split}
  IN [top |-> Min({Top(l) : l \in stretch}), at |-> k,
      text |-> Rows(left) \o Rows(stretch \ left)]

Flow(lines) ==
  LET rows == Rows(lines)
      split == Gutter(lines)
      alone == {k \in DOMAIN rows : split = NoGutter \/ Spans(rows[k], split)}
      begins == {k \in DOMAIN rows \ alone : k = 1 \/ k - 1 \in alone}
      stretch(k) == UNION {rows[i] : i \in {j \in DOMAIN rows : k <= j /\ k..j \cap alone = {}}}
  IN {RowBlock(rows[k], k) : k \in alone} \cup {StretchBlock(stretch(k), split, k) : k \in begins}

Inside(l, frame) ==
  /\ 2 * frame.x0 <= box[l].x0 + box[l].x1 /\ box[l].x0 + box[l].x1 <= 2 * frame.x1
  /\ 2 * frame.y0 <= CenterY2(l) /\ CenterY2(l) <= 2 * frame.y1

\* The first table a line lies in, or 0.
TableOf(l) ==
  LET holding == {i \in DOMAIN tables : Inside(l, tables[i])}
  IN IF holding = {} THEN 0 ELSE Min(holding)

In(i) == {l \in Lines : TableOf(l) = i}

Loose == In(0)

TableBlock(i) == [top |-> tables[i].y0, at |-> Len(box) + i, text |-> Rows(In(i))]

Blocks == Flow(Loose) \cup {TableBlock(i) : i \in {j \in DOMAIN tables : In(j) # {}}}

\* sort: by the top, and as in the list where the tops are equal.
Sooner(b, c) == b.top < c.top \/ (b.top = c.top /\ b.at < c.at)

First(blocks) == CHOOSE b \in blocks : \A c \in blocks \ {b} : Sooner(b, c)

PageText ==
  LET sorted[rest \in SUBSET Blocks] ==
        IF rest = {} THEN <<>> ELSE First(rest).text \o sorted[rest \ {First(rest)}]
  IN sorted[Blocks]
-----------------------------------------------------------------------------
Above(a, b) == box[a].y1 <= box[b].y0

Over(a, b) == Above(a, b) /\ box[a].x0 < box[b].x1 /\ box[b].x0 < box[a].x1

\* The middles of two lines are next to each other: half the height of any line apart.
Beside(a, b) == \A l \in Lines : Distance(CenterY2(a), CenterY2(b)) <= Height(l)

\* A level page of rows: its lines are of one size, more or less, two of them that
\* no table holds are beside each other or one above the other, and each table
\* stands alone.
Level ==
  /\ \A a, b \in Lines : box[a].y0 < box[a].y1 /\ Height(a) < 2 * Height(b)
  /\ \A a, b \in Loose : Beside(a, b) \/ Above(a, b) \/ Above(b, a)
  /\ \A i \in DOMAIN tables :
       /\ tables[i].y0 < tables[i].y1
       /\ \A l \in Loose : box[l].y1 <= tables[i].y0 \/ tables[i].y1 <= box[l].y0
       /\ \A j \in DOMAIN tables \ {i} :
            tables[i].y1 <= tables[j].y0 \/ tables[j].y1 <= tables[i].y0

\* The i-th table lies inside the two columns a line below it is in: from a row above
\* the table down to the line, no row has a line across the gutter.
Cuts(i, b) ==
  LET rows == Rows(Loose)
      split == Gutter(Loose)
      across(l) == box[l].x0 < split /\ split < box[l].x1
  IN /\ split # NoGutter
     /\ \E k, j \in DOMAIN rows :
          /\ k <= j /\ b \in rows[j]
          /\ \E l \in rows[k] : box[l].y1 <= tables[i].y0
          /\ \A m \in k..j : \A l \in rows[m] : ~across(l)

ReadBefore(text, a, b) == \E i, j \in DOMAIN text : i < j /\ a \in text[i] /\ b \in text[j]

\* page_text: every line of any page is read exactly once.  On a level page of rows,
\* of two lines of which one lies over the other the upper one is read first: across
\* columns, full-width rows and tables.  The one exception: a table that lies inside
\* two columns is read after both, so after the lines below it in them.
LinesReadInOrder ==
  LET text == PageText
  IN /\ \A l \in Lines : \E i \in DOMAIN text : \A j \in DOMAIN text : l \in text[j] <=> j = i
     /\ Level => \A a, b \in Lines : Over(a, b) =>
          IF TableOf(a) # 0 /\ b \in Loose /\ Cuts(TableOf(a), b)
          THEN ReadBefore(text, b, a)
          ELSE ReadBefore(text, a, b)
=============================================================================
