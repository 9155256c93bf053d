----------------------------- MODULE MCOcrShim -----------------------------
(* More requests than may be let in, with the orphans that may be under way; *)
(* and, while none is under way, one document or one page of up to six rows, *)
(* which grows a row at a time.                                              *)
EXTENDS OcrShim, PageLoad, PageLayout, SequencesExt

CONSTANTS r1, r2, r3, r4, r5, r6, MaxRows

MCRequests == {r1, r2, r3, r4, r5, r6}

Box(x0, y0, x1, y1) == [x0 |-> x0, y0 |-> y0, x1 |-> x1, y1 |-> y1]

\* A row is full, or has one line in each column, or one slightly or clearly
\* lower than the other, or is a row of two cells, the table found or not.
Row(kind, y) ==
  CASE kind = "full"  -> << Box(1, y, 19, y + 2) >>
    [] kind = "both"  -> << Box(11, y, 19, y + 2), Box(1, y, 9, y + 2) >>
    [] kind = "lower" -> << Box(1, y, 9, y + 2), Box(11, y + 1, 19, y + 3) >>
    [] kind = "left"  -> << Box(1, y, 9, y + 3) >>
    [] OTHER          -> << Box(3, y, 6, y + 2), Box(8, y, 16, y + 2) >>

Ruled(kind, y) == IF kind = "table" THEN << Box(2, y, 18, y + 3) >> ELSE <<>>

Kinds == {"full", "both", "lower", "left", "cells", "table"}

\* Where the next row begins.
Below == 4 * Cardinality({l.y0 \div 4 : l \in ToSet(box)})

MCBoxes == [x0 : 1..18, y0 : 0..(4 * MaxRows), x1 : 1..19, y1 : 0..(4 * MaxRows)]

\* Pages without a size, small ones, and ones at the limits and past them.
MCSheets ==
  {[wide |-> size[1], high |-> size[2], fails |-> fails] :
     size \in {<<0, 2>>, <<1, 1>>, <<1, 2>>, <<2, 3>>, <<2, 4>>, <<3, 3>>},
     fails \in {"never", "load", "draw"}}

\* The first page is like the others or unlike them.
MCUploads ==
  {[kind |-> kind, fails |-> fails, sheets |-> [i \in 1..pages |-> IF i = 1 THEN first ELSE other]] :
     kind \in {"pdf", "picture"}, fails \in {"never", "open", "count"},
     pages \in 1..(MAX_PAGES + 2), first \in MCSheets, other \in MCSheets}
  \cup [kind : {"pdf", "other"}, fails : {"never", "open"}, sheets : {<<>>}]

MCPages == 1..(MAX_PAGES + 2)

MCInit == Init /\ loaded = NoPage /\ Blank

Requesting == Next /\ loaded = NoPage /\ Blank /\ UNCHANGED <<loaded, pageVars>>

Resting == at = [r \in Requests |-> "idle"] /\ UNCHANGED vars

Loading == Resting /\ Blank /\ Loads /\ UNCHANGED pageVars

AddsRow ==
  /\ Resting /\ loaded = NoPage /\ Below < 4 * MaxRows /\ UNCHANGED loaded
  /\ \E kind \in Kinds : Finds(Row(kind, Below), Ruled(kind, Below))

LooksAway == UNCHANGED <<vars, loaded>> /\ TurnsOver

Returning == Returns /\ UNCHANGED <<vars, pageVars>>

MCSpec ==
  /\ MCInit
  /\ [][Requesting \/ Loading \/ Returning \/ AddsRow \/ LooksAway]_<<vars, loaded, pageVars>>
  /\ Fairness
=============================================================================
