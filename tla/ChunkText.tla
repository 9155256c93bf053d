----------------------------- MODULE ChunkText -----------------------------
(***************************************************************************)
(* services/index-shim/app.py, chunk_text: how a document is cut into the  *)
(* pieces that are embedded.  A text is its length, and where a paragraph  *)
(* or a sentence ends in it.  It is written a character at a time, so that *)
(* what is said of the text is said of every text.                         *)
(***************************************************************************)
EXTENDS Integers, FiniteSetsExt

CONSTANTS CHUNK, OVERLAP

ASSUME ChunkType ==
  /\ CHUNK \in Nat \ {0} /\ OVERLAP \in Nat
  /\ OVERLAP <= CHUNK \div 2    \* INDEX_CHUNK_CHARS is 900, the overlap 150

VARIABLE text

NoText == [length |-> 0, breaks |-> {}]

\* A break is <<where, width>>: "\n\n" and ". " take two characters, the Korean
\* end of a sentence three.
Breaks == Nat \X {2, 3}

Writes ==
  \E new \in {{}} \cup {{<<text.length + 1 - w, w>>} : w \in {2, 3}} :
    text' = [length |-> text.length + 1, breaks |-> text.breaks \cup (new \cap Breaks)]

PutsAway == text # NoText /\ text' = NoText

AnyText == text = NoText /\ [][Writes \/ PutsAway]_text

Full(n, start) == IF start + CHUNK < n THEN start + CHUNK ELSE n

\* The last break in the window, if it leaves no heading-only piece.
End(n, breaks, start) ==
  LET full == Full(n, start)
      cuts == {b[1] : b \in {c \in breaks : c[1] > start + CHUNK \div 2 /\ c[1] + c[2] <= full}}
  IN IF full = n \/ cuts = {} THEN full ELSE Max(cuts)

\* A bug: the next window begins where this one ended.
NextWithoutOverlap(start, end) == end

NextStart(start, end) == IF end - OVERLAP > start THEN end - OVERLAP ELSE start + 1

\* The pieces <<start, end>> from start on.
Pieces(n, breaks) ==
  LET from[start \in 0..n] ==
        LET end == End(n, breaks, start) IN
        {<<start, end>>} \cup IF end = n THEN {} ELSE from[NextStart(start, end)]
  IN IF n = 0 THEN {} ELSE from[0]
-----------------------------------------------------------------------------
\* No passage is lost between two pieces: whatever is not longer than the
\* overlap lies whole in one of them, wherever the breaks are.
WholeIn(pieces, n) ==
  /\ \A p \in pieces : p[1] < p[2] /\ p[2] <= p[1] + CHUNK
  /\ \A x \in 0..(n - 1) : \E p \in pieces :
       p[1] <= x /\ (x + OVERLAP <= p[2] \/ p[2] = n)

PassagesStayWhole == WholeIn(Pieces(text.length, text.breaks), text.length)
=============================================================================
