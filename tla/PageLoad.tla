----------------------------- MODULE PageLoad -----------------------------
(***************************************************************************)
(* services/ocr-shim/app.py, load_page: the page of an upload that is read *)
(* as an image, or why there is none.  PDFs and pictures have each their   *)
(* reader, with the checks in an order of its own.                         *)
(*                                                                         *)
(* An upload is [kind, fails, sheets]: what its first bytes say it is,     *)
(* whether its library fails to open it or to count its frames, and its    *)
(* pages.  A page is [wide, high, fails]: its sides, of a PDF in units of  *)
(* which PerInch make an inch, of a picture in pixels; and whether it      *)
(* cannot be loaded (found in the file) or drawn (rendered or decoded).    *)
(***************************************************************************)
EXTENDS Integers, Sequences

CONSTANTS MAX_PAGES, MAX_PIXELS, PerInch, Uploads, Pages, Resolutions, NoPage

ASSUME PageLimits ==
  MAX_PAGES \in Nat /\ MAX_PIXELS \in Nat \ {0} /\ PerInch \in Nat \ {0}

Sheets == [wide : Nat, high : Nat, fails : {"never", "load", "draw"}]

ASSUME UploadsType ==
  /\ Uploads \subseteq [kind : {"pdf", "picture", "other"},
                        fails : {"never", "open", "count"}, sheets : Seq(Sheets)]
  /\ \A doc \in Uploads : doc.kind = "picture" => doc.sheets # <<>>
  /\ Pages \subseteq Int /\ Resolutions \subseteq Nat \ {0}

Refused(status, why) == [status |-> status, why |-> why, wide |-> 0, high |-> 0]

\* An exception nobody catches.
Failed == Refused(500, "uncaught")

Loaded(wide, high) == [status |-> 200, why |-> "served", wide |-> wide, high |-> high]

(*********************************** PDF ***********************************)

\* The renderer rounds a side up; a whole one may come out one larger, since the
\* scale is a float.
Rounded(side, unit) ==
  {s \in 1..(side \div unit + 1) : (s - 1) * unit <= side /\ side <= s * unit}

\* A side scaled by sqrt(MAX_PIXELS / area), rounded likewise.
Fitted(side, other) ==
  {s \in 1..(MAX_PIXELS * side + 1) :
     (s - 1) * (s - 1) * other <= MAX_PIXELS * side /\ MAX_PIXELS * side <= s * s * other}

Fits(sheet, dpi) ==
  sheet.wide * dpi * (sheet.high * dpi) <= MAX_PIXELS * (PerInch * PerInch)

Drawn(sheet, dpi) ==
  IF Fits(sheet, dpi)
  THEN {Loaded(w, h) : w \in Rounded(sheet.wide * dpi, PerInch),
                       h \in Rounded(sheet.high * dpi, PerInch)}
  ELSE {Loaded(w, h) : w \in Fitted(sheet.wide, sheet.high),
                       h \in Fitted(sheet.high, sheet.wide)}

\* The answers there can be.
RenderPdf(doc, page, dpi) ==
  IF doc.fails # "never" THEN {Refused(422, "unreadable_pdf")}
  ELSE IF Len(doc.sheets) > MAX_PAGES THEN {Refused(413, "too_many_pages")}
  ELSE IF page \notin 1..Len(doc.sheets) THEN {Refused(422, "no_such_page")}
  ELSE LET sheet == doc.sheets[page] IN
       IF sheet.fails = "load" THEN {Failed}
       ELSE IF sheet.wide = 0 \/ sheet.high = 0 THEN {Refused(422, "unreadable_pdf")}
       ELSE IF sheet.fails = "draw" THEN {Failed}
       ELSE Drawn(sheet, dpi)

(********************************* pictures ********************************)

Area(sheet) == sheet.wide * sheet.high

\* A bug: the count stops at the cap, where it looks like a document of MAX_PAGES.
CountedToTheCap(frames) == IF frames < MAX_PAGES THEN frames ELSE MAX_PAGES

\* count_frames: seeks until the end of the file, never past the cap + 1.
CountFrames(frames) == IF frames <= MAX_PAGES THEN frames ELSE MAX_PAGES + 1

\* Pillow itself refuses a picture that claims more than twice the limit.
OpenImage(doc, page) ==
  LET frames == CountFrames(Len(doc.sheets))
      frame  == doc.sheets[page]
  IN IF doc.fails = "open" THEN Refused(422, "unreadable_image")
     ELSE IF Area(doc.sheets[1]) > 2 * MAX_PIXELS THEN Refused(413, "too_many_pixels")
     ELSE IF doc.fails = "count" THEN Refused(422, "unreadable_image")
     ELSE IF frames > MAX_PAGES THEN Refused(413, "too_many_pages")
     ELSE IF page \notin 1..frames THEN Refused(422, "no_such_page")
     ELSE IF frame.fails = "load" THEN Refused(422, "unreadable_image")
     ELSE IF Area(frame) > MAX_PIXELS THEN Refused(413, "too_many_pixels")
     ELSE IF frame.fails = "draw" THEN Refused(422, "unreadable_image")
     ELSE Loaded(frame.wide, frame.high)

LoadPage(doc, page, dpi) ==
  CASE doc.kind = "pdf"     -> RenderPdf(doc, page, dpi)
    [] doc.kind = "picture" -> {OpenImage(doc, page)}
    [] OTHER                -> {Refused(415, "unsupported")}
-----------------------------------------------------------------------------
VARIABLE loaded    \* the upload, page and dpi asked for and the answer, or NoPage

Loads ==
  /\ loaded = NoPage
  /\ \E doc \in Uploads, page \in Pages, dpi \in Resolutions :
       \E answer \in LoadPage(doc, page, dpi) :
         loaded' = [doc |-> doc, page |-> page, dpi |-> dpi, answer |-> answer]

Returns == loaded # NoPage /\ loaded' = NoPage

AnyPage == loaded = NoPage /\ [][Loads \/ Returns]_loaded
-----------------------------------------------------------------------------
\* What the page asked for is, whatever its reader checks first.
There(doc, page) == page \in 1..Len(doc.sheets)

Sound(doc, page) ==
  /\ doc.kind # "other" /\ doc.fails = "never" /\ There(doc, page)
  /\ doc.sheets[page].fails = "never"
  /\ doc.kind = "pdf" => doc.sheets[page].wide > 0 /\ doc.sheets[page].high > 0

WithinLimits(doc, page) ==
  /\ Len(doc.sheets) <= MAX_PAGES
  /\ doc.kind = "picture" =>
       Area(doc.sheets[1]) <= 2 * MAX_PIXELS /\ Area(doc.sheets[page]) <= MAX_PIXELS

\* A picture is served as it is.  A PDF page that fits is served at the dpi asked for,
\* and none has more pixels than the limit, but for a row and a column of rounding.
InFull(sheet, kind, dpi, answer) ==
  IF kind = "picture" THEN answer = Loaded(sheet.wide, sheet.high)
  ELSE /\ (answer.wide - 1) * (answer.high - 1) <= MAX_PIXELS
       /\ sheet.wide * dpi * (sheet.high * dpi) <= MAX_PIXELS * (PerInch * PerInch) =>
            /\ sheet.wide * dpi <= answer.wide * PerInch
            /\ sheet.high * dpi <= answer.high * PerInch

RightAnswer(doc, page, dpi, answer) ==
  /\ answer.status = 200 <=> Sound(doc, page) /\ WithinLimits(doc, page)
  /\ answer.status = 200 => InFull(doc.sheets[page], doc.kind, dpi, answer)
  /\ answer.why = "no_such_page" => ~There(doc, page)
  /\ answer.status = 500 => doc.kind = "pdf" /\ doc.sheets[page].fails # "never"

\* load_page: the two readers, which check in different orders, agree on what is
\* served: exactly the pages that are there, can be read and are within the limits,
\* each in full.  A page that is there is never told as no_such_page, and a broken
\* picture is a refusal, never an exception.
ServedIffThere ==
  loaded # NoPage => RightAnswer(loaded.doc, loaded.page, loaded.dpi, loaded.answer)
=============================================================================
