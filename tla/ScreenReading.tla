---------------------------- MODULE ScreenReading ----------------------------
(***************************************************************************)
(* A region of the screen as the OCR capture reads it, while our own popup *)
(* covers parts of it, moves and leaves (src/src/platform/ocr/OcrCapture.  *)
(* cpp, with the overlays of src/src/platform/linux/X11Backend.cpp).   *)
(*                                                                         *)
(* The region is a few cells; a line of text is a set of them. Three run   *)
(* side by side: the UI thread, which tells the X server about the popup   *)
(* and publishes what it covers; the server and the applications, which    *)
(* paint; and the capture thread, which grabs the pixels, then asks twice  *)
(* what is covered, and answers from what it read before when it can.      *)
(*                                                                         *)
(* An application has painted what the popup left within the 150 ms an     *)
(* area counts as vacated. A highlight is not modelled: under a compositor *)
(* it is not published, and without one its pixels are put back.           *)
(***************************************************************************)
EXTENDS Integers, Sequences

CONSTANTS Lines,     \* the lines of text, disjoint sets of cells
          Texts,     \* what a cell may show
          Areas,     \* where the popup may be
          CacheSize, \* regions kept
          MaxPaints, MaxCoverings, MaxCaptures \* bounds

ASSUME ReadingAssumption ==
  "fill" \notin Texts /\ "own" \notin Texts /\ CacheSize \in Nat \ {0}

Cells == UNION Lines

Unread == [text |-> <<>>, doubt |-> {}]
Fill   == "fill" \* what mask() paints over the popup
Own    == "own"  \* the popup's own text

VARIABLES
  pixels,               \* what applications want the cells to show
  covering, onScreen,   \* the cells the popup covers: popup_rect_, and for the X server
  leftover,             \* cells it left that nobody painted yet
  vacated,              \* areas published as just left
  grab,                 \* the capture under way
  regions,              \* paddle_cache_
  answer,               \* the text of the last capture
  paints, coverings, captures

ui    == <<covering, vacated, coverings>>
sees  == <<pixels, onScreen, leftover, paints>>
reads == <<grab, regions, answer, captures>>
svars == <<ui, sees, reads>>

NoGrab   == [at |-> "none", moved |-> {}]
NoAnswer == [text |-> <<>>, covered |-> {}, doubt |-> {}]

ReadingInit ==
  /\ pixels \in {[c \in Cells |-> t] : t \in Texts}
  /\ covering = {} /\ onScreen = {} /\ leftover = {} /\ vacated = {}
  /\ grab = NoGrab /\ regions = <<>> /\ answer = NoAnswer
  /\ paints = 0 /\ coverings = 0 /\ captures = 0

\* Cells of which the capture under way may have seen one thing and be told another.
Moving(cells) ==
  grab' = IF grab.at = "none" THEN grab ELSE [grab EXCEPT !.moved = @ \cup cells]

-----------------------------------------------------------------------------
(* The UI thread, and the server, which hears of it later.                 *)

\* showPopup(), hidePopup(): the area left is published as vacated, the new one as
\* covered, before the requests to the server leave the buffer.
PopupTo(area) ==
  /\ coverings < MaxCoverings /\ coverings' = coverings + 1
  /\ covering' = area
  /\ vacated' = IF covering = {} THEN vacated ELSE vacated \cup {covering}
  /\ Moving(covering \cup area)
  /\ UNCHANGED <<sees, regions, answer, captures>>

Flush ==
  /\ onScreen # covering
  /\ onScreen' = covering
  /\ leftover' = (leftover \cup onScreen) \ covering
  /\ Moving(onScreen \cup covering)
  /\ UNCHANGED <<ui, pixels, paints, regions, answer, captures>>

Expire(area) ==
  /\ area \in vacated
  /\ area \cap (leftover \cup (onScreen \ covering)) = {}
  /\ vacated' = vacated \ {area}
  /\ Moving(area)
  /\ UNCHANGED <<covering, coverings, sees, regions, answer, captures>>

\* The applications paint what was uncovered.
Repaint ==
  /\ leftover # {}
  /\ leftover' = {}
  /\ UNCHANGED <<ui, pixels, onScreen, paints, reads>>

\* An application shows something else.
ShowsElse(c, t) ==
  /\ paints < MaxPaints /\ paints' = paints + 1
  /\ t # pixels[c]
  /\ pixels' = [pixels EXCEPT ![c] = t]
  /\ leftover' = leftover \ {c}
  /\ UNCHANGED <<ui, onScreen, reads>>

-----------------------------------------------------------------------------
(* The capture thread: grabRegion(), coveredIn(), capturePaddle().         *)

Grab(c) ==
  /\ grab.at = "none" /\ captures < MaxCaptures /\ captures' = captures + 1
  /\ c \notin covering
  /\ grab' = [at |-> "read", pointer |-> c, moved |-> {},
              image |-> [x \in Cells |-> IF x \in onScreen \cup leftover THEN Own ELSE pixels[x]]]
  /\ answer' = NoAnswer
  /\ UNCHANGED <<ui, sees, regions>>

\* mask(): what is vacated is read as it is.
Mask ==
  /\ grab.at = "read"
  /\ grab' = [grab EXCEPT !.at = "masked",
                          !.image = [x \in Cells |-> IF x \in covering THEN Fill
                                                     ELSE grab.image[x]]]
  /\ UNCHANGED <<ui, sees, regions, answer, captures>>

\* coveredIn(), which asks again. What a reading cannot be sure of (for the property
\* alone): cells just left, and those that changed hands since the pixels were read.
Cover ==
  /\ grab.at = "masked"
  /\ grab' = [at |-> "covered", pointer |-> grab.pointer, image |-> grab.image,
              all |-> covering \cup UNION vacated, blank |-> covering,
              doubt |-> grab.moved \cup UNION vacated, moved |-> {}]
  /\ UNCHANGED <<ui, sees, regions, answer, captures>>

Visible(g) == Cells \ g.all
Hash(g)    == [c \in Visible(g) |-> g.image[c]]

\* differences(): outside what is covered, now and back then.
Unchanged(r, g) == \A c \in Visible(g) \ r.hidden : r.pixels[c] = g.image[c]

\* Unchanged but for our own windows moving, unless the pointer is on what they hid.
Same(r, g) ==
  \/ r.hash = Hash(g)
  \/ g.pointer \notin r.blank /\ Unchanged(r, g)

\* A mistake: what was read with a part hidden is kept.
UncutNothing(r, blank) == r

\* uncut(): lines read with a part hidden that no longer is are read again.
Uncut(r, blank) ==
  LET again == {x.line : x \in {y \in r.cut : ~(y.part \subseteq blank)}}
  IN  [r EXCEPT !.lines = [b \in DOMAIN @ |-> IF b \in again THEN Unread ELSE @[b]],
                !.cut = {x \in @ : x.line \notin again}]

\* Boxes found a moment ago are used again while the pixels change; lines are not.
Reused(r, g) ==
  [r EXCEPT !.hash = Hash(g), !.pixels = g.image, !.hidden = g.all,
            !.blank = @ \cup g.blank, !.cut = {},
            !.lines = [b \in DOMAIN @ |-> Unread]]

\* The boxes the detector finds: what shows of each line.
Found(g) == {b \in {{c \in l : g.image[c] # Fill} : l \in Lines} : b # {}}

Detected(g) ==
  [hash |-> Hash(g), pixels |-> g.image, hidden |-> g.all, blank |-> g.blank,
   lines |-> [b \in Found(g) |-> Unread], cut |-> {}, fresh |-> TRUE]

\* read(): each box is recognised once, with what is hidden of it noted (noteCut).
Recognised(r, used, g) ==
  LET new == {b \in used : DOMAIN r.lines[b].text # b}
  IN  [r EXCEPT
         !.lines = [b \in DOMAIN @ |->
                      IF b \in new
                      THEN [text |-> [c \in b |-> g.image[c]], doubt |-> b \cap g.doubt]
                      ELSE @[b]],
         !.cut = @ \cup {[line |-> b, part |-> b \cap g.blank] :
                           b \in {x \in new : x \cap g.blank # {}}}]

\* The first region still the same; else the last one whose boxes are fresh; else a new one.
Ready(g) ==
  LET same   == {i \in DOMAIN regions : Same(regions[i], g)}
      recent == {i \in DOMAIN regions : regions[i].fresh /\ g.pointer \notin regions[i].blank}
      first  == CHOOSE i \in same : \A j \in same : i <= j
      last   == CHOOSE i \in recent : \A j \in recent : j <= i
  IN  IF same # {}
      THEN [at  |-> first,
            all |-> [regions EXCEPT ![first] = Uncut([@ EXCEPT !.hash = Hash(g)], g.blank)]]
      ELSE IF recent # {}
      THEN [at |-> last, all |-> [regions EXCEPT ![last] = Reused(@, g)]]
      ELSE LET kept == IF Len(regions) >= CacheSize THEN Tail(regions) ELSE regions
           IN  [at |-> Len(kept) + 1, all |-> Append(kept, Detected(g))]

\* What is read in boxes, with what it cannot be sure of (for the property alone).
Reply(r, used, g) ==
  LET line == [c \in UNION used |-> r.lines[CHOOSE b \in used : c \in b]]
  IN  [text    |-> [c \in UNION used |-> line[c].text[c]],
       covered |-> g.all,
       doubt   |-> {c \in UNION used : c \in line[c].doubt}]

\* The line under the pointer, and those its sentence goes on in.
AnswersFrom(r, at, all) ==
  LET under == {b \in DOMAIN r.lines : grab.pointer \in b}
  IN  IF under = {}
      THEN regions' = all /\ answer' = NoAnswer
      ELSE \E more \in SUBSET (DOMAIN r.lines \ under) :
             LET read == Recognised(r, under \cup more, grab)
             IN  /\ regions' = [all EXCEPT ![at] = read]
                 /\ answer' = Reply(read, under \cup more, grab)
Answer ==
  /\ grab.at = "covered"
  /\ LET ready == Ready(grab) IN AnswersFrom(ready.all[ready.at], ready.at, ready.all)
  /\ grab' = NoGrab
  /\ UNCHANGED <<ui, sees, captures>>

\* 300 ms after a region was read its boxes are no longer fresh.
Age(i) ==
  /\ regions[i].fresh
  /\ regions' = [regions EXCEPT ![i].fresh = FALSE]
  /\ UNCHANGED <<ui, sees, grab, answer, captures>>

-----------------------------------------------------------------------------
ReadingNext ==
  \/ \E a \in (Areas \cup {{}}) \ {covering} : PopupTo(a)
  \/ \E a \in vacated : Expire(a)
  \/ \E c \in Cells : Grab(c) \/ \E t \in Texts : ShowsElse(c, t)
  \/ Repaint \/ Flush \/ Mask \/ Cover \/ Answer
  \/ \E i \in DOMAIN regions : Age(i)

ReadingSpec == ReadingInit /\ [][ReadingNext]_svars

-----------------------------------------------------------------------------
\* What the popup hid when a line was read is read again once the popup is gone, and the
\* popup's own text is never taken for the page's: of what a capture answers, no cell
\* that shows is what was painted over, or the popup's. Where the popup left a moment
\* before the reading, or moved during it, that is not promised.
HiddenIsReadAgain ==
  \A c \in DOMAIN answer.text \ (answer.covered \cup answer.doubt) :
     answer.text[c] \notin {Fill, Own}
=============================================================================
