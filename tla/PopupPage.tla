------------------------------ MODULE PopupPage ------------------------------
(***************************************************************************)
(* The page of a popup: how the renderer lays its blocks out one below the *)
(* other (src/src/render/PopupRenderer.cpp), and what clicking, scrolling  *)
(* and selecting in it then do (src/src/platform/linux/X11Backend.cpp).    *)
(*                                                                         *)
(* Lengths are pixels at scale 1. A text is known by the number of its     *)
(* lines, each two characters of Glyph width; colours, icons, fonts and    *)
(* rectangles are left out, so is what a row of labels looks like.         *)
(***************************************************************************)
EXTENDS Integers, Sequences, FiniteSets, SequencesExt

CONSTANTS Styles,       \* the settings of the popup
          Results,      \* what lookups find
          Translations, \* NoTranslation, or what is known of the translation
          Limits,       \* the heights a first, partial image may be limited to
          MaxContent,   \* 16000: an image is not higher than this
          MaxHeight,    \* popup.max_height
          Spots,        \* where the pointer may be in the window
          MaxShows, MaxMoves \* bounds

Padding == 12  WordHeight == 20  RubyHeight == 8  LineHeight == 12  Glyph == 8  WheelStep == 56  DragStep == 12
Columns == 2

VARIABLES popup,     \* popup_: its image, style and entries; mapped: it is up
          scroll,    \* scroll_
          selecting, anchor, focus, \* selecting_, select_anchor_ and select_focus_ (0: none)
          copied,    \* clipboard_
          acted,     \* the last popup_action
          shows, moves
pagevars == <<popup, scroll, selecting, anchor, focus, copied, acted, shows, moves>>

NoTranslation == [kind |-> "none", lines |-> 0]
NoAction == [entry |-> 0, row |-> 0]

PageInit ==
  /\ popup = [mapped |-> FALSE] /\ scroll = 0
  /\ selecting = FALSE /\ anchor = 0 /\ focus = 0
  /\ copied = "nothing" /\ acted = NoAction
  /\ shows = 0 /\ moves = 0

Least(a, b)    == IF a <= b THEN a ELSE b
Greatest(a, b) == IF a >= b THEN a ELSE b

-----------------------------------------------------------------------------
(* Blocks. A page p under way: y_, its texts, regions and buttons.         *)

Empty == [y |-> Padding, texts |-> <<>>, regions |-> <<>>, buttons |-> <<>>, blocks |-> <<>>]

Down(p, by) == [p EXCEPT !.y = @ + by]

\* A text at y_, which stays.
Beside(p, x, dy, lines, height, selectable) ==
  [p EXCEPT !.texts = Append(@, [x |-> x, y |-> p.y + dy, lines |-> lines, height |-> height,
                                 selectable |-> selectable])]

\* A text, and y_ below it.
Text(p, lines, selectable, after) ==
  Down(Beside(p, Padding, 0, lines, LineHeight, selectable), lines * LineHeight + after)

\* A region from top to y_, and (for the properties) the rows of its contents.
Region(p, top, content, text, entry) ==
  [p EXCEPT !.regions = Append(@, [top |-> top, bottom |-> p.y, text |-> text, entry |-> entry]),
            !.blocks = Append(@, [top |-> content, bottom |-> p.y, text |-> text, entry |-> entry])]

\* A mistake: a block that is not an entry is taken for one.
AsideAsEntry(p, content, text) == Region(p, 0, content, text, TRUE)

\* A block that is not an entry: it begins at the top of the page.
Aside(p, content, text) == Region(p, 0, content, text, FALSE)

Space(s) == CASE s.design = "compact" -> 5 [] s.design = "classic" -> 7 [] OTHER -> 8
Separator(p, s) == Down(p, Space(s) + Space(s) + 1)

\* chips() and pills(): rows of labels, as many to a row as fit.
LabelRows(p, n, perRow, height, gap, after) ==
  LET rows == (n + perRow - 1) \div perRow
  IN  IF n = 0 THEN p ELSE Down(p, rows * height + (rows - 1) * gap + after)

QuietLine(p, n) == IF n = 0 THEN p ELSE Text(p, 1, TRUE, 2)

\* Words with furigana above them, wrapped: a word stays whole, closing punctuation never
\* begins a line.
RubyText(p, words, width) ==
  LET place(q, w) ==
        LET wraps == q.x > 0 /\ q.x + w.width > width /\ ~w.closing
            x     == IF wraps THEN 0 ELSE q.x
            page  == IF wraps THEN Down(q.page, RubyHeight + WordHeight) ELSE q.page
        IN  [x |-> x + w.width, page |-> Beside(page, Padding + x, RubyHeight, 1, WordHeight, TRUE)]
      flown == FoldLeft(place, [x |-> 0, page |-> p], words)
  IN  Down(flown.page, RubyHeight + (IF words = <<>> THEN 0 ELSE WordHeight))

Translated(p, translation) ==
  LET label == Text(p, 1, FALSE, 2)
      body  == Text(label, translation.lines, translation.kind # "problem", 0)
  IN  Aside(body, p.y, IF translation.kind = "done" THEN "translation" ELSE "sentence")

\* What the wheel chose and no entry spans.
Selected(p, s, r) ==
  LET words == IF s.furigana /\ r.words # <<>>
               THEN RubyText(p, r.words, 48)
               ELSE Down(Beside(p, Padding, 0, 1, WordHeight, TRUE), WordHeight)
  IN  Aside(Text(words, 1, FALSE, 0), p.y, "selection")

-----------------------------------------------------------------------------
(* Entries.                                                                *)

\* The buttons at the right end of the headword's line, the first rightmost; round() goes
\* away from zero.
Actions(p, s, index, top) ==
  LET wanted == (IF s.anki THEN <<"anki">> ELSE <<>>) \o (IF s.audio THEN <<"audio">> ELSE <<>>)
      size   == IF s.button > 0 THEN s.button ELSE WordHeight
      y      == IF size <= WordHeight THEN top + (WordHeight - size + 1) \div 2
                ELSE top - (size - WordHeight) \div 2
  IN  [p EXCEPT !.buttons = @ \o [k \in DOMAIN wanted |->
         [action |-> wanted[k], entry |-> index, column |-> k, y |-> y, height |-> size]]]

Headword(p, s, entry, index) ==
  LET ruby == IF entry.reading /\ s.furigana THEN RubyHeight ELSE 0
      word == Beside(p, Padding, ruby, 1, WordHeight, TRUE)
      read == IF entry.reading /\ s.reading
              THEN Beside(word, Padding + 2 * Glyph + 8, ruby + WordHeight - LineHeight - 2, 1, LineHeight, TRUE)
              ELSE word
  IN  Down(Actions(read, s, index, p.y + ruby),
           ruby + WordHeight + (IF s.design = "classic" THEN 2 ELSE 4))

\* The definitions of a dictionary follow one another.
Groups(defs) ==
  LET first(i) == i = 1 \/ defs[i - 1].dict # defs[i].dict
      last(i)  == i = Len(defs) \/ defs[i + 1].dict # defs[i].dict
      all      == {i \in DOMAIN defs : first(i)}
  IN  [k \in 1 .. Cardinality(all) |->
         LET i == CHOOSE j \in all : Cardinality({m \in all : m <= j}) = k
             e == CHOOSE j \in i .. Len(defs) : last(j) /\ \A m \in i .. (j - 1) : ~last(m)
         IN  [from |-> i, to |-> e]]

Shown(s, n) == IF s.senses > 0 THEN Least(n, s.senses) ELSE n

\* Senses without text are left out.
Sense(p, s, def, number) ==
  IF def.lines = 0 THEN p
  ELSE Text(IF number > 0 THEN Beside(p, Padding, 0, 1, LineHeight, FALSE) ELSE p,
            def.lines, TRUE, IF s.design = "compact" THEN 1 ELSE 4)

PlainDefinitions(p, s, defs) ==
  LET group(q, g) ==
        LET count   == g.to - g.from + 1
            visible == Shown(s, count)
            gap     == IF g.from = 1 THEN 2 ELSE IF s.design = "compact" THEN 3 ELSE 6
            caption == IF s.dictionary
                       THEN Text(Down(q, gap), 1, FALSE, IF s.design = "compact" THEN 1 ELSE 3)
                       ELSE q
            senses  == FoldLeft(LAMBDA page, k : Sense(page, s, defs[g.from + k - 1],
                                  IF count > 1 /\ s.design # "compact" THEN k ELSE 0),
                                caption, [k \in 1 .. visible |-> k])
        IN  IF visible < count THEN Text(senses, 1, FALSE, 2) ELSE senses
  IN  FoldLeft(group, p, Groups(defs))

\* Word class and the like in plain words, of the best dictionary: at most five.
Labels(entry) == Least(entry.labels, 5)

PlainTerm(p, s, entry, index) ==
  LET labels == Labels(entry)
      word   == Headword(p, s, entry, index)
      tagged == IF ~s.tags \/ labels = 0 THEN word
                ELSE IF s.design = "compact" THEN Text(word, 1, TRUE, 1)
                ELSE LabelRows(word, labels, 2, LineHeight + 4, 5, 6)
      form   == IF s.inflection /\ entry.form THEN QuietLine(tagged, 1) ELSE tagged
      band   == IF s.design = "friendly" THEN Down(form, 6) ELSE form
      defs   == PlainDefinitions(band, s, entry.defs)
      often  == IF s.frequencies THEN QuietLine(defs, entry.frequencies) ELSE defs
  IN  IF s.pitch THEN QuietLine(often, entry.pitches) ELSE often

\* How many definitions of a dictionary were hidden is told once, before the next dictionary.
More(q) ==
  IF q.hidden = 0 THEN q
  ELSE [q EXCEPT !.page = Text(@, 1, FALSE, 3), !.hidden = 0]

\* One pass: a dictionary's first definition tells what was hidden of the one before.
ClassicDefinitions(p, s, defs) ==
  LET next(q, i) ==
        LET first == i = 1 \/ defs[i - 1].dict # defs[i].dict
            begun == IF first THEN [More(q) EXCEPT !.group = 0] ELSE q
            tags  == (IF s.tags THEN defs[i].tags ELSE 0) + (IF first /\ s.dictionary THEN 1 ELSE 0)
            page  == IF first /\ i > 1 THEN Down(begun.page, 4) ELSE begun.page
            row   == LabelRows(page, tags, 3, LineHeight + 3, 4, 3)
            body  == IF defs[i].lines > 0 THEN Text(row, defs[i].lines, TRUE, 5) ELSE Down(row, 5)
        IN  IF s.senses > 0 /\ begun.group >= s.senses
            THEN [begun EXCEPT !.hidden = @ + 1]
            ELSE [begun EXCEPT !.group = @ + 1, !.page = body]
  IN  More(FoldLeft(next, [page |-> p, group |-> 0, hidden |-> 0],
                    [i \in DOMAIN defs |-> i]))

ClassicTerm(p, s, entry, index) ==
  LET word   == Headword(p, s, entry, index)
      form   == IF s.inflection /\ entry.form THEN Text(word, 1, TRUE, 3) ELSE word
      badges == (IF s.tags THEN entry.labels ELSE 0)
                  + (IF s.frequencies THEN entry.frequencies ELSE 0)
      tagged == LabelRows(form, badges, 3, LineHeight + 3, 4, 4)
      pitch  == IF s.pitch
                THEN FoldLeft(LAMBDA q, k : Text(q, 1, TRUE, 6), tagged,
                              [k \in 1 .. entry.pitches |-> k])
                ELSE tagged
  IN  ClassicDefinitions(pitch, s, entry.defs).page

Term(p, s, entry, index) ==
  IF s.design = "classic" THEN ClassicTerm(p, s, entry, index) ELSE PlainTerm(p, s, entry, index)

\* The character at the left, meanings, readings and figures beside it.
Kanji(p, kanji) ==
  LET lines == FoldLeft(LAMBDA q, k : Down(Beside(q, Padding + 44, 0, 1, LineHeight, TRUE), LineHeight + 3),
                        Beside(p, Padding, 0, 1, 2 * WordHeight, TRUE), [k \in 1 .. kanji.lines |-> k])
      stats == LabelRows(lines, kanji.stats, 2, LineHeight + 3, 4, 0)
  IN  [stats EXCEPT !.y = Greatest(@, p.y + 2 * WordHeight) + 8]

-----------------------------------------------------------------------------
(* build(), record(), paint().                                             *)

Rows(p, image) ==
  FoldLeft(LAMBDA all, t :
             IF ~t.selectable \/ t.y > image THEN all
             ELSE all \o [k \in 1 .. (t.lines * Columns) |->
                            [x |-> t.x + ((k - 1) % Columns) * Glyph,
                             y |-> t.y + ((k - 1) \div Columns) * t.height,
                             height |-> t.height]],
           <<>>, p.texts)

Paint(p, complete) ==
  LET height == Greatest(1, Least(p.y + Padding, MaxContent))
  IN  [height |-> height, regions |-> p.regions, buttons |-> p.buttons, blocks |-> p.blocks,
       glyphs |-> Rows(p, height), complete |-> complete]

\* The entries that are laid out before y_ reaches the limit; a region takes the separator
\* above it, the first one the margin too.
Build(s, r, translation, limit) ==
  LET above == r.selected \/ translation # NoTranslation
      top   == IF translation = NoTranslation THEN Empty ELSE Translated(Empty, translation)
      begun == IF ~r.selected THEN top
               ELSE Selected(IF translation = NoTranslation THEN top ELSE Separator(top, s), s, r)
      entry(q, i) ==
        LET first == i = 1 /\ ~above
            start == IF first THEN q.page ELSE Separator(q.page, s)
            ended == Term(start, s, r.terms[i], i)
        IN  IF q.page.y >= limit THEN q
            ELSE [done |-> i,
                  page |-> Region(ended, IF first THEN 0 ELSE q.page.y, start.y,
                                  r.terms[i].word, TRUE)]
      terms == FoldLeft(entry, [done |-> 0, page |-> begun], [i \in DOMAIN r.terms |-> i])
      kanji(q, i) ==
        LET start == IF i = 1 /\ translation # NoTranslation THEN Separator(q, s) ELSE q
        IN  Region(Kanji(start, r.kanji[i]), start.y, start.y, r.kanji[i].word, TRUE)
      page  == IF r.terms = <<>> /\ s.kanji
               THEN FoldLeft(kanji, terms.page, [i \in DOMAIN r.kanji |-> i]) ELSE terms.page
  IN  Paint(page, terms.done = Len(r.terms))

\* render() makes nothing of an empty result.
Renders(s, r, translation) ==
  translation # NoTranslation \/ r.terms # <<>> \/ (r.kanji # <<>> /\ s.kanji)

\* What the render thread can make.
Pages ==
  {[image |-> Build(m[1], m[2], m[3], m[4]), style |-> m[1], terms |-> m[2].terms] :
     m \in {n \in Styles \X Results \X Translations \X Limits : Renders(n[1], n[2], n[3])}}

\* The first region, entry or button at a place.
FirstOf(i, all) == i \in all /\ \A j \in all : i <= j

RegionAt(image, y) ==
  {image.regions[i] : i \in {j \in DOMAIN image.regions :
     FirstOf(j, {k \in DOMAIN image.regions :
                   image.regions[k].top <= y /\ y < image.regions[k].bottom})}}

EntryAt(image, y) ==
  LET entries == SelectSeq(image.regions, LAMBDA g : g.entry)
  IN  {i \in DOMAIN entries :
         FirstOf(i, {k \in DOMAIN entries : entries[k].top <= y /\ y < entries[k].bottom})}

ButtonAt(image, column, y) ==
  {image.buttons[i] : i \in {j \in DOMAIN image.buttons :
     FirstOf(j, {k \in DOMAIN image.buttons :
        LET b == image.buttons[k] IN b.column = column /\ b.y <= y /\ y < b.y + b.height})}}

\* The glyph nearest to a point; the distance down weighs more. 0: the page has no text.
GlyphAt(image, x, y) ==
  LET off(at, from, size) == Greatest(0, Greatest(from - at, at - (from + size)))
      distance(g) == 4 * off(y, g.y, g.height) + off(x, g.x, Glyph)
      best(i) == \A j \in DOMAIN image.glyphs :
                   LET di == distance(image.glyphs[i])  dj == distance(image.glyphs[j])
                   IN  di < dj \/ (di = dj /\ i <= j)
  IN  IF image.glyphs = <<>> THEN 0 ELSE CHOOSE i \in DOMAIN image.glyphs : best(i)

-----------------------------------------------------------------------------
(* The window.                                                             *)

Image     == popup.page.image
Height    == Least(Image.height, MaxHeight)
MaxScroll == Greatest(0, Image.height - Height)

SelectionEnds == selecting' = FALSE /\ anchor' = 0 /\ focus' = 0

\* A popup, or the one on screen drawn again (whole, with its translation, or marked).
Show(page) ==
  /\ shows < MaxShows /\ shows' = shows + 1
  /\ popup' = [mapped |-> TRUE, page |-> page]
  /\ scroll' = 0
  /\ SelectionEnds
  /\ UNCHANGED <<copied, acted, moves>>

\* hidePopup(): a selection under way stays.
HidePage ==
  /\ popup.mapped
  /\ popup' = [mapped |-> FALSE]
  /\ UNCHANGED <<scroll, selecting, anchor, focus, copied, acted, shows, moves>>

Moved == moves < MaxMoves /\ moves' = moves + 1

Turn(by) ==
  /\ Moved /\ popup.mapped
  /\ scroll' = Greatest(0, Least(MaxScroll, scroll + by))
  /\ UNCHANGED <<popup, selecting, anchor, focus, copied, acted, shows>>

Click(column, y) ==
  /\ Moved /\ popup.mapped
  /\ anchor' = 0 /\ focus' = 0
  /\ LET button == ButtonAt(Image, column, y + scroll)
         region == RegionAt(Image, y + scroll)
     IN  IF button # {}
         THEN /\ \E b \in button : acted' = [entry |-> b.entry, row |-> y + scroll]
              /\ UNCHANGED copied
         ELSE /\ \/ region = {} /\ UNCHANGED copied
                 \/ \E g \in region : copied' = g.text
              /\ UNCHANGED acted
  /\ UNCHANGED <<popup, scroll, selecting, shows>>

\* The middle button.
PlayAt(y) ==
  /\ Moved /\ popup.mapped
  /\ \E e \in EntryAt(Image, y + scroll) : acted' = [entry |-> e, row |-> y + scroll]
  /\ UNCHANGED <<popup, scroll, selecting, anchor, focus, copied, shows>>

BeginSelection(x, y) ==
  /\ Moved /\ popup.mapped
  /\ selecting' = TRUE /\ focus' = 0
  /\ anchor' = GlyphAt(Image, x, y + scroll)
  /\ UNCHANGED <<popup, scroll, copied, acted, shows>>

\* Dragging past the edges scrolls.
ExtendSelection(x, y) ==
  /\ Moved /\ popup.mapped /\ selecting /\ anchor # 0
  /\ scroll' = CASE y < 0      -> Greatest(0, scroll - DragStep)
                 [] y > Height -> Least(MaxScroll, scroll + DragStep)
                 [] OTHER      -> scroll
  /\ focus' \in {focus, GlyphAt(Image, x, y + scroll')}
  /\ UNCHANGED <<popup, selecting, anchor, copied, acted, shows>>

FinishSelection ==
  /\ selecting /\ selecting' = FALSE
  /\ IF popup.mapped /\ anchor # 0 /\ focus # 0
     THEN copied' = "text" /\ UNCHANGED <<anchor, focus>>
     ELSE anchor' = 0 /\ focus' = 0 /\ UNCHANGED copied
  /\ UNCHANGED <<popup, scroll, acted, shows, moves>>

PageNext ==
  \/ \E page \in Pages : Show(page)
  \/ HidePage \/ FinishSelection
  \/ \E by \in {-WheelStep, WheelStep} : Turn(by)
  \/ \E spot \in Spots :
       Click(0, spot) \/ Click(1, spot) \/ PlayAt(spot)
         \/ BeginSelection(spot, spot) \/ ExtendSelection(spot, spot)

PageSpec == PageInit /\ [][PageNext]_pagevars

-----------------------------------------------------------------------------
\* A click meets what is shown where it goes, in a partial image too: below the first
\* entry's top every row, separators included, belongs to the one entry drawn there,
\* counted as popup_action counts them; a translation or a selection above is none; and a
\* button is for the entry whose word it stands beside.
ClickMeetsEntry ==
  popup.mapped =>
    LET image   == Image
        blocks  == image.blocks
        spans   == {blocks[i] : i \in DOMAIN blocks} \cup {image.regions[i] : i \in DOMAIN image.regions}
        edges   == {g.top : g \in spans} \cup {g.bottom : g \in spans}
        entries == {i \in DOMAIN blocks : blocks[i].entry}
        number(i) == Cardinality({j \in entries : j <= i})
        mine(i) == {y \in edges \cup {e - 1 : e \in edges} :
                      y < blocks[i].bottom /\ y >= (IF i - 1 \in entries THEN blocks[i - 1].bottom ELSE blocks[i].top)}
    IN  /\ \A i \in DOMAIN blocks : \A y \in mine(i) :
              IF i \in entries
              THEN EntryAt(image, y) = {number(i)} /\ \E g \in RegionAt(image, y) : g.text = blocks[i].text
              ELSE EntryAt(image, y) = {}
        /\ \A k \in DOMAIN image.buttons :
              LET b == image.buttons[k]
              IN  EntryAt(image, b.y + b.height \div 2) = {b.entry}
=============================================================================
