------------------------------- MODULE OcrLines -------------------------------
(***************************************************************************)
(* What the OCR capture makes of the lines of a page: the character under  *)
(* the pointer, the lines its sentence goes on and began in, the text and  *)
(* a box for each character of it, and what the daemon does with that:     *)
(* the start of the word, the sentence around it, the area marked          *)
(* (src/src/platform/ocr/OcrCapture.cpp, src/apps/daemon/Daemon.cpp).      *)
(*                                                                         *)
(* Coordinates run along the reading direction (from, to) and across it    *)
(* (top, bottom), so columns are lines. Characters of a line are equally   *)
(* wide. They are of a few classes: "k" one of a script set on a grid,     *)
(* "m" its full stop, "l" a letter of a language with spaces, "." "-" " ". *)
(* Confidence, closing quotes and line breaks are left out.                *)
(***************************************************************************)
EXTENDS Integers, Sequences, FiniteSets, SequencesExt

CONSTANTS LineTexts,  \* the texts of lines
          Froms, Tops, Heights, \* where lines may be
          PageLines,  \* lines on a page
          MoreLines,  \* lines a sentence may go on in (4)
          MoreChars,  \* characters after which no more lines are taken (400)
          MaxLengths  \* scan.max_length

VARIABLES page, \* the boxes, in the order the detector found them
          read  \* the text captured, once it was
lvars == <<page, read>>

NotRead == [text |-> <<>>]

LinesInit == page = <<>> /\ read = NotRead

-----------------------------------------------------------------------------
(* Lines.                                                                  *)

Box(from, top, height, text) ==
  [from |-> from, to |-> from + 2 * Len(text), top |-> top, bottom |-> top + height, text |-> text]

Apart(a, b) ==
  a.to <= b.from \/ b.to <= a.from \/ a.bottom <= b.top \/ b.bottom <= a.top

Least(a, b)    == IF a <= b THEN a ELSE b
Greatest(a, b) == IF a >= b THEN a ELSE b

\* The first of the candidates that is nearest.
Nearest(candidates, distance(_)) ==
  CHOOSE i \in candidates : \A j \in candidates :
     distance(i) < distance(j) \/ (distance(i) = distance(j) /\ i <= j)

EndsSentence(text) ==
  LET bare == {i \in DOMAIN text : text[i] # " "}
  IN  bare = {} \/ text[CHOOSE i \in bare : \A j \in bare : j <= i] \in {"m", "."}

\* 0 for a line without letters.
Script(text) ==
  LET count(c) == Cardinality({i \in DOMAIN text : text[i] = c})
  IN  CASE count("k") = 0 /\ count("l") = 0 -> 0
        [] count("k") >= count("l") /\ count("k") > 0 -> 1
        [] OTHER -> 2

SameScript(a, b) == Script(a.text) = 0 \/ Script(b.text) = 0 \/ Script(a.text) = Script(b.text)

\* continuation(): 0 for none. The rest of the same line; else, when this line is as long
\* as the others of its column, the next line below.
Continuation(current) ==
  LET a        == page[current]
      size     == a.bottom - a.top
      height(b) == b.bottom - b.top
      alike(b, low) == height(b) * 10 >= size * low /\ height(b) * 10 <= size * 16
      gap(i)   == page[i].from - a.to
      reach(b) == IF (IF a.bottom > b.bottom THEN a.bottom - b.bottom ELSE b.bottom - a.bottom) * 4 <= size
                  THEN 4 * size ELSE 2 * size
      onRow    == {i \in DOMAIN page \ {current} :
                     LET b == page[i]
                     IN  /\ alike(b, 7)
                         /\ (Least(a.bottom, b.bottom) - Greatest(a.top, b.top)) * 2 >= size
                         /\ 2 * gap(i) >= -size /\ gap(i) <= reach(b)}
      column   == {page[i].to : i \in {j \in DOMAIN page :
                     LET b == page[j]
                     IN  /\ alike(b, 7)
                         /\ b.top > a.top - 6 * size /\ b.top < a.bottom + 6 * size
                         /\ b.from <= a.from + size /\ b.to > a.from}}
      short    == \E end \in column : a.to < end - 3 * size
      pitch(i) == (page[i].top + page[i].bottom - a.top - a.bottom) \div 2
      below    == {i \in DOMAIN page \ {current} :
                     LET b == page[i]
                     IN  /\ alike(b, 7) \/ (alike(b, 4) /\ b.to - b.from <= 4 * size)
                         /\ pitch(i) * 5 >= size * 6 /\ pitch(i) <= size * 4
                         /\ b.from <= a.from + size /\ b.to > a.from /\ b.to <= a.to + 3 * size}
  IN  CASE onRow # {} -> Nearest(onRow, gap)
        [] onRow = {} /\ ~short /\ below # {} -> Nearest(below, pitch)
        [] OTHER -> 0

\* precedingLine(): the lowest of those that go on in this one.
PrecedingLine(current) ==
  LET before   == {i \in DOMAIN page \ {current} : Continuation(i) = current}
      above(i) == -page[i].top
  IN  IF before = {} THEN 0 ELSE Nearest(before, above)

\* followingLines(): up to one that ends a sentence.
FollowingLines(chosen) ==
  LET chain[n \in 0..MoreLines] ==
        IF n = 0 THEN <<>>
        ELSE LET had  == chain[n - 1]
                 last == IF had = <<>> THEN chosen ELSE had[Len(had)]
                 next == Continuation(last)
                 chars == FoldLeft(LAMBDA sum, i : sum + Len(page[i].text), Len(page[chosen].text), had)
             IN  IF \/ Len(had) < n - 1 \/ chars >= MoreChars \/ EndsSentence(page[last].text)
                    \/ next \in {0, chosen} \cup Range(had)
                    \/ (next # 0 /\ ~SameScript(page[chosen], page[next]))
                 THEN had ELSE Append(had, next)
  IN  chain[MoreLines]

\* precedingLines(): back to one that ends a sentence.
PrecedingLines(chosen) ==
  LET chain[n \in 0..MoreLines] ==
        IF n = 0 THEN <<>>
        ELSE LET had      == chain[n - 1]
                 first    == IF had = <<>> THEN chosen ELSE had[1]
                 previous == PrecedingLine(first)
             IN  IF \/ Len(had) < n - 1
                    \/ previous \in {0, chosen} \cup Range(had)
                    \/ (previous # 0 /\ (\/ ~SameScript(page[chosen], page[previous])
                                         \/ EndsSentence(page[previous].text)))
                 THEN had ELSE <<previous>> \o had
  IN  chain[MoreLines]

\* pointed(): on a space, the nearer word; the pointer is at a quarter of the character.
Pointed(line, i, late) ==
  LET text == page[line].text
  IN  IF text[i] # " " \/ Len(text) = 1 THEN i
      ELSE IF (IF late THEN i + 1 > Len(text) ELSE i > 1) THEN i - 1 ELSE i + 1

-----------------------------------------------------------------------------
(* selectLine(): the text from the pointer on, the sentence, a box of each *)
(* character. For the properties a box also knows its character and line.  *)

CharBox(line, i) ==
  [from |-> page[line].from + 2 * (i - 1), to |-> page[line].from + 2 * i,
   top |-> page[line].top, bottom |-> page[line].bottom, of |-> page[line].text[i], line |-> line]

\* A piece well apart on the same row, or one whose words have spaces, gets a space.
NeedsSpace(end, first) ==
  LET along  == Least(end.bottom, first.bottom) - Greatest(end.top, first.top)
      across == Least(end.bottom - end.top, first.bottom - first.top)
      beside == along * 2 > across /\ first.from - end.to >= across
      grid(b) == b.of \in {"k", "m"}
  IN  (beside \/ ~(grid(end) /\ grid(first))) /\ end.of \notin {"-", " "}

SpaceBox(end) == [end EXCEPT !.from = end.to, !.of = " "]

\* A mistake: the space between two lines has no box of its own.
JoinedUnboxed(acc, line) ==
  LET boxes == [i \in DOMAIN page[line].text |-> CharBox(line, i)]
      space == acc.boxes # <<>> /\ NeedsSpace(acc.boxes[Len(acc.boxes)], boxes[1])
      more  == acc.boxes
  IN  [sentence |-> acc.sentence \o (IF space THEN <<" ">> ELSE <<>>) \o page[line].text,
       boxes    |-> more \o boxes,
       starts   |-> IF acc.boxes = <<>> THEN {} ELSE acc.starts \cup {Len(more) + 1}]

\* add(): a line added to what there is of the sentence.
Joined(acc, line) ==
  LET boxes == [i \in DOMAIN page[line].text |-> CharBox(line, i)]
      space == acc.boxes # <<>> /\ NeedsSpace(acc.boxes[Len(acc.boxes)], boxes[1])
      more  == IF space THEN Append(acc.boxes, SpaceBox(acc.boxes[Len(acc.boxes)])) ELSE acc.boxes
  IN  [sentence |-> acc.sentence \o (IF space THEN <<" ">> ELSE <<>>) \o page[line].text,
       boxes    |-> more \o boxes,
       starts   |-> IF acc.boxes = <<>> THEN {} ELSE acc.starts \cup {Len(more) + 1}]

\* first and offset count the characters before the pointer's.
SelectLine(line, start, preceding, following, max) ==
  LET none   == [sentence |-> <<>>, boxes |-> <<>>, starts |-> {}]
      before == FoldLeft(Joined, none, preceding)
      upto   == Joined(before, line)
      all    == FoldLeft(Joined, upto, following)
      first  == Len(upto.sentence) - Len(page[line].text) + start - 1
  IN  [sentence |-> all.sentence, boxes |-> all.boxes, starts |-> all.starts,
       first    |-> Len(upto.boxes) - Len(page[line].text) + start - 1,
       offset   |-> first, rewound |-> 0,
       text     |-> SubSeq(all.sentence, first + 1, Least(first + max, Len(all.sentence)))]

-----------------------------------------------------------------------------
(* The daemon: startAtWord(), reachSentenceEnd(), sentenceSpan().          *)

\* wordLanguage(): the word is of a language with spaces; on a mark, by the letter before it.
WithSpaces(c) ==
  \/ c.text[1] = "l"
  \/ c.text[1] \notin {"l", "k"} /\ c.offset > 0 /\ c.sentence[c.offset] = "l"

\* wordStart(): back over what belongs to the word, then on to its first letter.
WordStart(sentence, offset) ==
  LET word  == {n \in 0..offset : \A i \in (n + 1)..(offset + 1) : sentence[i] \in {"l", "-"}}
      first == CHOOSE n \in word : \A m \in word : n <= m
      starts == {n \in first..offset : n = offset \/ sentence[n + 1] = "l"}
  IN  IF sentence[offset + 1] \notin {"l", "-"} THEN offset
      ELSE CHOOSE n \in starts : \A m \in starts : n <= m

StartAtWord(c) ==
  LET start == WordStart(c.sentence, c.offset)
  IN  IF ~WithSpaces(c) THEN c
      ELSE [c EXCEPT !.text = SubSeq(c.sentence, start + 1, c.offset) \o @,
                     !.rewound = @ + c.offset - start,
                     !.offset = start]

\* The wheel may choose up to the end of the sentence read.
ReachSentenceEnd(c) ==
  [c EXCEPT !.text = SubSeq(c.sentence, c.offset + 1, Len(c.sentence))]

\* sentenceAround(): where sentences may begin (next) and end (stop).
Breaks(s) ==
  {[next |-> i, stop |-> i] : i \in {j \in DOMAIN s :
      s[j] = "m" \/ (s[j] = "." /\ (j = Len(s) \/ s[j + 1] = " "))}}
  \cup
  {[next |-> n, stop |-> i - 1] : <<i, n>> \in {<<j, k>> \in (DOMAIN s) \X (DOMAIN s) :
      /\ 1 < j /\ j <= k /\ k < Len(s) /\ s[j - 1] = "k" /\ s[k + 1] = "k"
      /\ \A x \in j..k : s[x] = " "}}

SentenceSpan(s, offset) ==
  LET before == {b.next : b \in {x \in Breaks(s) : x.next <= offset}}
      after  == {b \in Breaks(s) : b.next > offset}
      begin  == IF before = {} THEN 0 ELSE CHOOSE n \in before : \A m \in before : m <= n
      end    == IF after = {} THEN Len(s)
                ELSE (CHOOSE b \in after : \A x \in after : b.next <= x.next).stop
      bare   == {n \in begin..offset : n = offset \/ s[n + 1] # " "}
  IN  <<CHOOSE n \in bare : \A m \in bare : n <= m, Greatest(end, begin)>>

\* spansOf(): a rectangle for each line, here the boxes it unites.
SpansOf(c, length) ==
  LET from == c.first - Least(c.first, c.rewound)
      to   == Least(Len(c.boxes), from + Least(length, Len(c.text)))
      heads == {i \in (from + 1)..to : i = from + 1 \/ i \in c.starts}
  IN  {{i \in h..to : \A x \in heads : x <= h \/ i < x} : h \in heads}

\* The whole sentence, as it is marked while it is translated (marksFor).
Whole(c) ==
  LET span == SentenceSpan(c.sentence, c.offset)
  IN  [c EXCEPT !.rewound = @ + c.offset - span[1],
                !.text = SubSeq(c.sentence, span[1] + 1, span[2])]

-----------------------------------------------------------------------------
\* The detector finds another line of text.
Detect(from, top, height, text) ==
  /\ read = NotRead /\ Len(page) < PageLines
  /\ \A i \in DOMAIN page : Apart(page[i], Box(from, top, height, text))
  /\ page' = Append(page, Box(from, top, height, text))
  /\ UNCHANGED read

\* The lines below are read when the text may reach them or the sentence is wanted; those
\* above only for the sentence.
Capture(line, i, late, sentence, max) ==
  /\ read = NotRead
  /\ LET start     == Pointed(line, i, late)
         following == IF sentence \/ Len(page[line].text) - (start - 1) < max
                      THEN FollowingLines(line) ELSE <<>>
         preceding == IF sentence THEN PrecedingLines(line) ELSE <<>>
     IN  read' = StartAtWord(SelectLine(line, start, preceding, following, max))
  /\ UNCHANGED page

\* Text chosen with the wheel beyond what was read.
Choose ==
  /\ read # NotRead /\ read # ReachSentenceEnd(read)
  /\ read' = ReachSentenceEnd(read)
  /\ UNCHANGED page

LinesNext ==
  \/ \E f \in Froms, t \in Tops, h \in Heights, text \in LineTexts : Detect(f, t, h, text)
  \/ \E line \in DOMAIN page : \E i \in DOMAIN page[line].text :
       \E late, sentence \in BOOLEAN, max \in MaxLengths : Capture(line, i, late, sentence, max)
  \/ Choose

LinesSpec == LinesInit /\ [][LinesNext]_lvars

-----------------------------------------------------------------------------
\* The characters of boxes, in order, and the spans laid end to end.
Marked(c, length) ==
  LET all  == UNION SpansOf(c, length)
      low  == CHOOSE i \in all : \A j \in all : i <= j
  IN  IF all = {} THEN <<>> ELSE [n \in 1..Cardinality(all) |-> c.boxes[low + n - 1].of]

OnOneLine(c, span) ==
  Cardinality({c.boxes[i].line : i \in {j \in span : c.boxes[j].of # " "}}) <= 1

\* What is marked on the screen is what is looked up, or translated: as many characters as
\* were matched or chosen cover exactly the boxes of these characters, line by line, also
\* over lines that were joined with a space, and from the start of the word on.
MarkedIsLookedUp ==
  read # NotRead =>
    /\ \A n \in 1..Len(read.text) : Marked(read, n) = SubSeq(read.text, 1, n)
    /\ Marked(Whole(read), Len(Whole(read).text)) = Whole(read).text
    /\ \A n \in 1..Len(read.text) : \A span \in SpansOf(read, n) : OnOneLine(read, span)
=============================================================================
