------------------------------ MODULE MCDesktop ------------------------------
(***************************************************************************)
(* What is on the screen and in the settings application, explored one     *)
(* part at a time: the page of a popup, the OCR of a region a popup comes  *)
(* and goes over, the lines of text on a page, the input on Windows, and   *)
(* what the setup wizard installs. The parts share no state: `part` says   *)
(* which takes steps.                                                      *)
(***************************************************************************)
EXTENDS PopupPage, WindowsInput, ScreenReading, SetupInstall

VARIABLES
  part,
  boxes, captured  \* OcrLines

OfPage ==
  INSTANCE OcrLines
    WITH LineTexts <- {<<"k", "m">>, <<"l", "-">>, <<"l", " ", "l">>, <<"l", ".">>},
         Froms <- {0, 4}, Tops <- {0, 4, 8}, Heights <- {2}, PageLines <- 3, MoreLines <- 4,
         MoreChars <- 400, MaxLengths <- {2, 4}, page <- boxes, read <- captured

linesVars == <<boxes, captured>>
desktopVars == <<part, pagevars, svars, linesVars, winVars, setupVars>>

-----------------------------------------------------------------------------
(* The settings of popups and what they show.                              *)

Style(design, senses, button) ==
  [design |-> design, furigana |-> TRUE, reading |-> TRUE, inflection |-> TRUE, tags |-> TRUE,
   frequencies |-> TRUE, pitch |-> TRUE, dictionary |-> TRUE, kanji |-> TRUE,
   senses |-> senses, anki |-> TRUE, audio |-> TRUE, button |-> button]
AllDesigns == {Style("friendly", 0, 0), Style("compact", 1, 10), Style("classic", 1, 24)}

Def(dict, lines) == [dict |-> dict, lines |-> lines, tags |-> 1]
Entry(word, defs) ==
  [word |-> word, reading |-> word = "a", form |-> word = "a", labels |-> 3,
   frequencies |-> 1, pitches |-> 1, defs |-> defs]
Looked(terms, kanji, selected) ==
  [terms |-> terms, kanji |-> kanji, selected |-> selected,
   words |-> [i \in 1 .. 3 |-> [width |-> <<24, 40, 8>>[i], closing |-> i = 3]]]
SomeResults ==
  {Looked(<<Entry("a", <<Def(1, 1), Def(1, 2), Def(2, 1), Def(2, 0), Def(2, 1)>>),
           Entry("b", <<Def(1, 3)>>), Entry("c", <<>>)>>, <<>>, sel) : sel \in BOOLEAN}
    \cup {Looked(<<Entry("a", <<Def(2, 1), Def(3, 1)>>)>>, <<>>, FALSE),
          Looked(<<>>, <<[word |-> "k", lines |-> 2, stats |-> 3],
                        [word |-> "l", lines |-> 1, stats |-> 0]>>, FALSE)}
SomeTranslations ==
  {NoTranslation, [kind |-> "waiting", lines |-> 1], [kind |-> "done", lines |-> 2]}
SomeSpots == {-5, 20, 60, 160}

\* What the Windows backend is told: a key to hold and the sentence key, or a mouse button.
SomeConfigs ==
  {[chord |-> {{"ctrl"}}, sentence |-> {"alt"}, wheel |-> TRUE, lock |-> TRUE,
    selection |-> "on", plain |-> FALSE],
   [chord |-> {{"back"}}, sentence |-> {}, wheel |-> TRUE, lock |-> FALSE,
    selection |-> "withTrigger", plain |-> TRUE]}

-----------------------------------------------------------------------------
DesktopInit ==
  /\ part \in {"page", "reading", "lines", "windows", "setup"}
  /\ PageInit /\ ReadingInit /\ OfPage!LinesInit /\ WinInit
  /\ SetupInit
  /\ part # "windows" => settings.lock
  /\ part # "setup" => /\ ~wizard.reinstall /\ disk.installed = {}
                       /\ disk.files = {"ocr", "translation"}
  /\ part # "reading" => \A c \in DOMAIN pixels : pixels[c] = "a"

OfPopups ==
  part = "page" /\ PageNext /\ UNCHANGED <<part, svars, linesVars, winVars, setupVars>>
OfReading ==
  /\ part = "reading" /\ ReadingNext
  /\ UNCHANGED <<part, pagevars, linesVars, winVars, setupVars>>
OfLines ==
  /\ part = "lines" /\ OfPage!LinesNext
  /\ UNCHANGED <<part, pagevars, svars, winVars, setupVars>>
OfWindows ==
  part = "windows" /\ WinNext /\ UNCHANGED <<part, pagevars, svars, linesVars, setupVars>>
OfSetup ==
  part = "setup" /\ SetupNext /\ UNCHANGED <<part, pagevars, svars, linesVars, winVars>>

DesktopNext == OfPopups \/ OfReading \/ OfLines \/ OfWindows \/ OfSetup
DesktopSpec == DesktopInit /\ [][DesktopNext]_desktopVars

\* The property of the lines.
MarkedIsLookedUp == OfPage!MarkedIsLookedUp
=============================================================================
