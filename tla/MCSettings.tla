----------------------------- MODULE MCSettings -----------------------------
(***************************************************************************)
(* The settings, what is counted, what is looked up, texts written and     *)
(* read, and the configuration in its file share no state: they are        *)
(* explored one at a time, `part` says which one takes steps.              *)
(***************************************************************************)
EXTENDS Settings, Statistics, LookupExamples, ConfigText

VARIABLES
  part,
  held, searched, followed, asked, found, ruby, lookups,           \* Translator
  writer, open, root, typed, parts                                 \* JsonText

\* A dictionary of words known by its name, and one known by what it holds.
Jmdict ==
  [terms |-> 9, kanji |-> 0, frequencies |-> 0, pitches |-> 0, marks |-> {"jmdict"},
   named |-> FALSE, monolingual |-> FALSE, repetitive |-> FALSE, structured |-> TRUE]
Jmnedict == [Jmdict EXCEPT !.named = TRUE]
NamesAndWords == [t \in {1, 2} |-> IF t = 1 THEN Jmnedict ELSE Jmdict]

Look ==
  INSTANCE Translator
    WITH TrLanguages <- Spoken, KanaLanguages <- {"ja"}, Script <- Scripts,
         Looked <- WordCharacters, Marks <- {"'"}, Folds <- YoAsE, Lower <- SmallLetters,
         KanaMaps <- Kanas, Combine <- NoCombining, Emphatic <- {"tsu", "bar"},
         IsKana <- Syllables, RulesOf <- SomeRules, MinimumStem <- Stems, MaxChain <- 3,
         MaxCandidates <- 9, MaxFormDepth <- 3, MaxFormRoutes <- 2, AlignBudget <- 20,
         TrTexts <- PointedAt, TrSets <- SomeSets, TrOptions <- SomeOptions, MaxLookups <- 2

\* A text with what must be escaped, one with a character beyond 16 bits, and what is typed:
\* objects and arrays, numbers, and strings with their escapes.
Json ==
  INSTANCE JsonText
    WITH JsonStrings <- {<<>>, <<97, 34, 92>>, <<10, 31, 240, 159, 152, 128>>},
         JsonNumbers <- {<<>>, <<49, 101, 43, 50, 48>>},
         Pieces <- {{<<c>> : c \in {91, 93, 123, 125, 44, 32}}
                      \cup {<<34, 34, 58>>, <<110, 117, 108, 108>>},
                    {<<c>> : c \in {48, 49, 45, 46, 101, 43}},
                    {<<c>> : c \in {34, 92, 110, 10}} \cup {<<117, 100, 56, 48, 48>>}},
         MaxDepth <- 2, MaxParts <- 4, MaxTyped <- 6

SomeColors == {"#102030", "#5AA0FF59"}
OtherCase  == {<<"ctrl", "Ctrl">>}
SomePresses ==
  {<<"AltL">>, <<"MouseMiddle", "SuperL">>, <<"MouseLeft">>, <<"ShiftL", "F1", "ControlR", "MouseBack">>}

\* Values of every kind, in and out of what a field may be.
Listed(list) == Array(Strings(list))
Member(key, s) == Item("string", key, s)
Members ==
  <<Member("too long", "#102030"), Member("ja", "full"), Member("", "full"), Member("ru", "red"),
    Item("number", "ko", ""), Member("ja", "#102030"), Member("text", "#5AA0FF59"),
    Member("muted", "#102030"), Member("zh", "full")>>
Preferences ==
  <<Item("object", "A", "off"), Item("object", "", "on"),
    Item("object", "B", "absent"), Item("object", "A", "on"), Member("C", "on")>>
Pool(f) ==
  <<Number(f.low - 1), Number(f.high + 1), Number(Huge), Flag(TRUE),
    Flag(FALSE), Text("#102030"), Object(Members),
    Array(Preferences)>>
    \o [i \in 1 .. 7 |-> Text(IF i \in DOMAIN f.names THEN f.names[i] ELSE "best")]

\* A file with every field in one such way; triggers that are none, or that the sentence key is
\* part of; the earlier names, with and without the new ones.
SomeDocuments ==
  LET Everywhere(i) == [at \in DOMAIN Fields \ {Trigger} |-> Pool(Fields[at])[i]]
  IN {Everywhere(i) : i \in 1 .. 15}
       \cup {Trigger :> Listed(names) : names \in {<<>>, <<"Hyper">>, <<"ctrl", "MouseBack">>,
                                                 <<"Shift", "Meta", "F12", "Tab">>}}
       \cup {<<"translation", "sentence_key">> :> Text(key) : key \in {"", "Hyper", "ctrl"}}
       \cup {(<<"popup", "highlight_padding">> :> Number(5)) @@ x
               : x \in {<<>>, <<"popup", "highlight_padding_x">> :> Number(3)}}
       \cup {(<<"scan", "japanese_only">> :> Flag(FALSE)) @@ x
               : x \in {<<>>, <<"scan", "known_languages_only">> :> Flag(TRUE)}}

lookVars == <<held, searched, followed, asked, found, ruby, lookups>>
jsonVars == <<writer, open, root, typed, parts>>

AllInit ==
  /\ part \in {"settings", "statistics", "lookups", "texts", "configuration"}
  /\ Init /\ StatInit /\ Look!TrInit /\ Json!JsonInit
  /\ part # "texts" => ~writer.pretty
  /\ part # "lookups" => held = <<>>
  /\ IF part = "configuration" THEN ConfigInit
     ELSE configFile = Missing /\ daemonConfig = <<>> /\ pageConfig = <<>> /\ changes = 0

InSettings   == part = "settings" /\ Next /\ UNCHANGED <<part, svars, lookVars, jsonVars, configVars>>
InStatistics == part = "statistics" /\ StatNext /\ UNCHANGED <<part, vars, lookVars, jsonVars, configVars>>
Looking      == part = "lookups" /\ Look!Lookup /\ UNCHANGED <<part, vars, svars, jsonVars, configVars>>
ReadingOut   == part = "lookups" /\ Look!ReadOut /\ UNCHANGED <<part, vars, svars, jsonVars, configVars>>
InTexts      == part = "texts" /\ Json!JsonNext /\ UNCHANGED <<part, vars, svars, lookVars, configVars>>
InConfiguration ==
  /\ part = "configuration" /\ ConfigNext
  /\ UNCHANGED <<part, vars, svars, lookVars, jsonVars>>

allVars == <<part, vars, svars, lookVars, jsonVars, configVars>>
AllNext == InSettings \/ InStatistics \/ Looking \/ ReadingOut \/ InTexts \/ InConfiguration
AllSpec ==
  /\ AllInit /\ [][AllNext]_allVars
  /\ WF_allVars(InSettings /\ IpcThread) /\ WF_allVars(InSettings /\ ImportThread)

\* Of Translator.
BestMatchKept == Look!BestMatchKept
\* Of JsonText.
JsonIsKept == Json!WrittenIsRead /\ Json!JsonIsRead
\* Of ConfigText: what is read, written and read again is the same, where there is a configuration.
ConfigurationIsKept == part = "configuration" => ConfigIsKept
=============================================================================
