--------------------------- MODULE LookupExamples ---------------------------
(***************************************************************************)
(* What is looked up in the small instance of Translator: two languages,   *)
(* some of their rules (from Japanese.cpp and Russian.cpp), and sets of    *)
(* two dictionaries with words reached by several ways.                    *)
(***************************************************************************)
EXTENDS Integers, FiniteSets, Sequences, TLC

Spoken == <<"ja", "ru">>
Syllables == {"ta", "be", "ru", "ma", "se", "n", "tsu", "bar", "TA"}
Scripts == [l \in {"ja", "ru"} |->
             IF l = "ja" THEN Syllables \cup {"E"}
             ELSE {"k", "o", "n", "m", "yo", "e", "i", "soft", "K"}]
WordCharacters == [l \in {"ja", "ru"} |-> IF l = "ja" THEN Scripts[l] ELSE Scripts[l] \cup {"'", "-"}]
YoAsE        == "yo" :> <<"e">>
SmallLetters == "K" :> "k"
Kanas        == <<"TA" :> "ta", "ta" :> "TA">>
NoCombining  == [pair \in {} |-> pair]
Stems        == [l \in {"ja", "ru"} |-> IF l = "ru" THEN 2 ELSE 0]

From(inflected, deinflected, in, out) ==
  [inflected |-> inflected, deinflected |-> deinflected, in |-> {in}, out |-> {out},
   transform |-> inflected]
SomeRules ==
  [l \in {"ja", "ru"} |->
    IF l = "ja"
    THEN <<From(<<"ma", "se", "n">>, <<"ma", "su">>, "masen", "masu"),
           From(<<"ma", "su">>, <<"ru">>, "masu", "v1"),
           From(<<"ta">>, <<"ru">>, "final", "v1")>>
    ELSE <<From(<<"e", "m">>, <<>>, "surface", "noun"),
           From(<<"i">>, <<>>, "surface", "noun"),
           From(<<"e", "m">>, <<"soft">>, "surface", "noun"),
           From(<<"i">>, <<"soft">>, "surface", "noun")>>]

OfWord(lemma, of) == [lemma |-> lemma, of |-> of]
Meaning == <<OfWord(<<>>, {})>>
Term(expression, reading, rules, score, glosses) ==
  [expression |-> expression, reading |-> reading, rules |-> rules, score |-> score,
   glosses |-> glosses]

\* A stake (kon), a horse (kon', stressed ko'n), forms of it that point at one another, to eat.
Kon == <<"k", "o", "n">>
Stressed == <<"k", "o", "'", "n", "soft">>
FirstTerms ==
  <<Term(Kon, <<>>, {"noun"}, 1, Meaning),
    Term(Kon \o <<"i">>, <<>>, {"noun"}, 0,
         <<OfWord(Kon \o <<"e">>, {}), OfWord(Stressed, {"plural"})>>),
    Term(<<"E", "be", "ru">>, <<"ta", "be", "ru">>, {"v1"}, 5, Meaning)>>
SecondTerms ==
  <<Term(Kon \o <<"soft">>, Stressed, {"noun"}, 3, Meaning),
    Term(Kon \o <<"e">>, <<>>, {"noun"}, 0, <<OfWord(Kon \o <<"i">>, {"prepositional"})>>),
    Term(<<"k", "yo">>, <<>>, {"noun"}, 0, Meaning),
    Term(<<"ta", "be">>, <<>>, {}, 7, Meaning)>>

\* Both dictionaries, or with one word less.
But(terms, i) == SubSeq(terms, 1, i - 1) \o SubSeq(terms, i + 1, Len(terms))
Both(first, second) ==
  <<[terms |-> first, kanji |-> {"E"},
     meta  |-> <<[expression |-> Kon, reading |-> <<>>, value |-> 3]>>],
    [terms |-> second, kanji |-> {}, meta |-> <<>>]>>
SomeSets ==
  {<<>>, Both(FirstTerms, SecondTerms), Both(FirstTerms, <<>>)}
    \cup {Both(But(FirstTerms, i), SecondTerms) : i \in DOMAIN FirstTerms}
    \cup {Both(FirstTerms, But(SecondTerms, i)) : i \in DOMAIN SecondTerms}

PointedAt ==
  {<<"k", "o", "'", "n", "i">>, <<"K", "o", "n", "e", "m">>, <<"k", "o", "n", "yo", "m">>,
   <<"E", "be", "ma", "se", "n", "ta", "be", "TA">>, <<"TA", "be", "bar", "bar", "k">>}
Choice(dictionaries, results) ==
  [preferred |-> "ru", languages |-> {"ru", "ja"}, length |-> 7, results |-> results,
   dictionaries |-> dictionaries, kanji |-> TRUE]
SomeOptions == {Choice(0, 9), Choice(1, 2)}
=============================================================================
