------------------------------ MODULE Translator ------------------------------
(***************************************************************************)
(* Looking a text up (lookup/Translator.cpp): the spellings its language   *)
(* reads it as, the dictionary forms rules lead to (Deinflector.cpp), the  *)
(* terms found under them or under their search keys (SearchKey.cpp), the  *)
(* words that form-of entries stand for, and what is kept of it all. A     *)
(* translator holds its scratch buffers from one lookup to the next.       *)
(*                                                                         *)
(* A text is a sequence of characters; conditions are sets; a description  *)
(* of a form is the set of what the dictionaries say of it.                *)
(***************************************************************************)
EXTENDS Integers, FiniteSets, Sequences, SequencesExt, TLC

CONSTANTS
  TrLanguages,     \* the languages, in their order
  KanaLanguages,   \* those that are read as Japanese is
  Script,          \* [language -> its script]
  Looked,          \* [language -> the characters of its words]
  Marks,           \* stress marks
  Folds,           \* [folded letter -> what it is folded to, at most one letter]
  Lower,           \* [capital -> its small letter]
  KanaMaps,        \* the other ways of writing kana, letters and digits, as functions
  Combine,         \* [<<kana, mark>> -> the kana with the mark]
  Emphatic,        \* what is written several times for emphasis
  IsKana,          \* kana
  RulesOf,         \* [language -> its rules, in order]
  MinimumStem,     \* [language -> the characters a rule leaves]
  MaxChain,        \* Deinflection::max_chain
  MaxCandidates,   \* max_candidates
  MaxFormDepth,    \* max_form_depth
  MaxFormRoutes,   \* max_form_routes
  AlignBudget,     \* the steps spent on aligning a reading
  TrTexts,         \* the texts looked up
  TrSets,          \* the sets of dictionaries
  TrOptions,       \* the options
  MaxLookups       \* bound: lookups by one translator

VARIABLES
  held,      \* the set of dictionaries
  searched,  \* scratch: the candidates searched
  followed,  \* scratch: the form-of entries followed
  asked,     \* what the last lookup was asked
  found,     \* what it answered
  ruby,      \* the readings of a text
  lookups    \* how many lookups there were

trvars == <<held, searched, followed, asked, found, ruby, lookups>>

Nothing == [text |-> <<>>, language |-> TrLanguages[1], matched |-> 0, terms |-> <<>>,
            kanji |-> <<>>]

Indexes(n) == [i \in 1 .. n |-> i]
Lexically(a, b) ==
  \E i \in DOMAIN a : a[i] < b[i] /\ \A j \in 1 .. i - 1 : a[j] = b[j]
Flag(b) == IF b THEN 1 ELSE 0
Least(S) == CHOOSE x \in S : \A y \in S : x <= y
Most(S) == CHOOSE x \in S : \A y \in S : y <= x
FirstOf(s, n) == SubSeq(s, 1, Least({n, Len(s)}))

\* std::ranges::stable_sort by keys: `keys` are those of the elements of s.
InOrder(s, keys) ==
  LET order == SortSeq(Indexes(Len(s)), LAMBDA i, j : Lexically(keys[i] \o <<i>>, keys[j] \o <<j>>))
  IN [i \in DOMAIN s |-> s[order[i]]]

-----------------------------------------------------------------------------
(* The language of a text, and the ways it may be spelled.                 *)

\* languageOf(): the one of the script the text starts in, the preferred one first.
LanguageOf(text, options) ==
  LET among     == SelectSeq(TrLanguages, LAMBDA l : l \in options.languages)
      of        == SelectSeq(among, LAMBDA l : text # <<>> /\ text[1] \in Script[l])
      preferred == options.preferred \in options.languages
  IN IF of # <<>>
     THEN IF preferred /\ Contains(of, options.preferred) THEN options.preferred ELSE of[1]
     ELSE IF preferred THEN options.preferred ELSE among[1]

\* The characters looked up: those of words, up to the longest.
Source(text, l, options) ==
  LET ends == {i \in DOMAIN text : text[i] \notin Looked[l] \/ i > options.length}
  IN SubSeq(text, 1, Least(ends \cup {Len(text) + 1}) - 1)

Unit(c, end) == [c |-> c, end |-> end]
LastEnds(us, end) == [us EXCEPT ![Len(us)].end = end]
Mapped(us, f) == [i \in DOMAIN us |-> IF us[i].c \in DOMAIN f
                                      THEN [us[i] EXCEPT !.c = f[us[i].c]] ELSE us[i]]
Spelled(us) == [i \in DOMAIN us |-> us[i].c]

\* Stress marks go, the letter before them covering them.
Unstressed(source) ==
  FoldLeft(LAMBDA us, i : IF source[i] \in Marks /\ us # <<>> THEN LastEnds(us, i)
                          ELSE Append(us, Unit(source[i], i)), <<>>, Indexes(Len(source)))

\* Folded letters become their fold; those folded into nothing go, the letter before covering
\* them.
FoldedUnits(us) ==
  FoldLeft(LAMBDA out, u : CASE u.c \notin DOMAIN Folds  -> Append(out, u)
                             [] u.c \in DOMAIN Folds /\ Folds[u.c] # <<>>
                                  -> Append(out, [u EXCEPT !.c = Folds[u.c][1]])
                             [] OTHER -> IF out = <<>> THEN out ELSE LastEnds(out, u.end),
           <<>>, us)

\* As written, in small letters, with one capital, each with its letters folded too.
AlphabeticSpellings(source) ==
  LET base     == Unstressed(source)
      capitals == Cardinality({i \in DOMAIN base : base[i].c \in DOMAIN Lower})
      small    == Mapped(base, Lower)
      written  == <<base>> \o (IF capitals > 0 THEN <<small>> ELSE <<>>)
                    \o (IF capitals > 1
                        THEN <<[small EXCEPT ![1].c = IF \E u \in DOMAIN Lower : Lower[u] = @
                                                      THEN CHOOSE u \in DOMAIN Lower : Lower[u] = @
                                                      ELSE @]>>
                        ELSE <<>>)
      folds    == SelectSeq(written, LAMBDA us : \E i \in DOMAIN us : us[i].c \in DOMAIN Folds)
  IN written \o SelectSeq([i \in DOMAIN folds |-> FoldedUnits(folds[i])], LAMBDA us : us # <<>>)

\* normalizeWidth(): a mark joins the kana before it.
Normalized(source) ==
  FoldLeft(LAMBDA us, i : IF us # <<>> /\ <<Last(us).c, source[i]>> \in DOMAIN Combine
                          THEN [us EXCEPT ![Len(us)] = Unit(Combine[<<@.c, source[i]>>], i)]
                          ELSE Append(us, Unit(source[i], i)), <<>>, Indexes(Len(source)))

\* collapseEmphatic(): what is repeated for emphasis is written once, covering it all.
Collapsed(us) ==
  FoldLeft(LAMBDA out, u : IF out # <<>> /\ Last(out).c = u.c /\ u.c \in Emphatic
                           THEN LastEnds(out, u.end) ELSE Append(out, u), <<>>, us)

\* In either kana, and without emphasis.
KanaSpellings(source) ==
  LET base  == Normalized(source)
      plain == <<base>> \o [i \in DOMAIN KanaMaps |-> Mapped(base, KanaMaps[i])]
  IN plain \o [i \in DOMAIN plain |-> Collapsed(plain[i])]

\* addVariant(): a spelling that is there already is not added again.
Variants(l, source) ==
  FoldLeft(LAMBDA out, us : IF \E i \in DOMAIN out : Spelled(out[i]) = Spelled(us) THEN out
                            ELSE Append(out, us), <<>>,
           IF l \in KanaLanguages THEN KanaSpellings(source) ELSE AlphabeticSpellings(source))

-----------------------------------------------------------------------------
(* Rules lead from an inflected form to dictionary forms.                  *)

\* A form a rule makes of another one, if it applies.
Applies(l, form, rule) ==
  LET stem == Len(form.text) - Len(rule.inflected)
  IN /\ form.conditions = {} \/ form.conditions \cap rule.in # {}
     /\ IsSuffix(rule.inflected, form.text)
     /\ stem = 0 => rule.deinflected # <<>>
     /\ stem >= MinimumStem[l]

Applied(form, rule) ==
  [text       |-> SubSeq(form.text, 1, Len(form.text) - Len(rule.inflected)) \o rule.deinflected,
   conditions |-> rule.out,
   chain      |-> Append(form.chain, rule.transform)]

\* One rule of the loop: a form that is there already, or one too many, is not added.
WithRule(l, out, form, rule) ==
  LET next == Applied(form, rule)
  IN IF /\ Len(out) < MaxCandidates
        /\ Applies(l, form, rule)
        /\ ~\E i \in DOMAIN out :
              out[i].text = next.text /\ out[i].conditions = next.conditions
     THEN Append(out, next) ELSE out

RECURSIVE Expanded(_, _, _)
Expanded(l, out, i) ==
  IF i > Len(out) \/ Len(out) >= MaxCandidates THEN out
  ELSE Expanded(l, IF Len(out[i].chain) >= MaxChain THEN out
                   ELSE FoldLeft(LAMBDA o, rule : WithRule(l, o, out[i], rule), out, RulesOf[l]),
                i + 1)

Deinflect(l, text) ==
  Expanded(l, <<[text |-> text, conditions |-> {}, chain |-> <<>>]>>, 1)

-----------------------------------------------------------------------------
(* What is found in the dictionaries under a form.                         *)

FoldedText(text) ==
  FlattenSeq([i \in DOMAIN text |-> IF text[i] \in Marks THEN <<>>
                                    ELSE IF text[i] \in DOMAIN Folds THEN Folds[text[i]]
                                    ELSE <<text[i]>>])
SearchKey(text) == IF \E i \in DOMAIN text : text[i] \in Marks \cup DOMAIN Folds
                   THEN FoldedText(text) ELSE <<>>
OnlyAddsStress(reading, expression) ==
  /\ \E i \in DOMAIN reading : reading[i] \in Marks
  /\ SelectSeq(reading, LAMBDA c : c \notin Marks) = expression

\* addKeys() of the importer: a term is found by its spelling, its reading and their search keys.
KeysOf(term) ==
  LET spellings == {term.expression, term.reading}
  IN spellings \cup ({SearchKey(s) : s \in spellings} \ {<<>>})

\* Every term: <<the dictionary, the term in it>>, the dictionaries in their order.
Places(set) ==
  FlattenSeq([d \in DOMAIN set |-> [t \in DOMAIN set[d].terms |-> <<d, t>>]])
TermAt(set, place) == set[place[1]].terms[place[2]]
FindTerms(set, key) == SelectSeq(Places(set), LAMBDA p : key \in KeysOf(TermAt(set, p)))

\* isFormOf(): an entry that only says which words it is a form of.
IsFormOf(term) ==
  term.glosses # <<>> /\ \A i \in DOMAIN term.glosses : term.glosses[i].lemma # <<>>

\* formsOf(): those words, each with all the entry says it is of it.
FormsOf(term) ==
  FoldLeft(LAMBDA forms, g :
             IF \E i \in DOMAIN forms : forms[i].lemma = g.lemma
             THEN [i \in DOMAIN forms |-> IF forms[i].lemma = g.lemma
                                          THEN [forms[i] EXCEPT !.of = @ \cup g.of] ELSE forms[i]]
             ELSE Append(forms, g), <<>>, term.glosses)

Steps(m) == Len(m.chain) + Flag(m.form # {}) + (IF m.unresolved THEN 2 ELSE 0)

\* The places of the word a form is of: written as the form says, with or without stress marks.
WordsOf(set, lemma) ==
  SelectSeq(FindTerms(set, IF SearchKey(lemma) # <<>> THEN SearchKey(lemma) ELSE lemma),
            LAMBDA p : \/ TermAt(set, p).expression = lemma
                       \/ OnlyAddsStress(lemma, TermAt(set, p).expression))

\* addFormsOf(): a form-of entry stands for the entries of its word, in every dictionary; it is
\* kept itself only when there are none. `s` is the scratch, `yes` whether there were any.
RECURSIVE AddFormsOf(_, _, _, _, _), AddForm(_, _, _, _, _), Follow(_, _, _, _, _, _)
AddFormsOf(set, s, term, match, depth) ==
  LET walked == FoldLeft(LAMBDA a, form : AddForm(set, a, form, match, depth),
                         [s |-> s, yes |-> FALSE], FormsOf(term))
  IN IF ~IsFormOf(term) THEN [s |-> s, yes |-> FALSE]
     ELSE IF walked.yes \/ depth > 0 THEN walked
     ELSE [s   |-> [walked.s EXCEPT !.matches = Append(@, [match EXCEPT !.unresolved = TRUE])],
           yes |-> TRUE]

AddForm(set, a, form, match, depth) ==
  LET path  == <<IF form.of = {} THEN {"inflected form"} ELSE form.of>> \o
                 (IF match.form = {} THEN <<>> ELSE CHOOSE p \in match.form : TRUE)
      words == WordsOf(set, form.lemma)
      own   == SelectSeq(words, LAMBDA p : ~IsFormOf(TermAt(set, p)))
      forms == SelectSeq(words, LAMBDA p : IsFormOf(TermAt(set, p)))
      kept  == [s   |-> [a.s EXCEPT !.matches = @ \o
                           [i \in DOMAIN own |-> [match EXCEPT !.place = own[i],
                                                               !.expression = TRUE,
                                                               !.form = {path}]]],
                yes |-> a.yes \/ own # <<>>]
  IN IF own # <<>> \/ depth + 1 >= MaxFormDepth THEN kept
     ELSE FoldLeft(LAMBDA b, p : Follow(set, b, p, path, match, depth), kept, forms)

\* A form-of entry is followed once per route, for a few routes.
Follow(set, a, place, path, match, depth) ==
  LET key    == <<place, depth, match.length, match.folded, match.chain>>
      before == IF key \in DOMAIN a.s.followed THEN a.s.followed[key]
                ELSE [yes |-> FALSE, paths |-> {}]
      taken  == [before EXCEPT !.paths = @ \cup {path}]
      walked == AddFormsOf(set, [a.s EXCEPT !.followed = (key :> taken) @@ @],
                           TermAt(set, place), [match EXCEPT !.form = {path}], depth + 1)
      after  == [taken EXCEPT !.yes = @ \/ walked.yes]
  IN IF path \in before.paths \/ Cardinality(before.paths) >= MaxFormRoutes
     THEN [a EXCEPT !.yes = @ \/ before.yes]
     ELSE [s   |-> [walked.s EXCEPT !.followed = (key :> after) @@ @],
           yes |-> a.yes \/ after.yes]

\* What a term found under a candidate is of it: as written, or only by its search key.
MatchOf(term, place, length, candidate) ==
  LET folded == term.expression # candidate.text /\ term.reading # candidate.text
  IN [place |-> place, length |-> length, chain |-> candidate.chain, form |-> {},
      unresolved |-> FALSE, folded |-> folded,
      expression |-> \/ term.expression = candidate.text
                     \/ folded /\ FoldedText(term.expression) = candidate.text]

Fits(term, candidate) ==
  /\ candidate.text \in {term.expression, term.reading,
                         FoldedText(term.expression), FoldedText(term.reading)}
  /\ candidate.conditions # {} => term.rules \cap candidate.conditions # {}

AddMatch(set, s, place, length, candidate) ==
  LET term  == TermAt(set, place)
      match == MatchOf(term, place, length, candidate)
  IN CASE ~Fits(term, candidate) -> s
       [] Fits(term, candidate) /\ IsFormOf(term) -> AddFormsOf(set, s, term, match, 0).s
       [] OTHER -> [s EXCEPT !.matches = Append(@, match)]

\* A candidate is searched once.
Search(set, s, length, candidate) ==
  LET key == <<candidate.text, candidate.conditions>>
  IN IF key \in s.searched THEN s
     ELSE FoldLeft(LAMBDA a, p : AddMatch(set, a, p, length, candidate),
                   [s EXCEPT !.searched = @ \cup {key}], FindTerms(set, candidate.text))

\* Mutant: the shortest prefix first.
ShortestFirst(us) == Indexes(Len(us))
\* The longest prefix first, so that a candidate keeps the longest source span.
PrefixEnds(us) == Reverse(Indexes(Len(us)))

\* collect(): every candidate of every prefix.
Collect(l, set, s, us) ==
  FoldLeft(LAMBDA a, k : FoldLeft(LAMBDA b, candidate : Search(set, b, us[k].end, candidate), a,
                                  Deinflect(l, Spelled(SubSeq(us, 1, k)))),
           s, PrefixEnds(us))

-----------------------------------------------------------------------------
(* What is kept of the matches.                                            *)

\* Only form-of entries and folded spellings are sorted.
Arranged(matches) ==
  IF \E i \in DOMAIN matches : matches[i].form # {} \/ matches[i].folded \/ matches[i].unresolved
  THEN InOrder(matches, [i \in DOMAIN matches |->
                          LET m == matches[i] IN
                          <<-m.length, Steps(m), Len(m.chain), Flag(m.folded),
                            Flag(~m.expression)>>])
  ELSE matches

Entry(set, m) ==
  LET term == TermAt(set, m.place)
  IN [expression |-> term.expression, reading |-> term.reading, length |-> m.length,
      chain |-> m.chain, form |-> m.form, folded |-> m.folded, unresolved |-> m.unresolved,
      match |-> m.expression, score |-> term.score, best |-> m.place[1],
      definitions |-> <<m.place>>, frequencies |-> <<>>]

Same(entry, term) == entry.expression = term.expression /\ entry.reading = term.reading

\* An entry reached again by the same term takes what else is said of the form.
AlsoOf(entry, m) ==
  IF m.form # {} /\ entry.length = m.length /\ Steps(entry) = Steps(m)
  THEN [entry EXCEPT !.form = @ \cup m.form] ELSE entry

\* An entry takes another term of the same word: the best match of them.
Joined(set, entry, m) ==
  LET better == \/ m.length > entry.length
                \/ m.length = entry.length /\ Steps(m) < Steps(entry)
      of     == Entry(set, m)
      taken  == IF better THEN of ELSE entry
  IN [taken EXCEPT !.score = Most({entry.score, of.score}), !.best = Least({entry.best, of.best}),
                   !.definitions = entry.definitions \o of.definitions]

GroupOne(set, g, m) ==
  LET term == TermAt(set, m.place)
      at   == {i \in DOMAIN g.terms : Same(g.terms[i], term)}
      i    == CHOOSE i \in at : TRUE
  IN IF m.place \in g.seen
     THEN IF at = {} THEN g ELSE [g EXCEPT !.terms[i] = AlsoOf(@, m)]
     ELSE [seen  |-> g.seen \cup {m.place},
           terms |-> IF at = {} THEN Append(g.terms, Entry(set, m))
                     ELSE [g.terms EXCEPT ![i] = Joined(set, @, m)]]

Group(set, matches) ==
  LET terms == FoldLeft(LAMBDA g, m : GroupOne(set, g, m), [terms |-> <<>>, seen |-> {}],
                        Arranged(matches)).terms
  IN [i \in DOMAIN terms |->
       [terms[i] EXCEPT !.definitions = InOrder(@, [j \in DOMAIN @ |-> <<@[j][1]>>])]]

\* keepFirstDictionaries(): the dictionaries with the longest matches, then those first in order.
KeepFirst(terms, count) ==
  LET In(e)     == {p[1] : p \in Range(e.definitions)}
      Having(d) == {i \in DOMAIN terms : d \in In(terms[i])}
      all       == SetToSeq(UNION {In(e) : e \in Range(terms)})
      longest   == InOrder(all, [i \in DOMAIN all |->
                                  <<-Most({terms[t].length : t \in Having(all[i])}), all[i]>>])
      kept      == Range(SubSeq(longest, 1, count))
      left      == [i \in DOMAIN terms |->
                     [terms[i] EXCEPT !.definitions =
                        SelectSeq(@, LAMBDA p : p[1] \in kept)]]
  IN IF count = 0 \/ Len(all) <= count THEN terms
     ELSE LET some == SelectSeq(left, LAMBDA e : e.definitions # <<>>)
          IN [i \in DOMAIN some |-> [some[i] EXCEPT !.best =
                                       Least(In(some[i]))]]

Ordered(terms) ==
  InOrder(terms, [i \in DOMAIN terms |->
                   LET e == terms[i] IN <<-e.length, Steps(e), Flag(e.folded), Flag(~e.match),
                                          -e.score, e.best>>])

\* attachMeta(): how often a word is used, as the dictionaries of frequencies say.
WithMeta(set, e) ==
  [e EXCEPT !.frequencies =
     FlattenSeq([d \in DOMAIN set |->
       SelectSeq(set[d].meta, LAMBDA r : r.expression = e.expression
                                         /\ r.reading \in {<<>>, e.reading})])]

-----------------------------------------------------------------------------
(* A lookup.                                                               *)

\* lookup() empties the scratch an earlier one left.
Emptied(scratch) == [searched |-> {}, followed |-> <<>>, matches |-> <<>>]

\* lookup() with the scratch an earlier one left: what it answers, and the scratch it leaves.
Looking(set, text, options, scratch) ==
  LET l      == LanguageOf(text, options)
      source == Source(text, l, options)
      none   == [Nothing EXCEPT !.text = source, !.language = l]
      s      == FoldLeft(LAMBDA a, us : Collect(l, set, a, us), Emptied(scratch),
                         Variants(l, source))
      kept   == Ordered(KeepFirst(Group(set, s.matches), options.dictionaries))
      shown  == FirstOf(kept, options.results)
  IN IF source = <<>> \/ set = <<>> THEN [answer |-> none, scratch |-> scratch]
     ELSE [answer  |-> [none EXCEPT
             !.terms   = [i \in DOMAIN shown |-> WithMeta(set, shown[i])],
             !.matched = Most({0} \cup {shown[i].length : i \in DOMAIN shown}),
             !.kanji   = IF options.kanji
                         THEN SelectSeq(Indexes(Len(set)), LAMBDA d : source[1] \in set[d].kanji)
                         ELSE <<>>],
           scratch |-> [searched |-> s.searched, followed |-> s.followed]]

Scratch == [searched |-> searched, followed |-> followed]

Lookup ==
  /\ lookups < MaxLookups
  /\ \E text \in TrTexts, options \in TrOptions :
       \E done \in {Looking(held, text, options, Scratch)} :
         /\ asked' = [text |-> text, options |-> options]
         /\ found' = done.answer
         /\ searched' = done.scratch.searched
         /\ followed' = done.scratch.followed
  /\ lookups' = lookups + 1
  /\ ruby' = <<>>
  /\ UNCHANGED held

-----------------------------------------------------------------------------
(* The readings over a text.                                               *)

Segment(text, reading) == [text |-> text, reading |-> reading]

\* The runs of kana and of anything else in a word (distributeFurigana).
Groups(word) ==
  FoldLeft(LAMBDA gs, c : IF gs # <<>> /\ Last(gs).kana = (c \in IsKana)
                          THEN [gs EXCEPT ![Len(gs)].text = Append(@, c)]
                          ELSE Append(gs, [text |-> <<c>>, kana |-> c \in IsKana]), <<>>, word)

Hiragana(text) == [i \in DOMAIN text |-> IF text[i] \in DOMAIN KanaMaps[1]
                                         THEN KanaMaps[1][text[i]] ELSE text[i]]

\* align(): kana match the reading, anything else takes as little of it as possible, one
\* character at least. Every call takes one from the budget.
RECURSIVE Align(_, _, _), AlignFrom(_, _, _, _)
Align(groups, reading, budget) ==
  LET kana == Head(groups).text
      rest == Align(Tail(groups), SubSeq(reading, Len(kana) + 1, Len(reading)), budget - 1)
  IN IF budget = 0 THEN [ok |-> FALSE, out |-> <<>>, budget |-> 0]
     ELSE IF groups = <<>> THEN [ok |-> reading = <<>>, out |-> <<>>, budget |-> budget - 1]
     ELSE IF ~Head(groups).kana THEN AlignFrom(groups, reading, 1, budget - 1)
     ELSE IF ~IsPrefix(Hiragana(kana), Hiragana(reading))
     THEN [ok |-> FALSE, out |-> <<>>, budget |-> budget - 1]
     ELSE [rest EXCEPT !.out = <<<<>>>> \o @]

\* As much of the reading is left as the groups after it take at least.
AlignFrom(groups, reading, length, budget) ==
  LET after    == Tail(groups)
      reserved == FoldLeft(LAMBDA n, g : n + (IF g.kana THEN Len(g.text) ELSE 1), 0, after)
      rest     == Align(after, SubSeq(reading, length + 1, Len(reading)), budget)
  IN IF budget = 0 \/ length + reserved > Len(reading)
     THEN [ok |-> FALSE, out |-> <<>>, budget |-> budget]
     ELSE IF rest.ok THEN [rest EXCEPT !.out = <<SubSeq(reading, 1, length)>> \o @]
     ELSE AlignFrom(groups, reading, length + 1, rest.budget)

Furigana(word, reading) ==
  LET groups == Groups(word)
      by     == Align(groups, reading, AlignBudget)
  IN IF (\A i \in DOMAIN groups : groups[i].kana) \/ reading \in {<<>>, word}
     THEN <<Segment(word, <<>>)>>
     ELSE IF by.ok THEN [i \in DOMAIN groups |-> Segment(groups[i].text, by.out[i])]
     ELSE <<Segment(word, reading)>>

\* Language::headword(): the stressed reading instead of the word, or nothing it does not say.
Headword(l, word, reading) ==
  IF l \in KanaLanguages THEN Furigana(word, reading)
  ELSE IF OnlyAddsStress(reading, word) THEN <<Segment(reading, <<>>)>>
  ELSE <<Segment(word, IF reading = word THEN <<>> ELSE reading)>>

\* The pieces of a headword that are written as the text is.
Fitting(segments, written) ==
  FoldLeft(LAMBDA fit, seg :
             IF fit.on /\ IsPrefix(fit.text \o seg.text, written)
             THEN [fit EXCEPT !.text = @ \o seg.text, !.pieces = Append(@, seg)]
             ELSE [fit EXCEPT !.on = FALSE],
           [on |-> TRUE, text |-> <<>>, pieces |-> <<>>], segments)

\* The longest entry written the way the text is, with its pieces as far as they fit.
BestFit(answer, rest) ==
  FoldLeft(LAMBDA best, e :
             LET fit == Fitting(Headword(answer.language, e.expression, e.reading),
                                FirstOf(rest, e.length))
             IN IF /\ fit.text # <<>>
                   /\ \/ e.length > best.matched
                      \/ e.length = best.matched /\ Len(fit.text) > best.fitted
                THEN [matched |-> e.length, fitted |-> Len(fit.text), pieces |-> fit.pieces]
                ELSE best,
           [matched |-> 0, fitted |-> 0, pieces |-> <<>>], answer.terms)

\* What shows no reading joins what is plain before it.
Plain(out, text) ==
  IF out # <<>> /\ Last(out).reading = <<>> THEN [out EXCEPT ![Len(out)].text = @ \o text]
  ELSE Append(out, Segment(text, <<>>))

\* The word at the start of a text is shown, and what its best entry does not reach as it is.
Shown(out, text, best, n) ==
  LET pieces == FoldLeft(LAMBDA o, seg : IF seg.reading = <<>> THEN Plain(o, seg.text)
                                         ELSE Append(o, seg), out, best.pieces)
  IN IF best.fitted >= n THEN pieces ELSE Plain(pieces, SubSeq(text, best.fitted + 1, n))

Length(best) == IF best.fitted = 0 THEN 1 ELSE best.matched

\* readings(): word after word, with the scratch that goes from lookup to lookup.
RECURSIVE Readings(_, _, _, _, _), Further(_, _, _, _, _, _)
Readings(set, text, options, out, scratch) ==
  LET done == Looking(set, text, options, scratch)
  IN IF text = <<>> THEN [ruby |-> out, scratch |-> scratch]
     ELSE Further(set, text, options, out, done.scratch, BestFit(done.answer, text))

Further(set, text, options, out, scratch, best) ==
  Readings(set, SubSeq(text, Length(best) + 1, Len(text)), options,
           Shown(out, text, best, Length(best)), scratch)

\* A selection no entry covers is shown with the readings of its words (Daemon.cpp).
ReadOut ==
  /\ ruby = <<>> /\ Len(found.text) > found.matched
  /\ \E done \in {Readings(held, found.text, asked.options, <<>>, Scratch)} :
       /\ ruby' = done.ruby
       /\ searched' = done.scratch.searched
       /\ followed' = done.scratch.followed
  /\ UNCHANGED <<held, asked, found, lookups>>

TrInit ==
  /\ held \in TrSets
  /\ searched = {} /\ followed = <<>>
  /\ asked = [text |-> <<>>, options |-> CHOOSE o \in TrOptions : TRUE]
  /\ found = Nothing /\ ruby = <<>> /\ lookups = 0

TrNext == Lookup \/ ReadOut

TrSpec == TrInit /\ [][TrNext]_trvars

-----------------------------------------------------------------------------
(* What a lookup promises, said without the order anything is done in.     *)

\* Every form the rules lead to from a prefix of a spelling, with the source it spans and the
\* rules it took.
RECURSIVE Forms(_, _, _)
Forms(l, forms, rules) ==
  IF rules = 0 THEN forms
  ELSE Forms(l, forms \cup
         {[end |-> pair[1].end, form |-> Applied(pair[1].form, pair[2])] :
            pair \in {p \in forms \X Range(RulesOf[l]) : Applies(l, p[1].form, p[2])}},
         rules - 1)

Reachable(l, us) ==
  Forms(l, {[end  |-> us[k].end,
             form |-> [text |-> Spelled(SubSeq(us, 1, k)), conditions |-> {}, chain |-> <<>>]] :
              k \in DOMAIN us}, MaxChain)

\* The entries a form-of entry stands for.
RECURSIVE StandsFor(_, _, _)
StandsFor(set, place, hops) ==
  UNION {LET words == Range(WordsOf(set, g.lemma))
             own   == {p \in words : ~IsFormOf(TermAt(set, p))}
         IN IF own # {} THEN own
            ELSE IF hops = 1 THEN {}
            ELSE UNION {StandsFor(set, p, hops - 1) : p \in words} :
           g \in Range(TermAt(set, place).glosses)}

\* Every match there is of a spelling: the term, how much of the text it spans, in how many steps.
MatchesOf(set, l, us) ==
  UNION {LET term  == TermAt(set, pair[2])
             steps == Len(pair[1].form.chain)
             of    == IF IsFormOf(term) THEN StandsFor(set, pair[2], MaxFormDepth) ELSE {}
         IN IF ~IsFormOf(term) THEN {[place |-> pair[2], length |-> pair[1].end, steps |-> steps]}
            ELSE IF of = {}
            THEN {[place |-> pair[2], length |-> pair[1].end, steps |-> steps + 2]}
            ELSE {[place |-> p, length |-> pair[1].end, steps |-> steps + 1] : p \in of} :
           pair \in {p \in Reachable(l, us) \X Range(Places(set)) :
                       Fits(TermAt(set, p[2]), p[1].form)}}

\* An answer has every word that is reached, and each keeps the best of the matches there are of
\* it: the longest, then the one with the fewest steps, whichever rule or form-of entry of
\* whichever dictionary it was reached by; a form-of entry is told as such only while no
\* dictionary has its word (Translator::collect, addFormsOf and group). It is said of the words
\* that one spelling of the text reaches: over several the first one wins, longest or not.
BestMatchKept ==
  LET all    == [us \in Range(Variants(found.language, found.text)) |->
                  MatchesOf(held, found.language, us)]
      Of(e)  == {m \in UNION Range(all) : Same(e, TermAt(held, m.place))}
      Key(x) == <<x.expression, x.reading>>
      limits == asked.options.dictionaries # 0 \/ Len(found.terms) >= asked.options.results
  IN found.text # <<>> =>
       /\ ~limits => {Key(e) : e \in Range(found.terms)} =
                       {Key(TermAt(held, m.place)) : m \in UNION Range(all)}
       /\ \A e \in Range(found.terms) :
            Cardinality({us \in DOMAIN all : all[us] \cap Of(e) # {}}) = 1 =>
              LET longest == Most({m.length : m \in Of(e)})
              IN /\ e.length = longest
                 /\ Steps(e) = Least({m.steps : m \in {n \in Of(e) : n.length = longest}})
=============================================================================
