--------------------------- MODULE DictionaryOrder ---------------------------
(***************************************************************************)
(* The priority list of dictionaries in its smart order                    *)
(* (src/src/dictionary/Classify.cpp): what kind a dictionary is, what it   *)
(* is sorted by, the whole list sorted, and the place of a dictionary      *)
(* newly installed into a list that may be in any order.                   *)
(*                                                                         *)
(* A profile is what sampling a dictionary's records found: how many of    *)
(* each record it holds, which of the names the code looks for its title   *)
(* mentions, and on which side of the code's limits its shares lie.        *)
(***************************************************************************)
EXTENDS Integers, Sequences, FiniteSets, SequencesExt

CONSTANT General \* a word list of fewer terms covers one subject (50000)

ASSUME GeneralAssumption == General \in Nat

\* The marks of a title: one of {"jmnedict", "names", ...}, of {"grammar", ...},
\* and the two well-known word dictionaries.
Marks == {"names", "grammar", "jitendex", "jmdict"}

Profile == [terms : Nat, kanji : Nat, frequencies : Nat, pitches : Nat,
            marks       : SUBSET Marks,
            named       : BOOLEAN,  \* most sampled entries are tagged as names
            monolingual : BOOLEAN,  \* by its target language or its definitions
            repetitive  : BOOLEAN,  \* few of the sampled definitions differ
            structured  : BOOLEAN]

\* A title of the list that is not installed.
UnknownProfile ==
  [terms |-> 0, kanji |-> 0, frequencies |-> 0, pitches |-> 0, marks |-> {},
   named |-> FALSE, monolingual |-> FALSE, repetitive |-> FALSE, structured |-> FALSE]

Words == 0    Names == 1     Grammar == 2   Specialized == 3   Monolingual == 4
Kanji == 5    Frequency == 6 Pitch == 7     OtherKind == 8

\* classify() of a dictionary without terms, and of one with terms.
ClassifyLists(p) ==
  CASE p.kanji > 0                                        -> Kanji
    [] p.kanji = 0 /\ p.frequencies > 0
         /\ p.frequencies >= p.pitches                    -> Frequency
    [] p.kanji = 0 /\ p.pitches > p.frequencies           -> Pitch
    [] OTHER                                              -> OtherKind

ClassifyTerms(p) ==
  CASE p.named \/ "names" \in p.marks                     -> Names
    [] ~p.named /\ "names" \notin p.marks
         /\ "grammar" \in p.marks                         -> Grammar
    [] ~p.named /\ p.marks \cap {"names", "grammar"} = {}
         /\ p.marks # {}                                  -> Words
    [] ~p.named /\ p.marks = {} /\ p.monolingual          -> Monolingual
    [] ~p.named /\ p.marks = {} /\ ~p.monolingual
         /\ (p.terms < General \/ p.repetitive)           -> Specialized
    [] OTHER                                              -> Words

Classify(p) == IF p.terms = 0 THEN ClassifyLists(p) ELSE ClassifyTerms(p)

\* familiarity(): the complete Japanese-English dictionaries before all others.
Familiarity(p) ==
  IF "jitendex" \in p.marks THEN 0 ELSE IF "jmdict" \in p.marks THEN 1 ELSE 2

\* sortKey(): kinds other than words are sorted by nothing but their kind.
SortKey(p) ==
  LET kind == Classify(p)
  IN  IF kind = Words
      THEN <<kind, Familiarity(p), IF p.structured THEN 0 ELSE 1, -p.terms>>
      ELSE <<kind, 0, 0, 0>>

\* The comparison of two keys, field by field.
Less(k, l) ==
  \/ k[1] < l[1]
  \/ k[1] = l[1] /\ k[2] < l[2]
  \/ k[1] = l[1] /\ k[2] = l[2] /\ k[3] < l[3]
  \/ k[1] = l[1] /\ k[2] = l[2] /\ k[3] = l[3] /\ k[4] < l[4]

Before(p, q) == Less(SortKey(p), SortKey(q))

\* A mistake: a new dictionary simply goes to the end.
InsertionPointLast(existing, added) == Len(existing) + 1

\* insertionPoint(): before the first dictionary that sorts after it.
InsertionPoint(existing, added) ==
  LET after == {i \in DOMAIN existing : Before(added, existing[i])}
  IN  IF after = {} THEN Len(existing) + 1
      ELSE CHOOSE i \in after : \A j \in after : i =< j

Inserted(existing, added) == InsertAt(existing, InsertionPoint(existing, added), added)

\* smartOrder(): the indices of the profiles, sorted by key, those with the same
\* key in the order they were in.
SmartOrder(profiles) ==
  LET Precedes(i, j) == \/ Before(profiles[i], profiles[j])
                        \/ ~Before(profiles[j], profiles[i]) /\ i < j
      Place(i) == 1 + Cardinality({j \in DOMAIN profiles : Precedes(j, i)})
  IN  [k \in DOMAIN profiles |-> CHOOSE i \in DOMAIN profiles : Place(i) = k]

Sorted(profiles) ==
  \A i, j \in DOMAIN profiles : i < j => ~Before(profiles[j], profiles[i])
=============================================================================
