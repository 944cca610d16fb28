------------------------ MODULE MCTranslationService ------------------------
EXTENDS TranslationService

CONSTANTS ja, ru, \* languages
          s       \* a text in the first

OneText   == [x \in {s} |-> ja]

\* A model for each language.
TwoModels == [l \in {ja, ru} |-> l]

\* The languages a health report tries.
Both      == <<ja, ru>>
=============================================================================
