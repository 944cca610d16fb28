SPECIFICATION Spec
CONSTANTS
  Texts = {word, sentence}
  Sentences = {sentence}
  Nothing = Nothing
  Blank = FALSE
  HideOnNoResult = TRUE
  SentenceKey = FALSE
  Selecting = FALSE
  Anki = FALSE
  ClientPopups = FALSE
  ClientHides = FALSE
  Pausing = FALSE
  Asides = FALSE
  Turns = {}
  MaxLength = 1
  MaxTurns = 0
  MaxTasks = 2
  MaxGeneration = 4
CHECK_DEADLOCK FALSE
INVARIANTS ComingPopupComes
