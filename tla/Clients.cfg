SPECIFICATION Spec
CONSTANTS
  Texts = {sentence}
  Sentences = {sentence}
  Nothing = Nothing
  Blank = FALSE
  HideOnNoResult = TRUE
  SentenceKey = FALSE
  Selecting = FALSE
  Anki = TRUE
  ClientPopups = TRUE
  ClientHides = FALSE
  Pausing = FALSE
  Asides = FALSE
  Turns = {}
  MaxLength = 1
  MaxTurns = 0
  MaxTasks = 2
  MaxGeneration = 2
CHECK_DEADLOCK FALSE
INVARIANTS OnScreen
