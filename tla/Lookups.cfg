SPECIFICATION Spec
CONSTANTS
  Texts = {word, sentence}
  Sentences = {sentence}
  Nothing = Nothing
  Blank = TRUE
  HideOnNoResult = FALSE
  SentenceKey = FALSE
  Selecting = FALSE
  Anki = FALSE
  ClientPopups = FALSE
  ClientHides = TRUE
  Pausing = TRUE
  Asides = TRUE
  Turns = {}
  MaxLength = 1
  MaxTurns = 0
  MaxTasks = 2
  MaxGeneration = 4
CHECK_DEADLOCK FALSE
INVARIANTS PostedPopupIsShown PausedIsQuiet
PROPERTIES PromiseKept
