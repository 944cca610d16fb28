SPECIFICATION Spec
CONSTANTS
  Texts = {word, sentence}
  Sentences = {sentence}
  Nothing = Nothing
  Blank = TRUE
  HideOnNoResult = TRUE
  SentenceKey = TRUE
  Selecting = TRUE
  Anki = FALSE
  ClientPopups = FALSE
  ClientHides = FALSE
  Pausing = FALSE
  Asides = FALSE
  Turns <- UpOrDown
  MaxLength = 2
  MaxTurns = 1
  MaxTasks = 2
  MaxGeneration = 3
CHECK_DEADLOCK FALSE
INVARIANTS TypeOK WheelKeptForNextPopup TranslationOfItsOwn
