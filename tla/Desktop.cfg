SPECIFICATION DesktopSpec
CONSTANTS
  Styles <- AllDesigns
  Results <- SomeResults
  Translations <- SomeTranslations
  Limits = {80, 300}
  MaxContent = 300
  MaxHeight = 150
  Spots <- SomeSpots
  MaxShows = 2
  MaxMoves = 2
  WinKeys = {"ctrl", "alt", "back"}
  WinButtons = {"back"}
  WinWindows = {"v", "w"}
  WinConfigs <- SomeConfigs
  MaxMessages = 2
  MaxSteps = 3
  MaxShown = 1
  Lines = {{1, 2}}
  Texts = {"a", "b"}
  Areas = {{2}, {1, 2}}
  CacheSize = 2
  MaxPaints = 1
  MaxCoverings = 2
  MaxCaptures = 3
  Wanted = {"a", "b"}
  PageWants = {"a"}
  Beginnings = {{"library", "ocr", "vcruntime"}, {"ocr", "translation"}}
  MaxTroubles = 1
CHECK_DEADLOCK FALSE
INVARIANTS ClickMeetsEntry
INVARIANTS HiddenIsReadAgain MarkedIsLookedUp LostInputIsNoticed WheelIsGivenBack SetupNeverStuck
PROPERTIES DoneIsInstalled
