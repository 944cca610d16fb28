SPECIFICATION AllSpec
CONSTANTS
  Titles = {1, 2}
  ProfileOf <- NamesAndWords
  General = 5
  AtomicReplace = TRUE
  SavesFail = FALSE
  Preinstalled = {1}
  MaxCalls = 2
  MaxImports = 3
  MaxMishaps = 1
  Days = {1, 2, 3}
  KeptDays = 2
  SaveEvery = 2
  MaxCounts = 4
  MaxFailures = 1
  MaxEvents = 4
  Windows = FALSE
  Recased <- OtherCase
  Colors <- SomeColors
  LongNames = {"too long"}
  MostNamed = 2
  Documents <- SomeDocuments
  Presses <- SomePresses
  MaxChanges = 1
CHECK_DEADLOCK FALSE
PROPERTIES OnlyUninstalledForgotten
