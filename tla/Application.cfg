SPECIFICATION ApplicationSpec
CONSTANTS
  Elsewhere = {"engine"}
  MaxSteps = 2
  Copies <- SomeCopies
  MaxVersion = 2
  MaxWaiting = 3
  MaxMishaps = 2
  Machines <- SomeMachines
  MaxDaemons = 2
  MaxCalls = 2
  MaxEvents = 2
  Installations <- SomeInstallations
  MaxTroubles = 2
CHECK_DEADLOCK FALSE
INVARIANTS UpdateIsWaitedFor ButtonsComeBack OfferIsCurrent
INVARIANTS NothingBringsItBack
PROPERTIES OnlyEditsChange
