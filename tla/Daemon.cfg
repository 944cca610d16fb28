SPECIFICATION DaemonSpec
CONSTANTS
  p1 = p1  p2 = p2  p3 = p3
  Processes = {p1, p2, p3}
  Nobody = nobody
  Windows = TRUE
  MaxEvents = 1
  MaxWrites = 0
  LinuxWrites = 1
  Links = {1, 2}
  Room = 3
  MaxCalls = 1
  MaxBroadcasts = 2
  MaxStops = 1
  Piped = FALSE
  i1 = i1  i2 = i2
  Importers = {i1, i2}
  NoImporter = none
  Archives <- SomeArchives
  Threads = 2
  Budget = 4
  HashOf <- SomeHashes
  SearchKeyOf <- SomeKeys
  MinSlots = 16
  MaxImports = 3
  MaxKills = 1
  MaxFaults = 1
  KeyCodes = {"ctrl", "alt"}
  Buttons = {"back"}
  Named = {"ctrl", "alt", "back"}
  Toplevels = {"v", "w"}
  Places = {"text", "popup"}
  Configs <- SomeConfigs
  MaxQueue = 2
  MaxInputs = 3
  MaxPopups = 1
  MaxLost = 1
CHECK_DEADLOCK FALSE
INVARIANTS OneAtWork NoAnswerLost NoEventForgotten TriggerFollowsKeys
INVARIANTS PopupFollowsItsWindow DictionaryIsWhole
