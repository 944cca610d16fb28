SPECIFICATION Spec
CONSTANTS
  ja = ja  ru = ru  s = s
  Languages = {ja, ru}
  Directories = {ja, ru}
  DirectoryOf <- TwoModels
  Texts = {s}
  LanguageOf <- OneText
  NoText = NoText
  Checked <- Both
  MostModels = 1
  CacheSize = 1
  Downloading = {ja}
  MaxRequests = 2
  MaxCalls = 1
  MaxChanges = 1
CHECK_DEADLOCK FALSE
INVARIANTS NeverBothPrecisions
PROPERTIES NewestKept
