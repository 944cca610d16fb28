SPECIFICATION AnswerSpec
CONSTANTS
  ja = ja  ru = ru  s = s
  Languages = {ja, ru}
  Directories = {ja, ru}
  DirectoryOf <- TwoModels
  Texts = {s}
  LanguageOf <- OneText
  NoText = NoText
  Checked <- Both
  MostModels = 1
  CacheSize = 1
  Downloading = {}
  MaxRequests = 1
  MaxCalls = 1
  MaxChanges = 1
CHECK_DEADLOCK FALSE
PROPERTIES PostedPopupComesUp HideTakesEffect RequestAnswered CallAnswered
