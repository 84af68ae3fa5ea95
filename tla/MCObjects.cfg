SPECIFICATION ObjectsSpec
CONSTANTS
  Byte = 16
  LongMax = 131071
  BigLen = 2
  HashMaxZipmapEntries = 2
  HashMaxZipmapValue = 4
  MaxLevel = 3
  LenSlots = 4
  OffSlots = 4
  CompressAbove = 6
  Inf = 1000
  DbNum = 2
  MaxDb = 3
  Texts <- MCTexts
  LongText <- MCLongText
  FieldValues <- MCFieldValues
  CountValues <- MCCountValues
  Fields <- MCFields
  ZsetMembers = {1, 2, 3}
  ScoreValues <- MCScores
  Increments = {1, 9}
  Indexes <- MCIndexes
  MaxLength = 3
  Blank = 13
  Quote = 14
  Backslash = 15
  Files <- MCFiles
  Unusable <- MCUnusable
  Settings <- MCSettings
  CliArgs <- MCCliArgs
  Stdins <- MCStdins
  Lines <- MCLines
  Replies <- MCReplies
  Password <- MCPassword
  MonitoredLines <- MCMonitoredLines
  Setsize = 2
  Thousand = 3
  FileEvents <- MCFileEvents
  Timers <- MCTimers
  MaxSeconds = 1
  MaxTimers = 2
  RequestLen = 2
  Reads = {3, 1024}
  Answers <- MCAnswers
  BenchArgs <- MCBenchArgs
INVARIANTS AnswersAgree WellFormed CommandsAgree DumpRestores
CHECK_DEADLOCK FALSE
