SPECIFICATION FairSpec
CONSTANTS
  t1 = t1
  t2 = t2
  k1 = k1
  k2 = k2
  Texts <- MCTexts
  EmptyText = ""
  Numbers <- MCNumbers
  Concat <- MCConcat
  Length <- MCLength
  LLMax = 1
  TicksPerSecond = 1
  TicksPerMillisecond = 1
  KeyLists <- NoLists
  ValueLists <- NoLists
  FieldLists <- NoLists
  KeyValueLists <- NoLists
  SetWordLists <- NoLists
  Threads <- MCThreads
  Keys <- OneKey
  KeysOf <- CommonKeys
  Values <- One
  Amounts <- ZeroAndOne
  Offered <- LateCommands
  CleanupPeriod = 1
  MaxNow = 1
  MaxListLength = 1
VIEW withoutReply
CHECK_DEADLOCK FALSE
PROPERTIES
  HandlersReturn
