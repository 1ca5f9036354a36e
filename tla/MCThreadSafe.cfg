SPECIFICATION Spec
CONSTANTS
  t1 = t1
  t2 = t2
  k1 = k1
  k2 = k2
  Texts <- MCTexts
  EmptyText = ""
  Numbers <- MCNumbers
  Concat <- MCConcat
  Length <- MCLength
  LLMax = 1
  TicksPerSecond = 1
  TicksPerMillisecond = 1
  KeyLists <- NoLists
  ValueLists <- NoLists
  FieldLists <- NoLists
  KeyValueLists <- NoLists
  SetWordLists <- NoLists
  Threads <- MCThreads
  Keys <- TwoKeys
  KeysOf <- OwnKeys
  Values <- One
  Amounts <- ZeroAndOne
  Offered <- SetNXAndGet
  CleanupPeriod = 2
  MaxNow = 1
  MaxListLength = 1
CHECK_DEADLOCK FALSE
INVARIANTS
  EntriesAreSafe
