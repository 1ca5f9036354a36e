SPECIFICATION HistorySpec
CONSTANTS
  t1 = t1
  t2 = t2
  k1 = k1
  k2 = k2
  Texts <- MCTexts
  EmptyText = ""
  Numbers <- MCNumbers
  Concat <- MCConcat
  Length <- MCLength
  LLMax = 1
  TicksPerSecond = 1
  TicksPerMillisecond = 1
  KeyLists <- OneKeyLists
  ValueLists <- OneValueLists
  FieldLists <- NoLists
  KeyValueLists <- NoLists
  SetWordLists <- NoOptions
  Threads <- MCThreads
  Keys <- TwoKeys
  KeysOf <- BothKeys
  Values <- One
  Amounts <- ZeroAndOne
  Offered <- AtomicCommands
  CleanupPeriod = 1
  MaxNow = 1
  MaxListLength = 2
VIEW withoutReplies
SYMMETRY ThreadsAndKeys
CHECK_DEADLOCK FALSE
INVARIANTS
  EntriesAreSafe
PROPERTIES
  CommandsAreAtomic
