SPECIFICATION Spec
CONSTANTS
  k1 = k1
  k2 = k2
  Keys <- MCKeys
  Texts <- MCTexts
  EmptyText = ""
  Numbers <- MCNumbers
  Concat <- MCConcat
  Length <- MCLength
  LLMax = 1
  TicksPerSecond = 1
  TicksPerMillisecond = 1
  Values <- ElementValues
  Amounts <- ElementAmounts
  KeyLists <- ElementKeyLists
  ValueLists <- ElementLists
  FieldLists <- ElementFieldLists
  KeyValueLists <- ElementKeyValueLists
  SetWordLists <- ElementSetWordLists
  CleanupPeriod = 2
  MaxNow = 1
  MaxListLength = 2
VIEW withoutReply
CHECK_DEADLOCK FALSE
INVARIANTS
  PayloadMatchesType
  LrangeAgreesWithLindex
PROPERTIES
  TypeIsSticky
  DeadlineIsSticky
