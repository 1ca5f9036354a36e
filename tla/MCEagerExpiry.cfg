SPECIFICATION Spec
CONSTANTS
  k1 = k1
  k2 = k2
  Keys <- OneKey
  Texts <- MCTexts
  EmptyText = ""
  Numbers <- MCNumbers
  Concat <- MCConcat
  Length <- MCLength
  LLMax = 3
  TicksPerSecond = 2
  TicksPerMillisecond = 1
  Values <- EagerValues
  Amounts <- EagerAmounts
  KeyLists <- OneKeyLists
  ValueLists <- EagerElementLists
  FieldLists <- EagerFieldLists
  KeyValueLists <- OneKeyPairs
  SetWordLists <- MCSetWordLists
  CleanupPeriod = 3
  MaxNow = 2
  MaxListLength = 2
VIEW withoutReply
CHECK_DEADLOCK FALSE
PROPERTIES
  SetMeansItsOptions
  RefusalChangesNothing
  ExpiredStaysDead
  ImplementsEagerExpiry
