SPECIFICATION MCSpec
CONSTANTS
  Characters = {"+", "-", ":", "$", "*", "CR", "LF", "a", "'"}
  MAX_STRING_LENGTH = 2
  MAX_ARGS = 2
  MAX_DEPTH = 2
  IntMax = 3
  LLMax = 4
  MaxGrowth = 4
  Beginnings <- MCBeginnings
  Alphabet <- MCAlphabet
  Payloads <- MCPayloads
  Lines <- MCLines
  CommandNames <- MCNames
  MaxItems = 2
  MaxAnswers = 2
CHECK_DEADLOCK FALSE
INVARIANTS
  ParsesTheGrammar
  AnswersReadBack
PROPERTIES
  MoreBytesChangeNothing
