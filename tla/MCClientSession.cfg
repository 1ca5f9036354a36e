SPECIFICATION FairSpecClientReads
CONSTANTS
  Characters = {"+", "-", ":", "$", "*", "CR", "LF", "a", "'"}
  MAX_STRING_LENGTH = 2
  MAX_ARGS = 1
  MAX_DEPTH = 1
  IntMax = 3
  LLMax = 3
  Streams <- MCStreams
  BUFFER_SIZE = 4
  SocketRoom = 1
  MaxMessages = 3
CHECK_DEADLOCK FALSE
INVARIANTS
  TypeOK
  FramingIgnoresSplits
  AnswersInOrder
PROPERTIES
  GoneClientIsClosed
  EveryCommandIsAnswered
