SPECIFICATION FairSpec
CONSTANTS
  Characters <- CharactersOfKeys
  Patterns <- ShortPatterns
  Subjects <- ShortSubjects
CHECK_DEADLOCK FALSE
INVARIANTS
  TypeOK
  AcceptsOnlyMatches
  AcceptsEveryMatch
  KeysListsMatches
PROPERTIES
  Terminates
