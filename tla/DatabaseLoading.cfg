SPECIFICATION Spec
CONSTANTS
  Atoi <- MCAtoi
  Strtol <- MCStrtol
  UintLimit = 256
  LongLimit = 32768
  Databases <- MCDatabases
INVARIANTS
  TypeOK
  InfoOfOwnEntry
  JSONAsWritten
  BanksAgree
  CachedIsContent
PROPERTY
  Returns
CHECK_DEADLOCK FALSE
