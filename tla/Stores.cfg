SPECIFICATION Spec
CONSTANTS
  None = None
  Ids <- TwoIds
  Families <- AllFamilies
  Calls <- CallsOfEach
  Seconds = 45
  Cooldown = 1
INVARIANT StoresAgree
PROPERTY HistoryKept
CHECK_DEADLOCK FALSE
