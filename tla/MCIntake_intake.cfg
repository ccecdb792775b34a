SPECIFICATION Spec
CONSTANTS
  a = a
  b = b
  bot = bot
  c1 = c1
  c2 = c2
  c3 = c3
  c4 = c4
  Users <- Two
  Bot = bot
  MaxMixes = 3
  MaxRows = 2
  MaxReopens = 1
  MaxCrashes = 1
  Coins <- Four
  Purse <- Purses
  Amount <- Amounts
  Kind <- Kinds
  Sizes <- OnlyDefault
  DefaultSize = 1
  Required = 1
  MaxOpen = 1
  MaxPending = 2
  Capacity = 2
  MaxConforming = 1
  MaxNonConforming = 1
INVARIANTS TypeOK  
CHECK_DEADLOCK FALSE
