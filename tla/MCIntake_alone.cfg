SPECIFICATION Spec
CONSTANTS
  a = a
  b = b
  bot = bot
  c1 = c1
  c2 = c2
  c3 = c3
  c4 = c4
  Users <- Two
  Bot = bot
  MaxMixes = 3
  MaxRows = 2
  MaxReopens = 1
  MaxCrashes = 1
  Coins <- Four
  Purse <- Purses
  Amount <- Odd
  Kind <- Alike
  Sizes <- OnlyDefault
  DefaultSize = 1
  Required = 2
  MaxOpen = 1
  MaxPending = 2
  Capacity = 2
  MaxConforming = 1
  MaxNonConforming = 1
PROPERTY DistinctParties
CHECK_DEADLOCK FALSE
