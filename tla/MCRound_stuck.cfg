SPECIFICATION FairSpec
CONSTANTS
  p1 = p1
  p2 = p2
  p3 = p3
  Participants <- Pair
  NonConforming <- TwoNC
  Conforming <- NobodyConforms
  Charged <- TwoNC
  Payable <- Pair
  RequiredNC = 2
  MaxGhostRetries = 1
  MaxSkeletons = 2
  MaxCrashes = 1
  Misreports = FALSE
PROPERTIES SigningEnds
