SPECIFICATION FairSpec
CONSTANTS
  p1 = p1
  p2 = p2
  Participants <- Pair
  Required = 1
  MaxGhostRetries = 1
  Vanishing <- First
  MaxSkip = 2
  MaxSkeletons = 3
  MaxFaults = 1
INVARIANTS TypeOK RemindedOnce SignedHasReturn SurvivorsCanReadress
PROPERTIES GhostsWarned  
