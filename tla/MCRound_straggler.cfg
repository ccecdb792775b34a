SPECIFICATION Spec
CONSTANTS
  p1 = p1
  p2 = p2
  p3 = p3
  Participants <- Everyone
  NonConforming <- ThreeNC
  Conforming <- NobodyConforms
  Charged <- ThreeNC
  Payable <- Everyone
  RequiredNC = 2
  MaxGhostRetries = 1
  MaxSkeletons = 1
  MaxCrashes = 0
  Misreports = FALSE
PROPERTIES FeeAccounted
