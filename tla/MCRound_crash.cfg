SPECIFICATION Spec
CONSTANTS
  p1 = p1
  p2 = p2
  p3 = p3
  Participants <- Everyone
  NonConforming <- TwoNC
  Conforming <- OnlyP3
  Charged <- TwoNC
  Payable <- Everyone
  RequiredNC = 2
  MaxGhostRetries = 1
  MaxSkeletons = 3
  MaxCrashes = 1
  Misreports = FALSE
SYMMETRY Symmetric
INVARIANTS TypeOK LiveTxNotRefunded InputsHeld CombineSucceeds  GhostsPunished
PROPERTIES  MemberFeeAccounted RoundKeepsLedger
