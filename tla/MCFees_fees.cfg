SPECIFICATION Spec
CONSTANTS
  N = 3
  Coins <- Bags
  Size = 50000
  Dust = 10000
  InV = 70
  OutV = 35
  Overhead = 10
  RateUnit = 2
  MinRate = 3
  Rates <- Any
  Required = 1
  Donation = FALSE
INVARIANTS TypeOK SharesSum LeftoverReturned NeverOvercollects ShortfallBounded RoundingOnly
