SPECIFICATION FairSpec
CONSTANTS
  a = a
  b = b
  Mixes <- OneTwo
  Users <- Both
  Honest <- OnlyA
  Inputs <- OneTwo
  Owner <- Shares
  Parts <- LargeSecond
  MaxBuilds <- SecondAgain
  MaxStrays = 1
INVARIANTS TypeOK 
PROPERTIES UploadsAccepted
