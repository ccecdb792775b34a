SPECIFICATION Spec
CONSTANTS
  p1 = p1
  p2 = p2
  p3 = p3
  nobody = nobody
  Participants <- Three
  Nobody <- nobody
  Payable <- Two
  Overlap = FALSE
  LostAnswers <- OnlyP1
INVARIANTS TypeOK SinglePayout FeeAccounted
PROPERTIES IntentFirst KeepsLedger
