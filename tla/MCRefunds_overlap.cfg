SPECIFICATION Spec
CONSTANTS
  p1 = p1
  p2 = p2
  p3 = p3
  nobody = nobody
  Participants <- Two
  Nobody <- nobody
  Payable <- OnlyP1
  Overlap = TRUE
  LostAnswers <- None
INVARIANTS SinglePayout
