SPECIFICATION Spec
CONSTANTS
  o1 = o1
  o2 = o2
  w1 = w1
  h1 = h1
  octets = octets
  Options = {o1, o2}
  Words = {w1, h1}
  Octets <- OctetsMC
  FewTokens = 6
  FewPieces = 7
  Files <- FilesMC
CHECK_DEADLOCK FALSE
INVARIANTS TypeOK AcceptsWellFormedOnly ReadsAsWritten InheritsFromEnclosing
