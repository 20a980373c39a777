SPECIFICATION Spec
CONSTANTS
  Values = {a, b}
  Undefined = Undefined
  MaxRequests = 3
  MaxItems = 2
SYMMETRY ValueSymmetry
INVARIANTS TypeOK SpinnerTellsTruth MenuNeedsFocus SuggestionsMatchTerm
PROPERTIES DismissedStaysAway
