\* Hybrid searches with a pool of four on five products.
SPECIFICATION Spec
CONSTANTS
  Lower <- MCLower
  StartOpen <- MCStartOpen
  EndOpen <- MCEndOpen
  Fold <- MCFold
  FinalI <- MCFinalI
  Cases <- FormCases
  Tables <- MCTables
  Products = {1, 2, 3, 4, 5}
  Positions = {1, 2, 3}
  NotGiven = NotGiven
  MaxLimit = 4
  MaxOffset = 4
  MaxPool = 5
  TopN = 2
INVARIANT
  MatchesKeptInEverySpelling
