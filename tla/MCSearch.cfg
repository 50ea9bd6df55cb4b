\* Queries on an empty catalogue; pages, hard cases, lists, churn and overrides on
\* five products.
SPECIFICATION Spec
CONSTANTS
  Lower <- MCLower
  StartOpen <- MCStartOpen
  EndOpen <- MCEndOpen
  Fold <- MCFold
  FinalI <- MCFinalI
  Cases <- MCCases
  Tables <- MCTables
  Products = {1, 2, 3, 4, 5}
  Positions = {1, 2, 3}
  NotGiven = NotGiven
  MaxLimit = 4
  MaxOffset = 4
  MaxPool = 5
  TopN = 2
INVARIANTS
  FiltersHold
  PagesPartition
  MatchesKept
  GazetteerAgrees
  NoiseRemoved
  EachProductOnce
  OrganicOrder
  PromotionsLand
