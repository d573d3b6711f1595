SPECIFICATION FairSpec
CONSTANTS
  Triggers = {r1}
  Cycles = {1, 2}
  Markets <- MCMarkets
  Reverts = Reverts
  Unknown = Unknown
  max_quote_evaluations = 3
  size_refinement_points = 2
  quote_concurrency = 2
  MaxStates = 2
INVARIANTS QuotesAreReal SizesAffordable BestOfQuiet PermitsConserved
PROPERTIES FreshAnswer EvaluationsEnd
