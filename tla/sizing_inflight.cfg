SPECIFICATION Spec
CONSTANTS
  Triggers = {r1}
  Cycles = {1, 2}
  Markets <- MCMarkets
  Reverts = Reverts
  Unknown = Unknown
  max_quote_evaluations = 3
  size_refinement_points = 2
  quote_concurrency = 1
  MaxStates = 1
INVARIANT InFlightBounded
