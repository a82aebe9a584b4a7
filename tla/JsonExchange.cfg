SPECIFICATION Spec
CONSTANTS
  MinCap = 2
  SizeMax = 40
  NumberMax = 4
  MaxRefused = 9
  Values <- MCValues
  Junk <- MCJunk
INVARIANTS NoBlockLost RoundTrip TornIsRefused NeverPartial
