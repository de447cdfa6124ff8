\* An address and a key, windows of two ticks, limits that move.
SPECIFICATION Spec
CONSTANTS
  Span = 2
  Addresses = {a1}
  Keys = {k1}
  Limits = {0, 1, 2}
  MaxCalls = 2
  MinTpm = 3
  MaxTpm = 4
  Parts = 2
  Tokens = {3}
INVARIANTS TypeOK WithinLimits SpentWithinTpm
