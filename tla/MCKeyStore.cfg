\* Two keys in one queue: edits, tests, requests, refused batches and restarts.
SPECIFICATION Spec
CONSTANTS
  Keys = {k1, k2}
  MaxEdits = 1
  MaxUses = 2
  MaxRefs = 1
SYMMETRY KeySymmetry
INVARIANTS TypeOK UsageConverges SafeEditsLast SafeDeletionsLast
