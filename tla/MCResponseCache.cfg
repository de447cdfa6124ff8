\* Three answers, room for two, two requests for one answer at a time.
SPECIFICATION CacheSpec
CONSTANTS
  Answers = {x, y, z}
  MaxEntries = 2
  Ttl = 1
  MaxWaiting = 2
SYMMETRY AnswerSymmetry
INVARIANTS CacheTypeOK HoldsTheLastUsed
PROPERTY HitsAreFresh
