\* The loop, the thread, a refused row, flushes that give up, and crashes.
SPECIFICATION FairSpec
CONSTANTS
  MaxRows = 3
  Poison = {2}
  Forked = FALSE
INVARIANTS TypeOK SecondFlushStores
PROPERTIES KeepsEveryRow EveryRowStored
