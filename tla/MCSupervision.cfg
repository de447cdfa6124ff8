SPECIFICATION FairSpec
CONSTANTS
  Main = Main
  Workers = {w1, w2, w3}
  Team = 2
  Modes = {"single", "multi"}
  Forked = TRUE
  NoProc = NoProc
INVARIANTS TypeOK PortOfThePresent FinallyLosesNothing StopsAreComplete
PROPERTY EveryStopReturns
