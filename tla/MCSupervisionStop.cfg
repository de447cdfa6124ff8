\* One process, no workers: what a stop by SIGTERM takes along.
SPECIFICATION Spec
CONSTANTS
  Main = Main
  Workers = {w1}
  Team = 1
  Modes = {"single"}
  Forked = TRUE
  NoProc = NoProc
INVARIANT StopsLoseNothing
