SPECIFICATION Spec
CONSTANTS
  Console = Console
  Workers = {w1}
  Requests = {r1}
  Keys = {k1}
  Grants = {"none", "full", "readonly"}
  MainKey = MainKey
  NoKey = NoKey
  Ttl = 1
  Configs <- SomeConfigs
  NoCopy = NoCopy
  Idle = Idle
INVARIANT TypeOK
PROPERTIES VerdictsAreRecent ConsoleKnowsAtOnce
