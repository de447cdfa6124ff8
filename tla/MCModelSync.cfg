\* Three keys at two endpoints, two model ids, two synchronisations of two keys.
SPECIFICATION Spec
CONSTANTS
  k1 = k1
  k2 = k2
  k3 = k3
  a = a
  m = m
  Keys = {k1, k2, k3}
  Words = {a, m}
  Ids = {1, 2}
  TextOf <- NumberAtTheEnd
  EndpointOf <- TwoShareOne
  AnswersOf <- BothAtTheThird
  Switched <- IdAndPublicId
  Jobs = {j1, j2}
  PullLimit = 2
SYMMETRY SameSymmetry
INVARIANTS TypeOK CalmKeysOfferNothing SettledSwitchHolds PublicIdsFindTheirModels
