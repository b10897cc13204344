SPECIFICATION Spec
CONSTANTS
  h1 = h1
  h2 = h2
  lamp = lamp
  desk = desk
  id1 = id1
  id2 = id2
  k1 = k1
  k2 = k2
  e1 = e1
  e2 = e2
  e3 = e3
  e4 = e4
  None = None
  Handlers = {h1}
  Envelopes <- TwoLightServer
  EnvelopeIds = {e1, e2, e3, e4}
  Lights = {lamp, desk}
  Ids = {id1, id2}
  Keys = {k1, k2}
  Durable = TRUE
  MaxOperations = 2
  MaxLives = 0
INVARIANTS
  TypeOK
  AppliedWasConfirmed
  ReachesNamedLight
  IInv
PROPERTIES
  KeepsPromise
  AnsweredIsFinal
