SPECIFICATION Spec
CONSTANTS
  Commands = {c1, c2}
  MaxConcurrent = 1
  AckWindow = 2
  EffectiveMayChange = FALSE
  MaxStreams = 2
  MaxInbox = 2
  MaxVersion = 2
  MaxPushes = 1
CONSTRAINT OneWithConfigs
SYMMETRY CommandSymmetry
INVARIANTS TypeOK SemaphoreExact ManifestFresh GracefulDelivers ConfigOrder CloseLeavesNothing
PROPERTIES NoRetryAfterPermanent ImplementsService
