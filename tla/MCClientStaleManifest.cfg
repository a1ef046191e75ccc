SPECIFICATION Spec
CONSTANTS
  Commands = {c1}
  MaxConcurrent = 1
  AckWindow = 2
  EffectiveMayChange = TRUE
  MaxStreams = 2
  MaxInbox = 1
  MaxVersion = 1
  MaxPushes = 1
INVARIANT ManifestFresh
