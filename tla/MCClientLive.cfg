SPECIFICATION FairSpec
CONSTANTS
  Commands = {c1}
  MaxConcurrent = 1
  AckWindow = 1
  EffectiveMayChange = FALSE
  MaxStreams = 2
  MaxInbox = 1
  MaxVersion = 0
  MaxPushes = 1
PROPERTIES CloseTerminates Reconnects ManifestConverges ExecutorsFinish
