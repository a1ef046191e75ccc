SPECIFICATION FairSpec
CONSTANTS
  Providers <- MCProviders
  Caps <- MCCaps
  CapsOf <- MCCapsOf
  HasTask <- MCHasTask
  Enabled <- MCEnabled
  Names <- MCFewNames
  NamedAfter <- MCNamedAfter
  Fields <- MCFields
  Required <- MCRequired
  MaxEntries = 2
INVARIANTS TypeOK TasksMatch ManifestCurrent ConfigFollowsUpdates
PROPERTIES RegistryMatchesConfig ViewConverges
