SPECIFICATION Spec
CONSTANTS
  Providers <- MCProviders
  Caps <- MCCaps
  CapsOf <- MCCapsOf
  HasTask <- MCHasTask
  Enabled <- MCEnabled
  Names <- MCNames
  NamedAfter <- MCNamedAfter
  Fields <- MCFields
  Required <- MCRequired
  MaxEntries = 1
PROPERTIES OmittedUnchanged
