CONSTANTS
  MaxProfiles = 2
  MaxKills = 0
SPECIFICATION Spec
PROPERTIES
  SwitchAfterRollback
