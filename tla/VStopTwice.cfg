CONSTANTS
  MaxProfiles = 2
  MaxKills = 0
SPECIFICATION Spec
INVARIANTS
  StopSentOnce
