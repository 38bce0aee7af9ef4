\* Two profiles and one kill or reboot, among any number of launches: enough for a
\* crashed session, its recovery, and a session that finds what is left; the
\* exit races every stage of each.
CONSTANTS
  MaxProfiles = 2
  MaxKills = 1
SPECIFICATION FairSpec
INVARIANTS
  TypeOK
  Recoverable
  HomeIsNotPocket
  LeavesNoStream
PROPERTIES
  RestoredIsClean
  SwitchNeedsRollback
  ExitCloses
