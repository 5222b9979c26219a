\* Slimming ends the behaviour.
CHECK_DEADLOCK FALSE
SPECIFICATION Spec
CONSTANTS
  Realms <- MCRealms
  Logon <- MCLogon
  Default <- MCDefault
  Kinds <- MCKinds
  Times = {1, 2}
  MaxRecords = 4
INVARIANT
  TheCopyReadsTheSame
