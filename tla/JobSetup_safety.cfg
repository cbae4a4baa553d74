SPECIFICATION FairSpec
CONSTANTS
  a1 = a1
  a2 = a2
  None = None
  Jobs = {"j1", "j2"}
  Conns = {"c1"}
  Tools = {"Bash", "Read"}
  Servers = {"github"}
  MaxUpdates = 1
  Addresses = {a1, a2}
  Names <- MCNames
  Resolves <- MCResolves
  AutoAllowed <- MCAutoAllowed
  Profiles <- MCProfiles
  Settings <- MCSettings
  Home <- MCHome
INVARIANT SetupTypeOK
INVARIANT AgentsAreConfined
INVARIANT GrantsComeFromOneProfile
 
PROPERTY ConnectionsEnd
CHECK_DEADLOCK FALSE
