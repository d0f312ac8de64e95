SPECIFICATION SpecOne
CONSTANTS
  None = None
  Local <- Configurations
  MaxChanges = 2
  MaxRemote = 2
  r1 = r1  r2 = r2  n1 = n1  n2 = n2
  local = local
  noFile = noFile  noCounts = noCounts  noDevice = noDevice
  nameA = nameA  nameB = nameB  contentC = contentC  contentD = contentD
  tcp = tcp  relay = relay
  Root = Root  dir = dir  sub = sub  below = below  file = file  top = top
  LocalNames <- TwoNames  Contents <- TwoContents  MaxSeq = 3  MaxFileChanges = 3  MaxCrashes = 1
  Addresses <- TCPAndRelay  Frequency <- TwoAndFive  StdSleep = 2
  CoolDownInterval = 3  CoolDownDelay = 5  CoolDownMaxAttempts = 3
SYMMETRY Symmetric
INVARIANTS WaitsOrRuns HandlersFollow FileSetRight LocalIndexRight DialsRight ScanRight
CHECK_DEADLOCK FALSE
