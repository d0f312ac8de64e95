SPECIFICATION SpecOne
CONSTANTS
  d1 = d1 d2 = d2 c1 = c1 c2 = c2 f1 = f1 Nobody = Nobody User = User
  Devices <- TwoDevices
  Folders <- OneFolder
  Conns <- TwoConns
  Of <- OneEach
  Introducers <- TwoDevices
  Skipping <- NoDevices
  Present <- KnownAtFirst
  Accepting <- KnownAtFirst
  MaxEdits = 2
  MaxRemote = 2
  MaxDialled = 2
  k1 = k1 k2 = k2 a = a b = b None = None
  Clients <- TwoClients
  Peers <- TwoPeers
  MaxSessions = 2
  s1 = s1 s2 = s2 x = x y = y
  Servers <- TwoServers  Addresses <- TwoAddresses  RecordLifetime = 1  Retention = 3  Interval = 2  OutboxSize = 1
  MaxClock = 6  MaxAnnouncements = 2  MaxLookups = 2  MaxRestarts = 1
  Lifetime = 4  Reannounce = 2  ErrorRetry = 1  AnnounceRetry = {2}  LookupRetry = {1, 2}
  CacheTime = 1  NegCacheTime = 1  MaxResets = 1  LongestRetry = 2
  p1 = p1  p2 = p2  theFile = theFile  theVersion = theVersion
  Pullers <- TwoPullers  FileOf <- OneFile  VersionOf <- OneVersion  Blocks = {1, 2}  MaxReconnects = 1
  Bad = Bad
  Paths <- ShortPaths  AskedPaths <- ThreePaths  SomeFiles <- TwoFiles  AllFiles <- TwoLines  MaxFileEdits = 3
INVARIANTS PendingAndShares RelayRight DiscoveryServerRight DiscoveryRight ProgressRight IgnoreRight
PROPERTY TakesOnlyItsOwn
CHECK_DEADLOCK FALSE
