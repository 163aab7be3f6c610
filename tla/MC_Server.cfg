SPECIFICATION Spec
CONSTANTS
  PbUsers = {x, y}
  PbIds = {b1}
  PbRequests = {c1, c2}
  PbPositions = {0, 1}
  PbVolumes = {100, 50}
  NoSession = NoSession
  CastDevices = {d1}
  CastIds = {i1}
  Starts = 3
  Rate = 2
  Keep = 3
  Absent = Absent
  SpUsers = {u1, u2, u3}
  SpRooms = {m1}
  IdBegins <- IdsBegin
  SpStates = {Paused0, Playing1}
  Paused0 = Paused0
  NoRoom = NoRoom
  TvChannels = {t1}
  Recordings = {g1}
  MaxSegments = 2
  Seconds = 3
  Writes = 4
  NoChannel = NoChannel
  ReplNodes = {n1, n2}
  Source = n1
  Frames = 3
  Shipments = 3
  Keys = {x, y, z}
  MaxSize = 2
  Ttl = 0
  Patience = 1
  TokenLife = 1
  Horizon = 2
  Callers = {c1, c2}
  Miss = Miss
  Containers = {root}
  DlnaEntries = {e1, e2}
  PageSizes = {0, 1}
  Targets = {all, other}
  Matched = {all}
  Instances = {0}
  AvRequests = {c1, c2}
  Uris = {NoUri, x1}
  Scans = 1
  NoUri = NoUri
  Hosts = {h1}
  Ports = {p1}
  LoginNames = {n1}
  LoginCalls = {c1, c2}
  SessionIds = {s1}
  IdleTicks = 3
  GuardCalls = {c1, c2}
  LastTick = 7
  MaxFailures = 3
  Width = 4
  MaxDelay = 3
  Forget = 4
  Idle = 1
  Bucket = 2
  PerToken = 2
  Unused = 4
  Zero = Zero
  ApiKeys = {k1}
  Scopes = {read, write}
  DeviceIds = {x, y}
  Ips = {p1, p2}
  Levels = {"blocked", "guest", "user"}
  OauthStates = {x, y}
  TotpUsers = {x, y}
  Checkers = {c1, c2}
  StateLife = 2
  Moments = 4
  Secrets = 3
  RoleNames = {"admin", "guest", "custom"}
  BuiltIn = {"admin", "guest"}
  Resources = {"library", "item"}
  Verbs = {"read"}
  Nil = Nil
  UserIds = {i0, x, y}
  AdminId = i0
  Names = {admin, n1}
  AdminName = admin
  Roles = {"admin", "user"}
  TokenTtl = 2
  Today = 2
  AtOnce = 2
  Clerks = {c1, c2}
  Nobody = Nobody
  Gone = Gone
  RowKinds = {"activity", "history", "totp"}
  Devices = {d1}
  NoErasure = NoErasure
  Lengths = {0, 1, 3}
  Limit = 2
  Ages = 1
  StoredItems = {i1, i2}
  VideoItems = {i1}
  Refreshes = 2
  PoolSizes = {1, 2, 3, 5}
  Updates = 3
  Spellings <- TypedTags
  TagWords = {"action", "drama"}
  Taggers = {c1, c2}
  Unset = Unset
  Viewings = {c1, c2}
  RowLimit = 1
  Reports <- ClientReports
  Markers = {m1}
  ChapterLists <- FoundChapters
  Nothing = Nothing
  ProfileIds = {x, y}
  Owner <- Account
  Parents = {"a1", "a2"}
  MaxProfiles = 1
  Edits = {c1, c2}
  Limits = {0, 1}
  Preferences = {f1}
  Pins = {n1, n2}
  NoPin = NoPin
  Restrictions <- ParentalLimits
  NoLimits <- Unlimited
  Contents <- Films
  Hours = {0, 1, 2, 3}
  Void = Void
  ItemLengths = {1, 4}
  MinSegments = 3
  Masters = {m1, m2}
  Launches = 2
  Kbps = {0, 1499, 1500, 2999, 3000, 5999, 6000, 7999, 8000, 14999, 15000}
  Edges = {1080, 2160}
  ItemSeconds = {0, 59, 599, 600, 3661}
  MpdCalls = {c1, c2}
  Mpds = 3
  Torn = Torn
  NotThere = NotThere
INVARIANTS
  SessionsInv
  CastInv
  RoomsInv
  LiveInv
  ReplicationInv
  CacheInv
  DlnaInv
  GuardsInv
  CredentialsInv
  PeopleInv
  BackupInv
  CollectionsInv
  MediaInv
SYMMETRY Interchangeable
PROPERTIES
  OnlyOvertakenLose
  ImplementsMap
CHECK_DEADLOCK FALSE
