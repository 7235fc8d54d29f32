\* Permissions, the catalogue, the master key, the databases, the translations, the poller and the notifier, one at a time.
SPECIFICATION ContentsSpec
CONSTANTS
  m1 = m1
  m2 = m2
  p1 = p1
  p2 = p2
  Upstreams = {p1}
  VirtualGroups = {p2}
  Models = {m1, m2}
  GroupOf <- MCGroupOf
  CatalogueKeys = {k1}
  Templates = {t1}
  Patches = {h1}
  Custom = Custom
  Backends = {p1, p2}
  RealModels = {m1, m2}
  BackendOf <- MCBackendOf
  Listings <- MCListings
  Chains = {v1}
  BoundKeys = {k1}
  Refreshes = {h1, h2}
  Edits = {e1}
  Unbound = Unbound
  NoEdit = NoEdit
  Secrets = {s1, s2}
  OperatorKeys = {k1, k2}
  GeneratedKeys = {g1}
  NoMasterKey = NoMasterKey
  Empty = Empty
  Plain = Plain
  FollowsRunbook = TRUE
  ToolCalls = {a, b}
  NoCall = NoCall
  MaxToolCalls = 2
  MaxText = 2
  MaxEvents = 5
  Parts = 2
  MaxFrames = 2
  MaxFirings = 3
  CallA = CallA
  CallB = CallB
  NoToolCall = NoToolCall
  MaxTurns = 2
  Floor = 2
  TopBudget = 4
  Unset = Unset
  Tenants = {t1}
  RouteKeys = {"fallback"}
  AdminEvents = {"login"}
  Deliveries = {d1, d2}
  ProcessSlots = 2
  TenantSlots = 2
  HourlyBudget = 2
  HostedCooldown = 1
  LocalCooldowns = {0, 2}
  Hour = 1
  LastMinute = 3
  Quotas = {k1}
  Configs = {c1}
  Views = {v1, v2}
  Checks = {x, y}
  MinInterval = 1
  LastSecond = 1
  MaxEdits = 2
  Absent = Absent
  Logs = {l1, l2}
  Counted = {l1}
  Guessed = {l2}
  Old = {l1}
  Tried = {l1}
  LogsMigration = 1
  Tenancy = 2
  Split = 3
  Newest = 3
  Members = {a, b, m1}
  Levels = {"low", "max", "ultra"}
  Canonical = {"low", "max"}
  Limits = {0, 1, 2}
  TargetViews <- MCViews
INVARIANTS QuotaHolds PermissionsHold SecretsHold TranslationHolds ConversationKept AnswerArrives SelectorHolds
           DatabaseHolds CapabilitiesHold
PROPERTIES NotificationsHold CatalogueHolds KeepaliveHolds RollbackHolds
CHECK_DEADLOCK FALSE
