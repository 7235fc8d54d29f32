\* Admission, client keys, management tokens, the operator's sessions, the hosted
\* identity and its sessions, the login limiter, and an OAuth connection, one at
\* a time.
SPECIFICATION AccessSpec
CONSTANTS
  h1 = h1
  h2 = h2
  k1 = k1
  k2 = k2
  ac = ac
  Requests = {h1, h2, h3}
  Tickets = {k1, k2}
  PlanLimits <- MCPlanLimits
  LastMonth = 2
  Keys = {ck1}
  Versions = {0, 1}
  Accounts = {ac}
  OwnerOf <- MCOwnerOf
  Calls = {h1, h2}
  Admins = {h1, h2}
  Slots = 1
  CacheSize = 1
  MaxRev = 2
  Tokens = {tk, bt}
  Boot = bt
  TokenVersions = {0}
  TokenScopes = {s1, s2}
  Never = Never
  Uses = {u1}
  Editors = {h1, h2}
  LastDay = 1
  MaxTokenRev = 1
  Unlocked = Unlocked
  Browsers = {h1, h2}
  Sessions = {s1}
  Gets = {h1, h2}
  SessionTTL = 3
  LastHour = 3
  MaxSessionRev = 2
  Nobody = Nobody
  NoTime = NoTime
  Visitors = {h1, h2}
  UserSessions = {s1}
  Passkeys = {q1}
  LastPassword = 2
  LastGeneration = 3
  LastToken = 3
  Customers = {c1}
  Operators = {o1}
  Readers = {h1, h2}
  Revokers = {u1}
  HostedTTL = 2
  LastTick = 2
  MaxHostedRev = 1
  NoRow = NoRow
  Clients = {c1, c2}
  Logins = {h1, h2}
  MaxFailures = 2
  Window = 1
  Lockout = 2
  MaxEntries = 1
  LastMoment = 3
  NoClient = NoClient
  TokenCallers = {h3}
  Forced = {h3}
  Flows = {h1, h2}
  NoOne = NoOne
  MaxSerial = 2
  MaxGeneration = 1
INVARIANTS AdminSessionsHold HostedSessionsHold ConnectionHolds
PROPERTIES AdmissionHolds KeysAreCurrent TokensAreCurrent IdentityHolds LimiterHolds
SYMMETRY Handlers
CHECK_DEADLOCK FALSE
