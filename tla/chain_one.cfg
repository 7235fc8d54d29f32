\* One request, every fit of a chain of two and every reply, under the timers of
\* the handler.
SPECIFICATION FairSpec
CONSTANTS
  ta = ta
  tb = tb
  tc = tc
  oauth = oauth
  apikey = apikey
  r1 = r1
  NoRequest = NoRequest
  NoTarget = NoTarget
  Targets <- Three
  Requests = {r1}
  TargetName <- MCTargetName
  Providers = {oauth, apikey}
  Provider <- MCProvider
  OAuthProviders = {oauth}
  Plans <- OneRequest
  HttpReplies = {"http_401", "http_422", "http_500", "context_limit_exceeded", "reasoning_roundtrip_required", "free_tier_rejected"}
  Settings = {0, 1}
  GateSize = 1
  MaxTime = 1
INVARIANTS LoopIsBounded AnsweredOnce CommittedStreamIsFramed RequestBlameIsHonest
PROPERTIES NoSplice Decided
CHECK_DEADLOCK FALSE
