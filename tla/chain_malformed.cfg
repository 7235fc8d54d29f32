\* A request body the normalization of a later target refuses.
SPECIFICATION Spec
CONSTANTS
  ta = ta
  tb = tb
  tc = tc
  oauth = oauth
  apikey = apikey
  r1 = r1
  NoRequest = NoRequest
  NoTarget = NoTarget
  Targets <- Two
  Requests = {r1}
  TargetName <- MCTargetName
  Providers = {oauth, apikey}
  Provider <- MCProvider
  OAuthProviders = {oauth}
  Plans <- Malformed
  HttpReplies = {"http_500"}
  Settings = {0}
  GateSize = 1
  MaxTime = 1
INVARIANTS CommittedStreamIsFramed
CHECK_DEADLOCK FALSE
