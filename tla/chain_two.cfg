\* Two requests that share the cooldown store, the legs, the gate and the outcomes,
\* and, over one target, hold different values of the setting.
SPECIFICATION Spec
CONSTANTS
  ta = ta
  tb = tb
  tc = tc
  oauth = oauth
  apikey = apikey
  r1 = r1
  NoRequest = NoRequest
  NoTarget = NoTarget
  Targets <- Two
  Requests = {r1, r2}
  TargetName <- MCTargetName
  Providers = {oauth, apikey}
  Provider <- MCProvider
  OAuthProviders = {oauth}
  Plans <- TwoPlans
  HttpReplies = {"http_500"}
  Settings = {0, 1, 2}
  GateSize = 1
  MaxTime = 2
INVARIANTS HealthBlamesTarget ResourcesHeld ExhaustedMeansTried
PROPERTIES CooldownSound
ACTION_CONSTRAINT OneScene
CHECK_DEADLOCK FALSE
