\* An interrupted rotation is started again.
SPECIFICATION SecretKeysSpec
CONSTANTS
  Secrets = {s1}
  OperatorKeys = {k1, k2}
  GeneratedKeys = {g1}
  NoMasterKey = NoMasterKey
  Empty = Empty
  Plain = Plain
  FollowsRunbook = FALSE
INVARIANT KeyNeverLost
CHECK_DEADLOCK FALSE
