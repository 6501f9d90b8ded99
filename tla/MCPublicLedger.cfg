SPECIFICATION FairSpec
CONSTANTS
  w1 = w1
  w2 = w2
  w3 = w3
  h1 = h1
  h2 = h2
  i1 = i1
  i2 = i2
  i3 = i3
  v1 = v1
  b1 = b1
  b2 = b2
  b3 = b3
  c1 = c1
  n1 = n1
  n2 = n2
  n3 = n3
  x1 = x1
  r1 = r1
  k1 = k1
  k2 = k2
  B1 = B1
  B2 = B2
  owner = owner
  payment = payment
  rev0 = rev0
  rev1 = rev1
  Nothing = Nothing
  Worker = {w1, w2, w3}
  Handler = {h1, h2}
  Event = {i1, i2, i3, v1, b1, b2, b3, c1, n1, n2, n3, x1}
  Content <- MCContent
  AuthorizationOf <- MCAuthorizationOf
  Approved <- MCApproved
  Lifetime = 0
  Round = {r1}
  Collectible = {k1, k2}
  MatchPublishers = {"publisher"}
  CollectibleIssuers = {"issuer"}
  MaximumFutureClockSkew = 0
  Scenarios <- MCScenarios
INVARIANTS
  TypeOK
  OneSignaturePerKey
  EverySignatureIsJournaled
  CurrentIsChainHead
  CollectiblesFollowTheChain
PROPERTY
  LedgerCatchesUp
VIEW Relevant
CHECK_DEADLOCK FALSE
