SPECIFICATION Spec
CONSTANTS
  alice = alice
  g1 = g1
  g2 = g2
  r1 = r1
  r2 = r2
  w1 = w1
  w2 = w2
  Username = {alice}
  Identity = {g1, g2}
  Request = {r1, r2}
  Worker = {w1, w2}
  Nobody = Nobody
  ChallengeTTL = 1
  SessionTTL = 2
  AccessTTL = 1
  AssertionTTL = 1
  BridgeCapacity = 2
  Scenarios <- MCScenarios
INVARIANTS
  TypeOK
  OneLiveCredential
  NewestLoginWins
  CredentialsAreSingleUse
  LinkedAccountsAreVerified
  AcknowledgmentsLetNamesLink
VIEW Relevant
CHECK_DEADLOCK FALSE
