SPECIFICATION Spec
CONSTANTS
  l1 = l1
  l2 = l2
  Lobby <- MCLobby
  Player = {p1, p2, p3}
  published = published
  draft = draft
  Map <- MCMap
  PublishedMap <- MCPublishedMap
  Patches <- MCPatches
  NoPlayer = NoPlayer
  NoMap = NoMap
  NoLobby = NoLobby
  Capacity = {2, 3}
  MaxVersion <- MCMaxVersion
  MaxClock = 4
  Ahead = 1
  Behind = 1
SYMMETRY Symmetry
VIEW Relevant
INVARIANTS
  TypeOK
  HostConsistency
  MembershipIsLimited
  RoundsAreExclusive
  VersionIdentifiesSnapshot
  HostIsSenior
CHECK_DEADLOCK FALSE
