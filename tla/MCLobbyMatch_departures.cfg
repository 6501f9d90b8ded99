SPECIFICATION FairMatchSpec
CONSTANTS
  l1 = l1
  p1 = p1
  p2 = p2
  s1 = s1
  s2 = s2
  published = published
  Lobby = {l1}
  L = l1
  Player = {p1, p2}
  Session = {s1, s2}
  Owner <- MCReconnect
  Map = {published}
  PublishedMap = {published}
  Patches = {}
  NoPlayer = NoPlayer
  NoMap = NoMap
  NoLobby = NoLobby
  Capacity = {2}
  MaxLobbyVersion = 4
  MaxVersion <- MCMaxVersion
  MaxClock = 2
  Ahead = 1
  Behind = 0
  Toggles = {}
  MaxFaults = 1
  MaxCrashes = 0
INVARIANTS
  NoForgottenDeparture
PROPERTY
  DeparturesReachTheStore
VIEW WithoutSeen
CHECK_DEADLOCK FALSE
