SPECIFICATION MatchSpec
CONSTANTS
  l1 = l1
  p1 = p1
  p2 = p2
  s1 = s1
  s2 = s2
  published = published
  Lobby = {l1}
  L = l1
  Player = {p1, p2}
  Session = {s1}
  Owner <- MCOneSession
  Map = {published}
  PublishedMap = {published}
  Patches <- MCPatches
  NoPlayer = NoPlayer
  NoMap = NoMap
  NoLobby = NoLobby
  Capacity = {2}
  MaxLobbyVersion = 5
  MaxVersion <- MCMaxVersion
  MaxClock = 1
  Ahead = 0
  Behind = 0
  Toggles = {TRUE}
  MaxFaults = 2
  MaxCrashes = 1
INVARIANTS
  
  FencedViewsAreExact
  MirrorTrailsLiveRound
VIEW Relevant
CHECK_DEADLOCK FALSE
