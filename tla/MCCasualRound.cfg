SPECIFICATION Spec
CONSTANTS
  volunteer = volunteer
  Member = {volunteer, m2, m3, m4}
  Nominee <- MCNominee
  HunterCount = 2
  HidingDuration = 1
  HuntingDuration = 3
  ReloadDuration = 1
  ShellLimit = 2
  Command = {c1, c2, c3, c4}
  Aim = {1, 2, 5}
  NoHider = NoHider
  MaxCommands = 3
  MaxDelay = 3
  MaxTime = 7
INVARIANTS
  TypeOK
  ShotsAccountedFor
  DiscoveriesAreEarned
  VerdictFollowsTheRound
PROPERTY
  RoundEnds
CHECK_DEADLOCK FALSE
VIEW Relevant
