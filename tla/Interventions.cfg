CONSTANTS
  cyclicLoopWindowSize = 3
  cyclicLoopMinCalls = 3
  cyclicLoopMaxDistinctPct = 40
  spiralMinToolCalls = 2
  spiralErrStreakThreshold = 2
  spiralSameFileEditThreshold = 2
  spiralRepeatWindow = 2
  spiralRepeatMinCalls = 3
  spiralRepeatPct = 34
  spiralMonologueThreshold = 2
  spiralPingPongThreshold = 4
  spiralNoProgressThreshold = 3
  textRepetitionWindow = 3
  textRepetitionThreshold = 3
  Brief = {}
  noProgressWindowSize = 2
  noProgressMatchThreshold = 2
  noProgressTimeWindow = 1
  compactionMinHistoryMessages = 4
  struggleEarlyTurns = 3
  struggleEarlyWall = 1
  struggleLateTurns = 4
  struggleLateWall = 2
  Turns = {t1, t2}
  Replicas = {r1}
  Models = {"cheap", "mid", "strong"}
  Settings <- McSettings
  escalateModel = "strong"
  VisionModels = {"cheap", "mid"}
  Summarizers = {"mid", "strong"}
  Ladder <- McLadder
  Roster <- McRoster
  Start = 2
  MaxTime = 3
  pinSessionTTL = 2
  MaxFaults = 1
SYMMETRY Symmetry
SPECIFICATION Spec
INVARIANTS ForceHonoured RescueSound
