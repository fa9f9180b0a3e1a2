CONSTANTS
  Builds <- BothBuilds
  Readings <- Thresholds
  NULL = NULL
  MaxPosts <- PostBounds
  MaxBehind = 1
SPECIFICATION FairSpec
INVARIANTS PumpOffInAlarm WaterInBand
PROPERTIES AlarmSounds MineIsDrained
