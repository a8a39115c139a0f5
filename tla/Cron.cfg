SPECIFICATION Spec
CONSTANTS
  Seconds = 3
  Minutes = 2
  Hours = 2
  Days = 2
  Configs <- CronConfigs
  Star = Star
  Missing = Missing
  MinDown = 2
INVARIANTS TypeOK AtMostOncePerMinute
PROPERTY EveryMinuteRuns
