SPECIFICATION Spec
CONSTANTS
  MachineCount = 1
  Masters = {1}
  Deployments <- MetricsDeployments
  NoFile <- NoExtra
  OnlyQueues = {0}
  CRON_QUEUE_NAME = 2
INVARIANT ExtraSettingsPrevail
CHECK_DEADLOCK FALSE
