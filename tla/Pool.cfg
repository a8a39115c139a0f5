SPECIFICATION Spec
CONSTANTS
  MachineCount = 2
  Masters = {0, 1, 2}
  Deployments <- PoolDeployments
  NoFile <- NoExtra
  OnlyQueues = {0, 2}
  CRON_QUEUE_NAME = 2
INVARIANTS TypeOK EachWorkerOnce Balanced SafeToRoll CronIsServed
CHECK_DEADLOCK FALSE
