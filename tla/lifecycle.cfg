CONSTANTS
  WP = {w1}
  NoWP = NoWP
  ListHead = ListHead
  MaxProcessesSettings = {1}
  RapidFailProtection = FALSE
  MaxCrashes = 2
  Pinging = TRUE
  Orphaning = FALSE
  DebuggerMayAttach = TRUE
  OverlapSettings = {TRUE}
  RotateSettings = {TRUE}
  Failures = {"WorkerProcessToken", "MessagingHandler", "AlterDesktop", "StartProcess", "ProcessWait", "StartupTimer", "SendShutdown", "ShutdownTimer", "SendPing", "PingResponseTimer", "RecyclerParameters", "SendPingTimer", "Allocate", "EnableHttp", "WaitForDemandStart"}
  Events = {"IdleRequest", "FailedStart", "Crash", "Misbehave", "IpmFault", "DeletePool", "JobObject"}
  QueueBound = 2
SPECIFICATION Spec
INVARIANT TypeOK
INVARIANT RefCountExact
INVARIANT TerminatedIsQuiet
INVARIANT PingMonitored
INVARIANT PingFailureGenuine
