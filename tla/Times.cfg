\* The production values of the A-GNSS fan-out, and any wait of up to nine
\* seconds for an invocation in each round; a clock with a second of four
\* ticks, bins of three seconds and three bins.
SPECIFICATION TimesSpec
CONSTANTS
  InitialDelay = 5
  DelayCap = 900
  MaxResolutionTime = 600
  RetentionPeriod = 600
  Lags <- UpToNineSeconds
  Second = 4
  BinSeconds = 3
  ExecutionTimeout = 8
  Horizon = 30
INVARIANTS
  DelayInvariant
  SeenBeforeRetention
  AtMostTenRequeues
  LifetimeInvariant
PROPERTIES
  DelayIncreases
  EntryOutlivesHour
  EntryOutlivesExecution
CHECK_DEADLOCK FALSE
