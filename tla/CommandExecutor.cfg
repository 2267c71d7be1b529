CONSTANTS
  ProcPid <- MCProcPid
  PidFile = PidFile
  NoFile = NoFile
  Ambient <- MCAmbient
  EnvValues <- MCEnvValues
  Nil = Nil
  MaxCommandTime = 5

SPECIFICATION Spec

INVARIANT TypeOK
INVARIANT SuccessMeansCompleted
INVARIANT ErrorsCarryBestKnownPid
PROPERTY ExecuteTerminates

\* Execute is one call: once it has returned and its monitor goroutine is
\* blocked or gone, the component takes no further step.
CHECK_DEADLOCK FALSE
