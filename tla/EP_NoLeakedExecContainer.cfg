CONSTANTS
  ProcPid <- MCProcPid
  PidFile = PidFile
  NoFile = NoFile
  Ambient <- MCAmbient
  EnvValues <- MCEnvValues
  Nil = Nil
  MaxCommandTime = 5

SPECIFICATION Spec

INVARIANT NoLeakedExecContainer


\* Destroy is the last operation on a resource: after it, or after a Create
\* the user never tears down, the provider takes no further step.
CHECK_DEADLOCK FALSE
