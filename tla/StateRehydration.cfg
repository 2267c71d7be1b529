CONSTANTS
  UUIDs = {u1}
  Jobs = {j1}
  Execs = {x1}
  Values = {v1, v2}
  Versions = {c1, c2}
  Pids = {p1, p2}
  Empty = Empty
  Absent = Absent
  MaxRuns <- MCMaxRuns
  MaxCrashes <- MCMaxCrashes

SPECIFICATION Spec

INVARIANT TypeOK
PROPERTY GeneratedValueStable
PROPERTY JobRecreatedOnlyOnChange
