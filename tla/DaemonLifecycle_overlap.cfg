\* Two commands overlap in every way.  No symmetry: liveness is checked.
\* Lives and commands are finite, so the system may stop.
SPECIFICATION FairSpec
CONSTANTS
  d1 = d1
  d2 = d2
  d3 = d3
  o1 = o1
  c1 = c1
  c2 = c2
  c3 = c3
  c4 = c4
  Daemons = {d1, d2, d3}
  Others = {o1}
  Commands = {c1, c2}
  PidOf <- MCPidOf
  Patient = FALSE
  NoFile = NoFile
  Unreadable = Unreadable
  NoLife = NoLife
CHECK_DEADLOCK FALSE
INVARIANT ExitLeavesNothing
PROPERTY AskedDaemonsEnd
