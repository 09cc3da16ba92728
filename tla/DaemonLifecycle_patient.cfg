\* Commands run one after the other, each when the daemon has settled; the daemon may
\* crash at any time and its PID go to another daemon or to an unrelated program.
\* Lives and commands are finite, so the system may stop.
SPECIFICATION Spec
CONSTANTS
  d1 = d1
  d2 = d2
  d3 = d3
  o1 = o1
  c1 = c1
  c2 = c2
  c3 = c3
  c4 = c4
  Daemons = {d1, d2, d3}
  Others = {o1}
  Commands = {c1, c2, c3, c4}
  PidOf <- MCPidOf
  Patient = TRUE
  NoFile = NoFile
  Unreadable = Unreadable
  NoLife = NoLife
CHECK_DEADLOCK FALSE
SYMMETRY Symmetry
INVARIANT RunningIsFound
PROPERTIES LeftoversNeverRefuse StoppedIsTrue
