\* One signal, an IPC worker and the thread of the IPC stop.  The daemon ends, so the
\* system may stop.
SPECIFICATION FairSpec
CONSTANTS
  Threads <- MCThreads
  MaxSignals = 1
  Nobody = Nobody
CHECK_DEADLOCK FALSE
INVARIANT NoCircularWait
PROPERTY StopEnds
