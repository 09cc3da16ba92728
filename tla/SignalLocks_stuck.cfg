\* One signal, an IPC worker and the thread of the IPC stop.  The daemon ends, so the
\* system may stop.
SPECIFICATION Spec
CONSTANTS
  Threads <- MCThreads
  MaxSignals = 1
  Nobody = Nobody
CHECK_DEADLOCK FALSE
INVARIANT StopSignalsGetThrough
