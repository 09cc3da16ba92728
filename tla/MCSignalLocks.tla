--------------------------- MODULE MCSignalLocks ---------------------------
EXTENDS SignalLocks

\* The processor takes the locks of the main loop, in the same order.
MCThreads == {"main", "worker", "stopper"}
=============================================================================
