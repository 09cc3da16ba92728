\* Liveness under the fairness of the threads; one client slot for two clients, so
\* one of them may be answered "IPC busy".  One caller of request_shutdown.
\* The daemon exits at the end, so the system may stop.
SPECIFICATION FairSpec
CONSTANTS
    Requests = {r1, r2}
    Capacity = 1
    MaxWorkers = 1
    Stoppers = {"signal"}
    NoRequest = NoRequest
CHECK_DEADLOCK FALSE
PROPERTIES
    StopTerminates
    ClientsAnswered
    QueuedEventsHandled
