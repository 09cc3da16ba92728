\* Three events, a queue of two places and two client slots: the queue fills, the slots
\* run out, two queued events have an order to keep, and closing the queue overtakes a
\* worker inside put().
\* The daemon exits at the end, so the system may stop.
SPECIFICATION Spec
CONSTANTS
    Requests = {r1, r2, r3}
    Capacity = 2
    MaxWorkers = 2
    Stoppers = {"signal"}
    NoRequest = NoRequest
SYMMETRY Symmetry
CHECK_DEADLOCK FALSE
INVARIANTS
    TypeOK
    CountersBalance
    AnswersAreTrue
    CleanStopProcessesAll
PROPERTY ImplementsService
