----------------------------- MODULE EventService -----------------------------
(* What the daemon promises about events, with no threads in sight: an event  *)
(* is taken into a bounded backlog or refused, never both; taken events are   *)
(* finished in the order they were taken, each once; the daemon may halt with *)
(* events unfinished, and nothing happens to an event after that.             *)
EXTENDS Naturals, Sequences, Functions

CONSTANTS
    Events,  \* the events clients may submit
    Limit    \* how many events may be taken and not finished, a positive number

VARIABLES
    backlog,   \* taken, not finished
    finished,  \* finished, in order
    refused,   \* refused
    halted     \* the daemon has stopped

serviceVars == <<backlog, finished, refused, halted>>

Fresh(e) == e \notin Range(backlog) \union Range(finished) \union refused

ServiceInit ==
    /\ backlog = <<>> /\ finished = <<>> /\ refused = {} /\ halted = FALSE

Take(e) ==
    /\ ~halted /\ Fresh(e)
    /\ Len(backlog) < Limit
    /\ backlog' = Append(backlog, e)
    /\ UNCHANGED <<finished, refused, halted>>

Refuse(e) ==
    /\ ~halted /\ Fresh(e)
    /\ refused' = refused \union {e}
    /\ UNCHANGED <<backlog, finished, halted>>

Finish ==
    /\ ~halted /\ backlog # <<>>
    /\ finished' = Append(finished, Head(backlog))
    /\ backlog' = Tail(backlog)
    /\ UNCHANGED <<refused, halted>>

Halt ==
    /\ ~halted /\ halted' = TRUE
    /\ UNCHANGED <<backlog, finished, refused>>

ServiceNext ==
    \/ \E e \in Events : Take(e) \/ Refuse(e)
    \/ Finish
    \/ Halt

ServiceSpec == ServiceInit /\ [][ServiceNext]_serviceVars
==============================================================================
