------------------------------ MODULE AtLeastOnce ------------------------------
(***************************************************************************)
(* What at-least-once delivery promises the caller of Task.delay(): an     *)
(* accepted task stays open until its success or failure is stored, and    *)
(* nothing is stored for a known task that was never started.              *)
(***************************************************************************)
CONSTANTS
    Task,     \* the tasks under this promise
    Unknown   \* those whose name no worker knows: they fail without being started

VARIABLES
    open,       \* accepted, not concluded
    begun,      \* started at least once
    concluded   \* success or failure stored

avars == <<open, begun, concluded>>

Init == open = {} /\ begun = {} /\ concluded = {}

Accept(t) ==
    /\ t \notin open \cup concluded
    /\ open' = open \cup {t}
    /\ UNCHANGED <<begun, concluded>>

\* Also after the conclusion: at least once is not exactly once.
Begin(t) ==
    /\ t \in open \cup concluded
    /\ begun' = begun \cup {t}
    /\ UNCHANGED <<open, concluded>>

Conclude(t) ==
    /\ t \in open
    /\ t \in begun \cup Unknown
    /\ open' = open \ {t}
    /\ concluded' = concluded \cup {t}
    /\ UNCHANGED begun

Next == \E t \in Task : Accept(t) \/ Begin(t) \/ Conclude(t)

Spec == Init /\ [][Next]_avars

\* No accepted task stays open for ever.
EventuallyConcluded == \A t \in Task : t \in open ~> t \in concluded
================================================================================
