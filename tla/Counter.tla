---------------------------------- MODULE Counter ----------------------------------
(***************************************************************************)
(* What --output=prometheus promises to those who scrape it: traces are    *)
(* counted one at a time and whole, and an answer shows what all of those  *)
(* amount to that have been counted when it is given, so that no answer    *)
(* ever shows less than an earlier one. PrometheusRenderer implements it;  *)
(* the mapping is at its end.                                              *)
(***************************************************************************)
EXTENDS Integers, Sequences

CONSTANTS
    Scrapes, Traces, MaxTraces,
    Amount(_)   \* what a sequence of traces amounts to

VARIABLES
    counted,    \* the traces counted
    stopped,
    waiting,    \* scrapes that wait for an answer
    answers     \* function from the scrapes that were answered

Init ==
    /\ counted = <<>>
    /\ stopped = FALSE
    /\ waiting = {}
    /\ answers = <<>>

CountTrace(t) ==
    /\ ~stopped
    /\ Len(counted) < MaxTraces
    /\ counted' = Append(counted, t)
    /\ UNCHANGED <<stopped, waiting, answers>>

Ask(s) ==
    /\ ~stopped
    /\ s \notin waiting \cup DOMAIN answers
    /\ waiting' = waiting \cup {s}
    /\ UNCHANGED <<counted, stopped, answers>>

Answer(s) ==
    /\ s \in waiting
    /\ waiting' = waiting \ {s}
    /\ answers' = [r \in DOMAIN answers \cup {s} |->
                     IF r = s THEN Amount(counted) ELSE answers[r]]
    /\ UNCHANGED <<counted, stopped>>

Stop ==
    /\ stopped' = TRUE
    /\ UNCHANGED <<counted, waiting, answers>>

Next ==
    \/ Stop
    \/ \E t \in Traces : CountTrace(t)
    \/ \E s \in Scrapes : Ask(s) \/ Answer(s)

Spec == Init /\ [][Next]_<<counted, stopped, waiting, answers>>

================================================================================
