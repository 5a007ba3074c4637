------------------------------- MODULE TraceStream -------------------------------
(***************************************************************************)
(* What a run of the inspector promises to whoever reads its output,       *)
(* whatever happens to its connections: traces of firehose events in the   *)
(* order in which they were observed, none of them twice, no more than     *)
(* --max-events of them, and none after the run is over. A run is          *)
(* successful only if it was interrupted or it reached that limit.         *)
(***************************************************************************)
EXTENDS Integers, Sequences

CONSTANTS
    Streams,    \* how many streams of events are observed, one after another
    Events,     \* how many events there may be in each
    MaxEvents   \* the limit on the traces rendered, 0 for no limit

VARIABLES
    output,       \* the sequence of events rendered
    interrupted,  \* the user asked the run to stop
    outcome       \* "running", or how the run ended

vars == <<output, interrupted, outcome>>

Event == (1..Streams) \X (1..Events)

\* An earlier stream comes first; within a stream, the order of its events.
Precedes(d, e) == d[1] < e[1] \/ (d[1] = e[1] /\ d[2] < e[2])

LimitReached == MaxEvents > 0 /\ Len(output) >= MaxEvents

Init ==
    /\ output = <<>>
    /\ interrupted = FALSE
    /\ outcome = "running"

Emit ==
    /\ outcome = "running"
    /\ ~LimitReached
    /\ \E e \in Event :
          /\ output = <<>> \/ Precedes(output[Len(output)], e)
          /\ output' = Append(output, e)
    /\ UNCHANGED <<interrupted, outcome>>

Interrupt ==
    /\ interrupted' = TRUE
    /\ UNCHANGED <<output, outcome>>

Stop(o) ==
    /\ outcome = "running"
    /\ o = "ok" => interrupted \/ LimitReached
    /\ outcome' = o
    /\ UNCHANGED <<output, interrupted>>

Next == Emit \/ Interrupt \/ \E o \in {"ok", "error"} : Stop(o)

Spec == Init /\ [][Next]_vars

================================================================================
