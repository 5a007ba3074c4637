--------------------------------- MODULE Broadcast ---------------------------------
(***************************************************************************)
(* What the web view promises to the browsers connected to it: each sees,  *)
(* in the order of rendering and none of them twice, some of the traces    *)
(* rendered since it joined; and once the view has stopped no trace is     *)
(* added. WebRenderer implements it; the mapping is at its end.            *)
(***************************************************************************)
EXTENDS Integers, Sequences

CONSTANTS Clients, MaxTraces

VARIABLES
    rendered,   \* the number of traces rendered, which are numbered from one
    stopped,
    members,    \* the clients that have joined
    since,      \* since[c]: the number of traces rendered when c joined
    seen        \* seen[c]: what c has seen

Init ==
    /\ rendered = 0
    /\ stopped = FALSE
    /\ members = {}
    /\ since = [c \in Clients |-> 0]
    /\ seen = [c \in Clients |-> <<>>]

Render ==
    /\ ~stopped
    /\ rendered < MaxTraces
    /\ rendered' = rendered + 1
    /\ UNCHANGED <<stopped, members, since, seen>>

Join(c) ==
    /\ c \notin members
    /\ members' = members \cup {c}
    /\ since' = [since EXCEPT ![c] = rendered]
    /\ UNCHANGED <<rendered, stopped, seen>>

See(c, t) ==
    /\ c \in members
    /\ \A i \in 1..Len(seen[c]) : seen[c][i] < t
    /\ since[c] < t /\ t <= rendered
    /\ seen' = [seen EXCEPT ![c] = Append(@, t)]
    /\ UNCHANGED <<rendered, stopped, members, since>>

Stop ==
    /\ stopped' = TRUE
    /\ UNCHANGED <<rendered, members, since, seen>>

Next ==
    \/ Render \/ Stop
    \/ \E c \in Clients : Join(c) \/ \E t \in 1..MaxTraces : See(c, t)

Spec == Init /\ [][Next]_<<rendered, stopped, members, since, seen>>

================================================================================
