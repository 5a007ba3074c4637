--------------------------------- MODULE MCReports ---------------------------------
(***************************************************************************)
(* Two exchanges; queues "a.b", "a_b", "a|b", "c"; events that reach no    *)
(* queue, one queue under two binding keys, and two queues. Four traces    *)
(* make counts tie and the tables of two lines overflow. One stream has    *)
(* names with the characters that are special in keys and drawings, one    *)
(* capital letters and letters that are not ASCII's. The other streams are *)
(* single deliveries: every event of a message with names of up to three   *)
(* words, however its key is built.                                        *)
(***************************************************************************)
EXTENDS Pipeline

A == <<97>>
B == <<98>>
C == <<99>>
X == <<120>>
Y == <<121>>
Pattern == <<35>>
Dotted == A \o <<Dot>> \o B
Underscored == A \o <<Underscore>> \o B
Barred == A \o <<Bar>> \o B
Quoted == <<Backslash, Quote>> \o A \o <<Backslash>>

Entry(queue, binding) ==
    [kind |-> "table", text |-> <<>>,
     fields |-> [f \in {"queue_name", "binding_key"} |->
                    Str(IF f = "queue_name" THEN queue ELSE binding)]]

\* An event whose headers say everything.
Explicit(exchange, type, key, entries) ==
    [key |-> <<>>,
     headers |-> [h \in {"exchange", "event_type", "routing_key", "destinations"} |->
                    CASE h = "exchange" -> Str(exchange)
                      [] h = "event_type" -> Str(type)
                      [] h = "routing_key" -> Str(key)
                      [] h = "destinations" -> List(entries)]]

Plain == {
    Explicit(X, <<80>>, A, <<>>),
    Explicit(X, Deliver, <<>>, <<>>),
    Explicit(X, Deliver, A, <<Entry(C, <<>>), Str(C)>>),
    Explicit(Y, Publish, A, <<Entry(C, A), Entry(C, Pattern), Entry(C, A)>>),
    Explicit(Y, Publish, <<>>, <<Entry(Dotted, Pattern), Entry(Underscored, <<>>)>>),
    [key |-> Y, headers |-> [h \in {"queue", "exchange-name"} |->
                               IF h = "queue" THEN Str(<<Space>> \o C) ELSE Str(Y)]]}

Special == {
    Explicit(Barred, Publish, A, <<Entry(C, <<>>)>>),
    Explicit(A, Publish, A, <<Entry(B \o <<Bar>> \o C, <<>>)>>),
    Explicit(A, Publish, B, <<Entry(A, B \o <<Bar>> \o C), Entry(Barred, C)>>),
    Explicit(Quoted, Deliver, Quoted, <<Entry(Quoted, <<>>), Str(<<Quote>>)>>),
    [key |-> Publish,
     headers |-> [h \in {"destinations"} |-> List(<<[kind |-> "other", text |-> <<>>]>>)]]}

\* Names of one length: "A", "B", "a", and u and o with an umlaut.
Foreign == {
    Explicit(<<65>>, Publish, A, <<Entry(<<252>>, <<>>), Entry(<<246>>, <<>>)>>),
    Explicit(<<66>>, Publish, A, <<Entry(<<65>>, <<>>), Entry(<<66>>, <<>>), Entry(A, <<>>)>>)}

MessageNames == {<<>>, A, B, Dotted, Dotted \o <<Dot>> \o B, B \o <<Dot>> \o A}

Messages ==
    {m \in [type : {Publish, Deliver}, name : MessageNames, key : {<<>>, B, Dotted},
            appended : BOOLEAN, keyed : BOOLEAN, named : BOOLEAN,
            exchange : MessageNames \cup {X}] :
        IF m.type = Publish THEN m.name = m.exchange
        ELSE m.name # <<>> /\ m.exchange \in {<<>>, X, Dotted}}

AllStreams == {Plain, Special, Foreign} \cup {{Event(m)} : m \in Messages}

================================================================================
