--------------------------------- MODULE Pipeline ---------------------------------
(***************************************************************************)
(* What becomes of a delivery (internal/app/service.go, handleDelivery):   *)
(* it is parsed, filtered and rendered. Parser says what the parser makes  *)
(* of it, Reports what the renderers keep of that; Service has the errors, *)
(* limits and sessions around it, and Filter what the filter passes. Here  *)
(* the filter passes any trace or none.                                    *)
(*                                                                         *)
(* The broker publishes an event of a message under a key that is built    *)
(* from a name; a delivery carries, for the properties only, what it was   *)
(* built from.                                                             *)
(***************************************************************************)
EXTENDS Parser, Reports

CONSTANT Streams    \* sets of deliveries that come together

VARIABLES
    stream,     \* the deliveries that come
    handled     \* history: the deliveries that were rendered

vars == <<reportVars, stream, handled>>

PipelineInit == Init /\ stream \in Streams /\ handled = <<>>

\* An event that does not parse is logged; the next one is read.
Unreadable(d) ==
    /\ ParseFails(d.headers)
    /\ UNCHANGED vars

FilteredOut(d) ==
    /\ ~ParseFails(d.headers)
    /\ UNCHANGED vars

handleDelivery(d) ==
    /\ ~ParseFails(d.headers)
    /\ RenderTrace(ParseDelivery(d))
    /\ handled' = Append(handled, d)
    /\ UNCHANGED stream

DeliveryFails(d) ==
    /\ ~ParseFails(d.headers)
    /\ RenderFails(ParseDelivery(d))
    /\ UNCHANGED <<stream, handled>>

PipelineClose == Close /\ UNCHANGED <<stream, handled>>

Next ==
    \/ PipelineClose
    \/ \E d \in stream : \/ Unreadable(d)
                         \/ FilteredOut(d)
                         \/ handleDelivery(d)
                         \/ DeliveryFails(d)

Spec == PipelineInit /\ [][Next]_vars

--------------------------------------------------------------------------------
(* The broker's side *)

\* An event of a message: of which type, the name of the exchange or queue that handles
\* it, the exchange and the routing key it was published with, and how the key of the
\* event and its headers are made of them. The default exchange has the empty name.
IsMessage(m) ==
    /\ m.type \in {Publish, Deliver}
    /\ m.type = Publish => m.name = m.exchange
    /\ m.type = Deliver => m.name # <<>>
    /\ {m.name, m.key, m.exchange} \subseteq Characters
    /\ {m.appended, m.keyed, m.named} \subseteq BOOLEAN

Str(s) == [kind |-> "string", text |-> s]
List(items) == [kind |-> "list", text |-> <<>>, items |-> items]

\* The event of a message that exchange or queue m.name handles. Its key may end with
\* the message's, as in parser_test.go:124; headers may name the key and the exchange.
Event(m) ==
    [key |-> m.type \o <<Dot>> \o m.name
                \o (IF m.appended THEN <<Dot>> \o m.key ELSE <<>>),
     headers |-> [h \in (IF m.keyed THEN {"routing_keys"} ELSE {})
                         \cup (IF m.named THEN {"exchange_name"} ELSE {}) |->
                    IF h = "routing_keys" THEN List(<<Str(m.key)>>)
                    ELSE Str(m.exchange)],
     meant |-> m]

ASSUME PipelineAssumption ==
    \A deliveries \in Streams : \A d \in deliveries :
        /\ d.key \in Characters
        /\ \A h \in DOMAIN d.headers : IsHeader(d.headers[h])
        /\ "meant" \in DOMAIN d => IsMessage(d.meant) /\ d = Event(d.meant)

\* The name can be told from the rest of the key: the message's key is known and was
\* appended, or it was not and the name does not look as if it had been.
IsPlain(m) ==
    IF m.appended THEN m.keyed /\ m.key # <<>> /\ m.name # <<>>
    ELSE ~(m.keyed /\ m.key # <<>> /\ IsStrictSuffix(<<Dot>> \o m.key, m.name))

HasTrimmedNames(m) == \A s \in {m.name, m.key, m.exchange} : Trim(s) = s

\* What an event of a message is reported as, unless the names begin or end with blanks.
\* The exchange of a publish event is the message's, with dots and all, exactly where a
\* header says it or IsPlain holds, but the default exchange is never reported as such;
\* the queue of a deliver event is the message's exactly where IsPlain holds. Without
\* that header, a deliver event does not tell the exchange: it is reported as unknown,
\* or as a beginning of the queue's name. The routing key is the message's if a header
\* says it, and the whole key of the event otherwise (parser.go:240, parser.go:289).
NamesRecovered ==
    \A i \in DOMAIN handled :
        "meant" \in DOMAIN handled[i] /\ HasTrimmedNames(handled[i].meant) =>
        LET m == handled[i].meant
            t == rendered[i]
            said == m.named /\ m.exchange # <<>>
        IN  /\ m.type = Publish =>
                  /\ t.exchange = m.exchange <=> said \/ (IsPlain(m) /\ m.exchange # <<>>)
                  /\ t.destinations = <<>>
            /\ m.type = Deliver =>
                  /\ Len(t.destinations) = 1
                  /\ t.destinations[1].queue = m.name <=> IsPlain(m)
                  /\ IF said THEN t.exchange = m.exchange
                     ELSE t.exchange = UnknownExchange \/ IsPrefix(t.exchange, m.name)
            /\ t.routingKey = IF m.keyed /\ m.key # <<>> THEN m.key ELSE handled[i].key

\* A trace goes to each pair of queue and binding key that the header lists, once,
\* unless a bar in them makes two pairs alike (parser.go:330).
DestinationsKept ==
    \A i \in DOMAIN handled : "destinations" \in DOMAIN handled[i].headers =>
        LET listed == Range(parseDestinationList(handled[i].headers["destinations"]))
            kept == rendered[i].destinations
        IN  /\ Range(kept) \subseteq listed
            /\ Len(kept) = Cardinality(Range(kept))
            /\ (\A d \in listed : ~Contains(d.queue, Bar)) => Range(kept) = listed

================================================================================
