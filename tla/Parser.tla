---------------------------------- MODULE Parser ----------------------------------
(***************************************************************************)
(* internal/parser/parser.go: what the parser reads out of a delivery of   *)
(* the firehose, from its headers and, where they are silent, from its     *)
(* routing key.                                                            *)
(*                                                                         *)
(* The headers are a function from the names that are present to values; a *)
(* table that is nil reads like an empty one. A value has a kind (a string *)
(* or not), the text that stringFromAny makes of it and, in a list, its    *)
(* items, in a table, its fields. The Go types []string and map[string]any *)
(* do not come from the wire. Message identifiers, time and body, which    *)
(* are only passed on, are left out.                                       *)
(***************************************************************************)
EXTENDS Text

UnknownExchange == <<40, 120>>  \* "(unknown-exchange)"

--------------------------------------------------------------------------------
(* Headers *)

\* What the AMQP library decodes into a header's value or an item of a list.
IsValue(value) ==
    /\ value.text \in Characters
    /\ value.kind = "table" =>
          \A f \in DOMAIN value.fields : value.fields[f].text \in Characters

IsHeader(value) ==
    /\ IsValue(value)
    /\ value.kind = "list" =>
          /\ value.items \in Seq(Range(value.items))
          /\ \A item \in Range(value.items) : IsValue(item)

stringFromAny(value) == value.text

headerString(headers, keys) ==
    firstNonEmpty([i \in DOMAIN keys |-> IF keys[i] \in DOMAIN headers
                                         THEN stringFromAny(headers[keys[i]]) ELSE <<>>])

parseStringSliceFirst(value) ==
    IF value.kind = "list"
    THEN firstNonEmpty([i \in DOMAIN value.items |-> stringFromAny(value.items[i])])
    ELSE <<>>

parseRoutingKey(headers) ==
    LET key == headerString(headers, <<"routing_key", "routing-key">>)
    IN  IF key = <<>> /\ "routing_keys" \in DOMAIN headers
        THEN parseStringSliceFirst(headers["routing_keys"]) ELSE key

--------------------------------------------------------------------------------
(* The firehose's routing key: the type of the event, a name, and sometimes the *)
(* routing key of the message. *)

parseEventTypeFromRoutingKey(key) == Trim(FirstWord(Trim(key)))

\* Seeded fault: the routing key is cut off with its first word's dot only.
WithoutKey_FirstWord(rest, key) == IF key = <<>> THEN rest ELSE FirstWord(rest)

\* What is left of a name when the message's routing key is cut off its end, or
\* the name if it does not end so or nothing is left.
WithoutKey(rest, key) ==
    LET suffix == <<Dot>> \o key
        candidate == Trim(SubSeq(rest, 1, Len(rest) - Len(suffix)))
    IN  IF key # <<>> /\ IsSuffix(suffix, rest) /\ candidate # <<>>
        THEN candidate ELSE rest

parseExchangeFromFirehoseRoutingKey(firehoseKey, eventType, key) ==
    LET trimmed == Trim(firehoseKey)
        prefix == eventType \o <<Dot>>
        rest == Trim(SubSeq(trimmed, Len(prefix) + 1, Len(trimmed)))
    IN  IF eventType = <<>> \/ ~IsPrefix(prefix, trimmed)
        THEN Trim(FirstWord(AfterFirstWord(trimmed)))
        ELSE IF eventType = Publish \/ WithoutKey(rest, key) # rest
             THEN WithoutKey(rest, key)
             ELSE Trim(FirstWord(rest))

parseDeliverQueueFromFirehoseRoutingKey(firehoseKey, key) ==
    LET trimmed == Trim(firehoseKey)
        prefix == Deliver \o <<Dot>>
        rest == IF IsPrefix(prefix, trimmed)
                THEN Trim(SubSeq(trimmed, Len(prefix) + 1, Len(trimmed))) ELSE trimmed
    IN  WithoutKey(rest, key)

--------------------------------------------------------------------------------
(* Destinations *)

To(queue, binding) == [queue |-> queue, binding |-> binding]

parseDestinationEntry(value) ==
    CASE value.kind = "nil" -> To(<<>>, <<>>)
      [] value.kind = "table" ->
            To(headerString(value.fields, <<"queue_name", "queue">>),
               headerString(value.fields, <<"binding_key", "binding-key">>))
      [] value.kind = "string" -> To(Trim(value.text), <<>>)

parseDestinationList(value) ==
    LET entries == IF value.kind = "string" THEN <<parseDestinationEntry(value)>>
                   ELSE [i \in DOMAIN value.items |-> parseDestinationEntry(value.items[i])]
    IN  Elements(entries, {i \in DOMAIN entries : entries[i].queue # <<>>})

\* The header "destinations" is neither a string nor a list of strings and tables.
ParseFails(headers) ==
    /\ "destinations" \in DOMAIN headers
    /\ LET value == headers["destinations"] IN
       \/ value.kind \notin {"string", "list"}
       \/ /\ value.kind = "list"
          /\ \E i \in DOMAIN value.items :
                value.items[i].kind \notin {"nil", "table", "string"}

parseDestinations(headers, eventType, firehoseKey, key) ==
    LET queue == headerString(headers, <<"queue_name", "queue", "destination_queue">>)
        delivered == parseDeliverQueueFromFirehoseRoutingKey(firehoseKey, key)
    IN  IF "destinations" \in DOMAIN headers
        THEN parseDestinationList(headers["destinations"])
        ELSE IF queue # <<>>
        THEN <<To(queue, headerString(headers, <<"binding_key", "binding-key">>))>>
        ELSE IF eventType = Deliver /\ delivered # <<>>
        THEN <<To(delivered, <<>>)>>
        ELSE <<>>

\* Seeded fault: one destination per queue.
DestinationKey_QueueOnly(d) == d.queue

DestinationKey(d) == d.queue \o <<Bar>> \o d.binding

\* The destinations whose key none before them has.
dedupeDestinations(destinations) ==
    Elements(destinations, {i \in DOMAIN destinations : \A j \in 1..(i - 1) :
                DestinationKey(destinations[j]) # DestinationKey(destinations[i])})

--------------------------------------------------------------------------------
\* The trace of a delivery whose headers do not make the parser fail.
ParseDelivery(delivery) ==
    LET headers == delivery.headers
        key == parseRoutingKey(headers)
        eventType == firstNonEmpty(<<headerString(headers, <<"event_type", "event-type", "event">>),
                                     parseEventTypeFromRoutingKey(delivery.key)>>)
    IN  [exchange |-> firstNonEmpty(
            <<headerString(headers, <<"exchange_name", "exchange", "x-exchange", "exchange-name">>),
              parseExchangeFromFirehoseRoutingKey(delivery.key, eventType, key),
              UnknownExchange>>),
         eventType |-> eventType,
         routingKey |-> firstNonEmpty(<<key, delivery.key>>),
         destinations |-> dedupeDestinations(
            parseDestinations(headers, eventType, delivery.key, key))]

================================================================================
