---------------------------------- MODULE Reports ----------------------------------
(***************************************************************************)
(* The renderers that keep counts and print, draw or send them: the graph  *)
(* of internal/graph/graph.go (--output=dot and =mermaid), the summary of  *)
(* internal/output/summary.go, the graph that a browser keeps in           *)
(* internal/web/page.html, and the metrics of internal/output/statsd.go.   *)
(* One inspector has one renderer; here all are given the same traces, so  *)
(* that their answers can be compared.                                     *)
(*                                                                         *)
(* Names are trimmed and an exchange's is not empty, as the parser leaves  *)
(* them. A map to counts is a function from the names that were counted.   *)
(* The mutexes are not modelled: one goroutine calls these renderers.      *)
(***************************************************************************)
EXTENDS Text

CONSTANTS
    MaxTraces,  \* bound on how many are rendered
    TopN        \* lines per table of the summary, 10 in the code

ASSUME ReportsAssumption == MaxTraces \in Nat /\ TopN \in Nat \ {0}

VARIABLES
    graph,      \* Graph: exchanges, queues, edges
    summary,    \* the counting fields of summaryRenderer
    page,       \* exchanges, queues and edges of page.html
    metrics,    \* the datagrams sent to StatsD
    failed,     \* sending one has failed
    closed,     \* field of the renderers
    report,     \* the tables that Close prints of the summary
    drawing,    \* what Close prints of the graph, as DOT and as Mermaid
    rendered    \* history

reportVars == <<graph, summary, page, metrics, failed, closed, report, drawing, rendered>>

UnroutedQueue == <<40, 117>>    \* "(unrouted)"
UnknownQueue == <<40, 113>>     \* "(unknown-queue)"
NoKey == <<40, 107>>            \* "(no-key)"

OrElse(name, fallback) == firstNonEmpty(<<name, fallback>>)

NoCounts == <<>>

CountOf(x, counts) == IF x \in DOMAIN counts THEN counts[x] ELSE 0

\* counts, when each element of seq has been counted.
AddAll(counts, seq) ==
    [x \in DOMAIN counts \cup Range(seq) |->
        CountOf(x, counts) + Cardinality({i \in DOMAIN seq : seq[i] = x})]

NoGraph == [exchanges |-> {}, queues |-> {}, edges |-> NoCounts]

--------------------------------------------------------------------------------
(* graph.go *)

Edge(t, d) ==
    [from |-> t.exchange, to |-> OrElse(d.queue, UnknownQueue),
     label |-> firstNonEmpty(<<d.binding, t.routingKey, NoKey>>)]

Unrouted == <<[queue |-> UnroutedQueue, binding |-> <<>>]>>

\* Seeded fault: only the first destination is counted.
Reached_FirstOnly(t) == IF t.destinations = <<>> THEN Unrouted ELSE <<Head(t.destinations)>>

Reached(t) == IF t.destinations = <<>> THEN Unrouted ELSE t.destinations

AddTrace(g, t) ==
    LET new == [i \in DOMAIN Reached(t) |-> Edge(t, Reached(t)[i])]
    IN  [exchanges |-> g.exchanges \cup {t.exchange},
         queues |-> g.queues \cup {e.to : e \in Range(new)},
         edges |-> AddAll(g.edges, new)]

\* Go's order of strings.
Less(a, b) ==
    \/ IsStrictPrefix(a, b)
    \/ \E i \in DOMAIN a \cap DOMAIN b :
          a[i] < b[i] /\ \A j \in 1..(i - 1) : a[j] = b[j]

mapKeys(names) == Sorted(names, Less)

Edges(g) ==
    Sorted(DOMAIN g.edges, LAMBDA e, f :
        \/ Less(e.from, f.from)
        \/ e.from = f.from /\ Less(e.to, f.to)
        \/ e.from = f.from /\ e.to = f.to /\ Less(e.label, f.label))

escape(s) ==
    FlattenSeq([i \in DOMAIN s |-> IF s[i] \in {Backslash, Quote}
                                   THEN <<Backslash, s[i]>> ELSE <<s[i]>>])

\* Seeded fault: capital letters are not taken for letters.
mermaidID_LowerCase(s) ==
    [i \in DOMAIN s |-> IF s[i] \in 97..122 \cup 48..57 THEN s[i] ELSE Underscore]

mermaidID(s) == Identifier(s)

ExchangeId == <<101>>   \* "ex:" and "ex_"
QueueId == <<113>>      \* "q:" and "q_"

Names(g) == g.exchanges \cup g.queues \cup {e.label : e \in DOMAIN g.edges}

\* A drawing: nodes with identifier and label, and edges between identifiers.
Drawing(g, exchangeId, queueId, label) ==
    LET Arrow(e) == [from |-> exchangeId[e.from], to |-> queueId[e.to],
                     label |-> label[e.label], count |-> CountOf(e, g.edges)]
        exchanges == mapKeys(g.exchanges)
        queues == mapKeys(g.queues)
    IN  [nodes |-> [i \in DOMAIN exchanges |-> [id |-> exchangeId[exchanges[i]],
                                                label |-> label[exchanges[i]]]]
                   \o [i \in DOMAIN queues |-> [id |-> queueId[queues[i]],
                                                label |-> label[queues[i]]]],
         edges |-> [i \in DOMAIN Edges(g) |-> Arrow(Edges(g)[i])]]

DOT(g) == Drawing(g, [n \in g.exchanges |-> escape(ExchangeId \o <<58>> \o n)],
                     [n \in g.queues |-> escape(QueueId \o <<58>> \o n)],
                     [n \in Names(g) |-> escape(n)])

\* Labels are written as they are, but for quotation marks.
Mermaid(g) ==
    Drawing(g, [n \in g.exchanges |-> mermaidID(ExchangeId \o <<Underscore>> \o n)],
               [n \in g.queues |-> mermaidID(QueueId \o <<Underscore>> \o n)],
               [n \in Names(g) |-> n])

--------------------------------------------------------------------------------
(* summary.go *)

EmptySummary ==
    [total |-> 0, publish |-> 0, deliver |-> 0, unrouted |-> 0,
     exchanges |-> NoCounts, queues |-> NoCounts, routingKeys |-> NoCounts]

One(condition) == IF condition THEN 1 ELSE 0

\* Seeded fault: an event without destinations is unrouted whatever its type.
IsUnrouted_AnyType(t) == t.destinations = <<>>

IsUnrouted(t) == t.destinations = <<>> /\ Lower(t.eventType) = Publish

Summarise(s, t) ==
    [total |-> s.total + 1,
     publish |-> s.publish + One(Lower(t.eventType) = Publish),
     deliver |-> s.deliver + One(Lower(t.eventType) = Deliver),
     unrouted |-> s.unrouted + One(IsUnrouted(t)),
     exchanges |-> AddAll(s.exchanges, <<t.exchange>>),
     queues |-> AddAll(s.queues, [i \in DOMAIN t.destinations |->
                                    OrElse(t.destinations[i].queue, UnknownQueue)]),
     routingKeys |-> AddAll(s.routingKeys,
                            IF t.routingKey = <<>> THEN <<>> ELSE <<t.routingKey>>)]

Before(counts, a, b) ==
    \/ CountOf(a, counts) > CountOf(b, counts)
    \/ CountOf(a, counts) = CountOf(b, counts) /\ Less(a, b)

Cut(entries) == SubSeq(entries, 1, Min({TopN, Len(entries)}))

\* Seeded fault: the table is cut before it is sorted.
writeTopN_CutFirst(counts) ==
    Sorted(Range(Cut(SetToSeq(DOMAIN counts))), LAMBDA a, b : Before(counts, a, b))

writeTopN(counts) ==
    Cut(Sorted(DOMAIN counts, LAMBDA a, b : Before(counts, a, b)))

--------------------------------------------------------------------------------
(* page.html *)

\* The key of an edge: its three parts, joined by bars.
PageKey(from, to, label) == from \o <<Bar>> \o to \o <<Bar>> \o label

\* The edge drawn for a key: its first three parts between bars.
PageEdge(key) ==
    LET bars == Ascending({i \in DOMAIN key : key[i] = Bar}) \o <<Len(key) + 1>>
    IN  [from |-> SubSeq(key, 1, bars[1] - 1),
         to |-> SubSeq(key, bars[1] + 1, bars[2] - 1),
         label |-> SubSeq(key, bars[2] + 1, bars[3] - 1)]

updateGraph(p, t) ==
    LET Key(d) == PageKey(t.exchange, OrElse(d.queue, UnknownQueue),
                          OrElse(d.binding, OrElse(t.routingKey, NoKey)))
        unrouted == PageKey(t.exchange, UnroutedQueue, OrElse(t.routingKey, NoKey))
    IN  [exchanges |-> p.exchanges \cup {t.exchange},
         queues |-> p.queues \cup
             IF t.destinations = <<>> THEN {UnroutedQueue}
             ELSE {OrElse(d.queue, UnknownQueue) : d \in Range(t.destinations)},
         edges |-> AddAll(p.edges,
             IF t.destinations = <<>> THEN <<unrouted>>
             ELSE [i \in DOMAIN t.destinations |-> Key(t.destinations[i])])]

--------------------------------------------------------------------------------
(* statsd.go *)

UnknownSegment == <<40>>    \* "unknown"

sanitizeStatsd(s) == Identifier(s)

Segment(name) == IF sanitizeStatsd(name) = <<>> THEN UnknownSegment ELSE sanitizeStatsd(name)

Metric(kind, names) == [kind |-> kind, names |-> names]

Events(t) == <<Metric("events", <<Segment(t.exchange), Segment(t.eventType)>>)>>

Outcome(t) ==
    IF IsUnrouted(t) THEN <<Metric("unrouted", <<Segment(t.exchange)>>)>>
    ELSE [i \in DOMAIN t.destinations |->
            Metric("deliveries", <<Segment(t.exchange), Segment(t.destinations[i].queue)>>)]

\* Seeded fault: the event is counted after what became of it.
Metrics_EventLast(t) == Outcome(t) \o Events(t)

\* The counters that a trace increments, in the order in which they are sent.
Metrics(t) == Events(t) \o Outcome(t)

--------------------------------------------------------------------------------
Nothing == [nodes |-> <<>>, edges |-> <<>>]

Init ==
    /\ graph = NoGraph
    /\ summary = EmptySummary
    /\ page = NoGraph
    /\ metrics = NoCounts
    /\ failed = FALSE
    /\ closed = FALSE
    /\ report = [exchanges |-> <<>>, queues |-> <<>>, routingKeys |-> <<>>]
    /\ drawing = [dot |-> Nothing, mermaid |-> Nothing]
    /\ rendered = <<>>

Rendering == ~closed /\ ~failed /\ Len(rendered) < MaxTraces

RenderTrace(t) ==
    /\ Rendering
    /\ graph' = AddTrace(graph, t)
    /\ summary' = Summarise(summary, t)
    /\ page' = updateGraph(page, t)
    /\ metrics' = AddAll(metrics, Metrics(t))
    /\ rendered' = Append(rendered, t)
    /\ UNCHANGED <<failed, closed, report, drawing>>

\* Sending a metric of the trace fails, such as with a refused port that is reported
\* for an earlier one: the rest is not sent, and the service stops. The other
\* renderers have no step here.
RenderFails(t) ==
    /\ Rendering
    /\ \E sent \in 0..(Len(Metrics(t)) - 1) :
          metrics' = AddAll(metrics, SubSeq(Metrics(t), 1, sent))
    /\ failed' = TRUE
    /\ UNCHANGED <<graph, summary, page, closed, report, drawing, rendered>>

\* Close prints once; a second Close, and a RenderTrace after the first, do not
\* come from Service.Run.
Close ==
    /\ ~closed
    /\ closed' = TRUE
    /\ report' = [exchanges |-> writeTopN(summary.exchanges),
                  queues |-> writeTopN(summary.queues),
                  routingKeys |-> writeTopN(summary.routingKeys)]
    /\ drawing' = [dot |-> DOT(graph), mermaid |-> Mermaid(graph)]
    /\ UNCHANGED <<graph, summary, page, metrics, failed, rendered>>

--------------------------------------------------------------------------------
\* What the counts of some names add up to: a name is there once for each time that
\* it was counted.
Total(names, counts) ==
    Cardinality(UNION {{n} \X (1..counts[n]) : n \in names \cap DOMAIN counts})

All(counts) == Total(DOMAIN counts, counts)

WithoutDestination == {i \in DOMAIN rendered : rendered[i].destinations = <<>>}

\* The graph and the summary count the same: the edges into a queue add up to the
\* summary's count of it, and those into "(unrouted)" to the events that went to no
\* queue (and to a queue of that name), of which the summary's Unrouted are those
\* that are published (graph.go:49, summary.go:62).
GraphAgreesWithSummary ==
    LET Into(q) == Total({e \in DOMAIN graph.edges : e.to = q}, graph.edges)
    IN  /\ \A q \in (graph.queues \cup DOMAIN summary.queues) \ {UnroutedQueue} :
              Into(q) = CountOf(q, summary.queues)
        /\ Into(UnroutedQueue)
              = Cardinality(WithoutDestination) + CountOf(UnroutedQueue, summary.queues)
        /\ summary.unrouted
              = Cardinality({i \in WithoutDestination : Lower(rendered[i].eventType) = Publish})

\* The browser's graph is the one that --output=mermaid prints: the same nodes, as
\* many counts and, as long as no name holds the bar that page.html joins them
\* with, the same edges when it splits them again (page.html:90, page.html:129).
PageAgreesWithGraph ==
    /\ page.exchanges = graph.exchanges
    /\ page.queues = graph.queues
    /\ All(page.edges) = All(graph.edges)
    /\ (\A n \in Names(graph) : ~Contains(n, Bar)) =>
          \A e \in DOMAIN graph.edges \cup {PageEdge(key) : key \in DOMAIN page.edges} :
             Total({key \in DOMAIN page.edges : PageEdge(key) = e}, page.edges)
                = CountOf(e, graph.edges)

IsTop(names, counts) ==
    /\ Len(names) = Min({TopN, Cardinality(DOMAIN counts)})
    /\ Range(names) \subseteq DOMAIN counts
    /\ \A i, j \in DOMAIN names : i < j =>
          names[i] # names[j] /\ CountOf(names[i], counts) >= CountOf(names[j], counts)
    /\ \A n \in DOMAIN counts \ Range(names), i \in DOMAIN names :
          CountOf(names[i], counts) >= CountOf(n, counts)

\* The summary's tables show the names with the highest counts in falling order,
\* and leave none out that counts more than one it shows (summary.go:119).
TablesShowTheTop ==
    closed =>
        /\ IsTop(report.exchanges, summary.exchanges)
        /\ IsTop(report.queues, summary.queues)
        /\ IsTop(report.routingKeys, summary.routingKeys)

\* Between quotation marks, s is read to its end and not beyond: each quotation mark
\* in it follows an odd number of backslashes, and the one after it an even number.
IsQuotable(s) ==
    LET before(i) == Cardinality({j \in 1..(i - 1) : \A k \in j..(i - 1) : s[k] = Backslash})
    IN  /\ \A i \in DOMAIN s : s[i] = Quote => before(i) % 2 = 1
        /\ before(Len(s) + 1) % 2 = 0

Ids(drawn) == {n.id : n \in Range(drawn.nodes)}

\* c is one of the 62 characters that tell names apart in Mermaid: 0 to 9, A to Z, a to z.
IsTelling(c) == (48 <= c /\ c <= 57) \/ (65 <= c /\ c <= 90) \/ (97 <= c /\ c <= 122)

\* a and b are as long, and where they differ neither has one of those.
AreAlike(a, b) ==
    /\ Len(a) = Len(b)
    /\ \A i \in DOMAIN a : a[i] = b[i] \/ ~(IsTelling(a[i]) \/ IsTelling(b[i]))

\* The drawings show the graph: every arrow joins two nodes that are drawn, the
\* counts add up, exchanges and queues are kept apart, DOT has a node of its own for
\* every name and quotes what a backslash or a quotation mark would end, and
\* Mermaid, too, draws every name, but makes one node of two names if they differ in
\* nothing but characters other than the 62. That is all characters of other scripts,
\* so that two Cyrillic names of one length are one node (graph.go:95, graph.go:204).
DrawingsShowTheGraph ==
    closed =>
        /\ \A drawn \in {drawing.dot, drawing.mermaid} :
              /\ \A e \in Range(drawn.edges) : {e.from, e.to} \subseteq Ids(drawn)
              /\ {e.from : e \in Range(drawn.edges)} \cap {e.to : e \in Range(drawn.edges)} = {}
              /\ All([i \in DOMAIN drawn.edges |-> drawn.edges[i].count]) = All(graph.edges)
        /\ Cardinality(Ids(drawing.dot))
              = Cardinality(graph.exchanges) + Cardinality(graph.queues)
        /\ \A n \in Range(drawing.dot.nodes) : IsQuotable(n.id) /\ IsQuotable(n.label)
        /\ \A e \in Range(drawing.dot.edges) : IsQuotable(e.label)
        /\ {n.label : n \in Range(drawing.mermaid.nodes)} = graph.exchanges \cup graph.queues
        /\ \A m, n \in Range(drawing.mermaid.nodes) : m.id = n.id => AreAlike(m.label, n.label)

Sent(S) == Total(S, metrics)
Counting(kind) == {m \in DOMAIN metrics : m.kind = kind}
Into(S, place, name) == {m \in S : m.names[place] = name}
Spelled(counts, name) == Total({n \in DOMAIN counts : Segment(n) = name}, counts)

\* What StatsD was sent is what the summary counts, name by name as StatsD spells
\* it. A trace whose sending fails half way adds no more than one event, and no
\* delivery or unrouted message of an exchange that has no event (statsd.go:60).
StatsdAgreesWithSummary ==
    LET events == Counting("events")
        unrouted == Counting("unrouted")
        deliveries == Counting("deliveries")
        exchanges == {m.names[1] : m \in DOMAIN metrics}
        queues == {m.names[2] : m \in deliveries}
    IN  /\ Sent(events) - summary.total \in 0..One(failed)
        /\ \A x \in exchanges :
              /\ Sent(Into(events, 1, x)) > 0
              /\ Sent(Into(unrouted, 1, x)) <= Sent(Into(events, 1, x))
        /\ ~failed =>
              /\ \A x \in exchanges :
                    Sent(Into(events, 1, x)) = Spelled(summary.exchanges, x)
              /\ \A q \in queues : Sent(Into(deliveries, 2, q)) = Spelled(summary.queues, q)
              /\ Sent(deliveries) = All(summary.queues)
              /\ Sent(unrouted) = summary.unrouted

================================================================================
