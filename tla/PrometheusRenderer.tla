---------------------------- MODULE PrometheusRenderer ----------------------------
(***************************************************************************)
(* internal/output/prometheus.go: the renderer behind --output=prometheus. *)
(* The goroutine of Service.Run counts traces into three maps and closes   *)
(* the renderer at the end; net/http answers each scrape of /metrics in a  *)
(* goroutine of its own. They exclude each other by the mutex mu, and here *)
(* every increment and every part of an answer is a step, so that what mu  *)
(* protects is not assumed. A label missing from a map counts 0: a scrape  *)
(* leaves it out, and Prometheus takes it for the same. What the scrapes   *)
(* are promised is in Counter; the mapping is at the end.                  *)
(*                                                                         *)
(* The renderer is closed once, by Service.Run, so the early return on     *)
(* closed is left out; so is the printing without a server: config.go:170  *)
(* refuses this format without an address. A trace's destinations are one  *)
(* list here, though RenderTrace falls back to the event's: service.go     *)
(* sets both alike. And its event type is in the lower case in which the   *)
(* parser gives it.                                                        *)
(***************************************************************************)
EXTENDS Integers, Sequences, FiniteSets

CONSTANTS
    Scrapes,     \* requests for /metrics
    Stalled,     \* those whose client stops reading before the answer is out
    Traces,      \* the traces Service.Run renders
    MaxTraces    \* bound on their number

ASSUME PrometheusAssumption ==
    /\ IsFiniteSet(Scrapes)
    /\ Scrapes \cap {"nobody", "run"} = {}
    /\ Stalled \subseteq Scrapes
    /\ Traces \subseteq [exchange : STRING, eventType : STRING, queues : Seq(STRING)]
    /\ MaxTraces \in Nat

VARIABLES
    mu,          \* who holds the mutex: Nobody, Run, or a scrape
    events, deliveries, unrouted, \* eventsByExchangeType, deliveriesByExchangeQ, ...
    run,         \* control of the goroutine of Service.Run
    trace,       \* the trace it is counting
    at,          \* and the index of the next destination
    scrape,      \* scrape[s]: control of serveMetrics
    page,        \* page[s]: the answer as far as it has been put together
    rendered,    \* history: the traces counted, the one being counted included
    asked        \* history: asked[s]: how many had been counted when s began

counters == <<events, deliveries, unrouted>>
vars == <<mu, counters, run, trace, at, scrape, page, rendered, asked>>

Nobody == "nobody"
Run == "run"

--------------------------------------------------------------------------------
\* The labels a trace is counted under; the fallbacks are the code's.
ExchangeOf(t) == IF t.exchange = "" THEN "(unknown-exchange)" ELSE t.exchange
TypeOf(t) == IF t.eventType = "" THEN "unknown" ELSE t.eventType
QueueOf(q) == IF q = "" THEN "(unknown-queue)" ELSE q

Exchanges == {ExchangeOf(t) : t \in Traces}
Types == {TypeOf(t) : t \in Traces}
Queues == UNION {{QueueOf(t.queues[i]) : i \in DOMAIN t.queues} : t \in Traces}

Unrouted(t) == t.queues = <<>> /\ TypeOf(t) = "publish"

\* From the moment Close has the mutex; and main returns after Close, and all
\* goroutines end with the process.
Stopped == run \in {"shutdown", "returned", "exited"}
Alive == run # "exited"

Zero == [events |-> [l \in Exchanges \X Types |-> 0],
         deliveries |-> [l \in Exchanges \X Queues |-> 0],
         unrouted |-> [e \in Exchanges |-> 0]]

TypeOK ==
    /\ mu \in {Nobody, Run} \cup Scrapes
    /\ events \in [Exchanges \X Types -> Nat]
    /\ deliveries \in [Exchanges \X Queues -> Nat]
    /\ unrouted \in [Exchanges -> Nat]
    /\ run \in {"loop", "lock", "event", "unrouted", "queues", "close", "shutdown",
                "returned", "exited"}
    /\ trace \in Traces
    /\ at \in 1..(Len(trace.queues) + 1)
    /\ scrape \in [Scrapes -> {"none", "lock", "events", "deliveries", "unrouted",
                               "write", "done"}]
    /\ rendered \in Seq(Traces) /\ Len(rendered) <= MaxTraces
    /\ asked \in [Scrapes -> 0..MaxTraces]

Init ==
    /\ mu = Nobody
    /\ events = Zero.events
    /\ deliveries = Zero.deliveries
    /\ unrouted = Zero.unrouted
    /\ run = "loop"
    /\ trace \in Traces
    /\ at = 1
    /\ scrape = [s \in Scrapes |-> "none"]
    /\ page = [s \in Scrapes |-> Zero]
    /\ rendered = <<>>
    /\ asked = [s \in Scrapes |-> 0]

--------------------------------------------------------------------------------
(* RenderTrace. *)

RenderTrace ==
    /\ run = "loop"
    /\ Len(rendered) < MaxTraces
    /\ trace' \in Traces
    /\ at' = 1
    /\ run' = "lock"
    /\ UNCHANGED <<mu, counters, scrape, page, rendered, asked>>

RenderLock ==
    /\ run = "lock"
    /\ mu = Nobody
    /\ mu' = Run
    /\ run' = "event"
    /\ rendered' = Append(rendered, trace)
    /\ UNCHANGED <<counters, trace, at, scrape, page, asked>>

CountEvent ==
    /\ run = "event"
    /\ events' = [events EXCEPT ![<<ExchangeOf(trace), TypeOf(trace)>>] = @ + 1]
    /\ run' = "unrouted"
    /\ UNCHANGED <<mu, deliveries, unrouted, trace, at, scrape, page, rendered, asked>>

\* Seeded fault: the mutex is released before the destinations are counted.
CountUnrouted_ReleasesMutex ==
    /\ run = "unrouted"
    /\ unrouted' = IF Unrouted(trace)
                   THEN [unrouted EXCEPT ![ExchangeOf(trace)] = @ + 1]
                   ELSE unrouted
    /\ mu' = Nobody
    /\ run' = "queues"
    /\ UNCHANGED <<events, deliveries, trace, at, scrape, page, rendered, asked>>

CountUnrouted ==
    /\ run = "unrouted"
    /\ unrouted' = IF Unrouted(trace)
                   THEN [unrouted EXCEPT ![ExchangeOf(trace)] = @ + 1]
                   ELSE unrouted
    /\ run' = "queues"
    /\ UNCHANGED <<mu, events, deliveries, trace, at, scrape, page, rendered, asked>>

CountDelivery ==
    /\ run = "queues"
    /\ at <= Len(trace.queues)
    /\ LET label == <<ExchangeOf(trace), QueueOf(trace.queues[at])>>
       IN  deliveries' = [deliveries EXCEPT ![label] = @ + 1]
    /\ at' = at + 1
    /\ UNCHANGED <<mu, events, unrouted, run, trace, scrape, page, rendered, asked>>

\* Seeded fault: the mutex is not released.
RenderReturn_KeepsMutex ==
    /\ run = "queues"
    /\ at > Len(trace.queues)
    /\ run' = "loop"
    /\ UNCHANGED <<mu, counters, trace, at, scrape, page, rendered, asked>>

RenderReturn ==
    /\ run = "queues"
    /\ at > Len(trace.queues)
    /\ mu' = Nobody
    /\ run' = "loop"
    /\ UNCHANGED <<counters, trace, at, scrape, page, rendered, asked>>

Count == RenderLock \/ CountEvent \/ CountUnrouted \/ CountDelivery \/ RenderReturn

--------------------------------------------------------------------------------
(* serveMetrics, one goroutine per scrape. *)

\* A scrape is accepted, until Shutdown closes the listener (external).
Ask(s) ==
    /\ scrape[s] = "none"
    /\ ~Stopped
    /\ scrape' = [scrape EXCEPT ![s] = "lock"]
    /\ asked' = [asked EXCEPT ![s] = Len(rendered) - (IF mu = Run THEN 1 ELSE 0)]
    /\ UNCHANGED <<mu, counters, run, trace, at, page, rendered>>

At(s, stage) == Alive /\ scrape[s] = stage

\* Seeded fault: the maps are read without the mutex.
ScrapeLock_Unlocked(s) ==
    /\ At(s, "lock")
    /\ scrape' = [scrape EXCEPT ![s] = "events"]
    /\ UNCHANGED <<mu, counters, run, trace, at, page, rendered, asked>>

ScrapeLock(s) ==
    /\ At(s, "lock")
    /\ mu = Nobody
    /\ mu' = s
    /\ scrape' = [scrape EXCEPT ![s] = "events"]
    /\ UNCHANGED <<counters, run, trace, at, page, rendered, asked>>

Put(s, from, to, answer) ==
    /\ At(s, from)
    /\ page' = [page EXCEPT ![s] = answer]
    /\ scrape' = [scrape EXCEPT ![s] = to]
    /\ UNCHANGED <<mu, counters, run, trace, at, rendered, asked>>

PutEvents(s) == Put(s, "events", "deliveries", [page[s] EXCEPT !.events = events])
PutDeliveries(s) ==
    Put(s, "deliveries", "unrouted", [page[s] EXCEPT !.deliveries = deliveries])
PutUnrouted(s) == Put(s, "unrouted", "write", [page[s] EXCEPT !.unrouted = unrouted])

\* The answer is written with mu held and without a deadline. A client that does
\* not read holds the write up as soon as the answer outgrows what the connection
\* buffers; Stalled names the clients for which that happens.
Write(s) ==
    /\ At(s, "write")
    /\ s \notin Stalled
    /\ mu' = Nobody
    /\ scrape' = [scrape EXCEPT ![s] = "done"]
    /\ UNCHANGED <<counters, run, trace, at, page, rendered, asked>>

Answer(s) == PutEvents(s) \/ PutDeliveries(s) \/ PutUnrouted(s) \/ Write(s)

--------------------------------------------------------------------------------
(* Close: it keeps mu until it returns, while Shutdown waits for the scrapes. *)

Active(s) == scrape[s] \notin {"none", "done"}

CallClose ==
    /\ run = "loop"
    /\ run' = "close"
    /\ UNCHANGED <<mu, counters, trace, at, scrape, page, rendered, asked>>

CloseLock ==
    /\ run = "close"
    /\ mu = Nobody
    /\ mu' = Run
    /\ run' = "shutdown"
    /\ UNCHANGED <<counters, trace, at, scrape, page, rendered, asked>>

CloseReturn ==
    /\ run = "shutdown"
    /\ mu' = Nobody
    /\ run' = "returned"
    /\ UNCHANGED <<counters, trace, at, scrape, page, rendered, asked>>

\* Seeded fault: Shutdown waits without a deadline.
ShutdownTimesOut_Never == FALSE

ShutdownCompletes == CloseReturn /\ \A s \in Scrapes : ~Active(s)
ShutdownTimesOut == CloseReturn /\ \E s \in Scrapes : Active(s)

Close == CloseLock \/ ShutdownCompletes \/ ShutdownTimesOut

\* Run returns when Close has, and with it main.
Exit ==
    /\ run = "returned"
    /\ run' = "exited"
    /\ UNCHANGED <<mu, counters, trace, at, scrape, page, rendered, asked>>

Terminated == ~Alive /\ UNCHANGED vars

--------------------------------------------------------------------------------
Next ==
    \/ RenderTrace \/ Count
    \/ CallClose \/ Close \/ Exit \/ Terminated
    \/ \E s \in Scrapes : Ask(s) \/ ScrapeLock(s) \/ Answer(s)

Spec == Init /\ [][Next]_vars

\* Goroutines run on, and sync.Mutex is not taken past a waiter forever.
\* Nothing makes a trace arrive, a scrape come, or the process stop; after Close,
\* it may end at any moment.
Fairness ==
    /\ WF_vars(CountEvent \/ CountUnrouted \/ CountDelivery \/ RenderReturn)
    /\ SF_vars(RenderLock)
    /\ SF_vars(CloseLock)
    /\ WF_vars(ShutdownCompletes \/ ShutdownTimesOut)
    /\ \A s \in Scrapes : SF_vars(ScrapeLock(s)) /\ WF_vars(Answer(s))

FairSpec == Spec /\ Fairness

--------------------------------------------------------------------------------
\* What the maps are after the first k of some traces.
AmountOf(traces, k) ==
    [events |-> [l \in Exchanges \X Types |->
        Cardinality({i \in 1..k : l = <<ExchangeOf(traces[i]), TypeOf(traces[i])>>})],
     deliveries |-> [l \in Exchanges \X Queues |->
        Cardinality({p \in UNION {{i} \X DOMAIN traces[i].queues : i \in 1..k} :
            l = <<ExchangeOf(traces[p[1]]), QueueOf(traces[p[1]].queues[p[2]])>>})],
     unrouted |-> [e \in Exchanges |->
        Cardinality({i \in 1..k : Unrouted(traces[i]) /\ ExchangeOf(traces[i]) = e})]]

Amount(traces) == AmountOf(traces, Len(traces))
After(k) == AmountOf(rendered, k)

\* A scrape shows the counters as they were between two traces, at some moment
\* between its request and its answer: no half-counted trace, none that was
\* counted before the scrape began left out. Of two scrapes one after the other,
\* the later therefore never shows a counter lower than the earlier
\* (prometheus.go:72, 106).
ScrapesAreAtomic ==
    \A s \in Scrapes :
        scrape[s] = "done" => \E k \in asked[s]..Len(rendered) : page[s] = After(k)

\* Close returns once Run has called it, whichever scrapes are under way: the ones
\* that wait for the mutex Close holds are given up at the timeout.
CloseReturns == (run = "close") ~> (run = "returned")

\* Every scrape whose client reads is answered, however many traces and scrapes keep
\* the mutex busy, unless Close gets it first: it keeps it until Shutdown gives up
\* those that wait, and after that the process ends (prometheus.go:171, main.go:44).
ScrapesAreAnswered ==
    \A s \in Scrapes :
        (scrape[s] = "lock") ~> (scrape[s] = "done" \/ (Stopped /\ scrape[s] = "lock"))

\* docs/architecture.md:81: "Context cancellation exits cleanly." For this
\* renderer: the Close that Run defers comes to an end.
CancellationExits == (run = "close") ~> (run = "returned")

--------------------------------------------------------------------------------
(* Refinement *)

Waiting == {s \in Scrapes : Active(s)}
Answers == [s \in {r \in Scrapes : scrape[r] = "done"} |-> page[s]]

\* With its mutex, its maps and a goroutine for each scrape, the renderer is one
\* counter that counts whole traces: a trace is counted when its RenderTrace has
\* locked the mutex, and an answer shows all traces counted when it is written
\* (prometheus.go:74, prometheus.go:108).
CounterView == INSTANCE Counter WITH
    counted <- rendered, stopped <- Stopped,
    waiting <- Waiting, answers <- Answers

ImplementsCounter == CounterView!Spec

================================================================================
