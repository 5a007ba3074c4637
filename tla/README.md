# A TLA+ model of amqp-routing-inspector

The inspector connects to RabbitMQ, consumes the firehose exchange, turns each
firehose delivery into a routing trace, filters it, and hands it to one renderer.
It reconnects when the broker goes away, and stops on SIGINT, on SIGTERM, or after
`--max-events` traces. This directory holds TLA+ modules translated from its
source, configurations with which TLC checks them on small instances, and proofs
that TLAPS checks for all values of the constants.

    tlc -config service_safety.cfg MCService.tla     # one model-checking run
    tlapm Service_proofs.tla                         # one module's proofs

`PROJECT.json` lists the components, the runs with their properties, for each
property a seeded fault that it catches, the source lines of each definition, the
findings, the hazards and the theorems.

## 1. Inventory

| Component (source) | State | Operations | Interacts with |
|---|---|---|---|
| main, configuration (`cmd/.../main.go`, `internal/config/config.go`) | the `Config` being filled, the arguments not yet read | `Load`: defaults, `scanConfigPath`, file, environment, flags, `Validate`; exit status | the flag and YAML packages; makes the renderer and the service |
| service (`internal/app/service.go`) | `matchedEvents`; the current session | `Run`, `runSession`, `handleDelivery` | calls the manager, the consumer, the parser, the filter, the renderer; receives from the forwarder and from the AMQP library; reads the context |
| connection manager (`internal/connection/manager.go`) | the delay of the current call | `ConnectWithRetry`, `nextBackoff` | dials; waits on a timer and the context |
| firehose consumer (`internal/firehose/consumer.go`) | per session: an AMQP channel, a library stream, the unbuffered stream `out`, one forwarder goroutine | `Consume`, the forwarder's loop, `cleanup` (once) | the AMQP library and the broker; the service, through `out` |
| event parser (`internal/parser/parser.go`) | none | `ParseDelivery` | called by the service |
| filter (`internal/filter/matcher.go`) | the patterns | `Match` | called by the service |
| web renderer (`internal/output/web.go`, `internal/web/page.html`) | `closed`, the clients' channels, a mutex; one goroutine per browser; the page's own graph | `RenderTrace`, `Close`, `serveSSE`; the page's `updateGraph` | net/http; called by the service |
| prometheus renderer (`internal/output/prometheus.go`) | three maps of counters, `closed`, a mutex; one goroutine per scrape | `RenderTrace`, `Close`, `serveMetrics` | net/http; called by the service |
| routing graph, dot and mermaid renderers (`internal/graph/graph.go`, `internal/output/renderer.go`, `mermaid.go`) | nodes, edges with counts | `AddTrace`, drawing at `Close` | called by the service |
| summary renderer (`internal/output/summary.go`) | counters and three maps | `RenderTrace`, tables at `Close` | called by the service |
| statsd renderer (`internal/output/statsd.go`) | a UDP socket | `RenderTrace`: a datagram per metric | called by the service |
| cli, json renderers (`internal/output/renderer.go`) | none | one line per trace | called by the service |

What is hard in it:

* **Concurrency.** In each session the broker, the library, the forwarder and the
  goroutine of `Run` run side by side; the forwarder of a session that was given up
  runs beside the next session until it notices. The select statements of the
  forwarder, the session loop and the dial loop race an interrupt against data,
  timers and the end of a connection. HTTP goroutines share maps with the goroutine
  of `Run`, and `Close` waits for them while it holds the mutex.
* **Failure.** The connection, the channel or the consumer may end at any moment,
  also between the five calls that set a session up. Each path through `Run` has
  to release what it acquired and to come out as a retry, a success or an error. A
  trace may reach StatsD in part.
* **Order.** Four layers of settings are merged before anything is checked, and the
  arguments are read twice by different rules.
* **Boundaries.** The event limit across reconnections, the full buffer of a slow
  browser, the doubling of a 64-bit delay, empty words in topic patterns.
* **Names.** They come from the traffic, and are cut out of routing keys, joined into
  map keys, and drawn between quotation marks.
* **Limits in time.** Back-off, the five seconds of `Shutdown`, blocking writes.

What makes each component correct is listed with its module in section 3; the
places where it could go wrong are the `hazards` of `PROJECT.json`.

## 2. Modules

    Config                   start-up, up to the renderer and the exit status
        (what it guarantees is what ConnectionManager and Service assume)

    TraceStream              what a run promises, in three variables
        ^ implements
    Service  --EXTENDS-->    Firehose
        |----INSTANCE--->    ConnectionManager

    Pipeline --EXTENDS-->    Parser     a delivery becomes a trace
        |----EXTENDS---->    Reports    traces become counts, tables, drawings, metrics

    Filter                   the matcher, a pure algorithm

    Broadcast                what the web view promises its browsers
        ^ implements
    WebRenderer              the renderer with browsers

    Counter                  what the metrics promise to those who scrape them
        ^ implements
    PrometheusRenderer       the renderer with scrapes

    Text                     strings as sequences of character codes; EXTENDed by
                             Parser, Reports and Config
    MCx                      constants for TLC, one for each checked module
    x_proofs                 theorems about x; Lemmas has what they share

`Service` composes the goroutines: its `Next` has the steps of `Run`, in which
those of the dial loop are `ConnectionManager`'s and those of `Consume` are
`Firehose`'s, the steps of the forwarders, of the library and of the broker, and
the interrupt. In `Service` the parser, the filter and the renderer are reduced to
their outcomes: a delivery is skipped, rendered, or its rendering fails. `Pipeline`
is the complement: the data that `handleDelivery` passes from the parser to the
renderers, without sessions. The renderers with goroutines and the filter have
modules of their own, whose environment is the order of calls that `Service` makes:
`RenderTrace` any number of times, `Close` once, by one goroutine.

An operator whose name ends in a suffix such as `_OffByOne` is a seeded fault. It
is never used by a specification; put in the place of the operator it is named
after, it makes TLC find the property violated that `PROJECT.json` names for it.

## 3. What is modelled, and what each run shows

### Sessions: `Firehose`, `Service`, `TraceStream`

A delivery is the pair of its session and its number in it; `sent`, `taken` and
`handled` count how far the deliveries of a session have come: the library's
buffer, the forwarder, the loop. One delivery can be in the forwarder's hand (`fwd`
is "send"). `Receive` is the rendezvous on `out`: the forwarder's send and the
loop's receive in one step, for an unbuffered channel has no other.
`pc` is the control of `Run`: "top", "dial", "wait", the five stages of `Consume`,
"select", "handle", "cleanup", "close", "stopped", "exited". Every early return of
the source is a step; each stage may fail because the broker refuses the call, or
because the connection is gone.

The broker may cancel the consumer, close the channel or lose the connection at any
moment after it was made; the library then ends the stream of deliveries
(`ShutdownChannel`), after what it had buffered.

| Run | Bounds | Shows |
|---|---|---|
| `service_safety` | 2 sessions of 3 deliveries, limit 3 | `TypeOK`, `RenderedInOrder`, `NoGap`, `LimitRespected`; `OneLiveSession`: no path forgets to release; `NilReturnJustified`: a lost broker never ends in exit status 0; `AtMostOneLateSession`: an interrupt during a dial lets at most one session begin; `ImplementsTraceStream`: what the renderer is given is one ordered stream, without repetition, within the limit, and a success means an interrupt or the limit; `LostSessionRunsDown`: once a session has lost its connection or its stream, each step of `Run` in it is one less to its end, and nobody adds one |
| `service_liveness` | 2 sessions of 1 delivery, no limit | `InterruptDrains`: an interrupt ends `Run` and every forwarder; `LostSessionReleased`: a session that lost its connection or its stream is given up |
| `service_setup_loss` | as above | violation of `LossIsReconnect`, see section 5 |

Two sessions are what it takes for an old forwarder to meet a new session; three
deliveries put one in the library, one in the hand of the forwarder and one in the
loop, with the limit reached while the others wait. The limit of 3 is reached across
two sessions. The invariants are proved for any number of sessions.

Fairness (`Service!Fairness`): goroutines that can run do, dials and calls to the
broker return, timers fire, the library shuts down the channels of a lost
connection (weak fairness); the branch of the context in a select is taken in the
end if it stays ready, as Go chooses uniformly among the ready branches (strong
fairness). Nothing is assumed of the broker, the network or the user. A call of
`RenderTrace` is a step and so returns; section 5 has a renderer for which it may
not.

### The dial loop: `ConnectionManager`

Durations are signed integers of a parametric width, `Wrap` is Go's
multiplication. `connection_manager` takes every pair of configured durations of five
bits, negative ones included: `NewManager` replaces those that make no sense.
`BackoffBounded` and `BackoffGrows` say that each delay is between the configured
bounds and that delays grow, at most by a factor of two, up to the maximum, unless doubling
the largest delay overflows. That case, a `reconnect_max` over 2^62 ns or 146 years, is
excluded by the condition `NoOverflow`: nothing in the code prevents it, and no property
here covers it. `CancelStopsRetries`: a cancelled context ends the loop in the end,
though a timer that is ready at the same time may be taken first; strong fairness on the
branch of the context, as Go chooses uniformly.

### Start-up: `Config`

`Load` and `main`, one step per layer and, in the flag package, per option. A token is
one argument, or the text of a variable or a setting: the option it reads as, if any,
and what it is as a value, as a text, an integer or a Boolean. So one token can be an
option to the flag package and a value to `scanConfigPath`, which is the hazard. Formats
and defaults are abbreviated to one or two characters; numbers are small.

Run `config` takes command lines of up to two of twenty options, written with one or
two dashes and with the value after an equals sign or apart, with nothing or one of four
endings behind them (a further argument, `--` and an option behind it, options that lack
their value), eight environments of at most one variable, and two files that can be read,
one with settings that are wrong on their own. `IsInput` says which command lines there
are: options that the flag package can tell apart, and behind them arguments that begin
with none or are one whose value is missing.

* `Precedence`: what the program runs with is, for each setting, what the highest layer
  says that sets it, normalised. Two options are what it takes for the last of them to
  win.
* `FileReadIsFileNamed`: the arguments are read twice and agree on the file, under
  conditions that the property spells out; section 5 has what happens without them.
* `RejectedForCause`: exit status 2 has a cause, of which `IsFlawed` is the list, and a
  wrong value that a higher layer replaces is none.
* `LoadedIsUsable`: what `Validate` lets through meets the assumptions of
  `ConnectionManager` and `Service`, and what is needed is not blank.

All four are proved, too.

### The filter: `Filter`

`Match` with `topicMatch` and `path.Match` as recursive functions on pairs of places, and
the documented meaning without recursion as the reference: a pattern matches if the
value can be cut into consecutive pieces, one per element of the pattern, that each
element stands for. Run `filter` compares them for all topic patterns of up to four words
on all routing keys of up to four words, an empty word included; two # with words
between and around them, the case that needs backtracking, occur from three words on. It
also has all four filters together, with glob patterns of up to two characters
(malformed ones too) on names of up to three, and events with no, one and two
destinations. A behaviour is a single decision, so it may stop. The comparison is
proved for all patterns and values.

### The web renderer: `WebRenderer`, `Broadcast`

One process per browser connection (`serveSSE`), one that renders and closes, the
mutex, and the buffered channel of each client. `Close` holds the mutex through
`Shutdown`; the other critical sections are single steps. A browser may go away, or
not read. A page that connects again, as it does after three seconds, is another
connection, which registers later. After `Close` the process ends at some moment
(`Exit`: `Run` and `main` return), and with it every goroutine that is still there.

Run `web` has 2 browsers, buffers of 1 and 3 traces:

* `ClientsAreOpen`: never a send on, or a second close of, a closed channel;
* `StreamInOrder`: what a browser is sent is in order, without repetition, and begins
  after it registered;
* `NothingLostWithinBuffer`, of each step: a trace that is rendered is added to the stream
  of every browser in the map, unless that browser is a whole buffer behind at that moment
  (`Behind`: the traces rendered since the last one its goroutine took, or since it
  registered), and nothing that is in a stream is lost while the browser is there. So a
  browser that lost a trace and has caught up loses no other until it falls behind again;
* `ImplementsBroadcast`: buffers, goroutines and mutex implement the plain `Broadcast`;
* `CloseReturns`, `BufferedIsWritten`, `GoneHandlerEnds`: `Close` returns whatever the
  browsers do; a message in a buffer is written also when the renderer is closed, unless
  the browser goes away, stalls for ever, or stalls for so long that `Shutdown` gives up,
  for then the process may end first; and the goroutine of a browser that left ends, if
  not by itself, then with the process;
* `ClosedRunsDown`: after `Close` a goroutine only has what is buffered left to write: no
  call of `RenderTrace` and no late connection gives it more, and each step it takes is
  one less.

`web_catch_up` and `web_shutdown` (1 browser) are violations, see section 5. Two browsers
are enough for one to be fast and one slow, as they share nothing but the map; three
traces overflow a buffer of one with one more in the goroutine's hand, or let a browser
lose one, catch up, and be sent the next. The capacity 32 is the constant `Buffer`. Fairness: goroutines that can run do, and `Shutdown`'s timeout
expires (weak fairness; the mutex is held for one interval only, so whoever waits for it
can proceed for ever once that has ended); the branch of the request's context is taken
in the end if it stays ready (strong fairness, for the random choice of select). A
browser that is there need not read. `Exit` has no fairness: no property rests on the end
of the process coming, and none may rest on its being late.

### The Prometheus renderer: `PrometheusRenderer`, `Counter`

Here every increment of a counter and every section of an answer is a step, and
the mutex a variable. `ScrapesAreAtomic` (run `prometheus`: 2 scrapes, 3 traces)
says that scrapes are linearizable: an answer shows the counters after some number
of whole traces, at least those counted before the scrape began. `ImplementsCounter`
says what that makes of all scrapes together: the renderer is one counter, to which each
trace is added in one step and which every answer shows as it is, so that no answer shows
less than an earlier one. Three kinds of traces: without destination, with empty names, and with one queue twice.
In the same run, with clients that read, `CloseReturns`, although `Shutdown`
waits for scrapes that wait for the mutex that `Close` holds. `ScrapesAreAnswered`: a scrape
that waits for the mutex is answered, however many traces and scrapes are before it, unless
`Close` gets the mutex first. Then it waits until `Shutdown` has given up, and after that it
races the end of the process (`Exit`, which is a step here too), so nothing is said of it.
The run also checks that nothing deadlocks before the process has ended. That the variables have their types, `TypeOK`, is proved and
left out of the run. `prometheus_stalled` is a violation, see section 5.

### From delivery to report: `Parser`, `Pipeline`, `Reports`

`Parser` is `ParseDelivery`: which header wins, what the routing key of the firehose
says where headers are silent, and which destinations are the same. `Reports` is what
the renderers that only count keep of a trace: the graph with its DOT and Mermaid
drawings, the summary with its tables, the browser's page, and StatsD's datagrams. All
of them are given the same traces, which one process of the program never does, so that
their answers can be compared. A map to counts is a function from the names that were
counted, a name is the sequence of its character codes, event types and fallback names
are abbreviated to one or two characters. A drawing is nodes with identifiers and labels, and edges between
identifiers. `Pipeline` composes the two as `handleDelivery` does, with deliveries that
do not parse, are filtered out, or whose rendering fails.

Run `reports` has sequences of up to four of six kinds of deliveries (which make counts
tie and tables of two lines overflow), of five kinds with quotation marks, backslashes
and bars in names, of two kinds with capital and foreign letters, and, each alone, the
events of all messages of names of up to three words, whatever the broker appends to the
event's key and says in its headers.

* `GraphAgreesWithSummary`, `PageAgreesWithGraph`, `StatsdAgreesWithSummary`: graph, page,
  summary and StatsD classify and count alike, StatsD also when a datagram fails.
* `TablesShowTheTop`: a table's names are those with the highest counts.
* `DrawingsShowTheGraph`: every arrow joins nodes that are drawn, counts add up, quoted
  names end where they should, and Mermaid shows every name and makes one node only of
  names that are `AreAlike`: equally long, and different in nothing but characters other
  than `0`-`9`, `A`-`Z`, `a`-`z`. Those are all characters of other scripts, and the
  definition does not use that of `mermaidID`.
* `NamesRecovered`: what the event of a message is reported as, unless its names begin or
  end with blanks. `IsPlain` says when the name in the event's key can be told from the
  rest of it. The exchange of a publish event is the message's exactly where a header says
  it or the name is plain and not empty (the default exchange never is); the queue of a
  deliver event is exactly where the name is plain. Where no header says it, the exchange
  of a deliver event is reported as unknown or as a beginning of the queue's name, and the
  routing key as the whole key of the event.
* `DestinationsKept`: no pair of queue and binding key is lost or doubled, but for names
  with a bar.

All seven are proved, too. The code is sequential; a behaviour ends when the limit is
reached, a datagram failed or the renderer is closed.

## 4. What is proved

By TLAPS, for all values of the constants, from the modules' named assumptions only: every
invariant that a run of section 3 checks, the action properties, and the refinements.

| Assumption | Says | Why the code justifies it |
|---|---|---|
| `BoundsAssumption`, `ServiceAssumption` | the bounds are natural numbers, delays are positive and ordered | `NewManager`; `LoadedIsUsable` |
| `ConnectionManager`'s | the width of integers and the defaults | constants of the code |
| `WebAssumption` | finitely many connections, a buffer of at least one | `make(chan string, 32)` |
| `PrometheusAssumption` | finitely many scrapes, none called like another owner of the mutex; traces have string fields | types |
| `FilterAssumption` | patterns and names are sequences, a routing key has a word | `strings.Split` |
| `ConfigAssumption` | a command line is options, each with a value as its kind takes it, and further arguments; a file's settings have their types | the rules of the flag package; strict YAML decoding |
| `ReportsAssumption` | the tables have a line, the bound on traces is a number | `writeTopN` is called with 10 |
| `PipelineAssumption` | a delivery has a text as its key and values of AMQP's types as headers; one that is said to report a message is that message's event | `amqp.Table`; the definition of `Event` |

`Service_proofs`: `TypeCorrect`; `InOrder`, `Gapless`, `Limited`, `JustifiedResult`,
`SingleSession`, `OneLateSession`: the safety invariants of the run `service_safety`;
`RunsDownWhenLost`: its action property;
`Refinement`: `Spec => TS!Spec`, step by step. The inductive invariant `IInv` is the
conjunction of seven parts, each for what the invariants alone cannot carry over a step:

* `TypeInv`: types, and that a forwarder with a delivery in hand has taken one;
* `Resources`: the sessions before the current one have closed connections and
  channels, the later ones none. `OneLiveSession` speaks of the present only; this
  says what the closing steps leave behind, and that a session's forwarder can only
  hand deliveries to the loop while the session is current;
* `Flow`: `NoGap`, and that `handled` counts the delivery that is being handled;
* `Supplied`: a forwarder has taken no more than the library was sent;
* `Late`: whether a late session has begun is determined by where `Run` is;
* `Limit`: `matchedEvents` is the number of traces and is below the limit as long as
  `Run` goes on;
* `Order`: the last trace rendered precedes whatever the loop can receive next.
  `RenderedInOrder` alone is not inductive: it does not say that the next delivery
  comes after the last trace.

Each step of `Next` is shown to keep each part; the lemmas `ResourcesStep`,
`FlowStep`, `LateStep`, `LimitStep`, `OrderStep` have one step per action that can
disturb it, and `QuietSteps` takes the others together. The refinement uses `Order`
for `Emit`, `Limit` for its guard and for the outcome. `LostSessionRunsDown` is the part of
`LostSessionReleased` that needs no fairness: `SessionWork`, which counts the deliveries not
yet handled and the stages before the session is closed, is a natural number by `Flow` and
`Supplied`, and in a lost session each step ends a stage (`Ending`), takes a delivery
(`Taking`), or leaves the loop alone (`Waiting`). What TLC alone shows is that one of the
first two kinds is taken in the end.

`ConnectionManager_proofs`: `TypeCorrect`, `Bounded` and `Growing`, from the range of
`Wrap` and of `nextBackoff`; the width of the integers is arbitrary.

`WebRenderer_proofs`: `TypeCorrect`, `OpenClients`, `OrderedStreams`, `BufferKeeps` and
`Refinement` (to `Broadcast`), for any number of browsers and any buffer. The invariant
takes the stream of a connection apart into the three places where it is (`WrittenInOrder`,
`HandInOrder`, `BufferInOrder`), each in order and each behind the one before, because
that is what the single steps move messages between; `Fresh` says that a connection that
has not registered has no stream, and `ListenerClosed` that a renderer that is closed
accepts nobody. `BufferKeeps` is about steps, and rests on two more: `HandBehind`, the last
message taken is before all that is in the buffer, and `Tight`, no more is in it than has
been rendered since its first message; so a client with a full buffer is a buffer behind.
`RunsDownWhenClosed` is what `CloseReturns` and `BufferedIsWritten` rest on without fairness:
`Left`, twice what is buffered and the stages of a goroutine before it ends, only
decreases after `Close`, because `RenderTrace` then does nothing, a connection that registers
late gets an empty buffer, and a goroutine that fetches a message shortens its buffer.

`PrometheusRenderer_proofs`: `TypeCorrect`, `AtomicScrapes` and `Refinement` (to `Counter`),
for any number of scrapes, traces and labels. Three things are invariant: who holds the mutex is where the control
of `Run` and of the scrapes says; the three maps amount to the traces rendered, the part
of the current one that has been counted included; and an answer that is being put
together agrees, in the sections it has, with the maps, which do not change while it is.
That the maps are what a recount of the history gives is what makes an answer the state
between two traces; mutual exclusion is proved, not assumed. In the refinement a trace is
counted when its `RenderTrace` has locked the mutex, and an answer given when it has been
written, both of which the mutex makes right: what a scrape is about to write are all the
traces there are (`WrittenAtOnce`).

`Filter_proofs`: `TopicPatternsMean` and `GlobPatternsMean`, for every pattern and value,
and `PassesTheWanted`, the invariant. The ways to cut a value from a place on
(`Way`) obey the recursion of the matchers (`WayStep`, `WayEnd`: a cut of the rest is
extended by a piece, or loses its first). The recursion has one solution: two solutions
that differ do so at a place closest to the end, and there they agree because they agree
behind it (`ByDistance`). That a set of numbers has a least member (`Lemmas!Least`) is what
replaces a scheme of induction here, so no theorem with an operator parameter is needed.

`Config_proofs`: `Usability`, `Layering`, `FileNaming` and `Rejection`, for command lines of
any length, all variables and all files. While the layers are merged settings have their
types (`Inv`); what `Validate` accepts is usable, since a string that is trimmed and not
empty is not blank. For the other three the invariant has to say how far the flag package
has come, for which the specification has no variable: `Layers` says that there is a k
such that what is left of the arguments is what stands behind the first k options
(`Behind`), that each setting is what the last of these says for it, or else what the
lower layers say (`Merged`), and that the file is what scanning found (`Scanned`). A step
of the flag package reads option k + 1, whole, and the arguments divide at that place
(`Divided`, from the lemmas about `FlattenSeq`); the value of an option is never mistaken
for the next option. `RejectedForCause` is in `Layers` as well, one cause for each step
that can fail.

`Pipeline_proofs` has two inductive invariants. `Handling` says that the parser made the
rendered traces out of the deliveries, and that they have their types: names are trimmed
and, where a fallback exists, not empty. From it follow `Destinations` (dedupe keeps one
of each key, and keys without a bar differ if the pairs do) and `MessageNames`, which
reads `ParseDelivery` against the event of a message, character by character: where the
first dot of the event's key is, when the rest ends in a dot and the routing key, and that
cutting this off leaves the name exactly if `IsPlain`; and that what is taken for the
exchange of a deliver event is the name, a cut of it or its first word, each a beginning of
the name when it is trimmed (`QueueBegins`).

`Counted` adds what the renderers hold: `Tallies(counts, lists)` says that a map has, for
each item, the number of places at which it stands in the lists of items of the traces
rendered; for StatsD after a failure, those of one more trace, of which only the first
metrics were sent. One more trace keeps that for each map (`OneMoreCounted`), and what
some counts add up to is the number of places where one of their items stands
(`TotalIs`). So two renderers agree if the places of their lists correspond, which is what
`GraphAndSummary`, `PageAndGraph` and `StatsdAndSummary` show; for the page also that a key
without bars in its names splits into the edge that it was joined from. `Tables` rests on
the order of strings being strict and total (`LessIsStrict`), so that sorting lists every
name once. `Drawings` rests on the same, and on what DOT and Mermaid make of a name:
escaped texts can be quoted and differ if the texts do, identifiers of exchanges and
queues begin differently, and names with one Mermaid identifier are alike (`SpeltAlike`).

The recursive definitions of the library, such as `FlattenSeq`, are reached without
induction: a shortest text or list for which a claim about it fails is not empty, and the
claim holds without its last element (`FlattenMore`, `EscapeIs`).

Only model-checked: liveness (`CancelStopsRetries`, `InterruptDrains`,
`LostSessionReleased`, `CloseReturns` of both renderers that serve HTTP, `BufferedIsWritten`,
`GoneHandlerEnds`, `ScrapesAreAnswered`), for the prover reaches neither fairness nor
ENABLED. The measures behind two of these arguments are proved, as said above.

## 5. Where the code and its documentation disagree

| Run | What happens | What is said |
|---|---|---|
| `service_setup_loss` | a connection lost during `Consume` ends the process | `docs/architecture.md:24` |
| `web_shutdown` | `Close` holds the mutex that each browser's goroutine needs to end, so `Shutdown` runs into its five seconds whenever a browser is connected | the comment `web.go:125` |
| `web_catch_up` | traces dropped for a slow browser are missing from its graph for good | `docs/web-ui.md:46` |
| `prometheus_stalled` | a scrape whose client stopped reading a long answer holds the mutex, and `Close` waits for it without a deadline | `docs/architecture.md:81` |

Smaller ones were met in translation and have no run of their own. Where a property has
a condition because of one, the condition is named in it.

* A browser connection accepted before `Close` and registered after it keeps an open
  channel (`web.go:68`, the comment `web.go:125`); `CloseReturns` holds all the same.
* The pattern `*` does not match a name with a slash (`matcher.go:78`,
  `docs/filters.md:14`: "any value").
* Queues `a.b` and `a_b` are one Mermaid node (`graph.go:207`), and so are all names of one
  length in a script without ASCII letters and digits (`graph.go:204`);
  `DrawingsShowTheGraph` says which names are merged.
* Names with a bar are split at it by the page (`page.html:129`), and destinations whose
  queue and binding key join to the same text are taken for one (`parser.go:330`).
* An edge's label is the binding key where there is one, and not the routing key
  (`graph.go:64`, `docs/export-formats.md:23`).
* A queue whose own name ends in a dot and the message's routing key is cut, when the
  event's key is the bare name (`parser.go:289`); `IsPlain` tells this case. A publish event
  of the default exchange is reported with the unknown exchange or with what else is in its
  key, and a deliver event without a header for the exchange as coming from an exchange
  that is called like the queue or a beginning of its name (`parser.go:271`);
  `NamesRecovered` says so, and promises nothing better.
* The sample table of routing keys in `docs/statistics.md:29` counts 234, 289, 244; the
  tables are sorted by falling counts (`summary.go:128`, `TablesShowTheTop`).
* `--c file` is an option to the flag package, but `scanConfigPath` knows `-c` with one
  dash only: the file is never read. A value of another option that looks like `-c` is
  taken for it: `--filter-queue -c` fails for want of a value (`config.go:281`).
* `--version` with an environment variable that does not parse, or with settings that do
  not validate, ends with status 2 and shows no version (`main.go:18`).

## 6. What is left out

* The library, the broker, net/http, `path.Match` and the flag and YAML packages are
  modelled from how the code uses them, and marked external in `PROJECT.json`. The
  library's buffer is unbounded: with `autoAck` the broker ignores the prefetch.
* Firehose events published while no session consumes: the queue is auto-delete, they
  are lost by design.
* Time: a timer or a timeout fires at some moment. The wall-clock rate of the summary.
* Wording and layout of all output, logging, `servePage` (a constant), `listener.go` (one
  call of `net.Listen`), the text of the cli and json renderers, which keep no state.
* In the page: the list of the last fifty events, and when the drawing is refreshed;
  the event loop of the browser runs one callback at a time and the order of drawings is
  Mermaid's.
* Paths only tests reach: nil arguments, `SetParser`, the Prometheus renderer without
  a server.
* The parser's identifiers, time and body, which are passed on unread.
* Blanks around an argument, which `scanConfigPath` takes off before it compares
  (`config.go:279`): ` -c` is `-c` to it. Blanks around the patterns of the filters, and
  capital letters in its event type (`matcher.go:25`).
* In the Prometheus renderer, the fallback to the event's own destinations, which the
  service keeps equal to the trace's, and capital letters in event types
  (`prometheus.go:81`, `prometheus.go:89`).
* Character classes and escapes in glob patterns.
* That label maps of Prometheus and of the summary grow with the names seen: the code
  sets no bound.

## 7. Plan

Done, in this order: `ConnectionManager`, `Firehose`, `TraceStream`, `Service` and the
proofs of the two; `WebRenderer`; `Filter`; `PrometheusRenderer`; `Reports`; then
`Broadcast` and the proofs of `WebRenderer`; `Parser` and `Pipeline`, with StatsD and the
drawings in `Reports`; `Config`; the proofs of `PrometheusRenderer`, `Filter`, `Config` and
`Pipeline`, with `Reports` rewritten without folds and bags, which the provers cannot reach;
`Counter` and that `PrometheusRenderer` implements it; the measures of a lost session and
of a closed web renderer.

`Pipeline_proofs` is about as long as the other proofs together, most of it on counting and on
texts. A possible next step: lemmas of it that are not about this program moved to `Lemmas`.
There is no such measure for an interrupt, as the forwarder may take data for as long as
there is some before it takes the branch of the context; and a scrape's steps are a
straight line, which leaves nothing to say about it.
