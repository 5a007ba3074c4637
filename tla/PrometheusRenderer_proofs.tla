------------------------- MODULE PrometheusRenderer_proofs -------------------------
(***************************************************************************)
(* Proofs about PrometheusRenderer, for any scrapes, traces and bound.     *)
(***************************************************************************)
EXTENDS PrometheusRenderer, FiniteSetTheorems, TLAPS

\* What After counts, for a sequence r of traces: events and unrouted messages by
\* index, deliveries by index and position.
EventsOf(r, k, l) == {i \in 1..k : l = <<ExchangeOf(r[i]), TypeOf(r[i])>>}
UnroutedOf(r, k, e) == {i \in 1..k : Unrouted(r[i]) /\ ExchangeOf(r[i]) = e}
Pairs(r, k) == UNION {{i} \X DOMAIN r[i].queues : i \in 1..k}
DeliveriesOf(r, S, l) ==
    {p \in S : l = <<ExchangeOf(r[p[1]]), QueueOf(r[p[1]].queues[p[2]])>>}

N == Len(rendered)

\* Run is counting the last trace of rendered, and has come so far.
Counting == run \in {"event", "unrouted", "queues"}

CountedPairs == IF Counting THEN Pairs(rendered, N - 1) \cup ({N} \X (1..(at - 1)))
                ELSE Pairs(rendered, N)

\* Whoever is at a step that mu protects holds it, and nobody else does.
Mutex ==
    /\ mu = Run <=> Counting \/ run = "shutdown"
    /\ \A s \in Scrapes :
          mu = s <=> scrape[s] \in {"events", "deliveries", "unrouted", "write"}

Last == Counting => /\ N \in Nat \ {0} /\ rendered[N] = trace
                    /\ run # "queues" => at = 1

FreshIndex == run = "lock" => at = 1 /\ N < MaxTraces

\* The maps count the traces that are done and the part of the last that is.
EventsCounted == events = [l \in Exchanges \X Types |->
    Cardinality(EventsOf(rendered, IF run = "event" THEN N - 1 ELSE N, l))]
UnroutedCounted == unrouted = [e \in Exchanges |->
    Cardinality(UnroutedOf(rendered, IF run \in {"event", "unrouted"} THEN N - 1 ELSE N, e))]
DeliveriesCounted ==
    /\ IsFiniteSet(CountedPairs)
    /\ deliveries = [l \in Exchanges \X Queues |->
          Cardinality(DeliveriesOf(rendered, CountedPairs, l))]

Page == [events : [Exchanges \X Types -> Nat], deliveries : [Exchanges \X Queues -> Nat],
         unrouted : [Exchanges -> Nat]]

\* What a scrape has put together are the maps as they are, as long as it holds mu.
PagesCurrent ==
    /\ page \in [Scrapes -> Page]
    /\ \A s \in Scrapes :
        /\ asked[s] <= N
        /\ scrape[s] \in {"deliveries", "unrouted", "write"} => page[s].events = events
        /\ scrape[s] \in {"unrouted", "write"} => page[s].deliveries = deliveries
        /\ scrape[s] = "write" => page[s].unrouted = unrouted

Inv == /\ TypeOK /\ Mutex /\ Last /\ FreshIndex
       /\ EventsCounted /\ UnroutedCounted /\ DeliveriesCounted
       /\ PagesCurrent /\ ScrapesAreAtomic

--------------------------------------------------------------------------------
(* Counting one more *)

\* After, in terms of the sets above.
LEMMA AfterIs ==
    ASSUME NEW k
    PROVE  After(k) =
        [events |-> [l \in Exchanges \X Types |-> Cardinality(EventsOf(rendered, k, l))],
         deliveries |-> [l \in Exchanges \X Queues |->
            Cardinality(DeliveriesOf(rendered, Pairs(rendered, k), l))],
         unrouted |-> [e \in Exchanges |-> Cardinality(UnroutedOf(rendered, k, e))]]
BY DEF After, AmountOf, EventsOf, UnroutedOf, DeliveriesOf, Pairs

LEMMA EventsGrow ==
    ASSUME NEW r, NEW n \in Nat \ {0}, NEW l
    PROVE  LET label == <<ExchangeOf(r[n]), TypeOf(r[n])>>
               before == Cardinality(EventsOf(r, n - 1, l))
           IN  /\ before \in Nat
               /\ l = label => Cardinality(EventsOf(r, n, l)) = before + 1
               /\ l # label => Cardinality(EventsOf(r, n, l)) = before
<1> DEFINE S == EventsOf(r, n - 1, l)
<1>1. IsFiniteSet(S) /\ n \notin S
  <2>1. IsFiniteSet(1..(n - 1))
      BY FS_Interval
  <2>2. S \in SUBSET (1..(n - 1)) /\ n \notin 1..(n - 1)
      BY DEF EventsOf
  <2> QED
      BY <2>1, <2>2, FS_Subset
<1>2. Cardinality(S) \in Nat /\ Cardinality(S \cup {n}) = Cardinality(S) + 1
    BY <1>1, FS_CardinalityType, FS_AddElement
<1>3. 1..n = 1..(n - 1) \cup {n}
    OBVIOUS
<1>4. l = <<ExchangeOf(r[n]), TypeOf(r[n])>> => EventsOf(r, n, l) = S \cup {n}
    BY <1>3 DEF EventsOf
<1>5. l # <<ExchangeOf(r[n]), TypeOf(r[n])>> => EventsOf(r, n, l) = S
    BY <1>3 DEF EventsOf
<1> QED
    BY <1>2, <1>4, <1>5

LEMMA UnroutedGrow ==
    ASSUME NEW r, NEW n \in Nat \ {0}, NEW e
    PROVE  LET counts == Unrouted(r[n]) /\ ExchangeOf(r[n]) = e
               before == Cardinality(UnroutedOf(r, n - 1, e))
           IN  /\ before \in Nat
               /\ counts => Cardinality(UnroutedOf(r, n, e)) = before + 1
               /\ ~counts => Cardinality(UnroutedOf(r, n, e)) = before
<1> DEFINE S == UnroutedOf(r, n - 1, e)
<1>1. IsFiniteSet(S) /\ n \notin S
  <2>1. IsFiniteSet(1..(n - 1))
      BY FS_Interval
  <2>2. S \in SUBSET (1..(n - 1)) /\ n \notin 1..(n - 1)
      BY DEF UnroutedOf
  <2> QED
      BY <2>1, <2>2, FS_Subset
<1>2. Cardinality(S) \in Nat /\ Cardinality(S \cup {n}) = Cardinality(S) + 1
    BY <1>1, FS_CardinalityType, FS_AddElement
<1>3. 1..n = 1..(n - 1) \cup {n}
    OBVIOUS
<1>4. Unrouted(r[n]) /\ ExchangeOf(r[n]) = e => UnroutedOf(r, n, e) = S \cup {n}
    BY <1>3 DEF UnroutedOf
<1>5. ~(Unrouted(r[n]) /\ ExchangeOf(r[n]) = e) => UnroutedOf(r, n, e) = S
    BY <1>3 DEF UnroutedOf
<1> QED
    BY <1>2, <1>4, <1>5

LEMMA DeliveriesGrow ==
    ASSUME NEW r, NEW S, IsFiniteSet(S), NEW n, NEW j, <<n, j>> \notin S, NEW l
    PROVE  LET label == <<ExchangeOf(r[n]), QueueOf(r[n].queues[j])>>
               before == Cardinality(DeliveriesOf(r, S, l))
               after == Cardinality(DeliveriesOf(r, S \cup {<<n, j>>}, l))
           IN  /\ before \in Nat
               /\ l = label => after = before + 1
               /\ l # label => after = before
<1> DEFINE D == DeliveriesOf(r, S, l)
<1>1. D \in SUBSET S
    BY DEF DeliveriesOf
<1>2. IsFiniteSet(D) /\ <<n, j>> \notin D
    BY <1>1, FS_Subset
<1>3. Cardinality(D) \in Nat /\ Cardinality(D \cup {<<n, j>>}) = Cardinality(D) + 1
    BY <1>2, FS_CardinalityType, FS_AddElement
<1>4. l = <<ExchangeOf(r[n]), QueueOf(r[n].queues[j])>>
        => DeliveriesOf(r, S \cup {<<n, j>>}, l) = D \cup {<<n, j>>}
    BY DEF DeliveriesOf
<1>5. l # <<ExchangeOf(r[n]), QueueOf(r[n].queues[j])>>
        => DeliveriesOf(r, S \cup {<<n, j>>}, l) = D
    BY DEF DeliveriesOf
<1> QED
    BY <1>3, <1>4, <1>5

\* What has been counted does not change when a trace is added.
LEMMA PrefixCounts ==
    ASSUME NEW r \in Seq(Traces), NEW t \in Traces, NEW k \in 0..Len(r)
    PROVE  /\ \A l : EventsOf(Append(r, t), k, l) = EventsOf(r, k, l)
           /\ \A e : UnroutedOf(Append(r, t), k, e) = UnroutedOf(r, k, e)
           /\ Pairs(Append(r, t), k) = Pairs(r, k)
           /\ \A l : DeliveriesOf(Append(r, t), Pairs(r, k), l)
                        = DeliveriesOf(r, Pairs(r, k), l)
<1>1. \A i \in 1..k : Append(r, t)[i] = r[i]
    OBVIOUS
<1>2. \A p \in Pairs(r, k) : p[1] \in 1..k
    BY DEF Pairs
<1>3. /\ \A l : EventsOf(Append(r, t), k, l) = EventsOf(r, k, l)
      /\ \A e : UnroutedOf(Append(r, t), k, e) = UnroutedOf(r, k, e)
    BY <1>1 DEF EventsOf, UnroutedOf
<1>4. Pairs(Append(r, t), k) = Pairs(r, k)
    BY <1>1 DEF Pairs
<1>5. \A l : DeliveriesOf(Append(r, t), Pairs(r, k), l) = DeliveriesOf(r, Pairs(r, k), l)
    BY <1>1, <1>2 DEF DeliveriesOf
<1> QED
    BY <1>3, <1>4, <1>5

LEMMA PairsGrow ==
    ASSUME NEW r, NEW n \in Nat \ {0}
    PROVE  Pairs(r, n) = Pairs(r, n - 1) \cup ({n} \X DOMAIN r[n].queues)
<1>1. 1..n = 1..(n - 1) \cup {n}
    OBVIOUS
<1> QED
    BY <1>1 DEF Pairs

--------------------------------------------------------------------------------
(* The invariant *)

LEMMA NoneCounted ==
    ASSUME NEW r
    PROVE  /\ \A l : Cardinality(EventsOf(r, 0, l)) = 0
           /\ \A e : Cardinality(UnroutedOf(r, 0, e)) = 0
           /\ Pairs(r, 0) = {} /\ IsFiniteSet({})
           /\ \A l : Cardinality(DeliveriesOf(r, {}, l)) = 0
<1>1. 1..0 = {}
    OBVIOUS
<1>2. /\ \A l : EventsOf(r, 0, l) = {}
      /\ \A e : UnroutedOf(r, 0, e) = {}
      /\ Pairs(r, 0) = {}
      /\ \A l : DeliveriesOf(r, {}, l) = {}
    BY <1>1 DEF EventsOf, UnroutedOf, Pairs, DeliveriesOf
<1> QED
    BY <1>2, FS_EmptySet

LEMMA InitInv == Init => Inv
<1> SUFFICES ASSUME Init PROVE Inv
    OBVIOUS
<1> USE DEF Init, Zero
<1>1. TypeOK
  <2>1. trace.queues \in Seq(STRING)
      BY PrometheusAssumption
  <2>2. at \in 1..(Len(trace.queues) + 1)
      BY <2>1
  <2> QED
      BY <2>2, PrometheusAssumption DEF TypeOK
<1>2. Mutex /\ Last /\ FreshIndex /\ ScrapesAreAtomic
    BY PrometheusAssumption DEF Mutex, Last, FreshIndex, ScrapesAreAtomic, Counting, Nobody, Run
<1>3. N = 0 /\ ~Counting /\ CountedPairs = {}
    BY NoneCounted DEF N, Counting, CountedPairs
<1>4. EventsCounted /\ UnroutedCounted /\ DeliveriesCounted
    BY <1>3, NoneCounted DEF EventsCounted, UnroutedCounted, DeliveriesCounted
<1>5. PagesCurrent
    BY <1>3 DEF PagesCurrent, Page
<1> QED
    BY <1>1, <1>2, <1>4, <1>5 DEF Inv

\* The steps that leave the maps, the traces and Run's place in them alone.
LEMMA CountersKept ==
    ASSUME Inv, UNCHANGED <<counters, trace, at, rendered>>,
           run' = run \/ (~Counting /\ ~Counting')
    PROVE  EventsCounted' /\ UnroutedCounted' /\ DeliveriesCounted' /\ (run' = run => Last')
<1>1. /\ N' = N /\ Counting' = Counting /\ CountedPairs' = CountedPairs
      /\ (run' = "event") = (run = "event")
      /\ (run' \in {"event", "unrouted"}) = (run \in {"event", "unrouted"})
    BY DEF N, Counting, CountedPairs
<1>2. EventsCounted'
    BY <1>1 DEF Inv, EventsCounted, counters
<1>3. UnroutedCounted'
    BY <1>1 DEF Inv, UnroutedCounted, counters
<1>4. DeliveriesCounted'
    BY <1>1 DEF Inv, DeliveriesCounted, counters
<1>5. run' = run => Last'
    BY <1>1 DEF Inv, Last
<1> QED
    BY <1>2, <1>3, <1>4, <1>5

\* The answers that were given stay right as long as no trace is added.
LEMMA AnswersKept ==
    ASSUME Inv, UNCHANGED <<page, rendered, asked>>,
           \A s \in Scrapes : scrape'[s] = "done" => scrape[s] = "done"
    PROVE  ScrapesAreAtomic'
<1>1. \A k : After(k)' = After(k)
    BY DEF After
<1> QED
    BY <1>1 DEF Inv, ScrapesAreAtomic

LEMMA TypeFacts ==
    ASSUME Inv
    PROVE  /\ N \in Nat /\ rendered \in Seq(Traces) /\ trace \in Traces
           /\ trace.queues \in Seq(STRING) /\ Len(trace.queues) \in Nat
           /\ DOMAIN trace.queues = 1..Len(trace.queues)
           /\ Run # Nobody /\ Run \notin Scrapes /\ Nobody \notin Scrapes
           /\ ExchangeOf(trace) \in Exchanges /\ TypeOf(trace) \in Types
           /\ \A i \in DOMAIN trace.queues : QueueOf(trace.queues[i]) \in Queues
<1>1. rendered \in Seq(Traces) /\ trace \in Traces
    BY DEF Inv, TypeOK
<1>2. trace.queues \in Seq(STRING)
    BY <1>1, PrometheusAssumption
<1>3. /\ N \in Nat /\ Len(trace.queues) \in Nat
      /\ DOMAIN trace.queues = 1..Len(trace.queues)
    BY <1>1, <1>2 DEF N
<1>4. Run # Nobody /\ Run \notin Scrapes /\ Nobody \notin Scrapes
    BY PrometheusAssumption DEF Run, Nobody
<1>5. ExchangeOf(trace) \in Exchanges /\ TypeOf(trace) \in Types
    BY <1>1 DEF Exchanges, Types
<1>6. \A i \in DOMAIN trace.queues : QueueOf(trace.queues[i]) \in Queues
    BY <1>1 DEF Queues
<1> QED
    BY <1>1, <1>2, <1>3, <1>4, <1>5, <1>6

\* The steps of Run that touch no map.
LEMMA RunInv ==
    ASSUME Inv, RenderTrace \/ CallClose \/ CloseLock \/ CloseReturn \/ Exit
    PROVE  Inv'
<1> USE TypeFacts
<1>1. /\ ~Counting /\ ~Counting' /\ N' = N
      /\ UNCHANGED <<events, deliveries, unrouted, rendered, scrape, page, asked>>
    BY DEF RenderTrace, CallClose, CloseLock, CloseReturn, Exit, Counting, N, counters
<1>2. TypeOK'
  <2>1. CASE RenderTrace
    <3>1. trace' \in Traces /\ trace'.queues \in Seq(STRING)
        BY <2>1, PrometheusAssumption DEF RenderTrace
    <3>2. at' \in 1..(Len(trace'.queues) + 1)
        BY <2>1, <3>1 DEF RenderTrace
    <3> QED
        BY <2>1, <3>1, <3>2 DEF Inv, TypeOK, RenderTrace, counters
  <2>2. CASE CallClose \/ CloseLock \/ CloseReturn \/ Exit
      BY <2>2 DEF Inv, TypeOK, CallClose, CloseLock, CloseReturn, Exit, counters
  <2> QED
      BY <2>1, <2>2
<1>3. Mutex'
    BY <1>1 DEF Inv, Mutex, RenderTrace, CallClose, CloseLock, CloseReturn, Exit, Counting
<1>4. Last' /\ FreshIndex'
    BY <1>1 DEF Inv, Last, FreshIndex, RenderTrace, CallClose, CloseLock, CloseReturn, Exit, N
<1>5. EventsCounted' /\ UnroutedCounted' /\ DeliveriesCounted'
  <2>1. CountedPairs' = CountedPairs
      BY <1>1 DEF CountedPairs
  <2> QED
      BY <1>1, <2>1 DEF Inv, EventsCounted, UnroutedCounted, DeliveriesCounted, Counting
<1>6. PagesCurrent'
    BY <1>1 DEF Inv, PagesCurrent
<1>7. ScrapesAreAtomic'
    BY <1>1, AnswersKept
<1> QED
    BY <1>2, <1>3, <1>4, <1>5, <1>6, <1>7 DEF Inv

\* A trace is added: until its first increment, nothing that is counted changes.
LEMMA LockInv == ASSUME Inv, RenderLock PROVE Inv'
<1> USE TypeFacts
<1>1. /\ N' = N + 1 /\ rendered' = Append(rendered, trace) /\ rendered' \in Seq(Traces)
      /\ rendered'[N + 1] = trace /\ at' = 1 /\ N + 1 <= MaxTraces
      /\ ~Counting /\ Counting' /\ run' = "event" /\ run = "lock"
      /\ UNCHANGED <<events, deliveries, unrouted, trace, scrape, page, asked>>
  <2>1. /\ run = "lock" /\ run' = "event" /\ rendered' = Append(rendered, trace)
        /\ UNCHANGED <<events, deliveries, unrouted, trace, at, scrape, page, asked>>
      BY DEF RenderLock, counters
  <2>2. at = 1 /\ N < MaxTraces
      BY <2>1 DEF Inv, FreshIndex
  <2>3. rendered' \in Seq(Traces) /\ N' = N + 1 /\ rendered'[N + 1] = trace
      BY <2>1 DEF N
  <2> QED
      BY <2>1, <2>2, <2>3, PrometheusAssumption DEF Counting
<1>2. TypeOK'
    BY <1>1 DEF Inv, TypeOK, RenderLock, N
<1>3. Mutex'
    BY <1>1 DEF Inv, Mutex, RenderLock, Counting
<1>4. Last' /\ FreshIndex'
  <2>1. (rendered[N])' = trace'
      BY <1>1
  <2> QED
      BY <1>1, <2>1 DEF Last, FreshIndex
<1>5. \A k \in 0..N : /\ \A l : EventsOf(rendered', k, l) = EventsOf(rendered, k, l)
                      /\ \A e : UnroutedOf(rendered', k, e) = UnroutedOf(rendered, k, e)
                      /\ Pairs(rendered', k) = Pairs(rendered, k)
                      /\ \A l : DeliveriesOf(rendered', Pairs(rendered, k), l)
                                   = DeliveriesOf(rendered, Pairs(rendered, k), l)
    BY <1>1, PrefixCounts DEF N
<1>6. EventsCounted' /\ UnroutedCounted'
  <2>1. N' - 1 = N /\ N \in 0..N
      BY <1>1
  <2> QED
      BY <1>1, <1>5, <2>1 DEF Inv, EventsCounted, UnroutedCounted
<1>7. DeliveriesCounted'
  <2>1. 1..(1 - 1) = {}
      OBVIOUS
  <2>2. N' - 1 = N /\ N \in 0..N
      BY <1>1
  <2>3. CountedPairs' = Pairs(rendered', N)
      BY <1>1, <2>1, <2>2 DEF CountedPairs
  <2>4. CountedPairs = Pairs(rendered, N)
      BY <1>1 DEF CountedPairs
  <2> QED
      BY <1>1, <1>5, <2>2, <2>3, <2>4 DEF Inv, DeliveriesCounted
<1>8. PagesCurrent'
    BY <1>1 DEF Inv, PagesCurrent, TypeOK
<1>9. ScrapesAreAtomic'
  <2>1. \A k \in 0..N : After(k)' = After(k)
    <3>1. \A k : After(k)' =
        [events |-> [l \in Exchanges \X Types |-> Cardinality(EventsOf(rendered', k, l))],
         deliveries |-> [l \in Exchanges \X Queues |->
            Cardinality(DeliveriesOf(rendered', Pairs(rendered', k), l))],
         unrouted |-> [e \in Exchanges |-> Cardinality(UnroutedOf(rendered', k, e))]]
        BY DEF After, AmountOf, EventsOf, UnroutedOf, DeliveriesOf, Pairs
    <3> QED
        BY <1>5, <3>1, AfterIs
  <2>2. \A s \in Scrapes : asked[s]..N \subseteq 0..N /\ asked[s]..N \subseteq asked'[s]..N'
      BY <1>1 DEF Inv, TypeOK
  <2> QED
      BY <1>1, <2>1, <2>2 DEF Inv, ScrapesAreAtomic, N
<1> QED
    BY <1>2, <1>3, <1>4, <1>6, <1>7, <1>8, <1>9 DEF Inv

\* While Run counts, no scrape is at a step that mu protects: the answers under way
\* are those not begun, and those done.
LEMMA CountFacts ==
    ASSUME Inv, Counting, UNCHANGED <<rendered, scrape, page, asked>>
    PROVE  /\ N \in Nat \ {0} /\ N - 1 \in Nat /\ rendered[N] = trace
           /\ PagesCurrent' /\ ScrapesAreAtomic'
<1>1. N \in Nat \ {0} /\ rendered[N] = trace
    BY DEF Inv, Last
<1>2. \A s \in Scrapes : scrape[s] \notin {"events", "deliveries", "unrouted", "write"}
    BY TypeFacts DEF Inv, Mutex
<1>3. PagesCurrent'
    BY <1>2 DEF Inv, PagesCurrent, N
<1>4. ScrapesAreAtomic'
    BY AnswersKept
<1> QED
    BY <1>1, <1>3, <1>4

LEMMA EventInv == ASSUME Inv, CountEvent PROVE Inv'
<1> USE TypeFacts
<1> DEFINE label == <<ExchangeOf(trace), TypeOf(trace)>>
<1>1. /\ run = "event" /\ run' = "unrouted" /\ Counting /\ Counting' /\ N' = N
      /\ events' = [events EXCEPT ![label] = @ + 1]
      /\ UNCHANGED <<mu, deliveries, unrouted, trace, at, scrape, page, rendered, asked>>
    BY DEF CountEvent, Counting, N
<1>2. N \in Nat \ {0} /\ rendered[N] = trace /\ PagesCurrent' /\ ScrapesAreAtomic'
    BY <1>1, CountFacts
<1>3. events' \in [Exchanges \X Types -> Nat]
    BY <1>1 DEF Inv, TypeOK
<1>4. TypeOK'
    BY <1>1, <1>3 DEF Inv, TypeOK
<1>5. Mutex' /\ Last' /\ FreshIndex'
    BY <1>1 DEF Inv, Mutex, Last, FreshIndex
<1>6. EventsCounted'
  <2>1. events = [l \in Exchanges \X Types |-> Cardinality(EventsOf(rendered, N - 1, l))]
      BY <1>1 DEF Inv, EventsCounted
  <2>2. ASSUME NEW l \in Exchanges \X Types
        PROVE  events'[l] = Cardinality(EventsOf(rendered, N, l))
    <3>1. /\ events[l] = Cardinality(EventsOf(rendered, N - 1, l))
          /\ events \in [Exchanges \X Types -> Nat]
        BY <2>1 DEF Inv, TypeOK
    <3> DEFINE before == Cardinality(EventsOf(rendered, N - 1, l))
               after == Cardinality(EventsOf(rendered, N, l))
    <3>2. label = <<ExchangeOf(rendered[N]), TypeOf(rendered[N])>>
        BY <1>2
    <3>3. before \in Nat /\ (l = label => after = before + 1) /\ (l # label => after = before)
        BY ONLY <1>2, <3>2, EventsGrow
    <3> HIDE DEF before, after
    <3>4. (l = label => events'[l] = before + 1) /\ (l # label => events'[l] = before)
        BY <1>1, <3>1 DEF before
    <3>5. events'[l] = after
        BY <3>3, <3>4
    <3> QED
        BY <3>5 DEF after
  <2>3. events' = [l \in Exchanges \X Types |-> Cardinality(EventsOf(rendered, N, l))]
      BY <1>3, <2>2
  <2> QED
      BY <1>1, <2>3 DEF EventsCounted
<1>7. UnroutedCounted'
    BY <1>1 DEF Inv, UnroutedCounted
<1>8. DeliveriesCounted'
  <2>1. CountedPairs' = CountedPairs
      BY <1>1 DEF CountedPairs
  <2> QED
      BY <1>1, <2>1 DEF Inv, DeliveriesCounted
<1> QED
    BY <1>2, <1>4, <1>5, <1>6, <1>7, <1>8 DEF Inv

LEMMA UnroutedInv == ASSUME Inv, CountUnrouted PROVE Inv'
<1> USE TypeFacts
<1>1. /\ run = "unrouted" /\ run' = "queues" /\ Counting /\ Counting' /\ N' = N
      /\ unrouted' = IF Unrouted(trace)
                     THEN [unrouted EXCEPT ![ExchangeOf(trace)] = @ + 1] ELSE unrouted
      /\ UNCHANGED <<mu, events, deliveries, trace, at, scrape, page, rendered, asked>>
    BY DEF CountUnrouted, Counting, N
<1>2. N \in Nat \ {0} /\ rendered[N] = trace /\ PagesCurrent' /\ ScrapesAreAtomic'
    BY <1>1, CountFacts
<1>3. unrouted' \in [Exchanges -> Nat]
    BY <1>1 DEF Inv, TypeOK
<1>4. TypeOK'
    BY <1>1, <1>3 DEF Inv, TypeOK
<1>5. Mutex' /\ Last' /\ FreshIndex'
    BY <1>1 DEF Inv, Mutex, Last, FreshIndex
<1>6. EventsCounted'
    BY <1>1 DEF Inv, EventsCounted
<1>7. UnroutedCounted'
  <2>1. unrouted = [e \in Exchanges |-> Cardinality(UnroutedOf(rendered, N - 1, e))]
      BY <1>1 DEF Inv, UnroutedCounted
  <2>2. ASSUME NEW e \in Exchanges
        PROVE  unrouted'[e] = Cardinality(UnroutedOf(rendered, N, e))
    <3>1. /\ unrouted[e] = Cardinality(UnroutedOf(rendered, N - 1, e))
          /\ unrouted \in [Exchanges -> Nat]
        BY <2>1 DEF Inv, TypeOK
    <3>2. CASE Unrouted(trace) /\ ExchangeOf(trace) = e
      <4>1. unrouted'[e] = unrouted[e] + 1
          BY <1>1, <3>1, <3>2
      <4>2. Unrouted(rendered[N]) /\ ExchangeOf(rendered[N]) = e
          BY <1>2, <3>2
      <4>3. Cardinality(UnroutedOf(rendered, N, e))
               = Cardinality(UnroutedOf(rendered, N - 1, e)) + 1
          BY <1>2, <4>2, UnroutedGrow
      <4> QED
          BY <3>1, <4>1, <4>3
    <3>3. CASE ~(Unrouted(trace) /\ ExchangeOf(trace) = e)
      <4>1. unrouted'[e] = unrouted[e]
          BY <1>1, <3>1, <3>3
      <4> QED
          BY <1>2, <3>1, <3>3, <4>1, UnroutedGrow
    <3> QED
        BY <3>2, <3>3
  <2>3. unrouted' = [e \in Exchanges |-> Cardinality(UnroutedOf(rendered, N, e))]
      BY <1>3, <2>2
  <2> QED
      BY <1>1, <2>3 DEF UnroutedCounted
<1>8. DeliveriesCounted'
  <2>1. CountedPairs' = CountedPairs
      BY <1>1 DEF CountedPairs
  <2> QED
      BY <1>1, <2>1 DEF Inv, DeliveriesCounted
<1> QED
    BY <1>2, <1>4, <1>5, <1>6, <1>7, <1>8 DEF Inv

LEMMA DeliveryInv == ASSUME Inv, CountDelivery PROVE Inv'
<1> USE TypeFacts
<1> DEFINE label == <<ExchangeOf(trace), QueueOf(trace.queues[at])>>
<1>1. /\ run = "queues" /\ run' = "queues" /\ Counting /\ Counting' /\ N' = N
      /\ at <= Len(trace.queues) /\ at' = at + 1
      /\ deliveries' = [deliveries EXCEPT ![label] = @ + 1]
      /\ UNCHANGED <<mu, events, unrouted, trace, scrape, page, rendered, asked>>
    BY DEF CountDelivery, Counting, N
<1>2. /\ N \in Nat \ {0} /\ N - 1 \in Nat /\ rendered[N] = trace
      /\ PagesCurrent' /\ ScrapesAreAtomic'
    BY <1>1, CountFacts
<1>3. at \in 1..Len(trace.queues) /\ at - 1 \in Nat /\ at' - 1 = at
    BY <1>1 DEF Inv, TypeOK
<1>4. deliveries' \in [Exchanges \X Queues -> Nat]
    BY <1>1, <1>3 DEF Inv, TypeOK
<1>9. at' \in 1..(Len(trace'.queues) + 1)
  <2> DEFINE n == Len(trace.queues)
  <2>1. n \in Nat /\ at \in 1..n /\ at' = at + 1
      BY <1>1, <1>3 DEF Inv, TypeOK
  <2> HIDE DEF n
  <2>2. at' \in 1..(n + 1)
      BY <2>1
  <2>3. trace' = trace
      BY <1>1
  <2> QED
      BY <2>2, <2>3 DEF n
<1>5. TypeOK'
    BY <1>1, <1>4, <1>9 DEF Inv, TypeOK
<1>6. Mutex' /\ Last' /\ FreshIndex'
    BY <1>1 DEF Inv, Mutex, Last, FreshIndex
<1>7. EventsCounted' /\ UnroutedCounted'
    BY <1>1 DEF Inv, EventsCounted, UnroutedCounted
<1>8. DeliveriesCounted'
  <2>1. CountedPairs = Pairs(rendered, N - 1) \cup ({N} \X (1..(at - 1)))
      BY <1>1 DEF CountedPairs
  <2>2. CountedPairs' = Pairs(rendered, N - 1) \cup ({N} \X (1..at))
      BY <1>1, <1>3 DEF CountedPairs
  <2>3. 1..at = 1..(at - 1) \cup {at}
      BY <1>3
  <2>4. CountedPairs' = CountedPairs \cup {<<N, at>>}
      BY <2>1, <2>2, <2>3
  <2>5. <<N, at>> \notin CountedPairs
    <3>1. \A p \in Pairs(rendered, N - 1) : p[1] \in 1..(N - 1)
        BY DEF Pairs
    <3>2. N \notin 1..(N - 1) /\ at \notin 1..(at - 1)
        BY <1>2, <1>3
    <3> QED
        BY <2>1, <3>1, <3>2
  <2>6. /\ IsFiniteSet(CountedPairs)
        /\ deliveries = [l \in Exchanges \X Queues |->
              Cardinality(DeliveriesOf(rendered, CountedPairs, l))]
      BY DEF Inv, DeliveriesCounted
  <2>7. IsFiniteSet(CountedPairs')
      BY <2>4, <2>6, FS_AddElement
  <2>8. ASSUME NEW l \in Exchanges \X Queues
        PROVE  deliveries'[l] = Cardinality(DeliveriesOf(rendered, CountedPairs', l))
    <3> DEFINE before == Cardinality(DeliveriesOf(rendered, CountedPairs, l))
               after == Cardinality(DeliveriesOf(rendered, CountedPairs', l))
    <3>1. /\ before \in Nat
          /\ l = label => after = before + 1
          /\ l # label => after = before
      <4>1. label = <<ExchangeOf(rendered[N]), QueueOf(rendered[N].queues[at])>>
          BY <1>2
      <4>2. IsFiniteSet(CountedPairs)
          BY <2>6
      <4> QED
          BY ONLY <2>4, <2>5, <4>1, <4>2, DeliveriesGrow
    <3>2. deliveries[l] = before /\ deliveries \in [Exchanges \X Queues -> Nat]
        BY <2>6 DEF Inv, TypeOK
    <3> HIDE DEF before, after
    <3>3. /\ l = label => deliveries'[l] = deliveries[l] + 1
          /\ l # label => deliveries'[l] = deliveries[l]
        BY <1>1, <3>2
    <3>4. deliveries'[l] = after
        BY <3>1, <3>2, <3>3
    <3> QED
        BY <3>4 DEF after
  <2>9. deliveries' = [l \in Exchanges \X Queues |->
            Cardinality(DeliveriesOf(rendered, CountedPairs', l))]
      BY <1>4, <2>8
  <2> QED
      BY <1>1, <2>7, <2>9 DEF DeliveriesCounted
<1> QED
    BY <1>2, <1>5, <1>6, <1>7, <1>8 DEF Inv

LEMMA ReturnInv == ASSUME Inv, RenderReturn PROVE Inv'
<1> USE TypeFacts
<1>1. /\ run = "queues" /\ run' = "loop" /\ Counting /\ ~Counting' /\ N' = N
      /\ at > Len(trace.queues) /\ mu' = Nobody
      /\ UNCHANGED <<events, deliveries, unrouted, trace, at, scrape, page, rendered, asked>>
    BY DEF RenderReturn, Counting, N, counters
<1>2. N \in Nat \ {0} /\ rendered[N] = trace /\ PagesCurrent' /\ ScrapesAreAtomic'
    BY <1>1, CountFacts
<1>3. TypeOK' /\ Last' /\ FreshIndex'
    BY <1>1 DEF Inv, TypeOK, Last, FreshIndex
<1>4. Mutex'
    BY <1>1 DEF Inv, Mutex
<1>5. EventsCounted' /\ UnroutedCounted'
    BY <1>1 DEF Inv, EventsCounted, UnroutedCounted
<1>6. CountedPairs' = CountedPairs
  <2>1. DOMAIN rendered[N].queues = 1..(at - 1)
      BY <1>1, <1>2 DEF Inv, TypeOK
  <2>2. CountedPairs = Pairs(rendered, N)
      BY <1>1, <1>2, <2>1, PairsGrow DEF CountedPairs
  <2> QED
      BY <1>1, <2>2 DEF CountedPairs
<1>7. DeliveriesCounted'
    BY <1>1, <1>6 DEF Inv, DeliveriesCounted
<1> QED
    BY <1>2, <1>3, <1>4, <1>5, <1>7 DEF Inv

\* The steps of a scrape up to its answer.
LEMMA ScrapeInv ==
    ASSUME Inv, NEW s \in Scrapes,
           Ask(s) \/ ScrapeLock(s) \/ PutEvents(s) \/ PutDeliveries(s) \/ PutUnrouted(s)
    PROVE  Inv'
<1> USE TypeFacts
<1>1. /\ UNCHANGED <<events, deliveries, unrouted, run, trace, at, rendered>>
      /\ N' = N /\ Counting' = Counting /\ scrape' \in [Scrapes -> {"none", "lock",
            "events", "deliveries", "unrouted", "write", "done"}]
      /\ \A z \in Scrapes : scrape'[z] = "done" => scrape[z] = "done" /\ page'[z] = page[z]
                                                   /\ asked'[z] = asked[z]
  <2>1. scrape \in [Scrapes -> {"none", "lock", "events", "deliveries", "unrouted",
                                "write", "done"}]
      BY DEF Inv, TypeOK
  <2>2. CASE Ask(s)
      BY <2>1, <2>2 DEF Ask, Counting, N, counters
  <2>3. CASE ScrapeLock(s)
      BY <2>1, <2>3 DEF ScrapeLock, Counting, N, counters, At
  <2>4. CASE PutEvents(s) \/ PutDeliveries(s) \/ PutUnrouted(s)
    <3>1. PICK from \in {"events", "deliveries", "unrouted"},
               to \in {"deliveries", "unrouted", "write"} : \E answer : Put(s, from, to, answer)
        BY <2>4 DEF PutEvents, PutDeliveries, PutUnrouted
    <3>2. PICK answer : Put(s, from, to, answer)
        BY <3>1
    <3>3. /\ UNCHANGED <<events, deliveries, unrouted, run, trace, at, rendered, asked>>
          /\ scrape[s] = from /\ scrape' = [scrape EXCEPT ![s] = to]
          /\ page' = [page EXCEPT ![s] = answer] /\ page \in [Scrapes -> Page]
        BY <3>2 DEF Put, counters, Inv, PagesCurrent, At
    <3>4. scrape' \in [Scrapes -> {"none", "lock", "events", "deliveries", "unrouted",
                                   "write", "done"}]
        BY <2>1, <3>1, <3>3
    <3>5. \A z \in Scrapes : scrape'[z] = "done" =>
              scrape[z] = "done" /\ page'[z] = page[z] /\ asked'[z] = asked[z]
        BY <2>1, <3>1, <3>3
    <3> QED
        BY <3>3, <3>4, <3>5 DEF N, Counting
  <2> QED
      BY <2>2, <2>3, <2>4
<1>2. asked' \in [Scrapes -> 0..MaxTraces] /\ \A z \in Scrapes : asked'[z] <= N
  <2>1. asked \in [Scrapes -> 0..MaxTraces] /\ \A z \in Scrapes : asked[z] <= N
      BY DEF Inv, TypeOK, PagesCurrent
  <2>2. CASE Ask(s)
    <3>1. mu = Run => N \in Nat \ {0}
        BY <2>2 DEF Ask, Inv, Mutex, Last, Counting, Stopped
    <3>2. N - (IF mu = Run THEN 1 ELSE 0) \in 0..N /\ N <= MaxTraces /\ MaxTraces \in Nat
        BY <3>1, PrometheusAssumption DEF Inv, TypeOK, N
    <3> QED
        BY <2>1, <2>2, <3>2 DEF Ask, N
  <2>3. CASE ~Ask(s)
      BY <2>1, <2>3 DEF ScrapeLock, PutEvents, PutDeliveries, PutUnrouted, Put, At
  <2> QED
      BY <2>2, <2>3
<1>3. TypeOK'
  <2>1. mu' \in {Nobody, Run} \cup Scrapes
      BY DEF Inv, TypeOK, Ask, ScrapeLock, PutEvents, PutDeliveries, PutUnrouted, Put, At
  <2> QED
      BY <1>1, <1>2, <2>1 DEF Inv, TypeOK
<1>4. Mutex'
  <2>1. CASE Ask(s)
      BY <1>1, <2>1 DEF Inv, TypeOK, Mutex, Ask
  <2>2. CASE ScrapeLock(s)
      BY <1>1, <2>2 DEF Inv, TypeOK, Mutex, ScrapeLock, At
  <2>3. CASE PutEvents(s) \/ PutDeliveries(s) \/ PutUnrouted(s)
      BY <1>1, <2>3 DEF Inv, TypeOK, Mutex, PutEvents, PutDeliveries, PutUnrouted, Put, At
  <2> QED
      BY <2>1, <2>2, <2>3
<1>5. EventsCounted' /\ UnroutedCounted' /\ DeliveriesCounted' /\ Last' /\ FreshIndex'
    BY <1>1, CountersKept DEF Inv, FreshIndex, counters
<1>6. PagesCurrent'
  <2>1. page \in [Scrapes -> Page] /\ events \in [Exchanges \X Types -> Nat]
        /\ deliveries \in [Exchanges \X Queues -> Nat] /\ unrouted \in [Exchanges -> Nat]
      BY DEF Inv, PagesCurrent, TypeOK
  <2>2. CASE Ask(s) \/ ScrapeLock(s)
      BY <1>1, <1>2, <2>2 DEF Inv, PagesCurrent, TypeOK, Ask, ScrapeLock, At
  <2>3. CASE PutEvents(s) \/ PutDeliveries(s) \/ PutUnrouted(s)
    <3>1. CASE PutEvents(s)
      <4> DEFINE answer == [page[s] EXCEPT !.events = events]
      <4>1. /\ scrape[s] = "events" /\ scrape' = [scrape EXCEPT ![s] = "deliveries"]
            /\ page' = [page EXCEPT ![s] = answer]
          BY <3>1 DEF PutEvents, Put, At
      <4>2. /\ answer \in Page /\ answer.events = events
          BY <2>1, <4>1 DEF Page, Inv, PagesCurrent
      <4> HIDE DEF answer
      <4> QED
          BY <1>1, <1>2, <2>1, <4>1, <4>2 DEF Inv, PagesCurrent, TypeOK
    <3>2. CASE PutDeliveries(s)
      <4> DEFINE answer == [page[s] EXCEPT !.deliveries = deliveries]
      <4>1. /\ scrape[s] = "deliveries" /\ scrape' = [scrape EXCEPT ![s] = "unrouted"]
            /\ page' = [page EXCEPT ![s] = answer]
          BY <3>2 DEF PutDeliveries, Put, At
      <4>2. /\ answer \in Page /\ answer.deliveries = deliveries
            /\ answer.events = events
          BY <2>1, <4>1 DEF Page, Inv, PagesCurrent
      <4> HIDE DEF answer
      <4> QED
          BY <1>1, <1>2, <2>1, <4>1, <4>2 DEF Inv, PagesCurrent, TypeOK
    <3>3. CASE PutUnrouted(s)
      <4> DEFINE answer == [page[s] EXCEPT !.unrouted = unrouted]
      <4>1. /\ scrape[s] = "unrouted" /\ scrape' = [scrape EXCEPT ![s] = "write"]
            /\ page' = [page EXCEPT ![s] = answer]
          BY <3>3 DEF PutUnrouted, Put, At
      <4>2. /\ answer \in Page /\ answer.unrouted = unrouted
            /\ answer.events = events
            /\ answer.deliveries = deliveries
          BY <2>1, <4>1 DEF Page, Inv, PagesCurrent
      <4> HIDE DEF answer
      <4> QED
          BY <1>1, <1>2, <2>1, <4>1, <4>2 DEF Inv, PagesCurrent, TypeOK
    <3> QED
        BY <2>3, <3>1, <3>2, <3>3
  <2> QED
      BY <2>2, <2>3
<1>7. ScrapesAreAtomic'
  <2>1. \A k : After(k)' = After(k)
      BY <1>1 DEF After
  <2> QED
      BY <1>1, <2>1 DEF Inv, ScrapesAreAtomic, N
<1> QED
    BY <1>3, <1>4, <1>5, <1>6, <1>7 DEF Inv

\* What a scrape is about to write are the maps, and all traces are in them.
LEMMA WrittenAtOnce ==
    ASSUME Inv, NEW s \in Scrapes, Write(s)
    PROVE  page[s] = After(N)
<1>1. scrape[s] = "write" /\ mu = s /\ ~Counting
  <2>1. scrape[s] = "write"
      BY DEF Write, At
  <2>2. mu = s
      BY <2>1 DEF Inv, Mutex
  <2> QED
      BY <2>1, <2>2, TypeFacts DEF Inv, Mutex
<1>2. /\ page[s] \in Page /\ page[s].events = events
      /\ page[s].deliveries = deliveries /\ page[s].unrouted = unrouted
    BY <1>1 DEF Inv, PagesCurrent
<1>3. page[s] = [events |-> events, deliveries |-> deliveries, unrouted |-> unrouted]
    BY <1>2 DEF Page
<1>4. events = [l \in Exchanges \X Types |-> Cardinality(EventsOf(rendered, N, l))]
    BY <1>1 DEF Inv, EventsCounted, Counting
<1>5. unrouted = [e \in Exchanges |-> Cardinality(UnroutedOf(rendered, N, e))]
    BY <1>1 DEF Inv, UnroutedCounted, Counting
<1>6. deliveries = [l \in Exchanges \X Queues |->
                      Cardinality(DeliveriesOf(rendered, Pairs(rendered, N), l))]
    BY <1>1 DEF Inv, DeliveriesCounted, CountedPairs
<1> QED
    BY <1>3, <1>4, <1>5, <1>6, AfterIs

\* A scrape holds mu when it answers, so that no trace is half-counted then.
LEMMA WriteInv == ASSUME Inv, NEW s \in Scrapes, Write(s) PROVE Inv'
<1> USE TypeFacts
<1>1. /\ UNCHANGED <<events, deliveries, unrouted, run, trace, at, page, rendered, asked>>
      /\ N' = N /\ Counting' = Counting /\ scrape[s] = "write" /\ mu' = Nobody
      /\ scrape' = [scrape EXCEPT ![s] = "done"]
    BY DEF Write, Counting, N, counters, At
<1>2. mu = s /\ ~Counting /\ run # "shutdown"
    BY <1>1 DEF Inv, Mutex
<1>3. TypeOK'
    BY <1>1 DEF Inv, TypeOK
<1>4. Mutex'
  <2>1. \A z \in Scrapes : z # s =>
            scrape[z] \notin {"events", "deliveries", "unrouted", "write"}
      BY <1>2 DEF Inv, Mutex
  <2> QED
      BY <1>1, <1>2, <2>1 DEF Inv, TypeOK, Mutex
<1>5. EventsCounted' /\ UnroutedCounted' /\ DeliveriesCounted' /\ Last' /\ FreshIndex'
    BY <1>1, CountersKept DEF Inv, FreshIndex, counters
<1>6. PagesCurrent'
    BY <1>1 DEF Inv, PagesCurrent, TypeOK
<1>7. page[s] = After(N)
    BY WrittenAtOnce
<1>8. ScrapesAreAtomic'
  <2>1. \A k : After(k)' = After(k)
      BY <1>1 DEF After
  <2>2. N \in asked[s]..N
      BY DEF Inv, TypeOK, PagesCurrent
  <2> QED
      BY <1>1, <1>7, <2>1, <2>2 DEF Inv, TypeOK, ScrapesAreAtomic, N
<1> QED
    BY <1>3, <1>4, <1>5, <1>6, <1>8 DEF Inv

LEMMA NextInv == Inv /\ [Next]_vars => Inv'
<1> SUFFICES ASSUME Inv, [Next]_vars PROVE Inv'
    OBVIOUS
<1>1. CASE \/ RenderTrace \/ CallClose \/ CloseLock \/ ShutdownCompletes
           \/ ShutdownTimesOut \/ Exit
    BY <1>1, RunInv DEF ShutdownCompletes, ShutdownTimesOut
<1>2. CASE Count
    BY <1>2, LockInv, EventInv, UnroutedInv, DeliveryInv, ReturnInv DEF Count
<1>3. ASSUME NEW s \in Scrapes, Ask(s) \/ ScrapeLock(s) \/ Answer(s) PROVE Inv'
    BY <1>3, ScrapeInv, WriteInv DEF Answer
<1>4. CASE Terminated \/ UNCHANGED vars
  <2>1. /\ UNCHANGED <<mu, counters, run, trace, at, scrape, page, rendered, asked>>
        /\ N' = N /\ Counting' = Counting
      BY <1>4 DEF Terminated, vars, N, Counting
  <2>2. EventsCounted' /\ UnroutedCounted' /\ DeliveriesCounted' /\ Last' /\ ScrapesAreAtomic'
      BY <2>1, CountersKept, AnswersKept
  <2>3. TypeOK' /\ Mutex' /\ FreshIndex' /\ PagesCurrent'
      BY <2>1 DEF Inv, TypeOK, Mutex, FreshIndex, PagesCurrent, counters
  <2> QED
      BY <2>2, <2>3 DEF Inv
<1> QED
    BY <1>1, <1>2, <1>3, <1>4 DEF Next, Close

\* The invariant that carries the proofs: the maps are what the traces so far, and
\* the part of the current one that Run has come to, amount to; who is at a step that
\* mu protects holds it; what a scrape has put together are the maps as they are.
THEOREM Inductive == Spec => []Inv
BY InitInv, NextInv, PTL DEF Spec

\* The maps have counters for the labels of the traces, and nothing but counters;
\* the index of the next destination stays within the trace.
THEOREM TypeCorrect == Spec => []TypeOK
<1>1. Inv => TypeOK
    BY DEF Inv
<1> QED
    BY Inductive, <1>1, PTL

\* With any number of scrapes and traces, the answer to a scrape is what the maps
\* were between two traces, after the scrape had begun (serveMetrics and RenderTrace
\* hold mu from their first access to the maps to their last).
THEOREM AtomicScrapes == Spec => []ScrapesAreAtomic
<1>1. Inv => ScrapesAreAtomic
    BY DEF Inv
<1> QED
    BY Inductive, <1>1, PTL

--------------------------------------------------------------------------------
(* Refinement *)

Abstract == <<rendered, Stopped, Waiting, Answers>>

LEMMA CounterInit == Init => CounterView!Init
<1> SUFFICES ASSUME Init PROVE CounterView!Init
    OBVIOUS
<1>1. Waiting = {} /\ {s \in Scrapes : scrape[s] = "done"} = {}
    BY DEF Init, Waiting, Active
<1>2. Answers = <<>>
    BY <1>1 DEF Answers
<1> QED
    BY <1>1, <1>2 DEF Init, CounterView!Init, Stopped

\* As long as no scrape begins or ends, and nothing is counted, nothing is to be seen.
LEMMA UnseenStep ==
    ASSUME UNCHANGED rendered,
           Stopped' <=> Stopped,
           \A s \in Scrapes : /\ scrape'[s] = "none" <=> scrape[s] = "none"
                              /\ scrape'[s] = "done" <=> scrape[s] = "done"
                              /\ scrape[s] = "done" => page'[s] = page[s]
    PROVE  UNCHANGED Abstract
<1>1. Waiting' = Waiting
    BY DEF Waiting, Active
<1>2. Answers' = Answers
  <2>1. {s \in Scrapes : scrape'[s] = "done"} = {s \in Scrapes : scrape[s] = "done"}
      OBVIOUS
  <2> QED
      BY <2>1 DEF Answers
<1> QED
    BY <1>1, <1>2 DEF Abstract

LEMMA CounterStep ==
    ASSUME Inv, [Next]_vars
    PROVE  [CounterView!Next]_Abstract
<1> USE DEF counters, Stopped
<1>1. /\ scrape \in [Scrapes -> {"none", "lock", "events", "deliveries", "unrouted", "write",
                                 "done"}]
      /\ page \in [Scrapes -> Page]
    BY DEF Inv, TypeOK, PagesCurrent
<1>2. ASSUME RenderLock PROVE CounterView!CountTrace(trace) /\ trace \in Traces
    BY <1>2 DEF RenderLock, Inv, TypeOK, FreshIndex, N, CounterView!CountTrace, Waiting,
        Active, Answers
<1>3. ASSUME NEW s \in Scrapes, Ask(s) PROVE CounterView!Ask(s)
  <2>1. Waiting' = Waiting \cup {s} /\ s \notin Waiting
      BY <1>1, <1>3 DEF Ask, Waiting, Active
  <2>2. Answers' = Answers
    <3>1. {z \in Scrapes : scrape'[z] = "done"} = {z \in Scrapes : scrape[z] = "done"}
        BY <1>1, <1>3 DEF Ask
    <3> QED
        BY <1>3, <3>1 DEF Ask, Answers
  <2>3. s \notin DOMAIN Answers
      BY <1>3 DEF Ask, Answers
  <2> QED
      BY <1>3, <2>1, <2>2, <2>3 DEF Ask, CounterView!Ask
<1>4. ASSUME NEW s \in Scrapes, Write(s) PROVE CounterView!Answer(s)
  <2>1. page[s] = Amount(rendered)
      BY <1>4, WrittenAtOnce DEF After, Amount, N
  <2>2. Waiting' = Waiting \ {s} /\ s \in Waiting
      BY <1>1, <1>4 DEF Write, Waiting, Active, At
  <2>3. Answers' = [z \in DOMAIN Answers \cup {s} |->
                      IF z = s THEN Amount(rendered) ELSE Answers[z]]
    <3>1. {z \in Scrapes : scrape'[z] = "done"} = {z \in Scrapes : scrape[z] = "done"} \cup {s}
        BY <1>1, <1>4 DEF Write, At
    <3>2. /\ page' = page /\ DOMAIN Answers = {z \in Scrapes : scrape[z] = "done"}
          /\ \A z \in DOMAIN Answers : Answers[z] = page[z]
        BY <1>4 DEF Write, Answers, At
    <3>3. Answers' = [z \in DOMAIN Answers \cup {s} |-> page[z]]
        BY <3>1, <3>2 DEF Answers
    <3> QED
        BY <2>1, <3>2, <3>3
  <2> QED
      BY <1>4, <2>2, <2>3 DEF Write, CounterView!Answer, At
<1>5. ASSUME CloseLock PROVE CounterView!Stop
    BY <1>5 DEF CloseLock, CounterView!Stop, Waiting, Active, Answers
<1>6. ASSUME \/ RenderTrace \/ CountEvent \/ CountUnrouted \/ CountDelivery \/ RenderReturn
             \/ CallClose \/ CloseReturn \/ Exit \/ Terminated \/ UNCHANGED vars
      PROVE  UNCHANGED Abstract
  <2>1. UNCHANGED <<rendered, scrape, page>>
      BY <1>6 DEF RenderTrace, CountEvent, CountUnrouted, CountDelivery, RenderReturn,
          CallClose, CloseReturn, Exit, Terminated, vars
  <2>2. Stopped' <=> Stopped
      BY <1>6 DEF RenderTrace, CountEvent, CountUnrouted, CountDelivery, RenderReturn,
          CallClose, CloseReturn, Exit, Terminated, vars
  <2> QED
      BY <1>1, <2>1, <2>2, UnseenStep
<1>7. ASSUME NEW s \in Scrapes, ScrapeLock(s) PROVE UNCHANGED Abstract
    BY <1>1, <1>7, UnseenStep DEF ScrapeLock, At
<1>8. ASSUME NEW s \in Scrapes, PutEvents(s) \/ PutDeliveries(s) \/ PutUnrouted(s)
      PROVE  UNCHANGED Abstract
  <2>1. PICK from \in {"events", "deliveries", "unrouted"},
             to \in {"deliveries", "unrouted", "write"} : \E answer : Put(s, from, to, answer)
      BY <1>8 DEF PutEvents, PutDeliveries, PutUnrouted
  <2>2. PICK answer : Put(s, from, to, answer)
      BY <2>1
  <2>3. /\ UNCHANGED <<rendered, run>> /\ scrape[s] = from
        /\ scrape' = [scrape EXCEPT ![s] = to] /\ page' = [page EXCEPT ![s] = answer]
      BY <2>2 DEF Put, At
  <2>4. \A z \in Scrapes : /\ scrape'[z] = "none" <=> scrape[z] = "none"
                           /\ scrape'[z] = "done" <=> scrape[z] = "done"
                           /\ scrape[z] = "done" => page'[z] = page[z]
      BY <1>1, <2>1, <2>3
  <2> QED
      BY <1>1, <2>3, <2>4, UnseenStep
<1>9. CASE UNCHANGED vars
    BY <1>6, <1>9
<1>10. CASE Next
  <2>1. ASSUME CounterView!Next PROVE [CounterView!Next]_Abstract
      BY <2>1
  <2>2. CASE RenderTrace \/ CallClose \/ Count \/ Close \/ Exit \/ Terminated
      BY <1>2, <1>5, <1>6, <2>2 DEF Count, Close, ShutdownCompletes, ShutdownTimesOut,
          CounterView!Next
  <2>3. CASE \E s \in Scrapes : Ask(s) \/ ScrapeLock(s) \/ Answer(s)
      BY <1>3, <1>4, <1>7, <1>8, <2>3 DEF Answer, CounterView!Next
  <2> QED
      BY <1>10, <2>2, <2>3 DEF Next
<1> QED
    BY <1>9, <1>10

\* The renderer with its mutex, its maps and its goroutines implements one counter of
\* whole traces (prometheusRenderer.RenderTrace, serveMetrics and Close).
THEOREM Refinement == Spec => ImplementsCounter
<1>1. Inv /\ [Next]_vars => [CounterView!Next]_Abstract
    BY CounterStep
<1> QED
    BY CounterInit, <1>1, Inductive, PTL DEF Spec, ImplementsCounter, CounterView!Spec, Abstract

================================================================================
