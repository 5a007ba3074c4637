--------------------------- MODULE WebRenderer_proofs ---------------------------
(***************************************************************************)
(* Proofs about WebRenderer, for any number of browser connections, buffer *)
(* capacity and number of traces.                                          *)
(***************************************************************************)
EXTENDS WebRenderer, SequenceTheorems, TLAPS

Waiting(c) == handler[c] \in {"none", "register"}

\* A connection that has not registered has not been sent anything.
Fresh == \A c \in Clients : Waiting(c) =>
            c \notin clients /\ ~chClosed[c] /\ ch[c] = <<>> /\ written[c] = <<>>

Increasing(s) == \A i, j \in 1..Len(s) : i < j => s[i] < s[j]
Within(s, low, high) == \A i \in 1..Len(s) : low < s[i] /\ s[i] <= high
Below(s, t) == \A i \in 1..Len(s), j \in 1..Len(t) : s[i] < t[j]

\* The three places in which the stream of a connection is, each in order ...
WrittenInOrder == \A c \in Clients :
    Increasing(written[c]) /\ Within(written[c], joined[c], traces)

BufferInOrder == \A c \in Clients :
    /\ joined[c] <= traces
    /\ Increasing(ch[c]) /\ Within(ch[c], joined[c], traces)
    /\ Below(written[c], ch[c])

\* ... and the message in the goroutine's hand between the other two.
HandInOrder == \A c \in Clients : handler[c] = "write" =>
    /\ joined[c] < hand[c] /\ hand[c] <= traces
    /\ \A i \in 1..Len(written[c]) : written[c][i] < hand[c]
    /\ \A j \in 1..Len(ch[c]) : hand[c] < ch[c][j]

\* What was last taken out of a buffer is before all that is in it ...
HandBehind == \A c \in Clients :
    hand[c] <= traces /\ \A j \in 1..Len(ch[c]) : hand[c] < ch[c][j]

\* ... and no more is in it than has been rendered since its first message.
Tight == \A c \in Clients : \A i \in 1..Len(ch[c]) :
    ch[c][i] + (Len(ch[c]) - i) <= traces

\* Close has closed the listener when others see that the renderer is closed.
ListenerClosed == closed => closing # "no"

Inv == /\ TypeOK /\ ClientsAreOpen /\ Fresh /\ ListenerClosed
       /\ WrittenInOrder /\ BufferInOrder /\ HandInOrder /\ HandBehind /\ Tight

--------------------------------------------------------------------------------
LEMMA HeadAndTail ==
    ASSUME NEW S, NEW s \in Seq(S), s # <<>>
    PROVE  /\ Len(s) \in Nat \ {0}
           /\ Head(s) = s[1] /\ Head(s) \in S
           /\ Tail(s) \in Seq(S) /\ Len(Tail(s)) = Len(s) - 1
           /\ \A i \in 1..Len(Tail(s)) : Tail(s)[i] = s[i + 1]
OBVIOUS

\* What Longer(t, s, e) says of t: it is s with e after it.
Longer(t, s, e) ==
    /\ Len(s) \in Nat /\ Len(t) = Len(s) + 1
    /\ \A i \in 1..Len(s) : t[i] = s[i]
    /\ t[Len(s) + 1] = e

LEMMA AppendFacts ==
    ASSUME NEW S, NEW s \in Seq(S), NEW e \in S
    PROVE  Append(s, e) \in Seq(S) /\ Longer(Append(s, e), s, e)
BY DEF Longer

LEMMA EmptyInOrder ==
    ASSUME NEW s, NEW low, NEW high
    PROVE  /\ Increasing(<<>>) /\ Within(<<>>, low, high)
           /\ Below(<<>>, s) /\ Below(s, <<>>)
BY DEF Increasing, Within, Below

\* One more element at the upper end keeps a sequence in order and within bounds.
LEMMA LongerInOrder ==
    ASSUME NEW s, NEW t, NEW e, NEW low, NEW high, Longer(t, s, e), Increasing(s),
           Within(s, low, high), \A i \in 1..Len(s) : s[i] < e, low < e, e <= high
    PROVE  Increasing(t) /\ Within(t, low, high)
<1>1. ASSUME NEW i \in 1..Len(t)
      PROVE  (i \in 1..Len(s) /\ t[i] = s[i]) \/ (i = Len(s) + 1 /\ t[i] = e)
    BY DEF Longer
<1>2. Within(t, low, high)
    BY <1>1 DEF Within
<1>3. Increasing(t)
  <2> SUFFICES ASSUME NEW i \in 1..Len(t), NEW j \in 1..Len(t), i < j
               PROVE  t[i] < t[j]
      BY DEF Increasing
  <2>1. i \in 1..Len(s) /\ t[i] = s[i]
      BY <1>1 DEF Longer
  <2>2. CASE j \in 1..Len(s) /\ t[j] = s[j]
      BY <2>1, <2>2 DEF Increasing
  <2>3. CASE j = Len(s) + 1 /\ t[j] = e
      BY <2>1, <2>3
  <2> QED
      BY <1>1, <2>2, <2>3
<1> QED
    BY <1>2, <1>3

\* ... and above any sequence its parts are above.
LEMMA LongerAbove ==
    ASSUME NEW s, NEW t, NEW e, NEW u, Longer(t, s, e), Below(u, s),
           \A i \in 1..Len(u) : u[i] < e
    PROVE  Below(u, t)
<1>1. ASSUME NEW i \in 1..Len(t)
      PROVE  (i \in 1..Len(s) /\ t[i] = s[i]) \/ (i = Len(s) + 1 /\ t[i] = e)
    BY DEF Longer
<1> QED
    BY <1>1 DEF Below

\* ... and below any.
LEMMA LongerBelow ==
    ASSUME NEW s, NEW t, NEW e, NEW u, Longer(t, s, e), Below(s, u),
           \A i \in 1..Len(u) : e < u[i]
    PROVE  Below(t, u)
<1>1. ASSUME NEW i \in 1..Len(t)
      PROVE  (i \in 1..Len(s) /\ t[i] = s[i]) \/ (i = Len(s) + 1 /\ t[i] = e)
    BY DEF Longer
<1> QED
    BY <1>1 DEF Below

LEMMA InitInv == Init => Inv
<1> SUFFICES ASSUME Init PROVE Inv
    OBVIOUS
<1>w. Buffer \in Nat \ {0} /\ MaxTraces \in Nat
    BY WebAssumption
<1> USE <1>w DEF Init
<1>1. TypeOK
  <2>1. <<>> \in Seq(Trace) /\ Len(<<>>) = 0
      OBVIOUS
  <2>2. /\ ch \in [Clients -> Seq(Trace)] /\ written \in [Clients -> Seq(Trace)]
        /\ \A c \in Clients : Len(ch[c]) <= Buffer
      BY <2>1 DEF Trace
  <2>3. chClosed \in [Clients -> BOOLEAN] /\ gone \in [Clients -> BOOLEAN]
      OBVIOUS
  <2>4. /\ clients \subseteq Clients /\ closed \in BOOLEAN /\ timedOut \in BOOLEAN
        /\ handler \in [Clients -> {"none", "register", "loop", "write", "deregister", "done"}]
        /\ closing \in {"no", "shutdown", "returned", "exited"}
      OBVIOUS
  <2>5. /\ hand \in [Clients -> 0..MaxTraces] /\ joined \in [Clients -> 0..MaxTraces]
        /\ traces \in 0..MaxTraces
      OBVIOUS
  <2> QED
      BY <2>2, <2>3, <2>4, <2>5 DEF TypeOK
<1>2. ClientsAreOpen /\ Fresh /\ ListenerClosed /\ HandInOrder /\ HandBehind /\ Tight
    BY DEF ClientsAreOpen, Fresh, ListenerClosed, HandInOrder, HandBehind, Tight
<1>3. WrittenInOrder /\ BufferInOrder
    BY EmptyInOrder DEF WrittenInOrder, BufferInOrder
<1> QED
    BY <1>1, <1>2, <1>3 DEF Inv

LEMMA NextInv == Inv /\ [Next]_vars => Inv'
<1> SUFFICES ASSUME Inv, [Next]_vars PROVE Inv'
    OBVIOUS
<1>w. Buffer \in Nat \ {0} /\ MaxTraces \in Nat
    BY WebAssumption
<1> USE <1>w DEF Inv, channels, history, At, Alive
<1>l. ListenerClosed'
  <2>1. CASE Close \/ Shutdown \/ Exit
      BY <2>1 DEF Close, Shutdown, ShutdownCompletes, ShutdownTimesOut, Exit, ListenerClosed
  <2>2. ASSUME UNCHANGED <<closed, closing>> PROVE ListenerClosed'
      BY <2>2 DEF ListenerClosed
  <2>3. ASSUME NEW c \in Clients, Open(c) \/ Disconnect(c) \/ Handler(c)
        PROVE  UNCHANGED <<closed, closing>>
      BY <2>3 DEF Open, Disconnect, Handler, Register, Receive, ChannelClosed, ContextDone,
                  Write, Deregister
  <2>4. CASE RenderTrace \/ RenderTraceClosed \/ Terminated \/ UNCHANGED vars
      BY <2>2, <2>4 DEF RenderTrace, RenderTraceClosed, Terminated, vars
  <2> QED
      BY <2>1, <2>2, <2>3, <2>4 DEF Next
<1> USE <1>l
<1>0. CASE UNCHANGED vars
    BY <1>0 DEF vars, TypeOK, ClientsAreOpen, Fresh, Waiting, WrittenInOrder,
        BufferInOrder, HandInOrder, HandBehind, Tight
<1>a. ASSUME NEW c \in Clients
      PROVE  /\ ch[c] \in Seq(Trace) /\ written[c] \in Seq(Trace)
             /\ Len(ch[c]) \in Nat /\ Len(written[c]) \in Nat /\ joined[c] \in Nat
    BY DEF TypeOK
<1>t. /\ ch \in [Clients -> Seq(Trace)] /\ written \in [Clients -> Seq(Trace)]
      /\ joined \in [Clients -> Nat] /\ gone \in [Clients -> BOOLEAN] /\ traces \in Nat
    BY DEF TypeOK
<1>1. ASSUME NEW c \in Clients, Open(c) PROVE Inv'
    BY <1>1 DEF Open, TypeOK, ClientsAreOpen, Fresh, Waiting, WrittenInOrder,
        BufferInOrder, HandInOrder, HandBehind, Tight
<1>2. ASSUME NEW c \in Clients, Disconnect(c) PROVE Inv'
    BY <1>2 DEF Disconnect, TypeOK, ClientsAreOpen, Fresh, Waiting, WrittenInOrder,
        BufferInOrder, HandInOrder, HandBehind, Tight
<1>3. ASSUME NEW c \in Clients, Register(c) PROVE Inv'
  <2>1. TypeOK' /\ ClientsAreOpen' /\ Fresh'
      BY <1>3 DEF Register, TypeOK, ClientsAreOpen, Fresh, Waiting
  <2>2. ch[c] = <<>> /\ written[c] = <<>>
      BY <1>3 DEF Register, Fresh, Waiting
  <2>5. /\ UNCHANGED <<ch, hand, written, traces>>
        /\ \A d \in Clients : d # c => joined'[d] = joined[d] /\ handler'[d] = handler[d]
        /\ joined'[c] = traces /\ handler'[c] = "loop"
      BY <1>3 DEF Register, TypeOK
  <2>6. WrittenInOrder'
      BY <2>2, <2>5, EmptyInOrder DEF WrittenInOrder
  <2>7. BufferInOrder'
    <3>1. ch[c] = <<>> /\ written[c] = <<>> /\ joined'[c] = traces /\ traces <= traces
        BY <1>t, <2>2, <2>5
    <3>2. BufferInOrder!(c)'
        BY <2>5, <3>1, EmptyInOrder, Zenon
    <3>3. ASSUME NEW d \in Clients, d # c PROVE BufferInOrder!(d)'
        BY <2>5, <3>3 DEF BufferInOrder
    <3> QED
        BY <3>2, <3>3 DEF BufferInOrder
  <2>8. HandInOrder'
      BY <2>5 DEF HandInOrder
  <2>3. WrittenInOrder' /\ BufferInOrder' /\ HandInOrder'
      BY <2>6, <2>7, <2>8
  <2>4. HandBehind' /\ Tight'
      BY <2>5 DEF HandBehind, Tight
  <2> QED
      BY <2>1, <2>3, <2>4
<1>4. ASSUME NEW c \in Clients, ChannelClosed(c) \/ ContextDone(c) PROVE Inv'
  <2>1. TypeOK' /\ ClientsAreOpen' /\ Fresh'
      BY <1>4 DEF ChannelClosed, ContextDone, TypeOK, ClientsAreOpen, Fresh, Waiting
  <2>2. WrittenInOrder' /\ BufferInOrder'
      BY <1>4 DEF ChannelClosed, ContextDone, WrittenInOrder, BufferInOrder
  <2>4. HandInOrder'
      BY <1>4 DEF ChannelClosed, ContextDone, TypeOK, HandInOrder
  <2>3. HandBehind' /\ Tight'
      BY <1>4 DEF ChannelClosed, ContextDone, HandBehind, Tight
  <2> QED
      BY <2>1, <2>2, <2>3, <2>4
<1>5. ASSUME NEW c \in Clients, Deregister(c) PROVE Inv'
    BY <1>5 DEF Deregister, TypeOK, ClientsAreOpen, Fresh, Waiting, WrittenInOrder,
        BufferInOrder, HandInOrder, HandBehind, Tight
<1>6. ASSUME NEW c \in Clients, Receive(c) PROVE Inv'
  <2>1. /\ Len(ch[c]) \in Nat \ {0}
        /\ Head(ch[c]) = ch[c][1] /\ Head(ch[c]) \in Trace
        /\ Tail(ch[c]) \in Seq(Trace) /\ Len(Tail(ch[c])) = Len(ch[c]) - 1
        /\ \A i \in 1..Len(Tail(ch[c])) : Tail(ch[c])[i] = ch[c][i + 1]
      BY <1>6, HeadAndTail DEF Receive, TypeOK
  <2>2. TypeOK'
      BY <1>6, <2>1 DEF Receive, TypeOK, Trace
  <2>3. ClientsAreOpen' /\ Fresh'
      BY <1>6 DEF Receive, TypeOK, ClientsAreOpen, Fresh, Waiting
  <2>4. WrittenInOrder'
      BY <1>6 DEF Receive, TypeOK, WrittenInOrder
  <2>8. /\ ch' = [ch EXCEPT ![c] = Tail(ch[c])] /\ hand' = [hand EXCEPT ![c] = ch[c][1]]
        /\ handler' = [handler EXCEPT ![c] = "write"] /\ UNCHANGED <<written, joined, traces>>
        /\ \A i \in 1..Len(Tail(ch[c])) : i + 1 \in 1..Len(ch[c]) /\ 1 \in 1..Len(ch[c])
      BY <1>6, <2>1 DEF Receive
  <2>5. BufferInOrder'
    <3> SUFFICES ASSUME NEW d \in Clients PROVE BufferInOrder!(d)'
        BY DEF BufferInOrder
    <3>1. CASE d = c
      <4>1. /\ ch'[c] = Tail(ch[c]) /\ UNCHANGED <<written, joined, traces>>
            /\ Len(Tail(ch[c])) = Len(ch[c]) - 1 /\ Len(ch[c]) \in Nat
            /\ \A i \in 1..Len(Tail(ch[c])) : Tail(ch[c])[i] = ch[c][i + 1]
          BY <2>1, <2>8 DEF TypeOK
      <4> QED
          BY <3>1, <4>1 DEF BufferInOrder, Increasing, Within, Below
    <3>2. CASE d # c
        BY <2>8, <3>2 DEF TypeOK, BufferInOrder
    <3> QED
        BY <3>1, <3>2
  <2>6. HandInOrder'
    <3> SUFFICES ASSUME NEW d \in Clients PROVE HandInOrder!(d)'
        BY DEF HandInOrder
    <3>1. CASE d = c
      <4>1. /\ ch'[c] = Tail(ch[c]) /\ hand'[c] = ch[c][1]
            /\ UNCHANGED <<written, joined, traces>>
            /\ Len(Tail(ch[c])) = Len(ch[c]) - 1 /\ Len(ch[c]) \in Nat \ {0}
            /\ \A i \in 1..Len(Tail(ch[c])) : Tail(ch[c])[i] = ch[c][i + 1]
          BY <2>1, <2>8 DEF TypeOK
      <4> QED
          BY <3>1, <4>1 DEF BufferInOrder, Increasing, Within, Below
    <3>2. CASE d # c
        BY <2>8, <3>2 DEF TypeOK, HandInOrder
    <3> QED
        BY <3>1, <3>2
  <2>7. ASSUME NEW d \in Clients PROVE HandBehind!(d)' /\ Tight!(d)'
    <3>1. CASE d = c
      <4>1. /\ ch'[c] = Tail(ch[c]) /\ hand'[c] = ch[c][1] /\ UNCHANGED traces
            /\ Len(Tail(ch[c])) = Len(ch[c]) - 1 /\ Len(ch[c]) \in Nat \ {0}
            /\ \A i \in 1..Len(Tail(ch[c])) : Tail(ch[c])[i] = ch[c][i + 1]
          BY <2>1, <2>8 DEF TypeOK
      <4>2. HandBehind!(c)'
          BY <4>1 DEF BufferInOrder, Increasing, Within
      <4>3. ASSUME NEW i \in 1..Len(ch'[c])
            PROVE  ch'[c][i] + (Len(ch'[c]) - i) <= traces'
        <5>1. /\ i + 1 \in 1..Len(ch[c]) /\ ch'[c][i] = ch[c][i + 1]
              /\ Len(ch'[c]) - i = Len(ch[c]) - (i + 1)
            BY <4>1
        <5>2. ch[c][i + 1] + (Len(ch[c]) - (i + 1)) <= traces
            BY <5>1 DEF Tight
        <5> QED
            BY <4>1, <5>1, <5>2
      <4> QED
          BY <3>1, <4>2, <4>3
    <3>2. CASE d # c
        BY <2>8, <3>2 DEF TypeOK, HandBehind, Tight
    <3> QED
        BY <3>1, <3>2
  <2>9. HandBehind' /\ Tight'
      BY <2>7 DEF HandBehind, Tight
  <2> QED
      BY <2>2, <2>3, <2>4, <2>5, <2>6, <2>9
<1>7. ASSUME NEW c \in Clients, Write(c) PROVE Inv'
  <2>1. hand[c] \in Trace
      BY <1>7 DEF Write, TypeOK, HandInOrder, Trace
  <2>2. /\ Append(written[c], hand[c]) \in Seq(Trace)
        /\ Longer(Append(written[c], hand[c]), written[c], hand[c])
      BY <2>1, AppendFacts DEF TypeOK
  <2>3. TypeOK'
      BY <1>7, <2>2 DEF Write, TypeOK
  <2>4. ClientsAreOpen' /\ Fresh'
      BY <1>7 DEF Write, TypeOK, ClientsAreOpen, Fresh, Waiting
  <2>5. HandBehind' /\ Tight'
      BY <1>7 DEF Write, HandBehind, Tight
  <2>9. ASSUME NEW d \in Clients
        PROVE  \/ written'[d] = written[d]
               \/ /\ Longer(written'[d], written[d], hand[d])
                  /\ hand[d] \in Trace /\ handler[d] = "write"
      BY <1>7, <2>1, <2>2 DEF Write, TypeOK
  <2>a. UNCHANGED <<ch, joined, traces>>
      BY <1>7 DEF Write
  <2>6. ASSUME NEW d \in Clients
        PROVE  WrittenInOrder!(d)' /\ BufferInOrder!(d)'
    <3>1. CASE written'[d] = written[d]
        BY <2>a, <3>1 DEF WrittenInOrder, BufferInOrder
    <3>2. CASE Longer(written'[d], written[d], hand[d]) /\ hand[d] \in Trace /\ handler[d] = "write"
      <4>1. /\ joined[d] < hand[d] /\ hand[d] <= traces
            /\ \A i \in 1..Len(written[d]) : written[d][i] < hand[d]
            /\ \A j \in 1..Len(ch[d]) : hand[d] < ch[d][j]
          BY <3>2 DEF HandInOrder
      <4>2. /\ hand[d] \in Int /\ joined[d] \in Int /\ traces \in Int
            /\ \A i \in 1..Len(written[d]) : written[d][i] \in Int
          BY <1>a, <1>t, <3>2 DEF Trace
      <4>3. Increasing(written'[d]) /\ Within(written'[d], joined[d], traces)
          BY <3>2, <4>1, <4>2, LongerInOrder DEF WrittenInOrder
      <4>4. Below(written'[d], ch[d])
          BY <3>2, <4>1, LongerBelow DEF BufferInOrder
      <4> QED
          BY <2>a, <4>3, <4>4 DEF BufferInOrder
    <3> QED
        BY <2>9, <3>1, <3>2
  <2>7. WrittenInOrder' /\ BufferInOrder'
      BY <2>6 DEF WrittenInOrder, BufferInOrder
  <2>8. HandInOrder'
      BY <1>7 DEF Write, TypeOK, HandInOrder
  <2> QED
      BY <2>3, <2>4, <2>5, <2>7, <2>8
<1>8. CASE RenderTrace
  <2>1. traces + 1 \in Trace
      BY <1>8 DEF RenderTrace, TypeOK, Trace
  <2>2. ASSUME NEW c \in Clients
        PROVE  /\ Append(ch[c], traces + 1) \in Seq(Trace)
               /\ Longer(Append(ch[c], traces + 1), ch[c], traces + 1)
      BY <2>1, AppendFacts DEF TypeOK
  <2>3. TypeOK'
      BY <1>8, <2>1, <2>2 DEF RenderTrace, Full, TypeOK, Longer
  <2>4. ClientsAreOpen' /\ Fresh'
      BY <1>8 DEF RenderTrace, ClientsAreOpen, Fresh, Waiting
  <2>5. ASSUME NEW c \in Clients PROVE HandBehind!(c)' /\ Tight!(c)'
    <3>1. /\ hand'[c] = hand[c] /\ traces' = traces + 1 /\ traces \in Int /\ hand[c] \in Int
          /\ Len(ch[c]) \in Nat /\ \A i \in 1..Len(ch[c]) : ch[c][i] \in Int
      <4>1. \A i \in 1..Len(ch[c]) : ch[c][i] \in Trace
          BY <1>a
      <4> QED
          BY <1>8, <1>a, <4>1 DEF RenderTrace, TypeOK, Trace
    <3>2. /\ hand[c] <= traces /\ \A j \in 1..Len(ch[c]) : hand[c] < ch[c][j]
          /\ \A i \in 1..Len(ch[c]) : ch[c][i] + (Len(ch[c]) - i) <= traces
        BY DEF HandBehind, Tight
    <3>3. CASE ch'[c] = ch[c]
        BY <3>1, <3>2, <3>3
    <3>4. CASE Longer(ch'[c], ch[c], traces + 1)
      <4>1. ASSUME NEW i \in 1..Len(ch'[c])
            PROVE  \/ i \in 1..Len(ch[c]) /\ ch'[c][i] = ch[c][i]
                   \/ i = Len(ch'[c]) /\ ch'[c][i] = traces + 1
          BY <3>4 DEF Longer
      <4>2. Len(ch'[c]) = Len(ch[c]) + 1
          BY <3>4 DEF Longer
      <4>3. ASSUME NEW i \in 1..Len(ch'[c])
            PROVE  hand[c] < ch'[c][i] /\ ch'[c][i] + (Len(ch'[c]) - i) <= traces + 1
        <5>1. CASE i \in 1..Len(ch[c]) /\ ch'[c][i] = ch[c][i]
          <6> DEFINE e == ch[c][i]
                     n == Len(ch[c])
                     h == hand[c]
          <6>1. /\ h < e /\ e + (n - i) <= traces /\ e \in Int /\ n \in Int /\ h \in Int
                /\ i \in Int /\ traces \in Int
              BY <3>1, <3>2, <5>1
          <6>2. ch'[c][i] = e /\ Len(ch'[c]) = n + 1
              BY <4>2, <5>1
          <6> HIDE DEF e, n, h
          <6>3. h < e /\ e + ((n + 1) - i) <= traces + 1
              BY <6>1
          <6> QED
              BY <6>2, <6>3 DEF h
        <5>2. CASE i = Len(ch'[c]) /\ ch'[c][i] = traces + 1
            BY <3>1, <3>2, <4>2, <5>2
        <5> QED
            BY <4>1, <5>1, <5>2
      <4>4. hand[c] <= traces + 1
          BY <3>1, <3>2
      <4> QED
          BY <3>1, <4>3, <4>4
    <3> QED
        BY <1>8, <2>2, <3>3, <3>4 DEF RenderTrace
  <2>c. HandBehind' /\ Tight'
      BY <2>5 DEF HandBehind, Tight
  <2>9. /\ UNCHANGED <<written, joined>> /\ traces' = traces + 1
        /\ traces \in Int /\ traces + 1 \in Int /\ traces <= traces + 1
      BY <1>8, <1>t DEF RenderTrace
  <2>a. ASSUME NEW c \in Clients, NEW s, Len(s) \in Nat, \A i \in 1..Len(s) : s[i] \in Int,
               Within(s, joined[c], traces)
        PROVE  Within(s, joined[c], traces + 1) /\ \A i \in 1..Len(s) : s[i] < traces + 1
      BY <1>a, <2>9, <2>a DEF Within
  <2>b. ASSUME NEW c \in Clients
        PROVE  /\ \A i \in 1..Len(written[c]) : written[c][i] \in Int
               /\ \A i \in 1..Len(ch[c]) : ch[c][i] \in Int
               /\ joined[c] \in Int /\ joined[c] <= traces /\ joined[c] < traces + 1
    <3>1. ASSUME NEW s \in Seq(Trace), NEW i \in 1..Len(s) PROVE s[i] \in Int
      <4>1. s[i] \in Trace
          OBVIOUS
      <4> QED
          BY <4>1 DEF Trace
    <3>2. joined[c] \in Int /\ joined[c] <= traces
        BY <1>a DEF BufferInOrder
    <3>3. joined[c] < traces + 1
        BY <2>9, <3>2
    <3> QED
        BY <1>a, <3>1, <3>2, <3>3
  <2>6. WrittenInOrder'
      BY <1>a, <2>9, <2>a, <2>b DEF WrittenInOrder
  <2>7. BufferInOrder'
    <3> SUFFICES ASSUME NEW c \in Clients PROVE BufferInOrder!(c)'
        BY DEF BufferInOrder
    <3>1. /\ Within(ch[c], joined[c], traces + 1)
          /\ \A i \in 1..Len(ch[c]) : ch[c][i] < traces + 1
        BY <1>a, <2>a, <2>b DEF BufferInOrder
    <3>2. \A i \in 1..Len(written[c]) : written[c][i] < traces + 1
        BY <1>a, <2>a, <2>b DEF WrittenInOrder
    <3>3. CASE ch'[c] = ch[c]
        BY <2>9, <2>b, <3>1, <3>3 DEF BufferInOrder
    <3>4. CASE Longer(ch'[c], ch[c], traces + 1)
      <4>1. Increasing(ch'[c]) /\ Within(ch'[c], joined[c], traces + 1)
          BY <2>9, <2>b, <3>1, <3>4, LongerInOrder DEF BufferInOrder
      <4>2. Below(written[c], ch'[c])
          BY <3>2, <3>4, LongerAbove DEF BufferInOrder
      <4> QED
          BY <2>9, <2>b, <4>1, <4>2
    <3> QED
        BY <1>8, <2>2, <3>3, <3>4 DEF RenderTrace
  <2>8. HandInOrder'
      BY <1>8, <2>2 DEF RenderTrace, TypeOK, HandInOrder, Trace, Longer
  <2> QED
      BY <2>3, <2>4, <2>6, <2>7, <2>8, <2>c
<1>9. CASE Close
  <2>1. TypeOK'
      BY <1>9 DEF Close, TypeOK
  <2>2. ClientsAreOpen' /\ Fresh'
      BY <1>9 DEF Close, ClientsAreOpen, Fresh, Waiting
  <2>3. WrittenInOrder' /\ BufferInOrder' /\ HandInOrder'
      BY <1>9 DEF Close, WrittenInOrder, BufferInOrder, HandInOrder
  <2>4. HandBehind' /\ Tight'
      BY <1>9 DEF Close, HandBehind, Tight
  <2> QED
      BY <2>1, <2>2, <2>3, <2>4
<1>10. CASE Shutdown \/ Exit
  <2>1. /\ closing' \in {"no", "shutdown", "returned", "exited"} /\ timedOut' \in BOOLEAN
        /\ UNCHANGED <<closed, clients, ch, chClosed, handler, hand, gone, traces, joined,
                        written>>
      BY <1>10 DEF Shutdown, ShutdownCompletes, ShutdownTimesOut, Exit, TypeOK
  <2>2. TypeOK' /\ ClientsAreOpen' /\ Fresh'
      BY <2>1 DEF TypeOK, ClientsAreOpen, Fresh, Waiting
  <2>3. WrittenInOrder' /\ BufferInOrder' /\ HandInOrder' /\ HandBehind' /\ Tight'
      BY <2>1 DEF WrittenInOrder, BufferInOrder, HandInOrder, HandBehind, Tight
  <2> QED
      BY <2>2, <2>3
<1> QED
    BY <1>0, <1>1, <1>2, <1>3, <1>4, <1>5, <1>6, <1>7, <1>8, <1>9, <1>10
    DEF Next, Handler, RenderTraceClosed, Terminated

THEOREM Inductive == Spec => []Inv
<1> QED
    BY InitInv, NextInv, PTL DEF Spec

\* Every variable keeps its type: no buffer ever holds more than its capacity.
THEOREM TypeCorrect == Spec => []TypeOK
<1>1. Inv => TypeOK
    BY DEF Inv
<1> QED
    BY <1>1, Inductive, PTL

\* RenderTrace and Close never touch a closed channel, whenever the connections
\* come and go.
THEOREM OpenClients == Spec => []ClientsAreOpen
<1>1. Inv => ClientsAreOpen
    BY DEF Inv
<1> QED
    BY <1>1, Inductive, PTL

--------------------------------------------------------------------------------
\* Two ordered sequences, the first below the second, make an ordered one.
LEMMA Concatenation ==
    ASSUME NEW s \in Seq(Int), NEW t \in Seq(Int), NEW low \in Int, NEW high \in Int,
           Increasing(s), Increasing(t), Below(s, t), Within(s, low, high),
           Within(t, low, high)
    PROVE  /\ s \o t \in Seq(Int) /\ Increasing(s \o t) /\ Within(s \o t, low, high)
           /\ Len(s \o t) = Len(s) + Len(t)
           /\ \A i \in 1..Len(s) : (s \o t)[i] = s[i]
           /\ \A i \in 1..Len(t) : (s \o t)[Len(s) + i] = t[i]
<1> DEFINE st == s \o t
<1>1. /\ st \in Seq(Int) /\ Len(st) = Len(s) + Len(t) /\ Len(s) \in Nat /\ Len(t) \in Nat
      /\ \A i \in 1..Len(s) : st[i] = s[i] /\ s[i] \in Int
      /\ \A i \in 1..Len(t) : st[Len(s) + i] = t[i] /\ t[i] \in Int
    OBVIOUS
<1>2. ASSUME NEW i \in 1..Len(st)
      PROVE  i \in 1..Len(s) \/ \E k \in 1..Len(t) : i = Len(s) + k
  <2>1. i > Len(s) => i - Len(s) \in 1..Len(t) /\ i = Len(s) + (i - Len(s))
      BY <1>1
  <2>2. i > Len(s) => \E k \in 1..Len(t) : i = Len(s) + k
      BY <2>1
  <2>3. i <= Len(s) => i \in 1..Len(s)
      BY <1>1
  <2>4. i <= Len(s) \/ i > Len(s)
      BY <1>1
  <2> QED
      BY <2>2, <2>3, <2>4
<1> HIDE DEF st
<1>3. Within(st, low, high)
    BY <1>1, <1>2 DEF Within
<1>4. Increasing(st)
  <2> SUFFICES ASSUME NEW i \in 1..Len(st), NEW j \in 1..Len(st), i < j
               PROVE  st[i] < st[j]
      BY DEF Increasing
  <2>1. CASE i \in 1..Len(s) /\ j \in 1..Len(s)
      BY <1>1, <2>1 DEF Increasing
  <2>2. ASSUME NEW k \in 1..Len(t), i = Len(s) + k, NEW m \in 1..Len(t), j = Len(s) + m
        PROVE  st[i] < st[j]
    <3>1. k < m
        BY <1>1, <2>2
    <3> QED
        BY <1>1, <2>2, <3>1 DEF Increasing
  <2>3. ASSUME i \in 1..Len(s), NEW m \in 1..Len(t), j = Len(s) + m
        PROVE  st[i] < st[j]
      BY <1>1, <2>3 DEF Below
  <2>4. ~(j \in 1..Len(s) /\ \E k \in 1..Len(t) : i = Len(s) + k)
      BY <1>1
  <2> QED
      BY <1>2, <2>1, <2>2, <2>3, <2>4
<1> QED
    BY <1>1, <1>3, <1>4 DEF st

\* The parts of a connection's stream make an ordered whole.
LEMMA StreamFacts ==
    ASSUME Inv, NEW c \in Clients
    PROVE  /\ Increasing(Stream(c)) /\ Within(Stream(c), joined[c], traces)
           /\ Len(Stream(c)) = Len(written[c]) + Len(InFlight(c)) + Len(ch[c])
<1> DEFINE w == written[c]
           h == InFlight(c)
           b == ch[c]
<1>1. /\ w \in Seq(Int) /\ b \in Seq(Int) /\ joined[c] \in Int /\ traces \in Int
      /\ hand[c] \in Int
  <2>1. Trace \subseteq Int /\ 0..MaxTraces \subseteq Int
      BY WebAssumption DEF Trace
  <2>2. /\ written[c] \in Seq(Trace) /\ ch[c] \in Seq(Trace)
        /\ joined[c] \in 0..MaxTraces /\ traces \in 0..MaxTraces /\ hand[c] \in 0..MaxTraces
      BY DEF Inv, TypeOK
  <2>3. ASSUME NEW s \in Seq(Trace) PROVE s \in Seq(Int)
    <3>1. Len(s) \in Nat /\ s = [i \in 1..Len(s) |-> s[i]]
        OBVIOUS
    <3>2. ASSUME NEW i \in 1..Len(s) PROVE s[i] \in Int
      <4>1. s[i] \in Trace
          OBVIOUS
      <4> QED
          BY <2>1, <4>1
    <3> QED
        BY <3>1, <3>2
  <2> QED
      BY <2>1, <2>2, <2>3
<1>2. /\ h \in Seq(Int) /\ Increasing(h) /\ Within(h, joined[c], traces)
      /\ Below(w, h) /\ Below(h, b)
  <2>1. CASE handler[c] = "write"
      BY <1>1, <2>1 DEF InFlight, Inv, HandInOrder, Increasing, Within, Below
  <2>2. CASE handler[c] # "write"
      BY <2>2 DEF InFlight, Increasing, Within, Below
  <2> QED
      BY <2>1, <2>2
<1>3. /\ Increasing(w) /\ Within(w, joined[c], traces) /\ Increasing(b)
      /\ Within(b, joined[c], traces) /\ Below(w, b)
    BY DEF Inv, WrittenInOrder, BufferInOrder, Increasing, Within, Below
<1> HIDE DEF w, h, b
<1>4. /\ w \o h \in Seq(Int) /\ Increasing(w \o h) /\ Within(w \o h, joined[c], traces)
      /\ Len(w \o h) = Len(w) + Len(h)
      /\ \A i \in 1..Len(w) : (w \o h)[i] = w[i]
      /\ \A i \in 1..Len(h) : (w \o h)[Len(w) + i] = h[i]
    BY <1>1, <1>2, <1>3, Concatenation
<1>5. Below(w \o h, b)
  <2> DEFINE wh == w \o h
  <2>0. Len(w) \in Nat /\ Len(h) \in Nat
      BY <1>1, <1>2
  <2>1. /\ Len(wh) = Len(w) + Len(h) /\ Len(w) \in Nat /\ Len(h) \in Nat
        /\ \A i \in 1..Len(w) : wh[i] = w[i]
        /\ \A i \in 1..Len(h) : wh[Len(w) + i] = h[i]
      BY <1>4, <2>0, Zenon
  <2> HIDE DEF wh
  <2>2. ASSUME NEW i \in 1..Len(wh), NEW j \in 1..Len(b) PROVE wh[i] < b[j]
    <3>1. CASE i \in 1..Len(w)
        BY <1>3, <2>1, <3>1 DEF Below
    <3>2. CASE i > Len(w)
      <4>1. i - Len(w) \in 1..Len(h) /\ i = Len(w) + (i - Len(w))
          BY <2>1, <3>2
      <4> QED
          BY <1>2, <2>1, <4>1 DEF Below
    <3> QED
        BY <2>1, <3>1, <3>2
  <2> QED
      BY <2>2 DEF Below, wh
<1>6. /\ Increasing((w \o h) \o b) /\ Within((w \o h) \o b, joined[c], traces)
      /\ Len((w \o h) \o b) = Len(w \o h) + Len(b)
    BY <1>1, <1>3, <1>4, <1>5, Concatenation
<1> QED
    BY <1>4, <1>6 DEF Stream, w, h, b

\* A browser is sent each trace at most once, in the order of rendering, and none
\* from before it registered.
THEOREM OrderedStreams == Spec => []StreamInOrder
<1>1. Inv => StreamInOrder
    BY StreamFacts DEF StreamInOrder, Increasing, Within
<1> QED
    BY <1>1, Inductive, PTL

--------------------------------------------------------------------------------
(* Nothing is lost within a buffer *)

\* The goroutine takes the head of the buffer.
LEMMA Taken ==
    ASSUME NEW S, NEW w \in Seq(S), NEW b \in Seq(S), b # <<>>
    PROVE  (w \o <<Head(b)>>) \o Tail(b) = (w \o <<>>) \o b
<1>1. Head(b) \in S /\ Tail(b) \in Seq(S) /\ <<Head(b)>> \in Seq(S)
    BY HeadTailProperties
<1>2. <<Head(b)>> \o Tail(b) = b
  <2>1. /\ Len(b) \in Nat \ {0} /\ Head(b) = b[1] /\ Len(Tail(b)) = Len(b) - 1
        /\ \A i \in 1..Len(Tail(b)) : Tail(b)[i] = b[i + 1]
      BY HeadAndTail
  <2> DEFINE hb == <<Head(b)>> \o Tail(b)
  <2>2. /\ hb \in Seq(S) /\ Len(hb) = 1 + Len(Tail(b))
        /\ \A i \in 1..(1 + Len(Tail(b))) :
              hb[i] = IF i <= 1 THEN <<Head(b)>>[i] ELSE Tail(b)[i - 1]
      BY <1>1, ConcatProperties
  <2> HIDE DEF hb
  <2>3. ASSUME NEW i \in 1..Len(hb) PROVE hb[i] = b[i]
    <3>1. CASE i = 1
        BY <2>1, <2>2, <3>1
    <3>2. CASE i > 1
      <4>1. i - 1 \in 1..Len(Tail(b)) /\ (i - 1) + 1 = i
          BY <2>1, <2>2, <3>2
      <4> QED
          BY <2>1, <2>2, <3>2, <4>1
    <3> QED
        BY <2>1, <2>2, <3>1, <3>2
  <2>4. hb = b
      BY <2>1, <2>2, <2>3, SeqEqual
  <2> QED
      BY <2>4 DEF hb
<1>3. (w \o <<Head(b)>>) \o Tail(b) = w \o (<<Head(b)>> \o Tail(b))
    BY <1>1, ConcatAssociative
<1>4. w \o <<>> = w
    BY ConcatEmptySeq
<1> QED
    BY <1>2, <1>3, <1>4

\* It has written the message in its hand.
LEMMA Handed ==
    ASSUME NEW S, NEW w \in Seq(S), NEW b \in Seq(S), NEW e \in S
    PROVE  (Append(w, e) \o <<>>) \o b = (w \o <<e>>) \o b
<1>1. Append(w, e) \in Seq(S) /\ Append(w, e) = w \o <<e>>
    BY AppendProperties, AppendIsConcat
<1>2. Append(w, e) \o <<>> = Append(w, e)
    BY <1>1, ConcatEmptySeq
<1> QED
    BY <1>1, <1>2

\* A message is put into the buffer.
LEMMA Added ==
    ASSUME NEW S, NEW w \in Seq(S), NEW h \in Seq(S), NEW b \in Seq(S), NEW e \in S
    PROVE  (w \o h) \o Append(b, e) = Append((w \o h) \o b, e)
<1> DEFINE wh == w \o h
<1>1. wh \in Seq(S) /\ <<e>> \in Seq(S)
    BY ConcatProperties
<1> HIDE DEF wh
<1>2. wh \o b \in Seq(S)
    BY <1>1, ConcatProperties
<1>3. Append(b, e) = b \o <<e>> /\ Append(wh \o b, e) = (wh \o b) \o <<e>>
    BY <1>2, AppendIsConcat
<1>4. (wh \o b) \o <<e>> = wh \o (b \o <<e>>)
    BY <1>1, ConcatAssociative
<1> QED
    BY <1>3, <1>4 DEF wh

\* A buffer holds no more than its connection is behind by.
LEMMA BufferWithinBehind ==
    ASSUME Inv, NEW c \in Clients, Full(c)
    PROVE  Behind(c) >= Buffer
<1>1. /\ Buffer \in Nat \ {0} /\ ch[c] \in Seq(Trace) /\ Len(ch[c]) \in Nat
      /\ joined[c] \in Int /\ hand[c] \in Int /\ traces \in Int
    BY WebAssumption DEF Inv, TypeOK
<1>2. Len(ch[c]) >= Buffer /\ 1 \in 1..Len(ch[c])
    BY <1>1 DEF Full
<1>3. ch[c][1] \in Int
  <2>1. ch[c][1] \in Trace
      BY <1>1, <1>2
  <2> QED
      BY <2>1 DEF Trace
<1>4. ch[c][1] + (Len(ch[c]) - 1) <= traces
    BY <1>2 DEF Inv, Tight
<1>5. joined[c] < ch[c][1] /\ hand[c] < ch[c][1]
    BY <1>2 DEF Inv, BufferInOrder, Within, HandBehind
<1> DEFINE b == Len(ch[c])
           first == ch[c][1]
           last == IF joined[c] < hand[c] THEN hand[c] ELSE joined[c]
<1>6. /\ b >= Buffer /\ first + (b - 1) <= traces /\ last < first
      /\ b \in Nat /\ first \in Int /\ last \in Int /\ Behind(c) = traces - last
    BY <1>1, <1>2, <1>3, <1>4, <1>5 DEF Behind
<1> HIDE DEF b, first, last
<1>7. traces - last >= Buffer
    BY <1>1, <1>6
<1> QED
    BY <1>6, <1>7

\* What a step does to the stream of a connection whose browser is there: it keeps
\* it, or renders a trace and adds that, or finds the buffer full.
Kept(c) ==
    /\ Stream(c)' = Stream(c)
    /\ c \in clients /\ traces' # traces => Behind(c) >= Buffer

Extended(c) ==
    /\ c \in clients /\ traces' # traces
    /\ Stream(c)' = Append(Stream(c), traces')

LEMMA StreamSteps ==
    ASSUME Inv, [Next]_vars, NEW c \in Clients, ~gone[c]
    PROVE  Kept(c) \/ Extended(c)
<1> USE DEF channels, history, At, Alive
<1>t. /\ ch \in [Clients -> Seq(Trace)] /\ written \in [Clients -> Seq(Trace)]
      /\ handler \in [Clients -> {"none", "register", "loop", "write", "deregister", "done"}]
      /\ hand \in [Clients -> 0..MaxTraces] /\ traces \in Int /\ MaxTraces \in Nat
    BY WebAssumption DEF Inv, TypeOK
<1>0. ASSUME /\ written'[c] = written[c] /\ ch'[c] = ch[c] /\ hand'[c] = hand[c]
             /\ (handler'[c] = "write") <=> (handler[c] = "write")
             /\ traces' = traces
      PROVE  Kept(c)
    BY <1>0 DEF Kept, Stream, InFlight
<1>1. ASSUME NEW d \in Clients,
             Open(d) \/ Disconnect(d) \/ Register(d) \/ ChannelClosed(d)
                \/ ContextDone(d) \/ Deregister(d)
      PROVE  Kept(c)
  <2>1. /\ UNCHANGED <<written, ch, hand, traces>>
        /\ (handler'[c] = "write") <=> (handler[c] = "write")
      BY <1>1, <1>t DEF Open, Disconnect, Register, ChannelClosed, ContextDone, Deregister
  <2> QED
      BY <1>0, <2>1
<1>2. ASSUME NEW d \in Clients, Receive(d) \/ Write(d), d # c PROVE Kept(c)
  <2>1. /\ written'[c] = written[c] /\ ch'[c] = ch[c] /\ hand'[c] = hand[c]
        /\ handler'[c] = handler[c] /\ traces' = traces
      BY <1>2, <1>t DEF Receive, Write
  <2> QED
      BY <1>0, <2>1
<1>3. CASE Receive(c)
  <2>1. /\ written'[c] = written[c] /\ ch[c] # <<>> /\ ch'[c] = Tail(ch[c])
        /\ hand'[c] = Head(ch[c]) /\ handler[c] = "loop" /\ handler'[c] = "write"
        /\ traces' = traces
      BY <1>3, <1>t DEF Receive
  <2>2. /\ Stream(c) = (written[c] \o <<>>) \o ch[c]
        /\ Stream(c)' = (written[c] \o <<Head(ch[c])>>) \o Tail(ch[c])
      BY <2>1 DEF Stream, InFlight
  <2>3. (written[c] \o <<Head(ch[c])>>) \o Tail(ch[c]) = (written[c] \o <<>>) \o ch[c]
      BY <1>t, <2>1, Taken
  <2> QED
      BY <2>1, <2>2, <2>3 DEF Kept
<1>4. CASE Write(c)
  <2>1. /\ written'[c] = Append(written[c], hand[c]) /\ ch'[c] = ch[c]
        /\ handler[c] = "write" /\ handler'[c] = "loop" /\ traces' = traces
      BY <1>4, <1>t DEF Write
  <2>2. /\ Stream(c) = (written[c] \o <<hand[c]>>) \o ch[c]
        /\ Stream(c)' = (Append(written[c], hand[c]) \o <<>>) \o ch[c]
      BY <2>1 DEF Stream, InFlight
  <2>3. hand[c] \in Trace
      BY <1>t, <2>1 DEF Inv, TypeOK, HandInOrder, Trace
  <2>4. (Append(written[c], hand[c]) \o <<>>) \o ch[c] = (written[c] \o <<hand[c]>>) \o ch[c]
      BY <1>t, <2>3, Handed
  <2> QED
      BY <2>1, <2>2, <2>4 DEF Kept
<1>5. CASE RenderTrace
  <2>0. traces + 1 \in Trace
      BY <1>5, <1>t DEF RenderTrace, Inv, TypeOK, Trace
  <2>1. /\ written'[c] = written[c] /\ hand'[c] = hand[c] /\ handler'[c] = handler[c]
        /\ traces' = traces + 1
        /\ ch'[c] = IF c \in clients /\ ~Full(c) THEN Append(ch[c], traces + 1) ELSE ch[c]
      BY <1>5 DEF RenderTrace
  <2>2. CASE c \in clients /\ ~Full(c)
    <3>1. /\ Stream(c) = (written[c] \o InFlight(c)) \o ch[c]
          /\ Stream(c)' = (written[c] \o InFlight(c)) \o Append(ch[c], traces + 1)
        BY <2>1, <2>2 DEF Stream, InFlight
    <3>2. InFlight(c) \in Seq(Trace)
      <4>1. CASE handler[c] = "write"
        <5>1. hand[c] \in Trace
            BY <1>t, <4>1 DEF Inv, TypeOK, HandInOrder, Trace
        <5> QED
            BY <4>1, <5>1 DEF InFlight
      <4>2. CASE handler[c] # "write"
          BY <4>2 DEF InFlight
      <4> QED
          BY <4>1, <4>2
    <3>3. (written[c] \o InFlight(c)) \o Append(ch[c], traces + 1)
             = Append((written[c] \o InFlight(c)) \o ch[c], traces + 1)
      <4> DEFINE w == written[c]
                 h == InFlight(c)
                 b == ch[c]
                 e == traces + 1
      <4>1. w \in Seq(Trace) /\ h \in Seq(Trace) /\ b \in Seq(Trace) /\ e \in Trace
          BY <1>t, <2>0, <3>2
      <4> HIDE DEF w, h, b, e
      <4>2. (w \o h) \o Append(b, e) = Append((w \o h) \o b, e)
          BY <4>1, Added
      <4> QED
          BY <4>2 DEF w, h, b, e
    <3> QED
        BY <1>t, <2>1, <2>2, <3>1, <3>3 DEF Extended
  <2>3. CASE c \in clients => Full(c)
    <3>1. Stream(c)' = Stream(c)
        BY <2>1, <2>3 DEF Stream, InFlight
    <3>2. c \in clients => Behind(c) >= Buffer
        BY <2>3, BufferWithinBehind
    <3> QED
        BY <3>1, <3>2 DEF Kept
  <2> QED
      BY <2>2, <2>3
<1>6. CASE Close \/ Shutdown \/ Exit \/ Terminated \/ RenderTraceClosed \/ UNCHANGED vars
  <2>1. UNCHANGED <<written, ch, hand, handler, traces>>
      BY <1>6 DEF Close, Shutdown, ShutdownCompletes, ShutdownTimesOut, Exit, Terminated,
                  RenderTraceClosed, vars
  <2> QED
      BY <1>0, <2>1
<1> QED
    BY <1>1, <1>2, <1>3, <1>4, <1>5, <1>6 DEF Next, Handler

\* A browser that is there loses a trace only by being a whole buffer behind when the
\* trace is rendered.
THEOREM BufferKeeps == Spec => NothingLostWithinBuffer
<1>1. Inv /\ [Next]_vars =>
        [\A c \in Clients : ~gone[c] =>
            \/ /\ Stream(c)' = Stream(c)
               /\ c \in clients /\ traces' # traces => Behind(c) >= Buffer
            \/ /\ c \in clients /\ traces' # traces
               /\ Stream(c)' = Append(Stream(c), traces')]_vars
    BY StreamSteps DEF Kept, Extended
<1> QED
    BY Inductive, <1>1, PTL DEF Spec, NothingLostWithinBuffer

--------------------------------------------------------------------------------
(* A closed renderer runs down *)

StepsAt(h) ==
    CASE h \in {"register", "write"} -> 3
      [] h = "loop"                  -> 2
      [] h = "deregister"            -> 1
      [] OTHER                       -> 0

LEMMA StepsAre ==
    /\ StepsAt("register") = 3 /\ StepsAt("write") = 3 /\ StepsAt("loop") = 2
    /\ StepsAt("deregister") = 1 /\ StepsAt("done") = 0
    /\ \A h : StepsAt(h) \in Nat
BY DEF StepsAt

\* What a step does to a connection once the renderer is closed: it advances its
\* goroutine, which may take a message, or it leaves both alone.
Advancing(c) == ch'[c] = ch[c] /\ StepsAt(handler'[c]) < StepsAt(handler[c])

Fetching(c) ==
    /\ handler[c] = "loop" /\ handler'[c] = "write"
    /\ Len(ch'[c]) = Len(ch[c]) - 1

Resting(c) == ch'[c] = ch[c] /\ handler'[c] = handler[c]

LEMMA ClosedSteps ==
    ASSUME Inv, [Next]_vars, closed, NEW c \in Clients
    PROVE  Advancing(c) \/ Fetching(c) \/ Resting(c)
<1> USE DEF channels, history, At, Alive
<1>1. /\ handler \in [Clients -> {"none", "register", "loop", "write", "deregister", "done"}]
      /\ ch \in [Clients -> Seq(Trace)]
    BY DEF Inv, TypeOK
<1>2. ASSUME NEW d \in Clients, NEW h, NEW g,
             handler[d] = h, handler' = [handler EXCEPT ![d] = g], UNCHANGED ch,
             StepsAt(g) < StepsAt(h)
      PROVE  Advancing(c) \/ Resting(c)
    BY <1>1, <1>2 DEF Advancing, Resting
<1>3. /\ StepsAt("loop") < StepsAt("register") /\ StepsAt("loop") < StepsAt("write")
      /\ StepsAt("deregister") < StepsAt("loop") /\ StepsAt("done") < StepsAt("deregister")
    BY StepsAre
<1>4. ASSUME NEW d \in Clients, Register(d) PROVE Advancing(c) \/ Resting(c)
  <2>1. /\ handler[d] = "register" /\ handler' = [handler EXCEPT ![d] = "loop"]
        /\ UNCHANGED ch
      BY <1>4 DEF Register
  <2> QED
      BY <1>2, <1>3, <2>1
<1>5. ASSUME NEW d \in Clients, ChannelClosed(d) \/ ContextDone(d)
      PROVE  Advancing(c) \/ Resting(c)
  <2>1. /\ handler[d] = "loop" /\ handler' = [handler EXCEPT ![d] = "deregister"]
        /\ UNCHANGED ch
      BY <1>5 DEF ChannelClosed, ContextDone
  <2> QED
      BY <1>2, <1>3, <2>1
<1>6. ASSUME NEW d \in Clients, Write(d) PROVE Advancing(c) \/ Resting(c)
  <2>1. /\ handler[d] = "write" /\ handler' = [handler EXCEPT ![d] = "loop"]
        /\ UNCHANGED ch
      BY <1>6 DEF Write
  <2> QED
      BY <1>2, <1>3, <2>1
<1>7. ASSUME NEW d \in Clients, Deregister(d) PROVE Advancing(c) \/ Resting(c)
  <2>1. /\ handler[d] = "deregister" /\ handler' = [handler EXCEPT ![d] = "done"]
        /\ UNCHANGED ch
      BY <1>7 DEF Deregister
  <2> QED
      BY <1>2, <1>3, <2>1
<1>8. ASSUME NEW d \in Clients, Receive(d) PROVE Fetching(c) \/ Resting(c)
  <2>1. /\ handler[d] = "loop" /\ handler' = [handler EXCEPT ![d] = "write"]
        /\ ch' = [ch EXCEPT ![d] = Tail(ch[d])] /\ ch[d] \in Seq(Trace) /\ ch[d] # <<>>
      BY <1>1, <1>8 DEF Receive
  <2>2. Len(Tail(ch[d])) = Len(ch[d]) - 1
      BY <2>1, HeadAndTail
  <2> QED
      BY <1>1, <2>1, <2>2 DEF Fetching, Resting
<1>9. ASSUME NEW d \in Clients, Open(d) PROVE FALSE
    BY <1>9 DEF Open, Inv, ListenerClosed
<1>10. ASSUME NEW d \in Clients, Disconnect(d) PROVE Resting(c)
    BY <1>10 DEF Disconnect, Resting
<1>11. CASE RenderTrace \/ RenderTraceClosed \/ Close \/ Shutdown \/ Exit \/ Terminated
               \/ UNCHANGED vars
  <2>1. CASE RenderTrace
      BY <2>1 DEF RenderTrace
  <2>2. CASE RenderTraceClosed \/ Close \/ Shutdown \/ Exit \/ Terminated \/ UNCHANGED vars
      BY <2>2 DEF RenderTraceClosed, Close, Shutdown, ShutdownCompletes, ShutdownTimesOut,
                  Exit, Terminated, vars, Resting
  <2> QED
      BY <1>11, <2>1, <2>2
<1> QED
    BY <1>4, <1>5, <1>6, <1>7, <1>8, <1>9, <1>10, <1>11 DEF Next, Handler

LEMMA LeftIs ==
    ASSUME NEW c \in Clients
    PROVE  /\ Left(c) = 2 * Len(ch[c]) + StepsAt(handler[c])
           /\ Left(c)' = 2 * Len(ch'[c]) + StepsAt(handler'[c])
BY DEF Left, StepsAt

\* No step after Close gives a goroutine more to do, so that each is done with its
\* connection, or waits for its browser or for the mutex, after finitely many.
THEOREM RunsDownWhenClosed == Spec => ClosedRunsDown
<1>1. ASSUME Inv, Inv', [Next]_vars, closed, NEW c \in Clients
      PROVE  /\ Left(c)' <= Left(c)
             /\ handler'[c] # handler[c] => Left(c)' < Left(c)
  <2> DEFINE n == Len(ch[c])
             m == Len(ch'[c])
             h == StepsAt(handler[c])
             g == StepsAt(handler'[c])
  <2>1. n \in Nat /\ m \in Nat
      BY <1>1 DEF Inv, TypeOK
  <2>2. h \in Nat /\ g \in Nat
      BY StepsAre
  <2>3. Left(c) = 2 * n + h /\ Left(c)' = 2 * m + g
      BY LeftIs
  <2>4. \/ m = n /\ g < h
        \/ m = n - 1 /\ g = 3 /\ h = 2
        \/ m = n /\ g = h /\ handler'[c] = handler[c]
      BY <1>1, ClosedSteps, StepsAre DEF Advancing, Fetching, Resting
  <2> HIDE DEF n, m, h, g
  <2> QED
      BY <2>1, <2>2, <2>3, <2>4
<1>2. Inv /\ Inv' /\ [Next]_vars =>
        [closed => \A c \in Clients :
            /\ Left(c)' <= Left(c)
            /\ handler'[c] # handler[c] => Left(c)' < Left(c)]_vars
    BY <1>1
<1> QED
    BY Inductive, <1>2, PTL DEF Spec, ClosedRunsDown

--------------------------------------------------------------------------------
LEMMA BroadcastInit == Init => BroadcastView!Init
BY DEF Init, BroadcastView!Init, Members

LEMMA BroadcastStep ==
    ASSUME Inv, [Next]_vars
    PROVE  [BroadcastView!Next]_<<traces, closed, Members, joined, written>>
<1> USE DEF channels, history, At, Alive
<1>1. ASSUME NEW c \in Clients, Register(c) PROVE BroadcastView!Join(c)
    BY <1>1 DEF Register, Inv, TypeOK, Members, BroadcastView!Join
<1>2. ASSUME NEW c \in Clients, Write(c)
      PROVE  (UNCHANGED written /\ Members' = Members) \/ BroadcastView!See(c, hand[c])
  <2>1. Members' = Members /\ c \in Members
      BY <1>2 DEF Write, Inv, TypeOK, Members
  <2> QED
      BY <1>2, <2>1 DEF Write, Inv, HandInOrder, BroadcastView!See
<1>3. ASSUME RenderTrace PROVE BroadcastView!Render
    BY <1>3 DEF RenderTrace, Members, BroadcastView!Render
<1>4. ASSUME Close PROVE BroadcastView!Stop
    BY <1>4 DEF Close, Members, BroadcastView!Stop
<1>5. ASSUME NEW c \in Clients,
             Open(c) \/ Disconnect(c) \/ Receive(c) \/ ChannelClosed(c) \/ ContextDone(c)
                \/ Deregister(c)
      PROVE  UNCHANGED <<traces, closed, Members, joined, written>>
    BY <1>5 DEF Open, Disconnect, Receive, ChannelClosed, ContextDone, Deregister, Members,
        Inv, TypeOK
<1>6. ASSUME Shutdown \/ Exit \/ Terminated \/ RenderTraceClosed \/ UNCHANGED vars
      PROVE  UNCHANGED <<traces, closed, Members, joined, written>>
    BY <1>6 DEF Shutdown, ShutdownCompletes, ShutdownTimesOut, Exit, Terminated,
                RenderTraceClosed, vars, Members
<1>7. ASSUME NEW c \in Clients, Write(c)
      PROVE  [BroadcastView!Next]_<<traces, closed, Members, joined, written>>
  <2>1. hand[c] \in 1..MaxTraces
      BY <1>7, WebAssumption DEF Write, Inv, HandInOrder, TypeOK
  <2>2. UNCHANGED <<traces, closed, joined>>
      BY <1>7 DEF Write
  <2> QED
      BY <1>2, <1>7, <2>1, <2>2 DEF BroadcastView!Next
<1> QED
    BY <1>1, <1>3, <1>4, <1>5, <1>6, <1>7 DEF Next, Handler, BroadcastView!Next

\* The renderer with its mutex, channels and goroutines implements the broadcast.
THEOREM Refinement == Spec => ImplementsBroadcast
<1>1. Init /\ [][Next]_vars /\ []Inv => BroadcastView!Spec
    BY BroadcastInit, BroadcastStep, PTL DEF BroadcastView!Spec
<1> QED
    BY <1>1, Inductive, PTL DEF Spec, ImplementsBroadcast

================================================================================
