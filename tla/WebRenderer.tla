------------------------------- MODULE WebRenderer -------------------------------
(***************************************************************************)
(* internal/output/web.go: the renderer behind --output=web. An HTTP       *)
(* server runs one goroutine (serveSSE) per browser connection; the        *)
(* goroutine that runs Service.Run calls RenderTrace and, at the end,      *)
(* Close. They share the map of clients under the mutex mu.                *)
(*                                                                         *)
(* Close holds mu from its first line to its return, through the wait in   *)
(* server.Shutdown; every other critical section is one atomic action, so  *)
(* mu is taken exactly while a Close is in progress.                       *)
(*                                                                         *)
(* The t-th trace rendered is the number t. What a connection's browser    *)
(* has received is kept in written: internal/web/page.html adds each trace *)
(* to its graph once and has no other source.                              *)
(***************************************************************************)
EXTENDS Integers, Sequences, FiniteSets

CONSTANTS
    Clients,    \* the browser connections to /events
    Buffer,     \* capacity of a client's channel, 32 in the code
    MaxTraces   \* bound on the traces rendered

ASSUME WebAssumption ==
    /\ IsFiniteSet(Clients)
    /\ Buffer \in Nat \ {0}
    /\ MaxTraces \in Nat

VARIABLES
    closed,     \* field of webRenderer
    clients,    \* field of webRenderer: the connections whose channel is in it
    ch,         \* ch[c]: the messages buffered in the channel of connection c
    chClosed,   \* chClosed[c]: that channel is closed
    handler,    \* handler[c]: control of serveSSE
    hand,       \* hand[c]: the message serveSSE is writing, or has written last
    gone,       \* gone[c]: the request's context is done, the browser is away
    closing,    \* control of Close: "no", "shutdown" or "returned"; then "exited"
    timedOut,   \* history: server.Shutdown gave up
    traces,     \* history: the number of traces rendered
    joined,     \* history: joined[c]: their number when c registered
    written     \* history: written[c]: what the browser of c has received

channels == <<ch, chClosed>>
history == <<timedOut, traces, joined, written>>
vars == <<closed, clients, channels, handler, hand, gone, closing, history>>

Trace == 1..MaxTraces

TypeOK ==
    /\ closed \in BOOLEAN
    /\ clients \subseteq Clients
    /\ ch \in [Clients -> Seq(Trace)]
    /\ \A c \in Clients : Len(ch[c]) <= Buffer
    /\ chClosed \in [Clients -> BOOLEAN]
    /\ handler \in [Clients -> {"none", "register", "loop", "write", "deregister",
                                "done"}]
    /\ hand \in [Clients -> 0..MaxTraces]
    /\ gone \in [Clients -> BOOLEAN]
    /\ closing \in {"no", "shutdown", "returned", "exited"}
    /\ timedOut \in BOOLEAN
    /\ traces \in 0..MaxTraces
    /\ joined \in [Clients -> 0..MaxTraces]
    /\ written \in [Clients -> Seq(Trace)]

Init ==
    /\ closed = FALSE
    /\ clients = {}
    /\ ch = [c \in Clients |-> <<>>]
    /\ chClosed = [c \in Clients |-> FALSE]
    /\ handler = [c \in Clients |-> "none"]
    /\ hand = [c \in Clients |-> 0]
    /\ gone = [c \in Clients |-> FALSE]
    /\ closing = "no"
    /\ timedOut = FALSE
    /\ traces = 0
    /\ joined = [c \in Clients |-> 0]
    /\ written = [c \in Clients |-> <<>>]

MutexFree == closing # "shutdown"

\* main returns after Close, and all goroutines end with the process.
Alive == closing # "exited"

--------------------------------------------------------------------------------
(* The browsers (external). *)

\* A request for /events is accepted, until Shutdown closes the listener.
Open(c) ==
    /\ closing = "no"
    /\ handler[c] = "none"
    /\ handler' = [handler EXCEPT ![c] = "register"]
    /\ UNCHANGED <<closed, clients, channels, hand, gone, closing, history>>

Disconnect(c) ==
    /\ Alive
    /\ handler[c] \in {"register", "loop", "write"}
    /\ ~gone[c]
    /\ gone' = [gone EXCEPT ![c] = TRUE]
    /\ UNCHANGED <<closed, clients, channels, handler, hand, closing, history>>

--------------------------------------------------------------------------------
(* serveSSE, one goroutine per connection. *)

At(c, stage) == Alive /\ handler[c] = stage

Register(c) ==
    /\ At(c, "register")
    /\ MutexFree
    /\ clients' = clients \cup {c}
    /\ handler' = [handler EXCEPT ![c] = "loop"]
    /\ joined' = [joined EXCEPT ![c] = traces]
    /\ UNCHANGED <<closed, channels, hand, gone, closing, timedOut, traces, written>>

\* Seeded fault: the message is read but stays in the buffer.
Receive_Peeks(c) ==
    /\ At(c, "loop")
    /\ ch[c] # <<>>
    /\ hand' = [hand EXCEPT ![c] = Head(ch[c])]
    /\ handler' = [handler EXCEPT ![c] = "write"]
    /\ UNCHANGED <<closed, clients, channels, gone, closing, history>>

Receive(c) ==
    /\ At(c, "loop")
    /\ ch[c] # <<>>
    /\ hand' = [hand EXCEPT ![c] = Head(ch[c])]
    /\ ch' = [ch EXCEPT ![c] = Tail(@)]
    /\ handler' = [handler EXCEPT ![c] = "write"]
    /\ UNCHANGED <<closed, clients, chClosed, gone, closing, history>>

\* Seeded fault: the goroutine leaves as soon as the renderer is closed.
ChannelClosed_Undrained(c) ==
    /\ At(c, "loop")
    /\ chClosed[c]
    /\ handler' = [handler EXCEPT ![c] = "deregister"]
    /\ UNCHANGED <<closed, clients, channels, hand, gone, closing, history>>

\* Seeded fault: the loop has no branch for the request's context.
ContextDone_Ignored(c) == FALSE

\* A closed channel is drained before it reports that it is closed.
ChannelClosed(c) ==
    /\ At(c, "loop")
    /\ chClosed[c]
    /\ ch[c] = <<>>
    /\ handler' = [handler EXCEPT ![c] = "deregister"]
    /\ UNCHANGED <<closed, clients, channels, hand, gone, closing, history>>

ContextDone(c) ==
    /\ At(c, "loop")
    /\ gone[c]
    /\ handler' = [handler EXCEPT ![c] = "deregister"]
    /\ UNCHANGED <<closed, clients, channels, hand, gone, closing, history>>

\* Fprintf and Flush, whose errors are ignored: to a browser that is away the
\* message is lost. There is no write timeout, so a browser that stays and does
\* not read keeps the goroutine here.
Write(c) ==
    /\ At(c, "write")
    /\ handler' = [handler EXCEPT ![c] = "loop"]
    /\ written' = IF gone[c] THEN written
                  ELSE [written EXCEPT ![c] = Append(@, hand[c])]
    /\ UNCHANGED <<closed, clients, channels, hand, gone, closing, timedOut, traces,
                   joined>>

\* The deferred delete.
Deregister(c) ==
    /\ At(c, "deregister")
    /\ MutexFree
    /\ clients' = clients \ {c}
    /\ handler' = [handler EXCEPT ![c] = "done"]
    /\ UNCHANGED <<closed, channels, hand, gone, closing, history>>

--------------------------------------------------------------------------------
(* RenderTrace and Close, on the goroutine that runs Service.Run. *)

\* Seeded faults: a buffer without a limit, and one that gives up a place early.
Full_Never(c) == FALSE
Full_Early(c) == Len(ch[c]) + 1 >= Buffer

Full(c) == Len(ch[c]) >= Buffer

\* Seeded fault: the field closed is not looked at.
RenderTrace_Unchecked ==
    /\ MutexFree
    /\ traces < MaxTraces
    /\ traces' = traces + 1
    /\ ch' = [c \in Clients |-> IF c \in clients /\ ~Full(c)
                                THEN Append(ch[c], traces + 1) ELSE ch[c]]
    /\ UNCHANGED <<closed, clients, chClosed, handler, hand, gone, closing, timedOut,
                   joined, written>>

\* A message for each client whose buffer has room; a full one loses it.
RenderTrace ==
    /\ MutexFree
    /\ ~closed
    /\ traces < MaxTraces
    /\ traces' = traces + 1
    /\ ch' = [c \in Clients |-> IF c \in clients /\ ~Full(c)
                                THEN Append(ch[c], traces + 1) ELSE ch[c]]
    /\ UNCHANGED <<closed, clients, chClosed, handler, hand, gone, closing, timedOut,
                   joined, written>>

\* A closed renderer ignores traces.
RenderTraceClosed ==
    /\ Alive
    /\ MutexFree
    /\ closed
    /\ UNCHANGED vars

\* Seeded fault: the channels are closed but stay in the map.
Close_KeepsClients ==
    /\ MutexFree
    /\ ~closed
    /\ closed' = TRUE
    /\ chClosed' = [c \in Clients |-> chClosed[c] \/ c \in clients]
    /\ closing' = "shutdown"
    /\ UNCHANGED <<clients, ch, handler, hand, gone, history>>

\* Close up to the call of server.Shutdown, which closes the listener.
Close ==
    /\ MutexFree
    /\ ~closed
    /\ closed' = TRUE
    /\ chClosed' = [c \in Clients |-> chClosed[c] \/ c \in clients]
    /\ clients' = {}
    /\ closing' = "shutdown"
    /\ UNCHANGED <<ch, handler, hand, gone, history>>

Active(c) == handler[c] \notin {"none", "done"}

\* Shutdown waits for the connections to become idle ...
ShutdownCompletes ==
    /\ closing = "shutdown"
    /\ \A c \in Clients : ~Active(c)
    /\ closing' = "returned"
    /\ UNCHANGED <<closed, clients, channels, handler, hand, gone, timedOut, traces,
                   joined, written>>

\* Seeded fault: Shutdown gets a context without a timeout.
ShutdownTimesOut_Never == FALSE

\* ... or for its context's five seconds. They are long: by then every goroutine
\* that can proceed has done so, and those left wait for mu, or for a browser
\* that does not read.
ShutdownTimesOut ==
    /\ closing = "shutdown"
    /\ \E c \in Clients : Active(c)
    /\ \A c \in Clients : handler[c] # "loop"
    /\ closing' = "returned"
    /\ timedOut' = TRUE
    /\ UNCHANGED <<closed, clients, channels, handler, hand, gone, traces, joined,
                   written>>

\* Run returns when Close has, and with it main.
Exit ==
    /\ closing = "returned"
    /\ closing' = "exited"
    /\ UNCHANGED <<closed, clients, channels, handler, hand, gone, history>>

Terminated == ~Alive /\ UNCHANGED vars

--------------------------------------------------------------------------------
Handler(c) ==
    \/ Register(c) \/ Receive(c) \/ ChannelClosed(c) \/ ContextDone(c)
    \/ Write(c) \/ Deregister(c)

Shutdown == ShutdownCompletes \/ ShutdownTimesOut

Next ==
    \/ \E c \in Clients : Open(c) \/ Disconnect(c) \/ Handler(c)
    \/ RenderTrace \/ RenderTraceClosed \/ Close \/ Shutdown \/ Exit \/ Terminated

(***************************************************************************)
(* A goroutine that can run does, and Shutdown ends. The mutex is held in  *)
(* one interval only, that of Close: whoever waits for it can proceed for  *)
(* ever from Shutdown's end on. The select of serveSSE is fair: a context  *)
(* that is done is noticed however many messages arrive. A write ends if   *)
(* the browser reads or goes away, which nobody has to: no fairness for    *)
(* Write to a browser that is there. Nor for the browsers, the calls of    *)
(* RenderTrace and Close, or the exit: the process may end at any moment   *)
(* after Close.                                                            *)
(***************************************************************************)
Fairness ==
    /\ \A c \in Clients : /\ WF_vars(Receive(c) \/ ChannelClosed(c))
                          /\ SF_vars(ContextDone(c))
                          /\ WF_vars(gone[c] /\ Write(c))
                          /\ WF_vars(Register(c))
                          /\ WF_vars(Deregister(c))
    /\ WF_vars(Shutdown)

Spec == Init /\ [][Next]_vars /\ Fairness

--------------------------------------------------------------------------------
(* Safety *)

\* RenderTrace and a second Close only ever touch channels that are open: a send
\* on a closed channel or a second close would panic. And only a connection
\* whose goroutine is there to receive, or about to leave, is a client.
ClientsAreOpen ==
    \A c \in clients : ~chClosed[c] /\ handler[c] \in {"loop", "write", "deregister"}

InFlight(c) == IF handler[c] = "write" THEN <<hand[c]>> ELSE <<>>

\* All that connection c has been sent, received or not.
Stream(c) == written[c] \o InFlight(c) \o ch[c]

\* A browser sees each trace at most once, in the order of rendering, and none
\* from before it registered.
StreamInOrder ==
    \A c \in Clients : LET s == Stream(c) IN
        /\ \A i, j \in 1..Len(s) : i < j => s[i] < s[j]
        /\ \A i \in 1..Len(s) : joined[c] < s[i] /\ s[i] <= traces

\* How many traces have been rendered since the last one that the goroutine of c
\* took out of the buffer, or since c registered if it has not taken any.
Behind(c) == traces - (IF joined[c] < hand[c] THEN hand[c] ELSE joined[c])

\* A browser that is there loses a trace only if it is a whole buffer behind when the
\* trace is rendered, at any time and whatever it has lost before; and it loses no
\* other trace by that, nor by anything else that happens (web.go:107).
NothingLostWithinBuffer ==
    [][\A c \in Clients : ~gone[c] =>
          \/ /\ Stream(c)' = Stream(c)
             /\ c \in clients /\ traces' # traces => Behind(c) >= Buffer
          \/ /\ c \in clients /\ traces' # traces
             /\ Stream(c)' = Append(Stream(c), traces')]_vars

\* How many steps the goroutine of connection c still takes if no further message
\* is put into its buffer.
Left(c) ==
    2 * Len(ch[c]) + CASE handler[c] \in {"register", "write"} -> 3
                       [] handler[c] = "loop"                  -> 2
                       [] handler[c] = "deregister"            -> 1
                       [] OTHER                                -> 0

\* From Close on, the goroutines it waits for only have what is buffered to write:
\* no step of anybody, a call of RenderTrace or a late connection included, gives
\* one of them more to do, and each step of its own is one less.
ClosedRunsDown ==
    [][closed => \A c \in Clients :
          /\ Left(c)' <= Left(c)
          /\ handler'[c] # handler[c] => Left(c)' < Left(c)]_vars

\* docs/web-ui.md:46: after events have been dropped for a slow client, "The
\* graph will catch up on the next event." A browser that has received the
\* latest trace would show every trace since it connected.
GraphCatchesUp ==
    \A c \in clients : LET w == written[c] IN
        w # <<>> /\ w[Len(w)] = traces => Len(w) = traces - joined[c]

\* web.go:125, in Close: "Close all SSE client channels so their goroutines
\* exit." So Shutdown would give up only because of a browser that does not read,
\* or of a connection that was not a client yet.
TimeoutOnlyWhenStalled ==
    [][timedOut' # timedOut =>
          \E c \in Clients : handler[c] \in {"write", "register"}]_vars

--------------------------------------------------------------------------------
(* Liveness *)

\* Close returns, though a browser may stall and though the goroutines it waits
\* for may be waiting for the mutex it holds.
CloseReturns == closing = "shutdown" ~> closing = "returned"

\* A trace put into a client's buffer reaches its browser, across Close and the end
\* of the process too, unless the browser goes away, stalls for ever, or stalls for
\* so long during Close that Shutdown gives up.
BufferedIsWritten ==
    \A c \in Clients :
        []<>(handler[c] # "write") /\ [](handler[c] = "write" => closing # "returned") =>
            \A t \in Trace :
                (\E i \in 1..Len(ch[c]) : ch[c][i] = t) ~>
                    (gone[c] \/ \E i \in 1..Len(written[c]) : written[c][i] = t)

\* The goroutine of a browser that goes away ends, at any stage and also when Close is
\* in progress: if the process does not end before, by itself.
GoneHandlerEnds ==
    \A c \in Clients : gone[c] ~> (handler[c] = "done" \/ ~Alive)

--------------------------------------------------------------------------------
(* Refinement *)

Members == {c \in Clients : handler[c] \notin {"none", "register"}}

\* The buffers, the goroutines and the mutex implement a plain broadcast: what a
\* browser is sent is an ordered sub-stream of what was rendered since it
\* registered, and a closed renderer renders nothing.
BroadcastView == INSTANCE Broadcast WITH
    rendered <- traces, stopped <- closed, members <- Members, since <- joined,
    seen <- written

ImplementsBroadcast == BroadcastView!Spec

================================================================================
