-------------------------------- MODULE Firehose --------------------------------
(***************************************************************************)
(* internal/firehose/consumer.go: the consumption of the firehose exchange *)
(* over one connection, and the AMQP client library below it.              *)
(*                                                                         *)
(* Each connection that Service.Run obtains starts a session s. In it,     *)
(* Consumer.Consume opens a channel, declares and binds a queue, starts a  *)
(* consumer, and leaves behind a goroutine, the forwarder, that copies     *)
(* deliveries from the library to the unbuffered channel it returned. The  *)
(* forwarder outlives its session: it stops only when the library's        *)
(* deliveries end or the context is done.                                  *)
(*                                                                         *)
(* The n-th delivery the broker pushes in session s stands for itself: the *)
(* model keeps counts, and a delivery is the pair <<s, n>>. A firehose     *)
(* event published while no session consumes is lost by design (the queue  *)
(* is auto-delete), so it is not part of the model.                        *)
(***************************************************************************)
EXTENDS Integers

CONSTANTS
    MaxSessions,    \* bound on the connections established
    MaxDeliveries   \* bound on the deliveries pushed in a session

ASSUME BoundsAssumption ==
    /\ MaxSessions \in Nat \ {0}
    /\ MaxDeliveries \in Nat \ {0}

VARIABLES
    pc,         \* control of the goroutine that runs Service.Run
    cancelled,  \* the context is done
    session,    \* the number of connections established; the last is current
    sessErr,    \* what runSession returns, "none" while it runs
    conn,       \* conn[s]: the connection of session s
    chan,       \* chan[s]: its AMQP channel and the consumer on it
    sent,       \* sent[s]: deliveries the library has received
    taken,      \* taken[s]: deliveries the forwarder has received from it
    fwd         \* fwd[s]: control of the forwarder

main == <<pc, session, sessErr>>
library == <<conn, chan, sent>>
forwarder == <<taken, fwd>>
hoseVars == <<main, cancelled, library, forwarder>>

Sessions == 1..MaxSessions

\* Where Consume stands, and where each call leaves it when it succeeds.
SetupNext(p) ==
    CASE p = "connected" -> "qos"
      [] p = "qos"       -> "declare"
      [] p = "declare"   -> "bind"
      [] p = "bind"      -> "consume"
      [] p = "consume"   -> "select"

SetupStages == {"connected", "qos", "declare", "bind", "consume"}

ConnStates == {"none", "open", "lost", "closed"}
ChanStates == {"none", "open", "consuming", "ended", "closed"}
FwdStates == {"none", "recv", "send", "cleanup", "done"}

HoseTypeOK ==
    /\ cancelled \in BOOLEAN
    /\ session \in 0..MaxSessions
    /\ conn \in [Sessions -> ConnStates]
    /\ chan \in [Sessions -> ChanStates]
    /\ sent \in [Sessions -> 0..MaxDeliveries]
    /\ taken \in [Sessions -> 0..MaxDeliveries]
    /\ fwd \in [Sessions -> FwdStates]

HoseInit ==
    /\ cancelled = FALSE
    /\ session = 0
    /\ sessErr = "none"
    /\ conn = [s \in Sessions |-> "none"]
    /\ chan = [s \in Sessions |-> "none"]
    /\ sent = [s \in Sessions |-> 0]
    /\ taken = [s \in Sessions |-> 0]
    /\ fwd = [s \in Sessions |-> "none"]

--------------------------------------------------------------------------------
(* The broker, the network and the client library (external). *)

\* The connection breaks or the broker closes it. The library notifies the
\* listeners of NotifyClose first, and later shuts the channels down.
LoseConnection(s) ==
    /\ conn[s] = "open"
    /\ conn' = [conn EXCEPT ![s] = "lost"]
    /\ UNCHANGED <<main, cancelled, chan, sent, forwarder>>

ShutdownChannel(s) ==
    /\ conn[s] = "lost"
    /\ chan[s] \in {"open", "consuming", "ended"}
    /\ chan' = [chan EXCEPT ![s] = "closed"]
    /\ UNCHANGED <<main, cancelled, conn, sent, forwarder>>

\* With the connection intact, the broker closes the channel (a channel
\* exception), or cancels the consumer (its queue was deleted): then the
\* deliveries end but the channel stays open.
EndConsumer(s) ==
    /\ conn[s] = "open"
    /\ chan[s] = "consuming"
    /\ \E c \in {"ended", "closed"} : chan' = [chan EXCEPT ![s] = c]
    /\ UNCHANGED <<main, cancelled, conn, sent, forwarder>>

\* The broker pushes a delivery. Consume asks for automatic acknowledgement, so
\* the prefetch does not limit how far sent runs ahead of taken.
Push(s) ==
    /\ conn[s] = "open"
    /\ chan[s] = "consuming"
    /\ sent[s] < MaxDeliveries
    /\ sent' = [sent EXCEPT ![s] = @ + 1]
    /\ UNCHANGED <<main, cancelled, conn, chan, forwarder>>

\* ch.Close(): closing a channel that is closed already has no effect.
Closed(s) == [chan EXCEPT ![s] = IF @ = "none" THEN @ ELSE "closed"]

--------------------------------------------------------------------------------
(* Consume, on the goroutine that runs Service.Run. *)

\* One call of the channel's set-up succeeds: OpenChannel, Qos, declareQueue,
\* QueueBind or Consume. After the last one the forwarder is started.
SetupStep ==
    /\ pc \in SetupStages
    /\ conn[session] = "open"
    /\ pc = "connected" \/ chan[session] = "open"
    /\ pc' = SetupNext(pc)
    /\ chan' = [chan EXCEPT ![session] =
                  IF pc = "connected" THEN "open"
                  ELSE IF pc = "consume" THEN "consuming" ELSE @]
    /\ fwd' = [fwd EXCEPT ![session] = IF pc = "consume" THEN "recv" ELSE @]
    /\ UNCHANGED <<cancelled, session, sessErr, conn, sent, taken>>

\* The call fails, because the broker refuses it or the connection is gone:
\* Consume closes the channel it has opened and runSession returns the error.
\* There is no cleanup to call, so control goes to the caller's conn.Close().
SetupFails ==
    /\ pc \in SetupStages
    /\ pc' = "close"
    /\ sessErr' = "setup"
    /\ chan' = Closed(session)
    /\ UNCHANGED <<cancelled, session, conn, sent, forwarder>>

--------------------------------------------------------------------------------
(* The forwarder of session s. *)

\* Seeded fault: the ok of the receive is ignored, and a closed channel yields
\* zero deliveries.
FwdReceive_IgnoresOk(s) ==
    /\ fwd[s] = "recv"
    /\ taken[s] < sent[s] \/ chan[s] = "closed"
    /\ taken' = [taken EXCEPT ![s] = @ + 1]
    /\ fwd' = [fwd EXCEPT ![s] = "send"]
    /\ UNCHANGED <<main, cancelled, library>>

\* Seeded fault: the forwarder drops the delivery if the loop is busy.
FwdReceive_NonBlocking(s) ==
    /\ fwd[s] = "recv"
    /\ taken[s] < sent[s]
    /\ taken' = [taken EXCEPT ![s] = @ + 1]
    /\ fwd' = [fwd EXCEPT ![s] = IF pc = "select" THEN "send" ELSE "recv"]
    /\ UNCHANGED <<main, cancelled, library>>

\* It receives from the library. A channel that shuts down may drop what it has
\* buffered, or still deliver some of it.
FwdReceive(s) ==
    /\ fwd[s] = "recv"
    /\ taken[s] < sent[s]
    /\ taken' = [taken EXCEPT ![s] = @ + 1]
    /\ fwd' = [fwd EXCEPT ![s] = "send"]
    /\ UNCHANGED <<main, cancelled, library>>

\* The deliveries have ended.
FwdStreamEnds(s) ==
    /\ fwd[s] = "recv"
    /\ chan[s] = "closed" \/ (chan[s] = "ended" /\ taken[s] = sent[s])
    /\ fwd' = [fwd EXCEPT ![s] = "cleanup"]
    /\ UNCHANGED <<main, cancelled, library, taken>>

\* Seeded fault: the inner select has no branch for the context.
FwdCancelled_OuterOnly(s) ==
    /\ fwd[s] = "recv"
    /\ cancelled
    /\ fwd' = [fwd EXCEPT ![s] = "cleanup"]
    /\ UNCHANGED <<main, cancelled, library, taken>>

\* The context is done, in either select: a delivery in hand is dropped.
FwdCancelled(s) ==
    /\ fwd[s] \in {"recv", "send"}
    /\ cancelled
    /\ fwd' = [fwd EXCEPT ![s] = "cleanup"]
    /\ UNCHANGED <<main, cancelled, library, taken>>

\* Seeded fault: the goroutine ends without closing out.
FwdCleanup_LeavesOutOpen(s) ==
    /\ fwd[s] = "cleanup"
    /\ chan' = Closed(s)
    /\ fwd' = [fwd EXCEPT ![s] = "none"]
    /\ UNCHANGED <<main, cancelled, conn, sent, taken>>

\* The deferred calls: cleanup(), shared with runSession through sync.Once, and
\* then close(out), which the state "done" stands for.
FwdCleanup(s) ==
    /\ fwd[s] = "cleanup"
    /\ chan' = Closed(s)
    /\ fwd' = [fwd EXCEPT ![s] = "done"]
    /\ UNCHANGED <<main, cancelled, conn, sent, taken>>

Forward(s) ==
    FwdReceive(s) \/ FwdStreamEnds(s) \/ FwdCancelled(s) \/ FwdCleanup(s)

Broker(s) == LoseConnection(s) \/ EndConsumer(s) \/ Push(s)

================================================================================
