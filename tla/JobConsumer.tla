---------------------------- MODULE JobConsumer ----------------------------
(***************************************************************************)
(* The delivery side of the process node: ConsumerService                  *)
(* (src/src/queue/consumer.service.ts) taking jobs from RabbitMQ, running  *)
(* the callback a service registered for the queue, and settling the       *)
(* message with ack or nack.                                               *)
(*                                                                         *)
(* A RUN is one execution of handleMessage.  A message has several runs    *)
(* when the broker delivers it again, and nothing in the code stops the    *)
(* older run: its promise keeps going in the same process.                 *)
(*                                                                         *)
(* ack and nack name a delivery by its TAG, which counts deliveries per    *)
(* channel, and both go to the channel wrapper, hence to the channel that  *)
(* is open when the run ends and not to the one the message came in on.    *)
(*                                                                         *)
(* Neither waits for the broker: what was written is lost with the channel *)
(* or with the process.                                                    *)
(*                                                                         *)
(* The broker and the wrapper are libraries: what is modelled of them is   *)
(* what the code relies on (per-consumer prefetch, redelivery of what was  *)
(* not settled, tags per channel, subscriptions restored on reconnect).    *)
(* The code counts on the wrapper to open a channel after a lost           *)
(* connection.  A channel that the broker alone closes is nobody's in the  *)
(* code: the wrapper may replace it at once, or not before the connection  *)
(* is lost too.                                                            *)
(***************************************************************************)
EXTENDS Naturals, FiniteSets, Sequences

CONSTANTS
  Messages,        \* the messages published by the api, numbered by arrival
  Queues,          \* the queues a service listens on
  QueueOf,         \* the queue each message was published to
  Malformed,       \* messages whose body is not JSON
  MaxDeliveries,   \* bound: deliveries over the whole behaviour
  MaxDisconnects,  \* bound: lost broker connections and timeouts of the broker
  MaxCrashes       \* bound: exits of the process

ASSUME MessagesAssumption == Messages \subseteq Nat \ {0}
ASSUME QueueOfAssumption == QueueOf \in [Messages -> Queues]
ASSUME MalformedAssumption == Malformed \subseteq Messages
ASSUME BoundsAssumption ==
  /\ MaxDeliveries \in Nat
  /\ MaxDisconnects \in Nat
  /\ MaxCrashes \in Nat

VARIABLES
  place,        \* where the broker keeps each message
  unacked,      \* deliveries of the open channel awaiting ack or nack
  connected,    \* what isConnected() says
  channelOpen,  \* the channel wrapper has a channel
  wire,         \* runs whose ack or nack the broker has not read yet
  lastTag,      \* delivery tag last used on the open channel
  delivered,    \* deliveries made so far
  run,          \* the run each delivery started
  listeners,    \* queues with a registered callback
  dlxBound,     \* q.dead_letter is declared and bound to the dlx exchange
  opened,       \* this process has had a channel before
  reconnects,   \* channels replaced while their process kept running
  disconnects,  \* connections lost, and channels the broker closed on a timeout
  crashes

brokerVars == <<place, unacked, wire>>
channelVars == <<connected, channelOpen, opened, reconnects>>
faultVars == <<disconnects, crashes>>
consumerVars == <<brokerVars, channelVars, faultVars, lastTag, delivered, run,
                  listeners, dlxBound>>

----------------------------------------------------------------------------

Settled == {"acked", "dead", "dropped"}
Places == {"ready", "unacked"} \cup Settled
Outcomes == {"resolved", "threw"}
RunStates == {"unused", "running", "killed"} \cup Outcomes

Deliveries == 1 .. MaxDeliveries

Run == [msg : Messages \cup {0}, tag : Nat, st : RunStates]
NoRun == [msg |-> 0, tag |-> 0, st |-> "unused"]

Running(d) == run[d].st = "running"
Finished(d) == run[d].st \in Outcomes

ConsumerInit ==
  /\ place = [m \in Messages |-> "ready"]
  /\ unacked = {}
  /\ connected = FALSE /\ channelOpen = FALSE
  /\ wire = <<>> /\ lastTag = 0 /\ delivered = 0
  /\ run = [d \in Deliveries |-> NoRun]
  /\ listeners = {}
  /\ dlxBound = FALSE /\ opened = FALSE
  /\ reconnects = 0 /\ disconnects = 0 /\ crashes = 0

----------------------------------------------------------------------------
(* The broker's answers to a lost channel and to ack and nack.             *)

\* Whatever was not settled goes back to its position in the queue, and the
\* settlements on their way are lost.
Requeue ==
  /\ place' = [m \in Messages |->
                 IF place[m] = "unacked" THEN "ready" ELSE place[m]]
  /\ unacked' = {}
  /\ wire' = <<>>

\* The delivery of the open channel that a run's tag names.
Named(d) == {e \in unacked : run[e].tag = run[d].tag}

\* The tag names nothing on the open channel: a protocol error, and the
\* broker closes the channel.
SettleUnknownTag(d) ==
  /\ Named(d) = {}
  /\ channelOpen' = FALSE
  /\ Requeue

\* Otherwise the delivery named is settled, whichever message it carries.
SettleNamed(d, to) ==
  /\ \E e \in Named(d) :
       /\ unacked' = unacked \ {e}
       /\ place' = [place EXCEPT ![run[e].msg] = to]
  /\ wire' = Tail(wire)
  /\ UNCHANGED channelOpen

\* Mutant: nack(message, false, true) puts the message back on its queue.
DestinationRequeue(d) == IF run[d].st = "resolved" THEN "acked" ELSE "ready"

\* nack is sent without requeue: the broker routes the message to the dlx
\* exchange, or drops it if no queue is bound there.
Destination(d) == IF run[d].st = "resolved" THEN "acked"
                  ELSE IF dlxBound THEN "dead" ELSE "dropped"

----------------------------------------------------------------------------
(* Actions.                                                                *)

\* onModuleInit of a service registers its callback.
ListenOnQueue(q) ==
  /\ q \notin listeners
  /\ listeners' = listeners \cup {q}
  /\ UNCHANGED <<brokerVars, channelVars, faultVars, lastTag, delivered, run,
                 dlxBound>>

\* The wrapper gets a channel: the setup callback declares the queues of the
\* listeners again and the subscriptions are restored.  Tags start over.
OpenChannel ==
  /\ ~channelOpen
  /\ connected' = TRUE /\ channelOpen' = TRUE
  /\ lastTag' = 0
  /\ opened' = TRUE
  /\ reconnects' = IF opened THEN reconnects + 1 ELSE reconnects
  /\ UNCHANGED <<brokerVars, faultVars, delivered, run, listeners, dlxBound>>

\* ProducerService's setup, on a connection of its own, declares the dead
\* letter exchange and queue and binds them.  They are durable.
BindDeadLetters ==
  /\ ~dlxBound
  /\ dlxBound' = TRUE
  /\ UNCHANGED <<brokerVars, channelVars, faultVars, lastTag, delivered, run,
                 listeners>>

\* Mutant: the consumer is created without the prefetch option.
NoPrefetch(q) == q \in Queues

\* prefetch: 1 counts the unsettled deliveries of one consumer.
PrefetchAllows(q) == \A d \in unacked : QueueOf[run[d].msg] # q

FirstReady(m) ==
  /\ place[m] = "ready"
  /\ \A n \in Messages :
       place[n] = "ready" /\ QueueOf[n] = QueueOf[m] => m <= n

\* Mutant: the consumer is created with noAck.
NoAck(m) ==
  /\ place' = [place EXCEPT ![m] = "acked"]
  /\ UNCHANGED unacked

\* The broker awaits an ack or a nack of what it delivers.
AwaitAck(m) ==
  /\ place' = [place EXCEPT ![m] = "unacked"]
  /\ unacked' = unacked \cup {delivered + 1}

\* The broker delivers and handleMessage starts: the callback is called.
HandleMessage(m) ==
  /\ channelOpen
  /\ QueueOf[m] \in listeners
  /\ FirstReady(m)
  /\ PrefetchAllows(QueueOf[m])
  /\ delivered < MaxDeliveries
  /\ delivered' = delivered + 1
  /\ lastTag' = lastTag + 1
  /\ run' = [run EXCEPT ![delivered + 1] =
               [msg |-> m, tag |-> lastTag + 1,
                st |-> "running"]]
  /\ AwaitAck(m)
  /\ UNCHANGED <<channelVars, faultVars, wire, listeners, dlxBound>>

\* Mutant: nobody acknowledges.
SendNothing(d) == d \in Deliveries /\ UNCHANGED wire

\* Mutant: what is sent without a channel waits for the next one.
SendLater(d) == wire' = Append(wire, d)

\* The wrapper writes to the channel it has, and drops the ack or nack if it
\* has none.
Send(d) == wire' = IF channelOpen THEN Append(wire, d) ELSE wire

\* The callback resolved: ack.
AckMessage(d) ==
  /\ Running(d)
  /\ run[d].msg \notin Malformed
  /\ run' = [run EXCEPT ![d].st = "resolved"]
  /\ Send(d)
  /\ UNCHANGED <<channelVars, faultVars, place, unacked, lastTag, delivered,
                 listeners, dlxBound>>

\* Parsing failed or the callback threw: nack.
NackMessage(d) ==
  /\ Running(d)
  /\ run' = [run EXCEPT ![d].st = "threw"]
  /\ Send(d)
  /\ UNCHANGED <<channelVars, faultVars, place, unacked, lastTag, delivered,
                 listeners, dlxBound>>

\* The broker reads the oldest ack or nack.
BrokerSettles ==
  /\ wire # <<>>
  /\ LET d == Head(wire) IN SettleUnknownTag(d) \/ SettleNamed(d, Destination(d))
  /\ UNCHANGED <<connected, opened, reconnects, faultVars, lastTag, delivered,
                 run, listeners, dlxBound>>

\* What the broker awaits on the channel is redelivered; the runs go on.
LoseChannel ==
  /\ disconnects < MaxDisconnects
  /\ disconnects' = disconnects + 1
  /\ channelOpen' = FALSE
  /\ Requeue
  /\ UNCHANGED <<lastTag, delivered, run, listeners, dlxBound, opened,
                 reconnects, crashes>>

\* The connection to the broker is lost, and its channel with it.
Disconnect ==
  /\ connected
  /\ connected' = FALSE
  /\ LoseChannel

\* The broker has a limit of its own on how long a delivery may go without an
\* ack, which a long job exceeds: it closes the channel.
DeliveryTimesOut ==
  /\ unacked # {}
  /\ LoseChannel
  /\ UNCHANGED connected

\* The process exits (process.exit(1) in main.ts, or killed) and is started
\* again: its runs and its callbacks are gone.
Crash ==
  /\ crashes < MaxCrashes
  /\ crashes' = crashes + 1
  /\ run' = [d \in Deliveries |->
               IF Running(d) THEN [run[d] EXCEPT !.st = "killed"] ELSE run[d]]
  /\ listeners' = {}
  /\ connected' = FALSE /\ channelOpen' = FALSE
  /\ opened' = FALSE
  /\ Requeue
  /\ UNCHANGED <<lastTag, delivered, dlxBound, reconnects, disconnects>>

ConsumerNext ==
  \/ OpenChannel
  \/ BindDeadLetters
  \/ BrokerSettles
  \/ Disconnect
  \/ DeliveryTimesOut
  \/ Crash
  \/ \E q \in Queues : ListenOnQueue(q)
  \/ \E m \in Messages : HandleMessage(m)
  \/ \E d \in Deliveries : AckMessage(d) \/ NackMessage(d)

ConsumerSpec == ConsumerInit /\ [][ConsumerNext]_consumerVars

\* The channel is opened again once the connection was lost.
Reconnect == ~connected /\ OpenChannel

\* The services start, a lost connection is made again, a waiting message is
\* delivered, and every callback ends: ffmpeg runs on finite input, and the
\* node puts no limit of its own on a job.
ConsumerFairness ==
  /\ WF_consumerVars(Reconnect)
  /\ \A q \in Queues : WF_consumerVars(ListenOnQueue(q))
  /\ \A m \in Messages : WF_consumerVars(HandleMessage(m))
  /\ WF_consumerVars(BrokerSettles)
  /\ \A d \in Deliveries : WF_consumerVars(AckMessage(d) \/ NackMessage(d))

FairConsumerSpec == ConsumerSpec /\ ConsumerFairness

----------------------------------------------------------------------------
(* Properties.                                                             *)

\* The type invariant: every variable has its type, tags and channels in use
\* have been handed out, and what awaits a settlement has been delivered.
ConsumerTypeOK ==
  /\ place \in [Messages -> Places]
  /\ unacked \subseteq 1 .. delivered
  /\ connected \in BOOLEAN /\ channelOpen \in BOOLEAN
  /\ channelOpen => connected
  /\ wire \in Seq(Deliveries)
  /\ ~channelOpen => unacked = {} /\ wire = <<>>
  /\ lastTag \in 0 .. delivered
  /\ delivered \in 0 .. MaxDeliveries
  /\ run \in [Deliveries -> Run]
  /\ listeners \subseteq Queues
  /\ dlxBound \in BOOLEAN /\ opened \in BOOLEAN
  /\ reconnects \in Nat
  /\ disconnects \in 0 .. MaxDisconnects
  /\ crashes \in 0 .. MaxCrashes

\* As long as no channel was replaced under a live process, a message is
\* acknowledged only because its own callback resolved, and discarded only
\* because its own callback threw: tags never name somebody else's delivery.
SettledByOwnRun ==
  reconnects = 0 =>
    \A m \in Messages :
      /\ place[m] = "acked" =>
           \E d \in Deliveries : run[d].msg = m /\ run[d].st = "resolved"
      /\ place[m] \in {"dead", "dropped"} =>
           \E d \in Deliveries : run[d].msg = m /\ run[d].st = "threw"

\* As long as no channel was replaced under a live process, prefetch: 1 makes
\* the jobs of one queue run one after the other.
OneAtATime ==
  reconnects = 0 =>
    \A d, e \in Deliveries :
      Running(d) /\ Running(e) /\ QueueOf[run[d].msg] = QueueOf[run[e].msg]
        => d = e

\* As long as nothing fails, a message's callback runs to its end at most
\* once: the next delivery is another message.
CompletedOnce ==
  disconnects = 0 /\ crashes = 0 =>
    \A d, e \in Deliveries :
      Finished(d) /\ Finished(e) /\ run[d].msg = run[e].msg => d = e

\* Whatever fails, the broker never discards more messages than callbacks have
\* ended: an ack that reaches the wrong message is some run's ack.
SettlementsBacked ==
  Cardinality({m \in Messages : place[m] \in Settled})
    <= Cardinality({d \in Deliveries : Finished(d)})

\* The consumer is deaf: the broker closed the channel and the wrapper, whose
\* connection is up, has not replaced it.  isConnected() still says yes.
Stalled == connected /\ ~channelOpen

\* Whatever happens to the connection and to the process, every message is in
\* the end acknowledged, dead-lettered or dropped, unless the consumer stalls
\* for good: no job stays on its queue, and none blocks it by prefetch.
ConsumeEverything ==
  []<>~Stalled => \A m \in Messages : <>(place[m] \in Settled)

\* "dead-letter failed queue messages instead of acking them" (TODO.md): a
\* message whose callback threw, at every delivery it had, is not one the
\* broker takes for acknowledged.
FailedIsNotAcked ==
  \A m \in Messages :
    place[m] = "acked" =>
      \E d \in Deliveries : run[d].msg = m /\ run[d].st # "threw"
============================================================================
