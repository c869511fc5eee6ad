------------------------- MODULE JobConsumerProofs -------------------------
(***************************************************************************)
(* Proofs about JobConsumer, for all messages, queues and bounds.          *)
(***************************************************************************)
EXTENDS JobConsumer, SequenceTheorems, FiniteSetTheorems, TLAPS

USE DEF brokerVars, channelVars, faultVars

----------------------------------------------------------------------------
(* The inductive invariant: what ties the process's runs to the broker's   *)
(* books.                                                                  *)

\* Deliveries are numbered without gaps and a delivery has its message.
RunsNumbered ==
  \A d \in Deliveries :
    /\ run[d].st = "unused" <=> d > delivered
    /\ d <= delivered => run[d].msg \in Messages

\* What awaits a settlement on the open channel: each has a tag of its own
\* and a message of its own, which the broker holds for it.
PendingNamed ==
  /\ \A d \in unacked :
       /\ place[run[d].msg] = "unacked"
       /\ run[d].tag <= lastTag
  /\ \A d, e \in unacked : run[d].tag = run[e].tag => d = e
  /\ \A d, e \in unacked : run[d].msg = run[e].msg => d = e

\* A process that had no channel yet runs nothing.
IdleUntilOpened ==
  ~opened => /\ ~channelOpen
             /\ \A d \in Deliveries : ~Running(d)

\* Without reconnects, a run still going on is one the open channel knows.
RunningPending ==
  reconnects = 0 /\ channelOpen =>
    \A d \in Deliveries : Running(d) => d \in unacked

\* What the broker has not read yet was sent by runs that ended.
WireFinished == \A i \in 1 .. Len(wire) : Finished(wire[i])

\* Without reconnects, each ack or nack on its way names its own delivery, and
\* no delivery twice.
WireOwn ==
  reconnects = 0 =>
    /\ \A i \in 1 .. Len(wire) : wire[i] \in unacked
    /\ \A i, j \in 1 .. Len(wire) : wire[i] = wire[j] => i = j

\* Without any failure the first channel stays open, and a run that ended has
\* taken its message out of the queue or is about to.
NoFailureBooks ==
  disconnects = 0 /\ crashes = 0 =>
    /\ reconnects = 0
    /\ opened => channelOpen
    /\ \A d \in Deliveries :
         Finished(d) => place[run[d].msg] \in Settled \/ d \in unacked

DeliveryInv ==
  /\ ConsumerTypeOK
  /\ RunsNumbered
  /\ PendingNamed
  /\ IdleUntilOpened
  /\ RunningPending
  /\ WireFinished
  /\ WireOwn
  /\ NoFailureBooks
  /\ SettledByOwnRun
  /\ OneAtATime
  /\ CompletedOnce
----------------------------------------------------------------------------
(* What ack and nack do to the broker's books.                             *)

\* What awaits a settlement has been delivered and carries a message.
LEMMA PendingDelivered ==
  ASSUME DeliveryInv, NEW d \in unacked
  PROVE  /\ d \in Deliveries
         /\ d <= delivered
         /\ run[d].msg \in Messages
<1>1. d \in 1 .. delivered /\ delivered \in 0 .. MaxDeliveries
  BY DEF DeliveryInv, ConsumerTypeOK
<1>2. d \in Deliveries /\ d <= delivered
  BY <1>1, BoundsAssumption DEF Deliveries
<1> QED
  BY <1>2 DEF DeliveryInv, RunsNumbered

\* A run that is going on or ended has been delivered and has a message.
LEMMA FinishedDelivered ==
  ASSUME DeliveryInv, NEW d \in Deliveries, Running(d) \/ Finished(d)
  PROVE  d <= delivered /\ run[d].msg \in Messages
<1>1. run[d].st # "unused"
  BY DEF Running, Finished, Outcomes
<1>2. ~(d > delivered)
  BY <1>1 DEF DeliveryInv, RunsNumbered
<1>3. d \in Nat /\ delivered \in Nat
  BY BoundsAssumption DEF Deliveries, DeliveryInv, ConsumerTypeOK
<1> QED
  BY <1>2, <1>3 DEF DeliveryInv, RunsNumbered

\* The acks and nacks on their way belong to deliveries.
LEMMA WireElements ==
  ASSUME ConsumerTypeOK
  PROVE  /\ wire \in Seq(Deliveries)
         /\ Len(wire) \in Nat
         /\ \A i \in 1 .. Len(wire) : wire[i] \in Deliveries
<1>1. wire \in Seq(Deliveries)
  BY DEF ConsumerTypeOK
<1> HIDE DEF Deliveries
<1> QED
  BY <1>1, ElementOfSeq, LenProperties

\* Without reconnects the broker settles the delivery whose run sent the ack
\* or nack and no other.
LEMMA SettleOwnDelivery ==
  ASSUME DeliveryInv, reconnects = 0, BrokerSettles
  PROVE  LET d == Head(wire) IN
           /\ d \in unacked
           /\ unacked' = unacked \ {d}
           /\ place' = [place EXCEPT ![run[d].msg] = Destination(d)]
           /\ channelOpen' = channelOpen
           /\ wire' = Tail(wire)
<1> DEFINE d == Head(wire)
<1>1. wire # <<>> /\ wire \in Seq(Deliveries)
  BY DEF BrokerSettles, DeliveryInv, ConsumerTypeOK
<1>2. d = wire[1] /\ 1 \in 1 .. Len(wire)
  BY <1>1
<1>3. d \in unacked
  BY <1>2 DEF DeliveryInv, WireOwn
<1>4. Named(d) = {d}
  BY <1>3 DEF DeliveryInv, PendingNamed, Named
<1>5. SettleNamed(d, Destination(d))
  BY <1>4 DEF BrokerSettles, SettleUnknownTag
<1> QED
  BY <1>3, <1>4, <1>5 DEF SettleNamed

\* Requeueing takes back the pending messages and touches no settled one.
LEMMA RequeueEffect ==
  ASSUME DeliveryInv, Requeue
  PROVE  /\ place' \in [Messages -> Places]
         /\ unacked' = {}
         /\ wire' = <<>>
         /\ \A m \in Messages : place[m] \in Settled => place'[m] = place[m]
         /\ \A m \in Messages : place'[m] \in Settled => place'[m] = place[m]
  BY DEF DeliveryInv, ConsumerTypeOK, Requeue, Places, Settled

\* Whichever delivery an ack or nack reaches, the books stay consistent.
LEMMA SettleKeepsBooks ==
  ASSUME DeliveryInv, BrokerSettles
  PROVE  /\ place' \in [Messages -> Places]
         /\ unacked' \subseteq unacked
         /\ channelOpen' \in BOOLEAN
         /\ channelOpen' => channelOpen
         /\ ~channelOpen' => unacked' = {} /\ wire' = <<>>
         /\ wire' = Tail(wire) \/ wire' = <<>>
         /\ \A e \in unacked' : place'[run[e].msg] = "unacked"
<1> DEFINE d == Head(wire)
<1>1. CASE SettleUnknownTag(d)
  BY <1>1, RequeueEffect DEF SettleUnknownTag, DeliveryInv, ConsumerTypeOK
<1>2. CASE SettleNamed(d, Destination(d))
  <2>1. PICK e \in Named(d) :
               /\ unacked' = unacked \ {e}
               /\ place' = [place EXCEPT ![run[e].msg] = Destination(d)]
    BY <1>2 DEF SettleNamed
  <2>2. e \in unacked /\ e \in Deliveries /\ run[e].msg \in Messages
    BY PendingDelivered DEF Named
  <2>3. place' \in [Messages -> Places]
    BY <2>1, <2>2 DEF DeliveryInv, ConsumerTypeOK, Destination, Places, Settled
  <2>4. channelOpen' = channelOpen /\ channelOpen /\ wire' = Tail(wire)
    BY <1>2, <2>2 DEF SettleNamed, DeliveryInv, ConsumerTypeOK
  <2>5. \A c \in unacked' : place'[run[c].msg] = "unacked"
    <3>1. ASSUME NEW c \in unacked'
          PROVE  place'[run[c].msg] = "unacked"
      <4>1. c \in unacked /\ c # e /\ run[c].msg # run[e].msg
        BY <2>1, <2>2 DEF DeliveryInv, PendingNamed
      <4> QED
        BY <2>1, <4>1 DEF DeliveryInv, PendingNamed, ConsumerTypeOK
    <3> QED
      BY <3>1
  <2> QED
    BY <2>1, <2>2, <2>3, <2>4, <2>5 DEF DeliveryInv, ConsumerTypeOK
<1> QED
  BY <1>1, <1>2 DEF BrokerSettles

----------------------------------------------------------------------------
(* Each action preserves the invariant.                                    *)

LEMMA ConsumerInitInv == ConsumerInit => DeliveryInv
<1> SUFFICES ASSUME ConsumerInit
             PROVE  DeliveryInv
  OBVIOUS
<1> USE DEF ConsumerInit
<1>1. ConsumerTypeOK
  <2>1. NoRun \in Run
    BY DEF NoRun, Run, RunStates
  <2>2. place \in [Messages -> Places] /\ run \in [Deliveries -> Run]
    BY <2>1 DEF Places
  <2>3. /\ connected \in BOOLEAN /\ channelOpen \in BOOLEAN
        /\ (channelOpen => connected)
        /\ dlxBound \in BOOLEAN /\ opened \in BOOLEAN
    BY Zenon
  <2>4. /\ unacked \subseteq 1 .. delivered
        /\ wire \in Seq(Deliveries)
        /\ lastTag \in 0 .. delivered
        /\ delivered \in 0 .. MaxDeliveries
        /\ listeners \subseteq Queues
        /\ reconnects \in Nat
        /\ disconnects \in 0 .. MaxDisconnects
        /\ crashes \in 0 .. MaxCrashes
    BY BoundsAssumption
  <2> QED
    BY <2>2, <2>3, <2>4, Zenon DEF ConsumerTypeOK
<1>2. RunsNumbered /\ PendingNamed /\ IdleUntilOpened /\ RunningPending
  BY BoundsAssumption DEF RunsNumbered, PendingNamed, IdleUntilOpened, RunningPending,
         Deliveries, NoRun, Running
<1>3. NoFailureBooks /\ SettledByOwnRun /\ OneAtATime /\ CompletedOnce
  BY DEF NoFailureBooks, SettledByOwnRun, OneAtATime, CompletedOnce,
         NoRun, Running, Finished, Outcomes
<1>4. WireFinished /\ WireOwn
  BY DEF WireFinished, WireOwn
<1> QED
  BY <1>1, <1>2, <1>3, <1>4 DEF DeliveryInv

\* Registering a callback and binding the dead letter queue touch neither the
\* runs nor the messages.
LEMMA SetupKeepsInv ==
  ASSUME DeliveryInv,
         BindDeadLetters \/ \E q \in Queues : ListenOnQueue(q)
  PROVE  DeliveryInv'
<1>1. /\ UNCHANGED <<brokerVars, channelVars, faultVars, lastTag, delivered,
                     run>>
      /\ listeners' \subseteq Queues
      /\ dlxBound' \in BOOLEAN
  BY DEF DeliveryInv, ConsumerTypeOK, BindDeadLetters, ListenOnQueue
<1> QED
  BY <1>1 DEF DeliveryInv, ConsumerTypeOK, RunsNumbered, PendingNamed,
     IdleUntilOpened, RunningPending, WireFinished, WireOwn, NoFailureBooks,
     SettledByOwnRun, OneAtATime, CompletedOnce, Running, Finished

LEMMA OpenChannelKeepsInv ==
  ASSUME DeliveryInv, OpenChannel
  PROVE  DeliveryInv'
<1> USE DEF OpenChannel
<1>1. unacked = {} /\ wire = <<>> /\ reconnects \in Nat
  BY DEF DeliveryInv, ConsumerTypeOK
<1>2. ConsumerTypeOK'
  BY <1>1 DEF DeliveryInv, ConsumerTypeOK
<1>3. RunsNumbered' /\ PendingNamed' /\ IdleUntilOpened'
  BY <1>1 DEF DeliveryInv, RunsNumbered, PendingNamed, IdleUntilOpened
<1>4. RunningPending'
  BY <1>1 DEF DeliveryInv, RunningPending, IdleUntilOpened, Running
<1>5. NoFailureBooks' /\ WireFinished' /\ WireOwn'
  BY <1>1 DEF DeliveryInv, NoFailureBooks, WireFinished, WireOwn, Finished
<1>6. reconnects' = 0 => reconnects = 0
  BY <1>1
<1>7. SettledByOwnRun' /\ OneAtATime' /\ CompletedOnce'
  BY <1>6 DEF DeliveryInv, SettledByOwnRun, OneAtATime, CompletedOnce,
     Running, Finished
<1> QED
  BY <1>2, <1>3, <1>4, <1>5, <1>7 DEF DeliveryInv

\* Losing the channel, with the connection or without it.
LEMMA LoseChannelKeepsInv ==
  ASSUME DeliveryInv, LoseChannel, connected' \in {connected, FALSE}
  PROVE  DeliveryInv'
<1> USE DEF LoseChannel
<1>1. /\ disconnects' \in 1 .. MaxDisconnects
      /\ disconnects' # 0
  BY BoundsAssumption DEF DeliveryInv, ConsumerTypeOK
<1>2. ConsumerTypeOK'
  <2>1. place' \in [Messages -> Places] /\ unacked' = {} /\ wire' = <<>>
    BY RequeueEffect
  <2>2. disconnects' \in 0 .. MaxDisconnects
    BY <1>1, BoundsAssumption
  <2>3. /\ channelOpen' \in BOOLEAN /\ ~channelOpen'
        /\ (~channelOpen' => unacked' = {} /\ wire' = <<>>)
    BY <2>1, Zenon
  <2>4. unacked' \subseteq 1 .. delivered /\ wire' \in Seq(Deliveries)
    BY <2>1
  <2>5. connected' \in BOOLEAN /\ (channelOpen' => connected')
    BY <2>3 DEF DeliveryInv, ConsumerTypeOK
  <2> QED
    BY <2>1, <2>2, <2>3, <2>4, <2>5, Zenon DEF DeliveryInv, ConsumerTypeOK
<1>3. RunsNumbered' /\ PendingNamed' /\ IdleUntilOpened' /\ RunningPending'
  BY RequeueEffect DEF DeliveryInv, RunsNumbered, PendingNamed,
     IdleUntilOpened, RunningPending, Running
<1>4. NoFailureBooks' /\ CompletedOnce' /\ WireFinished' /\ WireOwn'
  BY <1>1, RequeueEffect
     DEF NoFailureBooks, CompletedOnce, WireFinished, WireOwn
<1>5. SettledByOwnRun'
  <2>1. \A m \in Messages : place'[m] \in Settled => place'[m] = place[m]
    BY RequeueEffect
  <2> QED
    BY <2>1 DEF DeliveryInv, SettledByOwnRun, Settled
<1>6. OneAtATime'
  BY DEF DeliveryInv, OneAtATime, Running
<1> QED
  BY <1>2, <1>3, <1>4, <1>5, <1>6 DEF DeliveryInv

LEMMA CrashKeepsInv ==
  ASSUME DeliveryInv, Crash
  PROVE  DeliveryInv'
<1> USE DEF Crash
<1>1. /\ run' \in [Deliveries -> Run]
      /\ \A d \in Deliveries :
           /\ run'[d].msg = run[d].msg
           /\ ~Running(d)'
           /\ Finished(d)' <=> Finished(d)
           /\ Finished(d)' => run'[d] = run[d]
           /\ run'[d].st = "unused" <=> run[d].st = "unused"
           /\ run[d].st \in Outcomes => run'[d].st = run[d].st
  BY DEF DeliveryInv, ConsumerTypeOK, Run, RunStates, Running, Finished,
     Outcomes
<1>2. ConsumerTypeOK'
  <2>1. place' \in [Messages -> Places] /\ unacked' = {} /\ wire' = <<>>
    BY RequeueEffect
  <2>2. crashes' \in 0 .. MaxCrashes
    BY BoundsAssumption DEF DeliveryInv, ConsumerTypeOK
  <2> QED
    BY <1>1, <2>1, <2>2, EmptySeq DEF DeliveryInv, ConsumerTypeOK
<1>3. RunsNumbered' /\ PendingNamed' /\ IdleUntilOpened' /\ RunningPending'
  BY <1>1, RequeueEffect DEF DeliveryInv, RunsNumbered, PendingNamed,
     IdleUntilOpened, RunningPending
<1>4. NoFailureBooks' /\ CompletedOnce' /\ WireFinished' /\ WireOwn'
  <2>1. crashes' # 0
    BY DEF DeliveryInv, ConsumerTypeOK
  <2> QED
    BY <2>1, RequeueEffect DEF NoFailureBooks, CompletedOnce, WireFinished, WireOwn
<1>5. SettledByOwnRun'
  <2>1. \A m \in Messages : place'[m] \in Settled => place'[m] = place[m]
    BY RequeueEffect
  <2>2. \A d \in Deliveries : run[d].st \in {"resolved", "threw"} =>
          run'[d].msg = run[d].msg /\ run'[d].st = run[d].st
    BY <1>1 DEF Outcomes
  <2>3. reconnects' = reconnects
    OBVIOUS
  <2> HIDE DEF Crash
  <2> QED
    BY <2>1, <2>2, <2>3 DEF DeliveryInv, SettledByOwnRun, Settled
<1>6. OneAtATime'
  BY <1>1 DEF DeliveryInv, OneAtATime
<1> QED
  BY <1>2, <1>3, <1>4, <1>5, <1>6 DEF DeliveryInv

\* A delivery starts a run: the prefetch limit and the tag it gets keep the
\* pending deliveries of the open channel apart.
LEMMA HandleMessageKeepsInv ==
  ASSUME DeliveryInv, NEW m \in Messages, HandleMessage(m)
  PROVE  DeliveryInv'
<1> DEFINE new == delivered + 1
<1>1. /\ delivered \in Nat /\ lastTag \in Nat /\ lastTag <= delivered
      /\ new \in Deliveries
      /\ new \notin unacked
      /\ channelOpen
  BY BoundsAssumption DEF HandleMessage, AwaitAck, DeliveryInv, ConsumerTypeOK, Deliveries
<1>2. /\ unacked' = unacked \cup {new}
      /\ delivered' = new
      /\ lastTag' = lastTag + 1
      /\ UNCHANGED <<channelVars, faultVars, wire, listeners, dlxBound>>
  BY DEF HandleMessage, AwaitAck
<1>3. /\ run' \in [Deliveries -> Run]
      /\ run'[new] = [msg |-> m, tag |-> lastTag + 1, st |-> "running"]
      /\ \A d \in Deliveries : d # new => run'[d] = run[d]
  <2>1. [msg |-> m, tag |-> lastTag + 1, st |-> "running"] \in Run
    BY <1>1 DEF Run, RunStates
  <2>2. run \in [Deliveries -> Run]
    BY DEF DeliveryInv, ConsumerTypeOK
  <2> QED
    BY <1>1, <2>1, <2>2 DEF HandleMessage, AwaitAck
<1>4. /\ place \in [Messages -> Places] /\ place' \in [Messages -> Places]
      /\ place[m] = "ready" /\ place'[m] = "unacked"
      /\ \A n \in Messages : n # m => place'[n] = place[n]
  BY DEF HandleMessage, AwaitAck, FirstReady, DeliveryInv, ConsumerTypeOK, Places
<1>5. run[new].st = "unused"
  BY <1>1 DEF DeliveryInv, RunsNumbered
<1>6. \A d \in Deliveries : Finished(d)' => Finished(d) /\ d # new
  BY <1>1, <1>3 DEF Finished, Outcomes
<1>7. \A d \in Deliveries : run'[d].st \in Outcomes => run'[d] = run[d]
  BY <1>1, <1>3 DEF Outcomes
<1>8. ConsumerTypeOK'
  <2>1. unacked' \subseteq 1 .. delivered'
    BY <1>1, <1>2 DEF DeliveryInv, ConsumerTypeOK
  <2>2. lastTag' \in 0 .. delivered' /\ delivered' \in 0 .. MaxDeliveries
    BY <1>1, <1>2, BoundsAssumption DEF Deliveries
  <2>3. wire' \in Seq(Deliveries)
    BY <1>1, <1>2 DEF DeliveryInv, ConsumerTypeOK
  <2> QED
    BY <1>1, <1>2, <1>3, <1>4, <2>1, <2>2, <2>3 DEF DeliveryInv, ConsumerTypeOK
<1>9. RunsNumbered'
  <2>1. ASSUME NEW d \in Deliveries
        PROVE  /\ run'[d].st = "unused" <=> d > new
               /\ d <= new => run'[d].msg \in Messages
    <3>1. d \in Nat
      BY BoundsAssumption DEF Deliveries
    <3>2. CASE d = new
      BY <1>1, <1>3, <3>2
    <3>3. CASE d # new
      <4>1. run'[d] = run[d] /\ (d > new <=> d > delivered)
                             /\ (d <= new => d <= delivered)
        BY <1>1, <1>3, <3>1, <3>3
      <4> QED
        BY <4>1 DEF DeliveryInv, RunsNumbered
    <3> QED
      BY <3>2, <3>3
  <2> QED
    BY <1>2, <2>1 DEF RunsNumbered
<1>10. PendingNamed'
  <2>1. \A d \in unacked : /\ d \in Deliveries /\ d # new
                           /\ run'[d] = run[d]
                           /\ run[d].msg \in Messages
                           /\ place[run[d].msg] = "unacked"
                           /\ run[d].tag <= lastTag
                           /\ run[d].tag \in Nat
    BY <1>1, <1>3, PendingDelivered
       DEF DeliveryInv, PendingNamed, ConsumerTypeOK, Run
  <2>2. \A d \in unacked : run[d].msg # m /\ run[d].tag # lastTag + 1
    BY <1>1, <1>4, <2>1
  <2>3. \A d \in unacked' : /\ place'[run'[d].msg] = "unacked"
                            /\ run'[d].tag <= lastTag'
    BY <1>1, <1>2, <1>3, <1>4, <2>1, <2>2
  <2>4. \A d, e \in unacked' : run'[d].tag = run'[e].tag => d = e
    BY <1>2, <1>3, <2>1, <2>2 DEF DeliveryInv, PendingNamed
  <2>5. \A d, e \in unacked' : run'[d].msg = run'[e].msg => d = e
    BY <1>2, <1>3, <2>1, <2>2 DEF DeliveryInv, PendingNamed
  <2> QED
    BY <2>3, <2>4, <2>5 DEF PendingNamed
<1>11. IdleUntilOpened'
  BY <1>1, <1>2 DEF DeliveryInv, IdleUntilOpened
<1>12. RunningPending'
  BY <1>1, <1>2, <1>3 DEF DeliveryInv, RunningPending, Running
<1>13. NoFailureBooks'
  <2>1. \A d \in Deliveries : Finished(d) /\ place[run[d].msg] \in Settled
          => run[d].msg \in Messages /\ run[d].msg # m
    BY <1>4, FinishedDelivered DEF Settled
  <2> QED
    BY <1>2, <1>3, <1>4, <1>6, <2>1 DEF DeliveryInv, NoFailureBooks
<1>17. WireFinished' /\ WireOwn'
  <2>1. \A i \in 1 .. Len(wire) : wire[i] \in Deliveries /\ wire[i] # new
    BY <1>5, WireElements DEF DeliveryInv, WireFinished, Finished, Outcomes
  <2> QED
    BY <1>2, <1>3, <2>1 DEF DeliveryInv, WireFinished, WireOwn, Finished
<1>14. SettledByOwnRun'
  <2>1. \A n \in Messages : place'[n] \in Settled => place'[n] = place[n]
    BY <1>4 DEF Settled
  <2>2. \A d \in Deliveries : run[d].st \in Outcomes => d # new
    BY <1>5 DEF Outcomes
  <2> QED
    BY <1>2, <1>3, <2>1, <2>2
       DEF DeliveryInv, SettledByOwnRun, Settled, Outcomes
<1>15. OneAtATime'
  <2> SUFFICES ASSUME reconnects = 0,
                      NEW d \in Deliveries, NEW e \in Deliveries,
                      Running(d)', Running(e)',
                      QueueOf[run'[d].msg] = QueueOf[run'[e].msg]
               PROVE  d = e
    BY <1>2 DEF OneAtATime
  <2>1. \A c \in Deliveries : Running(c) => QueueOf[run[c].msg] # QueueOf[m]
    BY <1>1 DEF HandleMessage, AwaitAck, PrefetchAllows, DeliveryInv, RunningPending
  <2>2. \A c \in Deliveries : Running(c)' /\ c # new => Running(c)
    BY <1>3 DEF Running
  <2> QED
    BY <1>3, <2>1, <2>2 DEF DeliveryInv, OneAtATime
<1>16. CompletedOnce'
  BY <1>2, <1>3, <1>6 DEF DeliveryInv, CompletedOnce
<1> QED
  BY <1>8, <1>9, <1>10, <1>11, <1>12, <1>13, <1>14, <1>15, <1>16, <1>17
     DEF DeliveryInv

\* A run ends and sends its ack or nack.
LEMMA EndKeepsInv ==
  ASSUME DeliveryInv, NEW d \in Deliveries, Running(d),
         NEW outcome \in Outcomes,
         run' = [run EXCEPT ![d].st = outcome],
         Send(d),
         UNCHANGED <<channelVars, faultVars, place, unacked, lastTag,
                     delivered, listeners, dlxBound>>
  PROVE  DeliveryInv'
<1>1. /\ run' \in [Deliveries -> Run]
      /\ \A e \in Deliveries : e # d => run'[e] = run[e]
      /\ \A e \in Deliveries : run'[e].msg = run[e].msg
                               /\ run'[e].tag = run[e].tag
      /\ run'[d].st = outcome
  BY DEF DeliveryInv, ConsumerTypeOK, Run, RunStates
<1>2. opened /\ d <= delivered /\ run[d].msg \in Messages
      /\ run[d].st = "running"
  BY FinishedDelivered DEF DeliveryInv, IdleUntilOpened, Running
<1>3. /\ \A e \in Deliveries : Running(e)' => Running(e) /\ e # d
      /\ \A e \in Deliveries : Finished(e)' <=> e = d \/ Finished(e)
      /\ ~Finished(d)
  BY <1>1, <1>2 DEF Running, Finished, Outcomes
<1>4. /\ wire \in Seq(Deliveries)
      /\ wire' = IF channelOpen THEN Append(wire, d) ELSE wire
      /\ Len(wire) \in Nat
      /\ \A i \in 1 .. Len(wire) : wire[i] \in Deliveries
  BY WireElements DEF DeliveryInv, Send
<1>5. \A i \in 1 .. Len(wire) : wire[i] # d
  BY <1>3 DEF DeliveryInv, WireFinished
<1>6. ConsumerTypeOK'
  <2>1. wire' \in Seq(Deliveries) /\ (~channelOpen => wire' = wire)
    <3> HIDE DEF Deliveries
    <3> QED
      BY <1>4, AppendProperties
  <2> QED
    BY <1>1, <2>1 DEF DeliveryInv, ConsumerTypeOK
<1>7. RunsNumbered'
  BY <1>1, <1>2 DEF DeliveryInv, RunsNumbered, Outcomes
<1>8. PendingNamed'
  <2>1. \A e \in unacked : e \in Deliveries
    BY PendingDelivered
  <2> QED
    BY <1>1, <2>1 DEF DeliveryInv, PendingNamed
<1>9. IdleUntilOpened'
  BY <1>2 DEF IdleUntilOpened
<1>10. RunningPending'
  BY <1>3 DEF DeliveryInv, RunningPending
<1>11. OneAtATime'
  BY <1>1, <1>3 DEF DeliveryInv, OneAtATime
<1>12. WireFinished'
  <2>1. CASE channelOpen
    <3>1. \A i \in 1 .. Len(wire') : wire'[i] = d \/
            (i \in 1 .. Len(wire) /\ wire'[i] = wire[i])
      BY <1>4, <2>1
    <3>2. \A i \in 1 .. Len(wire) : run'[wire[i]].st \in Outcomes
      BY <1>1, <1>4, <1>5 DEF DeliveryInv, WireFinished, Finished
    <3>3. run'[d].st \in Outcomes
      BY <1>1
    <3>4. \A i \in 1 .. Len(wire') : run'[wire'[i]].st \in Outcomes
      BY <3>1, <3>2, <3>3
    <3> QED
      BY <3>4 DEF WireFinished, Finished
  <2>2. CASE ~channelOpen
    BY <2>2, <1>4 DEF DeliveryInv, ConsumerTypeOK, WireFinished
  <2> QED
    BY <2>1, <2>2
<1>13. WireOwn'
  <2> SUFFICES ASSUME reconnects = 0
               PROVE  WireOwn'
    BY DEF WireOwn
  <2>1. CASE channelOpen
    <3>1. d \in unacked
      BY <2>1 DEF DeliveryInv, RunningPending
    <3>2. /\ Len(wire') = Len(wire) + 1
          /\ wire'[Len(wire) + 1] = d
          /\ \A i \in 1 .. Len(wire) : wire'[i] = wire[i]
      BY <1>4, <2>1
    <3> QED
      BY <1>4, <1>5, <3>1, <3>2 DEF DeliveryInv, WireOwn
  <2>2. CASE ~channelOpen
    BY <2>2, <1>4 DEF DeliveryInv, ConsumerTypeOK, WireOwn
  <2> QED
    BY <2>1, <2>2
<1>14. SettledByOwnRun'
  <2>1. \A e \in Deliveries : run[e].st \in Outcomes => run'[e] = run[e]
    BY <1>1, <1>2 DEF Outcomes
  <2>2. \A e \in Deliveries :
          /\ run[e].st = "resolved" => run'[e] = run[e]
          /\ run[e].st = "threw" => run'[e] = run[e]
    BY <2>1 DEF Outcomes
  <2> SUFFICES ASSUME reconnects = 0, NEW m \in Messages
               PROVE  /\ place[m] = "acked" =>
                           \E e \in Deliveries :
                             run'[e].msg = m /\ run'[e].st = "resolved"
                      /\ place[m] \in {"dead", "dropped"} =>
                           \E e \in Deliveries :
                             run'[e].msg = m /\ run'[e].st = "threw"
    BY DEF SettledByOwnRun
  <2>3. /\ place[m] = "acked" =>
             \E e \in Deliveries : run[e].msg = m /\ run[e].st = "resolved"
        /\ place[m] \in {"dead", "dropped"} =>
             \E e \in Deliveries : run[e].msg = m /\ run[e].st = "threw"
    BY DEF DeliveryInv, SettledByOwnRun
  <2> QED
    BY <2>2, <2>3
<1>15. NoFailureBooks' /\ CompletedOnce'
  <2> SUFFICES ASSUME disconnects = 0, crashes = 0
               PROVE  NoFailureBooks' /\ CompletedOnce'
    BY DEF NoFailureBooks, CompletedOnce
  <2>1. reconnects = 0 /\ channelOpen
    BY <1>2 DEF DeliveryInv, NoFailureBooks
  <2>2. d \in unacked
    BY <2>1 DEF DeliveryInv, RunningPending
  <2>3. NoFailureBooks'
    BY <1>1, <1>3, <2>1, <2>2 DEF DeliveryInv, NoFailureBooks
  <2>4. \A c \in Deliveries : Finished(c) => run[c].msg # run[d].msg
    <3> SUFFICES ASSUME NEW c \in Deliveries, Finished(c),
                        run[c].msg = run[d].msg
                 PROVE  FALSE
      OBVIOUS
    <3>1. place[run[c].msg] = "unacked"
      BY <2>2 DEF DeliveryInv, PendingNamed
    <3>2. c \in unacked
      BY <3>1 DEF DeliveryInv, NoFailureBooks, Settled
    <3> QED
      BY <1>3, <2>2, <3>2 DEF DeliveryInv, PendingNamed
  <2>5. CompletedOnce'
    BY <1>1, <1>3, <2>4 DEF DeliveryInv, CompletedOnce
  <2> QED
    BY <2>3, <2>5
<1> QED
  BY <1>6, <1>7, <1>8, <1>9, <1>10, <1>11, <1>12, <1>13, <1>14, <1>15
     DEF DeliveryInv

LEMMA AckMessageKeepsInv ==
  ASSUME DeliveryInv, NEW d \in Deliveries, AckMessage(d)
  PROVE  DeliveryInv'
  BY EndKeepsInv DEF AckMessage, Outcomes

LEMMA NackMessageKeepsInv ==
  ASSUME DeliveryInv, NEW d \in Deliveries, NackMessage(d)
  PROVE  DeliveryInv'
  BY EndKeepsInv DEF NackMessage, Outcomes

\* The broker settles what the oldest ack or nack names.
LEMMA BrokerSettlesKeepsInv ==
  ASSUME DeliveryInv, BrokerSettles
  PROVE  DeliveryInv'
<1> DEFINE d == Head(wire)
<1>1. /\ wire # <<>> /\ wire \in Seq(Deliveries)
      /\ UNCHANGED <<connected, opened, reconnects, faultVars, lastTag,
                     delivered, run, listeners, dlxBound>>
  BY DEF BrokerSettles, DeliveryInv, ConsumerTypeOK
<1>2. /\ Tail(wire) \in Seq(Deliveries)
      /\ Len(Tail(wire)) = Len(wire) - 1
      /\ \A i \in 1 .. Len(Tail(wire)) : /\ i + 1 \in 1 .. Len(wire)
                                         /\ Tail(wire)[i] = wire[i + 1]
      /\ d = wire[1] /\ 1 \in 1 .. Len(wire)
  <2> HIDE DEF Deliveries
  <2> QED
    BY <1>1, HeadTailProperties, LenProperties
<1>3. Finished(d) /\ d \in Deliveries
  BY <1>2, WireElements DEF DeliveryInv, WireFinished
<1>4. /\ place' \in [Messages -> Places]
      /\ unacked' \subseteq unacked
      /\ channelOpen' \in BOOLEAN
      /\ channelOpen' => channelOpen
      /\ ~channelOpen' => unacked' = {} /\ wire' = <<>>
      /\ wire' = Tail(wire) \/ wire' = <<>>
      /\ \A e \in unacked' : place'[run[e].msg] = "unacked"
  BY SettleKeepsBooks
<1>5. ConsumerTypeOK'
  <2>1. wire' \in Seq(Deliveries)
    BY <1>2, <1>4, EmptySeq
  <2> QED
    BY <1>1, <1>4, <2>1 DEF DeliveryInv, ConsumerTypeOK
<1>6. RunsNumbered' /\ IdleUntilOpened'
  BY <1>1, <1>4 DEF DeliveryInv, RunsNumbered, IdleUntilOpened, Running
<1>7. PendingNamed'
  BY <1>1, <1>4 DEF DeliveryInv, PendingNamed
<1>8. WireFinished'
  BY <1>1, <1>2, <1>4 DEF DeliveryInv, WireFinished, Finished
<1>9. OneAtATime' /\ CompletedOnce'
  BY <1>1 DEF DeliveryInv, OneAtATime, CompletedOnce, Running, Finished
<1>10. ASSUME reconnects = 0
       PROVE  /\ d \in unacked
              /\ unacked' = unacked \ {d}
              /\ place' = [place EXCEPT ![run[d].msg] = Destination(d)]
              /\ channelOpen' = channelOpen
              /\ wire' = Tail(wire)
  BY <1>10, SettleOwnDelivery
<1>11. RunningPending'
  <2> SUFFICES ASSUME reconnects = 0, channelOpen, NEW e \in Deliveries,
                      Running(e)
               PROVE  e \in unacked'
    BY <1>1, <1>4 DEF RunningPending, Running
  <2>1. e \in unacked /\ e # d
    BY <1>3 DEF DeliveryInv, RunningPending, Running, Finished, Outcomes
  <2> QED
    BY <1>10, <2>1
<1>12. WireOwn'
  <2> SUFFICES ASSUME reconnects = 0
               PROVE  WireOwn'
    BY <1>1 DEF WireOwn
  <2>1. \A i \in 1 .. Len(wire') : wire'[i] \in unacked /\ wire'[i] # d
    BY <1>2, <1>10 DEF DeliveryInv, WireOwn
  <2>2. \A i, j \in 1 .. Len(wire') : wire'[i] = wire'[j] => i = j
    BY <1>2, <1>10 DEF DeliveryInv, WireOwn
  <2> QED
    BY <1>10, <2>1, <2>2 DEF WireOwn
<1>13. SettledByOwnRun'
  <2> SUFFICES ASSUME reconnects = 0
               PROVE  SettledByOwnRun'
    BY <1>1 DEF SettledByOwnRun
  <2>1. SettledByOwnRun
    BY DEF DeliveryInv
  <2>2. \A m \in Messages :
          \/ place'[m] = place[m]
          \/ m = run[d].msg /\ place'[m] = Destination(d)
    BY <1>10 DEF DeliveryInv, ConsumerTypeOK
  <2>3. /\ Destination(d) = "acked" => run[d].st = "resolved"
        /\ Destination(d) \in {"dead", "dropped"} => run[d].st = "threw"
    BY <1>3 DEF Destination, Finished, Outcomes
  <2> QED
    BY <1>1, <1>3, <2>1, <2>2, <2>3 DEF SettledByOwnRun
<1>14. NoFailureBooks'
  <2> SUFFICES ASSUME disconnects = 0, crashes = 0
               PROVE  NoFailureBooks'
    BY <1>1 DEF NoFailureBooks
  <2>1. reconnects = 0
    BY DEF DeliveryInv, NoFailureBooks
  <2>2. run[d].msg \in Messages /\ Destination(d) \in Settled
    BY <1>3, FinishedDelivered DEF Destination, Settled
  <2>3. place'[run[d].msg] \in Settled
    BY <1>10, <2>1, <2>2 DEF DeliveryInv, ConsumerTypeOK
  <2>4. \A m \in Messages : place[m] \in Settled => place'[m] \in Settled
    BY <1>10, <2>1, <2>2 DEF DeliveryInv, ConsumerTypeOK
  <2>5. ASSUME NEW e \in Deliveries, Finished(e)
        PROVE  place'[run[e].msg] \in Settled \/ e \in unacked'
    <3>1. run[e].msg \in Messages
      BY <2>5, FinishedDelivered
    <3>2. place[run[e].msg] \in Settled \/ e \in unacked
      BY <2>5 DEF DeliveryInv, NoFailureBooks
    <3> QED
      BY <1>10, <2>1, <2>3, <2>4, <3>1, <3>2
  <2> QED
    BY <1>1, <1>10, <2>1, <2>5 DEF DeliveryInv, NoFailureBooks, Finished
<1> QED
  BY <1>5, <1>6, <1>7, <1>8, <1>9, <1>11, <1>12, <1>13, <1>14
     DEF DeliveryInv

----------------------------------------------------------------------------
(* The theorems.                                                           *)

\* DeliveryInv is inductive: it holds at the start and every step of the
\* consumer, of the broker and of the process keeps it.
THEOREM ConsumerInvariance == ConsumerSpec => []DeliveryInv
<1>1. ConsumerInit => DeliveryInv
  BY ConsumerInitInv
<1>2. DeliveryInv /\ [ConsumerNext]_consumerVars => DeliveryInv'
  <2> SUFFICES ASSUME DeliveryInv, [ConsumerNext]_consumerVars
               PROVE  DeliveryInv'
    OBVIOUS
  <2>1. CASE OpenChannel
    BY <2>1, OpenChannelKeepsInv
  <2>2. CASE BindDeadLetters
    BY <2>2, SetupKeepsInv
  <2>3. CASE Disconnect \/ DeliveryTimesOut
    BY <2>3, LoseChannelKeepsInv DEF Disconnect, DeliveryTimesOut
  <2>4. CASE Crash
    BY <2>4, CrashKeepsInv
  <2>5. CASE \E q \in Queues : ListenOnQueue(q)
    BY <2>5, SetupKeepsInv
  <2>6. CASE \E m \in Messages : HandleMessage(m)
    BY <2>6, HandleMessageKeepsInv
  <2>7. CASE \E d \in Deliveries : AckMessage(d) \/ NackMessage(d)
    BY <2>7, AckMessageKeepsInv, NackMessageKeepsInv
  <2>8. CASE BrokerSettles
    BY <2>8, BrokerSettlesKeepsInv
  <2>9. CASE UNCHANGED consumerVars
    BY <2>9 DEF consumerVars, DeliveryInv, ConsumerTypeOK, RunsNumbered,
       PendingNamed, IdleUntilOpened, RunningPending, WireFinished, WireOwn,
       NoFailureBooks, SettledByOwnRun, OneAtATime, CompletedOnce, Running,
       Finished
  <2> QED
    BY <2>1, <2>2, <2>3, <2>4, <2>5, <2>6, <2>7, <2>8, <2>9 DEF ConsumerNext
<1> QED
  BY <1>1, <1>2, PTL DEF ConsumerSpec

\* Every variable of the consumer keeps its type, and what awaits a settlement
\* was delivered on the channel that is open (consumer.service.ts:64-83).
THEOREM ConsumerTyping == ConsumerSpec => []ConsumerTypeOK
<1>1. DeliveryInv => ConsumerTypeOK
  BY DEF DeliveryInv
<1> QED
  BY <1>1, ConsumerInvariance, PTL

\* Until a channel is replaced under a live process, no ack and no nack of
\* handleMessage reaches another message than its own.
THEOREM OwnSettlement == ConsumerSpec => []SettledByOwnRun
<1>1. DeliveryInv => SettledByOwnRun
  BY DEF DeliveryInv
<1> QED
  BY <1>1, ConsumerInvariance, PTL

\* Until a channel is replaced under a live process, prefetch: 1 runs the
\* jobs of a queue one after the other.
THEOREM SerialJobs == ConsumerSpec => []OneAtATime
<1>1. DeliveryInv => OneAtATime
  BY DEF DeliveryInv
<1> QED
  BY <1>1, ConsumerInvariance, PTL

\* As long as nothing fails, no message's callback runs to its end twice.
THEOREM NoRepeatedJob == ConsumerSpec => []CompletedOnce
<1>1. DeliveryInv => CompletedOnce
  BY DEF DeliveryInv
<1> QED
  BY <1>1, ConsumerInvariance, PTL

----------------------------------------------------------------------------
(* One delivery each: what DeliveryInv says of a behaviour without failures *)
(* and without a second channel holds longer than that, and is what makes   *)
(* an attempt at a message the only one.                                    *)

\* A process on its first channel: it did not exit and no channel was replaced
\* under it.
Calm == crashes = 0 /\ reconnects = 0

\* On the first channel nothing was delivered before it was opened, no run was
\* killed, a run that ended has settled its message or is about to, and no
\* message was delivered twice.
OnceInv ==
  Calm =>
    /\ ~opened => delivered = 0
    /\ \A d \in Deliveries : run[d].st # "killed"
    /\ channelOpen =>
         \A d \in Deliveries :
           Finished(d) => place[run[d].msg] \in Settled \/ d \in unacked
    /\ \A d, e \in Deliveries :
         d <= delivered /\ e <= delivered /\ run[d].msg = run[e].msg => d = e

\* A message that waits on its queue has no run, as long as the first channel
\* is open.
LEMMA ReadyHasNoRun ==
  ASSUME DeliveryInv, OnceInv, Calm, channelOpen,
         NEW m \in Messages, place[m] = "ready",
         NEW d \in Deliveries, d <= delivered
  PROVE  run[d].msg # m
<1> SUFFICES ASSUME run[d].msg = m
             PROVE  FALSE
  OBVIOUS
<1>1. d \in Nat /\ delivered \in Nat
  BY BoundsAssumption DEF Deliveries, DeliveryInv, ConsumerTypeOK
<1>2. run[d].st # "unused"
  BY <1>1 DEF DeliveryInv, RunsNumbered
<1>3. run[d].st # "killed"
  BY DEF OnceInv
<1>4. run[d].st \in RunStates
  BY DEF DeliveryInv, ConsumerTypeOK, Run
<1>5. CASE Running(d)
  <2>1. d \in unacked
    BY <1>5 DEF DeliveryInv, RunningPending, Calm
  <2> QED
    BY <2>1 DEF DeliveryInv, PendingNamed
<1>6. CASE Finished(d)
  BY <1>6 DEF OnceInv, DeliveryInv, PendingNamed, Settled
<1> QED
  BY <1>2, <1>3, <1>4, <1>5, <1>6 DEF RunStates, Running, Finished

LEMMA OnceInit == ConsumerInit => OnceInv
<1> SUFFICES ASSUME ConsumerInit
             PROVE  OnceInv
  OBVIOUS
<1>1. \A d \in Deliveries : run[d].st = "unused" /\ ~(d <= delivered)
  BY BoundsAssumption DEF ConsumerInit, NoRun, Deliveries
<1> QED
  BY <1>1 DEF OnceInv, ConsumerInit, Finished, Outcomes

\* What every step but a delivery and a settlement does: deliveries keep their
\* messages and what was settled or awaited stays so while the channel does.
LEMMA OnceKept ==
  ASSUME DeliveryInv, OnceInv,
         Calm' => Calm,
         delivered' = delivered,
         opened' = opened,
         channelOpen' => channelOpen,
         \A d \in Deliveries :
           run'[d].msg = run[d].msg /\ run'[d].st # "killed",
         channelOpen' => /\ place' = place /\ unacked' = unacked
                         /\ \A d \in Deliveries :
                              Finished(d)' => Finished(d) \/ d \in unacked
  PROVE  OnceInv'
  BY DEF OnceInv

LEMMA OnceOfDelivery ==
  ASSUME DeliveryInv, OnceInv, NEW m \in Messages, HandleMessage(m)
  PROVE  OnceInv'
<1> DEFINE new == delivered + 1
<1> SUFFICES ASSUME Calm
             PROVE  OnceInv'
  BY DEF OnceInv, Calm, HandleMessage
<1>1. /\ delivered \in Nat /\ new \in Deliveries /\ channelOpen
      /\ opened
      /\ place[m] = "ready"
  BY BoundsAssumption
     DEF HandleMessage, FirstReady, DeliveryInv, ConsumerTypeOK, Deliveries,
         IdleUntilOpened
<1>2. /\ unacked' = unacked \cup {new} /\ delivered' = new
      /\ UNCHANGED <<opened, channelOpen>>
      /\ place' = [place EXCEPT ![m] = "unacked"]
  BY DEF HandleMessage, AwaitAck
<1>3. /\ run'[new].msg = m /\ run'[new].st = "running"
      /\ \A d \in Deliveries : d # new => run'[d] = run[d]
  BY <1>1 DEF HandleMessage, DeliveryInv, ConsumerTypeOK
<1>4. \A d \in Deliveries : d <= new /\ d # new => d <= delivered
  BY <1>1, BoundsAssumption DEF Deliveries
<1>5. \A d \in Deliveries : d <= delivered => run[d].msg # m /\ d # new
  BY <1>1, ReadyHasNoRun
<1>6. \A d, e \in Deliveries :
        d <= delivered' /\ e <= delivered' /\ run'[d].msg = run'[e].msg => d = e
  BY <1>2, <1>3, <1>4, <1>5 DEF OnceInv
<1>7. ASSUME NEW d \in Deliveries, Finished(d)'
      PROVE  place'[run'[d].msg] \in Settled \/ d \in unacked'
  <2>1. d # new /\ Finished(d) /\ run'[d] = run[d]
    BY <1>3, <1>7 DEF Finished, Outcomes
  <2>2. run[d].msg # m
    BY <1>5, <2>1, FinishedDelivered
  <2>3. place[run[d].msg] \in Settled \/ d \in unacked
    BY <1>1, <2>1 DEF OnceInv
  <2> QED
    BY <1>2, <2>1, <2>2, <2>3 DEF DeliveryInv, ConsumerTypeOK
<1>8. \A d \in Deliveries : run'[d].st # "killed"
  BY <1>3 DEF OnceInv
<1> QED
  BY <1>1, <1>2, <1>6, <1>7, <1>8 DEF OnceInv

LEMMA OnceOfSettlement ==
  ASSUME DeliveryInv, OnceInv, BrokerSettles
  PROVE  OnceInv'
<1> DEFINE d == Head(wire)
<1> SUFFICES ASSUME Calm
             PROVE  OnceInv'
  BY DEF OnceInv, Calm, BrokerSettles
<1>1. UNCHANGED <<opened, reconnects, crashes, delivered, run>>
  BY DEF BrokerSettles
<1>2. /\ d \in unacked
      /\ unacked' = unacked \ {d}
      /\ place' = [place EXCEPT ![run[d].msg] = Destination(d)]
      /\ channelOpen' = channelOpen
  BY SettleOwnDelivery DEF Calm
<1>3. Destination(d) \in Settled /\ run[d].msg \in Messages
  BY <1>2, PendingDelivered DEF Destination, Settled
<1>4. \A m \in Messages : place[m] \in Settled => place'[m] \in Settled
  BY <1>2, <1>3 DEF DeliveryInv, ConsumerTypeOK
<1>5. place'[run[d].msg] \in Settled
  BY <1>2, <1>3 DEF DeliveryInv, ConsumerTypeOK
<1>6. ASSUME NEW e \in Deliveries, Finished(e), channelOpen
      PROVE  place'[run[e].msg] \in Settled \/ e \in unacked'
  <2>1. run[e].msg \in Messages
    BY <1>6, FinishedDelivered
  <2>2. place[run[e].msg] \in Settled \/ e \in unacked
    BY <1>6 DEF OnceInv
  <2> QED
    BY <1>2, <1>4, <1>5, <2>1, <2>2
<1> QED
  BY <1>1, <1>2, <1>6 DEF OnceInv, Finished

\* Each step keeps it.
LEMMA OnceStep ==
  ASSUME DeliveryInv, OnceInv, [ConsumerNext]_consumerVars
  PROVE  OnceInv'
<1>1. CASE OpenChannel
  <2> SUFFICES ASSUME Calm'
               PROVE  OnceInv'
    BY DEF OnceInv
  <2>1. Calm /\ ~opened
    BY <1>1 DEF Calm, OpenChannel, DeliveryInv, ConsumerTypeOK
  <2>2. delivered = 0 /\ \A d \in Deliveries : run[d].st # "killed"
    BY <2>1 DEF OnceInv
  <2>3. \A d \in Deliveries : run[d].st = "unused" /\ ~(d <= delivered)
    BY <2>2, BoundsAssumption DEF DeliveryInv, RunsNumbered, Deliveries
  <2> QED
    BY <1>1, <2>2, <2>3 DEF OnceInv, OpenChannel, Finished, Outcomes
<1>2. CASE BindDeadLetters \/ \E q \in Queues : ListenOnQueue(q)
  BY <1>2 DEF BindDeadLetters, ListenOnQueue, OnceInv, Calm, Finished
<1>3. CASE Disconnect \/ DeliveryTimesOut
  BY <1>3 DEF Disconnect, DeliveryTimesOut, LoseChannel, OnceInv, Calm
<1>4. CASE Crash
  BY <1>4 DEF Crash, OnceInv, Calm, DeliveryInv, ConsumerTypeOK
<1>5. CASE \E m \in Messages : HandleMessage(m)
  BY <1>5, OnceOfDelivery
<1>6. CASE BrokerSettles
  BY <1>6, OnceOfSettlement
<1>7. ASSUME NEW d \in Deliveries, AckMessage(d) \/ NackMessage(d)
      PROVE  OnceInv'
  <2> SUFFICES ASSUME Calm
               PROVE  OnceInv'
    BY <1>7 DEF OnceInv, Calm, AckMessage, NackMessage
  <2>1. /\ UNCHANGED <<place, unacked, delivered, opened, channelOpen,
                       crashes, reconnects>>
        /\ Running(d)
    BY <1>7 DEF AckMessage, NackMessage
  <2>2. \A e \in Deliveries : /\ run'[e].msg = run[e].msg
                              /\ e # d => run'[e] = run[e]
                              /\ run'[d].st # "killed"
    BY <1>7 DEF AckMessage, NackMessage, DeliveryInv, ConsumerTypeOK, Run
  <2>3. channelOpen => d \in unacked
    BY <2>1 DEF DeliveryInv, RunningPending, Calm
  <2> QED
    BY <2>1, <2>2, <2>3, OnceKept DEF Calm, OnceInv, Finished
<1>8. CASE UNCHANGED consumerVars
  BY <1>8 DEF consumerVars, OnceInv, Calm, Finished
<1> QED
  BY <1>1, <1>2, <1>3, <1>4, <1>5, <1>6, <1>7, <1>8 DEF ConsumerNext

\* Until the process exits or a channel is replaced under it, the broker
\* delivers no message twice, and nothing of a first attempt is left to
\* meet a second one: prefetch, the ack after the callback and the
\* redelivery of consumer.service.ts:45-83 together.
THEOREM DeliveredOnce == ConsumerSpec => []OnceInv
<1>1. DeliveryInv /\ OnceInv /\ [ConsumerNext]_consumerVars => OnceInv'
  BY OnceStep
<1> QED
  BY <1>1, OnceInit, ConsumerInvariance, PTL DEF ConsumerSpec

----------------------------------------------------------------------------
(* The broker's ledger: every message it has discarded is paid for by an   *)
(* ack or nack it has read, and every ack or nack by a run that ended.     *)

\* The messages the broker has discarded.
Discarded == {m \in Messages : place[m] \in Settled}

\* The runs that ended and whose ack or nack is not on its way any more: it
\* was read by the broker, lost, or never sent.
Spent == {d \in Deliveries :
            Finished(d) /\ \A i \in 1 .. Len(wire) : wire[i] # d}

\* A run sends one ack or nack, and the broker discards at most one message
\* for each it reads.
LedgerInv ==
  /\ \A i, j \in 1 .. Len(wire) : wire[i] = wire[j] => i = j
  /\ IsFiniteSet(Discarded)
  /\ Cardinality(Discarded) <= Cardinality(Spent)

\* There are finitely many runs.
LEMMA SpentFinite ==
  ASSUME NEW S \in SUBSET Deliveries
  PROVE  IsFiniteSet(S) /\ Cardinality(S) \in Nat
<1>1. IsFiniteSet(1 .. MaxDeliveries)
  BY BoundsAssumption, FS_Interval
<1> QED
  BY <1>1, FS_Subset, FS_CardinalityType DEF Deliveries

\* The ledger stays balanced where no message is discarded and no run's ack
\* or nack is put back on its way.
LEMMA LedgerKept ==
  ASSUME LedgerInv,
         Discarded' \subseteq Discarded,
         Spent \subseteq Spent',
         \A i, j \in 1 .. Len(wire') : wire'[i] = wire'[j] => i = j
  PROVE  LedgerInv'
<1>1. Spent \in SUBSET Deliveries /\ Spent' \in SUBSET Deliveries
  BY DEF Spent
<1>2. IsFiniteSet(Discarded') /\ Cardinality(Discarded') <= Cardinality(Discarded)
  BY FS_Subset DEF LedgerInv
<1>3. Cardinality(Spent) <= Cardinality(Spent')
  BY <1>1, SpentFinite, FS_Subset
<1>4. /\ Cardinality(Discarded) \in Nat /\ Cardinality(Discarded') \in Nat
      /\ Cardinality(Spent) \in Nat /\ Cardinality(Spent') \in Nat
  BY <1>1, <1>2, SpentFinite, FS_CardinalityType DEF LedgerInv
<1>5. Cardinality(Discarded') <= Cardinality(Spent')
  BY <1>2, <1>3, <1>4 DEF LedgerInv
<1> QED
  BY <1>2, <1>5 DEF LedgerInv

LEMMA LedgerInit == ConsumerInit => LedgerInv
<1> SUFFICES ASSUME ConsumerInit
             PROVE  LedgerInv
  OBVIOUS
<1>1. Discarded = {} /\ Len(wire) = 0
  BY DEF ConsumerInit, Discarded, Settled
<1>2. Cardinality(Spent) \in Nat
  BY SpentFinite DEF Spent
<1> QED
  BY <1>1, <1>2, FS_EmptySet DEF LedgerInv

\* The channel is lost, or a settlement makes the broker close it: the acks
\* and nacks on their way are spent without a message discarded.
LEMMA LedgerOfRequeue ==
  ASSUME DeliveryInv, LedgerInv, Requeue,
         \A d \in Deliveries : Finished(d) => Finished(d)'
  PROVE  LedgerInv'
<1>1. wire' = <<>> /\ \A m \in Messages : place'[m] \in Settled => place'[m] = place[m]
  BY RequeueEffect
<1>2. Discarded' \subseteq Discarded
  BY <1>1 DEF Discarded
<1>3. Spent \subseteq Spent'
  BY <1>1 DEF Spent
<1> QED
  BY <1>1, <1>2, <1>3, LedgerKept

\* A run ends: what it sent is on its way, or spent at once when there is no
\* channel.
LEMMA LedgerOfEnd ==
  ASSUME DeliveryInv, LedgerInv, NEW d \in Deliveries,
         AckMessage(d) \/ NackMessage(d)
  PROVE  LedgerInv'
<1>1. /\ wire \in Seq(Deliveries) /\ Len(wire) \in Nat
      /\ \A i \in 1 .. Len(wire) : wire[i] \in Deliveries /\ Finished(wire[i])
  BY WireElements DEF DeliveryInv, WireFinished
<1>2. /\ Running(d) /\ place' = place
      /\ wire' = wire \/ wire' = Append(wire, d)
      /\ \A e \in Deliveries : e # d => run'[e] = run[e]
  BY DEF AckMessage, NackMessage, Send, DeliveryInv, ConsumerTypeOK
<1>3. ~Finished(d) /\ \A i \in 1 .. Len(wire) : wire[i] # d
  BY <1>1, <1>2 DEF Running, Finished, Outcomes
<1>4. \A i \in 1 .. Len(wire') :
        \/ wire'[i] = d /\ i = Len(wire) + 1
        \/ i \in 1 .. Len(wire) /\ wire'[i] = wire[i]
  <2>1. CASE wire' = wire
    BY <2>1
  <2>2. CASE wire' = Append(wire, d)
    <3> HIDE DEF Deliveries
    <3>1. /\ Len(wire') = Len(wire) + 1
          /\ wire'[Len(wire) + 1] = d
          /\ \A i \in 1 .. Len(wire) : wire'[i] = wire[i]
      BY <1>1, <2>2, AppendProperties
    <3> QED
      BY <1>1, <3>1
  <2> QED
    BY <1>2, <2>1, <2>2
<1>5. Discarded' = Discarded
  BY <1>2 DEF Discarded
<1>6. Spent \subseteq Spent'
  BY <1>2, <1>3, <1>4 DEF Spent, Finished
<1>7. \A i, j \in 1 .. Len(wire') : wire'[i] = wire'[j] => i = j
  BY <1>1, <1>3, <1>4 DEF LedgerInv
<1> QED
  BY <1>5, <1>6, <1>7, LedgerKept

\* The broker reads one ack or nack: one run more is spent, and at most one
\* message more is discarded.
LEMMA LedgerOfSettlement ==
  ASSUME DeliveryInv, LedgerInv, BrokerSettles
  PROVE  LedgerInv'
<1> DEFINE d == Head(wire)
<1>1. wire # <<>> /\ wire \in Seq(Deliveries) /\ run' = run
  BY DEF BrokerSettles, DeliveryInv, ConsumerTypeOK
<1>2. CASE SettleUnknownTag(d)
  BY <1>1, <1>2, LedgerOfRequeue DEF SettleUnknownTag, Finished
<1>3. CASE SettleNamed(d, Destination(d))
  <2>1. PICK e \in Named(d) : place' = [place EXCEPT ![run[e].msg] = Destination(d)]
    BY <1>3 DEF SettleNamed
  <2>2. run[e].msg \in Messages /\ wire' = Tail(wire)
    BY <1>3, PendingDelivered DEF SettleNamed, Named
  <2>3. Discarded' \subseteq Discarded \cup {run[e].msg}
    BY <2>1, <2>2 DEF Discarded, DeliveryInv, ConsumerTypeOK
  <2>4. /\ Len(wire) \in Nat /\ Len(wire') = Len(wire) - 1
        /\ \A i \in 1 .. Len(wire') : /\ i + 1 \in 1 .. Len(wire)
                                     /\ wire'[i] = wire[i + 1]
        /\ d = wire[1] /\ 1 \in 1 .. Len(wire)
    <3> HIDE DEF Deliveries
    <3> QED
      BY <1>1, <2>2, HeadTailProperties, LenProperties
  <2>5. \A i, j \in 1 .. Len(wire') : wire'[i] = wire'[j] => i = j
    BY <2>4 DEF LedgerInv
  <2>6. d \in Deliveries /\ Finished(d)
    BY <2>4, WireElements DEF DeliveryInv, WireFinished
  <2>7. \A i \in 1 .. Len(wire') : wire'[i] # d
    BY <2>4 DEF LedgerInv
  <2>8. d \notin Spent /\ Spent \cup {d} \subseteq Spent'
    BY <1>1, <2>4, <2>6, <2>7 DEF Spent, Finished
  <2>9. /\ Spent \in SUBSET Deliveries /\ Spent' \in SUBSET Deliveries
        /\ Spent \cup {d} \in SUBSET Deliveries
    BY <2>6 DEF Spent
  <2>10. /\ IsFiniteSet(Discarded \cup {run[e].msg})
         /\ Cardinality(Discarded \cup {run[e].msg}) <= Cardinality(Discarded) + 1
         /\ Cardinality(Discarded) \in Nat
         /\ Cardinality(Discarded \cup {run[e].msg}) \in Nat
    <3>1. IsFiniteSet(Discarded)
      BY DEF LedgerInv
    <3> HIDE DEF Discarded
    <3>2. Cardinality(Discarded) \in Nat
      BY <3>1, FS_CardinalityType
    <3>3. /\ IsFiniteSet(Discarded \cup {run[e].msg})
          /\ Cardinality(Discarded \cup {run[e].msg}) =
               IF run[e].msg \in Discarded THEN Cardinality(Discarded)
               ELSE Cardinality(Discarded) + 1
      BY <3>1, FS_AddElement
    <3> QED
      BY <3>2, <3>3
  <2>11. /\ IsFiniteSet(Discarded')
         /\ Cardinality(Discarded') <= Cardinality(Discarded \cup {run[e].msg})
         /\ Cardinality(Discarded') \in Nat
    BY <2>3, <2>10, FS_Subset, FS_CardinalityType
  <2>12. /\ Cardinality(Spent \cup {d}) = Cardinality(Spent) + 1
         /\ Cardinality(Spent \cup {d}) <= Cardinality(Spent')
         /\ Cardinality(Spent) \in Nat /\ Cardinality(Spent') \in Nat
    BY <2>8, <2>9, SpentFinite, FS_AddElement, FS_Subset
  <2>13. Cardinality(Discarded') <= Cardinality(Spent')
    BY <2>10, <2>11, <2>12 DEF LedgerInv
  <2> QED
    BY <2>5, <2>11, <2>13 DEF LedgerInv
<1> QED
  BY <1>2, <1>3 DEF BrokerSettles

\* Each step keeps the ledger balanced.
LEMMA LedgerStep ==
  ASSUME DeliveryInv, LedgerInv, [ConsumerNext]_consumerVars
  PROVE  LedgerInv'
<1>1. ASSUME UNCHANGED <<place, wire, run>>
      PROVE  LedgerInv'
  BY <1>1 DEF LedgerInv, Discarded, Spent, Finished
<1>2. CASE OpenChannel \/ BindDeadLetters \/ \E q \in Queues : ListenOnQueue(q)
  BY <1>1, <1>2 DEF OpenChannel, BindDeadLetters, ListenOnQueue
<1>3. CASE Disconnect \/ DeliveryTimesOut
  BY <1>3, LedgerOfRequeue
     DEF Disconnect, DeliveryTimesOut, LoseChannel, Finished
<1>4. CASE Crash
  BY <1>4, LedgerOfRequeue DEF Crash, Running, Finished, Outcomes
<1>5. ASSUME NEW m \in Messages, HandleMessage(m)
      PROVE  LedgerInv'
  <2>1. /\ wire' = wire /\ place' = [place EXCEPT ![m] = "unacked"]
        /\ delivered + 1 \in Deliveries
        /\ \A d \in Deliveries : d # delivered + 1 => run'[d] = run[d]
    BY <1>5, BoundsAssumption
       DEF HandleMessage, AwaitAck, DeliveryInv, ConsumerTypeOK, Deliveries
  <2>2. ~Finished(delivered + 1)
    BY <2>1, BoundsAssumption
       DEF DeliveryInv, RunsNumbered, ConsumerTypeOK, Finished, Outcomes
  <2>3. Discarded' \subseteq Discarded
    BY <2>1 DEF Discarded, Settled, DeliveryInv, ConsumerTypeOK
  <2>4. Spent \subseteq Spent'
    BY <2>1, <2>2 DEF Spent, Finished
  <2> QED
    BY <2>1, <2>3, <2>4, LedgerKept DEF LedgerInv
<1>6. CASE BrokerSettles
  BY <1>6, LedgerOfSettlement
<1>7. CASE \E d \in Deliveries : AckMessage(d) \/ NackMessage(d)
  BY <1>7, LedgerOfEnd
<1>8. CASE UNCHANGED consumerVars
  BY <1>1, <1>8 DEF consumerVars
<1> QED
  BY <1>2, <1>3, <1>4, <1>5, <1>6, <1>7, <1>8 DEF ConsumerNext

\* Whatever is lost, delivered again or settled under another delivery's tag,
\* the broker never discards more messages than runs of handleMessage ended:
\* no ack or nack takes two messages out of the queues.
THEOREM BackedSettlements == ConsumerSpec => []SettlementsBacked
<1>1. DeliveryInv /\ LedgerInv /\ [ConsumerNext]_consumerVars => LedgerInv'
  BY LedgerStep
<1>2. LedgerInv => SettlementsBacked
  <2> SUFFICES ASSUME LedgerInv
               PROVE  SettlementsBacked
    OBVIOUS
  <2> DEFINE Ended == {d \in Deliveries : Finished(d)}
  <2>1. Ended \in SUBSET Deliveries /\ Spent \in SUBSET Ended
    BY DEF Spent
  <2>2. Cardinality(Spent) <= Cardinality(Ended)
    BY <2>1, SpentFinite, FS_Subset
  <2>3. /\ Cardinality(Spent) \in Nat /\ Cardinality(Ended) \in Nat
        /\ Cardinality(Discarded) \in Nat
    BY <2>1, SpentFinite, FS_CardinalityType DEF LedgerInv, Spent
  <2> QED
    BY <2>2, <2>3 DEF LedgerInv, SettlementsBacked, Discarded
<1> QED
  BY <1>1, <1>2, LedgerInit, ConsumerInvariance, PTL DEF ConsumerSpec
============================================================================
