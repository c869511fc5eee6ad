--------------------------- MODULE NodePoolProofs ---------------------------
(***************************************************************************)
(* Proofs about NodePool, for any number of nodes, videos, files, attempts *)
(* and troubles.                                                           *)
(***************************************************************************)
EXTENDS NodePool, SequenceTheorems, TLAPS

USE DEF brokerVars, dataVars, statusVars, faultVars

----------------------------------------------------------------------------
(* The inductive invariant: first the types.                               *)

Attempt == [node : Nodes, video : Videos, tag : AttemptIds, stage : Stages,
            put : 0 .. NumFiles]
Reports == {"processing", "failed", "done"}
Entry == [video : Videos, of : Started, st : Reports]

BrokerTyped ==
  /\ place \in [Videos -> {"ready", "unacked", "acked", "dead"}]
  /\ alive \subseteq Nodes /\ connected \subseteq alive
  /\ held \in [Nodes -> {0} \cup Started]
  /\ \A n \in Nodes : held[n] # 0 => n \in connected /\ Node(held[n]) = n
  /\ lastTag \in [Nodes -> Nat]
  /\ \A n \in Nodes : lastTag[n] <= Len(attempts)
  /\ wire \in [Nodes -> Seq(Started)]
  /\ \A n \in Nodes : wire[n] # <<>> => n \in connected

AttemptsTyped == attempts \in Seq(Attempt) /\ Len(attempts) <= MaxAttempts

DataTyped ==
  /\ disk \in [Nodes -> [Videos -> {0} \cup Started]]
  /\ bucket \in [Videos -> [Files -> {0} \cup Started]]

StatusTyped ==
  /\ outbox \in [Nodes -> Seq(Entry)]
  /\ status \in [Videos -> [of : {0} \cup Started, st : {"none"} \cup Reports]]

TroublesTyped == lost \in Nat /\ exits \in Nat /\ lost + exits <= MaxTroubles

TypeInv ==
  /\ BrokerTyped /\ AttemptsTyped /\ DataTyped /\ StatusTyped /\ TroublesTyped

----------------------------------------------------------------------------
(* Then what ties the nodes to the broker and to the bucket.               *)

\* No later attempt at the video was delivered.
Latest(a) == \A b \in Started : Video(b) = Video(a) => b <= a

\* A node that runs an attempt is alive: an exit ends what it ran.
GoingAlive == \A a \in Started : Going(a) => Node(a) \in alive

\* Statuses wait on the node of the attempt that published them, and die with
\* it; the api's status of a video is one of an attempt at it.
StatusOrigin ==
  /\ \A n \in Nodes : wire[n] # <<>> \/ outbox[n] # <<>> => n \in alive
  /\ \A n \in Nodes : \A i \in 1 .. Len(outbox[n]) :
       LET e == outbox[n][i]
       IN Video(e.of) = e.video /\ Node(e.of) = n
  /\ \A v \in Videos : status[v].of # 0 => Video(status[v].of) = v

\* Without a lost channel a live node keeps its channel, what runs on it is
\* what the channel holds, and what is on its way to the broker is the ack or
\* nack of the attempt that is held and has ended.
ChannelsKept ==
  /\ connected = alive
  /\ \A a \in Started : Going(a) => held[Node(a)] = a
  /\ \A n \in Nodes :
       wire[n] # <<>> => /\ Len(wire[n]) = 1
                         /\ wire[n][1] = held[n]
                         /\ attempts[held[n]].stage \in Outcomes

\* Without a lost channel a video on the queue has no attempt on a live
\* node, hence an attempt on a live node is the video's last.
AttemptsHandedOn ==
  \A a \in Started :
    Node(a) \in alive => place[Video(a)] # "ready" /\ Latest(a)

\* Without a lost channel, what an attempt has encoded is what its node's
\* directory holds until it is done, and what it has put is what the bucket
\* holds until a later attempt is delivered.
OwnFiles ==
  \A a \in Started :
    /\ attempts[a].stage = "upload" =>
         /\ disk[Node(a)][Video(a)] = a
         /\ \A f \in 1 .. attempts[a].put : bucket[Video(a)][f] = a
    /\ attempts[a].stage = "done" /\ Latest(a) =>
         bucket[Video(a)] = [f \in Files |-> a]

\* An attempt that has not encoded has put nothing.
NothingPutYet ==
  \A a \in Started :
    attempts[a].stage \in {"download", "encode"} => attempts[a].put = 0

\* A video that was acknowledged had an attempt.
AckedHadAttempt ==
  \A v \in Videos :
    place[v] = "acked" => \E a \in Started : Video(a) = v /\ Latest(a)

PoolInv ==
  /\ GoingAlive
  /\ StatusOrigin
  /\ NothingPutYet
  /\ lost = 0 => ChannelsKept /\ AttemptsHandedOn /\ OwnFiles /\ AckedHadAttempt

PoolTyping == TypeInv /\ PoolInv

----------------------------------------------------------------------------
(* What a step may do to the attempts.                                     *)

\* What the types say of an attempt.
LEMMA AttemptFacts ==
  ASSUME AttemptsTyped
  PROVE  /\ Len(attempts) \in Nat
         /\ Started = 1 .. Len(attempts)
         /\ Started \subseteq AttemptIds
         /\ 0 \notin Started
         /\ \A a \in Started : attempts[a] \in Attempt
  BY BoundsAssumption DEF AttemptsTyped, Started, AttemptIds

\* A step that starts no attempt moves attempts on, and changes neither where
\* they run nor what they work on.
AttemptsStay ==
  /\ AttemptsTyped'
  /\ Started' = Started
  /\ Len(attempts') = Len(attempts)
  /\ \A a \in Started : /\ Node(a)' = Node(a) /\ Video(a)' = Video(a)
                        /\ attempts'[a].tag = attempts[a].tag

\* An attempt goes to another stage or has put one more file: Stage, Upload.
LEMMA AttemptMoves ==
  ASSUME AttemptsTyped, NEW a \in Started, NEW e \in Attempt,
         e.node = Node(a), e.video = Video(a), e.tag = attempts[a].tag,
         attempts' = [attempts EXCEPT ![a] = e]
  PROVE  /\ AttemptsStay
         /\ attempts'[a] = e
         /\ \A b \in Started \ {a} : attempts'[b] = attempts[b]
<1>1. Started = 1 .. Len(attempts) /\ attempts \in Seq(Attempt)
  BY AttemptFacts DEF AttemptsTyped
<1>2. /\ attempts' \in Seq(Attempt)
      /\ Len(attempts') = Len(attempts)
      /\ \A b \in 1 .. Len(attempts) :
           attempts'[b] = IF b = a THEN e ELSE attempts[b]
  <2> HIDE DEF Attempt
  <2> QED BY <1>1, ExceptSeq
<1>3. Started' = Started
  BY <1>1, <1>2 DEF Started
<1> QED
  BY <1>1, <1>2, <1>3 DEF AttemptsStay, AttemptsTyped, Node, Video

\* The callback goes from one step to the next.
LEMMA StageMoves ==
  ASSUME AttemptsTyped, NEW a \in Started, NEW s \in Stages, Stage(a, s)
  PROVE  /\ AttemptsStay
         /\ attempts'[a] = [attempts[a] EXCEPT !.stage = s]
         /\ attempts'[a].stage = s /\ attempts'[a].put = attempts[a].put
         /\ \A b \in Started \ {a} : attempts'[b] = attempts[b]
<1> DEFINE e == [attempts[a] EXCEPT !.stage = s]
<1>1. /\ e \in Attempt /\ e.node = Node(a) /\ e.video = Video(a)
      /\ e.tag = attempts[a].tag /\ e.stage = s /\ e.put = attempts[a].put
  BY AttemptFacts DEF Attempt, Node, Video
<1>2. attempts' = [attempts EXCEPT ![a] = e]
  BY DEF Stage
<1> QED
  BY <1>1, <1>2, AttemptMoves

\* A process exits, and the attempts that went on in it end.
LEMMA ExitMoves ==
  ASSUME AttemptsTyped, NEW n \in Nodes, JobsDie(n)
  PROVE  /\ AttemptsStay
         /\ \A a \in Started :
              \/ /\ Going(a) /\ Node(a) = n
                 /\ attempts'[a] = [attempts[a] EXCEPT !.stage = "killed"]
              \/ ~(Going(a) /\ Node(a) = n) /\ attempts'[a] = attempts[a]
<1>1. /\ Started = 1 .. Len(attempts) /\ Len(attempts) \in Nat
      /\ \A a \in Started : attempts[a] \in Attempt
  BY AttemptFacts
<1>2. \A a \in Started :
        /\ attempts'[a] = IF Going(a) /\ Node(a) = n
                            THEN [attempts[a] EXCEPT !.stage = "killed"]
                            ELSE attempts[a]
        /\ attempts'[a] \in Attempt
        /\ attempts'[a].node = attempts[a].node
        /\ attempts'[a].video = attempts[a].video
        /\ attempts'[a].tag = attempts[a].tag
  BY <1>1 DEF JobsDie, Attempt, Stages
<1>3. attempts' \in [1 .. Len(attempts) -> Attempt]
  <2> HIDE DEF Attempt
  <2> QED BY <1>1, <1>2 DEF JobsDie
<1>4. attempts' \in Seq(Attempt) /\ Len(attempts') = Len(attempts)
  <2> HIDE DEF Attempt
  <2> QED BY <1>1, <1>3, SeqDef
<1>5. Started' = Started
  BY <1>1, <1>3 DEF Started
<1> QED
  BY <1>2, <1>4, <1>5 DEF AttemptsStay, AttemptsTyped, Node, Video

\* A delivery starts one attempt and leaves the others alone.
LEMMA DeliverMoves ==
  ASSUME TypeInv, NEW n \in Nodes, NEW v \in Videos, Deliver(n, v)
  PROVE  LET new == Len(attempts) + 1
         IN /\ AttemptsTyped'
            /\ Len(attempts') = new
            /\ Started' = Started \cup {new} /\ new \notin Started
            /\ \A a \in Started : attempts'[a] = attempts[a]
            /\ attempts'[new] = [node |-> n, video |-> v, tag |-> lastTag[n] + 1,
                                 stage |-> "download", put |-> 0]
<1> DEFINE new == Len(attempts) + 1
           e == [node |-> n, video |-> v, tag |-> lastTag[n] + 1,
                 stage |-> "download", put |-> 0]
<1>1. /\ Started = 1 .. Len(attempts) /\ Len(attempts) \in Nat
      /\ attempts \in Seq(Attempt)
  BY AttemptFacts DEF TypeInv, AttemptsTyped
<1>2. lastTag[n] \in Nat /\ lastTag[n] <= Len(attempts) /\ Len(attempts) < MaxAttempts
  BY DEF TypeInv, BrokerTyped, Deliver
<1>3. e \in Attempt
  BY <1>1, <1>2, BoundsAssumption, NumFilesAssumption DEF Attempt, Stages, AttemptIds
<1>4. attempts' = Append(attempts, e)
  BY DEF Deliver
<1>5. /\ attempts' \in Seq(Attempt) /\ Len(attempts') = new
      /\ \A a \in 1 .. Len(attempts) : attempts'[a] = attempts[a]
      /\ attempts'[new] = e
  <2> HIDE DEF Attempt, e
  <2> QED BY <1>1, <1>3, <1>4, AppendProperties
<1>6. Started' = 1 .. new
  BY <1>5 DEF Started
<1> QED
  BY <1>1, <1>2, <1>5, <1>6, BoundsAssumption DEF AttemptsTyped

----------------------------------------------------------------------------
(* The types hold in every state.                                          *)

\* What the broker, the disks, the bucket and the api keep stays typed when no
\* attempt starts: entries and ids are of the attempts there are.
LEMMA EntriesStay ==
  ASSUME Started' = Started, \A a \in Started : Video(a)' = Video(a)
  PROVE  Entry' = Entry
  BY DEF Entry

\* The channel of a node is gone.
LEMMA DropTyped ==
  ASSUME TypeInv, AttemptsStay, NEW n \in Nodes, DropChannel(n),
         alive' \subseteq alive, connected \ {n} \subseteq alive'
  PROVE  BrokerTyped'
<1>1. \A m \in Nodes : wire'[m] = IF m = n THEN <<>> ELSE wire[m]
  BY DEF DropChannel, TypeInv, BrokerTyped
<1>2. wire' \in [Nodes -> Seq(Started)]
  BY EmptySeq DEF DropChannel, TypeInv, BrokerTyped
<1>3. \A m \in Nodes : held'[m] = IF m = n THEN 0 ELSE held[m]
  BY DEF DropChannel, TypeInv, BrokerTyped
<1>4. held' \in [Nodes -> {0} \cup Started] /\ Started' = Started
  BY DEF DropChannel, TypeInv, BrokerTyped, AttemptsStay
<1>5. place' \in [Videos -> {"ready", "unacked", "acked", "dead"}]
  BY DEF DropChannel, TypeInv, BrokerTyped
<1>6. alive' \subseteq Nodes /\ connected' \subseteq alive'
  BY DEF DropChannel, TypeInv, BrokerTyped
<1>7. \A m \in Nodes : held'[m] # 0 => m \in connected' /\ Node(held[m])' = m
  BY <1>3, <1>4 DEF DropChannel, TypeInv, BrokerTyped, AttemptsStay
<1>8. lastTag' \in [Nodes -> Nat] /\ \A m \in Nodes : lastTag'[m] <= Len(attempts')
  BY DEF DropChannel, TypeInv, BrokerTyped, AttemptsStay
<1>9. \A m \in Nodes : wire'[m] # <<>> => m \in connected'
  BY <1>1 DEF DropChannel, TypeInv, BrokerTyped
<1> QED
  BY <1>2, <1>4, <1>5, <1>6, <1>7, <1>8, <1>9, Zenon DEF BrokerTyped, Node

\* What is neither the broker's nor an attempt's stays typed when it stays.
LEMMA DataStays ==
  ASSUME TypeInv, AttemptsStay, UNCHANGED dataVars
  PROVE  DataTyped'
  BY DEF TypeInv, DataTyped, AttemptsStay

LEMMA StatusesStay ==
  ASSUME TypeInv, AttemptsStay, UNCHANGED statusVars
  PROVE  StatusTyped'
  BY EntriesStay DEF TypeInv, StatusTyped, AttemptsStay

LEMMA BrokerStays ==
  ASSUME TypeInv, AttemptsStay, UNCHANGED brokerVars, UNCHANGED alive
  PROVE  BrokerTyped'
<1>1. \A m \in Nodes : held'[m] # 0 => m \in connected' /\ Node(held[m])' = m
  BY DEF TypeInv, BrokerTyped, AttemptsStay
<1> QED
  BY <1>1 DEF TypeInv, BrokerTyped, AttemptsStay, Node

LEMMA TroublesStay ==
  ASSUME TypeInv, UNCHANGED <<lost, exits>>
  PROVE  TroublesTyped'
  BY DEF TypeInv, TroublesTyped

\* A step that leaves the attempts alone.
LEMMA AttemptsUnchanged ==
  ASSUME AttemptsTyped, UNCHANGED attempts
  PROVE  AttemptsStay /\ \A a \in Started : attempts'[a] = attempts[a]
  BY DEF AttemptsTyped, AttemptsStay, Node, Video, Started

\* An ack or nack is on its way, if there is a channel.
LEMMA SendTyped ==
  ASSUME TypeInv, AttemptsStay, NEW a \in Started, Send(a),
         UNCHANGED <<place, connected, held, lastTag, alive>>
  PROVE  BrokerTyped'
<1>1. Node(a) \in Nodes
  BY AttemptFacts DEF TypeInv, Attempt, Node
<1>2. /\ wire' \in [Nodes -> Seq(Started)]
      /\ \A m \in Nodes : wire'[m] # <<>> => m \in connected'
  <2>1. CASE Node(a) \in connected
    <3>1. Append(wire[Node(a)], a) \in Seq(Started)
      BY <1>1, AppendProperties DEF TypeInv, BrokerTyped
    <3> QED
      BY <2>1, <3>1, <1>1 DEF Send, TypeInv, BrokerTyped
  <2>2. CASE Node(a) \notin connected
    BY <2>2 DEF Send, TypeInv, BrokerTyped
  <2> QED
    BY <2>1, <2>2
<1>3. \A m \in Nodes : held'[m] # 0 => m \in connected' /\ Node(held[m])' = m
  BY DEF TypeInv, BrokerTyped, AttemptsStay
<1> QED
  BY <1>2, <1>3 DEF TypeInv, BrokerTyped, AttemptsStay, Node

\* A status waits in the producer of its node.
LEMMA PublishTyped ==
  ASSUME TypeInv, AttemptsStay, NEW a \in Started, NEW st \in Reports,
         Publish(a, st), UNCHANGED status
  PROVE  StatusTyped'
<1> DEFINE e == [video |-> Video(a), of |-> a, st |-> st]
<1>1. Node(a) \in Nodes /\ e \in Entry
  BY AttemptFacts DEF TypeInv, Attempt, Node, Video, Entry
<1>2. Append(outbox[Node(a)], e) \in Seq(Entry)
  <2> HIDE DEF e, Entry
  <2> QED BY <1>1, AppendProperties DEF TypeInv, StatusTyped
<1>3. outbox' \in [Nodes -> Seq(Entry)]
  <2> HIDE DEF Entry
  <2> QED BY <1>1, <1>2 DEF Publish, TypeInv, StatusTyped
<1>4. Entry' = Entry /\ Started' = Started
  BY EntriesStay DEF AttemptsStay
<1> QED
  BY <1>3, <1>4 DEF TypeInv, StatusTyped

\* The ids of the attempts go on being ids.
LEMMA DeliverTyped ==
  ASSUME TypeInv, NEW n \in Nodes, NEW v \in Videos, Deliver(n, v)
  PROVE  TypeInv'
<1> DEFINE new == Len(attempts) + 1
<1>1. /\ AttemptsTyped' /\ Len(attempts') = new
      /\ Started' = Started \cup {new} /\ new \notin Started
      /\ \A a \in Started : attempts'[a] = attempts[a]
      /\ attempts'[new].node = n
  <2>1. attempts'[new] = [node |-> n, video |-> v, tag |-> lastTag[n] + 1,
                          stage |-> "download", put |-> 0]
    BY DeliverMoves
  <2> QED
    BY <2>1, DeliverMoves
<1>2. Len(attempts) \in Nat /\ 0 \notin Started
  BY AttemptFacts DEF TypeInv
<1> HIDE DEF new
<1>3. held' = [held EXCEPT ![n] = new] /\ lastTag' = [lastTag EXCEPT ![n] = @ + 1]
  BY DEF Deliver, AwaitAck, new
<1>4. /\ held' \in [Nodes -> {0} \cup Started']
      /\ \A m \in Nodes : held'[m] # 0 => m \in connected' /\ Node(held[m])' = m
  BY <1>1, <1>3 DEF Deliver, TypeInv, BrokerTyped, Node
<1>5. wire' \in [Nodes -> Seq(Started')]
  <2>1. \A m \in Nodes : wire[m] \in Seq(Started')
    BY <1>1, SeqMonotonic DEF TypeInv, BrokerTyped
  <2> QED
    BY <2>1 DEF Deliver, TypeInv, BrokerTyped
<1>6. /\ lastTag' \in [Nodes -> Nat]
      /\ \A m \in Nodes : lastTag'[m] <= Len(attempts')
  BY <1>1, <1>2, <1>3 DEF TypeInv, BrokerTyped, new
<1>7. place' \in [Videos -> {"ready", "unacked", "acked", "dead"}]
  BY DEF Deliver, AwaitAck, TypeInv, BrokerTyped
<1>8. BrokerTyped'
  BY <1>4, <1>5, <1>6, <1>7 DEF Deliver, TypeInv, BrokerTyped, Node
<1>9. DataTyped'
  BY <1>1 DEF Deliver, TypeInv, DataTyped
<1>10. StatusTyped'
  <2>1. Entry \subseteq Entry'
    BY <1>1 DEF Entry
  <2>2. \A m \in Nodes : outbox[m] \in Seq(Entry')
    <3> HIDE DEF Entry
    <3> QED BY <2>1, SeqMonotonic DEF TypeInv, StatusTyped
  <2>3. outbox' \in [Nodes -> Seq(Entry')]
    <3> HIDE DEF Entry
    <3> QED BY <2>2 DEF Deliver, TypeInv, StatusTyped
  <2>4. status' \in [Videos -> [of : {0} \cup Started', st : {"none"} \cup Reports]]
    BY <1>1 DEF Deliver, TypeInv, StatusTyped
  <2> QED
    BY <2>3, <2>4, Zenon DEF StatusTyped
<1> QED
  BY <1>1, <1>8, <1>9, <1>10, TroublesStay DEF Deliver, TypeInv

\* What the broker and the nodes' processes do.
LEMMA BrokerSideTyped ==
  ASSUME TypeInv, NEW n \in Nodes,
         Settle(n) \/ LoseChannel(n) \/ Reconnect(n) \/ Exit(n)
  PROVE  TypeInv'
<1>1. CASE Settle(n)
  <2>1. AttemptsStay
    BY <1>1, AttemptsUnchanged DEF Settle, TypeInv
  <2>2. CASE DropChannel(n)
    BY <1>1, <2>1, <2>2, DropTyped, DataStays, StatusesStay, TroublesStay
      DEF Settle, TypeInv, AttemptsStay, BrokerTyped
  <2>3. CASE ~DropChannel(n)
    <3>1. /\ wire[n] # <<>> /\ held[n] # 0
          /\ place' = [place EXCEPT ![Video(held[n])] =
                          IF attempts[Head(wire[n])].stage = "threw"
                            THEN "dead" ELSE "acked"]
          /\ held' = [held EXCEPT ![n] = 0]
          /\ wire' = [wire EXCEPT ![n] = Tail(@)]
          /\ UNCHANGED <<connected, lastTag, alive>>
      BY <1>1, <2>3 DEF Settle
    <3>2. Tail(wire[n]) \in Seq(Started)
      BY <3>1, HeadTailProperties DEF TypeInv, BrokerTyped
    <3>3. /\ wire' \in [Nodes -> Seq(Started)]
          /\ \A m \in Nodes : wire'[m] # <<>> => m \in connected'
      BY <3>1, <3>2 DEF TypeInv, BrokerTyped
    <3>4. \A m \in Nodes : held'[m] # 0 => m \in connected' /\ Node(held[m])' = m
      BY <3>1, <2>1 DEF TypeInv, BrokerTyped, AttemptsStay
    <3>5. BrokerTyped'
      BY <3>1, <3>3, <3>4, <2>1 DEF TypeInv, BrokerTyped, AttemptsStay, Node
    <3> QED
      BY <1>1, <3>5, <2>1, DataStays, StatusesStay, TroublesStay
        DEF Settle, TypeInv, AttemptsStay
  <2> QED
    BY <2>2, <2>3
<1>2. CASE LoseChannel(n)
  <2>1. AttemptsStay
    BY <1>2, AttemptsUnchanged DEF LoseChannel, TypeInv
  <2>2. TroublesTyped'
    BY <1>2, BoundsAssumption DEF LoseChannel, TypeInv, TroublesTyped
  <2> QED
    BY <1>2, <2>1, <2>2, DropTyped, DataStays, StatusesStay
      DEF LoseChannel, TypeInv, AttemptsStay, BrokerTyped
<1>3. CASE Reconnect(n)
  <2>1. AttemptsStay
    BY <1>3, AttemptsUnchanged DEF Reconnect, TypeInv
  <2>2. Len(attempts) \in Nat
    BY AttemptFacts DEF TypeInv
  <2>3. \A m \in Nodes : held'[m] # 0 => m \in connected' /\ Node(held[m])' = m
    BY <1>3, <2>1 DEF Reconnect, TypeInv, BrokerTyped, AttemptsStay
  <2>4. BrokerTyped'
    BY <1>3, <2>1, <2>2, <2>3 DEF Reconnect, TypeInv, BrokerTyped, AttemptsStay, Node
  <2> QED
    BY <1>3, <2>1, <2>4, DataStays, StatusesStay, TroublesStay
      DEF Reconnect, TypeInv, AttemptsStay
<1>4. CASE Exit(n)
  <2>1. AttemptsStay
    BY <1>4, ExitMoves DEF Exit, TypeInv
  <2>2. TroublesTyped'
    BY <1>4, BoundsAssumption DEF Exit, TypeInv, TroublesTyped
  <2>3. BrokerTyped'
    BY <1>4, <2>1, DropTyped DEF Exit, TypeInv, BrokerTyped
  <2>4. outbox' \in [Nodes -> Seq(Entry)]
    <3> HIDE DEF Entry
    <3> QED BY <1>4, EmptySeq DEF Exit, StatusesDie, TypeInv, StatusTyped
  <2>5. StatusTyped'
    <3>1. Entry' = Entry /\ Started' = Started
      BY <2>1, EntriesStay DEF AttemptsStay
    <3> QED
      BY <1>4, <2>4, <3>1 DEF Exit, TypeInv, StatusTyped
  <2> QED
    BY <1>4, <2>1, <2>2, <2>3, <2>5, DataStays DEF Exit, TypeInv, AttemptsStay
<1> QED
  BY <1>1, <1>2, <1>3, <1>4

\* What the api does.
LEMMA ReceiveTyped ==
  ASSUME TypeInv, NEW n \in Nodes, Receive(n)
  PROVE  /\ TypeInv'
         /\ Head(outbox[n]) \in Entry
<1>1. AttemptsStay
  BY AttemptsUnchanged DEF Receive, TypeInv
<1>2. Head(outbox[n]) \in Entry /\ Tail(outbox[n]) \in Seq(Entry)
  <2> HIDE DEF Entry
  <2> QED BY HeadTailProperties DEF Receive, TypeInv, StatusTyped
<1>3. outbox' \in [Nodes -> Seq(Entry)]
  <2> HIDE DEF Entry
  <2> QED BY <1>2 DEF Receive, TypeInv, StatusTyped
<1>4. status' \in [Videos -> [of : {0} \cup Started, st : {"none"} \cup Reports]]
  BY <1>2 DEF Receive, TypeInv, StatusTyped, Entry
<1>5. Entry' = Entry /\ Started' = Started
  BY <1>1, EntriesStay DEF AttemptsStay
<1>6. StatusTyped'
  BY <1>3, <1>4, <1>5 DEF StatusTyped
<1> QED
  BY <1>1, <1>2, <1>6, BrokerStays, DataStays, TroublesStay
    DEF Receive, TypeInv, AttemptsStay

\* What the steps of the callback do.
LEMMA WorkTyped ==
  ASSUME TypeInv, NEW a \in AttemptIds, Work(a)
  PROVE  TypeInv' /\ AttemptsStay /\ Going(a)
<1>1. Going(a) /\ a \in Started
  BY DEF Work, Announce, Encode, EncodeFails, Upload, UploadFails, CleanUp, Going
<1>2. attempts[a] \in Attempt /\ Node(a) \in Nodes /\ Video(a) \in Videos
  BY <1>1, AttemptFacts DEF TypeInv, Attempt, Node, Video
<1>3. CASE Announce(a)
  <2>1. AttemptsStay
    BY <1>1, <1>3, StageMoves DEF Announce, Stages, TypeInv
  <2> QED
    BY <1>1, <1>3, <2>1, BrokerStays, DataStays, PublishTyped, TroublesStay
      DEF Announce, TypeInv, AttemptsStay, Reports
<1>4. CASE Encode(a)
  <2>1. AttemptsStay
    BY <1>1, <1>4, StageMoves DEF Encode, Stages, TypeInv
  <2>2. DataTyped'
    BY <1>1, <1>2, <1>4, <2>1 DEF Encode, TypeInv, DataTyped, AttemptsStay
  <2> QED
    BY <1>1, <1>4, <2>1, <2>2, BrokerStays, StatusesStay, TroublesStay
      DEF Encode, TypeInv, AttemptsStay
<1>5. CASE EncodeFails(a)
  <2>1. AttemptsStay
    BY <1>1, <1>5, StageMoves DEF EncodeFails, Return, Stages, Outcomes, TypeInv
  <2> QED
    BY <1>1, <1>5, <2>1, SendTyped, DataStays, PublishTyped, TroublesStay
      DEF EncodeFails, Return, TypeInv, AttemptsStay, Reports
<1>6. CASE Upload(a)
  <2> DEFINE e == [attempts[a] EXCEPT !.put = @ + 1]
  <2>1. /\ e \in Attempt /\ e.node = Node(a) /\ e.video = Video(a)
        /\ e.tag = attempts[a].tag
    BY <1>2, <1>6, NumFilesAssumption DEF Upload, Attempt, Node, Video
  <2>2. attempts' = [attempts EXCEPT ![a] = e]
    BY <1>6 DEF Upload
  <2>3. AttemptsStay
    BY <1>1, <2>1, <2>2, AttemptMoves DEF TypeInv
  <2>4. DataTyped'
    <3>1. /\ disk[Node(a)][Video(a)] \in {0} \cup Started
          /\ attempts[a].put + 1 \in Files
      BY <1>2, <1>6, NumFilesAssumption DEF Upload, TypeInv, DataTyped, Attempt, Files
    <3> QED
      BY <1>2, <1>6, <2>3, <3>1 DEF Upload, TypeInv, DataTyped, AttemptsStay
  <2> QED
    BY <1>1, <1>6, <2>3, <2>4, BrokerStays, StatusesStay, TroublesStay
      DEF Upload, TypeInv, AttemptsStay
<1>7. CASE UploadFails(a)
  <2>1. AttemptsStay
    BY <1>1, <1>7, StageMoves DEF UploadFails, Return, Stages, Outcomes, TypeInv
  <2> QED
    BY <1>1, <1>7, <2>1, SendTyped, DataStays, StatusesStay, TroublesStay
      DEF UploadFails, Return, TypeInv, AttemptsStay
<1>8. CASE CleanUp(a)
  <2>1. AttemptsStay
    BY <1>1, <1>8, StageMoves DEF CleanUp, Return, Stages, Outcomes, TypeInv
  <2>2. DataTyped'
    BY <1>1, <1>2, <1>8, <2>1 DEF CleanUp, TypeInv, DataTyped, AttemptsStay
  <2> QED
    BY <1>1, <1>8, <2>1, <2>2, SendTyped, PublishTyped, TroublesStay
      DEF CleanUp, Return, TypeInv, AttemptsStay, Reports
<1> QED
  BY <1>1, <1>3, <1>4, <1>5, <1>6, <1>7, <1>8 DEF Work

\* Every step keeps the types.
LEMMA StepTyped ==
  ASSUME TypeInv, [Next]_vars
  PROVE  TypeInv'
<1>1. CASE UNCHANGED vars
  <2>1. AttemptsStay
    BY <1>1, AttemptsUnchanged DEF vars, TypeInv
  <2> QED
    BY <1>1, <2>1, BrokerStays, DataStays, StatusesStay, TroublesStay
      DEF vars, TypeInv, AttemptsStay
<1>2. CASE Next
  BY <1>2, DeliverTyped, BrokerSideTyped, ReceiveTyped, WorkTyped DEF Next
<1> QED
  BY <1>1, <1>2

LEMMA InitTyped == Init => TypeInv
<1> SUFFICES ASSUME Init PROVE TypeInv
  OBVIOUS
<1>1. attempts = <<>> /\ Len(attempts) = 0
  BY EmptySeq DEF Init
<1>2. AttemptsTyped
  BY <1>1, EmptySeq, BoundsAssumption DEF AttemptsTyped
<1>3. outbox \in [Nodes -> Seq(Entry)] /\ wire \in [Nodes -> Seq(Started)]
  BY EmptySeq DEF Init
<1>4. BrokerTyped
  BY <1>1, <1>3 DEF Init, BrokerTyped
<1>5. DataTyped /\ TroublesTyped
  BY BoundsAssumption DEF Init, DataTyped, TroublesTyped
<1>6. StatusTyped
  BY <1>3 DEF Init, StatusTyped
<1> QED
  BY <1>2, <1>4, <1>5, <1>6 DEF TypeInv

\* The type invariant of the runs.
THEOREM PoolTypes == Spec => []TypeOK
<1>1. TypeInv => TypeOK
  <2> SUFFICES ASSUME TypeInv PROVE TypeOK
    OBVIOUS
  <2>1. \A a \in Started : attempts[a] \in Attempt
    BY AttemptFacts DEF TypeInv
  <2>2. \A n \in Nodes : wire[n] \in Seq(Started)
    BY DEF TypeInv, BrokerTyped
  <2> QED
    BY <2>1, <2>2
      DEF TypeInv, BrokerTyped, AttemptsTyped, DataTyped, StatusTyped,
          TroublesTyped, Attempt, TypeOK
<1> QED
  BY <1>1, InitTyped, StepTyped, PTL DEF Spec

----------------------------------------------------------------------------
(* What ties the nodes to the broker and the bucket, step by step.         *)

\* What the conjuncts say as long as no channel was lost.
NothingLost ==
  ChannelsKept /\ AttemptsHandedOn /\ OwnFiles /\ AckedHadAttempt

\* A delivery: the new attempt is its video's last, and the node that got it
\* had none.
LEMMA DeliverKeeps ==
  ASSUME TypeInv, PoolInv, NEW n \in Nodes, NEW v \in Videos, Deliver(n, v)
  PROVE  PoolInv'
<1>0. Len(attempts) + 1 \in Nat
  BY AttemptFacts DEF TypeInv
<1>1. PICK new \in Nat : /\ new = Len(attempts) + 1
                         /\ Started' = Started \cup {new} /\ new \notin Started
                         /\ \A a \in Started : attempts'[a] = attempts[a]
  BY <1>0, DeliverMoves
<1>2. attempts'[new] = [node |-> n, video |-> v, tag |-> lastTag[n] + 1,
                        stage |-> "download", put |-> 0]
  BY <1>1, DeliverMoves
<1>3. /\ Len(attempts) \in Nat /\ Started = 1 .. Len(attempts)
      /\ \A a \in Started : Node(a) \in Nodes /\ Video(a) \in Videos
  BY AttemptFacts DEF TypeInv, Attempt, Node, Video
<1>4. \A a \in Started : a < new
  BY <1>1, <1>3
<1>5. /\ n \in connected /\ held[n] = 0 /\ place[v] = "ready"
      /\ place' = [place EXCEPT ![v] = "unacked"]
      /\ held' = [held EXCEPT ![n] = new]
      /\ UNCHANGED <<connected, wire, dataVars, statusVars, faultVars>>
  BY <1>1 DEF Deliver, AwaitAck
<1>6. \A a \in Started : /\ Node(a)' = Node(a) /\ Video(a)' = Video(a)
                         /\ Going(a)' <=> Going(a)
  BY <1>1 DEF Node, Video, Going
<1>7. Node(new)' = n /\ Video(new)' = v
  BY <1>2 DEF Node, Video
<1>8. GoingAlive'
  BY <1>1, <1>5, <1>6, <1>7 DEF GoingAlive, PoolInv, TypeInv, BrokerTyped
<1>9. StatusOrigin'
  <2>1. \A m \in Nodes : \A i \in 1 .. Len(outbox[m]) : outbox[m][i] \in Entry
    <3> HIDE DEF Entry
    <3> QED BY ElementOfSeq DEF TypeInv, StatusTyped
  <2>2. \A m \in Nodes : \A i \in 1 .. Len(outbox[m]) : outbox[m][i].of \in Started
    BY <2>1 DEF Entry
  <2>3. \A u \in Videos : status[u].of \in {0} \cup Started
    BY DEF TypeInv, StatusTyped
  <2> QED
    BY <1>5, <1>6, <2>2, <2>3 DEF StatusOrigin, PoolInv
<1>10. NothingPutYet'
  BY <1>1, <1>2 DEF NothingPutYet, PoolInv
<1>11. ASSUME lost' = 0 PROVE NothingLost'
  <2>1. NothingLost
    BY <1>5, <1>11 DEF PoolInv, NothingLost
  <2>2. \A m \in Nodes : wire[m] # <<>> => m # n
    <3> SUFFICES ASSUME wire[n] # <<>> PROVE FALSE
      OBVIOUS
    <3>1. wire[n] \in Seq(Started) /\ Len(wire[n]) = 1 /\ wire[n][1] = 0
      BY <2>1, <1>5 DEF NothingLost, ChannelsKept, TypeInv, BrokerTyped
    <3>2. wire[n][1] \in Started
      BY <3>1, ElementOfSeq
    <3> QED
      BY <3>1, <3>2, <1>3
  <2>3. ChannelsKept'
    <3>1. connected' = alive'
      BY <1>5, <2>1 DEF NothingLost, ChannelsKept
    <3>2. \A a \in Started' : Going(a)' => held'[Node(a)'] = a
      <4>1. ASSUME NEW a \in Started, Going(a)' PROVE held'[Node(a)'] = a
        BY <1>3, <1>4, <1>5, <1>6, <2>1, <4>1
          DEF NothingLost, ChannelsKept, TypeInv, BrokerTyped
      <4>2. held'[Node(new)'] = new
        BY <1>5, <1>7 DEF TypeInv, BrokerTyped
      <4> QED
        BY <1>1, <4>1, <4>2
    <3>3. ASSUME NEW m \in Nodes, wire'[m] # <<>>
          PROVE  /\ Len(wire'[m]) = 1
                 /\ wire'[m][1] = held'[m]
                 /\ attempts'[held'[m]].stage \in Outcomes
      <4>1. m # n /\ wire'[m] = wire[m] /\ held'[m] = held[m] /\ wire[m] # <<>>
        BY <1>5, <2>2, <3>3 DEF TypeInv, BrokerTyped
      <4>2. /\ Len(wire[m]) = 1 /\ wire[m][1] = held[m]
            /\ attempts[held[m]].stage \in Outcomes
        BY <4>1, <2>1 DEF NothingLost, ChannelsKept
      <4>3. held[m] \in Started
        <5>1. wire[m] \in Seq(Started) /\ 1 \in 1 .. Len(wire[m])
          BY <4>2 DEF TypeInv, BrokerTyped
        <5> QED
          BY <4>2, <5>1, ElementOfSeq
      <4> QED
        BY <1>1, <4>1, <4>2, <4>3
    <3> QED
      BY <3>1, <3>2, <3>3 DEF ChannelsKept, Node
  <2>4. \A a \in Started : Video(a) = v => Node(a) \notin alive
    BY <1>5, <2>1 DEF NothingLost, AttemptsHandedOn
  <2>5. AttemptsHandedOn'
    <3>1. ASSUME NEW a \in Started, Node(a)' \in alive'
          PROVE  place'[Video(a)'] # "ready" /\ Latest(a)'
      <4>1. Node(a) \in alive /\ Video(a) # v /\ Video(a) \in Videos
        BY <1>3, <1>5, <1>6, <2>4, <3>1
      <4>2. place[Video(a)] # "ready" /\ Latest(a)
        BY <4>1, <2>1 DEF NothingLost, AttemptsHandedOn
      <4> QED
        BY <4>1, <4>2, <1>1, <1>5, <1>6, <1>7 DEF Latest, TypeInv, BrokerTyped
    <3>2. place'[Video(new)'] # "ready" /\ Latest(new)'
      <4>1. \A b \in Started' : b <= new
        BY <1>1, <1>3, <1>4
      <4> QED
        BY <4>1, <1>5, <1>7 DEF Latest, TypeInv, BrokerTyped
    <3> QED
      BY <1>1, <3>1, <3>2, Zenon DEF AttemptsHandedOn, Node, Video
  <2>6. OwnFiles'
    <3>1. \A a \in Started : Latest(a)' => Latest(a)
      BY <1>1, <1>6 DEF Latest
    <3>2. ASSUME NEW a \in Started
          PROVE  /\ attempts'[a].stage = "upload" =>
                      /\ disk'[Node(a)'][Video(a)'] = a
                      /\ \A f \in 1 .. attempts'[a].put : bucket'[Video(a)'][f] = a
                 /\ attempts'[a].stage = "done" /\ Latest(a)' =>
                      bucket'[Video(a)'] = [f \in Files |-> a]
      <4>1. /\ attempts'[a] = attempts[a] /\ disk' = disk /\ bucket' = bucket
            /\ Node(a)' = Node(a) /\ Video(a)' = Video(a)
        BY <1>1, <1>5, <1>6
      <4>2. /\ attempts[a].stage = "upload" =>
                 /\ disk[Node(a)][Video(a)] = a
                 /\ \A f \in 1 .. attempts[a].put : bucket[Video(a)][f] = a
            /\ attempts[a].stage = "done" /\ Latest(a) =>
                 bucket[Video(a)] = [f \in Files |-> a]
        BY <2>1 DEF NothingLost, OwnFiles
      <4> QED
        BY <3>1, <4>1, <4>2
    <3>3. attempts'[new].stage = "download"
      BY <1>2
    <3> QED
      BY <1>1, <3>2, <3>3 DEF OwnFiles, Node, Video, Files
  <2>7. AckedHadAttempt'
    <3> SUFFICES ASSUME NEW u \in Videos, place'[u] = "acked"
                 PROVE  \E a \in Started' : Video(a)' = u /\ Latest(a)'
      BY DEF AckedHadAttempt, Video
    <3>1. u # v /\ place[u] = "acked"
      BY <1>5 DEF TypeInv, BrokerTyped
    <3>2. PICK a \in Started : Video(a) = u /\ Latest(a)
      BY <3>1, <2>1 DEF NothingLost, AckedHadAttempt
    <3>3. Video(a)' = u /\ Latest(a)'
      BY <3>1, <3>2, <1>1, <1>6, <1>7 DEF Latest
    <3> QED
      BY <3>3, <1>1
  <2> QED
    BY <2>3, <2>5, <2>6, <2>7 DEF NothingLost
<1> QED
  BY <1>8, <1>9, <1>10, <1>11 DEF PoolInv, NothingLost

\* The statuses that wait are of attempts.
LEMMA EntryFacts ==
  ASSUME TypeInv
  PROVE  /\ \A n \in Nodes : \A i \in 1 .. Len(outbox[n]) :
              outbox[n][i] \in Entry /\ outbox[n][i].of \in Started
         /\ \A v \in Videos : status[v].of \in {0} \cup Started
<1>1. \A n \in Nodes : \A i \in 1 .. Len(outbox[n]) : outbox[n][i] \in Entry
  <2> HIDE DEF Entry
  <2> QED BY ElementOfSeq DEF TypeInv, StatusTyped
<1> QED
  BY <1>1 DEF Entry, TypeInv, StatusTyped

\* Neither who published what waits, nor whose the status of a video is,
\* changes when nothing is published, received or lost.
LEMMA OriginStays ==
  ASSUME TypeInv, PoolInv, AttemptsStay, UNCHANGED <<outbox, status, alive>>,
         TypeInv'
  PROVE  StatusOrigin'
<1>1. \A n \in Nodes : wire'[n] # <<>> => n \in alive'
  BY DEF TypeInv, BrokerTyped
<1> QED
  BY <1>1, EntryFacts DEF StatusOrigin, PoolInv, AttemptsStay

\* The broker reads an ack or nack.
LEMMA SettleKeeps ==
  ASSUME TypeInv, PoolInv, NEW n \in Nodes, Settle(n)
  PROVE  PoolInv'
<1>1. AttemptsStay /\ UNCHANGED <<attempts, dataVars, statusVars, faultVars>>
  BY AttemptsUnchanged DEF Settle, TypeInv
<1>2. GoingAlive' /\ NothingPutYet'
  BY <1>1 DEF GoingAlive, NothingPutYet, PoolInv, Going, Node, AttemptsStay
<1>3. StatusOrigin'
  BY <1>1, OriginStays, BrokerSideTyped
<1>4. ASSUME lost' = 0 PROVE NothingLost'
  <2>1. NothingLost
    BY <1>1, <1>4 DEF PoolInv, NothingLost
  <2>2. wire[n] \in Seq(Started) /\ 1 \in 1 .. Len(wire[n])
    BY <2>1 DEF Settle, NothingLost, ChannelsKept, TypeInv, BrokerTyped
  <2>3. /\ Head(wire[n]) = held[n] /\ held[n] \in Started
        /\ n \in connected /\ Node(held[n]) = n
        /\ attempts[held[n]].stage \in Outcomes
    BY <2>1, <2>2, ElementOfSeq, AttemptFacts
      DEF Settle, NothingLost, ChannelsKept, TypeInv, BrokerTyped
  <2>4. held[n] # 0
    BY <2>3, AttemptFacts DEF TypeInv
  <2>5. /\ place' = [place EXCEPT ![Video(held[n])] =
                       IF attempts[held[n]].stage = "threw" THEN "dead" ELSE "acked"]
        /\ held' = [held EXCEPT ![n] = 0]
        /\ wire' = [wire EXCEPT ![n] = Tail(@)]
        /\ UNCHANGED connected
    BY <2>3, <2>4 DEF Settle
  <2>6. wire'[n] = <<>>
    <3>1. Tail(wire[n]) \in Seq(Started) /\ Len(Tail(wire[n])) = 0
      BY <2>1, <2>2, HeadTailProperties
        DEF Settle, NothingLost, ChannelsKept
    <3> QED
      BY <3>1, <2>5, EmptySeq DEF TypeInv, BrokerTyped
  <2>7. ChannelsKept'
    <3>1. \A a \in Started : Going(a) => Node(a) # n
      BY <2>1, <2>3, <2>4 DEF NothingLost, ChannelsKept, Going, Outcomes
    <3>2. \A m \in Nodes \ {n} : held'[m] = held[m] /\ wire'[m] = wire[m]
      BY <2>5 DEF TypeInv, BrokerTyped
    <3>3. \A a \in Started : Node(a) \in Nodes
      BY AttemptFacts DEF TypeInv, Attempt, Node
    <3> QED
      BY <1>1, <2>1, <2>5, <2>6, <3>1, <3>2, <3>3
        DEF NothingLost, ChannelsKept, Going, Node, AttemptsStay
  <2>8. AttemptsHandedOn' /\ OwnFiles'
    <3>1. \A a \in Started : Video(a) \in Videos
      BY AttemptFacts DEF TypeInv, Attempt, Video
    <3>2. \A v \in Videos : place'[v] = "ready" => place[v] = "ready"
      BY <2>5 DEF TypeInv, BrokerTyped
    <3> QED
      BY <1>1, <2>1, <3>1, <3>2
        DEF NothingLost, AttemptsHandedOn, OwnFiles, Latest, Node, Video,
            AttemptsStay
  <2>9. AckedHadAttempt'
    <3> SUFFICES ASSUME NEW v \in Videos, place'[v] = "acked"
                 PROVE  \E a \in Started : Video(a) = v /\ Latest(a)
      BY <1>1 DEF AckedHadAttempt, Video, Latest, AttemptsStay
    <3>1. CASE place[v] = "acked"
      BY <3>1, <2>1 DEF NothingLost, AckedHadAttempt
    <3>2. CASE place[v] # "acked"
      <4>1. v = Video(held[n])
        BY <3>2, <2>5 DEF TypeInv, BrokerTyped
      <4>2. Latest(held[n])
        BY <2>1, <2>3 DEF NothingLost, AttemptsHandedOn, ChannelsKept
      <4> QED
        BY <4>1, <4>2, <2>3
    <3> QED
      BY <3>1, <3>2
  <2> QED
    BY <2>7, <2>8, <2>9 DEF NothingLost
<1> QED
  BY <1>2, <1>3, <1>4 DEF PoolInv, NothingLost

\* A channel is lost, or a node opens one again after that.
LEMMA LossKeeps ==
  ASSUME TypeInv, PoolInv, NEW n \in Nodes, LoseChannel(n) \/ Reconnect(n)
  PROVE  PoolInv'
<1>1. AttemptsStay /\ UNCHANGED <<attempts, dataVars, statusVars, alive>>
  BY AttemptsUnchanged DEF LoseChannel, Reconnect, TypeInv
<1>2. GoingAlive' /\ NothingPutYet'
  BY <1>1 DEF GoingAlive, NothingPutYet, PoolInv, Going, Node, AttemptsStay
<1>3. StatusOrigin'
  BY <1>1, OriginStays, BrokerSideTyped
<1>4. lost' # 0
  <2>1. CASE LoseChannel(n)
    BY <2>1 DEF LoseChannel, TypeInv, TroublesTyped
  <2>2. CASE Reconnect(n)
    BY <2>2 DEF Reconnect, PoolInv, ChannelsKept
  <2> QED
    BY <2>1, <2>2
<1> QED
  BY <1>2, <1>3, <1>4 DEF PoolInv

\* A process exits: the video of the attempt that it carried out goes back to
\* the queue, and no other node has one of that video.
LEMMA ExitKeeps ==
  ASSUME TypeInv, PoolInv, NEW n \in Nodes, Exit(n)
  PROVE  PoolInv'
<1>1. /\ alive' = alive \ {n} /\ DropChannel(n) /\ StatusesDie(n)
      /\ UNCHANGED <<dataVars, status, lost>>
      /\ n \in alive
  BY DEF Exit
<1>2. AttemptsStay
  BY ExitMoves DEF Exit, TypeInv
<1>3. /\ \A a \in Started : Node(a) # n => attempts'[a] = attempts[a]
      /\ \A a \in Started : attempts'[a] # attempts[a] => attempts'[a].stage = "killed"
      /\ \A a \in Started : Going(a) /\ Node(a) = n => attempts'[a].stage = "killed"
  <2>1. \A a \in Started : attempts[a] \in Attempt
    BY AttemptFacts DEF TypeInv
  <2> QED
    BY <2>1, ExitMoves DEF Exit, TypeInv, Attempt
<1>4. \A a \in Started : /\ Node(a)' = Node(a) /\ Video(a)' = Video(a)
                         /\ Node(a) \in Nodes /\ Video(a) \in Videos
  BY <1>2, AttemptFacts DEF AttemptsStay, TypeInv, Attempt, Node, Video
<1>5. \A a \in Started : Going(a)' => Going(a) /\ Node(a) # n
  BY <1>2, <1>3, <1>4 DEF AttemptsStay, Going
<1>6. GoingAlive'
  BY <1>1, <1>2, <1>4, <1>5 DEF GoingAlive, PoolInv, AttemptsStay
<1>7. NothingPutYet'
  BY <1>2, <1>3 DEF NothingPutYet, PoolInv, AttemptsStay
<1>8. \A m \in Nodes : outbox'[m] = IF m = n THEN <<>> ELSE outbox[m]
  BY <1>1 DEF StatusesDie, TypeInv, StatusTyped
<1>9. \A m \in Nodes : /\ held'[m] = IF m = n THEN 0 ELSE held[m]
                       /\ wire'[m] = IF m = n THEN <<>> ELSE wire[m]
  BY <1>1 DEF DropChannel, TypeInv, BrokerTyped
<1>10. StatusOrigin'
  <2>1. \A m \in Nodes : wire'[m] # <<>> \/ outbox'[m] # <<>> => m \in alive'
    BY <1>1, <1>8, <1>9 DEF StatusOrigin, PoolInv
  <2>2. Len(<<>>) = 0
    BY EmptySeq
  <2>3. ASSUME NEW m \in Nodes, NEW i \in 1 .. Len(outbox'[m])
        PROVE  /\ attempts'[outbox'[m][i].of].video = outbox'[m][i].video
               /\ attempts'[outbox'[m][i].of].node = m
    <3>1. m # n /\ outbox'[m] = outbox[m]
      BY <1>8, <2>2, <2>3
    <3>2. i \in 1 .. Len(outbox[m])
      BY <2>3, <3>1
    <3>3. /\ Video(outbox[m][i].of) = outbox[m][i].video
          /\ Node(outbox[m][i].of) = m
          /\ outbox[m][i].of \in Started
      BY <3>2, EntryFacts DEF StatusOrigin, PoolInv
    <3> QED
      BY <1>4, <3>1, <3>3 DEF Video, Node
  <2>4. \A v \in Videos : status'[v].of # 0 => Video(status[v].of)' = v
    BY <1>1, <1>4, EntryFacts DEF StatusOrigin, PoolInv, Video
  <2> QED
    BY <1>1, <2>1, <2>3, <2>4 DEF StatusOrigin, Video, Node
<1>11. ASSUME lost' = 0 PROVE NothingLost'
  <2>1. NothingLost
    BY <1>1, <1>11 DEF PoolInv, NothingLost
  <2>2. ChannelsKept'
    <3>1. connected' = alive'
      BY <1>1, <2>1 DEF DropChannel, NothingLost, ChannelsKept
    <3>2. \A a \in Started : Going(a)' => held'[Node(a)] = a
      BY <1>4, <1>5, <1>9, <2>1 DEF NothingLost, ChannelsKept
    <3>3. ASSUME NEW m \in Nodes, wire'[m] # <<>>
          PROVE  /\ Len(wire'[m]) = 1
                 /\ wire'[m][1] = held'[m]
                 /\ attempts'[held'[m]].stage \in Outcomes
      <4>1. m # n /\ wire'[m] = wire[m] /\ held'[m] = held[m] /\ wire[m] # <<>>
        BY <1>9, <3>3
      <4>2. /\ Len(wire[m]) = 1 /\ wire[m][1] = held[m]
            /\ attempts[held[m]].stage \in Outcomes
            /\ wire[m] \in Seq(Started)
        BY <4>1, <2>1 DEF NothingLost, ChannelsKept, TypeInv, BrokerTyped
      <4>3. held[m] \in Started /\ held[m] # 0
        <5>1. 1 \in 1 .. Len(wire[m])
          BY <4>2
        <5> QED
          BY <4>2, <5>1, ElementOfSeq, AttemptFacts DEF TypeInv
      <4>4. Node(held[m]) = m
        BY <4>3 DEF TypeInv, BrokerTyped
      <4> QED
        BY <1>3, <4>1, <4>2, <4>3, <4>4
    <3> QED
      BY <1>2, <1>4, <3>1, <3>2, <3>3 DEF ChannelsKept, AttemptsStay, Node
  <2>3. \A a \in Started : Latest(a)' <=> Latest(a)
    BY <1>2, <1>4 DEF Latest, AttemptsStay
  <2>4. AttemptsHandedOn'
    <3>1. ASSUME NEW a \in Started, Node(a) \in alive, Node(a) # n
          PROVE  place'[Video(a)] # "ready" /\ Latest(a)'
      <4>1. place[Video(a)] # "ready" /\ Latest(a)
        BY <3>1, <2>1 DEF NothingLost, AttemptsHandedOn
      <4>2. ~(held[n] # 0 /\ Video(held[n]) = Video(a))
        <5> SUFFICES ASSUME held[n] # 0, Video(held[n]) = Video(a) PROVE FALSE
          OBVIOUS
        <5>1. held[n] \in Started /\ Node(held[n]) = n
          BY DEF TypeInv, BrokerTyped
        <5>2. Latest(held[n])
          BY <1>1, <5>1, <2>1 DEF NothingLost, AttemptsHandedOn
        <5>3. a = held[n]
          BY <4>1, <5>1, <5>2, AttemptFacts DEF Latest, TypeInv
        <5> QED
          BY <3>1, <5>1, <5>3
      <4> QED
        BY <1>1, <1>4, <2>3, <4>1, <4>2 DEF DropChannel
    <3> QED
      BY <1>1, <1>2, <1>4, <3>1 DEF AttemptsHandedOn, AttemptsStay, Node, Video
  <2>5. OwnFiles'
    <3>1. ASSUME NEW a \in Started
          PROVE  /\ attempts'[a].stage = "upload" =>
                      /\ disk'[Node(a)'][Video(a)'] = a
                      /\ \A f \in 1 .. attempts'[a].put : bucket'[Video(a)'][f] = a
                 /\ attempts'[a].stage = "done" /\ Latest(a)' =>
                      bucket'[Video(a)'] = [f \in Files |-> a]
      <4>1. attempts'[a].stage = "killed" \/ attempts'[a] = attempts[a]
        BY <1>3
      <4>2. /\ attempts[a].stage = "upload" =>
                 /\ disk[Node(a)][Video(a)] = a
                 /\ \A f \in 1 .. attempts[a].put : bucket[Video(a)][f] = a
            /\ attempts[a].stage = "done" /\ Latest(a) =>
                 bucket[Video(a)] = [f \in Files |-> a]
        BY <2>1 DEF NothingLost, OwnFiles
      <4> QED
        BY <1>1, <1>4, <2>3, <4>1, <4>2
    <3> QED
      BY <1>2, <3>1 DEF OwnFiles, AttemptsStay, Node, Video, Files
  <2>6. AckedHadAttempt'
    <3>1. \A v \in Videos : place'[v] = "acked" => place[v] = "acked"
      BY <1>1 DEF DropChannel
    <3> QED
      BY <1>2, <1>4, <2>1, <2>3, <3>1
        DEF NothingLost, AckedHadAttempt, AttemptsStay, Video
  <2> QED
    BY <2>2, <2>4, <2>5, <2>6 DEF NothingLost
<1> QED
  BY <1>6, <1>7, <1>10, <1>11 DEF PoolInv, NothingLost

\* The api receives a status: what it says of a video is of an attempt at it.
LEMMA ReceiveKeeps ==
  ASSUME TypeInv, PoolInv, NEW n \in Nodes, Receive(n)
  PROVE  PoolInv'
<1>1. AttemptsStay /\ UNCHANGED <<brokerVars, attempts, dataVars, faultVars>>
  BY AttemptsUnchanged DEF Receive, TypeInv
<1>2. GoingAlive' /\ NothingPutYet'
  BY <1>1 DEF GoingAlive, NothingPutYet, PoolInv, Going, Node, AttemptsStay
<1>3. lost' = 0 => NothingLost'
  BY <1>1 DEF PoolInv, NothingLost, ChannelsKept, AttemptsHandedOn, OwnFiles,
              AckedHadAttempt, Latest, Going, Node, Video, AttemptsStay
<1>4. /\ outbox[n] # <<>> /\ outbox[n] \in Seq(Entry)
      /\ outbox' = [outbox EXCEPT ![n] = Tail(@)]
      /\ status' = [status EXCEPT ![Head(outbox[n]).video] =
                      [of |-> Head(outbox[n]).of, st |-> Head(outbox[n]).st]]
  BY DEF Receive, TypeInv, StatusTyped
<1>5. /\ Len(Tail(outbox[n])) = Len(outbox[n]) - 1
      /\ \A i \in 1 .. Len(Tail(outbox[n])) : Tail(outbox[n])[i] = outbox[n][i + 1]
      /\ Head(outbox[n]) = outbox[n][1]
      /\ 1 \in 1 .. Len(outbox[n])
  <2> HIDE DEF Entry
  <2> QED BY <1>4, HeadTailProperties, EmptySeq
<1>6. \A m \in Nodes : \A i \in 1 .. Len(outbox'[m]) :
        \E j \in 1 .. Len(outbox[m]) : outbox'[m][i] = outbox[m][j]
  <2> SUFFICES ASSUME NEW m \in Nodes, NEW i \in 1 .. Len(outbox'[m])
               PROVE  \E j \in 1 .. Len(outbox[m]) : outbox'[m][i] = outbox[m][j]
    OBVIOUS
  <2>1. CASE m = n
    <3>1. outbox'[m] = Tail(outbox[n])
      BY <2>1, <1>4 DEF TypeInv, StatusTyped
    <3>2. i + 1 \in 1 .. Len(outbox[n])
      BY <3>1, <1>5, <1>4
    <3> QED
      BY <2>1, <3>1, <3>2, <1>5
  <2>2. CASE m # n
    BY <2>2, <1>4 DEF TypeInv, StatusTyped
  <2> QED
    BY <2>1, <2>2
<1>7. Head(outbox[n]).of \in Started
      /\ Video(Head(outbox[n]).of) = Head(outbox[n]).video
  BY <1>5, EntryFacts DEF StatusOrigin, PoolInv
<1>8. \A v \in Videos : status'[v].of # 0 => Video(status'[v].of) = v
  BY <1>4, <1>7 DEF StatusOrigin, PoolInv, TypeInv, StatusTyped
<1>9. \A m \in Nodes : outbox'[m] # <<>> => outbox[m] # <<>>
  BY <1>4 DEF TypeInv, StatusTyped
<1>10. \A m \in Nodes : \A i \in 1 .. Len(outbox'[m]) :
         Video(outbox'[m][i].of) = outbox'[m][i].video /\ Node(outbox'[m][i].of) = m
  BY <1>6 DEF StatusOrigin, PoolInv
<1>11. StatusOrigin'
  BY <1>1, <1>8, <1>9, <1>10 DEF StatusOrigin, PoolInv, Video, Node
<1> QED
  BY <1>2, <1>3, <1>11 DEF PoolInv, NothingLost

\* Without a lost channel, an attempt that goes on is the only one at its
\* video on a live node.
LEMMA GoingAlone ==
  ASSUME TypeInv, PoolInv, lost = 0, NEW a \in Started, Going(a),
         NEW b \in Started, Video(b) = Video(a), Node(b) \in alive \/ Latest(b)
  PROVE  a = b
<1>1. Latest(a) /\ Latest(b)
  BY DEF PoolInv, GoingAlive, AttemptsHandedOn
<1> QED
  BY <1>1, AttemptFacts DEF Latest, TypeInv

\* What a step of a callback leaves as it is.
LEMMA WorkFrame ==
  ASSUME TypeInv, PoolInv, NEW a \in AttemptIds, Work(a)
  PROVE  /\ AttemptsStay /\ Going(a) /\ a \in Started
         /\ \A b \in Started \ {a} : attempts'[b] = attempts[b]
         /\ UNCHANGED <<place, connected, held, lastTag, status, faultVars>>
         /\ UNCHANGED wire \/ (Send(a) /\ attempts'[a].stage \in Outcomes)
<1>1. AttemptsStay /\ Going(a) /\ a \in Started
  BY WorkTyped DEF Going
<1>2. UNCHANGED <<place, connected, held, lastTag, status, faultVars>>
  BY DEF Work, Announce, Encode, EncodeFails, Upload, UploadFails, CleanUp, Return
<1>3. CASE Upload(a)
  <2> DEFINE e == [attempts[a] EXCEPT !.put = @ + 1]
  <2>1. attempts' = [attempts EXCEPT ![a] = e]
    BY <1>3 DEF Upload
  <2>2. \A b \in Started \ {a} : attempts'[b] = attempts[b]
    BY <2>1
  <2> QED
    BY <1>1, <1>2, <1>3, <2>2 DEF Upload
<1>4. CASE Announce(a) \/ Encode(a)
  <2>1. \A b \in Started \ {a} : attempts'[b] = attempts[b]
    BY <1>1, <1>4, StageMoves DEF Announce, Encode, Stages, TypeInv
  <2> QED
    BY <1>1, <1>2, <1>4, <2>1 DEF Announce, Encode
<1>5. CASE EncodeFails(a) \/ UploadFails(a) \/ CleanUp(a)
  <2>1. PICK s \in Outcomes : Stage(a, s) /\ Send(a)
    BY <1>5 DEF EncodeFails, UploadFails, CleanUp, Return, Outcomes
  <2>2. /\ \A b \in Started \ {a} : attempts'[b] = attempts[b]
        /\ attempts'[a].stage \in Outcomes
    BY <1>1, <2>1, StageMoves DEF Stages, TypeInv
  <2> QED
    BY <1>1, <1>2, <2>1, <2>2
<1> QED
  BY <1>3, <1>4, <1>5 DEF Work

\* The ack or nack of a callback that ends is the one its node's channel waits
\* for.
LEMMA WorkKeepsChannels ==
  ASSUME TypeInv, PoolInv, lost = 0, NEW a \in AttemptIds, Work(a)
  PROVE  ChannelsKept'
<1>1. /\ AttemptsStay /\ Going(a) /\ a \in Started
      /\ \A b \in Started \ {a} : attempts'[b] = attempts[b]
      /\ UNCHANGED <<connected, held, alive>>
      /\ UNCHANGED wire \/ (Send(a) /\ attempts'[a].stage \in Outcomes)
  BY WorkFrame
<1>2. ChannelsKept /\ Node(a) \in Nodes /\ held[Node(a)] = a
  BY <1>1, AttemptFacts DEF PoolInv, ChannelsKept, TypeInv, Attempt, Node
<1>3. wire[Node(a)] = <<>>
  BY <1>1, <1>2 DEF ChannelsKept, Going, Outcomes
<1>4. \A b \in Started : Going(b)' => held'[Node(b)'] = b
  BY <1>1, <1>2 DEF ChannelsKept, AttemptsStay, Going
<1>5. ASSUME NEW m \in Nodes, wire'[m] # <<>>
      PROVE  /\ Len(wire'[m]) = 1
             /\ wire'[m][1] = held'[m]
             /\ attempts'[held'[m]].stage \in Outcomes
  <2>1. CASE m = Node(a)
    <3>1. Send(a) /\ attempts'[a].stage \in Outcomes
      BY <1>1, <1>3, <1>5, <2>1
    <3>2. wire'[m] = Append(<<>>, a)
      BY <1>3, <1>5, <2>1, <3>1 DEF Send, TypeInv, BrokerTyped
    <3> QED
      BY <1>1, <1>2, <2>1, <3>1, <3>2
  <2>2. CASE m # Node(a)
    <3>1. wire'[m] = wire[m]
      BY <1>1, <2>2 DEF Send, TypeInv, BrokerTyped
    <3>2. /\ Len(wire[m]) = 1 /\ wire[m][1] = held[m]
          /\ attempts[held[m]].stage \in Outcomes
          /\ wire[m] \in Seq(Started)
      BY <1>2, <1>5, <3>1 DEF ChannelsKept, TypeInv, BrokerTyped
    <3>3. held[m] \in Started /\ held[m] # a
      <4>1. 1 \in 1 .. Len(wire[m])
        BY <3>2
      <4> QED
        BY <1>1, <3>2, <4>1, ElementOfSeq DEF Going, Outcomes
    <3> QED
      BY <1>1, <3>1, <3>2, <3>3
  <2> QED
    BY <2>1, <2>2
<1> QED
  BY <1>1, <1>2, <1>4, <1>5 DEF ChannelsKept, AttemptsStay, Node

\* Who holds a video does not change while callbacks go on.
LEMMA WorkKeepsHands ==
  ASSUME TypeInv, PoolInv, lost = 0, NEW a \in AttemptIds, Work(a)
  PROVE  AttemptsHandedOn' /\ AckedHadAttempt'
<1>1. AttemptsStay /\ UNCHANGED <<place, alive>>
  BY WorkFrame
<1>2. \A b \in Started : Latest(b)' <=> Latest(b)
  BY <1>1 DEF Latest, AttemptsStay
<1>3. AttemptsHandedOn /\ AckedHadAttempt
  BY DEF PoolInv
<1> QED
  BY <1>1, <1>2, <1>3 DEF AttemptsHandedOn, AckedHadAttempt, AttemptsStay

\* The directory and the objects of an attempt that goes on are its own: no
\* other attempt that goes on, and none that ended as the last of its video,
\* has them.
LEMMA WorkKeepsFiles ==
  ASSUME TypeInv, PoolInv, lost = 0, NEW a \in AttemptIds, Work(a)
  PROVE  OwnFiles'
<1>1. /\ AttemptsStay /\ Going(a) /\ a \in Started
      /\ \A b \in Started \ {a} : attempts'[b] = attempts[b]
  BY WorkFrame
<1>2. \A b \in Started : Latest(b)' <=> Latest(b)
  BY <1>1 DEF Latest, AttemptsStay
<1>3. OwnFiles /\ NothingPutYet
  BY DEF PoolInv
<1>4. /\ Node(a) \in Nodes /\ Video(a) \in Videos
      /\ attempts[a] \in Attempt
      /\ \A b \in Started : Node(b) \in Nodes /\ Video(b) \in Videos
  BY <1>1, AttemptFacts DEF TypeInv, Attempt, Node, Video
<1>5. \A b \in Started \ {a} :
        (attempts[b].stage = "upload" \/ Latest(b)) => Video(b) # Video(a)
  <2> SUFFICES ASSUME NEW b \in Started \ {a}, Video(b) = Video(a),
                      attempts[b].stage = "upload" \/ Latest(b)
               PROVE  FALSE
    OBVIOUS
  <2>1. Node(b) \in alive \/ Latest(b)
    BY DEF PoolInv, GoingAlive, Going
  <2> QED
    BY <1>1, <2>1, GoingAlone
<1>6. \A v \in Videos : v # Video(a) =>
        bucket'[v] = bucket[v] /\ \A n \in Nodes : disk'[n][v] = disk[n][v]
  BY <1>4 DEF Work, Announce, Encode, EncodeFails, Upload, UploadFails, CleanUp,
              TypeInv, DataTyped
<1>7. ASSUME NEW b \in Started \ {a}
      PROVE  /\ attempts'[b].stage = "upload" =>
                  /\ disk'[Node(b)'][Video(b)'] = b
                  /\ \A f \in 1 .. attempts'[b].put : bucket'[Video(b)'][f] = b
             /\ attempts'[b].stage = "done" /\ Latest(b)' =>
                  bucket'[Video(b)'] = [f \in Files |-> b]
  <2>1. /\ attempts'[b] = attempts[b]
        /\ Latest(b)' <=> Latest(b)
        /\ Node(b)' = Node(b) /\ Video(b)' = Video(b)
    BY <1>1, <1>2 DEF AttemptsStay
  <2>2. /\ attempts[b].stage = "upload" =>
             /\ disk[Node(b)][Video(b)] = b
             /\ \A f \in 1 .. attempts[b].put : bucket[Video(b)][f] = b
        /\ attempts[b].stage = "done" /\ Latest(b) =>
             bucket[Video(b)] = [f \in Files |-> b]
    BY <1>3 DEF OwnFiles
  <2> QED
    BY <1>4, <1>5, <1>6, <2>1, <2>2
<1>8. /\ attempts'[a].stage = "upload" =>
           /\ disk'[Node(a)'][Video(a)'] = a
           /\ \A f \in 1 .. attempts'[a].put : bucket'[Video(a)'][f] = a
      /\ attempts'[a].stage = "done" /\ Latest(a)' =>
           bucket'[Video(a)'] = [f \in Files |-> a]
  <2>1. Node(a)' = Node(a) /\ Video(a)' = Video(a)
    BY <1>1 DEF AttemptsStay
  <2>2. attempts[a].stage = "upload" =>
          /\ disk[Node(a)][Video(a)] = a
          /\ \A f \in 1 .. attempts[a].put : bucket[Video(a)][f] = a
    BY <1>1, <1>3 DEF OwnFiles
  <2>3. CASE Announce(a) \/ EncodeFails(a) \/ UploadFails(a)
    <3>1. PICK s \in {"encode", "failed", "threw"} : Stage(a, s)
      BY <2>3 DEF Announce, EncodeFails, UploadFails, Return
    <3>2. attempts'[a].stage = s
      BY <1>1, <3>1, StageMoves DEF Stages, Outcomes, TypeInv
    <3> QED
      BY <3>1, <3>2
  <2>4. CASE Encode(a)
    <3>1. attempts'[a].stage = "upload" /\ attempts'[a].put = 0
      BY <1>1, <1>3, <2>4, StageMoves DEF Encode, Stages, TypeInv, NothingPutYet
    <3>2. disk'[Node(a)][Video(a)] = a
      BY <1>4, <2>4 DEF Encode, TypeInv, DataTyped
    <3> QED
      BY <2>1, <3>1, <3>2
  <2>5. CASE Upload(a)
    <3> DEFINE e == [attempts[a] EXCEPT !.put = @ + 1]
    <3>1. attempts' = [attempts EXCEPT ![a] = e]
      BY <2>5 DEF Upload
    <3>2. /\ e \in Attempt /\ e.node = Node(a) /\ e.video = Video(a)
          /\ e.tag = attempts[a].tag
          /\ e.stage = "upload" /\ e.put = attempts[a].put + 1
      BY <1>4, <2>5, NumFilesAssumption DEF Upload, Attempt, Node, Video
    <3>3. attempts'[a].stage = "upload" /\ attempts'[a].put = attempts[a].put + 1
      BY <1>1, <3>1, <3>2, AttemptMoves DEF TypeInv
    <3>4. /\ disk' = disk
          /\ bucket' = [bucket EXCEPT ![Video(a)][attempts[a].put + 1] = a]
          /\ attempts[a].put \in Nat /\ attempts[a].put + 1 \in Files
      <4>1. disk[Node(a)][Video(a)] = a /\ disk' = disk
        BY <2>2, <2>5 DEF Upload
      <4>2. bucket' = [bucket EXCEPT ![Video(a)][attempts[a].put + 1] =
                         disk[Node(a)][Video(a)]]
        BY <2>5 DEF Upload
      <4>3. /\ attempts[a].put \in 0 .. NumFiles
            /\ attempts[a].put < NumFiles
        BY <1>4, <2>5 DEF Upload, Attempt
      <4>4. attempts[a].put \in Nat /\ attempts[a].put + 1 \in Files
        BY <4>3, NumFilesAssumption DEF Files
      <4> QED
        BY <4>1, <4>2, <4>4
    <3>5. \A f \in Files :
            bucket'[Video(a)][f] = IF f = attempts[a].put + 1 THEN a
                                                      ELSE bucket[Video(a)][f]
      BY <1>4, <3>4 DEF TypeInv, DataTyped
    <3>6. \A f \in 1 .. attempts[a].put + 1 :
            f \in Files /\ (f # attempts[a].put + 1 => f \in 1 .. attempts[a].put)
      BY <3>4, NumFilesAssumption DEF Files
    <3> QED
      BY <2>1, <2>2, <2>5, <3>3, <3>4, <3>5, <3>6 DEF Upload
  <2>6. CASE CleanUp(a)
    <3>1. attempts'[a].stage = "done"
      BY <1>1, <2>6, StageMoves DEF CleanUp, Return, Stages, Outcomes, TypeInv
    <3>2. bucket[Video(a)] = [f \in Files |-> a]
      BY <1>4, <2>2, <2>6 DEF CleanUp, Uploaded, Files, TypeInv, DataTyped
    <3> QED
      BY <2>1, <2>6, <3>1, <3>2 DEF CleanUp
  <2> QED
    BY <2>3, <2>4, <2>5, <2>6 DEF Work
<1> QED
  BY <1>1, <1>7, <1>8 DEF OwnFiles, AttemptsStay, Node, Video, Files

\* A status that is published waits on the node of its attempt.
LEMMA WorkKeepsOrigin ==
  ASSUME TypeInv, PoolInv, NEW a \in AttemptIds, Work(a)
  PROVE  StatusOrigin'
<1>1. /\ AttemptsStay /\ Going(a) /\ a \in Started
      /\ UNCHANGED <<status, alive>>
      /\ TypeInv'
  BY WorkFrame, WorkTyped
<1>2. CASE UNCHANGED outbox
  BY <1>1, <1>2, OriginStays
<1>3. ASSUME NEW st \in Reports, Publish(a, st)
      PROVE  StatusOrigin'
  <2> DEFINE e == [video |-> Video(a), of |-> a, st |-> st]
  <2>1. /\ Node(a) \in Nodes /\ Node(a) \in alive /\ e \in Entry
        /\ e.video = Video(a) /\ e.of = a
    BY <1>1, AttemptFacts
      DEF TypeInv, Attempt, Node, Video, Entry, PoolInv, GoingAlive
  <2>2. outbox' = [outbox EXCEPT ![Node(a)] = Append(@, e)]
    BY <1>3 DEF Publish
  <2>3. /\ outbox[Node(a)] \in Seq(Entry)
        /\ Len(outbox[Node(a)]) \in Nat
    <3> HIDE DEF Entry
    <3> QED BY <2>1, LenProperties DEF TypeInv, StatusTyped
  <2> HIDE DEF e
  <2>4. /\ Len(Append(outbox[Node(a)], e)) = Len(outbox[Node(a)]) + 1
        /\ \A i \in 1 .. Len(outbox[Node(a)]) :
             Append(outbox[Node(a)], e)[i] = outbox[Node(a)][i]
        /\ Append(outbox[Node(a)], e)[Len(outbox[Node(a)]) + 1] = e
    <3> HIDE DEF Entry
    <3> QED BY <2>1, <2>3, AppendProperties
  <2>5. ASSUME NEW m \in Nodes, NEW i \in 1 .. Len(outbox'[m])
        PROVE  /\ attempts'[outbox'[m][i].of].video = outbox'[m][i].video
               /\ attempts'[outbox'[m][i].of].node = m
    <3>1. (m = Node(a) /\ outbox'[m][i] = e)
          \/ \E j \in 1 .. Len(outbox[m]) : outbox'[m][i] = outbox[m][j]
      <4>1. CASE m = Node(a)
        <5>1. outbox'[m] = Append(outbox[m], e)
          BY <2>2, <4>1 DEF TypeInv, StatusTyped
        <5>2. i \in 1 .. Len(outbox[m]) \/ i = Len(outbox[m]) + 1
          BY <2>3, <2>4, <4>1, <5>1
        <5> QED
          BY <2>4, <4>1, <5>1, <5>2
      <4>2. CASE m # Node(a)
        BY <2>2, <4>2 DEF TypeInv, StatusTyped
      <4> QED
        BY <4>1, <4>2
    <3>2. \A b \in Started : attempts'[b].video = Video(b) /\ attempts'[b].node = Node(b)
      BY <1>1 DEF AttemptsStay, Node, Video
    <3> QED
      BY <1>1, <2>1, <3>1, <3>2, EntryFacts DEF StatusOrigin, PoolInv
  <2>6. \A m \in Nodes : wire'[m] # <<>> \/ outbox'[m] # <<>> => m \in alive'
    <3>1. \A m \in Nodes : wire'[m] # <<>> => m \in alive'
      BY <1>1 DEF TypeInv, BrokerTyped
    <3>2. \A m \in Nodes : outbox'[m] # <<>> => m \in alive'
      BY <1>1, <2>1, <2>2 DEF StatusOrigin, PoolInv, TypeInv, StatusTyped
    <3> QED
      BY <3>1, <3>2
  <2>7. \A v \in Videos : status'[v].of # 0 => attempts'[status'[v].of].video = v
    BY <1>1, EntryFacts DEF StatusOrigin, PoolInv, AttemptsStay, Video
  <2> QED
    BY <2>5, <2>6, <2>7 DEF StatusOrigin, Video, Node
<1> QED
  BY <1>2, <1>3
    DEF Work, Announce, Encode, EncodeFails, Upload, UploadFails, CleanUp, Reports

LEMMA WorkKeeps ==
  ASSUME TypeInv, PoolInv, NEW a \in AttemptIds, Work(a)
  PROVE  PoolInv'
<1>1. /\ AttemptsStay /\ Going(a) /\ a \in Started
      /\ \A b \in Started \ {a} : attempts'[b] = attempts[b]
      /\ UNCHANGED <<alive, lost>>
  BY WorkFrame
<1>2. GoingAlive'
  BY <1>1 DEF GoingAlive, PoolInv, AttemptsStay, Going
<1>3. NothingPutYet'
  <2>1. attempts'[a].stage \in {"download", "encode"} => attempts'[a].put = 0
    <3>1. CASE Announce(a)
      BY <1>1, <3>1, StageMoves
        DEF Announce, Stages, TypeInv, NothingPutYet, PoolInv
    <3>2. CASE Upload(a)
      <4> DEFINE e == [attempts[a] EXCEPT !.put = @ + 1]
      <4>1. attempts' = [attempts EXCEPT ![a] = e]
        BY <3>2 DEF Upload
      <4>2. /\ e \in Attempt /\ e.node = Node(a) /\ e.video = Video(a)
            /\ e.tag = attempts[a].tag /\ e.stage = "upload"
        BY <1>1, <3>2, AttemptFacts, NumFilesAssumption
          DEF Upload, Attempt, Node, Video, TypeInv
      <4> QED
        BY <1>1, <4>1, <4>2, AttemptMoves DEF TypeInv
    <3>3. CASE Encode(a) \/ EncodeFails(a) \/ UploadFails(a) \/ CleanUp(a)
      <4>1. PICK s \in {"upload", "failed", "threw", "done"} : Stage(a, s)
        BY <3>3 DEF Encode, EncodeFails, UploadFails, CleanUp, Return
      <4>2. attempts'[a].stage = s
        BY <1>1, <4>1, StageMoves DEF Stages, Outcomes, TypeInv
      <4> QED
        BY <4>1, <4>2
    <3> QED
      BY <3>1, <3>2, <3>3 DEF Work
  <2> QED
    BY <1>1, <2>1 DEF NothingPutYet, PoolInv, AttemptsStay
<1> QED
  BY <1>1, <1>2, <1>3, WorkKeepsOrigin, WorkKeepsChannels, WorkKeepsHands,
     WorkKeepsFiles DEF PoolInv

----------------------------------------------------------------------------
(* The theorems.                                                           *)

\* The inductive invariant of several nodes: in every state the types hold,
\* what runs runs on live nodes, and, as long as no channel was lost, a
\* video is in one pair of hands at a time.
THEOREM PoolInvariance == Spec => []PoolTyping
<1>1. Init => PoolTyping
  <2> SUFFICES ASSUME Init PROVE PoolInv
    BY InitTyped DEF PoolTyping
  <2>1. Started = {}
    BY EmptySeq DEF Init, Started
  <2> QED
    BY <2>1, EmptySeq
      DEF Init, PoolInv, GoingAlive, StatusOrigin, NothingPutYet, ChannelsKept,
          AttemptsHandedOn, OwnFiles, AckedHadAttempt
<1>2. PoolTyping /\ [Next]_vars => PoolTyping'
  <2> SUFFICES ASSUME TypeInv, PoolInv, [Next]_vars PROVE PoolInv'
    BY StepTyped DEF PoolTyping
  <2>1. CASE UNCHANGED vars
    <3>1. AttemptsStay
      BY <2>1, AttemptsUnchanged DEF vars, TypeInv
    <3> QED
      BY <2>1, <3>1
        DEF vars, PoolInv, GoingAlive, StatusOrigin, NothingPutYet, ChannelsKept,
            AttemptsHandedOn, OwnFiles, AckedHadAttempt, Latest, Going, Node,
            Video, AttemptsStay
  <2>2. CASE Next
    BY <2>2, DeliverKeeps, SettleKeeps, LossKeeps, ExitKeeps, ReceiveKeeps, WorkKeeps
      DEF Next
  <2> QED
    BY <2>1, <2>2
<1> QED
  BY <1>1, <1>2, PTL DEF Spec

\* Whatever node exits, and whenever: while no channel is lost, two nodes
\* never work on one video.
THEOREM NodesDoNotShare == Spec => []OneNodePerJob
<1>1. PoolTyping => OneNodePerJob
  <2> SUFFICES ASSUME TypeInv, PoolInv, lost = 0,
                      NEW a \in Started, NEW b \in Started,
                      Going(a), Going(b), Video(a) = Video(b)
               PROVE  a = b
    BY DEF PoolTyping, OneNodePerJob
  <2>1. Node(b) \in alive
    BY DEF PoolInv, GoingAlive
  <2> QED
    BY <2>1, GoingAlone
<1> QED
  BY <1>1, PoolInvariance, PTL

\* While no channel is lost, what players get of an acknowledged video is
\* the output of its last attempt, complete, whatever nodes that exited had put
\* before.
THEOREM BucketHasOneEncode == Spec => []ServedFromOneEncode
<1>1. PoolTyping => ServedFromOneEncode
  <2> SUFFICES ASSUME TypeInv, PoolInv, lost = 0,
                      NEW v \in Videos, place[v] = "acked"
               PROVE  \E a \in Started :
                        /\ Video(a) = v
                        /\ \A b \in Started : Video(b) = v => b <= a
                        /\ attempts[a].stage = "done" =>
                             bucket[v] = [f \in Files |-> a]
    BY DEF PoolTyping, ServedFromOneEncode
  <2>1. PICK a \in Started : Video(a) = v /\ Latest(a)
    BY DEF PoolInv, AckedHadAttempt
  <2>2. attempts[a].stage = "done" => bucket[v] = [f \in Files |-> a]
    BY <2>1 DEF PoolInv, OwnFiles
  <2> QED
    BY <2>1, <2>2 DEF Latest
<1> QED
  BY <1>1, PoolInvariance, PTL

\* While no channel is lost, the api hears the attempts at a video in their
\* order, although no node waits until another's statuses have arrived.
THEOREM ApiHearsInOrder == Spec => StatusesInOrder
<1>1. ASSUME TypeInv, PoolInv, [Next]_vars, lost' = 0, NEW v \in Videos
      PROVE  status'[v].of >= status[v].of
  <2>1. /\ status[v].of \in {0} \cup Started /\ status[v].of \in Nat
        /\ Started \subseteq Nat /\ 0 \notin Started
    <3>1. Started \subseteq Nat /\ 0 \notin Started
      BY <1>1, AttemptFacts DEF TypeInv
    <3>2. status[v] \in [of : {0} \cup Started, st : {"none"} \cup Reports]
      BY <1>1 DEF TypeInv, StatusTyped
    <3>3. status[v].of \in {0} \cup Started
      BY <3>2
    <3>4. 0 \in Nat
      OBVIOUS
    <3> QED
      BY <3>1, <3>3, <3>4, Zenon
  <2>2. CASE UNCHANGED status
    BY <2>1, <2>2
  <2>3. ASSUME NEW n \in Nodes, Receive(n)
        PROVE  status'[v].of >= status[v].of
    <3> DEFINE e == Head(outbox[n])
    <3>1. /\ outbox[n] # <<>> /\ outbox[n] \in Seq(Entry) /\ lost = 0
          /\ status' = [status EXCEPT ![e.video] = [of |-> e.of, st |-> e.st]]
      BY <1>1, <2>3 DEF Receive, TypeInv, StatusTyped
    <3>2. 1 \in 1 .. Len(outbox[n]) /\ e = outbox[n][1]
      <4> HIDE DEF Entry
      <4> QED BY <3>1, EmptySeq
    <3>3. /\ e.of \in Started /\ Video(e.of) = e.video /\ Node(e.of) = n
          /\ n \in alive
      BY <3>1, <3>2, EntryFacts, <1>1 DEF StatusOrigin, PoolInv
    <3>4. Latest(e.of)
      BY <3>1, <3>3, <1>1 DEF PoolInv, AttemptsHandedOn
    <3>5. CASE v = e.video
      <4>1. status'[v].of = e.of
        BY <1>1, <3>1, <3>5 DEF TypeInv, StatusTyped
      <4>2. status[v].of # 0 => Video(status[v].of) = v
        BY <1>1 DEF StatusOrigin, PoolInv
      <4>3. status[v].of <= e.of
        <5>1. e.of \in Nat
          BY <2>1, <3>3
        <5>2. CASE status[v].of = 0
          BY <5>1, <5>2
        <5>3. CASE status[v].of # 0
          <6>1. status[v].of \in Started /\ Video(status[v].of) = Video(e.of)
            BY <2>1, <3>3, <3>5, <4>2, <5>3
          <6> QED
            BY <3>4, <6>1 DEF Latest
        <5> QED
          BY <5>2, <5>3
      <4> QED
        BY <2>1, <3>3, <4>1, <4>3
    <3>6. CASE v # e.video
      <4>1. status'[v] = status[v]
        BY <1>1, <3>1, <3>6 DEF TypeInv, StatusTyped
      <4> QED
        BY <2>1, <4>1
    <3> QED
      BY <3>5, <3>6
  <2>4. (\E n \in Nodes : Receive(n)) \/ UNCHANGED status
    <3>1. CASE UNCHANGED vars
      BY <3>1 DEF vars
    <3>2. CASE Next
      BY <3>2, WorkFrame, <1>1
        DEF Next, Deliver, Settle, LoseChannel, Reconnect, Exit
    <3> QED
      BY <1>1, <3>1, <3>2
  <2> QED
    BY <2>2, <2>3, <2>4
<1>2. PoolTyping /\ [Next]_vars =>
        (lost' = 0 => \A v \in Videos : status'[v].of >= status[v].of)
  BY <1>1 DEF PoolTyping
<1> QED
  BY <1>2, PoolInvariance, PTL DEF Spec, StatusesInOrder

=============================================================================
