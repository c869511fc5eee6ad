------------------------------ MODULE NodePool ------------------------------
(***************************************************************************)
(* Several nodes on q.video.process: the README's "any number of           *)
(* processing nodes to run on separate servers".  Each node has a disk, a  *)
(* channel and a producer of its own; the broker and the hls bucket are    *)
(* shared.                                                                 *)
(*                                                                         *)
(* An ATTEMPT is one run of processVideoCallback, numbered in the order of *)
(* the deliveries.  VideoJob has what happens inside of one node; here an  *)
(* attempt downloads, announces itself, encodes into the directory of its  *)
(* node and uploads the files one by one.                                  *)
(*                                                                         *)
(* A delivery that a node lost goes to any node, while the node goes on.   *)
(* Its ack or nack goes to the channel it has by then, as in JobConsumer.  *)
(* Here each status arrives once; VideoJob has those that a producer       *)
(* publishes again when its connection was lost.                           *)
(***************************************************************************)
EXTENDS Naturals, Sequences, FiniteSets

CONSTANTS
  Nodes,
  Videos,       \* one message each, numbered in the order of arrival
  NumFiles,     \* the files of one encode, in the order of readdir
  MaxAttempts,  \* bound: deliveries
  MaxTroubles   \* bound: lost channels of a consumer and processes that exit

ASSUME VideosAssumption == Videos \subseteq Nat \ {0}
ASSUME NumFilesAssumption == NumFiles \in Nat \ {0}
ASSUME BoundsAssumption == MaxAttempts \in Nat /\ MaxTroubles \in Nat

VARIABLES
  place,      \* where the broker keeps each message
  attempts,   \* every attempt, in order of delivery
  alive,      \* nodes whose process runs
  connected,  \* nodes whose consumer has a channel
  held,       \* the attempt whose settlement each channel awaits, or 0
  lastTag,    \* delivery tag last used on each channel
  wire,       \* attempts whose ack or nack the broker has not read
  disk,       \* the attempt that wrote each node's directory of a video, or 0
  bucket,     \* the attempt that encoded each object, or 0
  outbox,     \* statuses each node's producer has not got confirmed
  status,     \* the last status the api received, and the attempt it is of
  lost,
  exits

brokerVars == <<place, connected, held, lastTag, wire>>
dataVars == <<disk, bucket>>
statusVars == <<outbox, status>>
faultVars == <<alive, lost, exits>>
vars == <<brokerVars, dataVars, statusVars, faultVars, attempts>>

----------------------------------------------------------------------------

Outcomes == {"done", "failed", "threw"}
Stages == {"download", "encode", "upload", "killed"} \cup Outcomes
AttemptIds == 1 .. MaxAttempts
Files == 1 .. NumFiles
Started == DOMAIN attempts

Going(a) == a \in Started /\ attempts[a].stage \in {"download", "encode", "upload"}
Node(a) == attempts[a].node
Video(a) == attempts[a].video

Init ==
  /\ place = [v \in Videos |-> "ready"]
  /\ attempts = <<>>
  /\ alive = Nodes /\ connected = Nodes
  /\ held = [n \in Nodes |-> 0]
  /\ lastTag = [n \in Nodes |-> 0]
  /\ wire = [n \in Nodes |-> <<>>]
  /\ disk = [n \in Nodes |-> [v \in Videos |-> 0]]
  /\ bucket = [v \in Videos |-> [f \in Files |-> 0]]
  /\ outbox = [n \in Nodes |-> <<>>]
  /\ status = [v \in Videos |-> [of |-> 0, st |-> "none"]]
  /\ lost = 0 /\ exits = 0

----------------------------------------------------------------------------
(* The broker.                                                             *)

\* The channel of a node is gone: what it held can go to another node.
DropChannel(n) ==
  /\ connected' = connected \ {n}
  /\ held' = [held EXCEPT ![n] = 0]
  /\ wire' = [wire EXCEPT ![n] = <<>>]
  /\ place' = [v \in Videos |->
                 IF held[n] # 0 /\ Video(held[n]) = v THEN "ready" ELSE place[v]]
  /\ UNCHANGED lastTag

\* Mutant: the consumer is created with noAck.
NoAck(n, v) ==
  /\ place' = [place EXCEPT ![v] = "acked"]
  /\ UNCHANGED held

\* The message stays with the broker until the node settles it.
AwaitAck(n, v) ==
  /\ place' = [place EXCEPT ![v] = "unacked"]
  /\ held' = [held EXCEPT ![n] = Len(attempts) + 1]

\* A message goes to a node that holds none.
Deliver(n, v) ==
  /\ n \in connected /\ held[n] = 0
  /\ place[v] = "ready"
  /\ \A u \in Videos : place[u] = "ready" => v <= u
  /\ Len(attempts) < MaxAttempts
  /\ attempts' = Append(attempts, [node |-> n, video |-> v, tag |-> lastTag[n] + 1,
                                   stage |-> "download", put |-> 0])
  /\ lastTag' = [lastTag EXCEPT ![n] = @ + 1]
  /\ AwaitAck(n, v)
  /\ UNCHANGED <<connected, wire, dataVars, statusVars, faultVars>>

\* The broker reads an ack or nack.  A tag that names nothing makes it close
\* the channel.
Settle(n) ==
  /\ wire[n] # <<>>
  /\ LET a == Head(wire[n])
         named == held[n] # 0 /\ attempts[held[n]].tag = attempts[a].tag
     IN \/ /\ named
           /\ place' = [place EXCEPT ![Video(held[n])] =
                          IF attempts[a].stage = "threw" THEN "dead" ELSE "acked"]
           /\ held' = [held EXCEPT ![n] = 0]
           /\ wire' = [wire EXCEPT ![n] = Tail(@)]
           /\ UNCHANGED <<connected, lastTag>>
        \/ ~named /\ DropChannel(n)
  /\ UNCHANGED <<attempts, dataVars, statusVars, faultVars>>

\* A node loses its consumer's channel: the connection is gone, or the broker
\* closes the channel of a job that exceeds its limit on the time to an ack.
LoseChannel(n) ==
  /\ n \in connected
  /\ lost + exits < MaxTroubles /\ lost' = lost + 1
  /\ DropChannel(n)
  /\ UNCHANGED <<attempts, dataVars, statusVars, alive, exits>>

\* A channel is opened again, which takes a new connection (JobConsumer).
Reconnect(n) ==
  /\ n \in alive \ connected
  /\ connected' = connected \cup {n}
  /\ lastTag' = [lastTag EXCEPT ![n] = 0]
  /\ UNCHANGED <<place, held, wire, attempts, dataVars, statusVars, faultVars>>

\* Mutant: an unhandled rejection closes the connection and lets jobs go on.
JobsGoOn(n) == n \in Nodes /\ UNCHANGED attempts

JobsDie(n) ==
  attempts' = [a \in Started |->
                 IF Going(a) /\ Node(a) = n
                   THEN [attempts[a] EXCEPT !.stage = "killed"] ELSE attempts[a]]

\* Mutant: statuses are kept on disk and sent whenever the producer can.
StatusesSurvive(n) == n \in Nodes /\ UNCHANGED outbox

StatusesDie(n) == outbox' = [outbox EXCEPT ![n] = <<>>]

\* The process of a node exits, with what it had in memory.  One that is
\* started again in its place is one more node.
Exit(n) ==
  /\ n \in alive
  /\ lost + exits < MaxTroubles /\ exits' = exits + 1
  /\ alive' = alive \ {n}
  /\ DropChannel(n)
  /\ JobsDie(n)
  /\ StatusesDie(n)
  /\ UNCHANGED <<dataVars, status, lost>>

----------------------------------------------------------------------------
(* The steps of an attempt.                                                *)

Stage(a, stage) == attempts' = [attempts EXCEPT ![a].stage = stage]

Publish(a, st) ==
  outbox' = [outbox EXCEPT ![Node(a)] = Append(@, [video |-> Video(a), of |-> a,
                                                   st |-> st])]

\* Mutant: an ack or nack waits for a channel.
SendLater(a) == wire' = [wire EXCEPT ![Node(a)] = Append(@, a)]

\* An ack or nack goes to the channel of the node, if there is one.
Send(a) ==
  IF Node(a) \in connected
    THEN wire' = [wire EXCEPT ![Node(a)] = Append(@, a)]
    ELSE UNCHANGED wire

\* The callback ends.
Return(a, outcome) ==
  /\ Stage(a, outcome)
  /\ Send(a)
  /\ UNCHANGED <<place, connected, held, lastTag, status, faultVars>>

\* downloadMinioFile, and the status processing.
Announce(a) ==
  /\ Going(a) /\ attempts[a].stage = "download"
  /\ Stage(a, "encode")
  /\ Publish(a, "processing")
  /\ UNCHANGED <<brokerVars, dataVars, status, faultVars>>

\* ffmpeg and the subtitles.
Encode(a) ==
  /\ Going(a) /\ attempts[a].stage = "encode"
  /\ Stage(a, "upload")
  /\ disk' = [disk EXCEPT ![Node(a)][Video(a)] = a]
  /\ UNCHANGED <<brokerVars, bucket, statusVars, faultVars>>

EncodeFails(a) ==
  /\ Going(a) /\ attempts[a].stage = "encode"
  /\ Publish(a, "failed")
  /\ Return(a, "failed")
  /\ UNCHANGED dataVars

\* One fPutObject of what the directory has now.
Upload(a) ==
  /\ Going(a) /\ attempts[a].stage = "upload"
  /\ attempts[a].put < NumFiles
  /\ disk[Node(a)][Video(a)] # 0
  /\ bucket' = [bucket EXCEPT ![Video(a)][attempts[a].put + 1] =
                   disk[Node(a)][Video(a)]]
  /\ attempts' = [attempts EXCEPT ![a].put = @ + 1]
  /\ UNCHANGED <<brokerVars, disk, statusVars, faultVars>>

UploadFails(a) ==
  /\ Going(a) /\ attempts[a].stage = "upload"
  /\ Return(a, "threw")
  /\ UNCHANGED <<dataVars, outbox>>

\* Mutant: objects that are already in the bucket are not put again.
UploadedOrThere(a) ==
  \A f \in attempts[a].put + 1 .. NumFiles : bucket[Video(a)][f] # 0

Uploaded(a) == attempts[a].put = NumFiles

CleanUp(a) ==
  /\ Going(a) /\ attempts[a].stage = "upload"
  /\ Uploaded(a)
  /\ disk' = [disk EXCEPT ![Node(a)][Video(a)] = 0]
  /\ Publish(a, "done")
  /\ Return(a, "done")
  /\ UNCHANGED bucket

\* The api receives the oldest status of a node.
Receive(n) ==
  /\ outbox[n] # <<>>
  /\ LET e == Head(outbox[n])
     IN status' = [status EXCEPT ![e.video] = [of |-> e.of, st |-> e.st]]
  /\ outbox' = [outbox EXCEPT ![n] = Tail(@)]
  /\ UNCHANGED <<brokerVars, attempts, dataVars, faultVars>>

Work(a) ==
  \/ Announce(a) \/ Encode(a) \/ EncodeFails(a)
  \/ Upload(a) \/ UploadFails(a) \/ CleanUp(a)

Next ==
  \/ \E n \in Nodes :
       \/ \E v \in Videos : Deliver(n, v)
       \/ Settle(n) \/ LoseChannel(n) \/ Reconnect(n) \/ Exit(n)
       \/ Receive(n)
  \/ \E a \in AttemptIds : Work(a)

Spec == Init /\ [][Next]_vars

Progress ==
  \/ \E n \in Nodes : Settle(n) \/ \E v \in Videos : Deliver(n, v)
  \/ \E a \in AttemptIds : Work(a)

\* The broker delivers and reads, and attempts go on, as long as any of that is
\* left to do.  A node that exited or lost its channel need not come back.
FairSpec == Spec /\ WF_vars(Progress)

----------------------------------------------------------------------------
(* Properties.                                                             *)

\* The type invariant; a channel holds an attempt of its own node, and nothing
\* is on its way to the broker without a channel.
TypeOK ==
  /\ place \in [Videos -> {"ready", "unacked", "acked", "dead"}]
  /\ Len(attempts) <= MaxAttempts
  /\ \A a \in Started :
       attempts[a] \in [node : Nodes, video : Videos, tag : AttemptIds,
                        stage : Stages, put : 0 .. NumFiles]
  /\ alive \subseteq Nodes /\ connected \subseteq alive
  /\ \A n \in Nodes : /\ held[n] # 0 => n \in connected /\ Node(held[n]) = n
                      /\ wire[n] \in Seq(Started)
                      /\ wire[n] # <<>> => n \in connected
  /\ disk \in [Nodes -> [Videos -> {0} \cup Started]]
  /\ bucket \in [Videos -> [Files -> {0} \cup Started]]
  /\ \A v \in Videos : status[v].of \in {0} \cup Started
  /\ lost \in Nat /\ exits \in Nat /\ lost + exits <= MaxTroubles

\* As long as no node lost its channel, two nodes never work on one video:
\* whatever exits, a job is handed on and not shared.
OneNodePerJob ==
  lost = 0 =>
    \A a, b \in Started : Going(a) /\ Going(b) /\ Video(a) = Video(b) => a = b

\* As long as no node lost its channel, a video that was acknowledged as done is
\* served from one encode: what an earlier attempt of another node had put is
\* replaced, down to the last file.
ServedFromOneEncode ==
  lost = 0 =>
    \A v \in Videos :
      place[v] = "acked" =>
        \E a \in Started :
          /\ Video(a) = v
          /\ \A b \in Started : Video(b) = v => b <= a
          /\ attempts[a].stage = "done" => bucket[v] = [f \in Files |-> a]

\* As long as no node lost its channel, the api never receives a status of an
\* attempt after one of a later attempt, although the nodes do not wait for
\* each other's statuses.
StatusesInOrder ==
  [][lost' = 0 => \A v \in Videos : status'[v].of >= status[v].of]_vars

\* Every job is carried to its end by some node, also when the one that had it
\* never comes back, unless there is a moment when no node has a channel.
JobsAreTakenOver ==
  \A v \in Videos :
    <>(\/ connected = {}
       \/ \E a \in Started : Video(a) = v /\ attempts[a].stage \in Outcomes)
=============================================================================
