# A verification project for the streamy process node

The process node is a worker: it takes video jobs and live jobs from RabbitMQ,
runs ffmpeg on them, puts what ffmpeg writes into the `hls` bucket of an object
store, and tells the api app how each job ended. This directory holds TLA+
models of its stateful parts, TLC runs that check them on small instances, and
TLAPS proofs of the main results for every value of the constants.

Paths below are relative to `src/` of the repository, so `src/queue/...` is
`src/src/queue/...` from the root of this project.

## 1. The system

### Components, their state and their operations

| Component | State | Operations | What makes it correct |
| --- | --- | --- | --- |
| `ConsumerService` (`queue/consumer.service.ts`) | the listeners; the channel wrapper; (at the broker) which deliveries are not settled | `listenOnQueue`, the setup that runs again on every reconnect, `handleMessage` with ack and nack | a message is settled because of its own callback; one job of a queue at a time; every message is settled in the end |
| `ProducerService` (`queue/producer.service.ts`) | the wrapper's buffer of unconfirmed publishes | declare the dead letter exchange and queues, `addToQueue` | statuses reach the api in the order they were published, until a lost connection makes the wrapper publish some again; a nacked message has a dead letter queue to go to |
| `VideoService` (`video/video.service.ts`) | `activeJob`; a working directory per video | `processVideoCallback`: download, transcode, subtitles, upload, remove, statuses | a video reported as done is playable; every job is reported exactly once or dead-lettered |
| `VideoProcessService` (`video/video-process.service.ts`) | the encoder plan | `processVideo`, `processSubtitle`, `processLiveVideo`, `run` | resolves or rejects once per ffmpeg process |
| `LiveService`, `LiveUploader` (`live/`) | the interval timer, the `ticking` flag, `uploaded`, `lastSizes`; a working directory per stream | `processLiveCallback`, `tick`, `flush` | a finished broadcast is a complete replay; viewers never lose segments; every job answers |
| `MinioClientService` (`minio-client/minio-client.service.ts`) | the buckets and their policies (at the store) | `onModuleInit`, `bootstrapBuckets`, `isAvailable` | the app comes up with every bucket, and survives up to two blips and the race with the api |
| Encoder detection (`video/encoder-plan.ts`) | the candidates not yet tried | `detectEncoderPlan` | a plan is chosen only if it encodes; a live job has the best one; a probe that hangs does not stop the boot |
| Argument builders (`video/ffmpeg-args.ts`) | none | `buildVodArgs`, `buildSubtitleArgs`, `buildLiveArgs` | pure |
| `HealthController`, `DeadLetterService` | none | `liveness`, `readiness`, `count` | readiness shows the job in flight |
| Bootstrap (`main.ts`, `app.module.ts`) | how far the boot is | the hooks of the modules in order, `app.listen`, exit on an unhandled rejection | no job is taken before the buckets exist; the boot ends |
| Several nodes | a disk, a channel and a producer each | | one node per job; a video is served from one encode; statuses of two nodes are in order; the job of a node that died is done by another |

The parts interact by calls (the services register callbacks with the
consumer, and call the producer, ffmpeg and the store), by shared disk (ffmpeg,
ticks, flushes and successive runs of one job share a directory), by shared
objects (all of those and the viewers share the bucket) and by messages
(RabbitMQ, to and from the api).

### The hard behaviours

* A lost connection does not stop the callback whose delivery was on it. The
  broker delivers the message again, and two callbacks of one job run in the
  same directory. When the old one ends, its ack carries a tag of a channel that
  is gone, on a channel that counts its own tags.
* Acks, nacks and statuses are not confirmed to the code. The process may exit
  between any two awaits. The producer has a connection of its own; when that is
  lost, the statuses that were not confirmed are published again, although the
  api may have them.
* Several steps of a job may fail, and they are answered in different ways: some
  failures are published and the message acked, some are thrown and the message
  dead-lettered, some are only logged.
* A live job is four actors on one directory: ffmpeg, the ticks of a timer, the
  flush, and the callback that retries, gives up or cleans up. A process that
  exits in the middle of the clean-up leaves a part of the directory to the
  redelivered job.
* At boot two apps make the same buckets, against a store that may fail calls.
  Jobs arrive while encoders are still being probed.
* The broker may close a channel and keep the connection (a stale tag, or a job
  that takes longer than the delivery acknowledgement timeout). The library
  opens a new channel only with a new connection, so the node then consumes
  nothing, and readiness still shows the broker as connected.
* Any number of nodes work on one queue and one bucket. A job that one of them
  did not settle goes to another, which has nothing of what the first had on
  disk and finds what it had uploaded.

`PROJECT.json` lists each hazard at its line with the properties aimed at it.

## 2. The modules

| Module | Models | Used by |
| --- | --- | --- |
| `JobConsumer` | the consumer, with the broker as the code sees it | `MCJobConsumer`, `VideoJob`, `JobConsumerProofs` |
| `VideoJob` | the VOD job; EXTENDS `JobConsumer` and runs on its deliveries | `MCVideoJob`, `VideoJobProofs` |
| `StatusFeed` | abstract: the statuses of videos, as the api may rely on them | `VideoJob`, which implements it |
| `NodePool` | several nodes on one queue and one bucket | `MCNodePool`, `NodePoolProofs` |
| `LiveUpload` | one live job | itself (its constants are bounds), `LiveUploadProofs` |
| `BucketBootstrap` | the bucket bootstrap | `NodeBoot`, `BucketBootstrapProofs` |
| `NodeBoot` | the boot of a node: EXTENDS `BucketBootstrap` by the hooks, the encoder probes and the first jobs | itself (its constants are bounds), `NodeBootProofs` |
| `MCJobConsumer`, `MCVideoJob`, `MCNodePool` | instances for TLC | the runs |
| `JobConsumerProofs` | theorems about `JobConsumer` | `VideoJobProofs` |
| `VideoJobProofs`, `VideoReportProofs`, `VideoPlayableProofs` | theorems about `VideoJob`: deliveries and types, statuses, output; each EXTENDS the one before | |
| `NodePoolProofs`, `LiveUploadProofs` | theorems about `NodePool` and `LiveUpload` | |
| `BucketBootstrapProofs` | theorems about `BucketBootstrap` | `NodeBootProofs` |
| `NodeBootProofs` | theorems about `NodeBoot` | |

Operators whose comment begins with "Mutant:" are not part of a model: each is a
plausible bug of an operator that follows it, and the property it is listed with
in `PROJECT.json` is violated when it takes that operator's place.

### JobConsumer

A *run* is one execution of `handleMessage`; `run[d]` is the run started by
delivery `d`, and records the message and the tag it came with. `unacked` is
what the broker awaits on the open channel, `wire` the acks and nacks it has not
read yet, `place` where it keeps each message.

| Action | Code |
| --- | --- |
| `ListenOnQueue` | `listenOnQueue` |
| `OpenChannel`, `Reconnect` | the setup callback, on the first connection and on each later one; tags start over |
| `HandleMessage` | a delivery and the start of `handleMessage` |
| `AckMessage`, `NackMessage` | its two ends, ack in the `try` and nack in the `catch` |
| `BindDeadLetters` | the setup of `ProducerService` |
| `BrokerSettles` | the broker reads an ack or nack: it settles the delivery that the tag names on the *open* channel, or, if it names none, closes the channel |
| `DeliveryTimesOut` | the broker closes the channel of a delivery that is not settled for too long |
| `Disconnect`, `Crash` | the connection, or the process, is lost; what was not settled becomes ready again |

`reconnects` counts channels that were replaced under a live process. Three
properties are conditional on it, because the code does not keep them after
that: `consumer_stale_tag` shows how. `Stalled` is a connection whose channel is
gone; only a lost connection is followed by a new channel.

### VideoJob

Each run has a program counter over the awaits of `processVideoCallback`; two
runs of one video interleave at that grain. Files are abstracted to "media",
"master" and one file per subtitle, each missing, partly written or whole; the
master playlist also has the set of subtitles it lists. Two ffmpeg processes
writing the same output leave it in parts. The last part of a callback, the
`finally` and the ack run in one turn of the event loop and are one action.

| Action | Code |
| --- | --- |
| `StartJob`, `RejectMalformed` | the delivery; `JSON.parse` throws |
| `Download` | `downloadMinioFile`, which swallows its errors, and the processing status |
| `Probe`, `Transcode` | ffprobe, and ffmpeg from its start to its exit |
| `Subtitle`, `CorrectSub`, `ReadMaster`, `WriteMaster` | one turn of the loop over the subtitles; writes may fail, and that is only logged |
| `Fail` | both `catch` blocks: publish, return, ack |
| `ListFiles`, `UploadFile` | `moveFilesToMinio` |
| `UploadFails` | an exception nobody catches: nack, no status |
| `Unlink` | one file that `removeDirectory` takes away |
| `CleanUp` | the directory and the source are gone: the done status, ack |
| `DeliverStatus` | the api has the oldest status, and the broker's confirmation arrives |
| `ReceiveUnconfirmed` | the api has the next status, and its confirmation is lost with the producer's connection |
| `ProducerReconnects` | the wrapper has a connection again and publishes what is unconfirmed |
| `Restart` | `Crash`, and everything in memory is gone |

`addToQueue` leaves delivery to the wrapper of `amqp-connection-manager`, which
keeps a message until it is confirmed. When the connection is lost it has sent
the oldest `k` messages of its buffer, of which the api may have any prefix, and
it sends them again. That it sends them before those it had not sent yet is no
promise the code could rely on: `Requeued(k)` puts them behind, and with `k` the
whole buffer the order stays as it was. Both are checked.

Languages are listed in the master playlist under their names (`NameOf`, from
`RFC5646_LANGUAGE_TAGS`), so a subtitle replaces one of the same name.

### StatusFeed

The other end of `q.set.video.status`, without queues, runs or files: an attempt
at a video announces itself, ends with one status or silently, and what it
published is received in order, received and published again (`PublishAgain`, in
the old order or behind what was not sent yet), or lost with the process. As long
as no consumer lost its channel and no process exited a video is announced once.
`VideoJob` maps its state by

    open      the runs past the download that have not returned
    pipe      the producer's buffer
    seen      the status the api has
    again     how many statuses of the buffer it has without a confirmation
    troubled  a consumer lost its channel, or a process exited

and the runs check that each of its steps is a step of `StatusFeed` or a
stutter: so, among others, that a status is never dropped or made up by a live
process, and that a video that was reported as done or failed is not announced
again, except by another attempt after such a loss. The api may still *see*
processing after done when the producer's connection was lost; `EndIsFinal`
says that this is the only other way.

### LiveUpload

`pc` is where the callback is. ffmpeg grows and rotates segments (`Grow`,
`Rotate`) and ends (`PullEnds`, `PullFails`). A put is two steps: it carries the
file as it was when it was read, and replaces the object when it lands. The removal
takes the files away one by one (`Unlink`), and `Remove` or `RemoveAnyway`
publishes the status when none is left; `AckRead` is the ack reaching the broker.
Until then the process may exit (`Crash`), and the job starts over in what is
left of the directory, with the bucket as it is. A tick
is a loop of looks and puts over the directory it listed, so is a flush. The
history variables `recording` (the directory when ffmpeg ended for good) and
`lateTick` (a tick was under way when the timer was cleared) serve the
properties only. One rendition stands for the three; its playlist stands for
the master playlist too. The size a tick sees and the content it then puts are
read in one step: what lies between them is a segment that grew, which a tick
that finds a stalled segment already gives.

### BucketBootstrap

One action per call to the store, each with a failing twin; a failed creation or
policy may have had its effect. The api makes missing buckets and sets their
policies at any time, which is all the comment in `bootstrapBuckets` says of it.
At the start any set of buckets exists, and of these any may have no policy: the
api may be about to set it (`apiTurn`), or an earlier boot left it out (`bare`).
A bare bucket stays bare, since `bootstrapBuckets` passes over what exists, and
`ReadyIsPublic` is about the buckets that are not.

### NodeBoot

Nest starts the hooks module by module, imported modules first, and those of one
module together: first the buckets, then `VideoService.onModuleInit` and
`VideoProcessService.onModuleInit` side by side, then `LiveService.onModuleInit`.
That order is Nest's and is modelled from the imports of the modules.

| Action | Code |
| --- | --- |
| `Storage` | a step of `BucketBootstrap` |
| `VideoHooksStart`, `LiveHooksStart`, `HttpUp` | the hooks before have returned |
| `ListenForVod`, `ListenForLive` | `listenOnQueue` of the two services |
| `ProbeEncodes`, `ProbeFails`, `ProbeTimesOut`, `FallBack` | the loop of `detectEncoderPlan` |
| `JobArrives`, `FfmpegStarts`, `JobEnds` | a job, which reads the plan when it starts ffmpeg |
| `ProbeHangs`, `DriverChanges` | the machine |

### NodePool

The steps of a VOD job in one node are those of `VideoJob`; here an attempt is
five coarser ones, and what is shown is what nodes share. `disk` and `bucket`
hold the number of the attempt that wrote them, so that two encodes of one video
can be told apart. An ack goes to the channel its node has by then, as in
`JobConsumer`. `LoseChannel` is a consumer's channel that is gone, with its
connection or by the broker's limit on the time to an ack. A process that is
started again counts as one more node.

## 3. The runs

| Run | Instance | What it shows |
| --- | --- | --- |
| `consumer_safety` | 3 messages on 2 queues, one not JSON; 5 deliveries, 1 disconnect, 1 crash | type, `SettledByOwnRun`, `OneAtATime`, `CompletedOnce`, `SettlementsBacked` |
| `consumer_live` | 1 message per queue, 7 deliveries, 1 disconnect | `ConsumeEverything` |
| `consumer_stale_tag` | 1 disconnect | finding: an acknowledged message that threw |
| `video_safety` | a video with 3 subtitles of which 2 share a name, and a message that is not JSON; 3 deliveries, 1 crash, 1 failed playlist write, 1 loss of the producer's connection | type, `DoneIsPlayable`, `AckedIsReported`, `DeadIsUnreported`, `ActiveJobIsInFlight`, `EndIsFinal`, `ImplementsFeed` |
| `video_live` | a message that is not JSON and 2 videos; 4 deliveries, 1 disconnect | `EveryJobEnds`, and `ImplementsFeed` over replaced channels |
| `video_report` | 1 crash | finding: an acknowledged job without a status |
| `live_upload` | 2 segments of 2 sizes, 1 failing put or removal | type, `ReplayIntact`, `PartialIntact`, `PlaylistOnlyGrows`, `JobAnswers`; `ListedArrives`: what a viewer's playlist lists gets there |
| `live_restart` | 2 segments, 1 fault, 1 crash | `ReplayIntact` and `PartialIntact` over the leftovers of a process that exited at any point before the ack, in the removal too |
| `live_replay` | 2 segments, no fault at all | finding: a late tick undoes the final flush |
| `node_boot` | 2 buckets, any of them made before, with or without a policy, 3 failing calls; every override, every set of working encoders, 1 probe that hangs, 1 change of the machine | the properties of `BucketBootstrap`; type, `JobsMeetBuckets`, `EncoderWorks`, `LiveHasBest`, `NodeComesUp` |
| `node_pool` | 2 nodes, 2 videos of 2 files, 3 attempts, 1 lost channel or exit | type, `OneNodePerJob`, `ServedFromOneEncode`, `StatusesInOrder`, `JobsAreTakenOver` |
| `bucket_policy` | 1 failing call | finding: a bucket without its policy |

### The bounds

* **Deliveries.** With one crash and two messages, three deliveries are all there
  can be: prefetch leaves one delivery to repeat. Five for `consumer_safety` is
  one for each message and two for what one disconnect and one crash repeat, on
  two queues; the stale tags and the interleaving of an old and a new run are
  in it. In `consumer_live` each stale ack may close the channel and cause
  another delivery; seven is where the bound stops binding (eight gives the same
  states), so `ConsumeEverything` does not hold because deliveries ran out. In
  `video_live` four are one for each message and the one that repeats after the
  disconnect. A stale ack that closes the channel once more may ask for a fifth;
  a job that still waits on its queue by then is `CutOff`, and promised nothing.
* **Messages and queues.** Two messages of one queue show order, prefetch and
  stale tags within a queue, the third shows tags that name the other queue's
  delivery.
  In `video_live` the message that is not JSON comes first: it moves the tags on,
  so that after the reconnect the tag of the old run of the second message is
  the one of the third.
* **The producer's connection.** It is lost once, with any number of statuses
  sent and any number of these received; what is published again may find
  announcements and ends of both sides of it in the buffer.
* **Subtitles.** Three, listed as xa, en, xb where xa and xb share a name: one
  that stays and one that is replaced, with a third in between.
* **Segments and sizes.** Two segments are the least for which a playlist can go
  back; two sizes let a segment be stable at two ticks and grow after that.
* **Ticks.** There are two slots for ticks; the `ticking` flag keeps the second
  free, which is part of the type invariant and not assumed.
* **Blips and buckets.** Three blips end the app. Two buckets show the loop; the
  proofs do not bound them.
* **Probes.** One that hangs may be any of the three; one change of the machine
  may come at any time, and is what the excuses in the properties are about.
* **Nodes.** Two nodes are the least that share a bucket, two videos the least
  for which a stale tag may name another job, two files the least that may come
  from two encodes. Three attempts are one per video and the one that repeats
  after the one trouble there may be, a lost channel or an exit. After a lost
  channel a stale tag may ask for a fourth; the bound cuts that, where the
  safety properties promise nothing, and `JobsAreTakenOver` holds by then.

Deadlock is checked for `LiveUpload`, where only a job that is over may stop. In
the other models a bounded instance really stops when all messages are
settled, the deliveries are used up or the app is up.

### Fairness, and why the code justifies it

* `Reconnect`: `amqp-connection-manager` reconnects for ever, which is a property
  of the library, relied on and not shown. It does so when the *connection* is
  lost. Nothing brings back a channel that the broker closed, so
  `ConsumeEverything` and `EveryJobEnds` are promised only for behaviours that
  are not `Stalled` for ever. Only a lost connection or a new process ends that
  state.
* `ListenOnQueue`: `onModuleInit` of each service runs at boot.
* `HandleMessage`, `BrokerSettles`, `DeliverStatus`: the broker delivers to a
  consumer with room and reads what it is sent.
* in `VideoJob` a single weak fairness over all of `GoesOn` (the broker, the
  runs, the producer, and the wrapper while it has statuses to publish again),
  which is weaker than one for each: something goes on as long as something can.
* the ends of a run, in `VideoJob` its steps: ffmpeg works on finite
  input, and calls to the store return or fail. The node puts no timeout of its
  own on a VOD job, so a hung ffmpeg is outside of what is claimed.
* in `LiveUpload` the callback, each tick, and the end of ffmpeg: `-rw_timeout`
  makes it exit when the source stalls. A broadcast is assumed to end.
  Nothing is assumed of the timer: ticks may never fire.
* in `NodeBoot` the bootstrap, the hooks and the probes: calls to the store
  return or fail, and a probe ends or is killed. A probe that hangs is not asked
  to end.
* in `NodePool` the broker and the attempts together, and never `Reconnect` or a
  new process: a job is taken over by the nodes that are left, and
  `JobsAreTakenOver` has an excuse for when none is.
* Disconnects, crashes, faults, timeouts and the api are never fair. `BindDeadLetters` is
  not either: the theorems and runs treat a dropped message like a dead one.

All fairness is weak.

### Findings

1. **Stale tags** (`queue/consumer.service.ts:77`). After a reconnect, an old
   run's ack may settle another job, whose own failure is then not dead-lettered.
   For a video whose upload fails that means a status of processing for good.
2. **A lost outcome** (`video/video.service.ts:85`). Statuses are not awaited, so
   an acknowledged failure may never be reported.
3. **A late tick** (`live/live.service.ts:85`). Clearing the timer does not wait
   for the tick under way; its put may land after the final one.
4. **A missing policy** (`minio-client/minio-client.service.ts:32`). A retried
   boot does not set the policy of a bucket that the attempt before had made, and
   no later boot does.

What remains true is stated by properties that name the condition each finding
needs, and hold without it:

* `SettledByOwnRun`, as long as no channel was replaced; and `EveryJobEnds`,
  which over replaced channels has finding 1 as its one excuse (`Masked`: the
  message was settled by an old run's ack and its own run then threw). Live jobs
  are consumed on the same channel, so their acks, too, may be the stale ones.
* `AckedIsReported`, unless the process exited, a channel was replaced, or the
  producer's connection was lost and the statuses after it came in another order.
* `ReplayIntact`, unless a tick was under way when the timer was cleared.
* `ReadyIsPublic`: a boot without a failing call leaves no bucket without its
  policy that was not without one before.

## 4. The proofs

Every safety invariant, every action property and every refinement that a
passing run checks is also a theorem, for every value of the constants. The
theorems are listed in `PROJECT.json` with the property each of them states.

### Assumptions

They are those on the constants, named in the modules: messages are positive
numbers and `QueueOf` maps them to queues; malformed messages are messages; in
`VideoJob` all messages are on one queue, which is the code's
`q.video.process`, subtitles are a sequence per message and are not named like
the playlists; the videos of `NodePool` are positive numbers and have at least
one file; a live job has at least one segment and one size; bounds are natural
numbers; there is at least one bucket. None bounds the number of messages,
queues, deliveries, subtitles, segments, nodes, buckets or failures. The theorems
are about the specifications without fairness.

### JobConsumerProofs

None of the delivery properties is inductive: that a tag names the right
delivery follows from how tags are handed out on this channel, and that two
jobs of one queue do not run together from what awaits a settlement.
`DeliveryInv` adds these links: deliveries not yet made are unused; a pending
delivery's message is `unacked` and its tag is its own; nothing is delivered
before a channel was opened; as long as no channel was replaced under a live
process every run that is going on is pending, and whatever is on the wire is a
pending delivery of a finished run, once; and the books of a process without
failures. `ConsumerInvariance` proves it inductive. From it follow
`ConsumerTyping`, `OwnSettlement`, `SerialJobs` and `NoRepeatedJob`.

`DeliveredOnce` adds that in a process on its first channel no message has two
runs, also when the connection went away meanwhile; the statuses need that.

`BackedSettlements` is an argument about cardinalities, and holds over stale
tags: each settled message has cost the ack or nack of a finished run that is
no longer on the wire. The invariant (`LedgerInv`) compares the settled messages
with the finished runs that are off the wire (`Spent`). It needs that no run is
on the wire twice, but not that a settlement reaches its own message.

### VideoJobProofs, VideoReportProofs, VideoPlayableProofs

`VideoImplementsConsumer` proves `VideoSpec => ConsumerSpec`: each step of the
VOD job is a step of the delivery protocol or leaves its variables alone. So
the consumer is the abstract specification of the VOD job's deliveries, and
`VideoDelivery` carries `DeliveryInv` over. On that rest

* `VideoTyping`, the type invariant, inductive once `DeliveryInv` says that a
  run's message is one;
* `ShownJobIsInFlight`: by `SerialJobs` on a single queue at most one run goes
  on (`OneRunning`), and each end of it clears `activeJob`;
* `ReportInvariance`: who spoke of a video is a run of it past the announcement,
  and its end was told only by a run of it that resolved. As long as no status
  was published again, each run that resolved has told one, and an end is the
  last word of the video (`ToldOnce`). With `DeliveredOnce` it gives
  `AckIsReported`, `DeadIsSilent` and `OneEnd`; the second needs only the first
  half, so it holds over repeats too (`RequeuedStep`: what is published again was
  said before);
* `FeedImplemented`: `VideoSpec => Feed!FeedSpec`, the producer's lost
  connections included. Most steps are stutters of the feed, and
  `ProducerReconnects` is its `PublishAgain` with the same `k`. A second run may
  announce a video only after a failure: without one `ReportInv` has nothing said
  of the video, and no other run of it is open;
* `PlayInvariance`, from which `DoneCanBePlayed` follows. Its conditions are
  those of the property, no channel replaced and no failed write. Then a run
  past the transcode has a source, whole variants and a master playlist that
  lists the subtitles covered so far, and these subtitles are whole except the
  one being rewritten (`EncodeHolds`). At the upload all that the bucket may
  lack is still to be put (`UploadHolds`), and the directory is whole until nothing
  is left to put: the files that `Unlink` takes are needed no more. A crash may
  leave anything in the directory and half of an upload in the bucket. The invariant says nothing of
  them, because a run that begins overwrites what it needs, and a second upload
  puts the same over the first. `ListGrows` is the lemma about `addSubToMaster`:
  whether a subtitle takes the place of another language with its name or of
  the same language again, the list is what a player needs of the subtitles so
  far.

### NodePoolProofs

`OneNodePerJob` is not inductive: a delivery does not look at other nodes. The
invariant (`PoolInv`) says that statuses come from the attempt and node that
published them; and, while no channel was lost, that a live node has its
channel, that what runs on it is what the channel holds (`ChannelsKept`), and
that a video on the queue has no attempt on a live node (`AttemptsHandedOn`).
With `OwnFiles`, that an attempt uploads what it encoded and the bucket holds
what it put until a later attempt is delivered, it gives `NodesDoNotShare`,
`BucketHasOneEncode` and `ApiHearsInOrder`. The last is about two nodes with
a buffer each: an earlier attempt's node is dead, and its statuses with it, by
the time the job is handed on.

### LiveUploadProofs

`ReplayIntact` depends on who may still write the bucket after the pull. The
invariant (`LiveInv`) says that the timer is cleared from the flush on and that
without a late tick no tick runs then (`Stopped`); that there is one tick at a
time (`OneTick`); that what is not on the flush's list any more is in the bucket
as it is on disk (`FlushGoesOn`), which `Flushed` carries to the end of the job;
and for `PlaylistOnlyGrows` that the playlist in the bucket is behind the one a
tick is putting, and that one behind the directory's (`PlaylistAhead`).
For `PartialIntact` an exit may come in the middle of a removal, and the next
pull finds a playlist without its segments. `ListedKept` says that every
playlist there is, on disk, in the bucket or being put, lists only segments that
are on disk or in the bucket: before the removal the flush has put all of them
(`Flushed`), and nothing is ever removed from the bucket.
`DoneIsReplay`, `FailedIsPartial` and `ViewersLoseNothing` follow, for any number
of segments, sizes, faults and crashes.

### BucketBootstrapProofs and NodeBootProofs

`BootInv` says that the buckets the loop has passed exist; that before the first
blip a bucket without its policy is the one at hand, one the api is at, or one
that an earlier boot left bare; and that attempts given up were
paid for by blips, one that is about to be given up included. It gives
`BootTyping`, `BootLeavesAllBuckets`, `BootLeavesNoPolicyOut` and
`BootToleratesBlips`, for any number of buckets and failing calls.

`NodeImplementsBoot` proves that the boot of a node is such a bootstrap, so all
of these hold of the node. `NodeInv` adds the order of the hooks, that a plan
was chosen because it encoded, and that no better candidate works. It gives
`NodeTypes`, `JobsHaveBuckets` (which needs both the order of the hooks and
`BootLeavesAllBuckets`), `StartedEncoderWorks` and `LiveJobHasBest`.

### Only model-checked

* The liveness properties `ConsumeEverything`, `EveryJobEnds`, `ListedArrives`,
  `JobAnswers`, `NodeComesUp` and `JobsAreTakenOver`: liveness under fairness
  and ENABLED are beyond this prover.
* The findings: a theorem shows what holds, and a counterexample is TLC's.

Each inductive invariant was checked by TLC on the instances of section 3 before
it was proved. `PlayInv` was checked with a language that occurs twice, too.

## 5. What is not modelled

* Several live jobs at once: `prefetch: 1` keeps a node at one, and after a
  reconnect two may overlap as `VideoJob` shows for VOD jobs. The deliveries of
  live jobs are those of `JobConsumer`; `LiveUpload` starts where the callback
  does, and its `Crash` is a redelivery.
* Live jobs on several nodes: `NodePool` has VOD jobs only. A live job that is
  redelivered pulls the same stream again, which `live_restart` shows for one
  node. The statuses of a live job that was redelivered are those of its last
  attempt: an earlier one may have published its own before the process exited.
* A put that a process had sent when it exited and that lands after the next one
  began, and the ack of a live job that is lost with the connection while the
  process goes on.
* Statuses published again by a producer in `NodePool`: there each arrives once,
  and `StatusesInOrder` says nothing of producers that lost their connection.
* The text of playlists: cutting at the end tag, and parsing and printing the
  master playlist, are modelled by what they do to a well-formed file. A file
  without its end tag takes two ffmpeg processes in one directory.
* An ffmpeg that outlives the node. In the container of the repository it ends
  with its parent; the crashes of the models take it with them.
* The log of ffmpeg, which `run` keeps in memory and a failure status carries,
  and the arguments of ffmpeg beyond what they make it write.
* The http surface, configuration, logging and the api app: they keep no state
  of the jobs. Of the api only the two things the node relies on are modelled.
* Rejected publishes are not told apart from other exits of the process:
  `addToQueue` throws, nobody awaits it, and `main.ts` exits.
* Disk space, and the directories that failed jobs leave behind.

## 6. The plan

Done: the delivery side, the VOD job on top of it and what the api may rely on,
several nodes, the live job, the boot; the theorems of section 4, which cover
all that the passing runs check except liveness. What is worth adding:

1. `NodePool` from `VideoJob`: that a node of the pool makes the steps of a VOD
   job is now a matter of reading the two side by side. A mapping of one node's
   variables from the detailed steps to the coarse ones would make it a theorem.
2. An abstract replay of which `LiveUpload` is an implementation: a playlist that
   grows and then is final, as viewers see it.
3. Producers of `NodePool` that lose their connection, with what then remains of
   `StatusesInOrder`.
4. Consequences of `StatusFeed` for the api alone, such as that without trouble
   what it receives of a video is a prefix of processing and one end.

## 7. Running it

In this directory, for a run of `PROJECT.json`:

    tlc -workers 2 -config VideoJob.cfg MCVideoJob.tla

and for the proofs:

    tlapm JobConsumerProofs.tla
