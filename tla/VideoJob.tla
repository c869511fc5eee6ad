------------------------------ MODULE VideoJob ------------------------------
(***************************************************************************)
(* VideoService (src/src/video/video.service.ts) on top of the delivery    *)
(* side modelled by JobConsumer: what the callback of q.video.process does *)
(* between the delivery of a job and its ack or nack.                      *)
(*                                                                         *)
(* Each run walks through processVideoCallback one await at a time:        *)
(*                                                                         *)
(*   download -> probe -> transcode -> (subtitle -> correct -> read ->     *)
(*   write) per subtitle -> list -> upload -> clean up                     *)
(*                                                                         *)
(* The runs of one video share its working directory, named by the video's *)
(* id, and its place in the hls bucket.  Statuses are handed to the        *)
(* producer and NOT awaited: they wait in its buffer until the broker      *)
(* confirms them, and die with the process.  When the producer's           *)
(* connection is lost its wrapper publishes again what is unconfirmed,     *)
(* before or after what was published meanwhile: the api may get a status  *)
(* twice, and an older one after a newer one.                              *)
(*                                                                         *)
(* Every message is a video job; its number is the video's id.             *)
(***************************************************************************)
EXTENDS JobConsumer, SequencesExt

CONSTANTS
  Subs,       \* languages a subtitle may have
  SubsOf,     \* the subtitles of each message, in the order of the message
  NameOf,     \* the name of each language in RFC5646_LANGUAGE_TAGS; tags that
              \* are not in that table share one name, undefined
  MaxFaults,  \* bound: writes of a playlist that fail
  MaxRepeats  \* bound: losses of the producer's connection that leave
              \* statuses unconfirmed

\* Every message is a video job, and all of them are on q.video.process.
ASSUME OneQueueAssumption == \A m, n \in Messages : QueueOf[m] = QueueOf[n]
ASSUME SubsOfAssumption == SubsOf \in [Messages -> Seq(Subs)]
ASSUME NameOfAssumption == NameOf = [l \in Subs |-> NameOf[l]]
ASSUME SubsAreNoPlaylists == Subs \cap {"media", "master"} = {}
ASSUME FaultsAssumption == MaxFaults \in Nat
ASSUME RepeatsAssumption == MaxRepeats \in Nat

VARIABLES
  job,        \* where each run is in processVideoCallback
  dir,        \* the working directory of each video
  store,      \* the objects of each video in the hls bucket
  activeJob,  \* VideoService.activeJob, shown by the health endpoint
  outbox,     \* statuses the producer has not got confirmed yet, in order
  status,     \* the last status the api received for each video
  faults,     \* playlist writes that failed and were only logged
  unconfirmed,  \* how many of the oldest statuses of outbox the api has,
                \* while the connection that should confirm them is lost
  repeats     \* losses of the producer's connection that left statuses
              \* unconfirmed, to be published again

videoVars == <<job, dir, store, activeJob, outbox, status, faults,
               unconfirmed, repeats>>

\* What only the producer's connection changes.
linkVars == <<unconfirmed, repeats>>
vars == <<consumerVars, videoVars>>

----------------------------------------------------------------------------

\* "media" stands for the variants' playlists and segments, "master" for
\* master.m3u8, and a language for the sub_vtt_ files of its subtitle.
Files == {"media", "master"} \cup Subs

\* A file is missing, partly written or spoiled, or what it should be.
Contents == {"none", "part", "whole"}

\* A master playlist lists subtitles next to the variants.
NoFiles == [file |-> [f \in Files |-> "none"], listed |-> {}]
EmptyDir == [source |-> FALSE, out |-> NoFiles]

Terminal == {"done", "failed"}
Statuses == {"none", "processing"} \cup Terminal

Steps == {"download", "probe", "transcode", "subtitle", "correct", "read",
          "write", "list", "upload"}

Idle == [pc |-> "idle", sub |-> 0, left |-> {}, seen |-> {}]
Begin(m) == [Idle EXCEPT !.pc = IF m \in Malformed THEN "parse" ELSE "download"]

VideoInit ==
  /\ ConsumerInit
  /\ job = [d \in Deliveries |-> Idle]
  /\ dir = [m \in Messages |-> EmptyDir]
  /\ store = [m \in Messages |-> NoFiles]
  /\ activeJob = 0
  /\ outbox = <<>>
  /\ status = [m \in Messages |-> "none"]
  /\ faults = 0
  /\ unconfirmed = 0
  /\ repeats = 0

Video(d) == run[d].msg
Lang(d) == SubsOf[Video(d)][job[d].sub]
Out(d) == dir[Video(d)].out

\* A run is at a step; an interleaving with another run of the same video is
\* possible only after a reconnect.
At(d, step) == Running(d) /\ job[d].pc = step

\* Another ffmpeg is writing the same files.
Clash(d) ==
  \E e \in Deliveries \ {d} : At(e, "transcode") /\ Video(e) = Video(d)

\* Mutant: the producer sends its newest status first.
PublishFirst(m, st) == outbox' = <<<<m, st>>>> \o outbox

Publish(m, st) == outbox' = Append(outbox, <<m, st>>)

\* Mutant: the catch block only logs the failure.
FailureLogged(d) == d \in Deliveries /\ UNCHANGED outbox

FailurePublished(d) == Publish(Video(d), "failed")

Goto(d, step) == job' = [job EXCEPT ![d].pc = step]

\* After the video, or after a subtitle: the next subtitle of the message, or
\* the upload once there is none left.
NextSub(d) ==
  IF job[d].sub < Len(SubsOf[Video(d)])
    THEN job' = [job EXCEPT ![d].pc = "subtitle", ![d].sub = @ + 1,
                            ![d].seen = {}]
    ELSE job' = [job EXCEPT ![d].pc = "list", ![d].seen = {}]

\* What a run's step leaves alone while the callback goes on.
CallbackGoesOn == UNCHANGED <<consumerVars, activeJob, linkVars>>

----------------------------------------------------------------------------
(* The end of a run.  processVideoCallback clears activeJob in its finally *)
(* and handleMessage settles in the same turn of the event loop.           *)

Return(d) ==
  /\ AckMessage(d)
  /\ activeJob' = 0
  /\ job' = [job EXCEPT ![d] = Idle]

\* Mutant: activeJob is reset after the await and not in a finally.
ThrowWithoutFinally(d) ==
  /\ NackMessage(d)
  /\ job' = [job EXCEPT ![d] = Idle]
  /\ UNCHANGED activeJob

Throw(d) ==
  /\ NackMessage(d)
  /\ activeJob' = 0
  /\ job' = [job EXCEPT ![d] = Idle]

----------------------------------------------------------------------------
(* Actions.                                                                *)

\* A message arrives.  If it parses, the callback notes the job and asks for
\* the source.
StartJob(m) ==
  /\ HandleMessage(m)
  /\ job' = [job EXCEPT ![delivered + 1] = Begin(m)]
  /\ activeJob' = IF m \in Malformed THEN activeJob ELSE m
  /\ UNCHANGED <<dir, store, outbox, status, faults, linkVars>>

\* JSON.parse throws before the callback is called.
RejectMalformed(d) ==
  /\ At(d, "parse")
  /\ NackMessage(d)
  /\ job' = [job EXCEPT ![d] = Idle]
  /\ UNCHANGED <<dir, store, activeJob, outbox, status, faults, linkVars>>

\* downloadMinioFile swallows its errors, so the job goes on either way, and
\* the status is published either way.
Download(d) ==
  /\ At(d, "download")
  /\ \E ok \in BOOLEAN :
       dir' = IF ok THEN [dir EXCEPT ![Video(d)].source = TRUE] ELSE dir
  /\ Publish(Video(d), "processing")
  /\ Goto(d, "probe")
  /\ CallbackGoesOn
  /\ UNCHANGED <<store, status, faults>>

\* ffprobe finds a video stream and ffmpeg starts to write its output over
\* whatever an earlier run left.
Probe(d) ==
  /\ At(d, "probe")
  /\ dir[Video(d)].source
  /\ dir' = [dir EXCEPT ![Video(d)].out.file["media"] = "part",
                        ![Video(d)].out.file["master"] = "part"]
  /\ Goto(d, "transcode")
  /\ CallbackGoesOn
  /\ UNCHANGED <<store, outbox, status, faults>>

\* ffmpeg exits with 0.  If the directory went away meanwhile there is no
\* output; if another ffmpeg writes the same files they are not complete.
Transcode(d) ==
  /\ At(d, "transcode")
  /\ LET written == IF ~dir[Video(d)].source THEN "none"
                    ELSE IF Clash(d) THEN "part" ELSE "whole"
     IN dir' = [dir EXCEPT ![Video(d)].out.file["media"] = written,
                           ![Video(d)].out.file["master"] = written,
                           ![Video(d)].out.listed = {}]
  /\ NextSub(d)
  /\ CallbackGoesOn
  /\ UNCHANGED <<store, outbox, status, faults>>

\* The subtitle is downloaded and ffmpeg segments it next to the video.  The
\* playlist it writes is not yet one a player can use.
Subtitle(d) ==
  /\ At(d, "subtitle")
  /\ dir[Video(d)].source
  /\ dir' = [dir EXCEPT ![Video(d)].out.file[Lang(d)] = "part"]
  /\ Goto(d, "correct")
  /\ CallbackGoesOn
  /\ UNCHANGED <<store, outbox, status, faults>>

\* A write of a playlist fails; the error is logged and nothing else.
WriteFails == faults < MaxFaults /\ faults' = faults + 1

\* correctSubM3U8 cuts the playlist after its end tag.
CorrectSub(d) ==
  /\ At(d, "correct")
  /\ Out(d).file[Lang(d)] # "none"
  /\ \/ /\ dir' = [dir EXCEPT ![Video(d)].out.file[Lang(d)] = "whole"]
        /\ UNCHANGED faults
     \/ WriteFails /\ UNCHANGED dir
  /\ Goto(d, "read")
  /\ CallbackGoesOn
  /\ UNCHANGED <<store, outbox, status>>

\* addSubToMaster reads the master playlist ...
ReadMaster(d) ==
  /\ At(d, "read")
  /\ Out(d).file["master"] # "none"
  /\ job' = [job EXCEPT ![d].pc = "write", ![d].seen = Out(d).listed]
  /\ CallbackGoesOn
  /\ UNCHANGED <<dir, store, outbox, status, faults>>

\* The master playlist lists subtitles by name.
SameName(l, k) == NameOf[l] = NameOf[k]

\* Mutant: the subtitle group starts empty every time.
RelistedAlone(d) == {Lang(d)}

\* ... puts the subtitle in the place of the one with its name ...
Relisted(d) ==
  {l \in job[d].seen : ~SameName(l, Lang(d))} \cup {Lang(d)}

\* ... and writes it back.  A write that fails leaves the file truncated, or
\* nothing at all where the directory is gone.
WriteMaster(d) ==
  /\ At(d, "write")
  /\ \/ /\ dir[Video(d)].source
        /\ dir' = [dir EXCEPT ![Video(d)].out.file["master"] = "whole",
                              ![Video(d)].out.listed = Relisted(d)]
        /\ UNCHANGED faults
     \/ /\ dir[Video(d)].source
        /\ WriteFails
        /\ dir' = [dir EXCEPT ![Video(d)].out.file["master"] = "part"]
     \/ /\ ~dir[Video(d)].source
        /\ UNCHANGED <<dir, faults>>
  /\ NextSub(d)
  /\ CallbackGoesOn
  /\ UNCHANGED <<store, outbox, status>>

\* Mutant: no return after the failure was published.
FailAndGoOn(d) ==
  /\ Running(d)
  /\ job[d].pc \in {"transcode", "subtitle", "correct", "read"}
  /\ FailurePublished(d)
  /\ Goto(d, "list")
  /\ CallbackGoesOn
  /\ UNCHANGED <<dir, store, status, faults>>

\* ffprobe or ffmpeg fails, or a playlist cannot be read: the failure is
\* published, the callback returns and the message is acknowledged.  The
\* working directory stays.
Fail(d) ==
  /\ Running(d)
  /\ job[d].pc \in {"probe", "transcode", "subtitle", "correct", "read"}
  /\ FailurePublished(d)
  /\ Return(d)
  /\ UNCHANGED <<dir, store, status, faults, linkVars>>

\* Which files moveFilesToMinio picks; the source and the redundant segments
\* do not match its prefixes.
Uploadable(f) == f \in Files

\* moveFilesToMinio lists the directory.
ListFiles(d) ==
  /\ At(d, "list")
  /\ dir[Video(d)].source
  /\ job' = [job EXCEPT ![d].pc = "upload",
               ![d].left = {f \in Files : Uploadable(f) /\ Out(d).file[f] # "none"}]
  /\ CallbackGoesOn
  /\ UNCHANGED <<dir, store, outbox, status, faults>>

\* One fPutObject: the object is replaced by the file as it is now.
UploadFile(d, f) ==
  /\ At(d, "upload")
  /\ f \in job[d].left
  /\ Out(d).file[f] # "none"
  /\ store' = [store EXCEPT
                 ![Video(d)].file[f] = Out(d).file[f],
                 ![Video(d)].listed = IF f = "master" THEN Out(d).listed ELSE @]
  /\ job' = [job EXCEPT ![d].left = @ \ {f}]
  /\ CallbackGoesOn
  /\ UNCHANGED <<dir, outbox, status, faults>>

\* Listing, a put or the removal fails: nothing catches it, so the message is
\* nacked and no status is published.
UploadFails(d) ==
  /\ Running(d)
  /\ job[d].pc \in {"list", "upload"}
  /\ Throw(d)
  /\ UNCHANGED <<dir, store, outbox, status, faults, linkVars>>

\* Everything is uploaded: removeDirectory takes the files away one by one, in
\* no particular order.
Unlink(d, f) ==
  /\ At(d, "upload")
  /\ job[d].left = {}
  /\ Out(d).file[f] # "none"
  /\ dir' = [dir EXCEPT ![Video(d)].out.file[f] = "none"]
  /\ CallbackGoesOn
  /\ UNCHANGED <<job, store, outbox, status, faults>>

\* Mutant: done is published before the directory is removed, which may throw.
ReportThenCleanUp(d) ==
  /\ At(d, "upload")
  /\ job[d].left = {}
  /\ Publish(Video(d), "done")
  /\ \/ /\ dir' = [dir EXCEPT ![Video(d)] = EmptyDir]
        /\ Return(d)
     \/ /\ Throw(d)
        /\ UNCHANGED dir
  /\ UNCHANGED <<store, status, faults, linkVars>>

\* The directory goes last, with the source, which no step needs that may not
\* fail anyway.  Then done is published and the message is acknowledged.
CleanUp(d) ==
  /\ At(d, "upload")
  /\ job[d].left = {}
  /\ \A f \in Files : Out(d).file[f] = "none"
  /\ dir' = [dir EXCEPT ![Video(d)] = EmptyDir]
  /\ Publish(Video(d), "done")
  /\ Return(d)
  /\ UNCHANGED <<store, status, faults, linkVars>>

\* The broker confirms the oldest status; the api gets it.
DeliverStatus ==
  /\ outbox # <<>>
  /\ unconfirmed = 0
  /\ LET next == Head(outbox) IN status' = [status EXCEPT ![next[1]] = next[2]]
  /\ outbox' = Tail(outbox)
  /\ UNCHANGED <<job, dir, store, faults>>
  /\ CallbackGoesOn

\* The next status, in the bounded number of cases in which the connection is
\* lost between the status and its confirmation: the api gets it and the
\* producer keeps it.
ReceiveUnconfirmed ==
  /\ unconfirmed < Len(outbox)
  /\ unconfirmed = 0 => repeats < MaxRepeats
  /\ LET next == outbox[unconfirmed + 1]
     IN status' = [status EXCEPT ![next[1]] = next[2]]
  /\ repeats' = IF unconfirmed = 0 THEN repeats + 1 ELSE repeats
  /\ unconfirmed' = unconfirmed + 1
  /\ UNCHANGED <<consumerVars, activeJob, job, dir, store, outbox, faults>>

\* What the wrapper publishes when it has a connection again: the oldest k, which
\* were sent and not confirmed, may find what was not sent yet before them.
Requeued(k) == SubSeq(outbox, k + 1, Len(outbox)) \o SubSeq(outbox, 1, k)

\* Mutant: what was published while there was no connection is dropped.
ReconnectDropsLate ==
  /\ unconfirmed > 0
  /\ unconfirmed' = 0
  /\ outbox' = SubSeq(outbox, 1, unconfirmed)
  /\ UNCHANGED <<consumerVars, activeJob, job, dir, store, status, faults,
                 repeats>>

\* The wrapper of the producer's channel has a connection again and publishes
\* again what is unconfirmed.
ProducerReconnects ==
  /\ \/ unconfirmed > 0 /\ UNCHANGED repeats
     \/ unconfirmed = 0 /\ repeats < MaxRepeats /\ repeats' = repeats + 1
  /\ unconfirmed' = 0
  /\ \E k \in 1 .. Len(outbox) : k >= unconfirmed /\ outbox' = Requeued(k)
  /\ UNCHANGED <<consumerVars, activeJob, job, dir, store, status, faults>>

\* Mutant: jobs outlive the process that ran them.
RestartKeepsJobs ==
  /\ Crash
  /\ activeJob' = 0
  /\ outbox' = <<>>
  /\ unconfirmed' = 0
  /\ UNCHANGED <<job, dir, store, status, faults, repeats>>

\* The process is gone with what was in memory.  main.ts exits on purpose
\* when an un-awaited publish is rejected.  Disk and bucket stay.
Restart ==
  /\ Crash
  /\ job' = [d \in Deliveries |-> Idle]
  /\ activeJob' = 0
  /\ outbox' = <<>>
  /\ unconfirmed' = 0
  /\ UNCHANGED <<dir, store, status, faults, repeats>>

\* Steps of the broker and the wrapper that leave the jobs alone.
Transport ==
  /\ \/ OpenChannel
     \/ BindDeadLetters
     \/ BrokerSettles
     \/ Disconnect
     \/ DeliveryTimesOut
     \/ \E q \in Queues : ListenOnQueue(q)
  /\ UNCHANGED videoVars

\* A step of a run.
Work(d) ==
  \/ RejectMalformed(d)
  \/ Download(d)
  \/ Probe(d)
  \/ Transcode(d)
  \/ Subtitle(d)
  \/ CorrectSub(d)
  \/ ReadMaster(d)
  \/ WriteMaster(d)
  \/ Fail(d)
  \/ ListFiles(d)
  \/ \E f \in Files : UploadFile(d, f)
  \/ UploadFails(d)
  \/ \E f \in Files : Unlink(d, f)
  \/ CleanUp(d)

VideoNext ==
  \/ Transport
  \/ Restart
  \/ DeliverStatus
  \/ ReceiveUnconfirmed
  \/ ProducerReconnects
  \/ \E m \in Messages : StartJob(m)
  \/ \E d \in Deliveries : Work(d)

VideoSpec == VideoInit /\ [][VideoNext]_vars

\* What goes on as long as it can: the connections come back, the broker delivers
\* what it may and reads what it is sent, and the jobs go on, for ffmpeg and the
\* object store answer in the end.
GoesOn ==
  \/ /\ Reconnect \/ BrokerSettles \/ \E q \in Queues : ListenOnQueue(q)
     /\ UNCHANGED videoVars
  \/ \E m \in Messages : StartJob(m)
  \/ \E d \in Deliveries : Work(d)
  \/ DeliverStatus
  \/ unconfirmed > 0 /\ ProducerReconnects

\* One at a time is enough, in any order.
VideoFairness == WF_vars(GoesOn)

FairVideoSpec == VideoSpec /\ VideoFairness

----------------------------------------------------------------------------
(* Properties.                                                             *)

\* The newest of a video's statuses that the producer has not got confirmed.
NewestOf(m, i) ==
  /\ outbox[i][1] = m
  /\ \A j \in i + 1 .. Len(outbox) : outbox[j][1] # m

\* What the api will know of a video once the producer's buffer is empty.
Reported(m) ==
  IF \E i \in 1 .. Len(outbox) : NewestOf(m, i)
    THEN outbox[CHOOSE i \in 1 .. Len(outbox) : NewestOf(m, i)][2]
    ELSE status[m]

Languages(m) == ToSet(SubsOf[m])

\* The languages of a message that no later one with their name displaces:
\* all of them, if the table knows them.
Listable(m) ==
  {l \in Languages(m) :
     \E i \in DOMAIN SubsOf[m] :
       /\ SubsOf[m][i] = l
       /\ \A j \in i + 1 .. Len(SubsOf[m]) : SameName(SubsOf[m][j], l)
                                            => SubsOf[m][j] = l}

\* What a player needs: the variants, the subtitles, and a master playlist
\* that lists one subtitle for each name.
Playable(m) ==
  /\ \A f \in {"media", "master"} \cup Languages(m) : store[m].file[f] = "whole"
  /\ store[m].listed = Listable(m)

Job == [pc : Steps \cup {"idle", "parse"}, sub : Nat, left : SUBSET Files,
        seen : SUBSET Subs]
Output == [file : [Files -> Contents], listed : SUBSET Subs]

\* The type invariant.  A run that is going on is at a step of the callback and
\* no other run is; a subtitle step works on a subtitle of its message.
VideoTypeOK ==
  /\ job \in [Deliveries -> Job]
  /\ \A d \in Deliveries : Running(d) <=> job[d].pc # "idle"
  /\ \A d \in Deliveries :
       job[d].pc \in {"subtitle", "correct", "read", "write"} =>
         job[d].sub \in DOMAIN SubsOf[Video(d)]
  /\ dir \in [Messages -> [source : BOOLEAN, out : Output]]
  /\ store \in [Messages -> Output]
  /\ activeJob \in Messages \cup {0}
  /\ outbox \in Seq(Messages \X Statuses)
  /\ status \in [Messages -> Statuses]
  /\ faults \in 0 .. MaxFaults
  /\ unconfirmed \in 0 .. Len(outbox)
  /\ repeats \in 0 .. MaxRepeats
  /\ unconfirmed > 0 => repeats > 0

\* A video reported as done can be played, with the last of its subtitles for
\* each language name and none of an earlier encode in the list, whatever
\* crashes and earlier attempts left behind, unless a channel was replaced
\* under a live process or a playlist write failed.
DoneIsPlayable ==
  reconnects = 0 /\ faults = 0 =>
    \A m \in Messages : status[m] = "done" => Playable(m)

\* Unless the process exited, a channel was replaced or the producer published
\* again what may then be out of order, an acknowledged job has told the api how
\* it ended, or is about to: no video stays in processing behind an ack.
AckedIsReported ==
  crashes = 0 /\ reconnects = 0 /\ repeats = 0 =>
    \A m \in Messages : place[m] = "acked" => Reported(m) \in Terminal

\* Unless something failed, a message on the dead letter queue is one whose
\* video was not reported as done, nor as failed.
DeadIsUnreported ==
  crashes = 0 /\ disconnects = 0 =>
    \A m \in Messages :
      place[m] \in {"dead", "dropped"} => Reported(m) \notin Terminal

\* The runs that are inside the callback.
InCallback == {d \in Deliveries : Running(d) /\ job[d].pc # "parse"}

\* "current in-flight job, exposed by the health endpoint": as long as no
\* channel was replaced, activeJob names the video being worked on, and none
\* when there is none.
ActiveJobIsInFlight ==
  reconnects = 0 => {activeJob} \ {0} = {Video(d) : d \in InCallback}

\* Unless something failed and as long as no status is published again, the
\* api sees one end of each video: after done or failed comes nothing else.
EndIsFinal ==
  [][crashes' = 0 /\ disconnects' = 0 /\ repeats' = 0 =>
       \A m \in Messages : status[m] \in Terminal => status'[m] = status[m]]_vars

\* A run that has told the api that its video is processing, and has not ended.
Announced(d) == job[d].pc \notin {"idle", "parse", "download"}

OpenAttempts == {<<d, Video(d)>> : d \in {e \in Deliveries : Announced(e)}}

\* What api sees of the node is the feed of StatusFeed: an attempt is a run.
Feed == INSTANCE StatusFeed WITH
  Videos <- Messages,
  Attempts <- Deliveries,
  open <- OpenAttempts,
  pipe <- outbox,
  seen <- status,
  again <- unconfirmed,
  troubled <- disconnects + crashes > 0

\* Every step of the broker, the runs, the process and the producer's
\* connection is one the api may expect: statuses in order, none lost and, after
\* a loss of that connection, none new; an announcement before each end, one end
\* for each announcement, one attempt as long as nothing failed.
ImplementsFeed == Feed!FeedSpec

\* A run threw, and the message it worked on was settled by the ack of an older
\* run whose tag, of a channel that is gone, named it: its own nack is lost.
Masked(m) ==
  /\ reconnects > 0
  /\ place[m] = "acked"
  /\ \E d \in Deliveries : Video(d) = m /\ run[d].st = "threw"

\* The run's bound on deliveries keeps a message waiting on its queue.
CutOff(m) == place[m] = "ready" /\ delivered = MaxDeliveries

\* Every job that parses is in the end reported as done or failed, or on its
\* way to the dead letter queue, unless the consumer stalls for good or a
\* replaced channel let another run's ack settle a job that failed to upload:
\* in no other way is a video processing for ever.
EveryJobEnds ==
  []<>~Stalled =>
    \A m \in Messages \ Malformed :
      <>(\/ status[m] \in Terminal
         \/ place[m] \in {"dead", "dropped"}
         \/ Masked(m)
         \/ CutOff(m))

\* README's queue contract: domain failures are reported, so an acknowledged
\* job has a status saying how it ended.
ReportClaim ==
  \A m \in Messages : place[m] = "acked" => Reported(m) \in Terminal
============================================================================
