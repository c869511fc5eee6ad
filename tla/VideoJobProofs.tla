--------------------------- MODULE VideoJobProofs ---------------------------
(***************************************************************************)
(* VideoJob implements JobConsumer, so what is proved of the delivery side *)
(* holds of the delivery side with the real callback in it.                *)
(***************************************************************************)
EXTENDS VideoJob, JobConsumerProofs

USE DEF brokerVars, channelVars, faultVars

\* Every step of the video service is a step of the consumer or leaves the
\* consumer alone.
LEMMA VideoStepIsConsumerStep ==
  ASSUME [VideoNext]_vars
  PROVE  [ConsumerNext]_consumerVars
<1>1. CASE Transport
  BY <1>1 DEF Transport, ConsumerNext
<1>2. CASE Restart
  BY <1>2 DEF Restart, ConsumerNext
<1>3. CASE DeliverStatus \/ ReceiveUnconfirmed \/ ProducerReconnects
  BY <1>3 DEF DeliverStatus, ReceiveUnconfirmed, ProducerReconnects,
     CallbackGoesOn
<1>4. CASE \E m \in Messages : StartJob(m)
  BY <1>4 DEF StartJob, ConsumerNext
<1>5. ASSUME NEW d \in Deliveries, Work(d)
      PROVE  [ConsumerNext]_consumerVars
  <2>1. CASE RejectMalformed(d)
    BY <2>1 DEF RejectMalformed, ConsumerNext
  <2>2. CASE Fail(d) \/ CleanUp(d)
    BY <2>2 DEF Fail, CleanUp, Return, ConsumerNext
  <2>3. CASE UploadFails(d)
    BY <2>3 DEF UploadFails, Throw, ConsumerNext
  <2>4. CASE Download(d) \/ Probe(d) \/ Transcode(d) \/ Subtitle(d)
    BY <2>4 DEF Download, Probe, Transcode, Subtitle, CallbackGoesOn
  <2>5. CASE CorrectSub(d) \/ ReadMaster(d) \/ WriteMaster(d) \/ ListFiles(d)
    BY <2>5 DEF CorrectSub, ReadMaster, WriteMaster, ListFiles, CallbackGoesOn
  <2>6. CASE \E f \in Files : UploadFile(d, f) \/ Unlink(d, f)
    BY <2>6 DEF UploadFile, Unlink, CallbackGoesOn
  <2> QED
    BY <1>5, <2>1, <2>2, <2>3, <2>4, <2>5, <2>6 DEF Work
<1>6. CASE UNCHANGED vars
  BY <1>6 DEF vars
<1> QED
  BY <1>1, <1>2, <1>3, <1>4, <1>5, <1>6 DEF VideoNext

\* The video service with its callback implements the delivery side, in which
\* a callback is only a run that ends some time or other.
THEOREM VideoImplementsConsumer == VideoSpec => ConsumerSpec
<1>1. VideoInit => ConsumerInit
  BY DEF VideoInit
<1>2. [VideoNext]_vars => [ConsumerNext]_consumerVars
  BY VideoStepIsConsumerStep
<1> QED
  BY <1>1, <1>2, PTL DEF VideoSpec, ConsumerSpec

\* Hence the invariant of the delivery side holds under the video service.
THEOREM VideoDelivery == VideoSpec => []DeliveryInv
  BY VideoImplementsConsumer, ConsumerInvariance, PTL
----------------------------------------------------------------------------
(* The type invariant: every run is at a step of the callback exactly while *)
(* it is going on, and what the steps write are outputs and statuses.      *)

\* Where the runs are.
JobsTyped ==
  /\ job \in [Deliveries -> Job]
  /\ \A d \in Deliveries : Running(d) <=> job[d].pc # "idle"
  /\ \A d \in Deliveries :
       job[d].pc \in {"subtitle", "correct", "read", "write"} =>
         job[d].sub \in DOMAIN SubsOf[Video(d)]

\* What the runs have written and told.
OutputTyped ==
  /\ dir \in [Messages -> [source : BOOLEAN, out : Output]]
  /\ store \in [Messages -> Output]
  /\ activeJob \in Messages \cup {0}
  /\ outbox \in Seq(Messages \X Statuses)
  /\ status \in [Messages -> Statuses]
  /\ faults \in 0 .. MaxFaults

\* What the producer's connection has done.
LinkTyped ==
  /\ unconfirmed \in 0 .. Len(outbox)
  /\ repeats \in 0 .. MaxRepeats
  /\ unconfirmed > 0 => repeats > 0

LEMMA TypeParts == VideoTypeOK <=> JobsTyped /\ OutputTyped /\ LinkTyped
  BY Zenon DEF VideoTypeOK, JobsTyped, OutputTyped, LinkTyped

\* A run that is at a step is going on, and works on a message.
LEMMA RunningVideo ==
  ASSUME DeliveryInv, NEW d \in Deliveries, Running(d)
  PROVE  Video(d) \in Messages
  BY FinishedDelivered DEF Video

\* A step inside the callback moves its own run and no other.
LEMMA StepKeepsJobs ==
  ASSUME JobsTyped, NEW d \in Deliveries, Running(d),
         NEW j \in Job,
         j.pc # "idle",
         j.pc \in {"subtitle", "correct", "read", "write"} =>
           j.sub \in DOMAIN SubsOf[Video(d)],
         job' = [job EXCEPT ![d] = j],
         run' = run
  PROVE  JobsTyped'
  BY DEF JobsTyped, Running, Video

\* The end of a run takes it out of the callback.
LEMMA EndKeepsJobs ==
  ASSUME DeliveryInv, JobsTyped, NEW d \in Deliveries,
         AckMessage(d) \/ NackMessage(d),
         job' = [job EXCEPT ![d] = Idle]
  PROVE  JobsTyped'
<1>1. Idle \in Job /\ Idle.pc = "idle"
  BY DEF Idle, Job
<1>2. /\ run'[d].st # "running"
      /\ \A e \in Deliveries : e # d => run'[e] = run[e]
  BY DEF AckMessage, NackMessage, DeliveryInv, ConsumerTypeOK, Run
<1> QED
  BY <1>1, <1>2 DEF JobsTyped, Running, Video

\* The step after the video, or after a subtitle: the next subtitle is one of
\* the message.
LEMMA NextSubKeepsJobs ==
  ASSUME JobsTyped, NEW d \in Deliveries, Running(d), Video(d) \in Messages,
         NextSub(d), run' = run
  PROVE  JobsTyped'
<1>1. /\ job[d] \in Job /\ job[d].sub \in Nat
      /\ job \in [Deliveries -> Job]
  BY DEF JobsTyped, Job
<1>2. SubsOf[Video(d)] \in Seq(Subs) /\ Len(SubsOf[Video(d)]) \in Nat
  BY SubsOfAssumption
<1>3. CASE job[d].sub < Len(SubsOf[Video(d)])
  <2> DEFINE j == [job[d] EXCEPT !.pc = "subtitle", !.sub = @ + 1, !.seen = {}]
  <2>1. j \in Job /\ j.pc = "subtitle" /\ j.sub \in DOMAIN SubsOf[Video(d)]
    <3>1. j \in Job /\ j.pc = "subtitle" /\ j.sub = job[d].sub + 1
      <4>1. job[d].sub + 1 \in Nat
        BY <1>1
      <4>2. {} \in SUBSET Subs
        BY Zenon
      <4> QED
        BY <1>1, <4>1, <4>2 DEF Job, Steps
    <3>2. DOMAIN SubsOf[Video(d)] = 1 .. Len(SubsOf[Video(d)])
      BY <1>2
    <3> QED
      BY <1>1, <1>2, <1>3, <3>1, <3>2
  <2>2. job' = [job EXCEPT ![d] = j]
    BY <1>1, <1>3 DEF NextSub
  <2> HIDE DEF j
  <2> QED
    BY <2>1, <2>2, StepKeepsJobs
<1>4. CASE ~(job[d].sub < Len(SubsOf[Video(d)]))
  <2> DEFINE j == [job[d] EXCEPT !.pc = "list", !.seen = {}]
  <2>1. j \in Job /\ j.pc = "list"
    BY <1>1 DEF Job, Steps
  <2>2. job' = [job EXCEPT ![d] = j]
    BY <1>1, <1>4 DEF NextSub
  <2> HIDE DEF j
  <2> QED
    BY <2>1, <2>2, StepKeepsJobs
<1> QED
  BY <1>3, <1>4

\* The other steps that only move on: the subtitle in work stays the same.
LEMMA GotoKeepsJobs ==
  ASSUME JobsTyped, NEW d \in Deliveries, Running(d), NEW step \in Steps,
         Goto(d, step), run' = run,
         step \in {"correct", "read", "write"} =>
           job[d].pc \in {"subtitle", "correct", "read"},
         step # "subtitle"
  PROVE  JobsTyped'
<1> DEFINE j == [job[d] EXCEPT !.pc = step]
<1>1. job[d] \in Job /\ job \in [Deliveries -> Job]
  BY DEF JobsTyped
<1>2. j \in Job /\ j.pc = step /\ j.sub = job[d].sub /\ step # "idle"
  BY <1>1 DEF Job, Steps
<1>3. job' = [job EXCEPT ![d] = j]
  BY <1>1 DEF Goto
<1>4. step \in {"correct", "read", "write"} =>
        job[d].sub \in DOMAIN SubsOf[Video(d)]
  BY DEF JobsTyped
<1> HIDE DEF j
<1> QED
  BY <1>2, <1>3, <1>4, StepKeepsJobs

\* A run that takes a step is going on, and works on a message.
LEMMA WorkVideo ==
  ASSUME DeliveryInv, NEW d \in Deliveries, Work(d)
  PROVE  Running(d) /\ Video(d) \in Messages
<1>1. Running(d)
  BY DEF Work, RejectMalformed, Download, Probe, Transcode, Subtitle,
     CorrectSub, ReadMaster, WriteMaster, Fail, ListFiles, UploadFile,
     UploadFails, Unlink, CleanUp, At
<1> QED
  BY <1>1, RunningVideo

\* Every step of a run keeps the runs at steps of the callback.
LEMMA WorkKeepsJobs ==
  ASSUME DeliveryInv, JobsTyped, OutputTyped, NEW d \in Deliveries, Work(d)
  PROVE  JobsTyped'
<1>1. Running(d) /\ Video(d) \in Messages
  BY WorkVideo
<1>2. CASE RejectMalformed(d) \/ Fail(d) \/ UploadFails(d) \/ CleanUp(d)
  BY <1>2, EndKeepsJobs
     DEF RejectMalformed, Fail, UploadFails, CleanUp, Return, Throw
<1>3. CASE Download(d) \/ Probe(d) \/ Subtitle(d) \/ CorrectSub(d)
  <2>1. PICK step \in {"probe", "transcode", "correct", "read"} :
               /\ Goto(d, step)
               /\ step \in {"correct", "read"} =>
                    job[d].pc \in {"subtitle", "correct"}
    BY <1>3 DEF Download, Probe, Subtitle, CorrectSub, At
  <2>2. run' = run
    BY <1>3 DEF Download, Probe, Subtitle, CorrectSub, CallbackGoesOn,
       consumerVars
  <2> QED
    BY <1>1, <2>1, <2>2, GotoKeepsJobs DEF Steps
<1>4. CASE Transcode(d) \/ WriteMaster(d)
  BY <1>1, <1>4, NextSubKeepsJobs
     DEF Transcode, WriteMaster, CallbackGoesOn, consumerVars
<1>5. CASE ReadMaster(d)
  <2> DEFINE j == [job[d] EXCEPT !.pc = "write", !.seen = Out(d).listed]
  <2>1. /\ job[d] \in Job /\ job \in [Deliveries -> Job] /\ job[d].pc = "read"
        /\ job[d].sub \in DOMAIN SubsOf[Video(d)]
    BY <1>5 DEF JobsTyped, ReadMaster, At
  <2>2. Out(d).listed \in SUBSET Subs
    BY <1>1 DEF OutputTyped, Out, Output
  <2>3. j \in Job /\ j.pc = "write" /\ j.sub = job[d].sub
    BY <2>1, <2>2 DEF Job, Steps
  <2>4. job' = [job EXCEPT ![d] = j] /\ run' = run
    BY <1>5, <2>1 DEF ReadMaster, CallbackGoesOn, consumerVars
  <2> HIDE DEF j
  <2> QED
    BY <1>1, <2>1, <2>3, <2>4, StepKeepsJobs
<1>6. CASE ListFiles(d)
  <2> DEFINE j == [job[d] EXCEPT !.pc = "upload",
                     !.left = {f \in Files : Uploadable(f)
                                             /\ Out(d).file[f] # "none"}]
  <2>1. job[d] \in Job /\ job \in [Deliveries -> Job]
    BY DEF JobsTyped
  <2>2. j \in Job /\ j.pc = "upload"
    BY <2>1 DEF Job, Steps
  <2>3. job' = [job EXCEPT ![d] = j] /\ run' = run
    BY <1>6, <2>1 DEF ListFiles, CallbackGoesOn, consumerVars
  <2> HIDE DEF j
  <2> QED
    BY <1>1, <2>2, <2>3, StepKeepsJobs
<1>7. ASSUME NEW f \in Files, UploadFile(d, f)
      PROVE  JobsTyped'
  <2> DEFINE j == [job[d] EXCEPT !.left = @ \ {f}]
  <2>1. job[d] \in Job /\ job \in [Deliveries -> Job] /\ job[d].pc = "upload"
    BY <1>7 DEF JobsTyped, UploadFile, At
  <2>2. j \in Job /\ j.pc = "upload"
    BY <2>1 DEF Job
  <2>3. job' = [job EXCEPT ![d] = j] /\ run' = run
    BY <1>7, <2>1 DEF UploadFile, CallbackGoesOn, consumerVars
  <2> HIDE DEF j
  <2> QED
    BY <1>1, <2>2, <2>3, StepKeepsJobs
<1>8. ASSUME NEW f \in Files, Unlink(d, f)
      PROVE  JobsTyped'
  BY <1>8 DEF Unlink, CallbackGoesOn, consumerVars, JobsTyped, Running, Video
<1> QED
  BY <1>2, <1>3, <1>4, <1>5, <1>6, <1>7, <1>8 DEF Work

\* What the working directories may hold.
Dirs == [Messages -> [source : BOOLEAN, out : Output]]

\* A step that stays inside the callback moves its own run, from a step of the
\* callback to a later one or to the next subtitle.
LEMMA WorkMoves ==
  ASSUME DeliveryInv, JobsTyped, OutputTyped, NEW d \in Deliveries, Work(d),
         CallbackGoesOn
  PROVE  /\ \A e \in Deliveries : e # d => job'[e] = job[e]
         /\ job[d].pc \in Steps
         /\ job'[d].pc \in Steps \ {"download"}
<1>1. job \in [Deliveries -> Job] /\ job[d] \in Job
  BY DEF JobsTyped
<1>2. CASE Download(d) \/ Probe(d) \/ Subtitle(d) \/ CorrectSub(d)
  <2>1. PICK step \in Steps \ {"download"} : Goto(d, step)
    BY <1>2 DEF Download, Probe, Subtitle, CorrectSub, Steps
  <2>2. job[d].pc \in Steps
    BY <1>2 DEF Download, Probe, Subtitle, CorrectSub, Steps, At
  <2> QED
    BY <1>1, <2>1, <2>2 DEF Goto, Job
<1>3. CASE Transcode(d) \/ WriteMaster(d)
  <2>1. NextSub(d) /\ job[d].pc \in Steps
    BY <1>3 DEF Transcode, WriteMaster, Steps, At
  <2>2. job' = [job EXCEPT ![d].pc = "list", ![d].seen = {}] =>
          /\ \A e \in Deliveries : e # d => job'[e] = job[e]
          /\ job'[d].pc = "list"
    BY <1>1 DEF Job
  <2>3. job' = [job EXCEPT ![d].pc = "subtitle", ![d].sub = @ + 1,
                           ![d].seen = {}] =>
          /\ \A e \in Deliveries : e # d => job'[e] = job[e]
          /\ job'[d].pc = "subtitle"
    BY <1>1 DEF Job
  <2> QED
    BY <2>1, <2>2, <2>3 DEF NextSub, Steps
<1>4. CASE ReadMaster(d) \/ ListFiles(d) \/ \E f \in Files : UploadFile(d, f)
  <2>1. job' = [job EXCEPT ![d].pc = "write", ![d].seen = Out(d).listed] =>
          /\ \A e \in Deliveries : e # d => job'[e] = job[e]
          /\ job'[d].pc = "write"
    BY <1>1 DEF Job
  <2>2. CASE ReadMaster(d)
    BY <2>1, <2>2 DEF ReadMaster, At, Steps
  <2>3. CASE ListFiles(d)
    <3> DEFINE L == {f \in Files : Uploadable(f) /\ Out(d).file[f] # "none"}
    <3>1. job' = [job EXCEPT ![d].pc = "upload", ![d].left = L]
      BY <2>3 DEF ListFiles
    <3> HIDE DEF L
    <3>2. /\ \A e \in Deliveries : e # d => job'[e] = job[e]
          /\ job'[d].pc = "upload"
      BY <1>1, <3>1 DEF Job
    <3> QED
      BY <2>3, <3>2 DEF ListFiles, At, Steps
  <2>4. ASSUME NEW f \in Files, UploadFile(d, f)
        PROVE  /\ \A e \in Deliveries : e # d => job'[e] = job[e]
               /\ job[d].pc = "upload" /\ job'[d].pc = "upload"
    BY <1>1, <2>4 DEF UploadFile, At, Job
  <2> QED
    BY <1>4, <2>2, <2>3, <2>4 DEF Steps
<1>5. CASE RejectMalformed(d) \/ Fail(d) \/ UploadFails(d) \/ CleanUp(d)
  <2>1. AckMessage(d) \/ NackMessage(d)
    BY <1>5 DEF RejectMalformed, Fail, UploadFails, CleanUp, Return, Throw
  <2>2. run' # run
    BY <2>1 DEF AckMessage, NackMessage, Running, DeliveryInv, ConsumerTypeOK,
       Run
  <2> QED
    BY <2>2 DEF CallbackGoesOn, consumerVars
<1>6. CASE \E f \in Files : Unlink(d, f)
  BY <1>6 DEF Unlink, At, Steps
<1> QED
  BY <1>2, <1>3, <1>4, <1>5, <1>6 DEF Work

\* Writing one file, or the subtitle list, of one video leaves directories.
LEMMA FileWritten ==
  ASSUME NEW D \in Dirs, NEW m \in Messages, NEW f \in Files,
         NEW c \in Contents
  PROVE  [D EXCEPT ![m].out.file[f] = c] \in Dirs
<1> DEFINE o == [D[m].out EXCEPT !.file = [D[m].out.file EXCEPT ![f] = c]]
<1>1. D[m] \in [source : BOOLEAN, out : Output] /\ D[m].out \in Output
  BY DEF Dirs
<1>2. o \in Output
  BY <1>1 DEF Output
<1>3. [D[m] EXCEPT !.out = o] \in [source : BOOLEAN, out : Output]
  <2> HIDE DEF o
  <2> QED
    BY <1>1, <1>2
<1>4. [D EXCEPT ![m] = [D[m] EXCEPT !.out = o]] \in Dirs
  <2> HIDE DEF o
  <2> QED
    BY <1>1, <1>3 DEF Dirs
<1> QED
  BY <1>4

LEMMA ListWritten ==
  ASSUME NEW D \in Dirs, NEW m \in Messages, NEW L \in SUBSET Subs
  PROVE  [D EXCEPT ![m].out.listed = L] \in Dirs
<1> DEFINE o == [D[m].out EXCEPT !.listed = L]
<1>1. D[m] \in [source : BOOLEAN, out : Output] /\ D[m].out \in Output
  BY DEF Dirs
<1>2. o \in Output
  BY <1>1 DEF Output
<1>3. [D[m] EXCEPT !.out = o] \in [source : BOOLEAN, out : Output]
  <2> HIDE DEF o
  <2> QED
    BY <1>1, <1>2
<1>4. [D EXCEPT ![m] = [D[m] EXCEPT !.out = o]] \in Dirs
  <2> HIDE DEF o
  <2> QED
    BY <1>1, <1>3 DEF Dirs
<1> QED
  BY <1>4

\* Every step of a run writes outputs and statuses only: the directory ...
LEMMA WorkKeepsDir ==
  ASSUME DeliveryInv, JobsTyped, OutputTyped, NEW d \in Deliveries, Work(d)
  PROVE  dir' \in Dirs
<1> DEFINE m == Video(d)
<1>1. dir \in Dirs
  BY DEF OutputTyped, Dirs
<1>2. Running(d) /\ m \in Messages
  BY WorkVideo
<1>3. /\ dir[m] \in [source : BOOLEAN, out : Output]
      /\ dir[m].out \in Output
  BY <1>1, <1>2 DEF Dirs
<1>4. {"media", "master"} \subseteq Files /\ {"none", "part", "whole"} = Contents
  BY DEF Files, Contents
<1>5. CASE RejectMalformed(d) \/ ReadMaster(d) \/ Fail(d) \/ ListFiles(d)
           \/ UploadFails(d) \/ \E f \in Files : UploadFile(d, f)
  BY <1>1, <1>5
     DEF RejectMalformed, ReadMaster, Fail, ListFiles, UploadFails, UploadFile
<1>6. CASE Download(d)
  <2>1. dir' = dir \/ dir' = [dir EXCEPT ![m].source = TRUE]
    BY <1>6 DEF Download
  <2> HIDE DEF m
  <2> QED
    BY <1>1, <1>2, <2>1, Zenon DEF Dirs
<1>7. CASE Probe(d)
  <2> DEFINE D == [dir EXCEPT ![m].out.file["media"] = "part"]
  <2>1. D \in Dirs
    BY <1>1, <1>2, <1>4, FileWritten
  <2>2. dir' = [D EXCEPT ![m].out.file["master"] = "part"]
    BY <1>7 DEF Probe
  <2> HIDE DEF D
  <2> QED
    BY <1>2, <1>4, <2>1, <2>2, FileWritten
<1>8. CASE Transcode(d)
  <2> DEFINE written == IF ~dir[m].source THEN "none"
                        ELSE IF Clash(d) THEN "part" ELSE "whole"
             D == [dir EXCEPT ![m].out.file["media"] = written]
             E == [D EXCEPT ![m].out.file["master"] = written]
  <2>1. written \in Contents
    BY DEF Contents
  <2>2. dir' = [E EXCEPT ![m].out.listed = {}]
    BY <1>8 DEF Transcode
  <2> HIDE DEF written
  <2>3. D \in Dirs
    BY <1>1, <1>2, <1>4, <2>1, FileWritten
  <2> HIDE DEF D
  <2>4. E \in Dirs
    BY <1>2, <1>4, <2>1, <2>3, FileWritten
  <2> HIDE DEF E
  <2> QED
    BY <1>2, <2>2, <2>4, ListWritten
<1>9. CASE Subtitle(d) \/ CorrectSub(d) \/ WriteMaster(d)
  <2>1. Lang(d) \in Subs
    <3>1. job[d].sub \in DOMAIN SubsOf[m] /\ SubsOf[m] \in Seq(Subs)
      BY <1>2, <1>9, SubsOfAssumption
         DEF JobsTyped, Subtitle, CorrectSub, WriteMaster, At
    <3> QED
      BY <3>1, ElementOfSeq, LenProperties DEF Lang
  <2>2. CASE Subtitle(d) \/ CorrectSub(d)
    <3>1. PICK c \in Contents :
            dir' \in {dir, [dir EXCEPT ![m].out.file[Lang(d)] = c]}
      BY <1>4, <2>2 DEF Subtitle, CorrectSub
    <3> QED
      BY <1>1, <1>2, <2>1, <3>1, FileWritten DEF Files
  <2>3. CASE WriteMaster(d)
    <3> DEFINE D == [dir EXCEPT ![m].out.file["master"] = "whole"]
    <3>1. D \in Dirs /\ [dir EXCEPT ![m].out.file["master"] = "part"] \in Dirs
      BY <1>1, <1>2, <1>4, FileWritten
    <3>2. Relisted(d) \in SUBSET Subs
      BY <2>1 DEF Relisted, JobsTyped, Job
    <3>3. \/ dir' = [D EXCEPT ![m].out.listed = Relisted(d)]
          \/ dir' = [dir EXCEPT ![m].out.file["master"] = "part"]
          \/ dir' = dir
      BY <2>3 DEF WriteMaster
    <3> HIDE DEF D
    <3>4. [D EXCEPT ![m].out.listed = Relisted(d)] \in Dirs
      BY <1>2, <3>1, <3>2, ListWritten
    <3> QED
      BY <1>1, <3>1, <3>3, <3>4
  <2> QED
    BY <1>9, <2>2, <2>3
<1>10. CASE CleanUp(d)
  <2>1. EmptyDir \in [source : BOOLEAN, out : Output]
    BY DEF EmptyDir, NoFiles, Output, Contents
  <2>2. dir' = [dir EXCEPT ![m] = EmptyDir]
    BY <1>10 DEF CleanUp
  <2> QED
    BY <1>1, <1>2, <2>1, <2>2 DEF Dirs
<1>11. ASSUME NEW f \in Files, Unlink(d, f)
       PROVE  dir' \in Dirs
  BY <1>1, <1>2, <1>4, <1>11, FileWritten DEF Unlink
<1> QED
  BY <1>5, <1>6, <1>7, <1>8, <1>9, <1>10, <1>11 DEF Work

\* The same for the objects of the bucket.
LEMMA FileStored ==
  ASSUME NEW S \in [Messages -> Output], NEW m \in Messages, NEW f \in Files,
         NEW c \in Contents
  PROVE  [S EXCEPT ![m].file[f] = c] \in [Messages -> Output]
<1> DEFINE o == [S[m] EXCEPT !.file = [S[m].file EXCEPT ![f] = c]]
<1>1. o \in Output
  BY DEF Output
<1>2. [S EXCEPT ![m] = o] \in [Messages -> Output]
  <2> HIDE DEF o
  <2> QED
    BY <1>1
<1> QED
  BY <1>2

LEMMA ListStored ==
  ASSUME NEW S \in [Messages -> Output], NEW m \in Messages,
         NEW L \in SUBSET Subs
  PROVE  [S EXCEPT ![m].listed = L] \in [Messages -> Output]
<1> DEFINE o == [S[m] EXCEPT !.listed = L]
<1>1. o \in Output
  BY DEF Output
<1>2. [S EXCEPT ![m] = o] \in [Messages -> Output]
  <2> HIDE DEF o
  <2> QED
    BY <1>1
<1> QED
  BY <1>2

\* ... the bucket ...
LEMMA WorkKeepsStore ==
  ASSUME DeliveryInv, JobsTyped, OutputTyped, NEW d \in Deliveries, Work(d)
  PROVE  store' \in [Messages -> Output]
<1> DEFINE m == Video(d)
<1>1. store \in [Messages -> Output] /\ m \in Messages /\ dir \in Dirs
  BY WorkVideo DEF OutputTyped, Dirs
<1>2. ASSUME NEW f \in Files, UploadFile(d, f)
      PROVE  store' \in [Messages -> Output]
  <2> DEFINE c == Out(d).file[f]
             S == [store EXCEPT ![m].file[f] = c]
             L == IF f = "master" THEN Out(d).listed ELSE S[m].listed
  <2>1. c \in Contents /\ Out(d).listed \in SUBSET Subs
    BY <1>1 DEF Out, Dirs, Output
  <2>2. S \in [Messages -> Output]
    BY <1>1, <2>1, FileStored
  <2>3. store' = [S EXCEPT ![m].listed = L]
    BY <1>2 DEF UploadFile
  <2> HIDE DEF S
  <2>4. L \in SUBSET Subs
    BY <1>1, <2>1, <2>2 DEF Output
  <2> QED
    BY <1>1, <2>2, <2>3, <2>4, ListStored
<1>3. CASE ~\E f \in Files : UploadFile(d, f)
  BY <1>1, <1>3
     DEF Work, RejectMalformed, Download, Probe, Transcode, Subtitle,
         CorrectSub, ReadMaster, WriteMaster, Fail, ListFiles, UploadFails,
         Unlink, CleanUp
<1> QED
  BY <1>2, <1>3

\* ... and the statuses.
LEMMA PublishTyped ==
  ASSUME OutputTyped, NEW m \in Messages, NEW st \in Statuses, Publish(m, st)
  PROVE  outbox' \in Seq(Messages \X Statuses)
<1>1. <<m, st>> \in Messages \X Statuses
  OBVIOUS
<1> HIDE DEF Statuses
<1> QED
  BY <1>1, AppendProperties DEF OutputTyped, Publish

LEMMA WorkKeepsOutput ==
  ASSUME DeliveryInv, JobsTyped, OutputTyped, NEW d \in Deliveries, Work(d)
  PROVE  OutputTyped'
<1>1. dir' \in Dirs /\ store' \in [Messages -> Output] /\ Video(d) \in Messages
  BY WorkKeepsDir, WorkKeepsStore, WorkVideo
<1>2. status' = status /\ activeJob' \in {activeJob, 0}
  BY DEF Work, RejectMalformed, Download, Probe, Transcode, Subtitle,
     CorrectSub, ReadMaster, WriteMaster, Fail, ListFiles, UploadFile,
     UploadFails, Unlink, CleanUp, Return, Throw, CallbackGoesOn
<1>3. faults' = faults \/ WriteFails
  BY DEF Work, RejectMalformed, Download, Probe, Transcode, Subtitle,
     CorrectSub, ReadMaster, WriteMaster, Fail, ListFiles, UploadFile,
     UploadFails, Unlink, CleanUp
<1>4. \/ outbox' = outbox
      \/ \E st \in {"processing", "failed", "done"} : Publish(Video(d), st)
  BY DEF Work, RejectMalformed, Download, Probe, Transcode, Subtitle,
     CorrectSub, ReadMaster, WriteMaster, Fail, ListFiles, UploadFile,
     UploadFails, Unlink, CleanUp, CallbackGoesOn, FailurePublished
<1>5. outbox' \in Seq(Messages \X Statuses)
  <2>1. {"processing", "failed", "done"} \subseteq Statuses
    BY DEF Statuses, Terminal
  <2> QED
    BY <1>1, <1>4, <2>1, PublishTyped DEF OutputTyped
<1>6. faults' \in 0 .. MaxFaults
  BY <1>3, FaultsAssumption DEF OutputTyped, WriteFails
<1> QED
  BY <1>1, <1>2, <1>5, <1>6 DEF OutputTyped, Dirs

\* A status more leaves the others where they are.
LEMMA WorkKeepsLink ==
  ASSUME OutputTyped, LinkTyped, NEW d \in Deliveries, Work(d)
  PROVE  LinkTyped'
<1>1. UNCHANGED <<unconfirmed, repeats>>
  BY DEF Work, RejectMalformed, Download, Probe, Transcode, Subtitle,
     CorrectSub, ReadMaster, WriteMaster, Fail, ListFiles, UploadFile,
     UploadFails, Unlink, CleanUp, CallbackGoesOn, linkVars
<1>2. outbox' = outbox \/ \E x : outbox' = Append(outbox, x)
  BY DEF Work, RejectMalformed, Download, Probe, Transcode, Subtitle,
     CorrectSub, ReadMaster, WriteMaster, Fail, ListFiles, UploadFile,
     UploadFails, Unlink, CleanUp, CallbackGoesOn, FailurePublished, Publish
<1>3. Len(outbox) \in Nat /\ Len(outbox') \in {Len(outbox), Len(outbox) + 1}
  <2> DEFINE S == Messages \X Statuses
  <2>1. outbox \in Seq(S)
    BY DEF OutputTyped
  <2> HIDE DEF S
  <2> QED
    BY <1>2, <2>1
<1> QED
  BY <1>1, <1>3 DEF LinkTyped

LEMMA VideoInitTyped == VideoInit => VideoTypeOK
<1> SUFFICES ASSUME VideoInit
             PROVE  VideoTypeOK
  OBVIOUS
<1>1. JobsTyped
  <2>1. Idle \in Job /\ Idle.pc = "idle"
    BY DEF Idle, Job
  <2> QED
    BY <2>1 DEF VideoInit, ConsumerInit, JobsTyped, Running, NoRun
<1>2. OutputTyped
  <2>1. EmptyDir \in [source : BOOLEAN, out : Output] /\ NoFiles \in Output
    BY DEF EmptyDir, NoFiles, Output, Contents
  <2>2. outbox \in Seq(Messages \X Statuses) /\ faults \in 0 .. MaxFaults
    BY FaultsAssumption DEF VideoInit
  <2>3. status \in [Messages -> Statuses] /\ activeJob \in Messages \cup {0}
    BY DEF VideoInit, Statuses
  <2> QED
    BY <2>1, <2>2, <2>3 DEF VideoInit, OutputTyped
<1>3. LinkTyped
  BY RepeatsAssumption DEF VideoInit, LinkTyped
<1> QED
  BY <1>1, <1>2, <1>3, TypeParts

\* A delivery puts its run at the first step.
LEMMA StartKeepsTypes ==
  ASSUME DeliveryInv, JobsTyped, OutputTyped, LinkTyped,
         NEW m \in Messages, StartJob(m)
  PROVE  JobsTyped' /\ OutputTyped' /\ LinkTyped'
<1> DEFINE new == delivered + 1
<1>1. /\ new \in Deliveries /\ HandleMessage(m)
      /\ job' = [job EXCEPT ![new] = Begin(m)]
  BY BoundsAssumption
     DEF StartJob, HandleMessage, DeliveryInv, ConsumerTypeOK, Deliveries
<1>2. Begin(m) \in Job /\ Begin(m).pc \in {"parse", "download"}
  BY DEF Begin, Idle, Job, Steps
<1>3. /\ run'[new].st = "running"
      /\ \A d \in Deliveries : d # new => run'[d] = run[d]
  BY <1>1 DEF HandleMessage, DeliveryInv, ConsumerTypeOK
<1>4. JobsTyped'
  <2> HIDE DEF new
  <2> QED
    BY <1>1, <1>2, <1>3 DEF JobsTyped, Running, Video
<1>5. OutputTyped' /\ LinkTyped'
  BY DEF StartJob, OutputTyped, LinkTyped, linkVars
<1> QED
  BY <1>4, <1>5

\* The api gets a status.
LEMMA ReceiptKeepsTypes ==
  ASSUME OutputTyped, LinkTyped, DeliverStatus
  PROVE  OutputTyped' /\ LinkTyped'
<1>1. /\ outbox # <<>> /\ outbox \in Seq(Messages \X Statuses)
      /\ outbox' = Tail(outbox)
      /\ status' = [status EXCEPT ![Head(outbox)[1]] = Head(outbox)[2]]
  BY DEF DeliverStatus, OutputTyped
<1>2. Head(outbox) \in Messages \X Statuses
      /\ Tail(outbox) \in Seq(Messages \X Statuses)
  <2> HIDE DEF Statuses
  <2> QED
    BY <1>1, HeadTailProperties
<1>3. status' \in [Messages -> Statuses]
  BY <1>1, <1>2 DEF OutputTyped
<1>4. Len(outbox') \in Nat
  BY <1>1, <1>2, LenProperties
<1>5. LinkTyped'
  BY <1>4 DEF DeliverStatus, CallbackGoesOn, linkVars, LinkTyped
<1> QED
  BY <1>1, <1>2, <1>3, <1>5 DEF DeliverStatus, CallbackGoesOn, OutputTyped

\* What is published again is what was unconfirmed, in another order perhaps.
LEMMA RequeuedStatuses ==
  ASSUME outbox \in Seq(Messages \X Statuses), NEW k \in 1 .. Len(outbox)
  PROVE  /\ Requeued(k) \in Seq(Messages \X Statuses)
         /\ Len(Requeued(k)) = Len(outbox)
         /\ \A i \in 1 .. Len(outbox) :
              \E j \in 1 .. Len(outbox) : Requeued(k)[i] = outbox[j]
<1> DEFINE S == Messages \X Statuses
           n == Len(outbox)
           new == SubSeq(outbox, k + 1, n)
           old == SubSeq(outbox, 1, k)
<1>1. outbox \in Seq(S)
  OBVIOUS
<1> HIDE DEF S
<1>2. n \in Nat /\ k \in Nat /\ 1 <= k /\ k <= n
  BY <1>1, LenProperties
<1>3. \A i \in 1 .. n : outbox[i] \in S
  BY <1>1, ElementOfSeq
<1> HIDE DEF n
<1>4. /\ new \in Seq(S) /\ Len(new) = n - k
      /\ \A i \in 1 .. n - k : new[i] = outbox[k + i]
  <2>1. k + 1 \in Int /\ n \in Int /\ \A i \in k + 1 .. n : outbox[i] \in S
    BY <1>2, <1>3
  <2>2. /\ new \in Seq(S)
        /\ Len(new) = IF k + 1 <= n THEN n - (k + 1) + 1 ELSE 0
        /\ \A i \in 1 .. n - (k + 1) + 1 : new[i] = outbox[k + 1 + i - 1]
    BY <2>1, SubSeqProperties
  <2> HIDE DEF new
  <2> QED
    BY <1>2, <2>2
<1>5. /\ old \in Seq(S) /\ Len(old) = k
      /\ \A i \in 1 .. k : old[i] = outbox[i]
  <2>1. 1 \in Int /\ k \in Int /\ \A i \in 1 .. k : outbox[i] \in S
    BY <1>2, <1>3
  <2>2. /\ old \in Seq(S)
        /\ Len(old) = IF 1 <= k THEN k - 1 + 1 ELSE 0
        /\ \A i \in 1 .. k - 1 + 1 : old[i] = outbox[1 + i - 1]
    BY <2>1, SubSeqProperties
  <2> HIDE DEF old
  <2> QED
    BY <1>2, <2>2
<1>6. Requeued(k) = new \o old
  BY DEF Requeued, n
<1> HIDE DEF new, old
<1>7. /\ Requeued(k) \in Seq(S)
      /\ Len(Requeued(k)) = n
      /\ \A i \in 1 .. n : Requeued(k)[i] = IF i <= n - k THEN new[i]
                                            ELSE old[i - (n - k)]
  <2>1. Len(new) + Len(old) = n
    BY <1>2, <1>4, <1>5
  <2>2. /\ new \o old \in Seq(S)
        /\ Len(new \o old) = Len(new) + Len(old)
        /\ \A i \in 1 .. Len(new) + Len(old) :
             (new \o old)[i] = IF i <= Len(new) THEN new[i]
                               ELSE old[i - Len(new)]
    BY <1>4, <1>5, ConcatProperties
  <2> HIDE DEF Requeued
  <2> QED
    BY <1>4, <1>6, <2>1, <2>2
<1>8. ASSUME NEW i \in 1 .. n
      PROVE  \E j \in 1 .. n : Requeued(k)[i] = outbox[j]
  <2>1. CASE i <= n - k
    <3>1. k + i \in 1 .. n /\ i \in 1 .. n - k
      BY <1>2, <2>1
    <3>2. Requeued(k)[i] = outbox[k + i]
      BY <1>4, <1>7, <2>1, <3>1
    <3> QED
      BY <3>1, <3>2
  <2>2. CASE ~(i <= n - k)
    <3>1. i - (n - k) \in 1 .. n /\ i - (n - k) \in 1 .. k
      BY <1>2, <2>2
    <3>2. Requeued(k)[i] = outbox[i - (n - k)]
      BY <1>5, <1>7, <2>2, <3>1
    <3> QED
      BY <3>1, <3>2
  <2> QED
    BY <2>1, <2>2
<1> QED
  BY <1>7, <1>8 DEF n, S

\* The api gets a status, or the producer publishes again.
LEMMA RepetitionKeepsTypes ==
  ASSUME OutputTyped, LinkTyped, ReceiveUnconfirmed \/ ProducerReconnects
  PROVE  OutputTyped' /\ LinkTyped'
<1>1. outbox \in Seq(Messages \X Statuses) /\ Len(outbox) \in Nat
  <2> HIDE DEF Statuses
  <2> QED
    BY LenProperties DEF OutputTyped
<1>2. CASE ReceiveUnconfirmed
  <2> DEFINE i == unconfirmed + 1
  <2>1. /\ i \in 1 .. Len(outbox)
        /\ status' = [status EXCEPT ![outbox[i][1]] = outbox[i][2]]
    BY <1>1, <1>2 DEF ReceiveUnconfirmed, LinkTyped
  <2> HIDE DEF i
  <2>2. outbox[i] \in Messages \X Statuses
    <3> HIDE DEF Statuses
    <3> QED
      BY <1>1, <2>1, ElementOfSeq
  <2>3. status' \in [Messages -> Statuses]
    BY <2>1, <2>2 DEF OutputTyped
  <2>4. OutputTyped'
    BY <1>2, <2>3 DEF ReceiveUnconfirmed, OutputTyped
  <2>5. LinkTyped'
    BY <1>1, <1>2, RepeatsAssumption DEF ReceiveUnconfirmed, LinkTyped
  <2> QED
    BY <2>4, <2>5
<1>3. CASE ProducerReconnects
  <2>1. PICK k \in 1 .. Len(outbox) : outbox' = Requeued(k)
    BY <1>3 DEF ProducerReconnects
  <2>2. outbox' \in Seq(Messages \X Statuses) /\ Len(outbox') = Len(outbox)
    BY <1>1, <2>1, RequeuedStatuses
  <2>3. OutputTyped'
    BY <1>3, <2>2 DEF ProducerReconnects, OutputTyped
  <2>4. LinkTyped'
    BY <1>1, <1>3, <2>2, RepeatsAssumption DEF ProducerReconnects, LinkTyped
  <2> QED
    BY <2>3, <2>4
<1> QED
  BY <1>2, <1>3

\* Each step of the video service keeps the types.
LEMMA VideoStepTyped ==
  ASSUME DeliveryInv, VideoTypeOK, [VideoNext]_vars
  PROVE  VideoTypeOK'
<1>1. JobsTyped /\ OutputTyped /\ LinkTyped
  BY TypeParts
<1>2. CASE Transport
  <2>1. run' = run /\ UNCHANGED videoVars
    BY <1>2 DEF Transport, OpenChannel, BindDeadLetters, BrokerSettles,
       Disconnect, DeliveryTimesOut, LoseChannel, ListenOnQueue
  <2> QED
    BY <1>1, <2>1 DEF VideoTypeOK, videoVars, Running, Video
<1>3. CASE Restart
  <2>1. \A d \in Deliveries : ~Running(d)'
    BY <1>3 DEF Restart, Crash, Running, DeliveryInv, ConsumerTypeOK, Run
  <2>2. Idle \in Job /\ Idle.pc = "idle"
    BY DEF Idle, Job
  <2>3. JobsTyped'
    BY <1>3, <2>1, <2>2 DEF Restart, JobsTyped
  <2>4. OutputTyped' /\ LinkTyped'
    BY <1>1, <1>3 DEF Restart, OutputTyped, LinkTyped
  <2> QED
    BY <2>3, <2>4 DEF VideoTypeOK, JobsTyped, OutputTyped, LinkTyped
<1>4. CASE DeliverStatus \/ ReceiveUnconfirmed \/ ProducerReconnects
  <2>1. UNCHANGED <<run, job>>
    BY <1>4 DEF DeliverStatus, ReceiveUnconfirmed, ProducerReconnects,
       CallbackGoesOn, consumerVars
  <2>2. JobsTyped'
    BY <1>1, <2>1 DEF JobsTyped, Running, Video
  <2>3. OutputTyped' /\ LinkTyped'
    BY <1>1, <1>4, ReceiptKeepsTypes, RepetitionKeepsTypes
  <2> QED
    BY <2>2, <2>3 DEF VideoTypeOK, JobsTyped, OutputTyped, LinkTyped
<1>5. CASE \E m \in Messages : StartJob(m)
  BY <1>1, <1>5, StartKeepsTypes
     DEF VideoTypeOK, JobsTyped, OutputTyped, LinkTyped
<1>6. CASE \E d \in Deliveries : Work(d)
  BY <1>1, <1>6, WorkKeepsJobs, WorkKeepsOutput, WorkKeepsLink
     DEF VideoTypeOK, JobsTyped, OutputTyped, LinkTyped
<1>7. CASE UNCHANGED vars
  BY <1>7 DEF vars, consumerVars, videoVars, VideoTypeOK, Running, Video
<1> QED
  BY <1>2, <1>3, <1>4, <1>5, <1>6, <1>7 DEF VideoNext

\* Whatever the broker and the process do, each run is at a step of
\* processVideoCallback exactly while it is going on, works on a subtitle its
\* message has, and writes outputs and statuses (video.service.ts:57-135).
THEOREM VideoTyping == VideoSpec => []VideoTypeOK
<1>1. DeliveryInv /\ VideoTypeOK /\ [VideoNext]_vars => VideoTypeOK'
  BY VideoStepTyped
<1> QED
  BY <1>1, VideoInitTyped, VideoDelivery, PTL DEF VideoSpec
----------------------------------------------------------------------------
(* The health endpoint's activeJob.                                        *)

\* Until a channel is replaced, at most one run is going on.
LEMMA OneRunning ==
  ASSUME DeliveryInv, reconnects = 0,
         NEW d \in Deliveries, Running(d), NEW e \in Deliveries, Running(e)
  PROVE  d = e
<1>1. run[d].msg \in Messages /\ run[e].msg \in Messages
  BY FinishedDelivered
<1> QED
  BY <1>1, OneQueueAssumption DEF DeliveryInv, OneAtATime

\* ActiveJobIsInFlight, one run at a time.
ShownJob ==
  reconnects = 0 => /\ \A d \in InCallback : activeJob = Video(d)
                    /\ InCallback = {} => activeJob = 0

LEMMA ShownJobInFlight ==
  ASSUME DeliveryInv, VideoTypeOK, ShownJob
  PROVE  ActiveJobIsInFlight
<1>1. \A d \in InCallback : Video(d) \in Messages
  BY RunningVideo DEF InCallback
<1>2. 0 \notin Messages
  BY MessagesAssumption
<1> QED
  BY <1>1, <1>2 DEF ActiveJobIsInFlight, ShownJob

\* Where the callback returns or throws, no run goes on and no job is shown.
LEMMA ShownJobAfterEnd ==
  ASSUME DeliveryInv, ShownJob, JobsTyped, NEW d \in Deliveries,
         AckMessage(d) \/ NackMessage(d),
         activeJob' = 0 \/ (At(d, "parse") /\ activeJob' = activeJob)
  PROVE  ShownJob'
<1>1. /\ Running(d)
      /\ run'[d].st # "running"
      /\ reconnects' = reconnects
      /\ \A e \in Deliveries : e # d => run'[e] = run[e]
  BY DEF AckMessage, NackMessage, DeliveryInv, ConsumerTypeOK, Run
<1> SUFFICES ASSUME reconnects = 0
             PROVE  InCallback' = {} /\ activeJob' = 0
  BY <1>1 DEF ShownJob
<1>2. \A e \in Deliveries : Running(e) => e = d
  BY <1>1, OneRunning
<1>3. InCallback' = {}
  BY <1>1, <1>2 DEF InCallback, Running
<1>4. CASE At(d, "parse") /\ activeJob' = activeJob
  <2>1. InCallback = {}
    BY <1>2, <1>4 DEF InCallback, At
  <2> QED
    BY <1>3, <1>4, <2>1 DEF ShownJob
<1> QED
  BY <1>3, <1>4

\* A step inside the callback leaves the callback's runs what they are.
LEMMA ShownJobWithin ==
  ASSUME DeliveryInv, JobsTyped, OutputTyped, ShownJob,
         NEW d \in Deliveries, Work(d), CallbackGoesOn
  PROVE  ShownJob'
<1>1. /\ \A e \in Deliveries : e # d => job'[e] = job[e]
      /\ job[d].pc # "parse" /\ job'[d].pc # "parse"
  BY WorkMoves DEF Steps
<1>2. UNCHANGED <<run, reconnects, activeJob>>
  BY DEF CallbackGoesOn, consumerVars
<1>3. InCallback' = InCallback
  BY <1>1, <1>2 DEF InCallback, Running
<1> QED
  BY <1>2, <1>3 DEF ShownJob, Video

\* A delivery finds no run going on, so the job it starts is the one shown.
LEMMA ShownJobAtStart ==
  ASSUME DeliveryInv, DeliveryInv', VideoTypeOK, ShownJob,
         NEW m \in Messages, StartJob(m)
  PROVE  ShownJob'
<1> DEFINE new == delivered + 1
<1> SUFFICES ASSUME reconnects' = 0
             PROVE  ShownJob'
  BY DEF ShownJob
<1>1. /\ new \in Deliveries /\ reconnects = 0
      /\ job' = [job EXCEPT ![new] = Begin(m)]
      /\ run'[new].st = "running" /\ run'[new].msg = m
      /\ \A d \in Deliveries : d # new => run'[d] = run[d]
  BY BoundsAssumption
     DEF StartJob, HandleMessage, DeliveryInv, ConsumerTypeOK, Deliveries, Run
<1>2. run[new].st = "unused"
  BY <1>1, BoundsAssumption DEF DeliveryInv, RunsNumbered, ConsumerTypeOK
<1>3. \A d \in Deliveries : Running(d)' => d = new
  <2> SUFFICES ASSUME NEW d \in Deliveries, Running(d)'
               PROVE  d = new
    OBVIOUS
  <2>1. run'[d].st = "running" /\ run'[new].msg \in Messages
    BY <1>1 DEF Running
  <2>2. run'[d].msg \in Messages
    <3>1. d # new => Running(d)
      BY <1>1 DEF Running
    <3> QED
      BY <1>1, <3>1, FinishedDelivered
  <2>3. QueueOf[run'[d].msg] = QueueOf[run'[new].msg]
    BY <2>1, <2>2, OneQueueAssumption
  <2> QED
    BY <1>1, <2>1, <2>3 DEF DeliveryInv, OneAtATime, Running
<1>4. InCallback = {} /\ activeJob \in Messages \cup {0}
  BY <1>1, <1>2, <1>3 DEF InCallback, Running, VideoTypeOK
<1>5. activeJob = 0
  BY <1>1, <1>4 DEF ShownJob
<1>6. job'[new] = Begin(m)
  BY <1>1 DEF VideoTypeOK
<1>7. CASE m \in Malformed
  <2>1. InCallback' = {}
    BY <1>3, <1>6, <1>7 DEF InCallback, Begin, Idle
  <2>2. activeJob' = activeJob
    BY <1>7 DEF StartJob
  <2> QED
    BY <1>5, <2>1, <2>2 DEF ShownJob
<1>8. CASE m \notin Malformed
  <2>1. InCallback' = {new} /\ activeJob' = m
    BY <1>1, <1>3, <1>6, <1>8 DEF StartJob, InCallback, Begin, Idle, Running
  <2> QED
    BY <1>1, <2>1 DEF ShownJob, Video
<1> QED
  BY <1>7, <1>8

\* Each step keeps it.
LEMMA ShownJobStep ==
  ASSUME DeliveryInv, DeliveryInv', VideoTypeOK, ShownJob,
         [VideoNext]_vars
  PROVE  ShownJob'
<1>1. JobsTyped /\ OutputTyped
  BY TypeParts
<1>2. CASE Transport
  <2>1. run' = run /\ UNCHANGED videoVars
    BY <1>2 DEF Transport, OpenChannel, BindDeadLetters, BrokerSettles,
       Disconnect, DeliveryTimesOut, LoseChannel, ListenOnQueue
  <2>2. reconnects' = 0 => reconnects = 0
    BY <1>2 DEF Transport, OpenChannel, BindDeadLetters, BrokerSettles,
       Disconnect, DeliveryTimesOut, LoseChannel, ListenOnQueue,
       DeliveryInv, ConsumerTypeOK
  <2> QED
    BY <2>1, <2>2 DEF ShownJob, InCallback, videoVars, Running, Video
<1>3. CASE Restart
  <2>1. InCallback' = {}
    BY <1>3 DEF Restart, Crash, InCallback, Running, DeliveryInv,
       ConsumerTypeOK, Run
  <2> QED
    BY <1>3, <2>1 DEF Restart, ShownJob
<1>4. CASE DeliverStatus \/ ReceiveUnconfirmed \/ ProducerReconnects
  <2>1. UNCHANGED <<run, job, activeJob, reconnects>>
    BY <1>4 DEF DeliverStatus, ReceiveUnconfirmed, ProducerReconnects,
       CallbackGoesOn, consumerVars
  <2> QED
    BY <2>1 DEF ShownJob, InCallback, Running, Video
<1>5. CASE \E m \in Messages : StartJob(m)
  BY <1>5, ShownJobAtStart
<1>6. ASSUME NEW d \in Deliveries, Work(d)
      PROVE  ShownJob'
  <2>1. CASE CallbackGoesOn
    BY <1>1, <1>6, <2>1, ShownJobWithin
  <2>2. CASE ~CallbackGoesOn
    <3>1. \/ RejectMalformed(d) \/ Fail(d) \/ UploadFails(d) \/ CleanUp(d)
      BY <1>6, <2>2
         DEF Work, Download, Probe, Transcode, Subtitle, CorrectSub,
             ReadMaster, WriteMaster, ListFiles, UploadFile, Unlink
    <3> QED
      BY <1>1, <3>1, ShownJobAfterEnd
         DEF RejectMalformed, Fail, UploadFails, CleanUp, Return, Throw
  <2> QED
    BY <2>1, <2>2
<1>7. CASE UNCHANGED vars
  BY <1>7 DEF vars, consumerVars, videoVars, ShownJob, InCallback,
     Running, Video
<1> QED
  BY <1>2, <1>3, <1>4, <1>5, <1>6, <1>7 DEF VideoNext

\* Until a channel is replaced under a live process, what the health endpoint
\* shows as the job in flight is the video being worked on, and nothing
\* between two jobs: the finally of processVideoCallback and prefetch: 1
\* together (video.service.ts:57-135, consumer.service.ts:45-52).
THEOREM ShownJobIsInFlight == VideoSpec => []ActiveJobIsInFlight
<1>1. VideoInit => ShownJob
  BY DEF VideoInit, ConsumerInit, ShownJob, InCallback, Running, NoRun
<1>2. DeliveryInv /\ DeliveryInv' /\ VideoTypeOK /\ ShownJob /\ [VideoNext]_vars
        => ShownJob'
  BY ShownJobStep
<1>3. DeliveryInv /\ VideoTypeOK /\ ShownJob => ActiveJobIsInFlight
  BY ShownJobInFlight
<1> QED
  BY <1>1, <1>2, <1>3, VideoDelivery, VideoTyping, PTL DEF VideoSpec
============================================================================
