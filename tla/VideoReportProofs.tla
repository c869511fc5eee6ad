------------------------- MODULE VideoReportProofs -------------------------
(***************************************************************************)
(* Proofs about what the api hears of a video: the statuses that the runs  *)
(* of processVideoCallback publish, in the order the producer sends them.  *)
(***************************************************************************)
EXTENDS VideoJobProofs

USE DEF brokerVars, channelVars, faultVars

----------------------------------------------------------------------------
(* The invariant.  In a process on its first channel a video has one run   *)
(* (OnceInv), so what was said of the video was said by that run.          *)

\* The api was told how the video ended, or is about to be.
Ended(m) ==
  \/ status[m] \in Terminal
  \/ \E i \in 1 .. Len(outbox) : outbox[i][1] = m /\ outbox[i][2] \in Terminal

\* Something was published of the video.
Heard(m) ==
  \/ status[m] # "none"
  \/ \E i \in 1 .. Len(outbox) : outbox[i][1] = m

\* A run that has got past the announcement of its video.
Past(d) == Finished(d) \/ Announced(d)

\* While nothing has been published again, a run that resolved has told the
\* end, and an end is the last word: the api that has it waits for no more, and
\* in the buffer nothing of the video is behind it.
ToldOnce ==
  /\ \A m \in Messages :
       (\E d \in Deliveries : Video(d) = m /\ run[d].st = "resolved") => Ended(m)
  /\ \A m \in Messages :
       status[m] \in Terminal => \A i \in 1 .. Len(outbox) : outbox[i][1] # m
  /\ \A i, j \in 1 .. Len(outbox) :
       i < j /\ outbox[i][1] = outbox[j][1] => outbox[i][2] \notin Terminal

\* Who spoke of a video is a run of it past the announcement, and who told its
\* end is a run of it that resolved.
ReportBooks ==
  /\ \A m \in Messages :
       Heard(m) => \E d \in Deliveries : Video(d) = m /\ Past(d)
  /\ \A m \in Messages :
       Ended(m) => \E d \in Deliveries : Video(d) = m /\ run[d].st = "resolved"
  /\ repeats = 0 => ToldOnce

ReportInv == Calm => ReportBooks

\* What every step of the proof starts from.
VideoInv == DeliveryInv /\ OnceInv /\ VideoTypeOK

THEOREM VideoInvariance == VideoSpec => []VideoInv
<1>1. DeliveryInv /\ OnceInv /\ VideoTypeOK <=> VideoInv
  BY DEF VideoInv
<1> QED
  BY <1>1, VideoDelivery, VideoTyping, VideoImplementsConsumer, DeliveredOnce,
     PTL

\* On its first channel the process runs a video once.
LEMMA OneRunOfVideo ==
  ASSUME VideoInv, Calm,
         NEW d \in Deliveries, Running(d) \/ Finished(d),
         NEW e \in Deliveries, Running(e) \/ Finished(e),
         Video(d) = Video(e)
  PROVE  d = e
<1>1. d <= delivered /\ e <= delivered
  BY FinishedDelivered DEF VideoInv
<1> QED
  BY <1>1 DEF VideoInv, OnceInv, Video

\* Only a run that is going on or ended is past the announcement.
LEMMA PastStarted ==
  ASSUME VideoInv, NEW d \in Deliveries, Past(d)
  PROVE  Running(d) \/ Finished(d)
  BY DEF VideoInv, VideoTypeOK, Past, Announced

\* While the run of a video is going on, the video has not ended; and nothing
\* was heard of it until the run announces it.
LEMMA RunningUnended ==
  ASSUME VideoInv, ReportInv, Calm, NEW d \in Deliveries, Running(d)
  PROVE  /\ ~Ended(Video(d))
         /\ ~Announced(d) => ~Heard(Video(d))
<1>1. Video(d) \in Messages
  BY RunningVideo DEF VideoInv
<1>2. \A e \in Deliveries :
        Video(e) = Video(d) /\ (Running(e) \/ Finished(e)) => e = d
  BY OneRunOfVideo
<1>3. ~Finished(d) /\ run[d].st # "resolved"
  BY DEF Running, Finished, Outcomes
<1>4. ~Ended(Video(d))
  <2>1. \A e \in Deliveries : run[e].st = "resolved" => Finished(e)
    BY DEF Finished, Outcomes
  <2> QED
    BY <1>1, <1>2, <1>3, <2>1 DEF ReportInv, ReportBooks
<1>5. ~Announced(d) => ~Heard(Video(d))
  BY <1>1, <1>2, <1>3, PastStarted DEF ReportInv, ReportBooks, Past
<1> QED
  BY <1>4, <1>5
----------------------------------------------------------------------------
(* Each step keeps the books.                                              *)

\* A step on which nobody speaks, and no run of a video resolves.
LEMMA SilentStep ==
  ASSUME ReportInv,
         Calm' => Calm,
         UNCHANGED <<outbox, status, repeats>>,
         \A d \in Deliveries : Past(d) => Past(d)' /\ Video(d)' = Video(d),
         \A d \in Deliveries :
           /\ run'[d].st = "resolved" <=> run[d].st = "resolved"
           /\ run[d].st = "resolved" => Video(d)' = Video(d)
  PROVE  ReportInv'
<1> SUFFICES ASSUME Calm'
             PROVE  ReportBooks'
  BY DEF ReportInv
<1>1. ReportBooks
  BY DEF ReportInv
<1>2. ASSUME NEW m \in Messages, Heard(m)'
      PROVE  \E d \in Deliveries : Video(d)' = m /\ Past(d)'
  BY <1>1, <1>2 DEF ReportBooks, Heard
<1>3. ASSUME NEW m \in Messages, Ended(m)'
      PROVE  \E d \in Deliveries : Video(d)' = m /\ run'[d].st = "resolved"
  <2>1. Ended(m)
    BY <1>3 DEF Ended
  <2> QED
    BY <1>1, <2>1 DEF ReportBooks
<1>4. ASSUME repeats' = 0
      PROVE  ToldOnce'
  <2>1. ToldOnce
    BY <1>1, <1>4 DEF ReportBooks
  <2>2. \A m \in Messages :
          (\E d \in Deliveries : Video(d)' = m /\ run'[d].st = "resolved")
            => Ended(m)'
    BY <2>1 DEF ToldOnce, Ended
  <2> QED
    BY <2>1, <2>2 DEF ToldOnce
<1> QED
  BY <1>1, <1>2, <1>3, <1>4 DEF ReportBooks

\* What publishing does to the producer's buffer.
LEMMA PublishEffect ==
  ASSUME OutputTyped, NEW m \in Messages, NEW st \in Statuses, Publish(m, st)
  PROVE  /\ Len(outbox) \in Nat /\ Len(outbox') = Len(outbox) + 1
         /\ outbox'[Len(outbox) + 1] = <<m, st>>
         /\ \A i \in 1 .. Len(outbox) : outbox'[i] = outbox[i]
<1>1. /\ outbox \in Seq(Messages \X Statuses)
      /\ <<m, st>> \in Messages \X Statuses
      /\ outbox' = Append(outbox, <<m, st>>)
  BY DEF OutputTyped, Publish
<1> HIDE DEF Statuses
<1> QED
  BY <1>1, AppendProperties, LenProperties

\* A step on which a run speaks of its video, which has not ended.
LEMMA SpokenStep ==
  ASSUME OutputTyped, ReportInv,
         Calm' => Calm,
         UNCHANGED <<status, repeats>>,
         NEW d \in Deliveries, Video(d) \in Messages,
         NEW st \in Statuses, Publish(Video(d), st),
         Calm => ~Ended(Video(d)),
         Past(d)',
         run'[d].st = "resolved" <=> st \in Terminal,
         run[d].st # "resolved",
         \A e \in Deliveries : e # d => run'[e] = run[e] /\ job'[e] = job[e],
         run'[d].msg = run[d].msg
  PROVE  ReportInv'
<1> SUFFICES ASSUME Calm'
             PROVE  ReportBooks'
  BY DEF ReportInv
<1> DEFINE m == Video(d)
           n == Len(outbox)
<1>1. ReportBooks /\ ~Ended(m)
  BY DEF ReportInv
<1>2. /\ n \in Nat /\ Len(outbox') = n + 1
      /\ outbox'[n + 1] = <<m, st>>
      /\ \A i \in 1 .. n : outbox'[i] = outbox[i]
  BY PublishEffect
<1> HIDE DEF n
<1>3. \A i \in 1 .. Len(outbox') : i = n + 1 \/ i \in 1 .. n
  BY <1>2
<1>4. \A e \in Deliveries :
        /\ Video(e)' = Video(e)
        /\ Past(e) => Past(e)'
        /\ e # d => (run'[e].st = "resolved" <=> run[e].st = "resolved")
  BY DEF Video, Past, Finished, Announced
<1>5. ASSUME NEW k \in Messages, Heard(k)'
      PROVE  \E e \in Deliveries : Video(e)' = k /\ Past(e)'
  <2>1. Heard(k) \/ k = m
    BY <1>2, <1>3, <1>5 DEF Heard, n
  <2> QED
    BY <1>1, <1>4, <2>1 DEF ReportBooks
<1>6. \A k \in Messages : Ended(k)' <=> Ended(k) \/ (k = m /\ st \in Terminal)
  <2> SUFFICES ASSUME NEW k \in Messages
               PROVE  Ended(k)' <=> Ended(k) \/ (k = m /\ st \in Terminal)
    OBVIOUS
  <2>1. ASSUME Ended(k)'
        PROVE  Ended(k) \/ (k = m /\ st \in Terminal)
    BY <1>2, <1>3, <2>1 DEF Ended, n
  <2>2. ASSUME Ended(k)
        PROVE  Ended(k)'
    BY <1>2, <2>2 DEF Ended, n
  <2>3. ASSUME k = m, st \in Terminal
        PROVE  Ended(k)'
    <3>1. n + 1 \in 1 .. Len(outbox')
      BY <1>2
    <3> QED
      BY <1>2, <2>3, <3>1 DEF Ended
  <2> QED
    BY <2>1, <2>2, <2>3
<1>7. ASSUME NEW k \in Messages, Ended(k)'
      PROVE  \E e \in Deliveries : Video(e)' = k /\ run'[e].st = "resolved"
  <2>1. CASE k = m /\ st \in Terminal
    BY <1>4, <2>1
  <2>2. CASE Ended(k)
    BY <1>1, <1>4, <2>2 DEF ReportBooks
  <2> QED
    BY <1>6, <1>7, <2>1, <2>2
<1>8. ASSUME repeats' = 0
      PROVE  ToldOnce'
  <2>1. ToldOnce
    BY <1>1, <1>8 DEF ReportBooks
  <2>2. ASSUME NEW k \in Messages, NEW e \in Deliveries, Video(e)' = k,
               run'[e].st = "resolved"
        PROVE  Ended(k)'
    BY <1>4, <1>6, <2>1, <2>2 DEF ToldOnce
  <2>3. ASSUME NEW k \in Messages, status[k] \in Terminal,
               NEW i \in 1 .. Len(outbox')
        PROVE  outbox'[i][1] # k
    <3>1. k # m
      BY <1>1, <2>3 DEF Ended
    <3>2. \A j \in 1 .. n : outbox[j][1] # k
      BY <2>1, <2>3 DEF ToldOnce, n
    <3> QED
      BY <1>2, <1>3, <3>1, <3>2
  <2>4. ASSUME NEW i \in 1 .. Len(outbox'), NEW j \in 1 .. Len(outbox'), i < j,
               outbox'[i][1] = outbox'[j][1]
        PROVE  outbox'[i][2] \notin Terminal
    <3>1. i \in 1 .. n /\ outbox'[i] = outbox[i]
      BY <1>2, <2>4
    <3>2. CASE j = n + 1
      BY <1>1, <1>2, <2>4, <3>1, <3>2 DEF Ended, n
    <3>3. CASE j \in 1 .. n
      BY <1>2, <2>1, <2>4, <3>1, <3>3 DEF ToldOnce, n
    <3> QED
      BY <1>3, <3>2, <3>3
  <2> QED
    BY <2>2, <2>3, <2>4 DEF ToldOnce
<1> QED
  BY <1>5, <1>7, <1>8 DEF ReportBooks

\* The api receives the oldest status.
LEMMA ReceivedStep ==
  ASSUME VideoInv, ReportInv, DeliverStatus
  PROVE  ReportInv'
<1> SUFFICES ASSUME Calm
             PROVE  ReportBooks'
  BY DEF ReportInv, Calm, DeliverStatus, CallbackGoesOn, consumerVars
<1>9. repeats' = repeats
  BY DEF DeliverStatus, CallbackGoesOn, linkVars
<1> DEFINE h == outbox[1][1]
           st == outbox[1][2]
           n == Len(outbox)
<1>1. ReportBooks
  BY DEF ReportInv
<1>2. /\ outbox # <<>> /\ outbox \in Seq(Messages \X Statuses)
      /\ outbox' = Tail(outbox)
      /\ status' = [status EXCEPT ![Head(outbox)[1]] = Head(outbox)[2]]
      /\ status \in [Messages -> Statuses]
      /\ UNCHANGED <<run, job>>
  BY DEF DeliverStatus, CallbackGoesOn, consumerVars, VideoInv, VideoTypeOK
<1>3. /\ n \in Nat /\ 1 \in 1 .. n /\ Len(outbox') = n - 1
      /\ \A i \in 1 .. Len(outbox') :
           i + 1 \in 1 .. n /\ i + 1 > 1 /\ outbox'[i] = outbox[i + 1]
      /\ \A i \in 1 .. n : i > 1 => i - 1 \in 1 .. Len(outbox')
                                    /\ outbox[i] = outbox'[i - 1]
      /\ Head(outbox) = outbox[1] /\ outbox[1] \in Messages \X Statuses
  <2> HIDE DEF Statuses
  <2>1. /\ Tail(outbox) \in Seq(Messages \X Statuses)
        /\ n \in Nat /\ n > 0 /\ Len(Tail(outbox)) = n - 1
        /\ \A i \in 1 .. n - 1 : Tail(outbox)[i] = outbox[i + 1]
    BY <1>2, HeadTailProperties, LenProperties
  <2>2. Head(outbox) = outbox[1] /\ outbox[1] \in Messages \X Statuses
    BY <1>2, <2>1, ElementOfSeq
  <2>3. \A i \in 1 .. n : i > 1 => i - 1 \in 1 .. n - 1 /\ (i - 1) + 1 = i
    BY <2>1
  <2>4. \A i \in 1 .. n - 1 : i + 1 \in 1 .. n /\ i + 1 > 1
    BY <2>1
  <2>5. 1 \in 1 .. n
    BY <2>1
  <2> HIDE DEF n
  <2>6. Len(outbox') = n - 1
        /\ \A i \in 1 .. n - 1 : outbox'[i] = outbox[i + 1]
    BY <1>2, <2>1
  <2>7. \A i \in 1 .. n : i > 1 => outbox[i] = outbox'[i - 1]
    BY <2>3, <2>6
  <2> QED
    BY <2>1, <2>2, <2>3, <2>4, <2>5, <2>6, <2>7
<1>4. h \in Messages /\ status'[h] = st
      /\ \A k \in Messages : k # h => status'[k] = status[k]
  BY <1>2, <1>3
<1> HIDE DEF n
<1>5. ASSUME NEW k \in Messages, Heard(k)'
      PROVE  Heard(k)
  <2>1. CASE status'[k] # "none"
    BY <1>3, <1>4, <2>1 DEF Heard, n
  <2>2. CASE \E i \in 1 .. Len(outbox') : outbox'[i][1] = k
    <3>1. PICK i \in 1 .. Len(outbox') : outbox'[i][1] = k
      BY <2>2
    <3>2. i + 1 \in 1 .. n /\ outbox[i + 1][1] = k
      BY <1>3, <3>1
    <3> QED
      BY <3>2 DEF Heard, n
  <2> QED
    BY <1>5, <2>1, <2>2 DEF Heard
<1>6. ASSUME NEW k \in Messages, Ended(k)'
      PROVE  Ended(k)
  BY <1>3, <1>4, <1>6 DEF Ended, n
<1>7. ASSUME repeats' = 0
      PROVE  ToldOnce'
  <2>1. ToldOnce
    BY <1>1, <1>7, <1>9 DEF ReportBooks
  <2>2. ASSUME NEW k \in Messages, Ended(k)
        PROVE  Ended(k)'
    <3>1. CASE status[k] \in Terminal
      <4>1. k # h
        BY <1>3, <2>1, <3>1 DEF ToldOnce, n
      <4> QED
        BY <1>4, <3>1, <4>1 DEF Ended
    <3>2. CASE \E i \in 1 .. n : outbox[i][1] = k /\ outbox[i][2] \in Terminal
      <4>1. PICK i \in 1 .. n : outbox[i][1] = k /\ outbox[i][2] \in Terminal
        BY <3>2
      <4>2. CASE i = 1
        BY <1>4, <4>1, <4>2 DEF Ended
      <4>3. CASE i > 1
        BY <1>3, <4>1, <4>3 DEF Ended
      <4> QED
        BY <1>3, <4>2, <4>3
    <3> QED
      BY <2>2, <3>1, <3>2 DEF Ended, n
  <2>3. ASSUME NEW k \in Messages, status'[k] \in Terminal,
               NEW i \in 1 .. Len(outbox')
        PROVE  outbox'[i][1] # k
    BY <1>3, <1>4, <2>1, <2>3 DEF ToldOnce, n
  <2>4. ASSUME NEW i \in 1 .. Len(outbox'), NEW j \in 1 .. Len(outbox'), i < j,
               outbox'[i][1] = outbox'[j][1]
        PROVE  outbox'[i][2] \notin Terminal
    <3>1. i + 1 \in 1 .. n /\ j + 1 \in 1 .. n /\ i + 1 < j + 1
      <4>1. i + 1 \in 1 .. n /\ j + 1 \in 1 .. n
        BY <1>3
      <4>2. i \in Int /\ j \in Int
        BY <1>3
      <4> QED
        BY <2>4, <4>1, <4>2
    <3> QED
      BY <1>3, <2>1, <2>4, <3>1 DEF ToldOnce, n
  <2>5. ASSUME NEW k \in Messages, NEW d \in Deliveries, Video(d)' = k,
               run'[d].st = "resolved"
        PROVE  Ended(k)'
    BY <1>2, <2>1, <2>2, <2>5 DEF ToldOnce, Video
  <2> QED
    BY <2>3, <2>4, <2>5 DEF ToldOnce
<1>8. \A d \in Deliveries : (Past(d)' <=> Past(d)) /\ Video(d)' = Video(d)
  BY <1>2 DEF Video, Past, Finished, Announced
<1> QED
  BY <1>1, <1>2, <1>5, <1>6, <1>7, <1>8 DEF ReportBooks

\* The api receives a status that the producer keeps: nothing new is said.
LEMMA RepeatedStep ==
  ASSUME VideoInv, ReportInv, ReceiveUnconfirmed
  PROVE  ReportInv'
<1> SUFFICES ASSUME Calm
             PROVE  ReportBooks'
  BY DEF ReportInv, Calm, ReceiveUnconfirmed, consumerVars
<1> DEFINE u == unconfirmed + 1
           h == outbox[u][1]
           st == outbox[u][2]
<1>1. ReportBooks
  BY DEF ReportInv
<1>2. /\ u \in 1 .. Len(outbox)
      /\ UNCHANGED <<outbox, run, job>>
      /\ repeats' # 0
  <2>1. Len(outbox) \in Nat
    <3> HIDE DEF Statuses
    <3> QED
      BY LenProperties DEF VideoInv, VideoTypeOK
  <2>2. unconfirmed \in Nat /\ repeats \in Nat
        /\ (unconfirmed > 0 => repeats > 0)
    BY RepeatsAssumption DEF VideoInv, VideoTypeOK
  <2> QED
    BY <2>1, <2>2 DEF ReceiveUnconfirmed, consumerVars
<1>3. /\ h \in Messages /\ st \in Statuses /\ status'[h] = st
      /\ \A k \in Messages : k # h => status'[k] = status[k]
  <2>1. outbox[u] \in Messages \X Statuses
    <3> HIDE DEF Statuses, u
    <3> QED
      BY <1>2, ElementOfSeq DEF VideoInv, VideoTypeOK
  <2>2. status' = [status EXCEPT ![h] = st] /\ status \in [Messages -> Statuses]
    BY DEF ReceiveUnconfirmed, VideoInv, VideoTypeOK
  <2> QED
    BY <2>1, <2>2
<1>4. \E i \in 1 .. Len(outbox) : outbox[i][1] = h /\ outbox[i][2] = st
  BY <1>2
<1> HIDE DEF u, h, st
<1>5. \A k \in Messages : Heard(k)' => Heard(k)
  BY <1>2, <1>3, <1>4 DEF Heard
<1>6. \A k \in Messages : Ended(k)' => Ended(k)
  BY <1>2, <1>3, <1>4 DEF Ended
<1>7. \A d \in Deliveries : (Past(d)' <=> Past(d)) /\ Video(d)' = Video(d)
  BY <1>2 DEF Video, Past, Finished, Announced
<1> QED
  BY <1>1, <1>2, <1>5, <1>6, <1>7 DEF ReportBooks

\* The producer publishes again what is unconfirmed: nothing new is said.
LEMMA RequeuedStep ==
  ASSUME VideoInv, ReportInv, ProducerReconnects
  PROVE  ReportInv'
<1> SUFFICES ASSUME Calm
             PROVE  ReportBooks'
  BY DEF ReportInv, Calm, ProducerReconnects, consumerVars
<1>1. ReportBooks
  BY DEF ReportInv
<1>2. UNCHANGED <<run, job, status>> /\ repeats' # 0
  BY RepeatsAssumption
     DEF ProducerReconnects, consumerVars, VideoInv, VideoTypeOK
<1>3. PICK k \in 1 .. Len(outbox) : outbox' = Requeued(k)
  BY DEF ProducerReconnects
<1>4. \A i \in 1 .. Len(outbox') :
        \E j \in 1 .. Len(outbox) : outbox'[i] = outbox[j]
  <2>1. outbox \in Seq(Messages \X Statuses)
    BY Zenon DEF VideoInv, VideoTypeOK
  <2>2. /\ Len(Requeued(k)) = Len(outbox)
        /\ \A i \in 1 .. Len(outbox) :
             \E j \in 1 .. Len(outbox) : Requeued(k)[i] = outbox[j]
    BY <2>1, RequeuedStatuses
  <2> HIDE DEF Requeued
  <2> QED
    BY <1>3, <2>2
<1>5. \A m \in Messages : Heard(m)' => Heard(m)
  BY <1>2, <1>4 DEF Heard
<1>6. \A m \in Messages : Ended(m)' => Ended(m)
  BY <1>2, <1>4 DEF Ended
<1>7. \A d \in Deliveries : (Past(d)' <=> Past(d)) /\ Video(d)' = Video(d)
  BY <1>2 DEF Video, Past, Finished, Announced
<1> QED
  BY <1>1, <1>2, <1>5, <1>6, <1>7 DEF ReportBooks

\* What a run's step does outside its own run: nothing.
LEMMA WorkFrame ==
  ASSUME VideoInv, NEW d \in Deliveries, Work(d)
  PROVE  /\ Running(d) /\ Video(d) \in Messages
         /\ UNCHANGED <<status, unconfirmed, repeats>>
         /\ UNCHANGED <<reconnects, crashes, disconnects>>
         /\ \A e \in Deliveries : e # d => run'[e] = run[e] /\ job'[e] = job[e]
         /\ run'[d].msg = run[d].msg
         /\ run[d].st = "running" /\ run[d].st # "resolved"
<1>1. DeliveryInv /\ JobsTyped /\ OutputTyped
  BY TypeParts DEF VideoInv
<1>2. Running(d) /\ Video(d) \in Messages
  BY <1>1, WorkVideo
<1>3. UNCHANGED <<status, unconfirmed, repeats>>
  BY DEF Work, RejectMalformed, Download, Probe, Transcode, Subtitle,
     CorrectSub, ReadMaster, WriteMaster, Fail, ListFiles, UploadFile,
     UploadFails, Unlink, CleanUp, CallbackGoesOn, linkVars
<1>4. CASE CallbackGoesOn
  BY <1>1, <1>2, <1>3, <1>4, WorkMoves DEF CallbackGoesOn, consumerVars, Running
<1>5. CASE RejectMalformed(d) \/ Fail(d) \/ UploadFails(d) \/ CleanUp(d)
  <2>1. /\ AckMessage(d) \/ NackMessage(d)
        /\ job' = [job EXCEPT ![d] = Idle]
    BY <1>5 DEF RejectMalformed, Fail, UploadFails, CleanUp, Return, Throw
  <2>2. UNCHANGED <<reconnects, crashes, disconnects>>
    BY <2>1 DEF AckMessage, NackMessage
  <2>3. /\ \A e \in Deliveries : e # d => run'[e] = run[e]
        /\ run'[d].msg = run[d].msg
    BY <1>1, <2>1 DEF AckMessage, NackMessage, DeliveryInv, ConsumerTypeOK, Run
  <2>4. \A e \in Deliveries : e # d => job'[e] = job[e]
    BY <1>1, <2>1 DEF JobsTyped
  <2> QED
    BY <1>2, <1>3, <2>2, <2>3, <2>4 DEF Running
<1>6. CallbackGoesOn \/ RejectMalformed(d) \/ Fail(d) \/ UploadFails(d)
        \/ CleanUp(d)
  BY DEF Work, Download, Probe, Transcode, Subtitle, CorrectSub,
     ReadMaster, WriteMaster, ListFiles, UploadFile, Unlink
<1> QED
  BY <1>4, <1>5, <1>6

\* How a run ends, seen from the books.
LEMMA EndOfRun ==
  ASSUME VideoInv, NEW d \in Deliveries
  PROVE  /\ AckMessage(d) => run'[d].st = "resolved"
         /\ NackMessage(d) => run'[d].st = "threw"
  BY DEF AckMessage, NackMessage, VideoInv, DeliveryInv, ConsumerTypeOK, Run

LEMMA WorkKeepsReports ==
  ASSUME VideoInv, ReportInv, NEW d \in Deliveries, Work(d)
  PROVE  ReportInv'
<1>1. DeliveryInv /\ JobsTyped /\ OutputTyped
  BY TypeParts DEF VideoInv
<1>2. /\ Running(d) /\ Video(d) \in Messages
      /\ UNCHANGED <<status, repeats, reconnects, crashes, disconnects>>
      /\ \A e \in Deliveries : e # d => run'[e] = run[e] /\ job'[e] = job[e]
      /\ run'[d].msg = run[d].msg
      /\ run[d].st = "running" /\ run[d].st # "resolved"
  BY WorkFrame
<1>3. (Calm' => Calm) /\ (Calm => ~Ended(Video(d)))
  BY <1>2, RunningUnended DEF Calm
<1>4. ASSUME Past(d)', outbox' = outbox, run'[d].st # "resolved"
      PROVE  ReportInv'
  <2>1. \A e \in Deliveries :
          /\ Past(e) => Past(e)'
          /\ Video(e)' = Video(e)
          /\ run'[e].st = "resolved" <=> run[e].st = "resolved"
    BY <1>2, <1>4 DEF Video, Past, Finished, Announced
  <2> QED
    BY <1>2, <1>3, <1>4, <2>1, SilentStep
<1>5. CASE CallbackGoesOn
  <2>1. run' = run /\ Past(d)'
    BY <1>1, <1>5, WorkMoves
       DEF CallbackGoesOn, consumerVars, Past, Announced, Steps
  <2>2. CASE outbox' = outbox
    BY <1>2, <1>4, <2>1, <2>2
  <2>3. CASE Download(d)
    <3>1. Publish(Video(d), "processing") /\ "processing" \in Statuses \ Terminal
      BY <2>3 DEF Download, Statuses, Terminal
    <3> QED
      BY <1>1, <1>2, <1>3, <2>1, <3>1, SpokenStep
  <2>4. outbox' = outbox \/ Download(d) \/ Fail(d) \/ CleanUp(d)
    BY DEF Work, RejectMalformed, Probe, Transcode, Subtitle,
       CorrectSub, ReadMaster, WriteMaster, ListFiles, UploadFile, UploadFails,
       Unlink
  <2>5. CASE Fail(d) \/ CleanUp(d)
    BY <1>2, <2>1, <2>5, EndOfRun DEF Fail, CleanUp, Return
  <2> QED
    BY <2>2, <2>3, <2>4, <2>5
<1>6. CASE RejectMalformed(d) \/ UploadFails(d)
  <2>1. outbox' = outbox /\ NackMessage(d)
    BY <1>6 DEF RejectMalformed, UploadFails, Throw
  <2>2. run'[d].st = "threw"
    BY <2>1, EndOfRun
  <2> QED
    BY <1>4, <2>1, <2>2 DEF Past, Finished, Outcomes
<1>7. CASE Fail(d) \/ CleanUp(d)
  <2>1. PICK st \in Terminal : Publish(Video(d), st) /\ AckMessage(d)
    BY <1>7 DEF Fail, FailurePublished, CleanUp, Return, Terminal
  <2>2. run'[d].st = "resolved" /\ st \in Statuses
    BY <2>1, EndOfRun DEF Statuses
  <2>3. Past(d)'
    BY <2>2 DEF Past, Finished, Outcomes
  <2> QED
    BY <1>1, <1>2, <1>3, <2>1, <2>2, <2>3, SpokenStep
<1>8. CallbackGoesOn \/ RejectMalformed(d) \/ Fail(d) \/ UploadFails(d)
        \/ CleanUp(d)
  BY DEF Work, Download, Probe, Transcode, Subtitle, CorrectSub,
     ReadMaster, WriteMaster, ListFiles, UploadFile, Unlink
<1> QED
  BY <1>5, <1>6, <1>7, <1>8

\* What a delivery does to the runs: it starts a new one, which has not spoken.
LEMMA StartFrame ==
  ASSUME VideoInv, NEW m \in Messages, StartJob(m)
  PROVE  LET new == delivered + 1 IN
           /\ new \in Deliveries
           /\ ~Past(new) /\ run[new].st # "resolved"
           /\ run'[new].st = "running" /\ job'[new].pc \in {"parse", "download"}
           /\ \A e \in Deliveries : e # new => run'[e] = run[e] /\ job'[e] = job[e]
           /\ UNCHANGED <<outbox, status, unconfirmed, repeats>>
           /\ UNCHANGED <<disconnects, crashes, reconnects>>
<1> DEFINE new == delivered + 1
<1>1. /\ new \in Deliveries /\ new > delivered
      /\ job' = [job EXCEPT ![new] = Begin(m)]
      /\ run'[new].st = "running"
      /\ \A d \in Deliveries : d # new => run'[d] = run[d]
      /\ UNCHANGED <<outbox, status, unconfirmed, repeats>>
      /\ UNCHANGED <<disconnects, crashes, reconnects>>
  BY BoundsAssumption
     DEF StartJob, HandleMessage, VideoInv, DeliveryInv, ConsumerTypeOK,
         Deliveries, Run, linkVars
<1>2. run[new].st = "unused"
  BY <1>1 DEF VideoInv, DeliveryInv, RunsNumbered
<1>3. ~Past(new)
  BY <1>1, <1>2
     DEF VideoInv, VideoTypeOK, Past, Finished, Running, Announced, Outcomes
<1>4. job'[new] = Begin(m) /\ \A e \in Deliveries : e # new => job'[e] = job[e]
  BY <1>1 DEF VideoInv, VideoTypeOK
<1>5. Begin(m).pc \in {"parse", "download"}
  BY DEF Begin, Idle
<1> QED
  BY <1>1, <1>2, <1>3, <1>4, <1>5

\* Each step keeps what the api may believe.
LEMMA ReportStep ==
  ASSUME VideoInv, ReportInv, [VideoNext]_vars
  PROVE  ReportInv'
<1>1. ASSUME UNCHANGED <<run, job, outbox, status, repeats>>, Calm' => Calm
      PROVE  ReportInv'
  BY <1>1, SilentStep DEF Video, Past, Finished, Announced
<1>2. CASE Transport
  <2>1. UNCHANGED <<run, job, outbox, status, repeats>>
    BY <1>2 DEF Transport, OpenChannel, BindDeadLetters, BrokerSettles,
       Disconnect, DeliveryTimesOut, LoseChannel, ListenOnQueue, videoVars
  <2>2. Calm' => Calm
    BY <1>2 DEF Transport, OpenChannel, BindDeadLetters, BrokerSettles,
       Disconnect, DeliveryTimesOut, LoseChannel, ListenOnQueue, Calm,
       VideoInv, DeliveryInv, ConsumerTypeOK
  <2> QED
    BY <1>1, <2>1, <2>2
<1>3. CASE Restart
  BY <1>3 DEF Restart, Crash, ReportInv, Calm, VideoInv, DeliveryInv,
     ConsumerTypeOK
<1>4. CASE DeliverStatus
  BY <1>4, ReceivedStep
<1>8. CASE ReceiveUnconfirmed
  BY <1>8, RepeatedStep
<1>9. CASE ProducerReconnects
  BY <1>9, RequeuedStep
<1>5. ASSUME NEW m \in Messages, StartJob(m)
      PROVE  ReportInv'
  <2> DEFINE new == delivered + 1
  <2>1. /\ ~Past(new) /\ run[new].st # "resolved"
        /\ run'[new].st # "resolved"
        /\ \A e \in Deliveries : e # new => run'[e] = run[e] /\ job'[e] = job[e]
        /\ UNCHANGED <<outbox, status, repeats>>
        /\ Calm' => Calm
    BY <1>5, StartFrame DEF Calm
  <2> HIDE DEF new
  <2>2. \A e \in Deliveries :
          /\ Past(e) => Past(e)' /\ Video(e)' = Video(e)
          /\ run'[e].st = "resolved" <=> run[e].st = "resolved"
          /\ run[e].st = "resolved" => Video(e)' = Video(e)
    BY <2>1 DEF Video, Past, Finished, Announced
  <2> QED
    BY <2>1, <2>2, SilentStep
<1>6. CASE \E d \in Deliveries : Work(d)
  BY <1>6, WorkKeepsReports
<1>7. CASE UNCHANGED vars
  BY <1>1, <1>7 DEF vars, consumerVars, videoVars, Calm
<1> QED
  BY <1>2, <1>3, <1>4, <1>5, <1>6, <1>7, <1>8, <1>9 DEF VideoNext

\* Until the process exits or a channel is replaced under it, what was said of
\* a video was said by its one run, and its end by a run that resolved; while
\* the producer has published nothing again, that run has told the end, and
\* nothing was published after it (video.service.ts:57-135,
\* producer.service.ts:40-49).
THEOREM ReportInvariance == VideoSpec => []ReportInv
<1>1. VideoInit => ReportInv
  BY DEF VideoInit, ConsumerInit, NoRun, ReportInv, ReportBooks, ToldOnce,
     Heard, Ended, Terminal
<1>2. VideoInv /\ ReportInv /\ [VideoNext]_vars => ReportInv'
  BY ReportStep
<1> QED
  BY <1>1, <1>2, VideoInvariance, PTL DEF VideoSpec
----------------------------------------------------------------------------
(* What follows for the api.                                               *)

\* The newest status of a video is unique in the buffer.
LEMMA NewestUnique ==
  ASSUME VideoTypeOK, NEW m \in Messages,
         NEW i \in 1 .. Len(outbox), NewestOf(m, i),
         NEW j \in 1 .. Len(outbox), NewestOf(m, j)
  PROVE  i = j
<1>1. Len(outbox) \in Nat
  BY LenProperties DEF VideoTypeOK
<1>2. i \in Int /\ j \in Int
  BY <1>1
<1>3. ~(i < j) /\ ~(j < i)
  <2>1. ASSUME i < j
        PROVE  FALSE
    <3>1. j \in i + 1 .. Len(outbox)
      BY <1>1, <1>2, <2>1
    <3> QED
      BY <3>1 DEF NewestOf
  <2>2. ASSUME j < i
        PROVE  FALSE
    <3>1. i \in j + 1 .. Len(outbox)
      BY <1>1, <1>2, <2>2
    <3> QED
      BY <3>1 DEF NewestOf
  <2> QED
    BY <2>1, <2>2
<1> QED
  BY <1>2, <1>3

\* Where the api will know of an end, the end was told ...
LEMMA ReportedWasTold ==
  ASSUME NEW m \in Messages, Reported(m) \in Terminal
  PROVE  Ended(m)
<1>1. CASE \E i \in 1 .. Len(outbox) : NewestOf(m, i)
  <2> DEFINE c == CHOOSE i \in 1 .. Len(outbox) : NewestOf(m, i)
  <2>1. c \in 1 .. Len(outbox) /\ NewestOf(m, c)
    BY <1>1
  <2> QED
    BY <1>1, <2>1 DEF Ended, NewestOf, Reported
<1>2. CASE ~\E i \in 1 .. Len(outbox) : NewestOf(m, i)
  BY <1>2 DEF Ended, Reported
<1> QED
  BY <1>1, <1>2

\* ... and the api will know of an end that was told, as long as the producer
\* has published nothing again.
LEMMA ToldIsReported ==
  ASSUME VideoTypeOK, ToldOnce, NEW m \in Messages, Ended(m)
  PROVE  Reported(m) \in Terminal
<1>1. CASE status[m] \in Terminal
  <2>1. ~\E i \in 1 .. Len(outbox) : NewestOf(m, i)
    BY <1>1 DEF ToldOnce, NewestOf
  <2> QED
    BY <1>1, <2>1 DEF Reported
<1>2. CASE \E i \in 1 .. Len(outbox) :
             outbox[i][1] = m /\ outbox[i][2] \in Terminal
  <2>1. PICK i \in 1 .. Len(outbox) :
               outbox[i][1] = m /\ outbox[i][2] \in Terminal
    BY <1>2
  <2>2. Len(outbox) \in Nat
    BY LenProperties DEF VideoTypeOK
  <2>3. ASSUME NEW j \in i + 1 .. Len(outbox)
        PROVE  outbox[j][1] # m
    <3>1. j \in 1 .. Len(outbox) /\ i < j
      BY <2>2
    <3> QED
      BY <2>1, <3>1 DEF ToldOnce
  <2>4. NewestOf(m, i)
    BY <2>1, <2>3 DEF NewestOf
  <2> DEFINE c == CHOOSE k \in 1 .. Len(outbox) : NewestOf(m, k)
  <2>5. c \in 1 .. Len(outbox) /\ NewestOf(m, c)
    BY <2>4
  <2>6. c = i
    BY <2>4, <2>5, NewestUnique
  <2> QED
    BY <2>1, <2>4, <2>6 DEF Reported
<1> QED
  BY <1>1, <1>2 DEF Ended

\* Until the process exits, a channel is replaced under it or statuses are
\* published again, a job whose message was acknowledged has told the api how
\* it ended, or is about to: on every path on which processVideoCallback
\* returns, a status was published before, and nothing is published after it
\* (video.service.ts:57-135).
THEOREM AckIsReported == VideoSpec => []AckedIsReported
<1>1. VideoInv /\ ReportInv => AckedIsReported
  <2> SUFFICES ASSUME VideoInv, ReportInv, Calm, repeats = 0,
                      NEW m \in Messages, place[m] = "acked"
               PROVE  Reported(m) \in Terminal
    BY DEF AckedIsReported, Calm
  <2>1. \E d \in Deliveries : run[d].msg = m /\ run[d].st = "resolved"
    BY DEF VideoInv, DeliveryInv, SettledByOwnRun, Calm
  <2>2. ToldOnce
    BY DEF ReportInv, ReportBooks
  <2>3. Ended(m)
    BY <2>1, <2>2 DEF ToldOnce, Video
  <2> QED
    BY <2>2, <2>3, ToldIsReported DEF VideoInv
<1> QED
  BY <1>1, VideoInvariance, ReportInvariance, PTL

\* As long as nothing fails the process stays on its first channel.
LEMMA UntroubledIsCalm ==
  ASSUME VideoInv, crashes = 0, disconnects = 0
  PROVE  Calm
  BY DEF VideoInv, DeliveryInv, NoFailureBooks, Calm

\* Unless something failed, a message on the dead letter queue is one whose
\* video was reported neither as done nor as failed: the callback throws only
\* before it publishes an end, and the nack is its own message's
\* (video.service.ts:119-135, consumer.service.ts:77-82).
THEOREM DeadIsSilent == VideoSpec => []DeadIsUnreported
<1>1. VideoInv /\ ReportInv => DeadIsUnreported
  <2> SUFFICES ASSUME VideoInv, ReportInv, crashes = 0, disconnects = 0,
                      NEW m \in Messages, place[m] \in {"dead", "dropped"},
                      Reported(m) \in Terminal
               PROVE  FALSE
    BY DEF DeadIsUnreported
  <2>1. Calm
    BY UntroubledIsCalm
  <2>2. PICK d \in Deliveries : run[d].msg = m /\ run[d].st = "threw"
    BY <2>1 DEF VideoInv, DeliveryInv, SettledByOwnRun, Calm
  <2>3. PICK e \in Deliveries : Video(e) = m /\ run[e].st = "resolved"
    BY <2>1, ReportedWasTold DEF ReportInv, ReportBooks
  <2>4. d = e
    BY <2>1, <2>2, <2>3, OneRunOfVideo DEF Video, Finished, Outcomes
  <2> QED
    BY <2>2, <2>3, <2>4
<1> QED
  BY <1>1, VideoInvariance, ReportInvariance, PTL

\* Only the api's receipt of a status changes what it knows.
LEMMA OnlyReceiptsTell ==
  ASSUME VideoInv, [VideoNext]_vars, ~DeliverStatus, ~ReceiveUnconfirmed
  PROVE  status' = status
<1>1. CASE Transport
  BY <1>1 DEF Transport, videoVars
<1>2. CASE Restart
  BY <1>2 DEF Restart
<1>3. CASE \E m \in Messages : StartJob(m)
  BY <1>3 DEF StartJob
<1>4. CASE \E d \in Deliveries : Work(d)
  BY <1>4, WorkFrame
<1>5. CASE ProducerReconnects \/ UNCHANGED vars
  BY <1>5 DEF ProducerReconnects, vars, videoVars
<1> QED
  BY <1>1, <1>2, <1>3, <1>4, <1>5 DEF VideoNext

\* Unless something failed and as long as no status is published again, the
\* api sees one end of each video: after done or failed comes nothing else
\* (video.service.ts:57-135).
THEOREM OneEnd == VideoSpec => EndIsFinal
<1> DEFINE Final == crashes' = 0 /\ disconnects' = 0 /\ repeats' = 0 =>
                      \A m \in Messages :
                        status[m] \in Terminal => status'[m] = status[m]
<1>1. VideoInv /\ ReportInv /\ [VideoNext]_vars => Final
  <2> SUFFICES ASSUME VideoInv, ReportInv, [VideoNext]_vars,
                      crashes' = 0, disconnects' = 0, repeats' = 0,
                      NEW m \in Messages, status[m] \in Terminal
               PROVE  status'[m] = status[m]
    OBVIOUS
  <2>1. CASE DeliverStatus
    <3>1. Calm /\ repeats = 0
      <4>1. crashes = 0 /\ disconnects = 0 /\ repeats = 0
        BY <2>1 DEF DeliverStatus, CallbackGoesOn, consumerVars, linkVars
      <4> QED
        BY <4>1, UntroubledIsCalm
    <3>2. /\ outbox # <<>> /\ outbox \in Seq(Messages \X Statuses)
          /\ status' = [status EXCEPT ![Head(outbox)[1]] = Head(outbox)[2]]
          /\ status \in [Messages -> Statuses]
      BY <2>1 DEF DeliverStatus, VideoInv, VideoTypeOK
    <3>3. Head(outbox) = outbox[1] /\ 1 \in 1 .. Len(outbox)
      BY <3>2
    <3>4. outbox[1][1] # m
      BY <3>1, <3>3 DEF ReportInv, ReportBooks, ToldOnce
    <3> QED
      BY <3>2, <3>3, <3>4
  <2>2. CASE ~DeliverStatus
    <3>1. ~ReceiveUnconfirmed
      BY RepeatsAssumption DEF ReceiveUnconfirmed, VideoInv, VideoTypeOK
    <3> QED
      BY <2>2, <3>1, OnlyReceiptsTell
  <2> QED
    BY <2>1, <2>2
<1>2. VideoInv /\ ReportInv /\ [VideoNext]_vars => [Final]_vars
  BY <1>1
<1> QED
  BY <1>2, VideoInvariance, ReportInvariance, PTL DEF VideoSpec, EndIsFinal
----------------------------------------------------------------------------
(* VideoJob implements StatusFeed: each step of the node is a step of the  *)
(* feed the api relies on, or one the feed does not see.                   *)

\* Which attempts are open.
LEMMA OpenAttempt ==
  ASSUME NEW a, NEW v
  PROVE  <<a, v>> \in OpenAttempts <=>
           a \in Deliveries /\ Announced(a) /\ v = Video(a)
  BY DEF OpenAttempts

\* Steps that leave the open attempts as they are.
LEMMA SameAttempts ==
  ASSUME \A d \in Deliveries : Announced(d)' <=> Announced(d),
         \A d \in Deliveries : Announced(d) => Video(d)' = Video(d)
  PROVE  OpenAttempts' = OpenAttempts
<1>1. OpenAttempts' = {<<d, Video(d)'>> : d \in {e \in Deliveries : Announced(e)'}}
  BY DEF OpenAttempts
<1> QED
  BY <1>1 DEF OpenAttempts

\* A run that opens an attempt, and one that ends it.
LEMMA MoreAttempts ==
  ASSUME NEW d \in Deliveries, Announced(d)', Video(d)' = Video(d),
         \A e \in Deliveries : e # d =>
           /\ Announced(e)' <=> Announced(e)
           /\ Video(e)' = Video(e)
  PROVE  OpenAttempts' = OpenAttempts \cup {<<d, Video(d)>>}
<1>1. OpenAttempts' = {<<e, Video(e)'>> : e \in {c \in Deliveries : Announced(c)'}}
  BY DEF OpenAttempts
<1> QED
  BY <1>1 DEF OpenAttempts

LEMMA FewerAttempts ==
  ASSUME NEW d \in Deliveries, ~Announced(d)',
         \A e \in Deliveries : e # d =>
           /\ Announced(e)' <=> Announced(e)
           /\ Video(e)' = Video(e)
  PROVE  OpenAttempts' = OpenAttempts \ {<<d, Video(d)>>}
<1>1. OpenAttempts' = {<<e, Video(e)'>> : e \in {c \in Deliveries : Announced(c)'}}
  BY DEF OpenAttempts
<1> QED
  BY <1>1 DEF OpenAttempts

\* A step the feed does not see.
LEMMA FeedStutters ==
  ASSUME OpenAttempts' = OpenAttempts,
         UNCHANGED <<outbox, status, unconfirmed, disconnects, crashes>>
  PROVE  UNCHANGED Feed!feedVars
  BY DEF Feed!feedVars

\* The download step announces the video, which nobody has spoken of unless
\* something failed.
LEMMA DownloadAnnounces ==
  ASSUME VideoInv, ReportInv, NEW d \in Deliveries, Download(d)
  PROVE  Feed!Announce(d, Video(d))
<1>1. Work(d)
  BY DEF Work
<1>2. /\ Running(d) /\ Video(d) \in Messages
      /\ UNCHANGED <<status, unconfirmed, crashes, disconnects>>
      /\ \A e \in Deliveries : e # d => run'[e] = run[e] /\ job'[e] = job[e]
      /\ run'[d].msg = run[d].msg
  BY <1>1, WorkFrame
<1>3. ~Announced(d)
  BY DEF Download, At, Announced
<1>4. disconnects + crashes > 0 \/ Feed!Unheard(Video(d))
  <2> SUFFICES ASSUME ~(disconnects + crashes > 0)
               PROVE  Feed!Unheard(Video(d))
    OBVIOUS
  <2>1. crashes = 0 /\ disconnects = 0
    BY DEF VideoInv, DeliveryInv, ConsumerTypeOK
  <2>2. ~Heard(Video(d))
    BY <1>2, <1>3, <2>1, UntroubledIsCalm, RunningUnended
  <2>3. DOMAIN outbox = 1 .. Len(outbox)
    BY LenProperties DEF VideoInv, VideoTypeOK
  <2> QED
    BY <2>2, <2>3 DEF Feed!Unheard, Heard
<1>5. OpenAttempts' = OpenAttempts \cup {<<d, Video(d)>>}
  <2>1. Announced(d)'
    <3>1. CallbackGoesOn
      BY DEF Download
    <3> QED
      BY <1>1, <3>1, WorkMoves, TypeParts DEF VideoInv, Announced, Steps
  <2> QED
    BY <1>2, <2>1, MoreAttempts DEF Announced, Video
<1>6. \A u \in Messages : <<d, u>> \notin OpenAttempts
  BY <1>3, OpenAttempt
<1>7. outbox' = Append(outbox, <<Video(d), "processing">>)
  BY DEF Download, Publish
<1> QED
  BY <1>2, <1>4, <1>5, <1>6, <1>7 DEF Feed!Announce

\* A run that reports an end, or throws after the announcement, ends its
\* attempt.
LEMMA EndsAttempt ==
  ASSUME VideoInv, NEW d \in Deliveries,
         Fail(d) \/ CleanUp(d) \/ UploadFails(d)
  PROVE  Feed!End(d, Video(d)) \/ Feed!EndSilently(d, Video(d))
<1>1. Work(d)
  BY DEF Work
<1>2. /\ Video(d) \in Messages
      /\ UNCHANGED <<status, unconfirmed, crashes, disconnects>>
      /\ \A e \in Deliveries : e # d => run'[e] = run[e] /\ job'[e] = job[e]
  BY <1>1, WorkFrame
<1>3. Announced(d)
  BY DEF Fail, CleanUp, UploadFails, At, Announced
<1>4. ~Announced(d)'
  <2>1. job' = [job EXCEPT ![d] = Idle]
    BY DEF Fail, CleanUp, UploadFails, Return, Throw
  <2> QED
    BY <2>1 DEF VideoInv, VideoTypeOK, Announced, Idle
<1>5. /\ <<d, Video(d)>> \in OpenAttempts
      /\ OpenAttempts' = OpenAttempts \ {<<d, Video(d)>>}
  BY <1>2, <1>3, <1>4, OpenAttempt, FewerAttempts DEF Announced, Video
<1>6. CASE Fail(d) \/ CleanUp(d)
  <2>1. \E st \in Feed!Ends : outbox' = Append(outbox, <<Video(d), st>>)
    BY <1>6 DEF Fail, FailurePublished, CleanUp, Publish, Feed!Ends
  <2> QED
    BY <1>2, <1>5, <2>1 DEF Feed!End
<1>7. CASE UploadFails(d)
  BY <1>2, <1>5, <1>7 DEF UploadFails, Feed!EndSilently
<1> QED
  BY <1>6, <1>7

\* Each step of the node.
LEMMA VideoStepIsFeedStep ==
  ASSUME VideoInv, ReportInv, [VideoNext]_vars
  PROVE  [Feed!FeedNext]_(Feed!feedVars)
<1>1. ASSUME UNCHANGED <<run, job>>
      PROVE  OpenAttempts' = OpenAttempts
  BY <1>1, SameAttempts DEF Announced, Video
<1>2. CASE Transport
  <2>1. UNCHANGED <<run, job, outbox, status, unconfirmed, crashes>>
    BY <1>2 DEF Transport, OpenChannel, BindDeadLetters, BrokerSettles,
       Disconnect, DeliveryTimesOut, LoseChannel, ListenOnQueue, videoVars
  <2>2. CASE Disconnect \/ DeliveryTimesOut
    <3>1. disconnects' + crashes' > 0
      BY <2>1, <2>2 DEF Disconnect, DeliveryTimesOut, LoseChannel, VideoInv,
         DeliveryInv, ConsumerTypeOK
    <3>2. Feed!LoseChannel
      BY <1>1, <2>1, <3>1 DEF Feed!LoseChannel
    <3> QED
      BY <3>2 DEF Feed!FeedNext
  <2>3. CASE ~(Disconnect \/ DeliveryTimesOut)
    <3>1. disconnects' = disconnects
      BY <1>2, <2>3 DEF Transport, OpenChannel, BindDeadLetters,
         BrokerSettles, ListenOnQueue
    <3> QED
      BY <1>1, <2>1, <3>1, FeedStutters
  <2> QED
    BY <2>2, <2>3
<1>3. CASE Restart
  <2>1. disconnects' + crashes' > 0
    BY <1>3 DEF Restart, Crash, VideoInv, DeliveryInv, ConsumerTypeOK
  <2>2. \A d \in Deliveries : ~Announced(d)'
    BY <1>3 DEF Restart, Announced, Idle
  <2>3. OpenAttempts' = {}
    <3>1. OpenAttempts' = {<<e, Video(e)'>> : e \in {c \in Deliveries : Announced(c)'}}
      BY DEF OpenAttempts
    <3> QED
      BY <2>2, <3>1
  <2>4. Feed!ProcessExits
    BY <1>3, <2>1, <2>3 DEF Restart, Feed!ProcessExits
  <2> QED
    BY <2>4 DEF Feed!FeedNext
<1>4. CASE DeliverStatus
  <2>1. UNCHANGED <<run, job, unconfirmed, crashes, disconnects>>
    BY <1>4 DEF DeliverStatus, CallbackGoesOn, consumerVars, linkVars
  <2>2. Feed!Receive
    BY <1>1, <1>4, <2>1 DEF DeliverStatus, Feed!Receive
  <2> QED
    BY <2>2 DEF Feed!FeedNext
<1>8. CASE ReceiveUnconfirmed
  <2>1. UNCHANGED <<run, job, outbox, crashes, disconnects>>
    BY <1>8 DEF ReceiveUnconfirmed, consumerVars
  <2>2. Feed!ReceiveUnconfirmed
    BY <1>1, <1>8, <2>1 DEF ReceiveUnconfirmed, Feed!ReceiveUnconfirmed
  <2> QED
    BY <2>2 DEF Feed!FeedNext
<1>9. CASE ProducerReconnects
  <2>1. UNCHANGED <<run, job, status, crashes, disconnects>>
    BY <1>9 DEF ProducerReconnects, consumerVars
  <2>2. Feed!PublishAgain
    BY <1>1, <1>9, <2>1 DEF ProducerReconnects, Requeued, Feed!PublishAgain
  <2> QED
    BY <2>2 DEF Feed!FeedNext
<1>5. ASSUME NEW m \in Messages, StartJob(m)
      PROVE  UNCHANGED Feed!feedVars
  <2> DEFINE new == delivered + 1
  <2>1. /\ new \in Deliveries
        /\ ~Past(new) /\ job'[new].pc \in {"parse", "download"}
        /\ \A e \in Deliveries : e # new => run'[e] = run[e] /\ job'[e] = job[e]
        /\ UNCHANGED <<outbox, status, unconfirmed, disconnects, crashes>>
    BY <1>5, StartFrame
  <2> HIDE DEF new
  <2>2. OpenAttempts' = OpenAttempts
    <3>1. \A e \in Deliveries : Announced(e)' <=> Announced(e)
      BY <2>1 DEF Past, Announced
    <3>2. \A e \in Deliveries : Announced(e) => Video(e)' = Video(e)
      BY <2>1 DEF Past, Video
    <3> QED
      BY <3>1, <3>2, SameAttempts
  <2> QED
    BY <2>1, <2>2, FeedStutters
<1>6. ASSUME NEW d \in Deliveries, Work(d)
      PROVE  [Feed!FeedNext]_(Feed!feedVars)
  <2>1. /\ Video(d) \in Messages
        /\ UNCHANGED <<status, unconfirmed, crashes, disconnects>>
        /\ \A e \in Deliveries : e # d => run'[e] = run[e] /\ job'[e] = job[e]
        /\ run'[d].msg = run[d].msg
    BY <1>6, WorkFrame
  <2>2. CASE Download(d)
    BY <2>1, <2>2, DownloadAnnounces DEF Feed!FeedNext
  <2>3. CASE Fail(d) \/ CleanUp(d) \/ UploadFails(d)
    BY <2>1, <2>3, EndsAttempt DEF Feed!FeedNext
  <2>4. CASE RejectMalformed(d)
    <3>1. ~Announced(d) /\ ~Announced(d)' /\ outbox' = outbox
      BY <2>4 DEF RejectMalformed, At, VideoInv, VideoTypeOK, Announced, Idle
    <3>2. OpenAttempts' = OpenAttempts
      BY <2>1, <3>1, SameAttempts DEF Announced, Video
    <3> QED
      BY <2>1, <3>1, <3>2, FeedStutters
  <2>5. CASE Probe(d) \/ Transcode(d) \/ Subtitle(d) \/ CorrectSub(d)
             \/ ReadMaster(d) \/ WriteMaster(d) \/ ListFiles(d)
             \/ \E f \in Files : UploadFile(d, f) \/ Unlink(d, f)
    <3>1. CallbackGoesOn /\ outbox' = outbox
      BY <2>5 DEF Probe, Transcode, Subtitle, CorrectSub, ReadMaster,
         WriteMaster, ListFiles, UploadFile, Unlink
    <3>2. Announced(d)
      BY <2>5 DEF Probe, Transcode, Subtitle, CorrectSub, ReadMaster,
         WriteMaster, ListFiles, UploadFile, Unlink, At, Announced
    <3>3. Announced(d)'
      BY <1>6, <3>1, WorkMoves, TypeParts DEF VideoInv, Announced, Steps
    <3>4. OpenAttempts' = OpenAttempts
      BY <2>1, <3>2, <3>3, SameAttempts DEF Announced, Video
    <3> QED
      BY <2>1, <3>1, <3>4, FeedStutters
  <2> QED
    BY <1>6, <2>2, <2>3, <2>4, <2>5 DEF Work
<1>7. CASE UNCHANGED vars
  BY <1>1, <1>7, FeedStutters DEF vars, consumerVars, videoVars
<1> QED
  BY <1>2, <1>3, <1>4, <1>5, <1>6, <1>7, <1>8, <1>9 DEF VideoNext

\* The node implements the feed: for every message, subtitle list, crash and
\* loss of the consumer's channel or of the producer's connection, the api sees
\* each status, in the order they were published until the producer publishes
\* what is unconfirmed again; an announcement before each end, one end for each
\* announcement, and one attempt at a video as long as nothing else failed
\* (video.service.ts:57-135, producer.service.ts:40-49).
THEOREM FeedImplemented == VideoSpec => ImplementsFeed
<1>1. VideoInit => Feed!FeedInit
  <2> SUFFICES ASSUME VideoInit
               PROVE  Feed!FeedInit
    OBVIOUS
  <2>1. OpenAttempts = {}
    BY DEF VideoInit, OpenAttempts, Announced, Idle
  <2>2. (disconnects + crashes > 0) = FALSE
    BY DEF VideoInit, ConsumerInit
  <2> QED
    BY <2>1, <2>2 DEF VideoInit, Feed!FeedInit
<1>2. VideoInv /\ ReportInv /\ [VideoNext]_vars => [Feed!FeedNext]_(Feed!feedVars)
  BY VideoStepIsFeedStep
<1> QED
  BY <1>1, <1>2, VideoInvariance, ReportInvariance, PTL
     DEF VideoSpec, ImplementsFeed, Feed!FeedSpec
============================================================================
