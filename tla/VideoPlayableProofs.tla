------------------------ MODULE VideoPlayableProofs ------------------------
(***************************************************************************)
(* Proof that a video reported as done can be played: what a run has made  *)
(* of its video at each step of processVideoCallback, whatever an earlier  *)
(* attempt left in the working directory and in the bucket.                *)
(***************************************************************************)
EXTENDS VideoReportProofs

USE DEF brokerVars, channelVars, faultVars

----------------------------------------------------------------------------
(* The invariant.                                                          *)

\* What the master playlist should list after the first k subtitles: of each
\* language name the last subtitle.
ListedUpTo(m, k) ==
  {l \in Subs :
     \E i \in 1 .. k :
       /\ SubsOf[m][i] = l
       /\ \A j \in i + 1 .. k : SameName(SubsOf[m][j], l) => SubsOf[m][j] = l}

SubSteps == {"subtitle", "correct", "read", "write"}

\* How many subtitles the master playlist in the directory has already.
Covered(d) ==
  IF job[d].pc \in SubSteps THEN job[d].sub - 1 ELSE Len(SubsOf[Video(d)])

\* Once the video is encoded, the directory holds it and the subtitles covered
\* so far; the one at hand is being rewritten until it is corrected.
EncodeHolds(d) ==
  /\ dir[Video(d)].source
  /\ Out(d).file["media"] = "whole"
  /\ Out(d).file["master"] = "whole"
  /\ Out(d).listed = ListedUpTo(Video(d), Covered(d))
  /\ \A i \in 1 .. Covered(d) :
       \/ Out(d).file[SubsOf[Video(d)][i]] = "whole"
       \/ job[d].pc = "correct" /\ SubsOf[Video(d)][i] = Lang(d)
  /\ job[d].pc \in {"read", "write"} => Out(d).file[Lang(d)] = "whole"
  /\ job[d].pc = "write" => job[d].seen = Out(d).listed

Needed(m) == {"media", "master"} \cup Languages(m)

\* What moveFilesToMinio has still to do is all that the bucket may lack.
UploadHolds(d) ==
  /\ \A f \in Needed(Video(d)) \ job[d].left :
       store[Video(d)].file[f] = "whole"
  /\ "master" \notin job[d].left =>
       store[Video(d)].listed = Listable(Video(d))

\* What a run relies on at each step.  Once all is uploaded the directory goes
\* away, and nothing relies on it any more.
Progress(d) ==
  /\ job[d].pc \in {"parse", "download", "probe", "transcode"} =>
       job[d].sub = 0
  /\ job[d].pc = "transcode" => dir[Video(d)].source
  /\ job[d].pc \in SubSteps \cup {"list"} => EncodeHolds(d)
  /\ job[d].pc = "upload" => /\ UploadHolds(d)
                             /\ job[d].left # {} => EncodeHolds(d)

\* The api was told that the video is done, or is about to be.
Promised(m) ==
  \/ status[m] = "done"
  \/ \E i \in 1 .. Len(outbox) : outbox[i] = <<m, "done">>

Sound == reconnects = 0 /\ faults = 0

PlayInv ==
  Sound => /\ \A d \in Deliveries : Running(d) => Progress(d)
           /\ \A m \in Messages : Promised(m) => Playable(m)
----------------------------------------------------------------------------
(* The subtitle list.                                                      *)

\* The subtitles of a message, in its order.
LEMMA SubtitlesOf ==
  ASSUME NEW m \in Messages
  PROVE  /\ Len(SubsOf[m]) \in Nat /\ DOMAIN SubsOf[m] = 1 .. Len(SubsOf[m])
         /\ \A i \in 1 .. Len(SubsOf[m]) : SubsOf[m][i] \in Subs
         /\ Languages(m) = {SubsOf[m][i] : i \in 1 .. Len(SubsOf[m])}
<1>1. SubsOf[m] \in Seq(Subs)
  BY SubsOfAssumption
<1>2. Len(SubsOf[m]) \in Nat /\ DOMAIN SubsOf[m] = 1 .. Len(SubsOf[m])
  BY <1>1, LenProperties
<1>3. \A i \in 1 .. Len(SubsOf[m]) : SubsOf[m][i] \in Subs
  BY <1>1, ElementOfSeq
<1> QED
  BY <1>2, <1>3 DEF Languages, ToSet

\* addSubToMaster keeps the list: the subtitle takes the place of the one with
\* its name, whether that is another language or the same one again.
LEMMA ListGrows ==
  ASSUME NEW m \in Messages, NEW k \in 1 .. Len(SubsOf[m])
  PROVE  {l \in ListedUpTo(m, k - 1) : ~SameName(l, SubsOf[m][k])}
           \cup {SubsOf[m][k]} = ListedUpTo(m, k)
<1> DEFINE s == SubsOf[m][k]
<1>1. /\ k \in Nat /\ k \in 1 .. k
      /\ \A i \in 1 .. k : i = k \/ i \in 1 .. k - 1
      /\ \A i \in 1 .. k - 1 : i \in 1 .. k /\ k \in i + 1 .. k
      /\ \A i \in 1 .. k - 1 : \A j \in i + 1 .. k : j = k \/ j \in i + 1 .. k - 1
      /\ \A i \in 1 .. k - 1 : \A j \in i + 1 .. k - 1 : j \in i + 1 .. k
      /\ k + 1 .. k = {}
  BY SubtitlesOf
<1>2. s \in Subs
  BY SubtitlesOf
<1>3. ASSUME NEW l \in ListedUpTo(m, k - 1), ~SameName(l, s)
      PROVE  l \in ListedUpTo(m, k)
  <2>1. PICK i \in 1 .. k - 1 :
               /\ SubsOf[m][i] = l
               /\ \A j \in i + 1 .. k - 1 :
                    SameName(SubsOf[m][j], l) => SubsOf[m][j] = l
    BY <1>3 DEF ListedUpTo
  <2>2. \A j \in i + 1 .. k : SameName(SubsOf[m][j], l) => SubsOf[m][j] = l
    BY <1>1, <1>3, <2>1 DEF SameName
  <2> QED
    BY <1>1, <1>3, <2>1, <2>2 DEF ListedUpTo
<1>4. s \in ListedUpTo(m, k)
  BY <1>1, <1>2 DEF ListedUpTo
<1>5. ASSUME NEW l \in ListedUpTo(m, k), l # s
      PROVE  l \in ListedUpTo(m, k - 1) /\ ~SameName(l, s)
  <2>1. PICK i \in 1 .. k :
               /\ SubsOf[m][i] = l
               /\ \A j \in i + 1 .. k :
                    SameName(SubsOf[m][j], l) => SubsOf[m][j] = l
    BY <1>5 DEF ListedUpTo
  <2>2. i \in 1 .. k - 1
    BY <1>1, <1>5, <2>1
  <2>3. ~SameName(l, s)
    BY <1>1, <1>5, <2>1, <2>2 DEF SameName
  <2> QED
    BY <1>1, <1>5, <2>1, <2>2, <2>3 DEF ListedUpTo
<1> QED
  BY <1>3, <1>4, <1>5

\* It starts empty, as ffmpeg writes it, and ends as what a player needs.
LEMMA ListEnds ==
  ASSUME NEW m \in Messages
  PROVE  /\ ListedUpTo(m, 0) = {}
         /\ ListedUpTo(m, Len(SubsOf[m])) = Listable(m)
<1>1. ListedUpTo(m, 0) = {}
  BY DEF ListedUpTo
<1>2. ListedUpTo(m, Len(SubsOf[m])) = Listable(m)
  BY SubtitlesOf DEF ListedUpTo, Listable
<1> QED
  BY <1>1, <1>2
----------------------------------------------------------------------------
(* What a write does to a directory and an upload to the bucket.           *)

LEMMA FileEffect ==
  ASSUME NEW D \in Dirs, NEW m \in Messages, NEW f \in Files, NEW c \in Contents
  PROVE  LET E == [D EXCEPT ![m].out.file[f] = c]
         IN  /\ E \in Dirs
             /\ E[m].source = D[m].source /\ E[m].out.listed = D[m].out.listed
             /\ E[m].out.file[f] = c
             /\ \A g \in Files : g # f => E[m].out.file[g] = D[m].out.file[g]
<1>1. D[m] \in [source : BOOLEAN, out : Output] /\ D[m].out \in Output
      /\ D[m].out.file \in [Files -> Contents]
  BY DEF Dirs, Output
<1>2. [D EXCEPT ![m].out.file[f] = c] \in Dirs
  BY FileWritten
<1> QED
  BY <1>1, <1>2 DEF Dirs, Output

LEMMA ListEffect ==
  ASSUME NEW D \in Dirs, NEW m \in Messages, NEW L \in SUBSET Subs
  PROVE  LET E == [D EXCEPT ![m].out.listed = L]
         IN  /\ E[m].source = D[m].source
             /\ E[m].out.file = D[m].out.file
             /\ E[m].out.listed = L
<1>1. D[m] \in [source : BOOLEAN, out : Output] /\ D[m].out \in Output
  BY DEF Dirs
<1> QED
  BY <1>1 DEF Dirs, Output
----------------------------------------------------------------------------
(* Each step keeps the invariant.                                          *)

\* Until a channel is replaced, a run's step has to keep only its own progress
\* and what the bucket holds, and may promise only a video that can be played.
LEMMA OwnStep ==
  ASSUME VideoInv, PlayInv, NEW d \in Deliveries, Work(d),
         Sound' => Sound,
         Sound /\ Sound' /\ Running(d)' => Progress(d)',
         \A m \in Messages :
           Sound /\ Sound' /\ Promised(m)' =>
             Playable(m)' \/ (Promised(m) /\ store' = store)
  PROVE  PlayInv'
<1> SUFFICES ASSUME Sound'
             PROVE  /\ \A e \in Deliveries : Running(e)' => Progress(e)'
                    /\ \A m \in Messages : Promised(m)' => Playable(m)'
  BY DEF PlayInv
<1>1. Sound /\ DeliveryInv /\ Running(d)
  BY WorkFrame DEF VideoInv
<1>2. ASSUME NEW e \in Deliveries, Running(e)'
      PROVE  Progress(e)'
  <2>1. e = d
    <3> SUFFICES ASSUME e # d
                 PROVE  FALSE
      OBVIOUS
    <3>1. Running(e)
      BY <1>2, WorkFrame DEF Running
    <3> QED
      BY <1>1, <3>1, OneRunning DEF Sound
  <2> QED
    BY <1>1, <1>2, <2>1
<1>3. ASSUME NEW m \in Messages, Promised(m)'
      PROVE  Playable(m)'
  BY <1>1, <1>3 DEF PlayInv, Playable
<1> QED
  BY <1>2, <1>3

\* The invariant as a run's step finds it.
LEMMA AtWork ==
  ASSUME VideoInv, PlayInv, Sound, NEW d \in Deliveries, Work(d)
  PROVE  /\ Progress(d)
         /\ Running(d) /\ Video(d) \in Messages
         /\ job \in [Deliveries -> Job] /\ job[d] \in Job
         /\ dir \in Dirs /\ store \in [Messages -> Output]
         /\ Video(d)' = Video(d)
<1>1. JobsTyped /\ OutputTyped
  BY TypeParts DEF VideoInv
<1> QED
  BY <1>1, WorkFrame DEF PlayInv, JobsTyped, OutputTyped, Dirs, Video

\* A step that publishes nothing promises nothing.
LEMMA NothingPromised ==
  ASSUME UNCHANGED <<outbox, status>>, NEW m \in Messages, Promised(m)'
  PROVE  Promised(m)
  BY DEF Promised

\* Nor does one that publishes another status.
LEMMA OtherStatusPromises ==
  ASSUME VideoInv, NEW n \in Messages, NEW st \in {"processing", "failed"},
         Publish(n, st), status' = status, NEW m \in Messages, Promised(m)'
  PROVE  Promised(m)
<1>1. OutputTyped /\ st \in Statuses
  BY TypeParts DEF VideoInv, Statuses, Terminal
<1>2. /\ Len(outbox) \in Nat /\ Len(outbox') = Len(outbox) + 1
      /\ outbox'[Len(outbox) + 1] = <<n, st>>
      /\ \A i \in 1 .. Len(outbox) : outbox'[i] = outbox[i]
  BY <1>1, PublishEffect
<1>3. \A i \in 1 .. Len(outbox') : i = Len(outbox) + 1 \/ i \in 1 .. Len(outbox)
  BY <1>2
<1>4. <<n, st>> # <<m, "done">>
  OBVIOUS
<1> QED
  BY <1>2, <1>3, <1>4 DEF Promised

\* The end of a run leaves it no progress to keep.
LEMMA EndIsQuiet ==
  ASSUME VideoInv, NEW d \in Deliveries, AckMessage(d) \/ NackMessage(d)
  PROVE  ~Running(d)' /\ reconnects' = reconnects
  BY DEF AckMessage, NackMessage, Running, VideoInv, DeliveryInv,
     ConsumerTypeOK, Run

\* Nothing is encoded before ffmpeg ran: the directory may hold anything.
LEMMA DownloadPlays ==
  ASSUME VideoInv, PlayInv, NEW d \in Deliveries, Download(d)
  PROVE  PlayInv'
<1>1. Work(d)
  BY DEF Work
<1>2. Sound' => Sound
  BY DEF Sound, Download, CallbackGoesOn, consumerVars
<1>3. ASSUME Sound
      PROVE  Progress(d)'
  <2>1. job'[d].pc = "probe" /\ job'[d].sub = job[d].sub /\ job[d].sub = 0
    BY <1>1, <1>3, AtWork DEF Download, Goto, At, Progress, Job
  <2> QED
    BY <2>1 DEF Progress, SubSteps
<1>4. ASSUME NEW m \in Messages, Promised(m)'
      PROVE  Promised(m) /\ store' = store
  BY <1>1, <1>4, WorkFrame, OtherStatusPromises DEF Download
<1> QED
  BY <1>1, <1>2, <1>3, <1>4, OwnStep

LEMMA ProbePlays ==
  ASSUME VideoInv, PlayInv, NEW d \in Deliveries, Probe(d)
  PROVE  PlayInv'
<1>1. Work(d)
  BY DEF Work
<1>2. Sound' => Sound
  BY DEF Sound, Probe, CallbackGoesOn, consumerVars
<1>3. ASSUME Sound
      PROVE  Progress(d)'
  <2>1. job'[d].pc = "transcode" /\ job'[d].sub = job[d].sub /\ job[d].sub = 0
    BY <1>1, <1>3, AtWork DEF Probe, Goto, At, Progress, Job
  <2>2. dir'[Video(d)].source
    <3> DEFINE D == [dir EXCEPT ![Video(d)].out.file["media"] = "part"]
    <3>1. "media" \in Files /\ "master" \in Files /\ "part" \in Contents
      BY DEF Files, Contents
    <3>2. D \in Dirs /\ D[Video(d)].source = dir[Video(d)].source
      BY <1>1, <1>3, <3>1, AtWork, FileEffect
    <3>3. dir' = [D EXCEPT ![Video(d)].out.file["master"] = "part"]
      BY DEF Probe
    <3> HIDE DEF D
    <3>4. dir'[Video(d)].source = D[Video(d)].source
      BY <1>1, <1>3, <3>1, <3>2, <3>3, AtWork, FileEffect
    <3> QED
      BY <3>2, <3>4 DEF Probe
  <2>3. Video(d)' = Video(d)
    BY <1>1, <1>3, AtWork
  <2> QED
    BY <2>1, <2>2, <2>3 DEF Progress, SubSteps
<1>4. ASSUME NEW m \in Messages, Promised(m)'
      PROVE  Promised(m) /\ store' = store
  BY <1>1, <1>4, WorkFrame, NothingPromised DEF Probe
<1> QED
  BY <1>1, <1>2, <1>3, <1>4, OwnStep
\* Behind the video or a subtitle, all subtitles so far are covered.
LEMMA NextSubCovers ==
  ASSUME NEW d \in Deliveries, NextSub(d),
         Video(d) \in Messages, Video(d)' = Video(d),
         job \in [Deliveries -> Job], job[d] \in Job,
         job[d].sub <= Len(SubsOf[Video(d)])
  PROVE  /\ job'[d].pc \in {"subtitle", "list"}
         /\ Covered(d)' = job[d].sub
<1> DEFINE n == Len(SubsOf[Video(d)])
<1>1. n \in Nat /\ job[d].sub \in Nat /\ Len(SubsOf[Video(d)'])= n
  BY SubtitlesOf DEF Job
<1>2. CASE job[d].sub < n
  <2>1. job' = [job EXCEPT ![d].pc = "subtitle", ![d].sub = @ + 1,
                           ![d].seen = {}]
    BY <1>2 DEF NextSub
  <2>2. job'[d].pc = "subtitle" /\ job'[d].sub = job[d].sub + 1
    BY <2>1 DEF Job
  <2> QED
    BY <1>1, <2>2 DEF Covered, SubSteps
<1>3. CASE ~(job[d].sub < n)
  <2>1. job' = [job EXCEPT ![d].pc = "list", ![d].seen = {}]
    BY <1>3 DEF NextSub
  <2>2. job'[d].pc = "list"
    BY <2>1 DEF Job
  <2>3. Covered(d)' = n
    BY <1>1, <2>2 DEF Covered, SubSteps
  <2> QED
    BY <1>1, <1>3, <2>2, <2>3
<1> QED
  BY <1>2, <1>3

\* ffmpeg exits with 0, and no other ffmpeg writes in its directory: the video
\* is whole and its playlist lists no subtitle, whatever was there.
LEMMA TranscodePlays ==
  ASSUME VideoInv, PlayInv, NEW d \in Deliveries, Transcode(d)
  PROVE  PlayInv'
<1> DEFINE m == Video(d)
<1>1. Work(d)
  BY DEF Work
<1>2. Sound' => Sound
  BY DEF Sound, Transcode, CallbackGoesOn, consumerVars
<1>3. ASSUME Sound
      PROVE  Progress(d)'
  <2>1. /\ Progress(d) /\ Running(d) /\ m \in Messages /\ m' = m
        /\ job \in [Deliveries -> Job] /\ job[d] \in Job /\ dir \in Dirs
    BY <1>1, <1>3, AtWork
  <2>2. job[d].sub = 0 /\ dir[m].source
    BY <2>1 DEF Transcode, At, Progress
  <2>3. ~Clash(d)
    BY <1>3, <2>1, OneRunning DEF Clash, At, VideoInv, Sound
  <2> DEFINE D == [dir EXCEPT ![m].out.file["media"] = "whole"]
             E == [D EXCEPT ![m].out.file["master"] = "whole"]
  <2>4. dir' = [E EXCEPT ![m].out.listed = {}]
    BY <2>2, <2>3 DEF Transcode
  <2>5. /\ "media" \in Files /\ "master" \in Files /\ "media" # "master"
        /\ "whole" \in Contents
    BY DEF Files, Contents
  <2> HIDE DEF m
  <2>6. D \in Dirs /\ D[m].source /\ D[m].out.file["media"] = "whole"
    BY <2>1, <2>2, <2>5, FileEffect
  <2> HIDE DEF D
  <2>7. /\ E \in Dirs /\ E[m].source /\ E[m].out.file["media"] = "whole"
        /\ E[m].out.file["master"] = "whole"
    BY <2>1, <2>5, <2>6, FileEffect
  <2> HIDE DEF E
  <2>8. /\ dir'[m].source /\ dir'[m].out.file["media"] = "whole"
        /\ dir'[m].out.file["master"] = "whole"
        /\ dir'[m].out.listed = {}
    <3>1. PICK L \in SUBSET Subs : L = {}
      OBVIOUS
    <3> DEFINE F == [E EXCEPT ![m].out.listed = L]
    <3>2. /\ F[m].source = E[m].source
          /\ F[m].out.file = E[m].out.file
          /\ F[m].out.listed = L
      BY <2>1, <2>7, ListEffect
    <3>3. dir' = F
      BY <2>4, <3>1
    <3> HIDE DEF F
    <3> QED
      BY <2>7, <3>1, <3>2, <3>3
  <2>9. job'[d].pc \in {"subtitle", "list"} /\ Covered(d)' = 0
    BY <2>1, <2>2, NextSubCovers, SubtitlesOf DEF Transcode, m
  <2>10. EncodeHolds(d)'
    BY <2>1, <2>8, <2>9, ListEnds DEF EncodeHolds, Out, m
  <2> QED
    BY <2>9, <2>10 DEF Progress
<1>4. ASSUME NEW n \in Messages, Promised(n)'
      PROVE  Promised(n) /\ store' = store
  BY <1>1, <1>4, WorkFrame, NothingPromised DEF Transcode
<1> QED
  BY <1>1, <1>2, <1>3, <1>4, OwnStep

\* Where a run is in the loop over the subtitles.
LEMMA InTheLoop ==
  ASSUME VideoInv, PlayInv, Sound, NEW d \in Deliveries, Work(d),
         job[d].pc \in SubSteps
  PROVE  /\ EncodeHolds(d)
         /\ job[d].sub \in 1 .. Len(SubsOf[Video(d)])
         /\ Covered(d) = job[d].sub - 1
         /\ Lang(d) \in Subs /\ Lang(d) \in Files
         /\ Lang(d) \notin {"media", "master"}
<1>1. Progress(d) /\ Video(d) \in Messages
  BY AtWork
<1>2. job[d].sub \in DOMAIN SubsOf[Video(d)]
  BY DEF VideoInv, VideoTypeOK, SubSteps
<1>3. Lang(d) \in Subs
  BY <1>1, <1>2, SubtitlesOf DEF Lang
<1> QED
  BY <1>1, <1>2, <1>3, SubtitlesOf, SubsAreNoPlaylists
     DEF Progress, Covered, Files
\* While a subtitle is segmented, its own playlist is the only one in parts.
LEMMA SubtitlePlays ==
  ASSUME VideoInv, PlayInv, NEW d \in Deliveries, Subtitle(d)
  PROVE  PlayInv'
<1> DEFINE m == Video(d)
           l == Lang(d)
<1>1. Work(d)
  BY DEF Work
<1>2. Sound' => Sound
  BY DEF Sound, Subtitle, CallbackGoesOn, consumerVars
<1>3. ASSUME Sound
      PROVE  Progress(d)'
  <2>1. /\ m \in Messages /\ m' = m /\ dir \in Dirs
        /\ job \in [Deliveries -> Job] /\ job[d] \in Job
    BY <1>1, <1>3, AtWork
  <2>2. job[d].pc \in SubSteps /\ job[d].pc = "subtitle"
    BY DEF Subtitle, At, SubSteps
  <2>3. /\ EncodeHolds(d) /\ Covered(d) = job[d].sub - 1
        /\ l \in Files /\ l \notin {"media", "master"}
        /\ job[d].sub \in 1 .. Len(SubsOf[m])
    BY <1>1, <1>3, <2>2, InTheLoop
  <2>4. job'[d].pc = "correct" /\ job'[d].sub = job[d].sub
    BY <2>1 DEF Subtitle, Goto, Job
  <2>5. l' = l /\ Covered(d)' = Covered(d)
    BY <2>1, <2>2, <2>4 DEF Lang, Covered, SubSteps
  <2> DEFINE D == [dir EXCEPT ![m].out.file[l] = "part"]
  <2>6. dir' = D /\ "part" \in Contents
    BY DEF Subtitle, Contents
  <2> HIDE DEF m, l
  <2>7. /\ D[m].source = dir[m].source
        /\ D[m].out.listed = dir[m].out.listed
        /\ \A g \in Files : g # l => D[m].out.file[g] = dir[m].out.file[g]
    BY <2>1, <2>3, <2>6, FileEffect
  <2> HIDE DEF D
  <2>8. \A i \in 1 .. Covered(d) : SubsOf[m][i] \in Files
    BY <2>1, <2>3, SubtitlesOf DEF Files
  <2>9. "media" \in Files /\ "master" \in Files
    BY DEF Files
  <2>10. EncodeHolds(d)'
    BY <2>1, <2>2, <2>3, <2>4, <2>5, <2>6, <2>7, <2>8, <2>9
       DEF EncodeHolds, Out, m, l
  <2> QED
    BY <2>4, <2>10 DEF Progress
<1>4. ASSUME NEW n \in Messages, Promised(n)'
      PROVE  Promised(n) /\ store' = store
  BY <1>1, <1>4, WorkFrame, NothingPromised DEF Subtitle
<1> QED
  BY <1>1, <1>2, <1>3, <1>4, OwnStep

\* The corrected playlist is whole, unless its write fails.
LEMMA CorrectPlays ==
  ASSUME VideoInv, PlayInv, NEW d \in Deliveries, CorrectSub(d)
  PROVE  PlayInv'
<1> DEFINE m == Video(d)
           l == Lang(d)
<1>1. Work(d) /\ faults \in Nat
  BY FaultsAssumption DEF Work, VideoInv, VideoTypeOK
<1>2. Sound' => Sound /\ faults' = faults
  BY <1>1 DEF Sound, CorrectSub, WriteFails, CallbackGoesOn, consumerVars
<1>3. ASSUME Sound, Sound'
      PROVE  Progress(d)'
  <2>1. /\ m \in Messages /\ m' = m /\ dir \in Dirs
        /\ job \in [Deliveries -> Job] /\ job[d] \in Job
    BY <1>1, <1>3, AtWork
  <2>2. job[d].pc \in SubSteps /\ job[d].pc = "correct"
    BY DEF CorrectSub, At, SubSteps
  <2>3. /\ EncodeHolds(d) /\ Covered(d) = job[d].sub - 1
        /\ l \in Files /\ l \notin {"media", "master"}
        /\ job[d].sub \in 1 .. Len(SubsOf[m])
    BY <1>1, <1>3, <2>2, InTheLoop
  <2>4. job'[d].pc = "read" /\ job'[d].sub = job[d].sub
    BY <2>1 DEF CorrectSub, Goto, Job
  <2>5. l' = l /\ Covered(d)' = Covered(d)
    BY <2>1, <2>2, <2>4 DEF Lang, Covered, SubSteps
  <2> DEFINE D == [dir EXCEPT ![m].out.file[l] = "whole"]
  <2>6. dir' = D /\ "whole" \in Contents
    BY <1>1, <1>2, <1>3 DEF CorrectSub, WriteFails, Contents
  <2> HIDE DEF m, l
  <2>7. /\ D[m].source = dir[m].source
        /\ D[m].out.listed = dir[m].out.listed
        /\ D[m].out.file[l] = "whole"
        /\ \A g \in Files : g # l => D[m].out.file[g] = dir[m].out.file[g]
    BY <2>1, <2>3, <2>6, FileEffect
  <2> HIDE DEF D
  <2>8. \A i \in 1 .. Covered(d) : SubsOf[m][i] \in Files
    BY <2>1, <2>3, SubtitlesOf DEF Files
  <2>9. "media" \in Files /\ "master" \in Files
    BY DEF Files
  <2>10. EncodeHolds(d)'
    BY <2>1, <2>2, <2>3, <2>4, <2>5, <2>6, <2>7, <2>8, <2>9
       DEF EncodeHolds, Out, m, l
  <2> QED
    BY <2>4, <2>10 DEF Progress
<1>4. ASSUME NEW n \in Messages, Promised(n)'
      PROVE  Promised(n) /\ store' = store
  BY <1>1, <1>4, WorkFrame, NothingPromised DEF CorrectSub
<1> QED
  BY <1>1, <1>2, <1>3, <1>4, OwnStep

\* What is read of the master playlist is what it lists.
LEMMA ReadPlays ==
  ASSUME VideoInv, PlayInv, NEW d \in Deliveries, ReadMaster(d)
  PROVE  PlayInv'
<1> DEFINE m == Video(d)
<1>1. Work(d)
  BY DEF Work
<1>2. Sound' => Sound
  BY DEF Sound, ReadMaster, CallbackGoesOn, consumerVars
<1>3. ASSUME Sound
      PROVE  Progress(d)'
  <2>1. /\ m \in Messages /\ m' = m
        /\ job \in [Deliveries -> Job] /\ job[d] \in Job
    BY <1>1, <1>3, AtWork
  <2>2. job[d].pc \in SubSteps /\ job[d].pc = "read"
    BY DEF ReadMaster, At, SubSteps
  <2>3. EncodeHolds(d)
    BY <1>1, <1>3, <2>2, InTheLoop
  <2>4. /\ job'[d].pc = "write" /\ job'[d].sub = job[d].sub
        /\ job'[d].seen = Out(d).listed
    BY <2>1 DEF ReadMaster, Job
  <2>5. Lang(d)' = Lang(d) /\ Covered(d)' = Covered(d) /\ Out(d)' = Out(d)
    BY <2>1, <2>2, <2>4 DEF ReadMaster, Lang, Covered, SubSteps, Out
  <2>6. EncodeHolds(d)'
    BY <2>1, <2>2, <2>3, <2>4, <2>5 DEF EncodeHolds, ReadMaster
  <2> QED
    BY <2>4, <2>6 DEF Progress
<1>4. ASSUME NEW n \in Messages, Promised(n)'
      PROVE  Promised(n) /\ store' = store
  BY <1>1, <1>4, WorkFrame, NothingPromised DEF ReadMaster
<1> QED
  BY <1>1, <1>2, <1>3, <1>4, OwnStep
\* What is written back lists the subtitle in its place, unless the write
\* fails.
LEMMA WritePlays ==
  ASSUME VideoInv, PlayInv, NEW d \in Deliveries, WriteMaster(d)
  PROVE  PlayInv'
<1> DEFINE m == Video(d)
           l == Lang(d)
           k == job[d].sub
<1>1. Work(d) /\ faults \in Nat
  BY FaultsAssumption DEF Work, VideoInv, VideoTypeOK
<1>2. Sound' => Sound /\ faults' = faults
  BY <1>1 DEF Sound, WriteMaster, WriteFails, CallbackGoesOn, consumerVars
<1>3. ASSUME Sound, Sound'
      PROVE  Progress(d)'
  <2>1. /\ m \in Messages /\ m' = m /\ dir \in Dirs
        /\ job \in [Deliveries -> Job] /\ job[d] \in Job
    BY <1>1, <1>3, AtWork
  <2>2. job[d].pc \in SubSteps /\ job[d].pc = "write"
    BY DEF WriteMaster, At, SubSteps
  <2>3. /\ EncodeHolds(d) /\ Covered(d) = k - 1
        /\ l \in Subs /\ l \in Files /\ l \notin {"media", "master"}
        /\ k \in 1 .. Len(SubsOf[m]) /\ l = SubsOf[m][k]
    BY <1>1, <1>3, <2>2, InTheLoop DEF Lang
  <2>4. /\ job'[d].pc \in {"subtitle", "list"}
        /\ Covered(d)' = k
    BY <2>1, <2>3, NextSubCovers, SubtitlesOf DEF WriteMaster
  <2>5. Relisted(d) = ListedUpTo(m, k) /\ Relisted(d) \in SUBSET Subs
    <3>1. job[d].seen = ListedUpTo(m, k - 1)
      BY <2>2, <2>3 DEF EncodeHolds
    <3>2. Relisted(d) = ListedUpTo(m, k)
      BY <2>1, <2>3, <3>1, ListGrows DEF Relisted
    <3> QED
      BY <3>2 DEF ListedUpTo
  <2> DEFINE D == [dir EXCEPT ![m].out.file["master"] = "whole"]
             L == Relisted(d)
             E == [D EXCEPT ![m].out.listed = L]
  <2>6. dir' = E
    BY <1>1, <1>2, <1>3, <2>3 DEF WriteMaster, WriteFails, EncodeHolds
  <2>7. "media" \in Files /\ "master" \in Files /\ "whole" \in Contents
    BY DEF Files, Contents
  <2> HIDE DEF m, l, k
  <2>8. /\ D \in Dirs /\ D[m].source = dir[m].source
        /\ D[m].out.file["master"] = "whole"
        /\ \A g \in Files :
             g # "master" => D[m].out.file[g] = dir[m].out.file[g]
    BY <2>1, <2>7, FileEffect
  <2> HIDE DEF D
  <2>9. L \in SUBSET Subs
    BY <2>5
  <2> HIDE DEF L
  <2>10. /\ E[m].source = D[m].source
         /\ E[m].out.file = D[m].out.file
         /\ E[m].out.listed = L
    BY <2>1, <2>8, <2>9, ListEffect
  <2> HIDE DEF E
  <2>11. /\ dir'[m].source /\ dir'[m].out.file["media"] = "whole"
         /\ dir'[m].out.file["master"] = "whole"
         /\ dir'[m].out.listed = ListedUpTo(m, k)
    BY <2>3, <2>5, <2>6, <2>7, <2>8, <2>10 DEF EncodeHolds, Out, m, L
  <2>12. \A i \in 1 .. k : dir'[m].out.file[SubsOf[m][i]] = "whole"
    <3> SUFFICES ASSUME NEW i \in 1 .. k
                 PROVE  dir'[m].out.file[SubsOf[m][i]] = "whole"
      OBVIOUS
    <3>1. SubsOf[m][i] \in Files /\ (i = k \/ i \in 1 .. k - 1)
      BY <2>1, <2>3, SubtitlesOf DEF Files
    <3>2. dir[m].out.file[SubsOf[m][i]] = "whole"
      BY <2>2, <2>3, <3>1 DEF EncodeHolds, Out, m, l
    <3> QED
      BY <2>6, <2>8, <2>10, <3>1, <3>2
  <2>13. EncodeHolds(d)'
    BY <2>1, <2>4, <2>11, <2>12 DEF EncodeHolds, Out, m
  <2> QED
    BY <2>4, <2>13 DEF Progress
<1>4. ASSUME NEW n \in Messages, Promised(n)'
      PROVE  Promised(n) /\ store' = store
  BY <1>1, <1>4, WorkFrame, NothingPromised DEF WriteMaster
<1> QED
  BY <1>1, <1>2, <1>3, <1>4, OwnStep

\* At the upload the directory holds what a player needs.
LEMMA EncodedForUpload ==
  ASSUME NEW d \in Deliveries, Video(d) \in Messages, EncodeHolds(d),
         job[d].pc \in {"list", "upload"}
  PROVE  /\ \A f \in Needed(Video(d)) : f \in Files /\ Out(d).file[f] = "whole"
         /\ Out(d).listed = Listable(Video(d))
<1>1. Covered(d) = Len(SubsOf[Video(d)])
  BY DEF Covered, SubSteps
<1>2. \A f \in Languages(Video(d)) :
        \E i \in 1 .. Len(SubsOf[Video(d)]) : f = SubsOf[Video(d)][i]
  BY SubtitlesOf
<1> QED
  BY <1>1, <1>2, ListEnds, SubtitlesOf DEF EncodeHolds, Needed, Files

\* moveFilesToMinio finds all of it.
LEMMA ListFilesPlays ==
  ASSUME VideoInv, PlayInv, NEW d \in Deliveries, ListFiles(d)
  PROVE  PlayInv'
<1> DEFINE m == Video(d)
           L == {f \in Files : Uploadable(f) /\ Out(d).file[f] # "none"}
<1>1. Work(d)
  BY DEF Work
<1>2. Sound' => Sound
  BY DEF Sound, ListFiles, CallbackGoesOn, consumerVars
<1>3. ASSUME Sound
      PROVE  Progress(d)'
  <2>1. /\ Progress(d) /\ m \in Messages /\ m' = m
        /\ job \in [Deliveries -> Job] /\ job[d] \in Job
    BY <1>1, <1>3, AtWork
  <2>2. job[d].pc = "list" /\ EncodeHolds(d) /\ dir' = dir
    BY <2>1 DEF ListFiles, At, Progress
  <2>3. job' = [job EXCEPT ![d].pc = "upload", ![d].left = L]
    BY DEF ListFiles
  <2>4. Needed(m) \subseteq L
    BY <2>1, <2>2, EncodedForUpload DEF Uploadable
  <2> HIDE DEF L
  <2>5. job'[d].pc = "upload" /\ job'[d].left = L
    BY <2>1, <2>3 DEF Job
  <2>6. EncodeHolds(d)'
    BY <2>1, <2>2, <2>5 DEF EncodeHolds, Covered, SubSteps, Out
  <2>7. UploadHolds(d)'
    BY <2>1, <2>4, <2>5 DEF UploadHolds, Needed
  <2> QED
    BY <2>5, <2>6, <2>7 DEF Progress
<1>4. ASSUME NEW n \in Messages, Promised(n)'
      PROVE  Promised(n) /\ store' = store
  BY <1>1, <1>4, WorkFrame, NothingPromised DEF ListFiles
<1> QED
  BY <1>1, <1>2, <1>3, <1>4, OwnStep
\* What a put does to the bucket.
LEMMA PutEffect ==
  ASSUME VideoInv, PlayInv, Sound, NEW d \in Deliveries, NEW f \in Files,
         UploadFile(d, f)
  PROVE  LET m == Video(d)
         IN  /\ \A n \in Messages : n # m => store'[n] = store[n]
             /\ \A g \in Files : g # f => store'[m].file[g] = store[m].file[g]
             /\ store'[m].file[f] = Out(d).file[f]
             /\ store'[m].listed = IF f = "master" THEN Out(d).listed
                                   ELSE store[m].listed
<1> DEFINE m == Video(d)
           c == Out(d).file[f]
           S == [store EXCEPT ![m].file[f] = c]
           L == IF f = "master" THEN Out(d).listed ELSE S[m].listed
<1>1. m \in Messages /\ store \in [Messages -> Output]
  BY AtWork DEF Work
<1>2. store' = [S EXCEPT ![m].listed = L]
  BY DEF UploadFile
<1> HIDE DEF m, c
<1>3. /\ S \in [Messages -> [file : [Files -> Contents \cup {c}],
                             listed : SUBSET Subs]]
      /\ S[m].file[f] = c
      /\ S[m].listed = store[m].listed
      /\ \A g \in Files : g # f => S[m].file[g] = store[m].file[g]
      /\ \A n \in Messages : n # m => S[n] = store[n]
  BY <1>1 DEF Output
<1> HIDE DEF S
<1>4. L = IF f = "master" THEN Out(d).listed ELSE store[m].listed
  BY <1>3
<1> HIDE DEF L
<1>5. /\ store'[m].listed = L
      /\ store'[m].file = S[m].file
      /\ \A n \in Messages : n # m => store'[n] = S[n]
  BY <1>1, <1>2, <1>3
<1> QED
  BY <1>3, <1>4, <1>5 DEF m, c

\* A put makes the bucket's copy whole, and spoils none that was: the same
\* files go up at every attempt.
LEMMA UploadPlays ==
  ASSUME VideoInv, PlayInv, NEW d \in Deliveries, NEW f \in Files,
         UploadFile(d, f)
  PROVE  PlayInv'
<1> DEFINE m == Video(d)
<1>1. Work(d)
  BY DEF Work
<1>2. Sound' => Sound
  BY DEF Sound, UploadFile, CallbackGoesOn, consumerVars
<1>3. ASSUME Sound
      PROVE  /\ Progress(d)'
             /\ \A n \in Messages : Playable(n) => Playable(n)'
  <2>1. /\ Progress(d) /\ m \in Messages /\ m' = m
        /\ job \in [Deliveries -> Job] /\ job[d] \in Job
    BY <1>1, <1>3, AtWork
  <2>2. job[d].pc = "upload" /\ EncodeHolds(d) /\ UploadHolds(d) /\ dir' = dir
    BY <2>1 DEF UploadFile, At, Progress
  <2>3. /\ \A g \in Needed(m) : g \in Files /\ Out(d).file[g] = "whole"
        /\ Out(d).listed = Listable(m)
    BY <2>1, <2>2, EncodedForUpload
  <2>4. job'[d].pc = "upload" /\ job'[d].left = job[d].left \ {f}
    BY <2>1, <2>2 DEF UploadFile, Job
  <2>5. /\ \A n \in Messages : n # m => store'[n] = store[n]
        /\ \A g \in Files : g # f => store'[m].file[g] = store[m].file[g]
        /\ store'[m].file[f] = Out(d).file[f]
        /\ store'[m].listed = IF f = "master" THEN Out(d).listed
                              ELSE store[m].listed
    BY <1>3, PutEffect
  <2>6. EncodeHolds(d)'
    BY <2>1, <2>2, <2>4 DEF EncodeHolds, Covered, SubSteps, Out
  <2>7. UploadHolds(d)'
    <3>1. \A g \in Needed(m) \ job'[d].left : store'[m].file[g] = "whole"
      BY <2>2, <2>3, <2>4, <2>5 DEF UploadHolds
    <3>2. "master" \notin job'[d].left => store'[m].listed = Listable(m)
      BY <2>2, <2>3, <2>4, <2>5 DEF UploadHolds
    <3> QED
      BY <2>1, <3>1, <3>2 DEF UploadHolds, Needed, Listable, Languages
  <2>8. ASSUME NEW n \in Messages, Playable(n)
        PROVE  Playable(n)'
    <3>1. CASE n = m
      <4>1. \A g \in Needed(m) : store'[m].file[g] = "whole"
        BY <2>3, <2>5, <2>8, <3>1 DEF Playable, Needed
      <4>2. store'[m].listed = Listable(m)
        BY <2>3, <2>5, <2>8, <3>1 DEF Playable
      <4> QED
        BY <3>1, <4>1, <4>2 DEF Playable, Needed
    <3>2. CASE n # m
      BY <2>5, <2>8, <3>2 DEF Playable
    <3> QED
      BY <3>1, <3>2
  <2> QED
    BY <2>4, <2>6, <2>7, <2>8 DEF Progress
<1>4. ASSUME Sound, NEW n \in Messages, Promised(n)'
      PROVE  Playable(n)'
  <2>1. Promised(n)
    BY <1>1, <1>4, WorkFrame, NothingPromised DEF UploadFile
  <2> QED
    BY <1>3, <1>4, <2>1 DEF PlayInv
<1> QED
  BY <1>1, <1>2, <1>3, <1>4, OwnStep

\* The directory is taken away when all is in the bucket.
LEMMA UnlinkPlays ==
  ASSUME VideoInv, PlayInv, NEW d \in Deliveries, NEW f \in Files,
         Unlink(d, f)
  PROVE  PlayInv'
<1>1. Work(d)
  BY DEF Work
<1>2. Sound' => Sound
  BY DEF Sound, Unlink, CallbackGoesOn, consumerVars
<1>3. ASSUME Sound
      PROVE  Progress(d)'
  <2>1. Progress(d) /\ Video(d)' = Video(d)
    BY <1>1, <1>3, AtWork
  <2>2. job' = job /\ job[d].pc = "upload" /\ job[d].left = {} /\ store' = store
    BY DEF Unlink, At
  <2>3. UploadHolds(d)'
    BY <2>1, <2>2 DEF Progress, UploadHolds, Needed, Listable, Languages
  <2> QED
    BY <2>2, <2>3 DEF Progress, SubSteps
<1>4. ASSUME NEW n \in Messages, Promised(n)'
      PROVE  Promised(n) /\ store' = store
  BY <1>1, <1>4, WorkFrame, NothingPromised DEF Unlink
<1> QED
  BY <1>1, <1>2, <1>3, <1>4, OwnStep

\* The status done promises a video of which nothing was left to upload.
LEMMA CleanUpPlays ==
  ASSUME VideoInv, PlayInv, NEW d \in Deliveries, CleanUp(d)
  PROVE  PlayInv'
<1> DEFINE m == Video(d)
<1>1. Work(d) /\ (AckMessage(d) \/ NackMessage(d))
  BY DEF Work, CleanUp, Return
<1>2. (Sound' => Sound) /\ ~Running(d)' /\ store' = store
  BY <1>1, EndIsQuiet DEF Sound, CleanUp
<1>3. ASSUME Sound
      PROVE  Playable(m)
  <2>1. Progress(d) /\ job[d].pc = "upload" /\ job[d].left = {}
    BY <1>1, <1>3, AtWork DEF CleanUp, At
  <2>2. UploadHolds(d)
    BY <2>1 DEF Progress
  <2> QED
    BY <2>1, <2>2 DEF UploadHolds, Playable, Needed
<1>4. ASSUME NEW n \in Messages, Promised(n)'
      PROVE  Promised(n) \/ n = m
  <2>1. OutputTyped /\ "done" \in Statuses /\ m \in Messages
    BY <1>1, TypeParts, WorkFrame DEF VideoInv, Statuses, Terminal
  <2>2. Publish(m, "done") /\ status' = status
    BY DEF CleanUp
  <2> HIDE DEF m
  <2>3. /\ Len(outbox) \in Nat /\ Len(outbox') = Len(outbox) + 1
        /\ outbox'[Len(outbox) + 1] = <<m, "done">>
        /\ \A i \in 1 .. Len(outbox) : outbox'[i] = outbox[i]
    BY <2>1, <2>2, PublishEffect
  <2>4. \A i \in 1 .. Len(outbox') :
          i = Len(outbox) + 1 \/ i \in 1 .. Len(outbox)
    BY <2>3
  <2> QED
    BY <1>4, <2>2, <2>3, <2>4 DEF Promised
<1>5. \A n \in Messages : Playable(n)' <=> Playable(n)
  BY <1>2 DEF Playable
<1> QED
  BY <1>1, <1>2, <1>3, <1>4, <1>5, WorkFrame, OwnStep

\* A run that fails promises nothing, and leaves the bucket as it is.
LEMMA FailurePlays ==
  ASSUME VideoInv, PlayInv, NEW d \in Deliveries,
         RejectMalformed(d) \/ Fail(d) \/ UploadFails(d)
  PROVE  PlayInv'
<1>1. Work(d) /\ (AckMessage(d) \/ NackMessage(d))
  BY DEF Work, RejectMalformed, Fail, UploadFails, Return, Throw
<1>2. (Sound' => Sound) /\ ~Running(d)' /\ store' = store
  BY <1>1, EndIsQuiet DEF Sound, RejectMalformed, Fail, UploadFails
<1>3. ASSUME NEW n \in Messages, Promised(n)'
      PROVE  Promised(n)
  <2>1. CASE Fail(d)
    BY <1>1, <1>3, <2>1, WorkFrame, OtherStatusPromises
       DEF Fail, FailurePublished
  <2>2. CASE RejectMalformed(d) \/ UploadFails(d)
    BY <1>3, <2>2, NothingPromised DEF RejectMalformed, UploadFails
  <2> QED
    BY <2>1, <2>2
<1> QED
  BY <1>1, <1>2, <1>3, OwnStep
\* A delivery begins with whatever the directory and the bucket hold.
LEMMA StartPlays ==
  ASSUME VideoInv, PlayInv, NEW m \in Messages, StartJob(m)
  PROVE  PlayInv'
<1>1. PICK new \in Deliveries :
        /\ reconnects' = reconnects
        /\ job' = [job EXCEPT ![new] = Begin(m)] /\ job \in [Deliveries -> Job]
        /\ \A d \in Deliveries : d # new => run'[d] = run[d]
        /\ UNCHANGED <<dir, store, outbox, status, faults>>
  <2>1. delivered + 1 \in Deliveries
    BY BoundsAssumption
       DEF StartJob, HandleMessage, VideoInv, DeliveryInv, ConsumerTypeOK,
           Deliveries
  <2> QED
    BY <2>1 DEF StartJob, HandleMessage, VideoInv, DeliveryInv,
       ConsumerTypeOK, VideoTypeOK
<1> SUFFICES ASSUME Sound'
             PROVE  /\ \A d \in Deliveries : Running(d)' => Progress(d)'
                    /\ \A n \in Messages : Promised(n)' => Playable(n)'
  BY DEF PlayInv
<1>2. Sound
  BY <1>1 DEF Sound
<1>3. Progress(new)'
  <2>1. job'[new] = Begin(m)
    BY <1>1
  <2>2. job'[new].pc \in {"parse", "download"} /\ job'[new].sub = 0
    BY <2>1 DEF Begin, Idle
  <2> QED
    BY <2>2 DEF Progress, SubSteps
<1>4. ASSUME NEW d \in Deliveries, d # new, Running(d)'
      PROVE  Progress(d)'
  <2>1. run'[d] = run[d] /\ job'[d] = job[d]
    BY <1>1, <1>4
  <2>2. Progress(d)
    BY <1>2, <1>4, <2>1 DEF PlayInv, Running
  <2>3. Video(d)' = Video(d) /\ store' = store /\ dir' = dir
    BY <1>1, <2>1 DEF Video
  <2>4. Out(d)' = Out(d) /\ Lang(d)' = Lang(d) /\ Covered(d)' = Covered(d)
    BY <2>1, <2>3 DEF Out, Lang, Covered
  <2>5. (EncodeHolds(d)' <=> EncodeHolds(d)) /\ (UploadHolds(d)' <=> UploadHolds(d))
    BY <2>1, <2>3, <2>4 DEF EncodeHolds, UploadHolds
  <2> QED
    BY <2>1, <2>2, <2>3, <2>5 DEF Progress
<1>5. ASSUME NEW n \in Messages, Promised(n)'
      PROVE  Playable(n)'
  BY <1>1, <1>2, <1>5, NothingPromised DEF PlayInv, Playable
<1> QED
  BY <1>3, <1>4, <1>5

\* The process is gone; disk and bucket stay, and of what was promised only
\* what the api was told.
LEMMA RestartPlays ==
  ASSUME VideoInv, PlayInv, Restart
  PROVE  PlayInv'
<1>1. /\ \A d \in Deliveries : ~Running(d)'
      /\ Sound' => Sound
  BY DEF Restart, Crash, Running, VideoInv, DeliveryInv, ConsumerTypeOK, Run,
     Sound
<1>2. ASSUME NEW n \in Messages, Promised(n)'
      PROVE  Promised(n)
  BY <1>2 DEF Restart, Promised
<1> QED
  BY <1>1, <1>2 DEF Restart, PlayInv, Playable

\* The api hears what was promised.
LEMMA ReceiptPlays ==
  ASSUME VideoInv, PlayInv, DeliverStatus
  PROVE  PlayInv'
<1>1. UNCHANGED <<run, job, dir, store, faults, reconnects>>
  BY DEF DeliverStatus, CallbackGoesOn, consumerVars
<1>2. ASSUME NEW n \in Messages, Promised(n)'
      PROVE  Promised(n)
  <2>1. /\ outbox # <<>> /\ outbox \in Seq(Messages \X Statuses)
        /\ outbox' = Tail(outbox)
        /\ status' = [status EXCEPT ![Head(outbox)[1]] = Head(outbox)[2]]
        /\ status \in [Messages -> Statuses]
    BY DEF DeliverStatus, VideoInv, VideoTypeOK
  <2>2. /\ Len(outbox) \in Nat /\ 1 \in 1 .. Len(outbox)
        /\ Head(outbox) = outbox[1] /\ outbox[1] \in Messages \X Statuses
        /\ Len(outbox') = Len(outbox) - 1
        /\ \A i \in 1 .. Len(outbox') : outbox'[i] = outbox[i + 1]
    <3> HIDE DEF Statuses
    <3>1. /\ Len(outbox) \in Nat /\ Len(outbox) > 0
          /\ Len(Tail(outbox)) = Len(outbox) - 1
          /\ \A i \in 1 .. Len(outbox) - 1 : Tail(outbox)[i] = outbox[i + 1]
      BY <2>1, HeadTailProperties, LenProperties
    <3>2. 1 \in 1 .. Len(outbox)
      BY <3>1
    <3> QED
      BY <2>1, <3>1, <3>2, ElementOfSeq
  <2>3. CASE status'[n] = "done"
    <3>1. CASE outbox[1][1] = n
      <4>1. outbox[1] = <<n, "done">>
        BY <2>1, <2>2, <2>3, <3>1
      <4> QED
        BY <2>2, <4>1 DEF Promised
    <3>2. CASE outbox[1][1] # n
      BY <2>1, <2>2, <2>3, <3>2 DEF Promised
    <3> QED
      BY <3>1, <3>2
  <2>4. ASSUME NEW i \in 1 .. Len(outbox'), outbox'[i] = <<n, "done">>
        PROVE  Promised(n)
    <3>1. i + 1 \in 1 .. Len(outbox) /\ outbox[i + 1] = <<n, "done">>
      BY <2>2, <2>4
    <3> QED
      BY <3>1 DEF Promised
  <2> QED
    BY <1>2, <2>3, <2>4 DEF Promised
<1>3. \A d \in Deliveries : Progress(d)' <=> Progress(d)
  BY <1>1 DEF Progress, EncodeHolds, UploadHolds, Covered, Out, Lang, Video
<1> QED
  BY <1>1, <1>2, <1>3 DEF PlayInv, Sound, Running, Playable

\* A status that the producer keeps was promised too.
LEMMA RepeatedReceiptPlays ==
  ASSUME VideoInv, PlayInv, ReceiveUnconfirmed
  PROVE  PlayInv'
<1>1. UNCHANGED <<run, job, dir, store, faults, reconnects, outbox>>
  BY DEF ReceiveUnconfirmed, consumerVars
<1>2. ASSUME NEW n \in Messages, Promised(n)'
      PROVE  Promised(n)
  <2> DEFINE u == unconfirmed + 1
  <2>1. /\ u \in 1 .. Len(outbox) /\ outbox[u] \in Messages \X Statuses
        /\ status' = [status EXCEPT ![outbox[u][1]] = outbox[u][2]]
        /\ status \in [Messages -> Statuses]
    <3>1. Len(outbox) \in Nat
      <4> HIDE DEF Statuses
      <4> QED
        BY LenProperties DEF VideoInv, VideoTypeOK
    <3>2. u \in 1 .. Len(outbox)
      BY <3>1 DEF ReceiveUnconfirmed, VideoInv, VideoTypeOK
    <3>3. outbox[u] \in Messages \X Statuses
      <4> HIDE DEF Statuses, u
      <4> QED
        BY <3>2, ElementOfSeq DEF VideoInv, VideoTypeOK
    <3> QED
      BY <3>2, <3>3 DEF ReceiveUnconfirmed, VideoInv, VideoTypeOK
  <2> HIDE DEF u
  <2>2. CASE outbox[u][1] = n /\ status'[n] = "done"
    <3>1. outbox[u] = <<n, "done">>
      BY <2>1, <2>2
    <3> QED
      BY <2>1, <3>1 DEF Promised
  <2>3. CASE ~(outbox[u][1] = n /\ status'[n] = "done")
    BY <1>1, <1>2, <2>1, <2>3 DEF Promised
  <2> QED
    BY <2>2, <2>3
<1>3. \A d \in Deliveries : Progress(d)' <=> Progress(d)
  BY <1>1 DEF Progress, EncodeHolds, UploadHolds, Covered, Out, Lang, Video
<1> QED
  BY <1>1, <1>2, <1>3 DEF PlayInv, Sound, Running, Playable

\* What the producer publishes again was promised before.
LEMMA RequeuedPlays ==
  ASSUME VideoInv, PlayInv, ProducerReconnects
  PROVE  PlayInv'
<1>1. UNCHANGED <<run, job, dir, store, faults, reconnects, status>>
  BY DEF ProducerReconnects, consumerVars
<1>2. PICK k \in 1 .. Len(outbox) : outbox' = Requeued(k)
  BY DEF ProducerReconnects
<1>3. \A i \in 1 .. Len(outbox') :
        \E j \in 1 .. Len(outbox) : outbox'[i] = outbox[j]
  <2>1. outbox \in Seq(Messages \X Statuses)
    BY Zenon DEF VideoInv, VideoTypeOK
  <2>2. /\ Len(Requeued(k)) = Len(outbox)
        /\ \A i \in 1 .. Len(outbox) :
             \E j \in 1 .. Len(outbox) : Requeued(k)[i] = outbox[j]
    BY <2>1, RequeuedStatuses
  <2> HIDE DEF Requeued
  <2> QED
    BY <1>2, <2>2
<1>4. \A n \in Messages : Promised(n)' => Promised(n)
  BY <1>1, <1>3 DEF Promised
<1>5. \A d \in Deliveries : Progress(d)' <=> Progress(d)
  BY <1>1 DEF Progress, EncodeHolds, UploadHolds, Covered, Out, Lang, Video
<1> QED
  BY <1>1, <1>4, <1>5 DEF PlayInv, Sound, Running, Playable

\* Each step keeps the invariant.
LEMMA PlayStep ==
  ASSUME VideoInv, PlayInv, [VideoNext]_vars
  PROVE  PlayInv'
<1>1. ASSUME UNCHANGED <<run, job, dir, store, outbox, status, faults>>,
             reconnects' = 0 => reconnects = 0
      PROVE  PlayInv'
  <2>1. \A d \in Deliveries : Progress(d)' <=> Progress(d)
    BY <1>1 DEF Progress, EncodeHolds, UploadHolds, Covered, Out, Lang, Video
  <2>2. \A n \in Messages : Promised(n)' => Promised(n)
    BY <1>1, NothingPromised
  <2> QED
    BY <1>1, <2>1, <2>2 DEF PlayInv, Sound, Running, Playable
<1>2. CASE Transport
  <2>1. UNCHANGED <<run, job, dir, store, outbox, status, faults>>
    BY <1>2 DEF videoVars, Transport, OpenChannel, BindDeadLetters, BrokerSettles,
       Disconnect, DeliveryTimesOut, LoseChannel, ListenOnQueue
  <2>2. reconnects' = 0 => reconnects = 0
    BY <1>2 DEF Transport, OpenChannel, BindDeadLetters, BrokerSettles,
       Disconnect, DeliveryTimesOut, LoseChannel, ListenOnQueue,
       VideoInv, DeliveryInv, ConsumerTypeOK
  <2> QED
    BY <1>1, <2>1, <2>2
<1>3. CASE Restart
  BY <1>3, RestartPlays
<1>4. CASE DeliverStatus \/ ReceiveUnconfirmed
  BY <1>4, ReceiptPlays, RepeatedReceiptPlays
<1>8. CASE ProducerReconnects
  BY <1>8, RequeuedPlays
<1>5. CASE \E m \in Messages : StartJob(m)
  BY <1>5, StartPlays
<1>6. CASE \E d \in Deliveries : Work(d)
  BY <1>6, FailurePlays, DownloadPlays, ProbePlays, TranscodePlays,
     SubtitlePlays, CorrectPlays, ReadPlays, WritePlays, ListFilesPlays,
     UploadPlays, UnlinkPlays, CleanUpPlays DEF Work
<1>7. CASE UNCHANGED vars
  BY <1>1, <1>7 DEF vars, consumerVars, videoVars
<1> QED
  BY <1>2, <1>3, <1>4, <1>5, <1>6, <1>7, <1>8 DEF VideoNext

LEMMA PlayInit == VideoInit => PlayInv
<1> SUFFICES ASSUME VideoInit
             PROVE  PlayInv
  OBVIOUS
<1>1. \A d \in Deliveries : ~Running(d)
  BY DEF VideoInit, ConsumerInit, Running, NoRun
<1>2. \A m \in Messages : ~Promised(m)
  BY DEF VideoInit, Promised
<1> QED
  BY <1>1, <1>2 DEF PlayInv

THEOREM PlayInvariance == VideoSpec => []PlayInv
<1>1. VideoInv /\ PlayInv /\ [VideoNext]_vars => PlayInv'
  BY PlayStep
<1> QED
  BY <1>1, PlayInit, VideoInvariance, PTL DEF VideoSpec

\* As long as no channel was replaced under a live process and no playlist
\* write failed, a video that the api knows as done has its variants, all its
\* subtitles and the right master playlist in the bucket: over crashes, what
\* they leave in the directory, and attempts that upload over finished ones
\* (video.service.ts:56-232).
THEOREM DoneCanBePlayed == VideoSpec => []DoneIsPlayable
<1>1. PlayInv => DoneIsPlayable
  BY DEF PlayInv, Sound, Promised, DoneIsPlayable
<1> QED
  BY <1>1, PlayInvariance, PTL

============================================================================
