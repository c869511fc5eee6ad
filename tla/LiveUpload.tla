----------------------------- MODULE LiveUpload -----------------------------
(***************************************************************************)
(* One live job: LiveService.processLiveCallback                           *)
(* (src/src/live/live.service.ts) running ffmpeg on the stream, and        *)
(* LiveUploader (src/src/live/live-uploader.ts) copying what ffmpeg writes *)
(* to the hls bucket while the broadcast lasts.                            *)
(*                                                                         *)
(* Four actors share a directory and a bucket: ffmpeg, which writes        *)
(* segments and rewrites the playlist; the ticks of the interval timer;    *)
(* the flush after ffmpeg's exit; and the callback that starts and stops   *)
(* them.  A put takes time: it carries the file as it was read and         *)
(* replaces the object when it LANDS, and two puts of one object land in   *)
(* any order.                                                              *)
(*                                                                         *)
(* One rendition stands for the three, and its playlist for the master     *)
(* playlist too, which is written once.                                    *)
(***************************************************************************)
EXTENDS Naturals, FiniteSets

CONSTANTS
  MaxSegments,  \* bound: segments of one recording
  MaxSize,      \* bound: sizes a segment goes through
  MaxFaults,    \* bound: failing puts and removals
  MaxCrashes    \* bound: exits of the process during the job

ASSUME LiveBounds ==
  /\ MaxSegments \in Nat \ {0}
  /\ MaxSize \in Nat \ {0}
  /\ MaxFaults \in Nat
  /\ MaxCrashes \in Nat

VARIABLES
  pc,         \* where processLiveCallback is
  attempt,    \* ffmpeg runs started by this callback
  take,       \* ffmpeg runs started for this job at all: whose output it is
  current,    \* the segment ffmpeg is writing, 0 before the first
  dir,        \* the working directory: a content for each file
  watching,   \* the interval timer is set
  ticking,    \* the flag that keeps ticks apart
  tick,       \* the ticks under way
  uploaded,   \* LiveUploader.uploaded
  lastSizes,  \* LiveUploader.lastSizes
  flush,      \* the flush under way
  bucket,     \* the objects of this job: a content for each file
  recording,  \* history: the directory when ffmpeg exited for good
  lateTick,   \* history: a tick was under way when the timer was cleared
  status,     \* what this callback published
  faults,
  crashes

vars == <<pc, attempt, take, current, dir, watching, ticking, tick, uploaded,
          lastSizes, flush, bucket, recording, lateTick, status, faults,
          crashes>>

----------------------------------------------------------------------------

Segments == 1 .. MaxSegments
Playlist == 0
Files == {Playlist} \cup Segments

\* The contents of a file: whose output it is (0 if there is no file) and how
\* far it has got.  The playlist at n lists the segments up to n; at Ended(n)
\* it has the end tag as well.
Ended(n) == MaxSegments + n
Missing == [take |-> 0, at |-> 0]
Content == [take : Nat, at : Nat]
Empty == [f \in Files |-> Missing]

Present == {f \in Files : dir[f] # Missing}

\* The segments a playlist content lists.
Listed(c) == IF c = Missing THEN {}
             ELSE IF c.at > MaxSegments THEN 1 .. c.at - MaxSegments
             ELSE 1 .. c.at

\* An upload loop: the files it still has to look at, and the put it awaits.
NoPut == [file |-> 0, content |-> Missing]
Rest == [on |-> FALSE, todo |-> {}, put |-> NoPut]
Slots == {1, 2}

Putting(u) == u.put # NoPut
Put(u, f) == [u EXCEPT !.put = [file |-> f, content |-> dir[f]]]
Without(u, f) == [u EXCEPT !.todo = @ \ {f}, !.put = NoPut]

\* Mutant: a flush skips what the ticks have uploaded.
OnlyNew(files) == files \ uploaded

\* A flush takes every file it finds, uploaded before or not.
ToFlush(files) == files

\* What a callback starts with: nothing but what it finds on disk.
Fresh ==
  /\ pc' = "pull"
  /\ attempt' = 0
  /\ current' = 0
  /\ watching' = TRUE
  /\ ticking' = FALSE
  /\ tick' = [t \in Slots |-> Rest]
  /\ uploaded' = {}
  /\ lastSizes' = [i \in Segments |-> 0]
  /\ flush' = Rest
  /\ lateTick' = FALSE
  /\ status' = "none"

Init ==
  /\ pc = "pull" /\ attempt = 0 /\ take = 0 /\ current = 0
  /\ dir = Empty /\ bucket = Empty /\ recording = Empty
  /\ watching = TRUE /\ ticking = FALSE /\ tick = [t \in Slots |-> Rest]
  /\ uploaded = {} /\ lastSizes = [i \in Segments |-> 0]
  /\ flush = Rest
  /\ lateTick = FALSE /\ status = "none"
  /\ faults = 0 /\ crashes = 0

callbackVars == <<pc, attempt, watching, lateTick, status>>
ffmpegVars == <<take, current, dir, recording>>
tickVars == <<ticking, tick, uploaded, lastSizes>>
budgetVars == <<faults, crashes>>

Fault == faults < MaxFaults /\ faults' = faults + 1 /\ UNCHANGED crashes

----------------------------------------------------------------------------
(* ffmpeg.                                                                 *)

\* processLiveVideo spawns ffmpeg, which overwrites what it finds.
Pull ==
  /\ pc = "pull"
  /\ pc' = "pulling"
  /\ attempt' = attempt + 1
  /\ take' = take + 1
  /\ current' = 0
  /\ UNCHANGED <<dir, recording, watching, lateTick, status, tickVars, flush,
                 bucket, budgetVars>>

Encoding == pc = "pulling"

\* The segment being written grows.
Grow ==
  /\ Encoding
  /\ current # 0
  /\ dir[current].at < MaxSize
  /\ dir' = [dir EXCEPT ![current].at = @ + 1]
  /\ UNCHANGED <<take, current, recording, callbackVars, tickVars, flush,
                 bucket, budgetVars>>

\* The muxer goes on to the next segment and lists the one it closed.
Rotate ==
  /\ Encoding
  /\ current < MaxSegments
  /\ current' = current + 1
  /\ dir' = [dir EXCEPT
               ![current + 1] = [take |-> take, at |-> 1],
               ![Playlist] = IF current = 0 THEN @
                             ELSE [take |-> take, at |-> current]]
  /\ UNCHANGED <<take, recording, callbackVars, tickVars, flush, bucket,
                 budgetVars>>

\* The muxer closes the last segment and ends the playlist.
Finished == [dir EXCEPT ![Playlist] = [take |-> take, at |-> Ended(current)]]

\* The stream ends and ffmpeg exits with 0: the timer is cleared and the flush
\* begins by listing the directory.
PullEnds ==
  /\ Encoding
  /\ current # 0
  /\ dir' = Finished
  /\ recording' = Finished
  /\ watching' = FALSE
  /\ lateTick' = ticking
  /\ pc' = "flush"
  /\ flush' = [Rest EXCEPT !.on = TRUE,
                  !.todo = ToFlush({f \in Files : Finished[f] # Missing})]
  /\ UNCHANGED <<take, current, attempt, status, tickVars, bucket, budgetVars>>

\* ffmpeg dies or gives up on a stalled source, with or without a trailer.
PullFails ==
  /\ Encoding
  /\ dir' \in IF current = 0 THEN {dir} ELSE {dir, Finished}
  /\ pc' = "pullFailed"
  /\ UNCHANGED <<attempt, take, current, recording, watching, lateTick, status,
                 tickVars, flush, bucket, budgetVars>>

----------------------------------------------------------------------------
(* The callback.                                                           *)

\* The pull died with no output at all: retry.
Retry ==
  /\ pc = "pullFailed"
  /\ attempt < 3
  /\ Present = {}
  /\ pc' = "pull"
  /\ UNCHANGED <<attempt, watching, lateTick, status, ffmpegVars, tickVars,
                 flush, bucket, budgetVars>>

\* The second flush has an uploader of its own.
StartReflush ==
  /\ pc' = "reflush"
  /\ flush' = [Rest EXCEPT !.on = TRUE, !.todo = ToFlush(Present)]

\* Mutant: a broadcast that failed is not flushed.
GiveUpAtOnce ==
  /\ pc = "pullFailed"
  /\ Present # {} \/ attempt = 3
  /\ watching' = FALSE
  /\ lateTick' = ticking
  /\ recording' = dir
  /\ pc' = "reremove"
  /\ UNCHANGED <<attempt, status, take, current, dir, tickVars, flush, bucket,
                 budgetVars>>

\* There is output, or there were three attempts: the timer is cleared and the
\* catch block flushes what there is.
GiveUp ==
  /\ pc = "pullFailed"
  /\ Present # {} \/ attempt = 3
  /\ watching' = FALSE
  /\ lateTick' = ticking
  /\ recording' = dir
  /\ StartReflush
  /\ UNCHANGED <<attempt, status, take, current, dir, tickVars, bucket,
                 budgetVars>>

Flushing == pc \in {"flush", "reflush"}

FlushPut(f) ==
  /\ Flushing
  /\ f \in flush.todo
  /\ ~Putting(flush)
  /\ flush' = Put(flush, f)
  /\ UNCHANGED <<callbackVars, ffmpegVars, tickVars, bucket, budgetVars>>

Land(u) == bucket' = [bucket EXCEPT ![u.put.file] = u.put.content]

FlushLands ==
  /\ Flushing
  /\ Putting(flush)
  /\ Land(flush)
  /\ flush' = Without(flush, flush.put.file)
  /\ uploaded' = IF pc = "flush" THEN uploaded \cup {flush.put.file}
                                 ELSE uploaded
  /\ UNCHANGED <<callbackVars, ffmpegVars, ticking, tick, lastSizes,
                 budgetVars>>

\* A put of the first flush fails: the catch block flushes again.  A put of
\* the second one fails: that is logged.
FlushFails ==
  /\ Flushing
  /\ Putting(flush)
  /\ Fault
  /\ IF pc = "flush" THEN StartReflush ELSE pc' = "reremove" /\ flush' = Rest
  /\ UNCHANGED <<attempt, watching, lateTick, status, ffmpegVars, tickVars,
                 bucket>>

FlushEnds ==
  /\ Flushing
  /\ flush.todo = {}
  /\ pc' = IF pc = "flush" THEN "remove" ELSE "reremove"
  /\ flush' = [Rest EXCEPT !.on = TRUE]
  /\ UNCHANGED <<attempt, watching, lateTick, status, ffmpegVars, tickVars,
                 bucket, budgetVars>>

\* rm takes the files away one by one, in no particular order.
Unlink(f) ==
  /\ pc \in {"remove", "reremove"}
  /\ dir[f] # Missing
  /\ dir' = [dir EXCEPT ![f] = Missing]
  /\ UNCHANGED <<callbackVars, take, current, recording, tickVars, flush,
                 bucket, budgetVars>>

\* The recording is in the bucket and the directory is gone: done is published.
Remove ==
  /\ pc = "remove"
  /\ Present = {}
  /\ status' = "done"
  /\ pc' = "end"
  /\ UNCHANGED <<attempt, watching, lateTick, ffmpegVars, tickVars, flush,
                 bucket, budgetVars>>

\* Mutant: the removal is outside of the try block.
RemoveFailsUncaught ==
  /\ pc = "remove"
  /\ Fault
  /\ pc' = "end"
  /\ UNCHANGED <<attempt, watching, lateTick, status, ffmpegVars, tickVars,
                 flush, bucket>>

\* The removal throws, half done maybe: the catch block, too, for a recording
\* that is complete.
RemoveFails ==
  /\ pc = "remove"
  /\ Fault
  /\ StartReflush
  /\ UNCHANGED <<attempt, watching, lateTick, status, ffmpegVars, tickVars,
                 bucket>>

\* The end of the catch block: a removal that fails is ignored.
RemoveAnyway ==
  /\ pc = "reremove"
  /\ \/ Present = {} /\ UNCHANGED budgetVars
     \/ Fault
  /\ status' = "failed"
  /\ pc' = "end"
  /\ UNCHANGED <<attempt, watching, lateTick, ffmpegVars, tickVars, flush,
                 bucket>>

\* The callback has resolved and the broker reads its ack: the message will not
\* be delivered again.
AckRead ==
  /\ pc = "end"
  /\ pc' = "over"
  /\ UNCHANGED <<attempt, watching, lateTick, status, ffmpegVars, tickVars,
                 flush, bucket, budgetVars>>

----------------------------------------------------------------------------
(* The interval timer and LiveUploader.tick.                               *)

\* A slot for the next tick: the first one unless that is taken.
Free(t) == ~tick[t].on /\ \A u \in Slots : u < t => tick[u].on

\* Mutant: the timer starts a tick although one is under way.
TimerStartsAnyway == watching

\* The timer fires and no tick is under way.
TimerStarts == watching /\ ~ticking

\* The tick lists the directory.
TickStarts(t) ==
  /\ TimerStarts
  /\ Free(t)
  /\ ticking' = TRUE
  /\ tick' = [tick EXCEPT ![t] = [Rest EXCEPT !.on = TRUE, !.todo = Present]]
  /\ UNCHANGED <<callbackVars, ffmpegVars, uploaded, lastSizes, flush, bucket,
                 budgetVars>>

\* Playlists are put every time; a segment once its size is the same as at the
\* tick before.
Due(f) == f # Playlist => f \notin uploaded /\ lastSizes[f] = dir[f].at

\* The tick looks at a file that is still there.
TickLooks(t, f) ==
  /\ tick[t].on
  /\ ~Putting(tick[t])
  /\ f \in tick[t].todo
  /\ dir[f] # Missing
  /\ \/ /\ Due(f)
        /\ tick' = [tick EXCEPT ![t] = Put(@, f)]
        /\ UNCHANGED lastSizes
     \/ /\ ~Due(f)
        /\ tick' = [tick EXCEPT ![t] = Without(@, f)]
        /\ lastSizes' = IF f \in uploaded THEN lastSizes
                        ELSE [lastSizes EXCEPT ![f] = dir[f].at]
  /\ UNCHANGED <<callbackVars, ffmpegVars, ticking, uploaded, flush, bucket,
                 budgetVars>>

TickLands(t) ==
  /\ Putting(tick[t])
  /\ Land(tick[t])
  /\ LET put == tick[t].put IN
       /\ tick' = [tick EXCEPT ![t] = Without(@, put.file)]
       /\ uploaded' = uploaded \cup {put.file}
       /\ lastSizes' = IF put.file = Playlist THEN lastSizes
                       ELSE [lastSizes EXCEPT ![put.file] = put.content.at]
  /\ UNCHANGED <<callbackVars, ffmpegVars, ticking, flush, budgetVars>>

\* Mutant: the flag is taken down after the tick but not in a finally.
TickStopsWithFlagUp(t) ==
  /\ tick' = [tick EXCEPT ![t] = Rest]
  /\ UNCHANGED <<ticking, callbackVars, ffmpegVars, uploaded, lastSizes, flush,
                 bucket>>

TickStops(t) ==
  /\ tick' = [tick EXCEPT ![t] = Rest]
  /\ ticking' = FALSE
  /\ UNCHANGED <<callbackVars, ffmpegVars, uploaded, lastSizes, flush, bucket>>

TickEnds(t) ==
  /\ tick[t].on /\ tick[t].todo = {}
  /\ TickStops(t)
  /\ UNCHANGED budgetVars

\* A put fails, or the directory is gone: the tick is given up and logged.
TickFails(t) ==
  /\ tick[t].on
  /\ \/ Putting(tick[t]) /\ Fault
     \/ /\ ~Putting(tick[t])
        /\ \E f \in tick[t].todo : dir[f] = Missing
        /\ UNCHANGED budgetVars
  /\ TickStops(t)

----------------------------------------------------------------------------

\* The process exits before the broker has read the ack, during the removal or
\* after the status for instance; the message is delivered again and the
\* callback starts over with what is left of the directory.
Crash ==
  /\ pc # "over"
  /\ crashes < MaxCrashes
  /\ crashes' = crashes + 1
  /\ Fresh
  /\ UNCHANGED <<take, dir, bucket, recording, faults>>

\* The job is over and no tick is left.
Over ==
  /\ pc = "over"
  /\ \A t \in Slots : ~tick[t].on
  /\ UNCHANGED vars

Ffmpeg == Grow \/ Rotate \/ PullEnds \/ PullFails

Callback ==
  \/ Pull
  \/ Retry
  \/ GiveUp
  \/ \E f \in Files : FlushPut(f)
  \/ FlushLands
  \/ FlushFails
  \/ FlushEnds
  \/ \E f \in Files : Unlink(f)
  \/ Remove
  \/ RemoveFails
  \/ RemoveAnyway
  \/ AckRead

Tick(t) ==
  \/ \E f \in Files : TickLooks(t, f)
  \/ TickLands(t)
  \/ TickEnds(t)
  \/ TickFails(t)

Next ==
  \/ Ffmpeg
  \/ Callback
  \/ \E t \in Slots : TickStarts(t) \/ Tick(t)
  \/ Crash
  \/ Over

Spec == Init /\ [][Next]_vars

\* Puts and removals come back, and ffmpeg ends: a stalled source makes it
\* exit after rw_timeout, and no broadcast lasts for ever.
Fairness ==
  /\ WF_vars(Callback)
  /\ WF_vars(PullEnds \/ PullFails)
  /\ \A t \in Slots : WF_vars(Tick(t))

FairSpec == Spec /\ Fairness

----------------------------------------------------------------------------
(* Properties.                                                             *)

Steps == {"pull", "pulling", "pullFailed", "flush", "reflush", "remove",
          "reremove", "end", "over"}
Loop == [on : BOOLEAN, todo : SUBSET Files,
         put : [file : Files, content : Content]]

\* The type invariant.  A loop awaits a put only of a file it still has on its
\* list, and the flag is up while any tick is under way.
TypeOK ==
  /\ pc \in Steps
  /\ attempt \in 0 .. 3
  /\ take \in Nat
  /\ current \in 0 .. MaxSegments
  /\ dir \in [Files -> Content]
  /\ bucket \in [Files -> Content]
  /\ recording \in [Files -> Content]
  /\ watching \in BOOLEAN /\ ticking \in BOOLEAN /\ lateTick \in BOOLEAN
  /\ tick \in [Slots -> Loop]
  /\ flush \in Loop
  /\ \A u \in {tick[t] : t \in Slots} \cup {flush} :
       Putting(u) => u.put.file \in u.todo
  /\ ticking <=> \E t \in Slots : tick[t].on
  /\ uploaded \subseteq Files
  /\ lastSizes \in [Segments -> 0 .. MaxSize]
  /\ status \in {"none", "done", "failed"}
  /\ faults \in 0 .. MaxFaults
  /\ crashes \in 0 .. MaxCrashes

\* The bucket holds the playlist ffmpeg left and every segment that it lists.
Intact ==
  /\ bucket[Playlist] = recording[Playlist]
  /\ \A i \in Listed(recording[Playlist]) : bucket[i] = recording[i]

\* A broadcast reported as done is a replay: the bucket has the final playlist
\* and the whole of every segment, whatever the ticks had uploaded before,
\* unless a tick was still under way when the timer was cleared.
ReplayIntact == status = "done" /\ ~lateTick => Intact

\* "push the tail + playlists" after "every file is final": the same with no
\* exception.
ReplayClaim == status = "done" => Intact

\* Every file that was there when ffmpeg exited for good is in the bucket.
Kept == \A f \in Files : recording[f] # Missing => bucket[f] = recording[f]

\* The bucket has every segment its playlist lists.
Playable == \A i \in Listed(bucket[Playlist]) : bucket[i] # Missing

\* "flush whatever was produced so the partial stream is playable": unless puts
\* or removals failed or a tick was still under way, a failed broadcast leaves
\* whatever was produced in the bucket, and what the bucket has is playable.
\* A job that was delivered again may have found only a part of what an earlier
\* process left, or nothing: then the bucket still has the rest.
PartialIntact ==
  status = "failed" /\ faults = 0 /\ ~lateTick => Kept /\ Playable

\* While the broadcast lasts a viewer who reloads the playlist never sees
\* segments vanish from it.
PlaylistOnlyGrows ==
  [][watching' /\ crashes' = 0 =>
       Listed(bucket[Playlist]) \subseteq Listed(bucket'[Playlist])]_vars

\* Ticks put the playlist at once and a segment only when its size has settled,
\* so viewers see segments listed that are not there.  Unless a put or the
\* removal fails, each of them arrives, however the broadcast ends.
ListedArrives ==
  \A i \in Segments :
    i \in Listed(bucket[Playlist]) ~> bucket[i] # Missing \/ faults > 0

\* A live job always answers: in the end done or failed is published by the
\* process that answers for it, whatever fails.
JobAnswers == <>[](status # "none")
============================================================================
