-------------------------- MODULE LiveUploadProofs --------------------------
(***************************************************************************)
(* Proofs about LiveUpload, for any number of segments, sizes, faults and  *)
(* crashes.                                                                *)
(***************************************************************************)
EXTENDS LiveUpload, Integers, TLAPS

USE DEF callbackVars, ffmpegVars, tickVars, budgetVars

----------------------------------------------------------------------------
(* The inductive invariant.                                                *)

\* The timer is set while ffmpeg may still write, and cleared from there on;
\* when no tick was under way by then, none is afterwards.
Stopped ==
  pc \in {"flush", "reflush", "remove", "reremove", "end", "over"} =>
    ~watching /\ (~lateTick => ~ticking)

\* There is one tick at a time, and a slot without one is at rest.
OneTick ==
  /\ \A t \in Slots : ~tick[t].on => tick[t] = Rest
  /\ \A t, u \in Slots : tick[t].on /\ tick[u].on => t = u

\* Sizes are what the bound allows, and a pull that may begin is not the
\* fourth.
Bounded ==
  /\ \A i \in Segments : dir[i].at <= MaxSize
  /\ \A t \in Slots :
       tick[t].put.file # Playlist => tick[t].put.content.at <= MaxSize
  /\ pc = "pull" => attempt < 3

\* ffmpeg has written every segment up to the current one, and the recording of
\* a pull that ended has all that its playlist lists.
Recorded ==
  /\ pc = "pulling" => \A i \in 1 .. current : dir[i] # Missing
  /\ pc \in {"flush", "remove"} \/ status = "done" =>
       /\ recording[Playlist] # Missing
       /\ \A i \in Listed(recording[Playlist]) :
            i \in Segments /\ recording[i] # Missing

\* ffmpeg is through while a flush runs.  What is not on its list any more is in
\* the bucket, as it is on disk unless a late tick interferes.
FlushGoesOn ==
  pc \in {"flush", "reflush"} =>
    /\ pc = "flush" \/ faults = 0 => recording = dir
    /\ \A f \in flush.todo : dir[f] # Missing
    /\ Putting(flush) => flush.put.content = dir[flush.put.file]
    /\ \A f \in Files \ flush.todo : dir[f] = Missing \/ bucket[f] # Missing
    /\ ~lateTick =>
         \A f \in Files \ flush.todo : dir[f] = Missing \/ bucket[f] = dir[f]

\* After a flush that went through the bucket has the recording, and all that
\* the removal takes away.
Flushed ==
  /\ pc = "remove" /\ ~lateTick => Kept
  /\ pc = "reremove" /\ faults = 0 /\ ~lateTick => Kept
  /\ pc = "remove" \/ (pc = "reremove" /\ faults = 0) =>
       \A f \in Files : dir[f] = Missing \/ bucket[f] # Missing
  /\ status # "none" => pc \in {"end", "over"}
  /\ status = "done" /\ ~lateTick => Kept
  /\ status = "failed" /\ faults = 0 => Present = {}
  /\ status = "failed" /\ faults = 0 /\ ~lateTick => Kept

\* The segments a playlist lists are on disk or in the bucket.
Held == {i \in Segments : dir[i] # Missing \/ bucket[i] # Missing}
Backed(c) == Listed(c) \subseteq Held

\* That goes for every playlist there is, while no put and no removal fails:
\* what an exit of the process leaves half removed was in the bucket before.
ListedKept ==
  /\ \A t \in Slots : Putting(tick[t]) => tick[t].put.content # Missing
  /\ faults = 0 =>
       /\ Backed(dir[Playlist])
       /\ Backed(bucket[Playlist])
       /\ \A t \in Slots :
            Putting(tick[t]) /\ tick[t].put.file = Playlist =>
              Backed(tick[t].put.content)

\* In the callback's first life ffmpeg adds to the playlist from an empty
\* directory on, the bucket has an older playlist than the directory, and one
\* that a tick is putting is between the two.
PlaylistAhead ==
  crashes = 0 =>
    /\ pc = "pull" => Present = {}
    /\ pc = "pulling" /\ dir[Playlist] # Missing => dir[Playlist].at < current
    /\ watching =>
         /\ Listed(bucket[Playlist]) \subseteq Listed(dir[Playlist])
         /\ \A t \in Slots :
              Putting(tick[t]) /\ tick[t].put.file = Playlist =>
                /\ Listed(bucket[Playlist]) \subseteq Listed(tick[t].put.content)
                /\ Listed(tick[t].put.content) \subseteq Listed(dir[Playlist])

LiveInv ==
  /\ TypeOK /\ Stopped /\ OneTick /\ Bounded /\ Recorded
  /\ FlushGoesOn /\ Flushed /\ ListedKept /\ PlaylistAhead

\* The type invariant in parts: the callback, ffmpeg and the bucket, and the
\* upload loops.
CallbackTyped ==
  /\ pc \in Steps
  /\ attempt \in 0 .. 3
  /\ watching \in BOOLEAN /\ lateTick \in BOOLEAN
  /\ status \in {"none", "done", "failed"}
  /\ faults \in 0 .. MaxFaults
  /\ crashes \in 0 .. MaxCrashes

FilesTyped ==
  /\ take \in Nat
  /\ current \in 0 .. MaxSegments
  /\ dir \in [Files -> Content]
  /\ bucket \in [Files -> Content]
  /\ recording \in [Files -> Content]

GoodLoop(u) == u \in Loop /\ (Putting(u) => u.put.file \in u.todo)

LoopsTyped ==
  /\ tick \in [Slots -> Loop]
  /\ \A t \in Slots : GoodLoop(tick[t])
  /\ GoodLoop(flush)
  /\ ticking \in BOOLEAN
  /\ ticking <=> \E t \in Slots : tick[t].on
  /\ uploaded \subseteq Files
  /\ lastSizes \in [Segments -> 0 .. MaxSize]

LEMMA TypeParts == TypeOK <=> CallbackTyped /\ FilesTyped /\ LoopsTyped
<1>1. ASSUME TypeOK PROVE CallbackTyped /\ FilesTyped
  BY <1>1 DEF TypeOK, CallbackTyped, FilesTyped
<1>2. ASSUME TypeOK PROVE LoopsTyped
  <2>1. \A t \in Slots : GoodLoop(tick[t])
    BY <1>2 DEF TypeOK, GoodLoop
  <2>2. GoodLoop(flush)
    BY <1>2 DEF TypeOK, GoodLoop
  <2> QED
    BY <1>2, <2>1, <2>2 DEF TypeOK, LoopsTyped
<1>3. ASSUME CallbackTyped, FilesTyped, LoopsTyped PROVE TypeOK
  <2>1. \A u \in {tick[t] : t \in Slots} \cup {flush} : GoodLoop(u)
    BY <1>3 DEF LoopsTyped
  <2>2. \A u \in {tick[t] : t \in Slots} \cup {flush} :
          Putting(u) => u.put.file \in u.todo
    BY <2>1 DEF GoodLoop
  <2>3. flush \in Loop
    BY <1>3 DEF LoopsTyped, GoodLoop
  <2> QED
    BY <1>3, <2>2, <2>3, Zenon DEF TypeOK, CallbackTyped, FilesTyped, LoopsTyped
<1> QED
  BY <1>1, <1>2, <1>3

----------------------------------------------------------------------------
(* Contents and upload loops.                                              *)

\* The constants of the files.
LEMMA FileFacts ==
  /\ MaxSegments \in Nat \ {0} /\ MaxSize \in Nat \ {0}
  /\ Playlist \in Files /\ Playlist \notin Segments
  /\ Segments \subseteq Files /\ Files = Segments \cup {Playlist}
  /\ Missing \in Content /\ Empty \in [Files -> Content]
  /\ \A f \in Files : Empty[f] = Missing
  /\ \A n \in Nat, k \in Nat \ {0} : [take |-> n, at |-> k] # Missing
  BY LiveBounds DEF Playlist, Files, Segments, Missing, Content, Empty

\* What a playlist lists goes by where it has got to, and one with its end tag
\* lists its last segment, too.
LEMMA ListedMissing == Listed(Missing) = {}
  BY DEF Listed

LEMMA ListedOpen ==
  ASSUME NEW n \in Nat, NEW k \in 0 .. MaxSegments, NEW c, c = [take |-> n, at |-> k]
  PROVE  Listed(c) = 1 .. k
  BY LiveBounds DEF Listed, Missing

LEMMA ListedEnded ==
  ASSUME NEW n \in Nat, NEW k \in 1 .. MaxSegments, NEW c,
         c = [take |-> n, at |-> Ended(k)]
  PROVE  Listed(c) = 1 .. k
<1>1. c.at = MaxSegments + k /\ c.at > MaxSegments /\ c # Missing
  BY LiveBounds DEF Ended, Missing
<1>2. c.at - MaxSegments = k
  BY <1>1, LiveBounds
<1> QED
  BY <1>1, <1>2 DEF Listed

\* A loop that begins a put, comes to the end of one, or has just started.
LEMMA PutLoop ==
  ASSUME NEW u \in Loop, NEW f \in u.todo, dir \in [Files -> Content]
  PROVE  /\ GoodLoop(Put(u, f))
         /\ Put(u, f).on = u.on /\ Put(u, f).todo = u.todo
         /\ Put(u, f).put.file = f /\ Put(u, f).put.content = dir[f]
  BY DEF GoodLoop, Loop, Put

LEMMA WithoutLoop ==
  ASSUME NEW u \in Loop, NEW f
  PROVE  /\ GoodLoop(Without(u, f)) /\ ~Putting(Without(u, f))
         /\ Without(u, f).put.file = Playlist
         /\ Without(u, f).on = u.on /\ Without(u, f).todo = u.todo \ {f}
  BY FileFacts DEF GoodLoop, Loop, Without, Putting, NoPut, Playlist

LEMMA RestLoop ==
  /\ GoodLoop(Rest) /\ ~Putting(Rest) /\ ~Rest.on /\ Rest.todo = {}
  /\ Rest.put.file = Playlist
  BY FileFacts DEF GoodLoop, Loop, Rest, Putting, NoPut, Playlist

LEMMA StartLoop ==
  ASSUME NEW S, S \subseteq Files
  PROVE  LET u == [Rest EXCEPT !.on = TRUE, !.todo = S]
         IN /\ GoodLoop(u) /\ ~Putting(u) /\ u.on /\ u.todo = S
            /\ u.put.file = Playlist
  BY FileFacts DEF GoodLoop, Loop, Rest, Putting, NoPut, Playlist

LEMMA IdleLoop ==
  LET u == [Rest EXCEPT !.on = TRUE]
  IN GoodLoop(u) /\ ~Putting(u) /\ u.todo = {}
  BY FileFacts DEF GoodLoop, Loop, Rest, Putting, NoPut, Playlist

----------------------------------------------------------------------------
(* The types hold in every state.                                          *)

LEMMA CallbackStepTyped ==
  ASSUME CallbackTyped, Bounded, LoopsTyped, [Next]_vars
  PROVE  CallbackTyped'
<1>1. CASE Ffmpeg
  BY <1>1 DEF Ffmpeg, Grow, Rotate, PullEnds, PullFails, CallbackTyped, LoopsTyped, Steps
<1>2. CASE Pull \/ Retry \/ GiveUp
  <2>1. CASE Pull
    <3>1. attempt' \in 0 .. 3
      BY <2>1 DEF Pull, CallbackTyped, Bounded
    <3> QED
      BY <2>1, <3>1 DEF Pull, CallbackTyped, Steps
  <2>2. CASE Retry \/ GiveUp
    BY <2>2 DEF Retry, GiveUp, StartReflush, CallbackTyped, LoopsTyped, Steps
  <2> QED
    BY <1>2, <2>1, <2>2
<1>3. CASE FlushFails
  BY <1>3, LiveBounds DEF FlushFails, Fault, StartReflush, CallbackTyped, Steps
<1>4. CASE (\E f \in Files : FlushPut(f)) \/ FlushLands \/ FlushEnds
  BY <1>4 DEF FlushPut, FlushLands, FlushEnds, CallbackTyped, Steps
<1>5. CASE (\E f \in Files : Unlink(f)) \/ Remove \/ RemoveFails \/ RemoveAnyway
           \/ AckRead
  BY <1>5, LiveBounds
    DEF Unlink, Remove, RemoveFails, RemoveAnyway, AckRead, Fault, StartReflush, CallbackTyped, Steps
<1>6. ASSUME NEW t \in Slots, TickStarts(t) \/ Tick(t) PROVE CallbackTyped'
  BY <1>6, LiveBounds
    DEF TickStarts, Tick, TickLooks, TickLands, TickEnds, TickFails, TickStops,
        Fault, CallbackTyped
<1>7. CASE Crash
  <2>1. crashes' \in 0 .. MaxCrashes /\ attempt' \in 0 .. 3
    BY <1>7, LiveBounds DEF Crash, Fresh, CallbackTyped
  <2>2. /\ pc' = "pull" /\ watching' = TRUE /\ lateTick' = FALSE
        /\ status' = "none" /\ UNCHANGED faults
    BY <1>7 DEF Crash, Fresh
  <2> QED
    BY <2>1, <2>2 DEF CallbackTyped, Steps
<1>8. CASE Over \/ UNCHANGED vars
  BY <1>8 DEF Over, vars, CallbackTyped
<1> QED
  BY <1>1, <1>2, <1>3, <1>4, <1>5, <1>6, <1>7, <1>8 DEF Next, Callback

\* What an upload loop carries is a content.
LEMMA LoopFacts ==
  ASSUME NEW u \in Loop
  PROVE  /\ u.on \in BOOLEAN /\ u.todo \subseteq Files
         /\ u.put.file \in Files /\ u.put.content \in Content
  BY DEF Loop

LEMMA LandTyped ==
  ASSUME NEW u \in Loop, bucket \in [Files -> Content], Land(u)
  PROVE  /\ bucket' \in [Files -> Content]
         /\ \A f \in Files :
              bucket'[f] = IF f = u.put.file THEN u.put.content ELSE bucket[f]
  BY LoopFacts DEF Land

\* ffmpeg's last write.
LEMMA FinishedFacts ==
  ASSUME FilesTyped, current # 0
  PROVE  /\ Finished \in [Files -> Content]
         /\ Finished[Playlist] = [take |-> take, at |-> Ended(current)]
         /\ Finished[Playlist] # Missing
         /\ \A f \in Files : f # Playlist => Finished[f] = dir[f]
  BY FileFacts DEF FilesTyped, Finished, Content, Ended

\* ffmpeg goes on to the next segment.
LEMMA RotateFacts ==
  ASSUME FilesTyped, Rotate
  PROVE  /\ dir' \in [Files -> Content]
         /\ current' = current + 1 /\ current' \in Segments
         /\ dir'[current'] = [take |-> take, at |-> 1]
         /\ dir'[Playlist] = IF current = 0 THEN dir[Playlist]
                             ELSE [take |-> take, at |-> current]
         /\ \A f \in Files \ {Playlist, current'} : dir'[f] = dir[f]
<1>1. current' = current + 1 /\ current' \in Segments /\ current' # Playlist
  BY FileFacts DEF Rotate, FilesTyped, Segments, Playlist
<1> DEFINE seg == [take |-> take, at |-> 1]
           list == IF current = 0 THEN dir[Playlist] ELSE [take |-> take, at |-> current]
<1>2. seg \in Content /\ list \in Content
  BY FileFacts DEF FilesTyped, Content
<1>3. dir' = [dir EXCEPT ![current + 1] = seg, ![Playlist] = list]
  BY <1>1, FileFacts DEF Rotate, FilesTyped
<1> HIDE DEF seg, list
<1>4. dir' \in [Files -> Content] /\ dir'[current + 1] = seg /\ dir'[Playlist] = list
      /\ \A f \in Files \ {Playlist, current + 1} : dir'[f] = dir[f]
  BY <1>1, <1>2, <1>3, FileFacts DEF FilesTyped
<1> QED
  BY <1>1, <1>4 DEF seg, list

\* The segment that ffmpeg is writing grows.
LEMMA GrowFacts ==
  ASSUME FilesTyped, Grow
  PROVE  /\ dir' \in [Files -> Content]
         /\ current \in Segments
         /\ dir'[current].at = dir[current].at + 1 /\ dir'[current].at <= MaxSize
         /\ dir'[current] # Missing
         /\ \A f \in Files \ {current} : dir'[f] = dir[f]
<1>1. current \in Segments /\ current \in Files /\ dir[current] \in Content
  BY FileFacts DEF Grow, FilesTyped, Segments
<1> DEFINE c == [dir[current] EXCEPT !.at = @ + 1]
<1>2. /\ c \in Content /\ c.at = dir[current].at + 1 /\ dir[current].at \in Nat
      /\ c.at # 0
  BY <1>1 DEF Content
<1>3. dir' = [dir EXCEPT ![current] = c]
  BY DEF Grow
<1> HIDE DEF c
<1>4. /\ dir' \in [Files -> Content] /\ dir'[current] = c
      /\ \A f \in Files \ {current} : dir'[f] = dir[f]
  BY <1>1, <1>2, <1>3 DEF FilesTyped
<1>5. c.at <= MaxSize
  BY <1>2, FileFacts DEF Grow
<1> QED
  BY <1>1, <1>2, <1>4, <1>5 DEF Missing

\* The removal takes one file away.
LEMMA UnlinkFacts ==
  ASSUME FilesTyped, NEW f \in Files, Unlink(f)
  PROVE  /\ dir' \in [Files -> Content] /\ dir'[f] = Missing
         /\ \A g \in Files \ {f} : dir'[g] = dir[g]
  BY FileFacts DEF Unlink, FilesTyped

LEMMA FilesStepTyped ==
  ASSUME FilesTyped, LoopsTyped, [Next]_vars
  PROVE  FilesTyped'
<1>1. CASE Ffmpeg
  <2>1. CASE Grow
    BY <2>1, GrowFacts DEF Grow, FilesTyped
  <2>2. CASE Rotate
    BY <2>2, RotateFacts DEF Rotate, FilesTyped, Segments
  <2>3. CASE PullEnds
    BY <2>3, FinishedFacts DEF PullEnds, FilesTyped
  <2>4. CASE PullFails
    BY <2>4, FinishedFacts DEF PullFails, FilesTyped
  <2> QED
    BY <1>1, <2>1, <2>2, <2>3, <2>4 DEF Ffmpeg
<1>2. CASE Pull
  BY <1>2, FileFacts DEF Pull, FilesTyped
<1>3. CASE Retry \/ GiveUp \/ FlushFails \/ FlushEnds \/ \E f \in Files : FlushPut(f)
  BY <1>3 DEF Retry, GiveUp, FlushFails, FlushEnds, FlushPut, FilesTyped
<1>4. CASE FlushLands
  BY <1>4, LandTyped DEF FlushLands, FilesTyped, LoopsTyped, GoodLoop
<1>5. CASE (\E f \in Files : Unlink(f)) \/ Remove \/ RemoveFails \/ RemoveAnyway
           \/ AckRead
  BY <1>5, FileFacts, UnlinkFacts
    DEF Unlink, Remove, RemoveFails, RemoveAnyway, AckRead, FilesTyped
<1>6. ASSUME NEW t \in Slots, TickLands(t) PROVE FilesTyped'
  BY <1>6, LandTyped DEF TickLands, FilesTyped, LoopsTyped
<1>7. ASSUME NEW t \in Slots,
             TickStarts(t) \/ (\E f \in Files : TickLooks(t, f)) \/ TickEnds(t)
               \/ TickFails(t)
      PROVE  FilesTyped'
  BY <1>7 DEF TickStarts, TickLooks, TickEnds, TickFails, TickStops, FilesTyped
<1>8. CASE Crash \/ Over \/ UNCHANGED vars
  BY <1>8, FileFacts DEF Crash, Fresh, Over, vars, FilesTyped
<1> QED
  BY <1>1, <1>2, <1>3, <1>4, <1>5, <1>6, <1>7, <1>8 DEF Next, Callback, Tick

\* A tick goes to another state of its loop, the other slot stays as it is.
LEMMA SlotMoves ==
  ASSUME LoopsTyped, NEW t \in Slots, NEW u, GoodLoop(u),
         tick' = [tick EXCEPT ![t] = u]
  PROVE  /\ tick' \in [Slots -> Loop]
         /\ tick'[t] = u
         /\ \A s \in Slots \ {t} : tick'[s] = tick[s]
         /\ \A s \in Slots : GoodLoop(tick'[s])
  BY DEF LoopsTyped, GoodLoop

\* What a tick does with a file it looks at: it begins the put of one that is
\* due, and notes the size of a segment that is not.
LEMMA LooksFacts ==
  ASSUME TypeOK, Bounded, NEW t \in Slots, NEW f \in Files, TickLooks(t, f)
  PROVE  /\ tick' \in [Slots -> Loop] /\ \A s \in Slots : GoodLoop(tick'[s])
         /\ \A s \in Slots \ {t} : tick'[s] = tick[s]
         /\ tick[t].on /\ tick'[t].on = tick[t].on
         /\ dir[f] # Missing
         /\ \/ /\ tick'[t].put.file = f /\ tick'[t].put.content = dir[f]
               /\ UNCHANGED lastSizes
            \/ /\ ~Putting(tick'[t]) /\ tick'[t].put.file = Playlist
               /\ \/ UNCHANGED lastSizes
                  \/ /\ f \in Segments
                     /\ lastSizes' = [lastSizes EXCEPT ![f] = dir[f].at]
<1>1. /\ tick[t] \in Loop /\ tick[t].on /\ f \in tick[t].todo /\ dir[f] # Missing
      /\ dir \in [Files -> Content] /\ LoopsTyped
  BY TypeParts DEF TickLooks, LoopsTyped, FilesTyped
<1>2. CASE Due(f)
  <2>1. tick' = [tick EXCEPT ![t] = Put(tick[t], f)] /\ UNCHANGED lastSizes
    BY <1>1, <1>2 DEF TickLooks, LoopsTyped
  <2> QED
    BY <1>1, <2>1, PutLoop, SlotMoves
<1>3. CASE ~Due(f)
  <2>1. tick' = [tick EXCEPT ![t] = Without(tick[t], f)]
    BY <1>1, <1>3 DEF TickLooks, LoopsTyped
  <2>2. f \in Segments
    BY <1>3, FileFacts DEF Due
  <2>3. UNCHANGED lastSizes \/ lastSizes' = [lastSizes EXCEPT ![f] = dir[f].at]
    BY <1>3 DEF TickLooks
  <2> QED
    BY <1>1, <2>1, <2>2, <2>3, WithoutLoop, SlotMoves
<1> QED
  BY <1>2, <1>3

\* A tick's put has landed.
LEMMA LandsFacts ==
  ASSUME TypeOK, NEW t \in Slots, TickLands(t)
  PROVE  /\ tick' \in [Slots -> Loop] /\ \A s \in Slots : GoodLoop(tick'[s])
         /\ \A s \in Slots \ {t} : tick'[s] = tick[s]
         /\ tick'[t].on = tick[t].on
         /\ ~Putting(tick'[t]) /\ tick'[t].put.file = Playlist
         /\ Putting(tick[t])
         /\ tick[t].put.file \in Files /\ tick[t].put.content \in Content
         /\ \A f \in Files : bucket'[f] = IF f = tick[t].put.file
                                            THEN tick[t].put.content ELSE bucket[f]
<1>1. /\ tick[t] \in Loop /\ LoopsTyped /\ bucket \in [Files -> Content]
      /\ Putting(tick[t]) /\ Land(tick[t])
  BY TypeParts DEF TickLands, LoopsTyped, FilesTyped
<1>2. tick' = [tick EXCEPT ![t] = Without(tick[t], tick[t].put.file)]
  BY <1>1 DEF TickLands, LoopsTyped
<1>3. /\ tick' \in [Slots -> Loop] /\ \A s \in Slots : GoodLoop(tick'[s])
      /\ \A s \in Slots \ {t} : tick'[s] = tick[s]
      /\ tick'[t] = Without(tick[t], tick[t].put.file)
  BY <1>1, <1>2, WithoutLoop, SlotMoves
<1>4. /\ tick'[t].on = tick[t].on
      /\ ~Putting(tick'[t]) /\ tick'[t].put.file = Playlist
  BY <1>1, <1>3, WithoutLoop
<1> QED
  BY <1>1, <1>3, <1>4, LandTyped, LoopFacts

\* A tick ends.
LEMMA StopsFacts ==
  ASSUME TypeOK, OneTick, NEW t \in Slots, tick[t].on, TickStops(t)
  PROVE  /\ tick' \in [Slots -> Loop] /\ \A s \in Slots : GoodLoop(tick'[s])
         /\ \A s \in Slots : tick'[s] = Rest
         /\ ticking' = FALSE
<1>1. tick' = [tick EXCEPT ![t] = Rest] /\ LoopsTyped
  BY TypeParts DEF TickStops
<1>2. \A s \in Slots \ {t} : tick[s] = Rest
  BY DEF OneTick
<1> QED
  BY <1>1, <1>2, RestLoop, SlotMoves DEF TickStops

\* A tick begins.
LEMMA StartsFacts ==
  ASSUME TypeOK, OneTick, NEW t \in Slots, TickStarts(t)
  PROVE  /\ tick' \in [Slots -> Loop] /\ \A s \in Slots : GoodLoop(tick'[s])
         /\ \A s \in Slots : tick[s] = Rest
         /\ \A s \in Slots \ {t} : tick'[s] = Rest
         /\ tick'[t].on /\ ~Putting(tick'[t]) /\ tick'[t].put.file = Playlist
         /\ watching /\ ticking'
<1> DEFINE u == [Rest EXCEPT !.on = TRUE, !.todo = Present]
<1>1. tick' = [tick EXCEPT ![t] = u] /\ LoopsTyped /\ watching /\ ~ticking /\ ticking'
  BY TypeParts DEF TickStarts, TimerStarts
<1>2. \A s \in Slots : tick[s] = Rest
  BY <1>1 DEF LoopsTyped, OneTick
<1>3. GoodLoop(u) /\ ~Putting(u) /\ u.on /\ u.put.file = Playlist
  BY StartLoop DEF Present
<1> HIDE DEF u
<1> QED
  BY <1>1, <1>2, <1>3, SlotMoves

\* The flag goes with the ticks, and the sizes noted are sizes.
LEMMA LoopsStepTyped ==
  ASSUME TypeOK, OneTick, Bounded, [Next]_vars
  PROVE  LoopsTyped'
<1>1. LoopsTyped /\ CallbackTyped /\ FilesTyped
  BY TypeParts
<1>2. flush \in Loop /\ GoodLoop(flush) /\ dir \in [Files -> Content]
  BY <1>1 DEF LoopsTyped, GoodLoop, FilesTyped
<1>3. ASSUME UNCHANGED <<tickVars, flush>> PROVE LoopsTyped'
  BY <1>1, <1>3 DEF LoopsTyped, GoodLoop, Putting
<1>4. ASSUME GoodLoop(flush'), UNCHANGED <<ticking, tick, lastSizes>>,
             uploaded' \subseteq Files
      PROVE  LoopsTyped'
  BY <1>1, <1>4 DEF LoopsTyped, GoodLoop, Putting
<1>5. CASE Grow \/ Rotate \/ PullFails \/ Pull \/ Retry \/ (\E f \in Files : Unlink(f))
           \/ Remove \/ RemoveAnyway \/ AckRead
  BY <1>3, <1>5 DEF Grow, Rotate, PullFails, Pull, Retry, Unlink, Remove,
                    RemoveAnyway, AckRead
<1>6. CASE PullEnds
  <2>1. GoodLoop(flush')
    BY <1>6, StartLoop DEF PullEnds, ToFlush
  <2> QED
    BY <1>1, <1>4, <1>6, <2>1 DEF PullEnds, LoopsTyped
<1>7. CASE GiveUp \/ RemoveFails
  <2>1. GoodLoop(flush')
    BY <1>7, StartLoop DEF GiveUp, RemoveFails, StartReflush, ToFlush, Present
  <2> QED
    BY <1>1, <1>4, <1>7, <2>1 DEF GiveUp, RemoveFails, LoopsTyped
<1>8. CASE FlushFails
  <2>1. GoodLoop(flush')
    BY <1>8, StartLoop, RestLoop DEF FlushFails, StartReflush, ToFlush, Present
  <2> QED
    BY <1>1, <1>4, <1>8, <2>1 DEF FlushFails, LoopsTyped
<1>9. CASE FlushEnds \/ \E f \in Files : FlushPut(f)
  <2>1. GoodLoop(flush')
    BY <1>2, <1>9, IdleLoop, PutLoop DEF FlushEnds, FlushPut
  <2> QED
    BY <1>1, <1>4, <1>9, <2>1 DEF FlushEnds, FlushPut, LoopsTyped
<1>10. CASE FlushLands
  <2>1. GoodLoop(flush')
    BY <1>2, <1>10, WithoutLoop DEF FlushLands
  <2>2. uploaded' \subseteq Files
    BY <1>1, <1>2, <1>10, LoopFacts DEF FlushLands, LoopsTyped
  <2> QED
    BY <1>4, <1>10, <2>1, <2>2 DEF FlushLands
<1>11. ASSUME NEW t \in Slots, TickStarts(t) PROVE LoopsTyped'
  BY <1>1, <1>11, StartsFacts DEF TickStarts, LoopsTyped, GoodLoop, Putting
<1>12. ASSUME NEW t \in Slots, NEW f \in Files, TickLooks(t, f) PROVE LoopsTyped'
  <2>1. lastSizes' \in [Segments -> 0 .. MaxSize]
    <3>1. f \in Segments => dir[f].at \in 0 .. MaxSize
      BY <1>2, FileFacts DEF Bounded, Content
    <3> QED
      BY <1>1, <1>12, <3>1, LooksFacts DEF LoopsTyped
  <2>2. /\ tick' \in [Slots -> Loop] /\ \A s \in Slots : GoodLoop(tick'[s])
        /\ \A s \in Slots : tick'[s].on = tick[s].on
    BY <1>1, <1>12, LooksFacts
  <2> QED
    BY <1>1, <1>2, <1>12, <2>1, <2>2 DEF TickLooks, LoopsTyped, GoodLoop, Putting
<1>13. ASSUME NEW t \in Slots, TickLands(t) PROVE LoopsTyped'
  <2>1. lastSizes' \in [Segments -> 0 .. MaxSize]
    <3>1. tick[t].put.file # Playlist => tick[t].put.content.at \in 0 .. MaxSize
      BY <1>13, LandsFacts, FileFacts DEF Bounded, Content
    <3> QED
      BY <1>1, <1>13, <3>1, LandsFacts, FileFacts DEF TickLands, LoopsTyped
  <2>2. uploaded' \subseteq Files
    BY <1>1, <1>13, LandsFacts DEF TickLands, LoopsTyped
  <2>3. /\ tick' \in [Slots -> Loop] /\ \A s \in Slots : GoodLoop(tick'[s])
        /\ \A s \in Slots : tick'[s].on = tick[s].on
    BY <1>13, LandsFacts
  <2> QED
    BY <1>1, <1>2, <1>13, <2>1, <2>2, <2>3 DEF TickLands, LoopsTyped, GoodLoop, Putting
<1>14. ASSUME NEW t \in Slots, TickEnds(t) \/ TickFails(t) PROVE LoopsTyped'
  <2>1. tick[t].on /\ TickStops(t)
    BY <1>14 DEF TickEnds, TickFails
  <2> QED
    BY <1>1, <1>2, <2>1, StopsFacts, RestLoop DEF TickStops, LoopsTyped, GoodLoop, Putting
<1>15. CASE Crash
  <2>1. /\ tick' = [t \in Slots |-> Rest] /\ flush' = Rest /\ ticking' = FALSE
        /\ uploaded' = {} /\ lastSizes' = [i \in Segments |-> 0]
    BY <1>15 DEF Crash, Fresh
  <2>2. lastSizes' \in [Segments -> 0 .. MaxSize] /\ tick' \in [Slots -> Loop]
    BY <2>1, RestLoop, FileFacts DEF GoodLoop
  <2> QED
    BY <2>1, <2>2, RestLoop DEF LoopsTyped, GoodLoop, Putting
<1>16. CASE Over \/ UNCHANGED vars
  BY <1>3, <1>16 DEF Over, vars
<1> QED
  BY <1>5, <1>6, <1>7, <1>8, <1>9, <1>10, <1>11, <1>12, <1>13, <1>14, <1>15, <1>16
    DEF Next, Ffmpeg, Callback, Tick

----------------------------------------------------------------------------
(* The timer, the ticks and the bounds.                                    *)

\* What the ticks leave alone.
LEMMA TickFrame ==
  ASSUME TypeOK, NEW t \in Slots, TickStarts(t) \/ Tick(t)
  PROVE  /\ UNCHANGED <<callbackVars, ffmpegVars, flush, crashes>>
         /\ faults' >= faults
         /\ UNCHANGED bucket \/ TickLands(t)
<1>1. faults \in Nat
  BY TypeParts, LiveBounds DEF CallbackTyped
<1> QED
  BY <1>1 DEF TickStarts, Tick, TickLooks, TickLands, TickEnds, TickFails,
              TickStops, Fault

\* The timer is cleared before a flush begins and not set again.
LEMMA StepStopped ==
  ASSUME TypeOK, OneTick, Stopped, [Next]_vars
  PROVE  Stopped'
<1>1. CASE Ffmpeg \/ Pull \/ Retry \/ GiveUp \/ Crash
  BY <1>1 DEF Ffmpeg, Grow, Rotate, PullEnds, PullFails, Encoding, Pull, Retry,
              GiveUp, StartReflush, Crash, Fresh, Stopped
<1>2. CASE FlushLands \/ FlushFails \/ FlushEnds \/ \E f \in Files : FlushPut(f)
  BY <1>2 DEF FlushLands, FlushFails, FlushEnds, FlushPut, Flushing,
              StartReflush, Stopped
<1>3. CASE (\E f \in Files : Unlink(f)) \/ Remove \/ RemoveFails \/ RemoveAnyway
           \/ AckRead
  BY <1>3 DEF Unlink, Remove, RemoveFails, RemoveAnyway, AckRead, StartReflush, Stopped
<1>4. ASSUME NEW t \in Slots, TickStarts(t) \/ Tick(t) PROVE Stopped'
  <2>1. UNCHANGED <<pc, watching, lateTick>>
    BY <1>4, TickFrame
  <2>2. TickStarts(t) => watching
    BY DEF TickStarts, TimerStarts
  <2>3. Tick(t) => UNCHANGED ticking \/ ticking' = FALSE
    BY DEF Tick, TickLooks, TickLands, TickEnds, TickFails, TickStops
  <2> QED
    BY <1>4, <2>1, <2>2, <2>3 DEF Stopped
<1>5. CASE Over \/ UNCHANGED vars
  BY <1>5 DEF Over, vars, Stopped
<1> QED
  BY <1>1, <1>2, <1>3, <1>4, <1>5 DEF Next, Callback

\* The flag keeps ticks apart.
LEMMA StepOneTick ==
  ASSUME TypeOK, OneTick, Bounded, [Next]_vars
  PROVE  OneTick'
<1>1. LoopsTyped
  BY TypeParts
<1>2. ASSUME NEW t \in Slots, TickStarts(t) PROVE OneTick'
  BY <1>2, StartsFacts, RestLoop DEF OneTick
<1>3. ASSUME NEW t \in Slots, NEW f \in Files, TickLooks(t, f) PROVE OneTick'
  BY <1>3, LooksFacts DEF OneTick
<1>4. ASSUME NEW t \in Slots, TickLands(t) PROVE OneTick'
  <2>1. tick[t].on
    BY <1>4, LandsFacts, RestLoop DEF OneTick
  <2> QED
    BY <1>4, <2>1, LandsFacts DEF OneTick
<1>5. ASSUME NEW t \in Slots, TickEnds(t) \/ TickFails(t) PROVE OneTick'
  BY <1>5, StopsFacts, RestLoop DEF TickEnds, TickFails, OneTick
<1>6. CASE Crash
  BY <1>6, RestLoop DEF Crash, Fresh, OneTick
<1>7. CASE Ffmpeg \/ Callback \/ Over \/ UNCHANGED vars
  <2>1. UNCHANGED tick
    BY <1>7 DEF Ffmpeg, Grow, Rotate, PullEnds, PullFails, Callback, Pull, Retry,
                GiveUp, FlushPut, FlushLands, FlushFails, FlushEnds, Unlink, Remove,
                RemoveFails, RemoveAnyway, AckRead, Over, vars
  <2> QED
    BY <2>1 DEF OneTick
<1> QED
  BY <1>2, <1>3, <1>4, <1>5, <1>6, <1>7 DEF Next, Tick

\* A segment is never larger than its last size, and neither is what is put.
LEMMA StepBounded ==
  ASSUME TypeOK, OneTick, Bounded, [Next]_vars
  PROVE  Bounded'
<1>1. LoopsTyped /\ FilesTyped /\ CallbackTyped
  BY TypeParts
<1>2. \A i \in Segments : dir'[i].at <= MaxSize
  <2>1. CASE Grow
    BY <2>1, <1>1, GrowFacts, FileFacts DEF Bounded
  <2>2. CASE Rotate
    BY <2>2, <1>1, RotateFacts, FileFacts DEF Bounded
  <2>3. CASE PullEnds \/ PullFails
    BY <2>3, <1>1, FinishedFacts, FileFacts DEF PullEnds, PullFails, Bounded
  <2>4. ASSUME NEW f \in Files, Unlink(f)
        PROVE  \A i \in Segments : dir'[i].at <= MaxSize
    BY <1>1, <2>4, UnlinkFacts, FileFacts DEF Missing, Bounded
  <2>5. CASE UNCHANGED dir
    BY <2>5 DEF Bounded
  <2>6. Ffmpeg \/ (\E f \in Files : Unlink(f)) \/ UNCHANGED dir
    BY DEF Next, Callback, Pull, Retry, GiveUp, FlushPut, FlushLands, FlushFails,
           FlushEnds, Unlink, Remove, RemoveFails, RemoveAnyway, AckRead, TickStarts, Tick,
           TickLooks, TickLands, TickEnds, TickFails, TickStops, Crash, Over, vars
  <2> QED
    BY <2>1, <2>2, <2>3, <2>4, <2>5, <2>6 DEF Ffmpeg
<1>3. \A s \in Slots :
        tick'[s].put.file # Playlist => tick'[s].put.content.at <= MaxSize
  <2>1. ASSUME NEW t \in Slots, NEW f \in Files, TickLooks(t, f)
        PROVE  \A s \in Slots :
                 tick'[s].put.file # Playlist => tick'[s].put.content.at <= MaxSize
    <3>1. \A s \in Slots \ {t} : tick'[s] = tick[s]
      BY <2>1, LooksFacts
    <3>2. tick'[t].put.file # Playlist => tick'[t].put.content.at <= MaxSize
      BY <2>1, LooksFacts, FileFacts DEF Bounded
    <3> QED
      BY <3>1, <3>2 DEF Bounded
  <2>2. ASSUME NEW t \in Slots, TickStarts(t) \/ TickLands(t)
        PROVE  \A s \in Slots :
                 tick'[s].put.file # Playlist => tick'[s].put.content.at <= MaxSize
    BY <2>2, StartsFacts, LandsFacts, RestLoop DEF Bounded
  <2>3. ASSUME NEW t \in Slots, TickEnds(t) \/ TickFails(t)
        PROVE  \A s \in Slots :
                 tick'[s].put.file # Playlist => tick'[s].put.content.at <= MaxSize
    BY <2>3, StopsFacts, RestLoop DEF TickEnds, TickFails
  <2>4. CASE Crash
    BY <2>4, RestLoop DEF Crash, Fresh
  <2>5. CASE Ffmpeg \/ Callback \/ Over \/ UNCHANGED vars
    <3>1. UNCHANGED tick
      BY <2>5 DEF Ffmpeg, Grow, Rotate, PullEnds, PullFails, Callback, Pull, Retry,
                  GiveUp, FlushPut, FlushLands, FlushFails, FlushEnds, Unlink, Remove,
                  RemoveFails, RemoveAnyway, AckRead, Over, vars
    <3> QED
      BY <3>1 DEF Bounded
  <2> QED
    BY <2>1, <2>2, <2>3, <2>4, <2>5 DEF Next, Tick
<1>4. pc' = "pull" => attempt' < 3
  BY DEF Next, Ffmpeg, Grow, Rotate, PullEnds, PullFails, Callback, Pull, Retry,
         GiveUp, FlushPut, FlushLands, FlushFails, FlushEnds, Unlink, Remove, RemoveFails,
         RemoveAnyway, AckRead, StartReflush, TickStarts, Tick, TickLooks, TickLands,
         TickEnds, TickFails, TickStops, Crash, Fresh, Over, vars, Bounded,
         Flushing, Encoding
<1> QED
  BY <1>2, <1>3, <1>4 DEF Bounded

----------------------------------------------------------------------------
(* The directory, the flush and the bucket.                                *)

\* No file vanishes from the directory but the one the removal takes away.
LEMMA FilesStay ==
  ASSUME TypeOK, [Next]_vars, NEW f \in Files, dir[f] # Missing, ~Unlink(f)
  PROVE  dir'[f] # Missing
<1>1. FilesTyped
  BY TypeParts
<1>2. CASE Grow
  BY <1>1, <1>2, GrowFacts
<1>3. CASE Rotate
  <2>1. \A c \in {dir'[current'], dir'[Playlist]} : c # Missing \/ c = dir[Playlist]
    BY <1>1, <1>3, RotateFacts, FileFacts DEF Missing, FilesTyped
  <2>2. dir'[current'] # Missing
    BY <1>1, <1>3, RotateFacts DEF Missing
  <2>3. f = Playlist => dir'[f] # Missing
    BY <2>1
  <2> QED
    BY <1>1, <1>3, <2>2, <2>3, RotateFacts
<1>4. CASE PullEnds \/ PullFails
  BY <1>1, <1>4, FinishedFacts DEF PullEnds, PullFails
<1>5. ASSUME NEW g \in Files, Unlink(g) PROVE dir'[f] # Missing
  BY <1>1, <1>5, UnlinkFacts
<1>6. CASE UNCHANGED dir
  BY <1>6
<1>7. Ffmpeg \/ (\E g \in Files : Unlink(g)) \/ UNCHANGED dir
  BY DEF Next, Callback, Pull, Retry, GiveUp, FlushPut, FlushLands, FlushFails,
         FlushEnds, Remove, RemoveFails, RemoveAnyway, AckRead, TickStarts, Tick,
         TickLooks, TickLands, TickEnds, TickFails, TickStops, Crash, Over, vars
<1> QED
  BY <1>2, <1>3, <1>4, <1>5, <1>6, <1>7 DEF Ffmpeg

\* An object changes only by a put that lands: one of a tick, or one of the
\* flush, which brings what is on disk.
LEMMA BucketMoves ==
  ASSUME TypeOK, FlushGoesOn, [Next]_vars, NEW f \in Files
  PROVE  \/ bucket'[f] = bucket[f]
         \/ \E t \in Slots : /\ TickLands(t) /\ tick[t].put.file = f
                             /\ bucket'[f] = tick[t].put.content
         \/ FlushLands /\ bucket'[f] = dir[f] /\ dir[f] # Missing
<1>1. LoopsTyped /\ FilesTyped
  BY TypeParts
<1>2. CASE FlushLands
  <2>1. /\ flush \in Loop /\ Land(flush) /\ Putting(flush)
        /\ flush.put.content = dir[flush.put.file]
        /\ dir[flush.put.file] # Missing
    BY <1>1, <1>2 DEF FlushLands, Flushing, FlushGoesOn, LoopsTyped, GoodLoop
  <2>2. bucket'[f] = IF f = flush.put.file THEN flush.put.content ELSE bucket[f]
    BY <1>1, <2>1, LandTyped DEF FilesTyped
  <2> QED
    BY <1>2, <2>1, <2>2
<1>3. ASSUME NEW t \in Slots, TickLands(t)
      PROVE  \/ bucket'[f] = bucket[f]
             \/ tick[t].put.file = f /\ bucket'[f] = tick[t].put.content
  BY <1>3, LandsFacts
<1>4. FlushLands \/ (\E t \in Slots : TickLands(t)) \/ UNCHANGED bucket
  BY DEF Next, Ffmpeg, Grow, Rotate, PullEnds, PullFails, Callback, Pull, Retry,
         GiveUp, FlushPut, FlushFails, FlushEnds, Unlink, Remove, RemoveFails,
         RemoveAnyway, AckRead, TickStarts, Tick, TickLooks, TickEnds, TickFails,
         TickStops, Crash, Over, vars
<1> QED
  BY <1>2, <1>3, <1>4

\* No object vanishes from the bucket.
LEMMA BucketStays ==
  ASSUME TypeOK, FlushGoesOn, ListedKept, [Next]_vars, NEW f \in Files,
         bucket[f] # Missing
  PROVE  bucket'[f] # Missing
  BY BucketMoves, LandsFacts DEF ListedKept

\* ffmpeg writes one segment after the other and lists no other ones.
LEMMA StepRecorded ==
  ASSUME TypeOK, Flushed, Recorded, [Next]_vars
  PROVE  Recorded'
<1> USE DEF Encoding
<1>1. FilesTyped /\ take \in Nat /\ current \in 0 .. MaxSegments
  BY TypeParts DEF FilesTyped
<1>2. ASSUME pc' = "pulling" PROVE \A i \in 1 .. current' : dir'[i] # Missing
  <2>1. CASE Pull
    BY <2>1 DEF Pull
  <2>2. CASE Grow
    <3>1. \A i \in 1 .. current : i \in Files /\ dir[i] # Missing
      BY <1>1, <2>2, FileFacts DEF Grow, Recorded, Segments
    <3> QED
      BY <1>1, <2>2, <3>1, GrowFacts DEF Grow
  <2>3. CASE Rotate
    <3>1. \A i \in 1 .. current : i \in Segments /\ dir[i] # Missing
      BY <1>1, <2>3, LiveBounds DEF Rotate, Recorded, Segments
    <3>2. dir'[current'] # Missing /\ current' = current + 1
      BY <1>1, <2>3, RotateFacts DEF Missing
    <3>3. \A i \in 1 .. current : dir'[i] = dir[i]
      BY <1>1, <2>3, <3>1, RotateFacts, FileFacts
    <3> QED
      BY <1>1, <3>1, <3>2, <3>3
  <2>4. Pull \/ Grow \/ Rotate \/ UNCHANGED <<pc, dir, current>>
    BY <1>2
       DEF Next, Ffmpeg, PullEnds, PullFails, Callback, Retry, GiveUp, FlushPut,
           FlushLands, FlushFails, FlushEnds, Unlink, Remove, RemoveFails,
           RemoveAnyway, AckRead, StartReflush, TickStarts, Tick, TickLooks,
           TickLands, TickEnds, TickFails, TickStops, Crash, Fresh, Over, vars,
           Flushing
  <2> QED
    BY <1>2, <2>1, <2>2, <2>3, <2>4 DEF Recorded
<1>3. ASSUME pc' \in {"flush", "remove"} \/ status' = "done"
      PROVE  /\ recording'[Playlist] # Missing
             /\ \A i \in Listed(recording'[Playlist]) :
                  i \in Segments /\ recording'[i] # Missing
  <2>1. CASE PullEnds
    <3>1. current \in 1 .. MaxSegments /\ recording' = Finished
      BY <1>1, <2>1, LiveBounds DEF PullEnds
    <3>2. /\ Finished[Playlist] # Missing
          /\ Listed(Finished[Playlist]) = 1 .. current
      BY <1>1, <3>1, FinishedFacts, ListedEnded
    <3>3. \A i \in 1 .. current : i \in Segments /\ dir[i] # Missing
      BY <2>1, <3>1, LiveBounds DEF PullEnds, Recorded, Segments
    <3>4. \A i \in 1 .. current : Finished[i] = dir[i]
      BY <1>1, <3>1, <3>3, FinishedFacts, FileFacts
    <3> QED
      BY <3>1, <3>2, <3>3, <3>4
  <2>2. CASE ~PullEnds
    <3>1. /\ UNCHANGED recording
          /\ pc \in {"flush", "remove"} \/ status = "done"
      BY <1>3, <2>2
         DEF Next, Ffmpeg, Grow, Rotate, PullFails, Callback, Pull, Retry, GiveUp,
             FlushPut, FlushLands, FlushFails, FlushEnds, Unlink, Remove,
             RemoveFails, RemoveAnyway, AckRead, StartReflush, TickStarts, Tick,
             TickLooks, TickLands, TickEnds, TickFails, TickStops, Crash, Fresh,
             Over, vars, Flushing, Flushed
    <3> QED
      BY <3>1 DEF Recorded
  <2> QED
    BY <2>1, <2>2
<1> QED
  BY <1>2, <1>3 DEF Recorded

\* A flush begins with every file there is on its list.
LEMMA FlushBegins ==
  ASSUME NEW d \in [Files -> Content],
         flush' = [Rest EXCEPT !.on = TRUE,
                      !.todo = ToFlush({f \in Files : d[f] # Missing})]
  PROVE  /\ ~Putting(flush')
         /\ \A f \in flush'.todo : d[f] # Missing
         /\ \A f \in Files \ flush'.todo : d[f] = Missing
<1>1. ~Putting(flush') /\ flush'.todo = {f \in Files : d[f] # Missing}
  BY StartLoop DEF ToFlush
<1> QED
  BY <1>1

\* A flush brings one file after the other to the bucket, and nothing changes
\* in the directory or, without a late tick, in the bucket behind its back.
LEMMA StepFlushGoesOn ==
  ASSUME TypeOK, OneTick, Bounded, Stopped, FlushGoesOn, Flushed, ListedKept,
         [Next]_vars
  PROVE  FlushGoesOn'
<1> USE DEF Flushing, Encoding
<1>1. LoopsTyped /\ FilesTyped /\ faults \in Nat
  BY TypeParts, LiveBounds DEF CallbackTyped
<1>2. flush \in Loop /\ GoodLoop(flush)
  BY <1>1 DEF LoopsTyped, GoodLoop
<1>3. CASE PullEnds
  <2>1. Finished \in [Files -> Content]
    BY <1>1, <1>3, FinishedFacts DEF PullEnds
  <2>2. /\ ~Putting(flush')
        /\ \A f \in flush'.todo : Finished[f] # Missing
        /\ \A f \in Files \ flush'.todo : Finished[f] = Missing
    BY <1>3, <2>1, FlushBegins DEF PullEnds
  <2> QED
    BY <1>3, <2>2 DEF PullEnds, FlushGoesOn, Putting
<1>4. CASE /\ StartReflush /\ UNCHANGED <<dir, bucket>>
           /\ faults' = 0 => recording' = dir
  <2>1. /\ ~Putting(flush')
        /\ \A f \in flush'.todo : dir[f] # Missing
        /\ \A f \in Files \ flush'.todo : dir[f] = Missing
    BY <1>1, <1>4, FlushBegins DEF StartReflush, Present, FilesTyped
  <2> QED
    BY <1>4, <2>1 DEF StartReflush, FlushGoesOn, Putting
<1>5. CASE GiveUp
  BY <1>4, <1>5 DEF GiveUp
<1>6. CASE RemoveFails \/ (FlushFails /\ pc = "flush")
  <2>1. faults' # 0
    BY <1>1, <1>6 DEF RemoveFails, FlushFails, Fault
  <2> QED
    BY <1>4, <1>6, <2>1 DEF RemoveFails, FlushFails
<1>7. ASSUME NEW f \in Files, FlushPut(f) PROVE FlushGoesOn'
  <2>1. /\ flush'.todo = flush.todo
        /\ flush'.put.file = f /\ flush'.put.content = dir[f]
    BY <1>1, <1>2, <1>7, PutLoop DEF FlushPut, FilesTyped
  <2> QED
    BY <1>7, <2>1 DEF FlushPut, FlushGoesOn, Putting
<1>8. CASE FlushLands
  <2>1. /\ flush'.todo = flush.todo \ {flush.put.file} /\ ~Putting(flush')
        /\ flush.put.content = dir[flush.put.file]
        /\ dir[flush.put.file] # Missing
    BY <1>2, <1>8, WithoutLoop DEF FlushLands, FlushGoesOn, GoodLoop
  <2>2. \A f \in Files : bucket'[f] = IF f = flush.put.file
                                        THEN flush.put.content ELSE bucket[f]
    BY <1>1, <1>2, <1>8, LandTyped DEF FlushLands, FilesTyped
  <2>3. /\ UNCHANGED <<pc, dir, recording, lateTick, faults>>
        /\ pc = "flush" \/ faults = 0 => recording = dir
        /\ \A f \in flush.todo : dir[f] # Missing
        /\ \A f \in Files \ flush.todo : dir[f] = Missing \/ bucket[f] # Missing
        /\ ~lateTick =>
             \A f \in Files \ flush.todo : dir[f] = Missing \/ bucket[f] = dir[f]
    BY <1>8 DEF FlushLands, FlushGoesOn
  <2> QED
    BY <2>1, <2>2, <2>3 DEF FlushGoesOn, Putting
<1>9. ASSUME NEW t \in Slots, TickStarts(t) \/ Tick(t) PROVE FlushGoesOn'
  <2>1. /\ UNCHANGED <<pc, dir, recording, lateTick, flush>>
        /\ UNCHANGED bucket \/ TickLands(t)
        /\ faults' = 0 => faults = 0
    BY <1>1, <1>9, TickFrame
  <2>2. CASE UNCHANGED bucket
    BY <2>1, <2>2 DEF FlushGoesOn, Putting
  <2>3. CASE TickLands(t)
    <3>1. tick[t].on
      BY <2>3, LandsFacts, RestLoop DEF OneTick
    <3>2. pc \in {"flush", "reflush"} => lateTick
      BY <1>1, <3>1 DEF Stopped, LoopsTyped
    <3>3. \A f \in Files : bucket[f] # Missing => bucket'[f] # Missing
      BY BucketStays
    <3> QED
      BY <2>1, <3>2, <3>3 DEF FlushGoesOn, Putting
  <2> QED
    BY <2>1, <2>2, <2>3
<1>10. CASE Over \/ UNCHANGED vars
  BY <1>10 DEF Over, vars, FlushGoesOn, Putting
<1>11. CASE pc' \notin {"flush", "reflush"}
  BY <1>11 DEF FlushGoesOn
<1>12. Grow \/ Rotate \/ PullFails \/ Pull \/ Retry \/ (FlushFails /\ pc # "flush")
         \/ FlushEnds \/ (\E f \in Files : Unlink(f)) \/ Remove \/ RemoveAnyway
         \/ AckRead \/ Crash
       => pc' \notin {"flush", "reflush"}
  BY DEF Grow, Rotate, PullFails, Pull, Retry, FlushFails, FlushEnds, Unlink,
         Remove, RemoveAnyway, AckRead, Crash, Fresh
<1> QED
  BY <1>3, <1>5, <1>6, <1>7, <1>8, <1>9, <1>10, <1>11, <1>12
    DEF Next, Ffmpeg, Callback

\* A flush that has nothing left on its list has brought the recording to the
\* bucket, and without a late tick it stays there.
LEMMA StepFlushed ==
  ASSUME TypeOK, OneTick, Bounded, Stopped, FlushGoesOn, Flushed, ListedKept,
         [Next]_vars
  PROVE  Flushed'
<1> USE DEF Flushing, Encoding, Kept
<1>1. LoopsTyped /\ FilesTyped /\ faults \in Nat
  BY TypeParts, LiveBounds DEF CallbackTyped
<1>2. CASE FlushEnds
  BY <1>2 DEF FlushEnds, FlushGoesOn, Flushed
<1>3. CASE FlushFails
  BY <1>1, <1>3 DEF FlushFails, Fault, StartReflush, Flushed
<1>4. CASE Remove
  BY <1>4 DEF Remove, Flushed
<1>5. CASE RemoveFails
  BY <1>5 DEF RemoveFails, StartReflush, Flushed
<1>6. CASE RemoveAnyway
  <2>1. faults' = 0 => faults = 0 /\ Present = {} /\ Present' = {}
    BY <1>1, <1>6 DEF RemoveAnyway, Fault, Present
  <2> QED
    BY <1>6, <2>1 DEF RemoveAnyway, Flushed
<1>7. CASE AckRead
  <2>1. Present' = Present
    BY <1>7 DEF AckRead, Present
  <2> QED
    BY <1>7, <2>1 DEF AckRead, Flushed
<1>8. ASSUME NEW f \in Files, Unlink(f) PROVE Flushed'
  BY <1>1, <1>8, UnlinkFacts DEF Unlink, Flushed
<1>9. ASSUME NEW t \in Slots, TickStarts(t) \/ Tick(t) PROVE Flushed'
  <2>1. /\ UNCHANGED <<pc, dir, recording, lateTick, status>> /\ faults' >= faults
        /\ UNCHANGED bucket \/ TickLands(t)
    BY <1>9, TickFrame
  <2>2. faults' = 0 => faults = 0
    BY <1>1, <2>1, TypeParts, CallbackStepTyped, LiveBounds DEF CallbackTyped
  <2>3. Present' = Present
    BY <2>1 DEF Present
  <2>4. CASE UNCHANGED bucket
    BY <2>1, <2>2, <2>3, <2>4 DEF Flushed
  <2>5. CASE TickLands(t)
    <3>1. tick[t].on
      BY <2>5, LandsFacts, RestLoop DEF OneTick
    <3>2. pc \in {"remove", "reremove", "end", "over"} => lateTick
      BY <1>1, <3>1 DEF Stopped, LoopsTyped
    <3>3. \A f \in Files : bucket[f] # Missing => bucket'[f] # Missing
      BY BucketStays
    <3> QED
      BY <2>1, <2>2, <2>3, <3>2, <3>3 DEF Flushed
  <2> QED
    BY <2>1, <2>4, <2>5
<1>10. CASE Over \/ UNCHANGED vars
  <2>1. Present' = Present
    BY <1>10 DEF Over, vars, Present
  <2> QED
    BY <1>10, <2>1 DEF Over, vars, Flushed
<1>11. CASE Ffmpeg \/ Pull \/ Retry \/ GiveUp \/ Crash
  BY <1>11 DEF Ffmpeg, Grow, Rotate, PullEnds, PullFails, Pull, Retry, GiveUp,
               StartReflush, Crash, Fresh, Flushed
<1>12. CASE FlushLands \/ \E f \in Files : FlushPut(f)
  BY <1>12 DEF FlushLands, FlushPut, Flushed
<1> QED
  BY <1>2, <1>3, <1>4, <1>5, <1>6, <1>7, <1>8, <1>9, <1>10, <1>11, <1>12
    DEF Next, Callback

\* Nothing that is held on disk or in the bucket is lost from both: ffmpeg and
\* the ticks lose nothing, an exit of the process loses no file and no object,
\* and the removal takes away what the flush before it has put.
LEMMA HeldStays ==
  ASSUME TypeOK, FlushGoesOn, Flushed, ListedKept, [Next]_vars, faults = 0
  PROVE  Held \subseteq Held'
<1> SUFFICES ASSUME NEW i \in Segments, dir[i] # Missing \/ bucket[i] # Missing
             PROVE  dir'[i] # Missing \/ bucket'[i] # Missing
  BY DEF Held
<1>1. i \in Files
  BY FileFacts
<1>2. CASE bucket[i] # Missing
  BY <1>1, <1>2, BucketStays
<1>3. CASE dir[i] # Missing /\ ~Unlink(i)
  BY <1>1, <1>3, FilesStay
<1>4. CASE dir[i] # Missing /\ Unlink(i)
  BY <1>1, <1>4, BucketStays DEF Unlink, Flushed
<1> QED
  BY <1>2, <1>3, <1>4

\* A tick begins the put of a file that is there.
LEMMA StepPutsReal ==
  ASSUME TypeOK, OneTick, Bounded, ListedKept, [Next]_vars
  PROVE  \A s \in Slots : Putting(tick'[s]) => tick'[s].put.content # Missing
<1>1. \A s \in Slots : Putting(tick[s]) => tick[s].put.content # Missing
  BY DEF ListedKept
<1>2. ASSUME NEW t \in Slots, NEW f \in Files, TickLooks(t, f)
      PROVE  \A s \in Slots : Putting(tick'[s]) => tick'[s].put.content # Missing
  BY <1>1, <1>2, LooksFacts
<1>3. ASSUME NEW t \in Slots, TickLands(t)
      PROVE  \A s \in Slots : Putting(tick'[s]) => tick'[s].put.content # Missing
  BY <1>1, <1>3, LandsFacts
<1>4. ASSUME NEW t \in Slots, TickStarts(t) \/ TickEnds(t) \/ TickFails(t)
      PROVE  \A s \in Slots : Putting(tick'[s]) => tick'[s].put.content # Missing
  BY <1>4, StartsFacts, StopsFacts, RestLoop DEF TickEnds, TickFails
<1>5. CASE Crash
  BY <1>5, RestLoop DEF Crash, Fresh
<1>6. CASE UNCHANGED tick
  BY <1>1, <1>6
<1>7. (Ffmpeg \/ Callback \/ Over \/ UNCHANGED vars) => UNCHANGED tick
  BY DEF Ffmpeg, Grow, Rotate, PullEnds, PullFails, Callback, Pull, Retry,
         GiveUp, FlushPut, FlushLands, FlushFails, FlushEnds, Unlink, Remove,
         RemoveFails, RemoveAnyway, AckRead, Over, vars
<1> QED
  BY <1>2, <1>3, <1>4, <1>5, <1>6, <1>7 DEF Next, Tick

\* What ffmpeg's playlist lists is held.
LEMMA StepDirBacked ==
  ASSUME TypeOK, Recorded, ListedKept, [Next]_vars, faults = 0,
         Held \subseteq Held'
  PROVE  Listed(dir'[Playlist]) \subseteq Held'
<1> USE DEF Encoding
<1>1. /\ FilesTyped /\ take \in Nat /\ current \in 0 .. MaxSegments
      /\ Listed(dir[Playlist]) \subseteq Held
  BY TypeParts DEF FilesTyped, ListedKept, Backed
<1>2. pc = "pulling" => 1 .. current \subseteq Held
  BY <1>1, LiveBounds DEF Recorded, Held, Segments
<1>3. CASE Grow
  BY <1>1, <1>3, GrowFacts, FileFacts
<1>4. CASE Rotate
  <2>1. CASE current = 0
    BY <1>1, <1>4, <2>1, RotateFacts
  <2>2. CASE current # 0
    <3>1. dir'[Playlist] = [take |-> take, at |-> current]
      BY <1>1, <1>4, <2>2, RotateFacts
    <3>2. Listed(dir'[Playlist]) = 1 .. current
      BY <1>1, <3>1, ListedOpen
    <3> QED
      BY <1>2, <1>4, <3>2 DEF Rotate
  <2> QED
    BY <2>1, <2>2
<1>5. CASE (PullEnds \/ PullFails) /\ current # 0 /\ dir' = Finished
  <2>1. current \in 1 .. MaxSegments
    BY <1>1, <1>5
  <2>2. dir'[Playlist] = [take |-> take, at |-> Ended(current)]
    BY <1>1, <1>5, FinishedFacts
  <2>3. Listed(dir'[Playlist]) = 1 .. current
    BY <1>1, <2>1, <2>2, ListedEnded
  <2> QED
    BY <1>2, <1>5, <2>3 DEF PullEnds, PullFails
<1>6. ASSUME NEW f \in Files, Unlink(f)
      PROVE  Listed(dir'[Playlist]) \subseteq Held'
  <2>1. dir'[Playlist] = dir[Playlist] \/ dir'[Playlist] = Missing
    BY <1>1, <1>6, UnlinkFacts, FileFacts
  <2> QED
    BY <1>1, <2>1, ListedMissing
<1>7. CASE UNCHANGED dir
  BY <1>1, <1>7
<1>8. Ffmpeg \/ (\E f \in Files : Unlink(f)) \/ UNCHANGED dir
  BY DEF Next, Callback, Pull, Retry, GiveUp, FlushPut, FlushLands, FlushFails,
         FlushEnds, Remove, RemoveFails, RemoveAnyway, AckRead, TickStarts, Tick,
         TickLooks, TickLands, TickEnds, TickFails, TickStops, Crash, Over, vars
<1>9. PullEnds \/ PullFails => UNCHANGED dir \/ (current # 0 /\ dir' = Finished)
  BY DEF PullEnds, PullFails
<1> QED
  BY <1>3, <1>4, <1>5, <1>6, <1>7, <1>8, <1>9 DEF Ffmpeg

\* Every playlist, on disk, on its way or in the bucket, lists what is held.
LEMMA StepListedKept ==
  ASSUME TypeOK, OneTick, Bounded, Recorded, FlushGoesOn, Flushed, ListedKept,
         [Next]_vars
  PROVE  ListedKept'
<1>1. \A s \in Slots : Putting(tick'[s]) => tick'[s].put.content # Missing
  BY StepPutsReal
<1> SUFFICES ASSUME faults' = 0
             PROVE  /\ Listed(dir'[Playlist]) \subseteq Held'
                    /\ Listed(bucket'[Playlist]) \subseteq Held'
                    /\ \A s \in Slots :
                         Putting(tick'[s]) /\ tick'[s].put.file = Playlist =>
                           Listed(tick'[s].put.content) \subseteq Held'
  BY <1>1 DEF ListedKept, Backed
<1>2. faults = 0
  <2>1. faults \in Nat
    BY TypeParts, LiveBounds DEF CallbackTyped
  <2>2. faults' = faults \/ faults' = faults + 1
    BY DEF Next, Ffmpeg, Grow, Rotate, PullEnds, PullFails, Callback, Pull, Retry,
           GiveUp, FlushPut, FlushLands, FlushFails, FlushEnds, Unlink, Remove,
           RemoveFails, RemoveAnyway, AckRead, Fault, TickStarts, Tick, TickLooks,
           TickLands, TickEnds, TickFails, TickStops, Crash, Over, vars
  <2> QED
    BY <2>1, <2>2
<1>3. Held \subseteq Held'
  BY <1>2, HeldStays
<1>4. /\ Listed(dir[Playlist]) \subseteq Held'
      /\ Listed(bucket[Playlist]) \subseteq Held'
      /\ \A s \in Slots :
           Putting(tick[s]) /\ tick[s].put.file = Playlist =>
             Listed(tick[s].put.content) \subseteq Held'
  BY <1>2, <1>3 DEF ListedKept, Backed
<1>5. Listed(dir'[Playlist]) \subseteq Held'
  BY <1>2, <1>3, StepDirBacked
<1>6. Listed(bucket'[Playlist]) \subseteq Held'
  BY <1>4, BucketMoves, LandsFacts, FileFacts
<1>7. ASSUME NEW s \in Slots, Putting(tick'[s]), tick'[s].put.file = Playlist
      PROVE  Listed(tick'[s].put.content) \subseteq Held'
  <2>1. ASSUME NEW t \in Slots, NEW f \in Files, TickLooks(t, f)
        PROVE  Listed(tick'[s].put.content) \subseteq Held'
    BY <1>4, <1>7, <2>1, LooksFacts
  <2>2. ASSUME NEW t \in Slots, TickLands(t)
        PROVE  Listed(tick'[s].put.content) \subseteq Held'
    BY <1>4, <1>7, <2>2, LandsFacts
  <2>3. ~\E t \in Slots : TickStarts(t) \/ TickEnds(t) \/ TickFails(t)
    BY <1>7, StartsFacts, StopsFacts, RestLoop DEF TickEnds, TickFails
  <2>4. ~Crash
    BY <1>7, RestLoop DEF Crash, Fresh
  <2>5. CASE UNCHANGED tick
    BY <1>4, <1>7, <2>5
  <2>6. (Ffmpeg \/ Callback \/ Over \/ UNCHANGED vars) => UNCHANGED tick
    BY DEF Ffmpeg, Grow, Rotate, PullEnds, PullFails, Callback, Pull, Retry,
           GiveUp, FlushPut, FlushLands, FlushFails, FlushEnds, Unlink, Remove,
           RemoveFails, RemoveAnyway, AckRead, Over, vars
  <2> QED
    BY <2>1, <2>2, <2>3, <2>4, <2>5, <2>6 DEF Next, Tick
<1> QED
  BY <1>5, <1>6, <1>7

----------------------------------------------------------------------------
(* The playlist while the broadcast lasts.                                 *)

\* What a playlist lists that ffmpeg has not ended yet.
LEMMA ListedSoFar ==
  ASSUME NEW c \in Content, NEW k \in 0 .. MaxSegments,
         c # Missing => c.at < k
  PROVE  Listed(c) \subseteq 1 .. k
<1>1. CASE c = Missing
  BY <1>1, ListedMissing
<1>2. CASE c # Missing
  <2>1. c.at \in Nat /\ c.at < k /\ ~(c.at > MaxSegments)
    BY <1>2, LiveBounds DEF Content
  <2>2. Listed(c) = 1 .. c.at
    BY <1>2, <2>1 DEF Listed
  <2> QED
    BY <2>1, <2>2
<1> QED
  BY <1>1, <1>2

\* ffmpeg only adds to the list, in the first life of a callback.
LEMMA ListGrows ==
  ASSUME TypeOK, Stopped, PlaylistAhead, crashes = 0, [Next]_vars, watching'
  PROVE  Listed(dir[Playlist]) \subseteq Listed(dir'[Playlist])
<1> USE DEF Encoding
<1>1. FilesTyped /\ dir[Playlist] \in Content /\ take \in Nat
      /\ current \in 0 .. MaxSegments
  BY TypeParts, FileFacts DEF FilesTyped
<1>2. CASE Grow
  BY <1>1, <1>2, GrowFacts, FileFacts
<1>3. CASE Rotate
  <2>1. CASE current = 0
    BY <1>1, <1>3, <2>1, RotateFacts
  <2>2. CASE current # 0
    <3>1. dir'[Playlist] = [take |-> take, at |-> current]
      BY <1>1, <1>3, <2>2, RotateFacts
    <3>2. Listed(dir'[Playlist]) = 1 .. current
      BY <1>1, <3>1, ListedOpen
    <3>3. Listed(dir[Playlist]) \subseteq 1 .. current
      BY <1>1, <1>3, ListedSoFar DEF Rotate, PlaylistAhead
    <3> QED
      BY <3>2, <3>3
  <2> QED
    BY <2>1, <2>2
<1>4. CASE PullFails
  <2>1. CASE dir' = dir
    BY <2>1
  <2>2. CASE current # 0 /\ dir' = Finished
    <3>1. dir'[Playlist] = [take |-> take, at |-> Ended(current)]
      BY <1>1, <2>2, FinishedFacts
    <3>2. Listed(dir'[Playlist]) = 1 .. current
      <4>1. current \in 1 .. MaxSegments
        BY <1>1, <2>2
      <4> QED
        BY <1>1, <3>1, <4>1, ListedEnded
    <3>3. Listed(dir[Playlist]) \subseteq 1 .. current
      BY <1>1, <1>4, ListedSoFar DEF PullFails, PlaylistAhead
    <3> QED
      BY <3>2, <3>3
  <2> QED
    BY <1>4, <2>1, <2>2 DEF PullFails
<1>5. ~PullEnds /\ \A f \in Files : ~Unlink(f)
  BY DEF PullEnds, Unlink, Stopped
<1>6. CASE UNCHANGED dir
  BY <1>6
<1>7. Ffmpeg \/ (\E f \in Files : Unlink(f)) \/ UNCHANGED dir
  BY DEF Next, Callback, Pull, Retry, GiveUp, FlushPut, FlushLands, FlushFails,
         FlushEnds, Remove, RemoveFails, RemoveAnyway, AckRead, TickStarts, Tick, TickLooks, TickLands, TickEnds,
         TickFails, TickStops, Crash, Over, vars
<1> QED
  BY <1>2, <1>3, <1>4, <1>5, <1>6, <1>7 DEF Ffmpeg

\* What the steps do to the playlist's object while the timer is set: it
\* changes by the put of a tick.
LEMMA PlaylistPuts ==
  ASSUME TypeOK, OneTick, Stopped, PlaylistAhead, crashes' = 0, [Next]_vars, watching'
  PROVE  /\ crashes = 0 /\ watching
         /\ \/ bucket'[Playlist] = bucket[Playlist]
            \/ \E t \in Slots : /\ TickLands(t) /\ tick[t].put.file = Playlist
                                /\ bucket'[Playlist] = tick[t].put.content
<1>1. crashes = 0
  <2>1. crashes \in Nat
    BY TypeParts, LiveBounds DEF CallbackTyped
  <2>2. crashes' = crashes \/ crashes' = crashes + 1
    BY DEF Next, Ffmpeg, Grow, Rotate, PullEnds, PullFails, Callback, Pull, Retry,
           GiveUp, FlushPut, FlushLands, FlushFails, FlushEnds, Unlink, Remove,
           RemoveFails, RemoveAnyway, AckRead, StartReflush, Fault, TickStarts, Tick,
           TickLooks, TickLands, TickEnds, TickFails, TickStops, Crash, Over, vars
  <2> QED
    BY <2>1, <2>2
<1>2. ~Crash
  BY <1>1 DEF Crash
<1>3. watching
  BY <1>2
     DEF Next, Ffmpeg, Grow, Rotate, PullEnds, PullFails, Callback, Pull, Retry,
         GiveUp, FlushPut, FlushLands, FlushFails, FlushEnds, Unlink, Remove,
         RemoveFails, RemoveAnyway, AckRead, TickStarts, Tick, TickLooks, TickLands,
         TickEnds, TickFails, TickStops, Over, vars
<1>4. ~FlushLands
  BY <1>3 DEF FlushLands, Flushing, Stopped
<1>5. (\E t \in Slots : TickLands(t)) \/ UNCHANGED bucket
  BY <1>2, <1>4
     DEF Next, Ffmpeg, Grow, Rotate, PullEnds, PullFails, Callback, Pull, Retry,
         GiveUp, FlushPut, FlushFails, FlushEnds, Unlink, Remove, RemoveFails,
         RemoveAnyway, AckRead, TickStarts, Tick, TickLooks, TickEnds, TickFails,
         TickStops, Over, vars
<1>6. ASSUME NEW t \in Slots, TickLands(t)
      PROVE  bucket'[Playlist] = IF tick[t].put.file = Playlist
                                   THEN tick[t].put.content ELSE bucket[Playlist]
  BY <1>6, LandsFacts, FileFacts
<1> QED
  BY <1>1, <1>3, <1>5, <1>6

LEMMA StepPlaylistAhead ==
  ASSUME TypeOK, OneTick, Bounded, Stopped, PlaylistAhead, [Next]_vars
  PROVE  PlaylistAhead'
<1> SUFFICES ASSUME crashes' = 0 PROVE PlaylistAhead'
  BY DEF PlaylistAhead
<1> USE DEF Encoding
<1>1. FilesTyped /\ LoopsTyped /\ dir[Playlist] \in Content
      /\ current \in 0 .. MaxSegments
  BY TypeParts, FileFacts DEF FilesTyped
<1>2. crashes = 0 /\ ~Crash
  <2>1. crashes \in Nat
    BY TypeParts, LiveBounds DEF CallbackTyped
  <2>2. crashes' = crashes \/ crashes' = crashes + 1
    BY DEF Next, Ffmpeg, Grow, Rotate, PullEnds, PullFails, Callback, Pull, Retry,
           GiveUp, FlushPut, FlushLands, FlushFails, FlushEnds, Unlink, Remove,
           RemoveFails, RemoveAnyway, AckRead, StartReflush, Fault, TickStarts, Tick,
           TickLooks, TickLands, TickEnds, TickFails, TickStops, Crash, Over, vars
  <2> QED
    BY <2>1, <2>2 DEF Crash
<1>3. pc' = "pull" => Present' = {}
  <2>1. Present = {} => dir' # dir \/ Present' = {}
    BY DEF Present
  <2>2. pc' = "pull" => dir' = dir /\ (pc = "pull" \/ Present = {})
    BY <1>2
       DEF Next, Ffmpeg, Grow, Rotate, PullEnds, PullFails, Callback, Pull, Retry,
           GiveUp, FlushPut, FlushLands, FlushFails, FlushEnds, Unlink, Remove,
           RemoveFails, RemoveAnyway, AckRead, StartReflush, TickStarts, Tick, TickLooks,
           TickLands, TickEnds, TickFails, TickStops, Over, vars, Flushing
  <2> QED
    BY <1>2, <2>1, <2>2 DEF PlaylistAhead
<1>4. pc' = "pulling" /\ dir'[Playlist] # Missing => dir'[Playlist].at < current'
  <2>1. CASE Pull
    <3>1. dir[Playlist] = Missing
      BY <1>2, <2>1, FileFacts DEF Pull, PlaylistAhead, Present
    <3> QED
      BY <2>1, <3>1 DEF Pull
  <2>2. CASE Grow
    BY <1>1, <1>2, <2>2, GrowFacts, FileFacts DEF Grow, PlaylistAhead
  <2>3. CASE Rotate
    <3>1. current' = current + 1
      BY <1>1, <2>3, RotateFacts
    <3>2. CASE current = 0
      <4>1. dir'[Playlist] = dir[Playlist]
        BY <1>1, <2>3, <3>2, RotateFacts
      <4>2. dir[Playlist] # Missing => dir[Playlist].at < current
        BY <1>2, <2>3 DEF Rotate, PlaylistAhead
      <4> QED
        BY <1>1, <3>1, <3>2, <4>1, <4>2 DEF Content
    <3>3. CASE current # 0
      <4>1. dir'[Playlist] = [take |-> take, at |-> current]
        BY <1>1, <2>3, <3>3, RotateFacts
      <4>2. dir'[Playlist].at = current
        BY <4>1
      <4> QED
        BY <1>1, <3>1, <4>2
    <3> QED
      BY <3>2, <3>3
  <2>4. CASE pc' # "pulling" \/ UNCHANGED <<pc, dir, current>>
    BY <1>2, <2>4 DEF PlaylistAhead
  <2>5. Pull \/ Grow \/ Rotate \/ pc' # "pulling" \/ UNCHANGED <<pc, dir, current>>
    BY <1>2
       DEF Next, Ffmpeg, PullEnds, PullFails, Callback, Retry, GiveUp, FlushPut,
           FlushLands, FlushFails, FlushEnds, Unlink, Remove, RemoveFails, RemoveAnyway, AckRead,
           StartReflush, TickStarts, Tick, TickLooks, TickLands, TickEnds,
           TickFails, TickStops, Over, vars, Flushing
  <2> QED
    BY <2>1, <2>2, <2>3, <2>4, <2>5
<1>5. ASSUME watching'
      PROVE  /\ Listed(bucket'[Playlist]) \subseteq Listed(dir'[Playlist])
             /\ \A s \in Slots :
                  Putting(tick'[s]) /\ tick'[s].put.file = Playlist =>
                    /\ Listed(bucket'[Playlist]) \subseteq Listed(tick'[s].put.content)
                    /\ Listed(tick'[s].put.content) \subseteq Listed(dir'[Playlist])
  <2>1. /\ watching
        /\ \/ bucket'[Playlist] = bucket[Playlist]
           \/ \E t \in Slots : /\ TickLands(t) /\ tick[t].put.file = Playlist
                               /\ bucket'[Playlist] = tick[t].put.content
    BY <1>5, PlaylistPuts
  <2>2. Listed(dir[Playlist]) \subseteq Listed(dir'[Playlist])
    BY <1>2, <1>5, ListGrows
  <2>3. /\ Listed(bucket[Playlist]) \subseteq Listed(dir[Playlist])
        /\ \A s \in Slots :
             Putting(tick[s]) /\ tick[s].put.file = Playlist =>
               /\ Listed(bucket[Playlist]) \subseteq Listed(tick[s].put.content)
               /\ Listed(tick[s].put.content) \subseteq Listed(dir[Playlist])
    BY <1>2, <2>1 DEF PlaylistAhead
  <2>4. ASSUME NEW t \in Slots, TickLands(t)
        PROVE  \A s \in Slots : ~Putting(tick'[s])
    <3>1. \A s \in Slots \ {t} : tick'[s] = Rest
      BY <2>4, LandsFacts, RestLoop DEF OneTick
    <3> QED
      BY <2>4, <3>1, LandsFacts, RestLoop
  <2>5. Listed(bucket'[Playlist]) \subseteq Listed(dir'[Playlist])
    BY <2>1, <2>2, <2>3, LandsFacts
  <2>6. ASSUME NEW t \in Slots, NEW f \in Files, TickLooks(t, f), NEW s \in Slots,
               Putting(tick'[s]), tick'[s].put.file = Playlist
        PROVE  /\ Listed(bucket'[Playlist]) \subseteq Listed(tick'[s].put.content)
               /\ Listed(tick'[s].put.content) \subseteq Listed(dir'[Playlist])
    <3>1. bucket' = bucket /\ dir' = dir
      BY <2>6 DEF TickLooks
    <3>2. CASE s = t
      <4>1. tick'[s].put.content = dir[Playlist]
        BY <2>6, <3>2, LooksFacts
      <4> QED
        BY <2>3, <3>1, <4>1
    <3>3. CASE s # t
      BY <2>3, <2>6, <3>1, <3>3, LooksFacts
    <3> QED
      BY <3>2, <3>3
  <2>7. CASE \E t \in Slots : TickStarts(t) \/ TickEnds(t) \/ TickFails(t)
    <3>1. \A s \in Slots : ~Putting(tick'[s])
      BY <2>7, StartsFacts, StopsFacts, RestLoop DEF TickEnds, TickFails
    <3> QED
      BY <2>5, <3>1
  <2>8. CASE UNCHANGED tick /\ bucket'[Playlist] = bucket[Playlist]
    BY <2>2, <2>3, <2>5, <2>8
  <2>9. Ffmpeg \/ Callback \/ Over \/ UNCHANGED vars => UNCHANGED tick
    BY DEF Ffmpeg, Grow, Rotate, PullEnds, PullFails, Callback, Pull, Retry,
           GiveUp, FlushPut, FlushLands, FlushFails, FlushEnds, Unlink, Remove,
           RemoveFails, RemoveAnyway, AckRead, Over, vars
  <2> QED
    BY <1>2, <2>1, <2>4, <2>5, <2>6, <2>7, <2>8, <2>9 DEF Next, Tick
<1> QED
  BY <1>3, <1>4, <1>5 DEF PlaylistAhead

----------------------------------------------------------------------------
(* The theorems.                                                           *)

\* The inductive invariant of the live job.
THEOREM LiveInvariance == Spec => []LiveInv
<1>1. Init => LiveInv
  <2> SUFFICES ASSUME Init PROVE LiveInv
    OBVIOUS
  <2>1. CallbackTyped /\ FilesTyped
    <3>1. FilesTyped
      BY FileFacts DEF Init, FilesTyped
    <3>2. 0 \in 0 .. MaxFaults /\ 0 \in 0 .. MaxCrashes /\ 0 \in 0 .. 3
      BY LiveBounds
    <3> QED
      BY <3>1, <3>2 DEF Init, CallbackTyped, Steps
  <2>2. LoopsTyped
    <3>1. lastSizes \in [Segments -> 0 .. MaxSize] /\ tick \in [Slots -> Loop]
      BY RestLoop, FileFacts DEF Init, GoodLoop
    <3> QED
      BY <3>1, RestLoop DEF Init, LoopsTyped
  <2>3. Stopped /\ OneTick /\ Recorded /\ FlushGoesOn /\ Flushed /\ ListedKept
    BY RestLoop, FileFacts, ListedMissing
      DEF Init, Stopped, OneTick, Recorded, FlushGoesOn, Flushed, ListedKept, Backed, Held
  <2>4. Bounded
    BY RestLoop, FileFacts DEF Init, Bounded, Missing
  <2>5. PlaylistAhead
    BY RestLoop, FileFacts DEF Init, PlaylistAhead, Present
  <2> QED
    BY <2>1, <2>2, <2>3, <2>4, <2>5, TypeParts DEF LiveInv
<1>2. ASSUME LiveInv, [Next]_vars PROVE LiveInv'
  <2>1. CallbackTyped' /\ FilesTyped' /\ LoopsTyped'
    BY <1>2, TypeParts, CallbackStepTyped, FilesStepTyped, LoopsStepTyped DEF LiveInv
  <2>2. TypeOK'
    <3>1. (TypeOK <=> CallbackTyped /\ FilesTyped /\ LoopsTyped)'
      BY TypeParts, PTL
    <3> QED
      BY <2>1, <3>1
  <2> QED
    BY <1>2, <2>2, StepStopped, StepOneTick, StepBounded, StepRecorded,
       StepFlushGoesOn, StepFlushed, StepListedKept, StepPlaylistAhead DEF LiveInv
<1> QED
  BY <1>1, <1>2, PTL DEF Spec

\* The type invariant of the runs.
THEOREM LiveTypes == Spec => []TypeOK
<1>1. LiveInv => TypeOK
  BY DEF LiveInv
<1> QED
  BY <1>1, LiveInvariance, PTL

\* A broadcast that was reported as done is a replay, byte for byte what
\* ffmpeg left, whatever order puts landed in, however often the process had
\* exited, and whatever failed before: unless a tick was under way when the
\* timer was cleared.
THEOREM DoneIsReplay == Spec => []ReplayIntact
<1>1. LiveInv => ReplayIntact
  BY FileFacts
    DEF LiveInv, Flushed, Recorded, Kept, ReplayIntact, Intact, TypeOK
<1> QED
  BY <1>1, LiveInvariance, PTL

\* A broadcast that was reported as failed has all that was produced in the
\* bucket and is playable, if no put and no removal failed: however often the
\* process exited, half way through a removal or after the status included.
THEOREM FailedIsPartial == Spec => []PartialIntact
<1>1. ASSUME LiveInv, status = "failed", faults = 0, ~lateTick
      PROVE  Kept /\ Playable
  <2>1. Kept /\ Present = {} /\ Backed(bucket[Playlist])
    BY <1>1 DEF LiveInv, Flushed, ListedKept
  <2> QED
    BY <2>1, FileFacts DEF Present, Backed, Held, Playable
<1>2. LiveInv => PartialIntact
  BY <1>1 DEF PartialIntact
<1> QED
  BY <1>2, LiveInvariance, PTL

\* As long as the broadcast lasts and the process has not exited, the playlist
\* in the bucket never loses a segment.
THEOREM ViewersLoseNothing == Spec => PlaylistOnlyGrows
<1>1. ASSUME LiveInv, [Next]_vars, watching', crashes' = 0
      PROVE  Listed(bucket[Playlist]) \subseteq Listed(bucket'[Playlist])
  <2>1. /\ crashes = 0 /\ watching
        /\ \/ bucket'[Playlist] = bucket[Playlist]
           \/ \E t \in Slots : /\ TickLands(t) /\ tick[t].put.file = Playlist
                               /\ bucket'[Playlist] = tick[t].put.content
    BY <1>1, PlaylistPuts DEF LiveInv
  <2> QED
    BY <1>1, <2>1, LandsFacts DEF LiveInv, PlaylistAhead
<1>2. LiveInv /\ [Next]_vars =>
        (watching' /\ crashes' = 0 =>
           Listed(bucket[Playlist]) \subseteq Listed(bucket'[Playlist]))
  BY <1>1
<1> QED
  BY <1>2, LiveInvariance, PTL DEF Spec, PlaylistOnlyGrows

=============================================================================
