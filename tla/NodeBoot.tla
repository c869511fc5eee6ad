------------------------------ MODULE NodeBoot ------------------------------
(***************************************************************************)
(* The boot of a node (src/src/main.ts): app.listen calls the onModuleInit *)
(* hooks, and listens when they are through.  Nest takes the modules one   *)
(* after the other, those that others import first, and starts the hooks   *)
(* of one module together:                                                 *)
(*                                                                         *)
(*   MinioClientModule   the buckets (BucketBootstrap)                     *)
(*   VideoModule         VideoService listens for VOD jobs, while          *)
(*                       VideoProcessService probes encoders               *)
(*                       (src/src/video/encoder-plan.ts)                   *)
(*   LiveModule          LiveService listens for live jobs                 *)
(*                                                                         *)
(* The hook of QueueModule, between the first two, only starts a           *)
(* connection (BindDeadLetters of JobConsumer).  Jobs arrive as soon as    *)
(* their service listens, and the ffmpeg of a job gets the encoder of the  *)
(* plan as it is then.                                                     *)
(***************************************************************************)
EXTENDS BucketBootstrap, SequencesExt

CONSTANTS
  MaxHangs,    \* bound: probes that do not end by themselves
  MaxChanges   \* bound: changes of what the machine can run

ASSUME MaxHangsAssumption == MaxHangs \in Nat
ASSUME MaxChangesAssumption == MaxChanges \in Nat

VARIABLES
  override,   \* FFMPEG_ENCODER
  works,      \* the encoders that ffmpeg, driver and device can run
  phase,      \* the module whose hooks run, or "up"
  listening,  \* queues a service listens on
  untried,    \* candidates detectEncoderPlan has not given up on
  hung,       \* the probe under way does not end by itself
  detected,   \* detectEncoderPlan has returned
  plan,       \* VideoProcessService.plan
  ffmpeg,     \* the job of each queue: none, preparing, or its encoder
  hangs,
  changes

hostVars == <<override, works, hangs, changes>>
probeVars == <<untried, hung, detected, plan>>
nodeVars == <<hostVars, probeVars, phase, listening, ffmpeg>>

----------------------------------------------------------------------------

Vod == "q.video.process"
Live == "q.live.process"

\* PLANS, in the order they are tried, and the plan that always works.
Hardware == <<"h264_vaapi", "h264_nvenc", "h264_qsv">>
Software == "libx264"

Plans == ToSet(Hardware) \cup {Software}

\* "" is no override; any other name is an encoder PLANS does not have.
Overrides == Plans \cup {"", "software", "h264_videotoolbox"}

\* What detectEncoderPlan probes: nothing for the software encoder or a name
\* it does not know, the one that is forced, or all of them.
Candidates(o) ==
  IF o = "" THEN Hardware
  ELSE IF o \in ToSet(Hardware) THEN <<o>> ELSE <<>>

NodeInit ==
  /\ Init
  /\ override \in Overrides
  /\ works \in SUBSET ToSet(Hardware)
  /\ phase = "minio" /\ listening = {}
  /\ untried = Candidates(override) /\ hung = FALSE /\ detected = FALSE
  /\ plan = Software
  /\ ffmpeg = [q \in {Vod, Live} |-> "none"]
  /\ hangs = 0 /\ changes = 0

----------------------------------------------------------------------------
(* The hooks.                                                              *)

\* A step of the storage, of bootstrapBuckets or of the api.
Storage == Next /\ UNCHANGED nodeVars

\* Mutant: the hooks of VideoModule do not wait for the buckets.
VideoHooksEarly == phase = "minio" /\ pc # "exited"

\* MinioClientService.onModuleInit has returned.
VideoHooksMay == phase = "minio" /\ pc = "ready"

VideoHooksStart ==
  /\ VideoHooksMay
  /\ phase' = "video"
  /\ UNCHANGED <<vars, hostVars, probeVars, listening, ffmpeg>>

Listen(q) ==
  /\ q \notin listening
  /\ listening' = listening \cup {q}
  /\ UNCHANGED <<vars, hostVars, probeVars, phase, ffmpeg>>

\* VideoService.onModuleInit.
ListenForVod == phase = "video" /\ Listen(Vod)

\* Mutant: the plan is detected in the background.
LiveHooksEarly == Vod \in listening

\* Both hooks of VideoModule have returned.
LiveHooksMay == Vod \in listening /\ detected

LiveHooksStart ==
  /\ phase = "video"
  /\ LiveHooksMay
  /\ phase' = "live"
  /\ UNCHANGED <<vars, hostVars, probeVars, listening, ffmpeg>>

\* Mutant: one module registers both callbacks.
ListenForLiveEarly == phase # "minio" /\ Listen(Live)

\* LiveService.onModuleInit.
ListenForLive == phase = "live" /\ Listen(Live)

\* app.listen resolves: readiness can be asked.
HttpUp ==
  /\ phase = "live"
  /\ Live \in listening
  /\ phase' = "up"
  /\ UNCHANGED <<vars, hostVars, probeVars, listening, ffmpeg>>

----------------------------------------------------------------------------
(* VideoProcessService.onModuleInit: the probes.                           *)

\* What the steps of a detection that is under way have in common.
Probing ==
  /\ phase # "minio" /\ ~detected
  /\ UNCHANGED <<vars, override, works, changes, phase, listening, ffmpeg>>

\* The tiny encode neither ends nor fails.
ProbeHangs ==
  /\ Probing
  /\ untried # <<>> /\ ~hung /\ hangs < MaxHangs
  /\ hung' = TRUE /\ hangs' = hangs + 1
  /\ UNCHANGED <<untried, detected, plan>>

\* Mutant: what ffmpeg lists counts as working.
ProbeListed ==
  /\ Probing
  /\ untried # <<>> /\ ~hung
  /\ plan' = Head(untried) /\ detected' = TRUE
  /\ UNCHANGED <<untried, hung, hangs>>

\* The first candidate that encodes wins.
ProbeEncodes ==
  /\ Probing
  /\ untried # <<>> /\ ~hung /\ Head(untried) \in works
  /\ plan' = Head(untried) /\ detected' = TRUE
  /\ UNCHANGED <<untried, hung, hangs>>

\* ffmpeg exits with an error.
ProbeFails ==
  /\ Probing
  /\ untried # <<>> /\ ~hung /\ Head(untried) \notin works
  /\ untried' = Tail(untried)
  /\ UNCHANGED <<hung, detected, plan, hangs>>

\* Mutant: execFile is called without a timeout.
ProbeWaits == Probing /\ hung /\ UNCHANGED <<probeVars, hangs>>

\* SIGKILL after 15 seconds: as good as an error.
ProbeTimesOut ==
  /\ Probing
  /\ hung
  /\ hung' = FALSE /\ untried' = Tail(untried)
  /\ UNCHANGED <<detected, plan, hangs>>

\* No candidate is left: the software plan.
FallBack ==
  /\ Probing
  /\ untried = <<>>
  /\ detected' = TRUE /\ plan' = Software
  /\ UNCHANGED <<untried, hung, hangs>>

----------------------------------------------------------------------------
(* Jobs, and the machine.                                                  *)

\* A message is delivered; the job downloads and probes its source, or gives
\* srs a moment.
JobArrives(q) ==
  /\ q \in listening /\ ffmpeg[q] = "none"
  /\ ffmpeg' = [ffmpeg EXCEPT ![q] = "preparing"]
  /\ UNCHANGED <<vars, hostVars, probeVars, phase, listening>>

\* processVideo and processLiveVideo build their arguments from the plan.
FfmpegStarts(q) ==
  /\ ffmpeg[q] = "preparing"
  /\ ffmpeg' = [ffmpeg EXCEPT ![q] = plan]
  /\ UNCHANGED <<vars, hostVars, probeVars, phase, listening>>

\* ffmpeg exits, or did not get that far.
JobEnds(q) ==
  /\ ffmpeg[q] # "none"
  /\ ffmpeg' = [ffmpeg EXCEPT ![q] = "none"]
  /\ UNCHANGED <<vars, hostVars, probeVars, phase, listening>>

\* A driver is updated, or a device comes or goes.
DriverChanges ==
  /\ changes < MaxChanges /\ changes' = changes + 1
  /\ works' \in SUBSET ToSet(Hardware)
  /\ UNCHANGED <<vars, override, hangs, probeVars, phase, listening, ffmpeg>>

Hooks ==
  \/ VideoHooksStart \/ ListenForVod \/ LiveHooksStart \/ ListenForLive
  \/ HttpUp

Probes == ProbeEncodes \/ ProbeFails \/ ProbeTimesOut \/ FallBack

NodeNext ==
  \/ Storage
  \/ Hooks
  \/ Probes \/ ProbeHangs
  \/ \E q \in {Vod, Live} : JobArrives(q) \/ FfmpegStarts(q) \/ JobEnds(q)
  \/ DriverChanges

NodeSpec == NodeInit /\ [][NodeNext]_<<vars, nodeVars>>

\* The storage answers, hooks that may start do, and a probe that does not
\* hang ends; one that does is killed.
FairNodeSpec ==
  /\ NodeSpec
  /\ WF_vars(Bootstrap /\ UNCHANGED nodeVars)
  /\ WF_nodeVars(Hooks)
  /\ WF_nodeVars(Probes)

----------------------------------------------------------------------------
(* Properties.                                                             *)

\* The first i candidates have been given up on.
Untried(i) ==
  untried = SubSeq(Candidates(override), i + 1, Len(Candidates(override)))

\* The type invariant; a queue is listened on in the phase of its service.
NodeTypeOK ==
  /\ override \in Overrides
  /\ works \subseteq ToSet(Hardware)
  /\ phase \in {"minio", "video", "live", "up"}
  /\ listening \subseteq {Vod, Live}
  /\ Live \in listening => phase \in {"live", "up"}
  /\ \E i \in 0 .. Len(Candidates(override)) : Untried(i)
  /\ hung => untried # <<>> /\ ~detected
  /\ plan \in Plans
  /\ ffmpeg \in [{Vod, Live} -> Plans \cup {"none", "preparing"}]
  /\ hangs \in 0 .. MaxHangs /\ changes \in 0 .. MaxChanges

\* No job is taken before every bucket it may upload to exists, however the
\* boot went: uploads do not meet a missing bucket.
JobsMeetBuckets ==
  \A q \in {Vod, Live} : ffmpeg[q] # "none" => existing = Buckets

\* "proves device + driver + encoder all work": unless the machine changed since
\* no ffmpeg is started with an encoder that does not run.
EncoderWorks ==
  changes = 0 =>
    \A q \in {Vod, Live} : ffmpeg[q] \in ToSet(Hardware) => ffmpeg[q] \in works

\* The first candidate that works, or else the software encoder.
Best ==
  LET try == Candidates(override)
      good == {i \in DOMAIN try : try[i] \in works}
  IN IF good = {} THEN Software ELSE try[Min(good)]

\* Unless a probe hung or the machine changed, every live job has the best
\* encoder there is, which a broadcast needs to keep up.  A VOD job may come
\* before that is known and then has the software encoder.
LiveHasBest ==
  hangs = 0 /\ changes = 0 =>
    /\ ffmpeg[Live] \in Plans => ffmpeg[Live] = Best
    /\ ffmpeg[Vod] \in Plans => ffmpeg[Vod] \in {Best, Software}

\* The boot ends: the node is up, or the third attempt at the buckets ended
\* it.  Probes that hang only delay it.
NodeComesUp == <>(phase = "up" \/ pc = "exited")
=============================================================================
