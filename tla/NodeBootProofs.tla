--------------------------- MODULE NodeBootProofs ---------------------------
(***************************************************************************)
(* Proofs about NodeBoot, for any number of buckets, failing calls, probes *)
(* that hang and changes of the machine.                                   *)
(***************************************************************************)
EXTENDS NodeBoot, BucketBootstrapProofs, SequenceTheorems

USE DEF hostVars, probeVars

----------------------------------------------------------------------------
(* The buckets: a node's boot is bootstrapBuckets with more going on.      *)

\* Every step of the boot is one of the bootstrap or leaves it alone.
LEMMA NodeStepIsBootStep ==
  ASSUME [NodeNext]_<<vars, nodeVars>>
  PROVE  [Next]_vars /\ (UNCHANGED vars \/ UNCHANGED nodeVars)
<1>1. CASE NodeNext
  BY <1>1
    DEF NodeNext, Storage, Hooks, VideoHooksStart, ListenForVod, Listen,
        LiveHooksStart, ListenForLive, HttpUp, Probes, ProbeEncodes, ProbeFails,
        ProbeTimesOut, FallBack, ProbeHangs, Probing, JobArrives, FfmpegStarts,
        JobEnds, DriverChanges
<1>2. CASE UNCHANGED <<vars, nodeVars>>
  BY <1>2
<1> QED
  BY <1>1, <1>2

\* Hence what is proved of the bootstrap holds in the boot of a node.
THEOREM NodeImplementsBoot == NodeSpec => Spec
<1>1. NodeInit => Init
  BY DEF NodeInit
<1>2. [NodeNext]_<<vars, nodeVars>> => [Next]_vars
  BY NodeStepIsBootStep
<1> QED
  BY <1>1, <1>2, PTL DEF NodeSpec, Spec

----------------------------------------------------------------------------
(* The candidates.                                                         *)

LEMMA EncoderFacts ==
  /\ ToSet(Hardware) = {"h264_vaapi", "h264_nvenc", "h264_qsv"}
  /\ Hardware \in Seq(ToSet(Hardware))
  /\ Software \notin ToSet(Hardware)
  /\ "none" \notin Plans /\ "preparing" \notin Plans
<1>1. Len(Hardware) = 3 /\ DOMAIN Hardware = 1 .. 3
  BY DEF Hardware
<1>2. ToSet(Hardware) = {"h264_vaapi", "h264_nvenc", "h264_qsv"}
  BY <1>1 DEF Hardware, ToSet
<1>3. Hardware \in Seq(ToSet(Hardware))
  BY <1>2 DEF Hardware
<1> QED
  BY <1>2, <1>3 DEF Software, Plans

\* What is probed are hardware encoders.
LEMMA CandidateFacts ==
  /\ Candidates(override) \in Seq(ToSet(Hardware))
  /\ Len(Candidates(override)) \in Nat
  /\ \A i \in 1 .. Len(Candidates(override)) :
       Candidates(override)[i] \in ToSet(Hardware)
<1>1. Candidates(override) \in Seq(ToSet(Hardware))
  <2>1. CASE override = ""
    BY <2>1, EncoderFacts DEF Candidates
  <2>2. CASE override # "" /\ override \in ToSet(Hardware)
    <3>1. <<override>> \in Seq(ToSet(Hardware))
      <4>1. override \in ToSet(Hardware) => <<override>> \in [1 .. 1 -> ToSet(Hardware)]
        OBVIOUS
      <4> QED
        BY <2>2, <4>1, SeqDef
    <3> QED
      BY <2>2, <3>1 DEF Candidates
  <2>3. CASE override # "" /\ override \notin ToSet(Hardware)
    BY <2>3, EmptySeq DEF Candidates
  <2> QED
    BY <2>1, <2>2, <2>3
<1> QED
  BY <1>1, LenProperties, ElementOfSeq

\* What is left after i candidates, one at a time.
LEMMA UntriedFacts ==
  ASSUME NEW i \in 0 .. Len(Candidates(override)), Untried(i)
  PROVE  /\ untried = <<>> <=> i = Len(Candidates(override))
         /\ untried # <<>> =>
              /\ i + 1 \in 1 .. Len(Candidates(override))
              /\ Head(untried) = Candidates(override)[i + 1]
              /\ Tail(untried) = SubSeq(Candidates(override), i + 2,
                                        Len(Candidates(override)))
<1> DEFINE c == Candidates(override)
<1>1. c \in Seq(ToSet(Hardware)) /\ Len(c) \in Nat
  BY CandidateFacts
<1>2. untried = SubSeq(c, i + 1, Len(c))
  BY DEF Untried
<1> HIDE DEF c
<1>3. CASE i = Len(c)
  <2>1. untried = <<>>
    BY <1>1, <1>2, <1>3, SubSeqEmpty
  <2> QED
    BY <1>3, <2>1 DEF c
<1>4. CASE i # Len(c)
  <2>1. i + 1 \in 1 .. Len(c) /\ Len(c) \in i + 1 .. Len(c)
    BY <1>1, <1>4 DEF c
  <2>2. /\ Head(untried) = c[i + 1]
        /\ Tail(untried) = SubSeq(c, (i + 1) + 1, Len(c))
    BY <1>1, <1>2, <2>1, HeadTailOfSubSeq
  <2>3. untried # <<>>
    <3>1. \A k \in i + 1 .. Len(c) : c[k] \in ToSet(Hardware)
      BY <1>1, <2>1, ElementOfSeq
    <3>2. Len(untried) = Len(c) - (i + 1) + 1
      BY <1>1, <1>2, <2>1, <3>1, SubSeqProperties
    <3>3. Len(untried) # 0
      BY <1>1, <2>1, <3>2
    <3> QED
      BY <3>3, EmptySeq
  <2>4. (i + 1) + 1 = i + 2
    BY <2>1
  <2> QED
    BY <1>4, <2>1, <2>2, <2>3, <2>4 DEF c
<1> QED
  BY <1>3, <1>4

\* The best encoder is the first that works.
LEMMA BestIsFirst ==
  ASSUME NEW i \in 1 .. Len(Candidates(override)),
         Candidates(override)[i] \in works,
         \A j \in 1 .. i - 1 : Candidates(override)[j] \notin works
  PROVE  Best = Candidates(override)[i]
<1> DEFINE c == Candidates(override)
           good == {k \in DOMAIN c : c[k] \in works}
<1>1. DOMAIN c = 1 .. Len(c) /\ Len(c) \in Nat
  BY CandidateFacts
<1>2. i \in good /\ \A k \in good : i <= k
  BY <1>1
<1>3. good \subseteq Nat
  BY <1>1
<1>4. Min(good) = i
  <2> HIDE DEF good
  <2>1. \A x \in good : (\A y \in good : x =< y) => x = i
    BY <1>2, <1>3
  <2> QED
    BY <1>2, <2>1 DEF Min
<1> QED
  BY <1>2, <1>4 DEF Best

LEMMA BestIsSoftware ==
  ASSUME \A j \in 1 .. Len(Candidates(override)) : Candidates(override)[j] \notin works
  PROVE  Best = Software
<1>1. DOMAIN Candidates(override) = 1 .. Len(Candidates(override))
  BY CandidateFacts
<1> QED
  BY <1>1 DEF Best

----------------------------------------------------------------------------
(* The inductive invariant.                                                *)

\* A service listens in its phase, a job needs a service that listens, and no
\* phase but the first begins before the buckets are there.
PhasesInOrder ==
  /\ phase # "minio" => pc = "ready"
  /\ listening # {} => phase # "minio"
  /\ \A q \in {Vod, Live} : ffmpeg[q] # "none" => q \in listening
  /\ phase \in {"live", "up"} => detected

\* Without a change of the machine the plan, and what was made of it, works.
PlanWorks ==
  changes = 0 =>
    /\ plan \in ToSet(Hardware) => plan \in works
    /\ \A q \in {Vod, Live} : ffmpeg[q] \in ToSet(Hardware) => ffmpeg[q] \in works

\* Without a probe that hung, either, the candidates that were given up on do
\* not work, and the plan that was detected is the best.  Until then it is the
\* software plan.
PlanIsBest ==
  hangs = 0 /\ changes = 0 =>
    /\ ~hung
    /\ \E i \in 0 .. Len(Candidates(override)) :
         Untried(i) /\ \A j \in 1 .. i : Candidates(override)[j] \notin works
    /\ ~detected => plan = Software
    /\ detected => plan = Best
    /\ ffmpeg[Live] \in Plans => ffmpeg[Live] = Best
    /\ ffmpeg[Vod] \in Plans => ffmpeg[Vod] \in {Best, Software}

NodeInv == NodeTypeOK /\ detected \in BOOLEAN /\ hung \in BOOLEAN
           /\ PhasesInOrder /\ PlanWorks /\ PlanIsBest

----------------------------------------------------------------------------

\* What the candidates, what is left of them and the best of them depend on.
LEMMA ProbesStay ==
  ASSUME UNCHANGED <<override, works, untried>>
  PROVE  /\ Candidates(override)' = Candidates(override)
         /\ \A i \in Nat : Untried(i)' <=> Untried(i)
         /\ Best' = Best
  BY DEF Untried, Best

\* The bootstrap does not go on once it has returned.
LEMMA StorageKeeps ==
  ASSUME NodeInv, [Next]_vars, UNCHANGED nodeVars
  PROVE  NodeInv'
<1>1. pc = "ready" => pc' = "ready"
  BY DEF Next, vars, Bootstrap, Check, CheckBlips, Make, MakeRefused, MakeBlips,
         Recheck, RecheckBlips, SetPolicy, PolicyBlips, ApiMakes, ApiSetsPolicy
<1>2. UNCHANGED <<override, works, hangs, changes, untried, hung, detected, plan,
                  phase, listening, ffmpeg>>
  BY DEF nodeVars
<1>3. /\ Candidates(override)' = Candidates(override)
      /\ \A i \in Nat : Untried(i)' <=> Untried(i)
      /\ Best' = Best
  BY <1>2, ProbesStay
<1>4. Len(Candidates(override)) \in Nat
  BY CandidateFacts
<1>5. NodeTypeOK'
  BY <1>2, <1>3, <1>4 DEF NodeInv, NodeTypeOK
<1>6. PhasesInOrder' /\ PlanWorks'
  BY <1>1, <1>2 DEF NodeInv, PhasesInOrder, PlanWorks
<1>7. PlanIsBest'
  BY <1>2, <1>3, <1>4 DEF NodeInv, PlanIsBest
<1> QED
  BY <1>2, <1>5, <1>6, <1>7 DEF NodeInv

\* The hooks follow one another.
LEMMA HooksKeep ==
  ASSUME NodeInv, Hooks
  PROVE  NodeInv'
<1>1. UNCHANGED <<vars, override, works, hangs, changes, untried, hung, detected,
                  plan, ffmpeg>>
  BY DEF Hooks, VideoHooksStart, ListenForVod, Listen, LiveHooksStart,
         ListenForLive, HttpUp
<1>2. pc' = pc
  BY <1>1 DEF vars
<1>3. /\ Candidates(override)' = Candidates(override)
      /\ \A i \in Nat : Untried(i)' <=> Untried(i)
      /\ Best' = Best
  BY <1>1, ProbesStay
<1>4. Len(Candidates(override)) \in Nat
  BY CandidateFacts
<1>5. /\ phase' \in {"minio", "video", "live", "up"}
      /\ listening' \subseteq {Vod, Live}
      /\ Live \in listening' => phase' \in {"live", "up"}
      /\ listening \subseteq listening'
      /\ phase' # "minio" => pc = "ready"
      /\ listening' # {} => phase' # "minio"
      /\ phase' \in {"live", "up"} => detected
  BY DEF Hooks, VideoHooksStart, VideoHooksMay, ListenForVod, Listen,
         LiveHooksStart, LiveHooksMay, ListenForLive, HttpUp, NodeInv, NodeTypeOK,
         PhasesInOrder, Vod, Live
<1>6. NodeTypeOK'
  BY <1>1, <1>3, <1>4, <1>5 DEF NodeInv, NodeTypeOK
<1>7. PhasesInOrder' /\ PlanWorks'
  BY <1>1, <1>2, <1>5 DEF NodeInv, PhasesInOrder, PlanWorks
<1>8. PlanIsBest'
  BY <1>1, <1>3, <1>4 DEF NodeInv, PlanIsBest
<1> QED
  BY <1>1, <1>6, <1>7, <1>8 DEF NodeInv

\* A candidate after the other is probed.
LEMMA ProbesKeep ==
  ASSUME NodeInv, Probes \/ ProbeHangs
  PROVE  NodeInv'
<1>1. /\ UNCHANGED <<vars, override, works, changes, phase, listening, ffmpeg>>
      /\ phase # "minio" /\ ~detected
  BY DEF Probes, ProbeHangs, ProbeEncodes, ProbeFails, ProbeTimesOut, FallBack, Probing
<1>2. pc' = pc
  BY <1>1 DEF vars
<1>3. Candidates(override)' = Candidates(override) /\ Best' = Best
  BY <1>1 DEF Best
<1>4. Len(Candidates(override)) \in Nat
  BY CandidateFacts
<1>5. PICK i \in 0 .. Len(Candidates(override)) : Untried(i)
  BY DEF NodeInv, NodeTypeOK
<1>6. ffmpeg[Live] = "none"
  BY <1>1 DEF NodeInv, NodeTypeOK, PhasesInOrder
<1>7. phase' \in {"live", "up"} => detected'
  BY <1>1 DEF NodeInv, PhasesInOrder
<1>8. PhasesInOrder'
  BY <1>1, <1>2, <1>7 DEF NodeInv, PhasesInOrder
<1>9. hangs \in 0 .. MaxHangs
  BY DEF NodeInv, NodeTypeOK
<1>10. CASE ProbeHangs
  <2>1. /\ hung' = TRUE /\ hangs' = hangs + 1 /\ hangs' \in 0 .. MaxHangs
        /\ untried # <<>> /\ UNCHANGED <<untried, detected, plan>>
    BY <1>9, <1>10, MaxHangsAssumption DEF ProbeHangs
  <2>2. \A k \in Nat : Untried(k)' <=> Untried(k)
    BY <1>1, <2>1, ProbesStay
  <2>3. NodeTypeOK'
    BY <1>1, <1>3, <1>4, <2>1, <2>2 DEF NodeInv, NodeTypeOK
  <2>4. PlanWorks'
    BY <1>1, <2>1 DEF NodeInv, PlanWorks
  <2>5. PlanIsBest'
    BY <1>9, <2>1 DEF PlanIsBest
  <2> QED
    BY <1>8, <2>1, <2>3, <2>4, <2>5 DEF NodeInv
<1>11. CASE ProbeEncodes
  <2>1. /\ untried # <<>> /\ Head(untried) \in works /\ ~hung
        /\ plan' = Head(untried) /\ detected' = TRUE
        /\ UNCHANGED <<untried, hung, hangs>>
    BY <1>11 DEF ProbeEncodes
  <2>2. \A k \in Nat : Untried(k)' <=> Untried(k)
    BY <1>1, <2>1, ProbesStay
  <2>3. plan' \in ToSet(Hardware) /\ plan' \in works
    BY <1>5, <2>1, UntriedFacts, CandidateFacts
  <2>4. NodeTypeOK'
    BY <1>1, <1>3, <1>4, <2>1, <2>2, <2>3 DEF NodeInv, NodeTypeOK, Plans
  <2>5. PlanWorks'
    BY <1>1, <2>3 DEF NodeInv, PlanWorks
  <2>6. PlanIsBest'
    <3> SUFFICES ASSUME hangs = 0, changes = 0 PROVE PlanIsBest'
      BY <1>1, <2>1 DEF PlanIsBest
    <3>1. PICK k \in 0 .. Len(Candidates(override)) :
            Untried(k) /\ \A j \in 1 .. k : Candidates(override)[j] \notin works
      BY DEF NodeInv, PlanIsBest
    <3>2. /\ k + 1 \in 1 .. Len(Candidates(override))
          /\ plan' = Candidates(override)[k + 1]
      BY <2>1, <3>1, UntriedFacts
    <3>3. \A j \in 1 .. (k + 1) - 1 : Candidates(override)[j] \notin works
      BY <3>1
    <3>4. plan' = Best
      BY <2>1, <2>3, <3>2, <3>3, BestIsFirst
    <3> QED
      BY <1>1, <1>3, <1>4, <2>1, <2>2, <3>1, <3>4 DEF NodeInv, PlanIsBest
  <2> QED
    BY <1>8, <2>1, <2>4, <2>5, <2>6 DEF NodeInv
<1>12. CASE ProbeFails \/ ProbeTimesOut
  <2>1. /\ untried # <<>> /\ untried' = Tail(untried) /\ hung' = FALSE
        /\ UNCHANGED <<detected, plan, hangs>>
    BY <1>12 DEF ProbeFails, ProbeTimesOut, NodeInv, NodeTypeOK
  <2>2. ASSUME NEW k \in 0 .. Len(Candidates(override)), Untried(k)
        PROVE  /\ k + 1 \in 0 .. Len(Candidates(override)) /\ Untried(k + 1)'
               /\ Head(untried) = Candidates(override)[k + 1]
    <3>1. /\ k + 1 \in 1 .. Len(Candidates(override))
          /\ Head(untried) = Candidates(override)[k + 1]
          /\ untried' = SubSeq(Candidates(override), k + 2, Len(Candidates(override)))
      BY <2>1, <2>2, UntriedFacts
    <3>2. (k + 1) + 1 = k + 2
      BY <3>1
    <3> QED
      BY <1>3, <3>1, <3>2 DEF Untried
  <2>3. NodeTypeOK'
    BY <1>1, <1>3, <1>5, <2>1, <2>2 DEF NodeInv, NodeTypeOK
  <2>4. PlanWorks'
    BY <1>1, <2>1 DEF NodeInv, PlanWorks
  <2>5. PlanIsBest'
    <3> SUFFICES ASSUME hangs = 0, changes = 0 PROVE PlanIsBest'
      BY <1>1, <2>1 DEF PlanIsBest
    <3>1. PICK k \in 0 .. Len(Candidates(override)) :
            Untried(k) /\ \A j \in 1 .. k : Candidates(override)[j] \notin works
      BY DEF NodeInv, PlanIsBest
    <3>2. ~hung
      BY DEF NodeInv, PlanIsBest
    <3>3. Candidates(override)[k + 1] \notin works
      BY <1>12, <2>2, <3>1, <3>2 DEF ProbeFails, ProbeTimesOut
    <3>4. \A j \in 1 .. k + 1 : j \in 1 .. k \/ j = k + 1
      BY <3>1
    <3>5. \E m \in 0 .. Len(Candidates(override)) :
            Untried(m)' /\ \A j \in 1 .. m : Candidates(override)[j] \notin works
      BY <2>2, <3>1, <3>3, <3>4
    <3> QED
      BY <1>1, <1>3, <2>1, <3>5 DEF NodeInv, PlanIsBest
  <2> QED
    BY <1>1, <1>8, <2>1, <2>3, <2>4, <2>5 DEF NodeInv
<1>13. CASE FallBack
  <2>1. /\ untried = <<>> /\ detected' = TRUE /\ plan' = Software
        /\ UNCHANGED <<untried, hung, hangs>>
    BY <1>13 DEF FallBack
  <2>2. \A k \in Nat : Untried(k)' <=> Untried(k)
    BY <1>1, <2>1, ProbesStay
  <2>3. NodeTypeOK'
    BY <1>1, <1>3, <1>4, <2>1, <2>2 DEF NodeInv, NodeTypeOK, Plans
  <2>4. PlanWorks'
    BY <1>1, <2>1, EncoderFacts DEF NodeInv, PlanWorks
  <2>5. PlanIsBest'
    <3> SUFFICES ASSUME hangs = 0, changes = 0 PROVE PlanIsBest'
      BY <1>1, <2>1 DEF PlanIsBest
    <3>1. PICK k \in 0 .. Len(Candidates(override)) :
            Untried(k) /\ \A j \in 1 .. k : Candidates(override)[j] \notin works
      BY DEF NodeInv, PlanIsBest
    <3>2. k = Len(Candidates(override))
      BY <2>1, <3>1, UntriedFacts
    <3>3. plan' = Best
      BY <2>1, <3>1, <3>2, BestIsSoftware
    <3> QED
      BY <1>1, <1>3, <1>4, <2>1, <2>2, <3>1, <3>3 DEF NodeInv, PlanIsBest
  <2> QED
    BY <1>8, <2>1, <2>3, <2>4, <2>5 DEF NodeInv
<1> QED
  BY <1>10, <1>11, <1>12, <1>13 DEF Probes

\* Jobs arrive, start their ffmpeg and end.
LEMMA JobsKeep ==
  ASSUME NodeInv, NEW q \in {Vod, Live},
         JobArrives(q) \/ FfmpegStarts(q) \/ JobEnds(q)
  PROVE  NodeInv'
<1>1. UNCHANGED <<vars, override, works, hangs, changes, untried, hung, detected,
                  plan, phase, listening>>
  BY DEF JobArrives, FfmpegStarts, JobEnds
<1>2. pc' = pc
  BY <1>1 DEF vars
<1>3. /\ Candidates(override)' = Candidates(override)
      /\ \A i \in Nat : Untried(i)' <=> Untried(i)
      /\ Best' = Best
  BY <1>1, ProbesStay
<1>4. Len(Candidates(override)) \in Nat
  BY CandidateFacts
<1>5. /\ ffmpeg' = [ffmpeg EXCEPT ![q] = ffmpeg'[q]]
      /\ ffmpeg'[q] \in {"none", "preparing", plan}
      /\ ffmpeg'[q] \in Plans => ffmpeg'[q] = plan
      /\ ffmpeg'[q] # "none" => q \in listening
      /\ ffmpeg \in [{Vod, Live} -> Plans \cup {"none", "preparing"}]
      /\ plan \in Plans
  BY EncoderFacts
    DEF JobArrives, FfmpegStarts, JobEnds, NodeInv, NodeTypeOK, PhasesInOrder
<1>6. NodeTypeOK'
  <2>1. ffmpeg' \in [{Vod, Live} -> Plans \cup {"none", "preparing"}]
    BY <1>5
  <2> QED
    BY <1>1, <1>3, <1>4, <2>1 DEF NodeInv, NodeTypeOK
<1>7. \A p \in {Vod, Live} : ffmpeg'[p] = ffmpeg[p] \/ p = q
  BY <1>5
<1>8. PhasesInOrder'
  BY <1>1, <1>2, <1>5, <1>7 DEF NodeInv, PhasesInOrder
<1>9. PlanWorks'
  <2>1. ToSet(Hardware) \subseteq Plans
    BY DEF Plans
  <2> QED
    BY <1>1, <1>5, <1>7, <2>1 DEF NodeInv, PlanWorks
<1>10. PlanIsBest'
  <2>1. Live \in listening => detected
    BY DEF NodeInv, NodeTypeOK, PhasesInOrder
  <2>2. hangs = 0 /\ changes = 0 =>
          /\ ffmpeg'[Live] \in Plans => ffmpeg'[Live] = Best
          /\ ffmpeg'[Vod] \in Plans => ffmpeg'[Vod] \in {Best, Software}
    BY <1>5, <1>7, <2>1, EncoderFacts DEF NodeInv, PlanIsBest
  <2> QED
    BY <1>1, <1>3, <1>4, <2>2 DEF NodeInv, PlanIsBest
<1> QED
  BY <1>1, <1>6, <1>8, <1>9, <1>10 DEF NodeInv

LEMMA DriverKeeps ==
  ASSUME NodeInv, DriverChanges
  PROVE  NodeInv'
<1>1. /\ changes \in 0 .. MaxChanges /\ changes' \in 0 .. MaxChanges
      /\ changes' = changes + 1 /\ works' \subseteq ToSet(Hardware)
      /\ UNCHANGED <<vars, override, hangs, untried, hung, detected, plan, phase,
                     listening, ffmpeg>>
  BY MaxChangesAssumption DEF DriverChanges, NodeInv, NodeTypeOK
<1>2. pc' = pc /\ changes' # 0
  BY <1>1 DEF vars
<1>3. Candidates(override)' = Candidates(override)
      /\ \A i \in Nat : Untried(i)' <=> Untried(i)
  BY <1>1 DEF Untried
<1>4. Len(Candidates(override)) \in Nat
  BY CandidateFacts
<1>5. NodeTypeOK'
  BY <1>1, <1>3, <1>4 DEF NodeInv, NodeTypeOK
<1>6. PhasesInOrder'
  BY <1>1, <1>2 DEF NodeInv, PhasesInOrder
<1> QED
  BY <1>1, <1>2, <1>5, <1>6 DEF NodeInv, PlanWorks, PlanIsBest

----------------------------------------------------------------------------
(* The theorems.                                                           *)

\* The inductive invariant of the boot.
THEOREM NodeInvariance == NodeSpec => []NodeInv
<1>1. NodeInit => NodeInv
  <2> SUFFICES ASSUME NodeInit PROVE NodeInv
    OBVIOUS
  <2> DEFINE c == Candidates(override)
  <2>1. c \in Seq(ToSet(Hardware)) /\ Len(c) \in Nat
    BY CandidateFacts
  <2>2. Untried(0)
    <3>1. untried = c
      BY DEF NodeInit
    <3>2. SubSeq(c, 1, Len(c)) = c
      <4> HIDE DEF c
      <4> QED BY <2>1, SubSeqFull
    <3> QED
      BY <3>1, <3>2 DEF Untried
  <2>3. NodeTypeOK
    <3>1. ffmpeg \in [{Vod, Live} -> Plans \cup {"none", "preparing"}]
      BY DEF NodeInit
    <3>2. /\ override \in Overrides /\ works \subseteq ToSet(Hardware)
          /\ phase = "minio" /\ listening = {} /\ hung = FALSE
          /\ plan = Software /\ hangs = 0 /\ changes = 0
      BY DEF NodeInit
    <3>3. 0 \in 0 .. MaxHangs /\ 0 \in 0 .. MaxChanges
      BY MaxHangsAssumption, MaxChangesAssumption
    <3> QED
      BY <2>1, <2>2, <3>1, <3>2, <3>3 DEF NodeTypeOK, Plans
  <2>4. PhasesInOrder /\ PlanWorks
    BY EncoderFacts DEF NodeInit, PhasesInOrder, PlanWorks
  <2>5. PlanIsBest
    <3>1. \E i \in 0 .. Len(c) : Untried(i) /\ \A j \in 1 .. i : c[j] \notin works
      BY <2>1, <2>2
    <3> QED
      BY <3>1, EncoderFacts DEF NodeInit, PlanIsBest
  <2> QED
    BY <2>3, <2>4, <2>5 DEF NodeInv, NodeInit
<1>2. NodeInv /\ [NodeNext]_<<vars, nodeVars>> => NodeInv'
  <2> SUFFICES ASSUME NodeInv, [NodeNext]_<<vars, nodeVars>> PROVE NodeInv'
    OBVIOUS
  <2>1. CASE UNCHANGED nodeVars
    BY <2>1, NodeStepIsBootStep, StorageKeeps
  <2>2. CASE NodeNext
    BY <2>1, <2>2, HooksKeep, ProbesKeep, JobsKeep, DriverKeeps
      DEF NodeNext, Storage
  <2> QED
    BY <2>1, <2>2
<1> QED
  BY <1>1, <1>2, PTL DEF NodeSpec

\* The type invariant of the run.
THEOREM NodeTypes == NodeSpec => []NodeTypeOK
<1>1. NodeInv => NodeTypeOK
  BY DEF NodeInv
<1> QED
  BY <1>1, NodeInvariance, PTL

\* However many buckets there are, however the boot and the race with the api
\* went: a job that is under way has all buckets.
THEOREM JobsHaveBuckets == NodeSpec => []JobsMeetBuckets
<1>1. NodeInv /\ ReadyHasBuckets => JobsMeetBuckets
  BY DEF NodeInv, PhasesInOrder, ReadyHasBuckets, JobsMeetBuckets
<1> QED
  BY <1>1, NodeInvariance, NodeImplementsBoot, BootLeavesAllBuckets, PTL

\* No ffmpeg is started with a hardware encoder that does not run, unless the
\* machine changed after the probe.
THEOREM StartedEncoderWorks == NodeSpec => []EncoderWorks
<1>1. NodeInv => EncoderWorks
  BY DEF NodeInv, PlanWorks, EncoderWorks
<1> QED
  BY <1>1, NodeInvariance, PTL

\* A live job that starts as soon as its service listens has the best encoder
\* there is.
THEOREM LiveJobHasBest == NodeSpec => []LiveHasBest
<1>1. NodeInv => LiveHasBest
  BY DEF NodeInv, PlanIsBest, LiveHasBest
<1> QED
  BY <1>1, NodeInvariance, PTL

=============================================================================
