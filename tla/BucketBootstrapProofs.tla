----------------------- MODULE BucketBootstrapProofs -----------------------
(***************************************************************************)
(* Proofs about BucketBootstrap, for any number of buckets and of failing  *)
(* calls.                                                                  *)
(***************************************************************************)
EXTENDS BucketBootstrap, TLAPS

----------------------------------------------------------------------------
(* The inductive invariant.                                                *)

\* The buckets the loop has passed are there, and so is one whose policy is
\* about to be set.
PassedExist ==
  /\ pc \notin {"ready", "exited"} => 1 .. next - 1 \subseteq existing
  /\ pc = "policy" => next \in existing
  /\ pc = "ready" => existing = Buckets

\* Before the first blip a bucket without its policy is the one the loop is at,
\* one the api is at, or one that was left bare before this boot.
WithoutPolicy ==
  blips = 0 =>
    \A b \in existing : \/ b \in public \cup apiTurn \cup bare
                        \/ pc = "policy" /\ b = next

\* Each attempt that was given up, and the creation that is about to be found
\* to have failed, took a blip.
AttemptsPaid ==
  /\ pc # "exited" => blips >= attempt - 1
  /\ pc = "recheck" /\ next \notin existing => blips >= attempt
  /\ pc = "exited" => blips >= MaxAttempts

BootInv == TypeOK /\ PassedExist /\ WithoutPolicy /\ AttemptsPaid

----------------------------------------------------------------------------

\* Going on to the next bucket, when this one is there.
LEMMA AdvanceKeepsInv ==
  ASSUME BootInv, pc \in {"check", "policy"}, next \in existing', Advance,
         existing' = existing,
         public' \in {public, public \cup {next}},
         pc = "policy" => public' = public \cup {next},
         UNCHANGED <<attempt, apiTurn, bare, blips>>
  PROVE  BootInv'
<1> USE DEF BootInv
<1>1. /\ next \in 1 .. NumBuckets /\ NumBuckets \in Nat
      /\ pc' \in {"ready", "check"} /\ next' \in Buckets
  BY NumBucketsAssumption DEF TypeOK, Buckets, Advance
<1>2. TypeOK'
  BY <1>1 DEF TypeOK
<1>3. PassedExist'
  <2>1. 1 .. next \subseteq existing
    BY <1>1 DEF PassedExist
  <2>2. CASE next = NumBuckets
    BY <2>1, <2>2 DEF Advance, PassedExist, TypeOK, Buckets
  <2>3. CASE next # NumBuckets
    BY <1>1, <2>1, <2>3 DEF Advance, PassedExist
  <2> QED
    BY <2>2, <2>3
<1>4. WithoutPolicy' /\ AttemptsPaid'
  BY <1>1 DEF WithoutPolicy, AttemptsPaid
<1> QED
  BY <1>2, <1>3, <1>4

\* An attempt that was paid for with a blip is given up.
LEMMA GiveUpKeepsInv ==
  ASSUME BootInv, pc \notin {"ready", "exited"}, GiveUpAttempt,
         blips' \in 0 .. MaxBlips, blips' >= attempt,
         existing' = existing,
         public' \in {public, public \cup {next}},
         public' \subseteq existing,
         UNCHANGED <<apiTurn, bare>>
  PROVE  BootInv'
<1> USE DEF BootInv
<1>1. /\ attempt \in 1 .. 3
      /\ blips' # 0
      /\ next \in Buckets /\ 1 \in Buckets
      /\ pc' \in {"exited", "check"}
  BY NumBucketsAssumption
     DEF TypeOK, MaxAttempts, Buckets, GiveUpAttempt
<1>2. TypeOK' /\ AttemptsPaid'
  BY <1>1 DEF TypeOK, AttemptsPaid, GiveUpAttempt, MaxAttempts
<1>3. PassedExist' /\ WithoutPolicy'
  BY <1>1 DEF PassedExist, WithoutPolicy, GiveUpAttempt, TypeOK
<1> QED
  BY <1>2, <1>3

\* BootInv is inductive.
THEOREM BootInvariance == Spec => []BootInv
<1>1. Init => BootInv
  BY NumBucketsAssumption, MaxBlipsAssumption
     DEF Init, BootInv, TypeOK, PassedExist, WithoutPolicy, AttemptsPaid,
         Buckets, MaxAttempts
<1>2. BootInv /\ [Next]_vars => BootInv'
  <2> SUFFICES ASSUME BootInv, [Next]_vars
               PROVE  BootInv'
    OBVIOUS
  <2> USE DEF BootInv
  <2>0. /\ attempt \in 1 .. 3 /\ blips \in 0 .. MaxBlips
        /\ next \in Buckets /\ public \subseteq existing
        /\ blips >= attempt - 1 \/ pc = "exited"
    BY DEF TypeOK, MaxAttempts, AttemptsPaid
  <2>1. ASSUME Blip
        PROVE  blips' \in 1 .. MaxBlips /\ (pc # "exited" => blips' >= attempt)
    BY <2>0, <2>1, MaxBlipsAssumption DEF Blip
  <2>2. CASE Check
    <3>1. CASE next \in existing /\ Advance
      BY <2>2, <3>1, AdvanceKeepsInv DEF Check, storeVars
    <3>2. CASE next \notin existing /\ pc' = "make" /\ UNCHANGED next
      BY <2>2, <3>2
         DEF Check, storeVars, TypeOK, PassedExist, WithoutPolicy, AttemptsPaid
    <3> QED
      BY <2>2, <3>1, <3>2 DEF Check
  <2>3. CASE CheckBlips \/ RecheckBlips
    BY <2>0, <2>1, <2>3, GiveUpKeepsInv DEF CheckBlips, RecheckBlips, storeVars
  <2>4. CASE Make
    BY <2>0, <2>4
       DEF Make, TypeOK, PassedExist, WithoutPolicy, AttemptsPaid, Buckets
  <2>5. CASE MakeRefused
    BY <2>0, <2>5 DEF MakeRefused, storeVars, TypeOK, PassedExist,
       WithoutPolicy, AttemptsPaid
  <2>6. CASE MakeBlips
    BY <2>0, <2>1, <2>6 DEF MakeBlips, TypeOK, PassedExist, WithoutPolicy,
       AttemptsPaid, Buckets
  <2>7. CASE Recheck
    <3>1. CASE next \in existing
      BY <2>7, <3>1 DEF Recheck, storeVars, TypeOK, PassedExist,
         WithoutPolicy, AttemptsPaid
    <3>2. CASE next \notin existing
      <4>1. blips >= attempt
        BY <2>7, <3>2 DEF Recheck, AttemptsPaid
      <4> QED
        BY <2>0, <2>7, <3>2, <4>1, GiveUpKeepsInv DEF Recheck, storeVars
    <3> QED
      BY <3>1, <3>2
  <2>8. CASE SetPolicy
    <3>1. next \in existing
      BY <2>8 DEF SetPolicy, PassedExist
    <3> QED
      BY <2>8, <3>1, AdvanceKeepsInv DEF SetPolicy
  <2>9. CASE PolicyBlips
    <3>1. next \in existing
      BY <2>9 DEF PolicyBlips, PassedExist
    <3> QED
      BY <2>0, <2>1, <2>9, <3>1, GiveUpKeepsInv DEF PolicyBlips
  <2>10. ASSUME NEW b \in Buckets, ApiMakes(b)
         PROVE  BootInv'
    BY <2>10 DEF ApiMakes, TypeOK, PassedExist, WithoutPolicy, AttemptsPaid
  <2>11. ASSUME NEW b \in Buckets, ApiSetsPolicy(b)
         PROVE  BootInv'
    BY <2>11
       DEF ApiSetsPolicy, TypeOK, PassedExist, WithoutPolicy, AttemptsPaid
  <2>12. CASE UNCHANGED vars
    BY <2>12 DEF vars, TypeOK, PassedExist, WithoutPolicy, AttemptsPaid
  <2> QED
    BY <2>2, <2>3, <2>4, <2>5, <2>6, <2>7, <2>8, <2>9, <2>10, <2>11, <2>12
       DEF Next, Bootstrap
<1> QED
  BY <1>1, <1>2, PTL DEF Spec

\* The bootstrap keeps its types; policies are only on buckets that exist.
THEOREM BootTyping == Spec => []TypeOK
<1>1. BootInv => TypeOK
  BY DEF BootInv
<1> QED
  BY <1>1, BootInvariance, PTL

\* However many buckets and blips: when onModuleInit returns, every bucket is
\* there.
THEOREM BootLeavesAllBuckets == Spec => []ReadyHasBuckets
<1>1. BootInv => ReadyHasBuckets
  BY DEF BootInv, PassedExist, ReadyHasBuckets
<1> QED
  BY <1>1, BootInvariance, PTL

\* However many buckets, in whatever state earlier boots left them: a boot
\* without blips leaves no bucket without a policy but those that had none
\* before it and those the api is at.
THEOREM BootLeavesNoPolicyOut == Spec => []ReadyIsPublic
<1>1. BootInv => ReadyIsPublic
  BY DEF BootInv, WithoutPolicy, ReadyIsPublic
<1> QED
  BY <1>1, BootInvariance, PTL

\* However the race with the api goes: it takes three failing calls to end the
\* app at boot.
THEOREM BootToleratesBlips == Spec => []BlipsTolerated
<1>1. BootInv => BlipsTolerated
  BY DEF BootInv, AttemptsPaid, BlipsTolerated
<1> QED
  BY <1>1, BootInvariance, PTL
============================================================================
