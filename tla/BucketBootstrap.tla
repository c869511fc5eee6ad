-------------------------- MODULE BucketBootstrap --------------------------
(***************************************************************************)
(* MinioClientService.onModuleInit                                         *)
(* (src/src/minio-client/minio-client.service.ts): at boot the node makes  *)
(* the buckets that are missing and sets their policies, while the api app *)
(* does the same and the storage may fail any call.                        *)
(*                                                                         *)
(* A failed call may have had its effect.  The api app is not under src/:  *)
(* what is modelled of it is what the comment in bootstrapBuckets says,    *)
(* that it creates the same buckets concurrently.                          *)
(***************************************************************************)
EXTENDS Naturals

CONSTANTS
  NumBuckets,  \* the buckets, in the order of BUCKETS
  MaxBlips     \* bound: calls that fail

ASSUME NumBucketsAssumption == NumBuckets \in Nat \ {0}
ASSUME MaxBlipsAssumption == MaxBlips \in Nat

VARIABLES
  pc,        \* where bootstrapBuckets is
  attempt,   \* of onModuleInit
  next,      \* the bucket the loop is at
  existing,  \* buckets the storage has
  public,    \* buckets whose policy is set
  apiTurn,   \* buckets the api made and has still to set the policy of
  bare,      \* buckets an earlier boot had left without a policy
  blips

vars == <<pc, attempt, next, existing, public, apiTurn, bare, blips>>
storeVars == <<existing, public, apiTurn, bare>>

MaxAttempts == 3
Buckets == 1 .. NumBuckets

\* An earlier boot, of either app, made some of the buckets.  Of those that have
\* no policy yet the api is at some, and nobody will come back to the others.
Init ==
  /\ existing \in SUBSET Buckets
  /\ public \in SUBSET existing
  /\ apiTurn \in SUBSET (existing \ public)
  /\ bare = existing \ (public \cup apiTurn)
  /\ pc = "check" /\ attempt = 1 /\ next = 1
  /\ blips = 0

----------------------------------------------------------------------------

\* The loop goes on, or onModuleInit returns.
Advance ==
  IF next = NumBuckets
    THEN pc' = "ready" /\ UNCHANGED next
    ELSE pc' = "check" /\ next' = next + 1

\* bootstrapBuckets throws: onModuleInit waits and starts it over, or lets
\* the third error end the app.
GiveUpAttempt ==
  IF attempt = MaxAttempts
    THEN pc' = "exited" /\ UNCHANGED <<attempt, next>>
    ELSE pc' = "check" /\ attempt' = attempt + 1 /\ next' = 1

Blip == blips < MaxBlips /\ blips' = blips + 1

\* bucketExists before the creation.
Check ==
  /\ pc = "check"
  /\ \/ /\ next \in existing
        /\ Advance
     \/ /\ next \notin existing
        /\ pc' = "make" /\ UNCHANGED next
  /\ UNCHANGED <<attempt, storeVars, blips>>

CheckBlips ==
  /\ pc = "check"
  /\ Blip
  /\ GiveUpAttempt
  /\ UNCHANGED storeVars

\* makeBucket.
Make ==
  /\ pc = "make"
  /\ next \notin existing
  /\ existing' = existing \cup {next}
  /\ pc' = "policy"
  /\ UNCHANGED <<attempt, next, public, apiTurn, bare, blips>>

\* Mutant: an error of makeBucket is not looked into.
MakeRefusedThrows ==
  /\ pc = "make"
  /\ next \in existing
  /\ GiveUpAttempt
  /\ UNCHANGED <<storeVars, blips>>

\* makeBucket refuses: somebody made the bucket meanwhile.
MakeRefused ==
  /\ pc = "make"
  /\ next \in existing
  /\ pc' = "recheck"
  /\ UNCHANGED <<attempt, next, storeVars, blips>>

\* makeBucket fails, with or without effect.
MakeBlips ==
  /\ pc = "make"
  /\ Blip
  /\ existing' \in {existing, existing \cup {next}}
  /\ pc' = "recheck"
  /\ UNCHANGED <<attempt, next, public, apiTurn, bare>>

\* Mutant: the second bucketExists is taken for granted.
RecheckTrusting ==
  /\ pc = "recheck"
  /\ pc' = "policy"
  /\ UNCHANGED <<attempt, next, storeVars, blips>>

\* bucketExists after a failed creation: go on if the bucket is there.
Recheck ==
  /\ pc = "recheck"
  /\ \/ /\ next \in existing
        /\ pc' = "policy"
        /\ UNCHANGED <<attempt, next>>
     \/ /\ next \notin existing
        /\ GiveUpAttempt
  /\ UNCHANGED <<storeVars, blips>>

RecheckBlips ==
  /\ pc = "recheck"
  /\ Blip
  /\ GiveUpAttempt
  /\ UNCHANGED storeVars

\* Mutant: nobody sets the policy of a bucket that was just made.
SkipPolicy ==
  /\ pc = "policy"
  /\ Advance
  /\ UNCHANGED <<attempt, storeVars, blips>>

\* setBucketPolicy.
SetPolicy ==
  /\ pc = "policy"
  /\ public' = public \cup {next}
  /\ Advance
  /\ UNCHANGED <<attempt, existing, apiTurn, bare, blips>>

PolicyBlips ==
  /\ pc = "policy"
  /\ Blip
  /\ public' \in {public, public \cup {next}}
  /\ GiveUpAttempt
  /\ UNCHANGED <<existing, apiTurn, bare>>

\* The api app makes a bucket that is missing, and sets its policy later.
ApiMakes(b) ==
  /\ b \notin existing
  /\ existing' = existing \cup {b}
  /\ apiTurn' = apiTurn \cup {b}
  /\ UNCHANGED <<pc, attempt, next, public, bare, blips>>

ApiSetsPolicy(b) ==
  /\ b \in apiTurn
  /\ public' = public \cup {b}
  /\ apiTurn' = apiTurn \ {b}
  /\ UNCHANGED <<pc, attempt, next, existing, bare, blips>>

Bootstrap ==
  \/ Check \/ CheckBlips
  \/ Make \/ MakeRefused \/ MakeBlips
  \/ Recheck \/ RecheckBlips
  \/ SetPolicy \/ PolicyBlips

Next ==
  \/ Bootstrap
  \/ \E b \in Buckets : ApiMakes(b) \/ ApiSetsPolicy(b)

Spec == Init /\ [][Next]_vars

----------------------------------------------------------------------------
(* Properties.                                                             *)

\* The type invariant; only a bucket that exists has a policy.
TypeOK ==
  /\ pc \in {"check", "make", "recheck", "policy", "ready", "exited"}
  /\ attempt \in 1 .. MaxAttempts
  /\ next \in Buckets
  /\ existing \subseteq Buckets
  /\ public \subseteq existing
  /\ apiTurn \subseteq existing
  /\ bare \subseteq existing
  /\ blips \in 0 .. MaxBlips

\* When the app is up every bucket is there, whatever failed and whoever made
\* it: a later upload never meets a missing bucket.
ReadyHasBuckets == pc = "ready" => existing = Buckets

\* A boot without a blip adds no bucket to those without a policy: what has
\* none was bare before it (a bucket that exists is passed over, whoever made
\* it), or the api, which made it, is about to set it.
ReadyIsPublic ==
  pc = "ready" /\ blips = 0 => existing \subseteq public \cup apiTurn \cup bare

\* "a boot-time blip should not kill the app": it takes one failing call per
\* attempt to do that, and the race with the api never counts as one.
BlipsTolerated == pc = "exited" => blips >= MaxAttempts

\* What the retries are for: the same as ReadyIsPublic for a boot that lived
\* through blips.
RetriedBootIsPublic ==
  pc = "ready" => existing \subseteq public \cup apiTurn \cup bare
============================================================================
