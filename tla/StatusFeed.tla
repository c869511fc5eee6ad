----------------------------- MODULE StatusFeed -----------------------------
(***************************************************************************)
(* What the api app may rely on: the statuses of a video on                *)
(* q.set.video.status, whatever a node does to produce them.               *)
(*                                                                         *)
(* An attempt at a video announces itself, and later ends with one status  *)
(* or silently, when its message is dead-lettered.  Statuses arrive in the *)
(* order they were published.  When the producer's connection is lost,     *)
(* those it has not heard of are published again, whether they arrived or  *)
(* not, and what was not sent yet may go before them; nothing is dropped   *)
(* or made up.  As long as no consumer has lost its channel and no process *)
(* has exited, a video has one attempt, so what follows its end was        *)
(* published before that end, or is that end again.                        *)
(*                                                                         *)
(* VideoJob implements this module (its property ImplementsFeed).          *)
(***************************************************************************)
EXTENDS Naturals, Sequences

CONSTANTS Videos, Attempts

VARIABLES
  open,     \* attempts that announced themselves and have not ended
  pipe,     \* statuses published and not received, oldest first
  seen,     \* the last status the api received of each video
  again,    \* how many of the oldest statuses of pipe were received and will
            \* be published again
  troubled  \* a consumer lost its channel or a process exited

feedVars == <<open, pipe, seen, again, troubled>>

Ends == {"done", "failed"}

FeedInit ==
  /\ open = {}
  /\ pipe = <<>>
  /\ seen = [v \in Videos |-> "none"]
  /\ again = 0
  /\ troubled = FALSE

\* No status of the video was published yet.
Unheard(v) ==
  /\ seen[v] = "none"
  /\ \A i \in DOMAIN pipe : pipe[i][1] # v

Announce(a, v) ==
  /\ troubled \/ Unheard(v)
  /\ \A u \in Videos : <<a, u>> \notin open
  /\ open' = open \cup {<<a, v>>}
  /\ pipe' = Append(pipe, <<v, "processing">>)
  /\ UNCHANGED <<seen, again, troubled>>

End(a, v) ==
  /\ <<a, v>> \in open
  /\ open' = open \ {<<a, v>>}
  /\ \E st \in Ends : pipe' = Append(pipe, <<v, st>>)
  /\ UNCHANGED <<seen, again, troubled>>

\* The message goes to the dead letter queue instead.
EndSilently(a, v) ==
  /\ <<a, v>> \in open
  /\ open' = open \ {<<a, v>>}
  /\ UNCHANGED <<pipe, seen, again, troubled>>

Receive ==
  /\ pipe # <<>>
  /\ again = 0
  /\ seen' = [seen EXCEPT ![Head(pipe)[1]] = Head(pipe)[2]]
  /\ pipe' = Tail(pipe)
  /\ UNCHANGED <<open, again, troubled>>

\* A status is received and the producer does not hear of it.
ReceiveUnconfirmed ==
  /\ again < Len(pipe)
  /\ seen' = [seen EXCEPT ![pipe[again + 1][1]] = pipe[again + 1][2]]
  /\ again' = again + 1
  /\ UNCHANGED <<open, pipe, troubled>>

\* The producer lost its connection after it had sent the oldest k, and sends
\* these again, before or after the others.
PublishAgain ==
  /\ again' = 0
  /\ \E k \in 1 .. Len(pipe) :
       /\ k >= again
       /\ pipe' = SubSeq(pipe, k + 1, Len(pipe)) \o SubSeq(pipe, 1, k)
  /\ UNCHANGED <<open, seen, troubled>>

\* A consumer loses its channel, with its connection or without.
LoseChannel ==
  /\ troubled' = TRUE
  /\ UNCHANGED <<open, pipe, seen, again>>

\* What was not received is lost with the process that published it.
ProcessExits ==
  /\ open' = {} /\ pipe' = <<>> /\ again' = 0
  /\ troubled' = TRUE
  /\ UNCHANGED seen

FeedNext ==
  \/ Receive \/ ReceiveUnconfirmed \/ PublishAgain
  \/ LoseChannel \/ ProcessExits
  \/ \E a \in Attempts, v \in Videos :
       Announce(a, v) \/ End(a, v) \/ EndSilently(a, v)

FeedSpec == FeedInit /\ [][FeedNext]_feedVars
=============================================================================
