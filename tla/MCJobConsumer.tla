--------------------------- MODULE MCJobConsumer ---------------------------
(* Instances of JobConsumer for TLC: two messages share the video queue and *)
(* one is on the live queue; the body of one video message is not JSON.     *)
(* The liveness run keeps one message of each queue.                        *)
EXTENDS JobConsumer

MCQueues == {"q.video.process", "q.live.process"}
MCMalformed == {2}

MCMessages == {1, 2, 3}
MCQueueOf == [m \in MCMessages |->
                IF m = 3 THEN "q.live.process" ELSE "q.video.process"]

MCOnePerQueue == {2, 3}
MCQueueOfOnePerQueue == [m \in MCOnePerQueue |-> MCQueueOf[m]]
============================================================================
