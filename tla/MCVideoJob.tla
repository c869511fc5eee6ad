----------------------------- MODULE MCVideoJob -----------------------------
(* Instances of VideoJob for TLC: a video with three subtitles, in two      *)
(* languages that the table does not know and one that it does, before a    *)
(* message that is not JSON; or one that is not JSON before two videos.     *)
EXTENDS VideoJob

MCQueues == {"q.video.process"}
MCSubs == {"en", "xa", "xb"}
MCNameOf == [l \in MCSubs |-> IF l = "en" THEN "English" ELSE "undefined"]
MCNoLanguage == {}
MCNoName == [l \in MCNoLanguage |-> "undefined"]

MCTwoMessages == {1, 2}

MCQueueOf == [m \in MCTwoMessages |-> "q.video.process"]

MCThreeSubs == <<<<"xa", "en", "xb">>, <<>>>>

MCFirstMalformed == {1}
MCSecondMalformed == {2}

MCThreeMessages == {1, 2, 3}
MCQueueOfThree == [m \in MCThreeMessages |-> "q.video.process"]
MCNoSubs == <<<<>>, <<>>, <<>>>>
============================================================================
