---------------------------- MODULE MCMilestones ----------------------------
(* Milestones for TLC: either two feedback messages on one counter, whose     *)
(* handlers may both find its threshold reached, or one consumed message,     *)
(* which reaches a second threshold when a retry counts it twice.             *)
EXTENDS Milestones

MCCounters == {"score", "consumed"}
MCRulesOf == [c \in MCCounters |-> IF c = "score" THEN {2} ELSE {1, 2}]
MCMsgs == {"s1", "s2", "c1"}
MCStreams == {{"s1", "s2"}, {"c1"}}
MCCounterOf == [m \in MCMsgs |-> IF m = "c1" THEN "consumed" ELSE "score"]
MCFeedback == {"s1", "s2"}
=============================================================================
