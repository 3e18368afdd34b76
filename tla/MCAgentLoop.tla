---------------------------- MODULE MCAgentLoop ----------------------------
(* AgentLoop on small instances.  A model that leaks needs many model calls *)
(* for its counters to run out, the queues of one that does not need many   *)
(* messages; the bounds of the two are therefore different.                 *)
EXTENDS AgentLoop

CONSTANTS Steers, Follows, Asides, Turns, LeakySteers, LeakyTurns

Messages(steers, follows, asides) ==
    [k \in {"prompt", "steer", "follow", "aside"} |->
        CASE k = "prompt" -> 1       [] k = "steer" -> steers
          [] k = "follow" -> follows [] k = "aside" -> asides]

MCMaxSent == [l \in BOOLEAN |-> IF l THEN Messages(LeakySteers, 0, 0)
                                     ELSE Messages(Steers, Follows, Asides)]

MCMaxTurns == [l \in BOOLEAN |-> IF l THEN LeakyTurns ELSE Turns]
=============================================================================
