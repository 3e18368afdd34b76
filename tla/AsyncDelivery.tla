--------------------------- MODULE AsyncDelivery ---------------------------
(***************************************************************************)
(* When the session hands the results staged by AsyncJobs to the model:    *)
(* the YieldQueue (coding-agent/src/session/yield-queue.ts) beside the     *)
(* agent's runs.  While the agent is streaming, its loop takes the entries *)
(* as asides at the step boundaries; otherwise an entry schedules an idle  *)
(* flush that prompts the agent.                                           *)
(*                                                                         *)
(* isStreaming is the agent's flag.  AgentSession.isStreaming also counts  *)
(* prompts that are still unwinding, which only makes "closing" longer.    *)
(***************************************************************************)
EXTENDS AsyncJobs

VARIABLES
    idleFlushPending,   \* an idle flush is scheduled
    agent               \* "idle", "running", or "closing" after its last poll

sessionVars == <<idleFlushPending, agent>>
dvars == <<vars, sessionVars>>

IsStreaming == agent # "idle"

DInit == Init /\ idleFlushPending = FALSE /\ agent = "idle"

(* #drain and #build, or nothing to take.                                  *)
TakeAll == Drain \/ (yq = <<>> /\ UNCHANGED vars)

(* The entry of a finished job; unless streaming it schedules a flush.     *)
Enqueue(o) ==
    /\ OnJobComplete(o)
    /\ idleFlushPending' = (idleFlushPending \/ (yq' # yq /\ ~IsStreaming))
    /\ UNCHANGED agent

PromptStarts ==
    /\ agent = "idle"
    /\ agent' = "running"
    /\ UNCHANGED <<vars, idleFlushPending>>

(* The loop takes asides after a tool batch.                               *)
StepBoundary ==
    /\ agent = "running"
    /\ TakeAll
    /\ UNCHANGED sessionVars

(* The loop's last poll: it goes on if that yields a message.              *)
StopBoundary ==
    /\ agent = "running"
    /\ TakeAll
    /\ agent' = IF Survivors = {} THEN "closing" ELSE "running"
    /\ UNCHANGED idleFlushPending

(* The run has unwound; the flag is cleared and nothing polls the queue.   *)
StreamingEnds ==
    /\ agent = "closing"
    /\ agent' = "idle"
    /\ UNCHANGED <<vars, idleFlushPending>>

IdleFlush ==
    /\ idleFlushPending
    /\ idleFlushPending' = FALSE
    /\ IF IsStreaming THEN UNCHANGED <<vars, agent>>
       ELSE /\ TakeAll
            /\ agent' = IF Survivors = {} THEN "idle" ELSE "running"

DNext ==
    \/ (ManagerStep /\ UNCHANGED sessionVars)
    \/ \E o \in Jobs : Enqueue(o)
    \/ PromptStarts \/ StepBoundary \/ StopBoundary \/ StreamingEnds \/ IdleFlush

(* A run of the agent comes to its stop boundary and unwinds, the timer of *)
(* a flush fires; nobody has to prompt the agent again.                    *)
DFairSpec ==
    /\ DInit /\ [][DNext]_dvars
    /\ WF_dvars(RuntimeStep /\ UNCHANGED sessionVars)
    /\ WF_dvars(\E o \in Jobs : Enqueue(o))
    /\ \A p \in 1 .. P : WF_dvars(PollEnds(p) /\ UNCHANGED sessionVars)
    /\ WF_dvars(StopBoundary) /\ WF_dvars(StreamingEnds) /\ WF_dvars(IdleFlush)

(* The result of a finished job is delivered without being asked for, as   *)
(* long as the job is retained and the call that started it not aborted.   *)
ResultsDelivered ==
    \A o \in Jobs :
        job[o].status = "done" ~>
            o \in toolTold \cup injected \cup evicted \/ job[o].wait = "aborted"
=============================================================================
