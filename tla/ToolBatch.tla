----------------------------- MODULE ToolBatch -----------------------------
(***************************************************************************)
(* One batch of tool calls: executeToolCalls of                            *)
(* packages/agent/src/agent-loop.ts.                                       *)
(*                                                                         *)
(* A synchronous loop first turns every call into a promise chain          *)
(* ("shared" calls wait for the last exclusive one, "exclusive" calls also *)
(* wait for the shared ones before them); then the chains run              *)
(* concurrently, interleaved at every await, while the user may queue a    *)
(* steering message (which interrupts the batch) or abort the whole run.   *)
(* A tail sweep answers the calls that have no result.                     *)
(***************************************************************************)
EXTENDS Integers

CONSTANTS
    N,            \* tool calls in the assistant message
    MaxSteer,     \* bound: steering messages the user queues during the batch
    HasPeek       \* config.hasSteeringMessages is given (Agent always gives it)

ASSUME BatchAssumption == N \in Nat /\ MaxSteer \in Nat /\ HasPeek \in BOOLEAN

VARIABLES
    phase,         \* "schedule" (the for loop), "run", "returned"
    next,          \* the for loop's index
    lastExclusive, \* the promise new tasks chain on: {} or one call
    sharedTasks,   \* shared calls scheduled since lastExclusive
    excl,          \* calls resolved to concurrency "exclusive"
    after,         \* call -> the tasks its start promise waits for
    pc,            \* call -> where its task stands
    outcome,       \* call -> the locals result / isError of runTool
    executed,      \* call -> completedToolExecution
    emitted,       \* call -> record.toolResultMessage, by kind
    pushed,        \* call -> its messages in emittedToolResults
    immediate,     \* interruptMode # "wait"
    watch,         \* an interruptible tool keeps the steering timer running
    timer,         \* the timer's checkSteering: "idle" or awaiting its "hit"
    interrupted,   \* interruptState.triggered = steeringAbortController aborted
    aborted,       \* the external signal
    steerQ,        \* steering messages queued in the Agent
    arrived,       \* history: steering messages the user queued
    withdrawn      \* history: steering messages the user took back

sched == <<next, lastExclusive, sharedTasks, excl, after>>
cfg   == <<immediate, watch>>
user  == <<steerQ, arrived, withdrawn>>
local == <<outcome, executed>>
out   == <<emitted, pushed>>
vars  == <<phase, sched, pc, local, out, cfg, timer, interrupted, aborted,
           user>>

Calls == 1..N
Kinds == {"ok", "error", "aborted", "skipped"}
PCs   == {"waiting", "before", "executing", "after", "emit",
          "peekHit", "peekMiss", "done", "rejected"}

\* toolSignal = AbortSignal.any([signal, steeringAbortController.signal])
ToolAborted == aborted \/ interrupted

\* The early return of checkSteering, evaluated before and after its await.
MayInterrupt == immediate /\ ~interrupted /\ ~aborted

TypeOK ==
    /\ phase \in {"schedule", "run", "returned"}
    /\ next \in 1..(N + 1)
    /\ lastExclusive \subseteq Calls /\ sharedTasks \subseteq Calls
    /\ excl \subseteq Calls /\ after \in [Calls -> SUBSET Calls]
    /\ pc \in [Calls -> PCs]
    /\ outcome \in [Calls -> Kinds \cup {"none"}]
    /\ executed \in [Calls -> BOOLEAN]
    /\ emitted \in [Calls -> Kinds \cup {"none"}]
    /\ pushed \in [Calls -> Nat]
    /\ immediate \in BOOLEAN /\ watch \in BOOLEAN
    /\ timer \in {"idle", "hit"}
    /\ interrupted \in BOOLEAN /\ aborted \in BOOLEAN
    /\ steerQ \in 0..MaxSteer /\ arrived \in 0..MaxSteer
    /\ withdrawn \in 0..MaxSteer

Init ==
    /\ phase = "schedule" /\ next = 1
    /\ lastExclusive = {} /\ sharedTasks = {}
    /\ excl = {} /\ after = [c \in Calls |-> {}]
    /\ pc = [c \in Calls |-> "waiting"]
    /\ outcome = [c \in Calls |-> "none"]
    /\ executed = [c \in Calls |-> FALSE]
    /\ emitted = [c \in Calls |-> "none"] /\ pushed = [c \in Calls |-> 0]
    /\ immediate \in BOOLEAN /\ watch \in BOOLEAN /\ (watch => immediate)
    /\ timer = "idle" /\ interrupted = FALSE /\ aborted = FALSE
    /\ steerQ = 0 /\ arrived = 0 /\ withdrawn = 0

-----------------------------------------------------------------------------
(* The scheduling loop. *)

\* A mutant of StartPromise: exclusive calls forget the shared tasks.
StartPromiseNoShared(mode) == lastExclusive

\* What a call of the given concurrency waits for.
StartPromise(mode) ==
    IF mode = "exclusive" THEN lastExclusive \cup sharedTasks ELSE lastExclusive

\* One iteration of the for loop. A tool's concurrency is "shared" by default,
\* a fixed mode or a resolver's answer (a resolver that throws is "exclusive").
Schedule(mode) ==
    /\ phase = "schedule" /\ next <= N
    /\ after' = [after EXCEPT ![next] = StartPromise(mode)]
    /\ IF mode = "exclusive"
         THEN /\ excl' = excl \cup {next}
              /\ lastExclusive' = {next} /\ sharedTasks' = {}
         ELSE /\ sharedTasks' = sharedTasks \cup {next}
              /\ UNCHANGED <<excl, lastExclusive>>
    /\ next' = next + 1
    /\ UNCHANGED <<phase, pc, local, out, cfg, timer, interrupted, aborted,
                   user>>

\* The loop is over: the promise chains run from here on.
BeginRun ==
    /\ phase = "schedule" /\ next = N + 1
    /\ phase' = "run"
    /\ UNCHANGED <<sched, pc, local, out, cfg, timer, interrupted, aborted,
                   user>>

-----------------------------------------------------------------------------
(* The parts of runTool that several steps share. *)

\* emitToolResult: the first result of a record wins.
Emit(c, kind) ==
    IF emitted[c] = "none"
      THEN /\ emitted' = [emitted EXCEPT ![c] = kind]
           /\ pushed' = [pushed EXCEPT ![c] = @ + 1]
      ELSE UNCHANGED out

\* What checkSteering leaves in the queue and learns about it, up to its await:
\* without the peek it falls back to getSteeringMessages, which dequeues.
QueueAfterPeek(asked) == IF asked /\ ~HasPeek THEN 0 ELSE steerQ
PeekAnswer == IF steerQ > 0 THEN "peekHit" ELSE "peekMiss"

\* After its await checkSteering looks again before it interrupts.
Trigger == interrupted' = (interrupted \/ MayInterrupt)

-----------------------------------------------------------------------------
(* runTool, cut at its awaits. *)

Ready(c)  == pc[c] = "waiting" /\ \A d \in after[c] : pc[d] = "done"

\* start.then(() => runTool(record, index)) up to the first await.
StartTool(c) ==
    /\ phase = "run" /\ Ready(c)
    /\ \/ /\ interrupted
          /\ pc' = [pc EXCEPT ![c] = "done"]
          /\ UNCHANGED out
       \/ /\ ~interrupted /\ aborted
          /\ pc' = [pc EXCEPT ![c] = "done"]
          /\ Emit(c, "aborted")
       \/ /\ ~ToolAborted
          /\ pc' = [pc EXCEPT ![c] = "before"]
          /\ UNCHANGED out
    /\ UNCHANGED <<phase, sched, local, cfg, timer, interrupted, aborted, user>>

\* A rejected promise in the chain rejects the task without running it.
RejectChain(c) ==
    /\ phase = "run" /\ pc[c] = "waiting"
    /\ \E d \in after[c] : pc[d] = "rejected"
    /\ pc' = [pc EXCEPT ![c] = "rejected"]
    /\ UNCHANGED <<phase, sched, local, out, cfg, timer, interrupted, aborted,
                   user>>

\* The tool is missing, its arguments do not validate, or beforeToolCall
\* blocks or throws: caught, and reported through afterToolCall unless aborted.
RefuseTool(c) ==
    /\ pc[c] = "before"
    /\ outcome' = [outcome EXCEPT ![c] = "error"]
    /\ pc' = [pc EXCEPT ![c] = IF ToolAborted THEN "emit" ELSE "after"]
    /\ UNCHANGED <<phase, sched, executed, out, cfg, timer, interrupted,
                   aborted, user>>

\* A mutant of BeginExecute: the signal is not looked at after beforeToolCall.
BeginExecuteUnchecked(c) ==
    /\ pc[c] = "before"
    /\ pc' = [pc EXCEPT ![c] = "executing"]
    /\ UNCHANGED <<phase, sched, local, out, cfg, timer, interrupted,
                   aborted, user>>

\* beforeToolCall let the call through: look at the signal, then execute.
BeginExecute(c) ==
    /\ pc[c] = "before"
    /\ IF ToolAborted
         THEN /\ outcome' = [outcome EXCEPT ![c] = "aborted"]
              /\ pc' = [pc EXCEPT ![c] = "emit"]
         ELSE /\ pc' = [pc EXCEPT ![c] = "executing"]
              /\ UNCHANGED outcome
    /\ UNCHANGED <<phase, sched, executed, out, cfg, timer, interrupted,
                   aborted, user>>

\* tool.execute resolves (with or without isError) or throws; afterToolCall
\* is skipped for a call that was aborted before it completed.
ExecuteSettles(c) ==
    /\ pc[c] = "executing"
    /\ \E kind \in {"ok", "error"}, completed \in BOOLEAN :
         /\ kind = "ok" => completed
         /\ outcome' = [outcome EXCEPT ![c] = kind]
         /\ executed' = [executed EXCEPT ![c] = completed]
         /\ pc' = [pc EXCEPT ![c] =
                     IF ToolAborted /\ ~completed THEN "emit" ELSE "after"]
    /\ UNCHANGED <<phase, sched, out, cfg, timer, interrupted, aborted, user>>

\* afterToolCall keeps the result, overrides it or throws.
AfterHook(c) ==
    /\ pc[c] = "after"
    /\ \E kind \in {outcome[c], "ok", "error"} :
         outcome' = [outcome EXCEPT ![c] = kind]
    /\ pc' = [pc EXCEPT ![c] = "emit"]
    /\ UNCHANGED <<phase, sched, executed, out, cfg, timer, interrupted,
                   aborted, user>>

\* A mutant of ReportedKind: any result after an interrupt becomes "skipped".
ReportedKindHarsh(c) == IF interrupted THEN "skipped" ELSE outcome[c]

\* The result a settled call reports.
ReportedKind(c) ==
    IF interrupted /\ outcome[c] # "ok" THEN "skipped" ELSE outcome[c]

\* The tool's result is emitted, and checkSteering runs up to its await.
FinishTool(c) ==
    /\ pc[c] = "emit"
    /\ Emit(c, ReportedKind(c))
    /\ pc' = [pc EXCEPT ![c] = IF MayInterrupt THEN PeekAnswer ELSE "done"]
    /\ steerQ' = QueueAfterPeek(MayInterrupt)
    /\ UNCHANGED <<phase, sched, local, cfg, timer, interrupted, aborted,
                   arrived, withdrawn>>

\* checkSteering's await resolves and the task is fulfilled.
PeekResolves(c) ==
    /\ pc[c] \in {"peekHit", "peekMiss"}
    /\ IF pc[c] = "peekHit" THEN Trigger ELSE UNCHANGED interrupted
    /\ pc' = [pc EXCEPT ![c] = "done"]
    /\ UNCHANGED <<phase, sched, local, out, cfg, timer, aborted, user>>

\* The steering callback rejects, and with it the task.
PeekRejects(c) ==
    /\ pc[c] \in {"peekHit", "peekMiss"}
    /\ pc' = [pc EXCEPT ![c] = "rejected"]
    /\ UNCHANGED <<phase, sched, local, out, cfg, timer, interrupted, aborted,
                   user>>

-----------------------------------------------------------------------------
(* The steering timer, the tail sweep and the user. *)

\* A mutant of Settled: Promise.all instead of Promise.allSettled.
AllFulfilled == \A c \in Calls : pc[c] = "done"

Settled == \A c \in Calls : pc[c] \in {"done", "rejected"}

\* The interval fires while an interruptible tool is part of the batch.
TimerPeeks ==
    /\ phase = "run" /\ watch /\ ~Settled
    /\ timer = "idle" /\ MayInterrupt /\ steerQ > 0
    /\ timer' = "hit"
    /\ steerQ' = QueueAfterPeek(TRUE)
    /\ UNCHANGED <<phase, sched, pc, local, out, cfg, interrupted, aborted,
                   arrived, withdrawn>>

TimerResolves ==
    /\ timer = "hit"
    /\ timer' = "idle"
    /\ Trigger
    /\ UNCHANGED <<phase, sched, pc, local, out, cfg, aborted, user>>

\* A mutant of TailSweep: calls without a result stay without one.
TailSweepMissing ==
    /\ phase = "run" /\ Settled
    /\ phase' = "returned"
    /\ UNCHANGED <<sched, pc, local, out, cfg, timer, interrupted, aborted,
                   user>>

\* allSettled: every call without a result is answered.
TailSweep ==
    /\ phase = "run" /\ Settled
    /\ phase' = "returned"
    /\ emitted' = [c \in Calls |->
                     IF emitted[c] = "none" THEN "skipped" ELSE emitted[c]]
    /\ pushed' = [c \in Calls |->
                    IF emitted[c] = "none" THEN pushed[c] + 1 ELSE pushed[c]]
    /\ UNCHANGED <<sched, pc, local, cfg, timer, interrupted, aborted, user>>

\* Agent.steer while the batch runs.
UserSteers ==
    /\ phase = "run" /\ arrived < MaxSteer
    /\ steerQ' = steerQ + 1 /\ arrived' = arrived + 1
    /\ UNCHANGED <<phase, sched, pc, local, out, cfg, timer, interrupted,
                   aborted, withdrawn>>

\* The user takes a queued message back to edit it (popLastSteer).
UserWithdraws ==
    /\ phase = "run" /\ steerQ > 0
    /\ steerQ' = steerQ - 1 /\ withdrawn' = withdrawn + 1
    /\ UNCHANGED <<phase, sched, pc, local, out, cfg, timer, interrupted,
                   aborted, arrived>>

\* Agent.abort.
UserAborts ==
    /\ phase = "run" /\ ~aborted
    /\ aborted' = TRUE
    /\ UNCHANGED <<phase, sched, pc, local, out, cfg, timer, interrupted,
                   user>>

\* The batch has returned and no check is in flight.
Returned == phase = "returned" /\ timer = "idle" /\ UNCHANGED vars

Tool(c) ==
    \/ StartTool(c) \/ RejectChain(c) \/ RefuseTool(c) \/ BeginExecute(c)
    \/ ExecuteSettles(c) \/ AfterHook(c) \/ FinishTool(c)
    \/ PeekResolves(c) \/ PeekRejects(c)

Next ==
    \/ \E mode \in {"shared", "exclusive"} : Schedule(mode)
    \/ BeginRun
    \/ \E c \in Calls : Tool(c)
    \/ TimerPeeks \/ TimerResolves \/ TailSweep
    \/ UserSteers \/ UserWithdraws \/ UserAborts
    \/ Returned

\* Fairness: the event loop runs every ready continuation, hooks and tools
\* settle, and nobody has to steer, withdraw or abort.
Fairness ==
    /\ WF_vars(\E mode \in {"shared", "exclusive"} : Schedule(mode))
    /\ WF_vars(BeginRun) /\ WF_vars(TailSweep)
    /\ \A c \in Calls : WF_vars(Tool(c))

Spec     == Init /\ [][Next]_vars
FairSpec == Spec /\ Fairness

-----------------------------------------------------------------------------
(* Properties. *)

Running(c) == pc[c] \notin {"waiting", "done", "rejected"}

(* An exclusive call never overlaps another call: from its first hook to the *)
(* end of its task, every other task is idle, whatever order the calls have  *)
(* and however the tasks before it ended.                                    *)
ExclusiveAlone ==
    \A c, d \in Calls : c \in excl /\ Running(c) /\ Running(d) => c = d

(* Calls on the two sides of an exclusive call are ordered: a call that has  *)
(* started finds every exclusive call before it fulfilled, and an exclusive  *)
(* one finds every earlier call fulfilled.                                   *)
BarrierOrder ==
    \A c, d \in Calls :
        /\ d < c /\ (c \in excl \/ d \in excl)
        /\ pc[c] \notin {"waiting", "rejected"}
        => pc[d] = "done"

(* No call is answered twice, and when the batch returns every call has its  *)
(* one tool result: the tool_use / tool_result pairing of the API.           *)
OneResultPerCall ==
    \A c \in Calls : pushed[c] <= 1 /\ (phase = "returned" => pushed[c] = 1)

(* A tool that completed and whose final result is no error is reported as   *)
(* what it is, even if the batch was interrupted meanwhile: its side effects *)
(* happened, the model must not read "skipped".                              *)
SuccessReported ==
    \A c \in Calls :
        outcome[c] = "ok" /\ pc[c] \in {"peekHit", "peekMiss", "done", "rejected"}
            => emitted[c] = "ok"

(* With the peek the batch only looks at the steering queue: what the user   *)
(* queued is still there for the injection boundary, unless the user took it *)
(* back.                                                                     *)
SteeringConserved == arrived = steerQ + withdrawn

(* No tool begins to execute once the run is aborted or interrupted.         *)
NoStartAfterAbort ==
    [][\A c \in Calls :
         pc[c] # "executing" /\ pc'[c] = "executing" => ~ToolAborted]_vars

(* Under fair scheduling of tools and hooks the batch returns: no chain of   *)
(* start promises waits for itself, and a rejected task strands nobody.      *)
BatchReturns == <>(phase = "returned")

(* Why the properties above hold, as an inductive invariant: the for loop     *)
(* keeps every earlier call reachable from its two variables (SchedInv), so   *)
(* that a start promise covers, directly or through an exclusive call, all    *)
(* the calls it has to wait for (AfterInv); a call without its result has not *)
(* passed the emission, and a result is pushed once (ResultInv).              *)
SchedInv ==
    /\ lastExclusive \subseteq excl
    /\ excl \subseteq 1..(next - 1)
    /\ \A d \in 1..(next - 1) :
         \/ d \in lastExclusive
         \/ d \in sharedTasks /\ d \notin excl
         \/ \E e \in lastExclusive : d < e

AfterInv ==
    \A c, d \in 1..(next - 1) :
        d < c /\ (c \in excl \/ d \in excl)
            => d \in after[c] \/ \E e \in after[c] : e \in excl /\ d < e

PhaseInv ==
    /\ phase = "schedule" => \A c \in Calls : pc[c] = "waiting"
    /\ phase # "schedule" => next = N + 1
    /\ phase = "returned" => Settled

ResultInv ==
    \A c \in Calls :
        /\ pushed[c] = IF emitted[c] = "none" THEN 0 ELSE 1
        /\ phase = "returned" => emitted[c] # "none"
        /\ pc[c] \in {"waiting", "before", "executing", "after", "emit"}
              => emitted[c] = "none"
        /\ pc[c] \in {"waiting", "before", "executing"} => outcome[c] = "none"
        /\ pc[c] \in {"after", "emit"} => outcome[c] \in {"ok", "error", "aborted"}

BatchInv ==
    /\ SchedInv /\ AfterInv /\ PhaseInv /\ ResultInv
    /\ BarrierOrder /\ SuccessReported

(* Everything that holds of the batch at every moment: besides BatchInv, the *)
(* steering queue keeps what the user queued as long as the batch can peek.  *)
BatchSafe == TypeOK /\ BatchInv /\ (HasPeek => SteeringConserved)

(* The batch implements the contract the agent loop relies on (ToolResults): *)
(* each call is answered once and for good, and the batch returns only with  *)
(* every call answered.                                                      *)
Contract == INSTANCE ToolResults WITH answer <- emitted,
                                      returned <- (phase = "returned")
ContractSpec == Contract!Spec
=============================================================================
