----------------------------- MODULE WorkerPool -----------------------------
(***************************************************************************)
(* robomp's durable event queue: the events table (db.py) and the          *)
(* WorkerPool (queue.py) that drains it, with its cancel hooks             *)
(* (cancellation.py), its slot pool (slot_pool.py) and the web endpoints   *)
(* that record, replay and cancel deliveries (server.py).                  *)
(*                                                                         *)
(* A delivery has a row in the database, which survives a crash, a task on *)
(* the event loop and a worker thread that runs the agent; the task awaits *)
(* the thread but cannot stop it.  The dispatcher claims rows one at a     *)
(* time under _inflight_lock.                                              *)
(***************************************************************************)
EXTENDS Integers

CONSTANTS
    Deliveries,   \* delivery ids
    Keys,         \* issue keys (a delivery without one is its own key)
    KeyOf,        \* the issue each delivery is about
    Slots,        \* the slot UIDs (max_concurrency of them)
    None,         \* no delivery / no slot
    MaxRetries,   \* event_max_retries
    AttemptCap,   \* bound: attempts saturate here, above every threshold
    MaxOps,       \* bound: operator requests in a behaviour
    MaxRestarts,  \* bound: times the process goes down
    ClaimCanFail, \* the database may raise in the dispatcher
    CanCrash      \* the process may die without stop()

ASSUME PoolAssumption ==
    /\ KeyOf \in [Deliveries -> Keys]
    /\ None \notin Deliveries /\ None \notin Slots
    /\ MaxRetries \in Nat /\ AttemptCap \in Nat /\ AttemptCap > MaxRetries + 1
    /\ MaxOps \in Nat /\ MaxRestarts \in Nat /\ ClaimCanFail \in BOOLEAN /\ CanCrash \in BOOLEAN

VARIABLES
    row,        \* delivery -> its events row
    received,   \* delivery -> received_at of its row
    now,        \* the clock received_at is read from
    pool,       \* where the process is in its life, one of Phases
    disp,       \* the dispatcher: where it is and the row it holds
    wakeup,     \* _wakeup
    inflight,   \* _inflight
    task,       \* delivery -> its _run_event task
    thread,     \* delivery -> the worker thread of its run
    slot,       \* delivery -> the slot its task holds
    hooks,      \* keys of _cancel_hooks
    cancelled,  \* _cancelled
    shut,       \* _shutdown_cancelled
    killed,     \* deliveries whose cancel hook was fired
    doomed,     \* the still-running tasks stop() has yet to interrupt
    retries,    \* history: automatic retries of the present row
    asked,      \* history: cancelled by the operator while the row was running
    ops,        \* history: operator requests
    restarts    \* history: times the process went down

clock    == <<received, now>>
volatile == <<inflight, task, thread, slot, hooks, cancelled, shut, killed, doomed>>
history  == <<retries, asked, ops, restarts>>
vars     == <<row, clock, pool, disp, wakeup, volatile, history>>

\* Up; in stop(): waiting for the tasks, interrupting them, waiting for a hook
\* to return, waiting for the interrupted tasks; stop() has returned; no process.
Phases == {"up", "draining", "killing", "firing", "settling", "stopped", "down"}

NoRow    == [state |-> "absent", attempts |-> 0, next |-> "due", why |-> "none"]
Inactive == {"done", "failed", "skipped"}      \* INACTIVE_EVENT_STATES
Key(d)   == KeyOf[d]

Init ==
    /\ row = [d \in Deliveries |-> NoRow] /\ received = [d \in Deliveries |-> 0] /\ now = 0
    /\ pool = "down" /\ disp = [at |-> "off", d |-> None] /\ wakeup = FALSE
    /\ inflight = {} /\ task = [d \in Deliveries |-> "none"]
    /\ thread = [d \in Deliveries |-> "none"] /\ slot = [d \in Deliveries |-> None]
    /\ hooks = {} /\ cancelled = {} /\ shut = {} /\ killed = {} /\ doomed = {}
    /\ retries = [d \in Deliveries |-> 0] /\ asked = {} /\ ops = 0 /\ restarts = 0

-----------------------------------------------------------------------------
(* The events table. *)

\* record_event: INSERT OR IGNORE.
Fresh(d) == row[d].state = "absent"

\* A new row, last in the order of received_at.
Insert(d, state) ==
    /\ row' = [row EXCEPT ![d] = [NoRow EXCEPT !.state = state]]
    /\ now' = now + 1 /\ received' = [received EXCEPT ![d] = now']
    /\ retries' = [retries EXCEPT ![d] = 0]

\* The WHERE clause of claim_next_event.
Unblocked(d) ==
    /\ row[d].state = "queued" /\ row[d].next = "due"
    /\ \A e \in Deliveries : row[e].state = "running" => Key(e) # Key(d)

\* The row claim_next_event returns: the oldest unblocked one.
IsNext(d) ==
    Unblocked(d) /\ \A e \in Deliveries : Unblocked(e) => received[d] <= received[e]

Bump(n) == IF n < AttemptCap THEN n + 1 ELSE n

Claimed(r) == [r EXCEPT !.state = "running", !.attempts = Bump(@)]
Marked(r, state, why) == [r EXCEPT !.state = state, !.why = why]

\* requeue_event and reset_stuck_running.
Requeued(r) == [r EXCEPT !.state = "queued", !.next = "due"]

\* schedule_retry: queued again, once the backoff has elapsed.
Retried(r) == [r EXCEPT !.state = "queued", !.next = "backoff", !.why = "error"]

-----------------------------------------------------------------------------
(* The endpoints. *)

\* github_webhook: records a delivery (or ignores a redelivery) and wakes.
Webhook(d, state) ==
    /\ pool = "up" /\ Fresh(d)
    /\ Insert(d, state)
    /\ wakeup' = (wakeup \/ state = "queued")
    /\ UNCHANGED <<pool, disp, volatile, asked, ops, restarts>>

Operator == ops < MaxOps /\ ops' = ops + 1

\* /replay, /api/trigger retry, and the CLI, which cannot wake the pool.
Replay(d, wakes) ==
    /\ Operator /\ row[d].state \in Inactive
    /\ wakes => pool = "up"
    /\ row' = [row EXCEPT ![d] = Requeued(@)]
    /\ asked' = asked \ {d}
    /\ wakeup' = (wakeup \/ wakes)
    /\ UNCHANGED <<clock, pool, disp, volatile, retries, restarts>>

\* enqueue_manual_triage: an inactive row is replaced by a fresh one.
ManualTriage(d, wakes) ==
    /\ Operator /\ row[d].state \in Inactive \cup {"absent"}
    /\ wakes => pool = "up"
    /\ Insert(d, "queued")
    /\ asked' = asked \ {d}
    /\ wakeup' = (wakeup \/ wakes)
    /\ UNCHANGED <<pool, disp, volatile, restarts>>

\* A mutant of CancelEvent: without a hook the request is dropped.
CancelEventNeedsHook(d) ==
    /\ Operator /\ pool = "up" /\ row[d].state # "absent"
    /\ cancelled' = IF d \in hooks THEN cancelled \cup {d} ELSE cancelled
    /\ hooks' = hooks \ {d}
    /\ killed' = killed \cup (hooks \cap {d})
    /\ asked' = asked \cup {e \in {d} : row[e].state = "running"}
    /\ UNCHANGED <<row, clock, pool, disp, wakeup, inflight, task, thread, slot,
                   shut, doomed, retries, restarts>>

\* /api/cancel and cancel_event.
CancelEvent(d) ==
    /\ Operator /\ pool = "up" /\ row[d].state # "absent"
    /\ cancelled' = cancelled \cup {d}
    /\ hooks' = hooks \ {d}
    /\ killed' = killed \cup (hooks \cap {d})
    /\ asked' = asked \cup {e \in {d} : row[e].state = "running"}
    /\ UNCHANGED <<row, clock, pool, disp, wakeup, inflight, task, thread, slot,
                   shut, doomed, retries, restarts>>

\* The backoff of a retried row elapses.
BackoffElapses(d) ==
    /\ row[d].state = "queued" /\ row[d].next = "backoff"
    /\ row' = [row EXCEPT ![d].next = "due"]
    /\ UNCHANGED <<clock, pool, disp, wakeup, volatile, history>>

-----------------------------------------------------------------------------
(* The dispatcher: _dispatch_loop and _claim_next_unique. *)

DispatcherAt(place, d) == disp' = [at |-> place, d |-> d]

\* claim_next_event, on a thread, under _inflight_lock.
Claim(d) ==
    /\ disp.at = "scan" /\ IsNext(d)
    /\ row' = [row EXCEPT ![d] = Claimed(@)]
    /\ DispatcherAt("claimed", d)
    /\ UNCHANGED <<clock, pool, wakeup, volatile, history>>

ClaimNothing ==
    /\ disp.at = "scan" /\ \A d \in Deliveries : ~IsNext(d)
    /\ DispatcherAt("nothing", None)
    /\ UNCHANGED <<row, clock, pool, wakeup, volatile, history>>

\* The claim raises: the transaction rolls back and the dispatcher is gone.
ClaimRaises ==
    /\ ClaimCanFail /\ disp.at = "scan"
    /\ DispatcherAt("crashed", None)
    /\ UNCHANGED <<row, clock, pool, wakeup, volatile, history>>

\* A mutant of Busy: the in-flight set is not consulted.
BusyNever(d) == FALSE

Busy(d) == Key(d) \in inflight

\* The issue is still in flight: put the row back.
PutBack ==
    /\ disp.at = "claimed" /\ Busy(disp.d)
    /\ row' = [row EXCEPT ![disp.d] = IF @.state = "running" THEN Requeued(@) ELSE @]
    /\ DispatcherAt("putBack", None)
    /\ UNCHANGED <<clock, pool, wakeup, volatile, history>>

\* Schedule the task.
Dispatch ==
    /\ disp.at = "claimed" /\ ~Busy(disp.d)
    /\ inflight' = inflight \cup {Key(disp.d)}
    /\ task' = [task EXCEPT ![disp.d] = "slot"]
    /\ DispatcherAt("scan", None)
    /\ UNCHANGED <<row, clock, pool, wakeup, thread, slot, hooks, cancelled, shut,
                   killed, doomed, history>>

\* _wakeup.clear() and the wait; a wake() since the claim is lost here.
ClearWakeup ==
    /\ disp.at \in {"nothing", "putBack"}
    /\ wakeup' = FALSE /\ DispatcherAt("waiting", None)
    /\ UNCHANGED <<row, clock, pool, volatile, history>>

\* A mutant of WakeUp: no poll after ten seconds.
WakeUpSignalled ==
    /\ disp.at = "waiting" /\ wakeup
    /\ DispatcherAt("scan", None)
    /\ UNCHANGED <<row, clock, pool, wakeup, volatile, history>>

\* _wakeup.wait() returns, or times out after ten seconds.
WakeUp ==
    /\ disp.at = "waiting"
    /\ DispatcherAt("scan", None)
    /\ UNCHANGED <<row, clock, pool, wakeup, volatile, history>>

\* _inflight_lock is held from the claim to the end of _claim_next_unique.
LockHeld == disp.at \in {"claimed", "putBack"}

-----------------------------------------------------------------------------
(* The task: _run_event, and the worker thread it awaits. *)

\* stop() interrupts tasks without yielding to the event loop.
LoopRuns == pool # "killing"

\* The queue of available slots.
Free(s) == \A d \in Deliveries : slot[d] # s

\* slot_pool.acquire() returns; _dispatch starts the worker thread.
Acquire(d, s) ==
    /\ LoopRuns /\ task[d] = "slot" /\ Free(s)
    /\ slot' = [slot EXCEPT ![d] = s]
    /\ task' = [task EXCEPT ![d] = "running"]
    /\ thread' = [thread EXCEPT ![d] = "starting"]
    /\ killed' = killed \ {d}
    /\ UNCHANGED <<row, clock, pool, disp, wakeup, inflight, hooks, cancelled,
                   shut, doomed, history>>

\* The agent process is up; _arm_cancel tests _cancelled ...
ArmTest(d) ==
    /\ thread[d] = "starting"
    /\ IF d \in cancelled
         THEN killed' = killed \cup {d} /\ thread' = [thread EXCEPT ![d] = "armed"]
         ELSE thread' = [thread EXCEPT ![d] = "arming"] /\ UNCHANGED killed
    /\ UNCHANGED <<row, clock, pool, disp, wakeup, inflight, task, slot, hooks,
                   cancelled, shut, doomed, history>>

\* ... and then installs the hook.
ArmInstall(d) ==
    /\ thread[d] = "arming"
    /\ hooks' = hooks \cup {d}
    /\ thread' = [thread EXCEPT ![d] = "armed"]
    /\ UNCHANGED <<row, clock, pool, disp, wakeup, inflight, task, slot,
                   cancelled, shut, killed, doomed, history>>

\* The worker thread ends; a thread whose task is gone ends unobserved.
ThreadEnds(d, outcome) ==
    /\ thread[d] \in {"starting", "armed"}
    /\ thread' = [thread EXCEPT
                    ![d] = IF task[d] = "running" THEN outcome ELSE "none"]
    /\ hooks' = IF thread[d] = "armed" THEN hooks \ {d} ELSE hooks
    /\ UNCHANGED <<row, clock, pool, disp, wakeup, inflight, task, slot,
                   cancelled, shut, killed, doomed, history>>

\* The finally block up to _release.
Finally(d) ==
    /\ cancelled' = cancelled \ {d} /\ shut' = shut \ {d} /\ hooks' = hooks \ {d}
    /\ slot' = [slot EXCEPT ![d] = None]
    /\ task' = [task EXCEPT ![d] = "releasing"]

\* _dispatch_and_mark.
Succeeds(d) ==
    /\ LoopRuns /\ task[d] = "running" /\ thread[d] = "ok"
    /\ row' = [row EXCEPT ![d] = IF d \in cancelled
                                   THEN Marked(@, "failed", "operator")
                                   ELSE Marked(@, "done", "none")]
    /\ thread' = [thread EXCEPT ![d] = "none"]
    /\ Finally(d)
    /\ UNCHANGED <<clock, pool, disp, wakeup, inflight, killed, doomed, history>>

\* A mutant of MayRetry: off by one.
MayRetryOneMore(r) == r.attempts <= MaxRetries + 1

MayRetry(r) == 0 < r.attempts /\ r.attempts <= MaxRetries

\* A mutant of FailedRow: an interrupted run is treated like a failure.
FailedRowAlways(d) ==
    IF d \in cancelled THEN Marked(row[d], "failed", "operator")
    ELSE IF MayRetry(row[d]) THEN Retried(row[d])
    ELSE Marked(row[d], "failed", "error")

\* The except clause: what becomes of the row of a run that raised.
FailedRow(d) ==
    IF d \in shut THEN row[d]
    ELSE IF d \in cancelled THEN Marked(row[d], "failed", "operator")
    ELSE IF MayRetry(row[d]) THEN Retried(row[d])
    ELSE Marked(row[d], "failed", "error")

Fails(d) ==
    /\ LoopRuns /\ task[d] = "running" /\ thread[d] = "err"
    /\ row' = [row EXCEPT ![d] = FailedRow(d)]
    /\ retries' = [retries EXCEPT ![d] = IF FailedRow(d).state = "queued" THEN @ + 1 ELSE @]
    /\ thread' = [thread EXCEPT ![d] = "none"]
    /\ Finally(d)
    /\ UNCHANGED <<clock, pool, disp, wakeup, inflight, killed, doomed, asked, ops,
                   restarts>>

Release(d) ==
    /\ LoopRuns /\ task[d] = "releasing" /\ ~LockHeld
    /\ inflight' = inflight \ {Key(d)}
    /\ task' = [task EXCEPT ![d] = "none"]
    /\ UNCHANGED <<row, clock, pool, disp, wakeup, thread, slot, hooks, cancelled,
                   shut, killed, doomed, history>>

-----------------------------------------------------------------------------
(* The life of the process: start, stop, crash. *)

\* A mutant of Start: rows left running are not recovered.
StartNoReset ==
    /\ pool = "down"
    /\ pool' = "up" /\ DispatcherAt("scan", None) /\ wakeup' = FALSE
    /\ asked' = {}
    /\ UNCHANGED <<row, clock, volatile, retries, ops, restarts>>

\* start: reset_stuck_running, then the dispatcher.
Start ==
    /\ pool = "down"
    /\ row' = [d \in Deliveries |->
                 IF row[d].state = "running" THEN Requeued(row[d]) ELSE row[d]]
    /\ pool' = "up" /\ DispatcherAt("scan", None) /\ wakeup' = FALSE
    /\ asked' = {}
    /\ UNCHANGED <<clock, volatile, retries, ops, restarts>>

Stop ==
    /\ pool = "up" /\ restarts < MaxRestarts
    /\ pool' = "draining" /\ DispatcherAt("off", None) /\ wakeup' = TRUE
    /\ UNCHANGED <<row, clock, volatile, history>>

Drained ==
    /\ pool = "draining" /\ \A d \in Deliveries : task[d] = "none"
    /\ pool' = "stopped"
    /\ UNCHANGED <<row, clock, disp, wakeup, volatile, history>>

DrainTimeout ==
    /\ pool = "draining" /\ \E d \in Deliveries : task[d] # "none"
    /\ pool' = "killing"
    /\ doomed' = {d \in Deliveries : task[d] # "none"}
    /\ UNCHANGED <<row, clock, disp, wakeup, inflight, task, thread, slot, hooks,
                   cancelled, shut, killed, history>>

\* stop() fires the hook of a still-running task ...
Interrupt(d) ==
    /\ pool = "killing" /\ d \in doomed /\ task[d] # "none" /\ d \in hooks
    /\ doomed' = doomed \ {d} /\ pool' = "firing"
    /\ shut' = shut \cup {d} /\ hooks' = hooks \ {d} /\ killed' = killed \cup {d}
    /\ UNCHANGED <<row, clock, disp, wakeup, inflight, task, thread, slot,
                   cancelled, history>>

HookReturns ==
    /\ pool = "firing" /\ pool' = "killing"
    /\ UNCHANGED <<row, clock, disp, wakeup, volatile, history>>

\* ... or cancels the task, whose finally block then runs; a task already in
\* its finally block loses its place in the wait for the lock.
CancelTask(d) ==
    /\ pool = "killing" /\ d \in doomed /\ task[d] # "none" /\ d \notin hooks
    /\ doomed' = doomed \ {d}
    /\ IF task[d] = "releasing"
         THEN /\ task' = [task EXCEPT ![d] = "none"]
              /\ shut' = shut \cup {d}
              /\ UNCHANGED <<thread, slot, hooks, cancelled>>
         ELSE /\ Finally(d)
              /\ thread' = [thread EXCEPT
                              ![d] = IF @ \in {"ok", "err"} THEN "none" ELSE @]
    /\ UNCHANGED <<row, clock, pool, disp, wakeup, inflight, killed, history>>

\* A mutant of AlreadyDone: stop() takes the finished task for a running one.
AlreadyDoneUnseen(d) ==
    /\ pool = "killing" /\ d \in doomed /\ task[d] = "none"
    /\ pool' = "firing"
    /\ UNCHANGED <<row, clock, disp, wakeup, volatile, history>>

\* The task finished before stop() got to it.
AlreadyDone(d) ==
    /\ pool = "killing" /\ d \in doomed /\ task[d] = "none"
    /\ doomed' = doomed \ {d}
    /\ UNCHANGED <<row, clock, pool, disp, wakeup, inflight, task, thread, slot,
                   hooks, cancelled, shut, killed, history>>

AllInterrupted ==
    /\ pool = "killing" /\ doomed = {}
    /\ pool' = "settling"
    /\ UNCHANGED <<row, clock, disp, wakeup, volatile, history>>

\* stop() returns, at the latest after kill_timeout.
Stopped ==
    /\ pool = "settling"
    /\ pool' = "stopped"
    /\ UNCHANGED <<row, clock, disp, wakeup, volatile, history>>

\* The process exits or crashes: only the database survives.
Down ==
    /\ pool = "stopped" \/ (CanCrash /\ pool # "down" /\ restarts < MaxRestarts)
    /\ pool' = "down"
    /\ restarts' = restarts + 1
    /\ DispatcherAt("off", None) /\ wakeup' = FALSE
    /\ inflight' = {} /\ task' = [d \in Deliveries |-> "none"]
    /\ thread' = [d \in Deliveries |-> "none"] /\ slot' = [d \in Deliveries |-> None]
    /\ hooks' = {} /\ cancelled' = {} /\ shut' = {} /\ killed' = {} /\ doomed' = {}
    /\ UNCHANGED <<row, clock, retries, asked, ops>>

-----------------------------------------------------------------------------

Endpoints ==
    \E d \in Deliveries :
        \/ \E state \in {"queued", "skipped"} : Webhook(d, state)
        \/ \E wakes \in BOOLEAN : Replay(d, wakes) \/ ManualTriage(d, wakes)
        \/ CancelEvent(d)

Dispatcher ==
    \/ \E d \in Deliveries : Claim(d)
    \/ ClaimNothing \/ PutBack \/ Dispatch \/ ClearWakeup \/ WakeUp

RunEvent(d) ==
    \/ \E s \in Slots : Acquire(d, s)
    \/ ArmTest(d) \/ ArmInstall(d)
    \/ \E outcome \in {"ok", "err"} : ThreadEnds(d, outcome)
    \/ Succeeds(d) \/ Fails(d) \/ Release(d)

Shutdown ==
    \/ Stop \/ Drained \/ DrainTimeout \/ HookReturns \/ AllInterrupted \/ Stopped
    \/ \E d \in Deliveries : Interrupt(d) \/ CancelTask(d) \/ AlreadyDone(d)

Next ==
    \/ Start \/ Endpoints \/ Dispatcher \/ ClaimRaises
    \/ \E d \in Deliveries : RunEvent(d) \/ BackoffElapses(d)
    \/ Shutdown \/ Down

Spec == Init /\ [][Next]_vars

\* The event loop and the database make progress, asyncio's queue and lock are
\* first come, first served, the hard timeout ends every worker thread and
\* stop(), once called, waits nowhere without a timeout but for a hook.
FairSpec ==
    /\ Spec /\ WF_vars(Start) /\ WF_vars(Dispatcher)
    /\ WF_vars(pool # "up" /\ Shutdown) /\ WF_vars(pool = "stopped" /\ Down)
    /\ \A d \in Deliveries :
         /\ WF_vars(BackoffElapses(d)) /\ SF_vars(\E s \in Slots : Acquire(d, s))
         /\ WF_vars(ArmTest(d)) /\ WF_vars(ArmInstall(d))
         /\ WF_vars(\E outcome \in {"ok", "err"} : ThreadEnds(d, outcome))
         /\ WF_vars(Succeeds(d)) /\ WF_vars(Fails(d)) /\ SF_vars(Release(d))

-----------------------------------------------------------------------------
(* Properties. *)

Row == [state : {"absent", "queued", "running", "done", "failed", "skipped"},
        attempts : 0..AttemptCap, next : {"due", "backoff"}, why : {"none", "operator", "error"}]

Places == {"off", "scan", "claimed", "nothing", "putBack", "waiting", "crashed"}

TypeOK ==
    /\ row \in [Deliveries -> Row] /\ received \in [Deliveries -> Nat] /\ now \in Nat
    /\ pool \in Phases /\ disp \in [at : Places, d : Deliveries \cup {None}]
    /\ disp.at = "claimed" => disp.d \in Deliveries
    /\ wakeup \in BOOLEAN /\ inflight \subseteq Keys
    /\ task \in [Deliveries -> {"none", "slot", "running", "releasing"}]
    /\ thread \in [Deliveries -> {"none", "starting", "arming", "armed", "ok", "err"}]
    /\ slot \in [Deliveries -> Slots \cup {None}]
    /\ hooks \subseteq Deliveries /\ cancelled \subseteq Deliveries
    /\ shut \subseteq Deliveries /\ killed \subseteq Deliveries
    /\ doomed \subseteq Deliveries /\ asked \subseteq Deliveries
    /\ retries \in [Deliveries -> Nat] /\ ops \in 0..MaxOps
    /\ restarts \in 0..MaxRestarts

Active(d) == task[d] \in {"slot", "running"}

(* Two runs about the same issue never overlap: at most one task and at most *)
(* one worker thread per issue key, across replays, retries, restarts and    *)
(* the window between marking a row and releasing its key.                   *)
OneRunPerIssue ==
    \A d, e \in Deliveries :
        d # e /\ Key(d) = Key(e)
            => /\ task[d] = "none" \/ task[e] = "none"
               /\ thread[d] = "none" \/ thread[e] = "none"

(* While the pool is up a row is 'running' exactly when a task works on it   *)
(* or the dispatcher has just claimed it: no row is stuck, none is run       *)
(* without being marked.                                                     *)
Ownership ==
    pool = "up" =>
        \A d \in Deliveries :
            row[d].state = "running" <=> Active(d) \/ (disp.at = "claimed" /\ disp.d = d)

(* At most one row per issue is 'running', in any phase of the process.      *)
OneRunningRow ==
    \A d, e \in Deliveries :
        row[d].state = "running" /\ row[e].state = "running" /\ Key(d) = Key(e) => d = e

(* An event is retried automatically at most event_max_retries times.        *)
RetryBound == \A d \in Deliveries : retries[d] <= MaxRetries

(* A run that the operator or stop() killed is never recorded as an error    *)
(* and never retried: its row stays 'running' or says who cancelled it.      *)
KilledNotBlamed ==
    [][\A d \in Deliveries :
         Active(d) /\ task'[d] = "releasing" /\ row'[d].state # "running"
           /\ row'[d].why = "error" => d \notin killed]_vars

(* A run the operator cancelled ends 'failed', "cancelled by operator",      *)
(* whether or not the hook was armed in time, as long as stop() or a crash   *)
(* does not intervene.                                                       *)
CancelLands ==
    [][\A d \in Deliveries :
         pool = "up" /\ Active(d) /\ task'[d] = "releasing" /\ d \in asked
             => row'[d].state = "failed" /\ row'[d].why = "operator"]_vars

(* A due event is claimed eventually, even if its wake() is lost between the *)
(* dispatcher's claim and its wait or was never sent, unless the process     *)
(* goes down or a database error has ended the dispatcher for good.          *)
QueuedRuns ==
    \A d \in Deliveries :
        row[d].state = "queued" /\ row[d].next = "due"
            ~> row[d].state # "queued" \/ pool # "up" \/ disp.at = "crashed"

(* An event that stop() or a crash interrupted is recovered at the next      *)
(* start and resolved, once the process stays up: no row keeps the           *)
(* 'running' of a process that is gone, and the retries that interruptions   *)
(* use up come to an end.                                                    *)
InterruptedResolves ==
    \A d \in Deliveries :
        row[d].state = "running" /\ pool = "down"
            ~> row[d].state \in Inactive \/ disp.at = "crashed"

(* stop() returns, whatever its tasks do while it fires their hooks.         *)
StopReturns == pool = "draining" ~> pool \in {"stopped", "down"}

-----------------------------------------------------------------------------
(* The inductive invariant, in parts. *)

SameKey(d, e) == Key(d) = Key(e)

\* What the phase of the process says about the rest.
PhaseInv ==
    /\ disp.at # "off" => pool = "up"
    /\ pool = "down" => \A d \in Deliveries : task[d] = "none" /\ thread[d] = "none"
    /\ pool \in {"up", "draining", "down"} => shut = {}
    /\ pool \notin {"up", "down"} => restarts < MaxRestarts

\* Every task has its issue in flight, alone, and its row is 'running' until
\* the finally block; the claimed row is 'running' and has no such task yet.
TaskInv ==
    /\ \A d \in Deliveries : task[d] # "none" => Key(d) \in inflight
    /\ \A d, e \in Deliveries :
         task[d] # "none" /\ task[e] # "none" /\ SameKey(d, e) => d = e
    /\ \A d \in Deliveries : Active(d) => row[d].state = "running"
    /\ disp.at = "claimed" => row[disp.d].state = "running" /\ ~Active(disp.d)

\* stop() may cancel a task and leave its thread behind; by then nothing
\* schedules another task for the issue.
Abandoned(d) ==
    /\ pool \notin {"up", "draining", "down"} /\ task[d] \in {"releasing", "none"}
    /\ thread[d] \notin {"ok", "err"}
    /\ \A e \in Deliveries : task[e] # "none" /\ SameKey(d, e) => e = d

ThreadInv ==
    /\ \A d \in Deliveries : thread[d] # "none" => task[d] = "running" \/ Abandoned(d)
    /\ \A d, e \in Deliveries :
         thread[d] # "none" /\ thread[e] # "none" /\ SameKey(d, e) => d = e

\* Below the threshold an automatic retry has an attempt of its own.
RetryInv ==
    \A d \in Deliveries :
        /\ retries[d] <= MaxRetries
        /\ row[d].attempts <= MaxRetries =>
             /\ retries[d] <= row[d].attempts
             /\ row[d].state = "running" => retries[d] < row[d].attempts

\* A killed run, and a row whose cancellation is outstanding, is on record.
CancelInv ==
    /\ \A d \in Deliveries : task[d] = "running" /\ d \in killed => d \in cancelled \cup shut
    /\ \A d \in asked :
         /\ row[d].state # "absent"
         /\ pool = "up" /\ row[d].state \in {"queued", "running"} => d \in cancelled

(* What every step of the pool preserves: the in-flight keys, the tasks, the *)
(* threads, the rows and the cancel sets agree with each other in every      *)
(* phase, shutdown included.                                                 *)
PoolInv ==
    /\ TypeOK /\ PhaseInv /\ TaskInv /\ ThreadInv /\ OneRunningRow /\ Ownership
    /\ RetryInv /\ CancelInv

-----------------------------------------------------------------------------
(* What the comments of queue.py promise and the code does not keep. *)

(* stop() leaves no worker behind that "could proceed to spawn a fresh       *)
(* subprocess after stop() returned".                                        *)
NoSpawnAfterStop ==
    [][pool = "stopped" =>
         \A d \in Deliveries : thread[d] = "starting" => thread'[d] \in {"starting", "none"}]_vars

(* "A late-armed hook still observes the request": the hook of a cancelled   *)
(* run is fired, never kept.                                                 *)
CancelSeen == cancelled \cap hooks = {}
=============================================================================
