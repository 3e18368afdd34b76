----------------------------- MODULE AsyncJobs -----------------------------
(***************************************************************************)
(* Background jobs and the delivery of their results:                      *)
(*   - AsyncJobManager (coding-agent/src/async/job-manager.ts): the job    *)
(*     table, cancellation, retention, and the delivery queue with its     *)
(*     loop, retries and suppression;                                      *)
(*   - the two tools that wait for a job and so return its result          *)
(*     themselves: `job` (tools/job.ts, watch and acknowledge) and a bash  *)
(*     call that turns into a background job after a threshold             *)
(*     (tools/bash.ts, acknowledge and resume);                            *)
(*   - onJobComplete (sdk.ts), which stages a result in the session's      *)
(*     yield queue, from where the session injects it unless it has gone   *)
(*     stale.  When the session does so is the subject of AsyncDelivery.   *)
(* One action is one run of JavaScript up to its next await.               *)
(*                                                                         *)
(* A job is the object register() creates; its id is `bg_N` for the lowest *)
(* N that is free in the table, so an id returns after its job is evicted. *)
(* "completed" and "failed" jobs are both "done": they differ in the text  *)
(* that is delivered.  The running-job cap, job owners and dispose() are   *)
(* left out.                                                               *)
(***************************************************************************)
EXTENDS Naturals, Sequences, FiniteSets, FiniteSetsExt, SequencesExt

CONSTANTS
    N,          \* number of jobs registered in a behaviour
    P,          \* calls of the `job` tool that can wait at the same time
    MaxWaits,   \* bound on bash calls that wait in the foreground
    MaxFails,   \* bound on failing calls of onJobComplete
    None        \* no job in a slot of the table

ASSUME NAssumption == N \in Nat \ {0}
ASSUME PAssumption == P \in Nat
ASSUME BoundsAssumption == MaxWaits \in Nat /\ MaxFails \in Nat
ASSUME NoneAssumption == None \notin 1 .. N

Jobs == 1 .. N
Ids == 1 .. N

VARIABLES
    job,        \* the AsyncJob objects, with the bash call waiting for each
    jobs,       \* #jobs: id -> job
    suppressed, \* #suppressedDeliveries
    watched,    \* #watchedJobs
    timers,     \* #evictionTimers: ids with a running timer
    deliveries, \* #deliveries
    inflight,   \* #inFlightDeliveries, by job
    loop,       \* #deliveryLoop: where the loop is, and the delivery it holds
    fails,      \* failed calls of onJobComplete so far
    poll,       \* the waiting `job` calls: what each tracks and watches
    yq,         \* the session's YieldQueue entries of kind async-result, by job
    toolTold,   \* history: results a tool call has returned
    injected,   \* history: results the session has injected
    evicted     \* history: jobs that have been in the table under an id evicted since

manager == <<job, jobs, suppressed, watched, timers>>
delivery == <<deliveries, inflight, loop>>
history == <<toolTold, injected, evicted>>
vars == <<manager, delivery, fails, poll, yq, history>>

-----------------------------------------------------------------------------

Init ==
    /\ job = [o \in Jobs |-> [status |-> "unborn", id |-> o, run |-> "live", wait |-> "none"]]
    /\ jobs = [i \in Ids |-> None]
    /\ suppressed = {} /\ watched = {} /\ timers = {}
    /\ deliveries = <<>> /\ inflight = {}
    /\ loop = [at |-> "off", held |-> None]
    /\ fails = 0
    /\ poll = <<>>
    /\ yq = <<>>
    /\ toolTold = {} /\ injected = {} /\ evicted = {}

Id(o) == job[o].id
IdsOf(S) == {Id(o) : o \in S}

IsDeliverySuppressed(i) == i \in suppressed \cup watched

(* #deliverDelivery takes the head of ds; inf is already in flight.        *)
DeliverHead(ds, inf) ==
    /\ deliveries' = Tail(ds)
    /\ inflight' = inf \cup {Head(ds).job}
    /\ loop' = [at |-> "deliver", held |-> Head(ds)]

(* The delivery loop from the top of its while, up to its next await:      *)
(* suppressed deliveries at the head are dropped; then the loop ends, goes *)
(* to sleep before a retry that is not due, or hands the head to           *)
(* #deliverDelivery.  The caller has updated suppressed and watched.       *)
RunDeliveryLoop(ds, inf) ==
    LET live == {k \in DOMAIN ds : Id(ds[k].job) \notin suppressed' \cup watched'}
        rest == SubSeq(ds, Min(live), Len(ds))
    IN  IF live = {}
        THEN /\ deliveries' = <<>> /\ inflight' = inf
             /\ loop' = [at |-> "ended", held |-> None]
        ELSE IF Head(rest).due THEN DeliverHead(rest, inf)
        ELSE /\ deliveries' = rest /\ inflight' = inf
             /\ loop' = [at |-> "sleep", held |-> Head(rest)]

EnsureDeliveryLoop(ds, inf) ==
    IF loop.at = "off" THEN RunDeliveryLoop(ds, inf)
    ELSE deliveries' = ds /\ inflight' = inf /\ UNCHANGED loop

EnqueueDelivery(o) ==
    IF IsDeliverySuppressed(Id(o)) THEN UNCHANGED delivery
    ELSE EnsureDeliveryLoop(Append(deliveries, [job |-> o, attempt |-> 0, due |-> TRUE]), inflight)

(* The deliveries of ds that are not of a job in S.                        *)
Without(ds, S) ==
    LET kept[k \in 0 .. Len(ds)] ==
          IF k = 0 THEN <<>>
          ELSE IF ds[k].job \in S THEN kept[k - 1] ELSE Append(kept[k - 1], ds[k])
    IN  kept[Len(ds)]

(* The part of acknowledgeDeliveries after the caller has updated watched. *)
AcknowledgeDeliveries(ids) ==
    /\ suppressed' = suppressed \cup ids
    /\ deliveries' = IF ids = {} THEN deliveries
                     ELSE Without(deliveries, {o \in Jobs : Id(o) \in suppressed \cup ids \cup watched'})
    /\ UNCHANGED <<inflight, loop>>

ScheduleEviction(ids) == timers' = timers \cup ids

-----------------------------------------------------------------------------
(* Registration, the end of a job, cancellation, retention.                *)

FreeId == CHOOSE i \in Ids : jobs[i] = None /\ \A k \in 1 .. i - 1 : jobs[k] # None

(* A background job, or a bash call that waits for its job in the          *)
(* foreground and suppresses the delivery up front.                        *)
Register(o, foreground) ==
    /\ job[o].status = "unborn"
    /\ \A k \in 1 .. o - 1 : job[k].status # "unborn"
    /\ foreground => Cardinality({k \in Jobs : job[k].wait # "none"}) < MaxWaits
    /\ job' = [job EXCEPT ![o] = [status |-> "running", id |-> FreeId, run |-> "live",
                                  wait |-> IF foreground THEN "waiting" ELSE "none"]]
    /\ jobs' = [jobs EXCEPT ![FreeId] = o]
    /\ UNCHANGED watched
    /\ IF foreground THEN AcknowledgeDeliveries({FreeId})
       ELSE suppressed' = suppressed \ {FreeId} /\ UNCHANGED delivery
    /\ UNCHANGED <<timers, fails, poll, yq, history>>

InForeground(o) == job[o].wait \in {"waiting", "threshold", "abort"}

(* The command is over: a foreground bash call is told at once, the job's  *)
(* status changes only after the last progress report.                     *)
CommandEnds(o) ==
    /\ job[o].status \in {"running", "cancelled"}
    /\ job[o].run = "live" /\ InForeground(o)
    /\ job' = [job EXCEPT ![o].run = "over"]
    /\ UNCHANGED <<jobs, suppressed, watched, timers, delivery, fails, poll, yq, history>>

(* The promise of run() settles.                                           *)
JobSettles(o) ==
    /\ job[o].status \in {"running", "cancelled"}
    /\ job[o].run = "over" \/ (job[o].run = "live" /\ ~InForeground(o))
    /\ UNCHANGED <<suppressed, watched>>
    /\ IF job[o].status = "cancelled"
       THEN /\ job' = [job EXCEPT ![o].run = "settled"]
            /\ UNCHANGED delivery
       ELSE /\ job' = [job EXCEPT ![o].run = "settled", ![o].status = "done"]
            /\ EnqueueDelivery(o)
    /\ ScheduleEviction({Id(o)})
    /\ UNCHANGED <<jobs, fails, poll, yq, history>>

Cancelled(S) == [o \in Jobs |-> IF o \in S THEN [job[o] EXCEPT !.status = "cancelled"] ELSE job[o]]

Running == {o \in Jobs : job[o].status = "running" /\ jobs[Id(o)] = o}

(* cancelAll, when the session is left for another one.                    *)
CancelAll ==
    /\ Running # {}
    /\ job' = Cancelled(Running)
    /\ ScheduleEviction(IdsOf(Running))
    /\ UNCHANGED <<jobs, suppressed, watched, delivery, fails, poll, yq, history>>

(* Retention is five minutes, longer than the foreground wait of a bash    *)
(* call with the continuation of its race.                                 *)
Evict(i) ==
    /\ i \in timers
    /\ \A o \in Jobs : InForeground(o) => Id(o) # i
    /\ timers' = timers \ {i}
    /\ jobs' = [jobs EXCEPT ![i] = None]
    /\ suppressed' = suppressed \ {i}
    /\ watched' = watched \ {i}
    /\ evicted' = evicted \cup {o \in Jobs : job[o].status # "unborn" /\ Id(o) = i}
    /\ UNCHANGED <<job, delivery, fails, poll, yq, toolTold, injected>>

-----------------------------------------------------------------------------
(* The delivery loop, the scoped drain, and a delivery in flight.          *)

BackoffElapses(k) ==
    /\ k \in DOMAIN deliveries
    /\ ~deliveries[k].due
    /\ deliveries' = [deliveries EXCEPT ![k].due = TRUE]
    /\ UNCHANGED <<manager, inflight, loop, fails, poll, yq, history>>

\* A mutant of LoopWakes: the loop goes on only with the delivery it slept on.
LoopWakesOnlyForHeld ==
    /\ loop.at = "sleep"
    /\ deliveries # <<>> /\ Head(deliveries).job = loop.held.job /\ Head(deliveries).due
    /\ UNCHANGED manager
    /\ RunDeliveryLoop(deliveries, inflight)
    /\ UNCHANGED <<fails, poll, yq, history>>

(* The loop slept until the attempt it saw at the head was due.  By then   *)
(* the head can be another delivery, or suppressed, or the same one put    *)
(* back by a drain whose own attempt failed, which is tried at once.       *)
LoopWakes ==
    /\ loop.at = "sleep"
    /\ UNCHANGED manager
    /\ \A k \in DOMAIN deliveries : deliveries[k] # loop.held
    /\ IF /\ deliveries # <<>>
          /\ Head(deliveries).job = loop.held.job
          /\ ~IsDeliverySuppressed(Id(loop.held.job))
       THEN DeliverHead(deliveries, inflight)
       ELSE RunDeliveryLoop(deliveries, inflight)
    /\ UNCHANGED <<fails, poll, yq, history>>

LoopResumes ==
    /\ loop.at = "deliver"
    /\ UNCHANGED manager
    /\ loop.held.job \notin inflight
    /\ RunDeliveryLoop(deliveries, inflight)
    /\ UNCHANGED <<fails, poll, yq, history>>

\* A mutant of LoopFinally: what was queued meanwhile is not looked for.
LoopFinallyForgets ==
    /\ loop.at = "ended"
    /\ loop' = [at |-> "off", held |-> None]
    /\ UNCHANGED <<manager, deliveries, inflight, fails, poll, yq, history>>

(* The loop's promise is settled and still assigned; finally() clears it   *)
(* and looks at the queue again.                                           *)
LoopFinally ==
    /\ loop.at = "ended"
    /\ UNCHANGED manager
    /\ IF deliveries = <<>>
       THEN loop' = [at |-> "off", held |-> None] /\ UNCHANGED <<deliveries, inflight>>
       ELSE RunDeliveryLoop(deliveries, inflight)
    /\ UNCHANGED <<fails, poll, yq, history>>

(* #deliverNextFiltered, on behalf of drainDeliveries with an owner: a     *)
(* second deliverer beside the loop.                                       *)
DrainTakes(k) ==
    /\ k \in DOMAIN deliveries
    /\ deliveries[k].due
    /\ ~IsDeliverySuppressed(Id(deliveries[k].job))
    /\ deliveries' = RemoveAt(deliveries, k)
    /\ inflight' = inflight \cup {deliveries[k].job}
    /\ UNCHANGED <<manager, loop, fails, poll, yq, history>>

(* The finally block of a delivery; ds is the queue its body leaves.       *)
DeliveryEnds(o, ds) ==
    IF ds # <<>> THEN EnsureDeliveryLoop(ds, inflight \ {o})
    ELSE deliveries' = ds /\ inflight' = inflight \ {o} /\ UNCHANGED loop

(* onJobComplete has formatted the result: unless the job was acknowledged *)
(* or is watched meanwhile, the result enters the yield queue.             *)
OnJobComplete(o) ==
    /\ o \in inflight
    /\ UNCHANGED manager
    /\ DeliveryEnds(o, deliveries)
    /\ yq' = IF IsDeliverySuppressed(Id(o)) THEN yq ELSE Append(yq, o)
    /\ UNCHANGED <<fails, poll, history>>

OnJobCompleteFails(o) ==
    /\ o \in inflight
    /\ UNCHANGED manager
    /\ fails < MaxFails
    /\ fails' = fails + 1
    /\ DeliveryEnds(o, IF IsDeliverySuppressed(Id(o)) THEN deliveries
                       ELSE Append(deliveries, [job |-> o, attempt |-> fails + 1, due |-> FALSE]))
    /\ UNCHANGED <<poll, yq, history>>

-----------------------------------------------------------------------------
(* The tools that return results themselves.                               *)

(* What getJob says of a tracked job now, or the job when its id is gone.  *)
Latest(o) == IF jobs[Id(o)] # None THEN jobs[Id(o)] ELSE o

(* #buildResult returns what it knows of the tracked jobs S and            *)
(* acknowledges the ones that are over; status is the table's status.      *)
BuildResult(S, status) ==
    LET over == {o \in {Latest(t) : t \in S} : status[o].status # "running"}
    IN  /\ AcknowledgeDeliveries(IdsOf(over))
        /\ toolTold' = toolTold \cup over

(* `list`, or `poll` with ids of jobs that are all over.                   *)
Inspect(S) ==
    /\ S # {} /\ \A o \in S : jobs[Id(o)] = o
    /\ S = {o \in Jobs : jobs[Id(o)] = o} \/ S \cap Running = {}
    /\ UNCHANGED watched
    /\ BuildResult(S, job)
    /\ UNCHANGED <<job, jobs, timers, fails, poll, yq, injected, evicted>>

CancelJob(o) ==
    /\ o \in Running
    /\ job' = Cancelled({o})
    /\ ScheduleEviction({Id(o)})
    /\ UNCHANGED watched
    /\ BuildResult({o}, job')
    /\ UNCHANGED <<jobs, fails, poll, yq, injected, evicted>>

(* `poll` with at least one running job: those are watched.                *)
PollStarts(S) ==
    /\ Len(poll) < P
    /\ S \cap Running # {} /\ \A o \in S : jobs[Id(o)] = o
    /\ watched' = watched \cup IdsOf(S \cap Running)
    /\ poll' = Append(poll, [tracked |-> S, watching |-> S \cap Running])
    /\ UNCHANGED <<job, jobs, suppressed, timers, delivery, fails, yq, history>>

(* A watched job is over, the window has elapsed or the call is aborted.   *)
PollEnds(p) ==
    /\ p \in DOMAIN poll
    /\ watched' = watched \ IdsOf(poll[p].watching)
    /\ poll' = RemoveAt(poll, p)
    /\ BuildResult(poll[p].tracked, job)
    /\ UNCHANGED <<job, jobs, timers, fails, yq, injected, evicted>>

(* The foreground wait of a bash call is a race of the command, the        *)
(* threshold and an abort; what follows the race is a step of its own.     *)
WaitCompletes(o) ==
    /\ job[o].wait = "waiting"
    /\ job[o].run # "live"
    /\ job' = [job EXCEPT ![o].wait = "returned"]
    /\ toolTold' = toolTold \cup {o}
    /\ UNCHANGED <<jobs, suppressed, watched, timers, delivery, fails, poll, yq,
                   injected, evicted>>

(* The threshold is a minute: a call of onJobComplete for an earlier job   *)
(* with the same id is over by then.                                       *)
WaitLoses(o, reason) ==
    /\ job[o].wait = "waiting"
    /\ job[o].run = "live"
    /\ reason = "threshold" => Id(o) \notin IdsOf(inflight)
    /\ job' = [job EXCEPT ![o].wait = reason]
    /\ UNCHANGED <<jobs, suppressed, watched, timers, delivery, fails, poll, yq, history>>

\* A mutant of ResumeDeliveries: a job that finished while suppressed is not delivered.
ResumeWithoutResult(o) == suppressed' = suppressed \ {Id(o)} /\ UNCHANGED delivery

(* resumeDeliveries: the job goes on in the background; if it finished     *)
(* since the threshold, its result is queued now.                          *)
ResumeDeliveries(o) ==
    LET i == Id(o)
        j == jobs[i]
        queued == i \in IdsOf(inflight) \/ \E k \in DOMAIN deliveries : Id(deliveries[k].job) = i
    IN  /\ suppressed' = suppressed \ {i}
        /\ IF i \in suppressed /\ j # None /\ job[j].status = "done" /\ ~queued /\ i \notin watched
           THEN EnsureDeliveryLoop(Append(deliveries, [job |-> j, attempt |-> 0, due |-> TRUE]),
                                   inflight)
           ELSE UNCHANGED delivery

Background(o) ==
    /\ job[o].wait = "threshold"
    /\ job' = [job EXCEPT ![o].wait = "background"]
    /\ UNCHANGED watched
    /\ ResumeDeliveries(o)
    /\ UNCHANGED <<jobs, timers, fails, poll, yq, history>>

AbortForeground(o) ==
    LET target == {j \in Running : j = jobs[Id(o)]}
    IN  /\ job[o].wait = "abort"
        /\ job' = [Cancelled(target) EXCEPT ![o].wait = "aborted"]
        /\ ScheduleEviction(IdsOf(target))
        /\ UNCHANGED <<jobs, suppressed, watched, delivery, fails, poll, yq, history>>

-----------------------------------------------------------------------------
(* The session.                                                            *)

\* A mutant of Survivors: staleness is not looked at.
SurvivorsUnchecked == ToSet(yq)

(* Entries that are not stale when the queue is drained.                   *)
Survivors == {o \in ToSet(yq) : ~IsDeliverySuppressed(Id(o))}

Drain ==
    /\ yq # <<>>
    /\ yq' = <<>>
    /\ injected' = injected \cup Survivors
    /\ UNCHANGED <<manager, delivery, fails, poll, toolTold, evicted>>

-----------------------------------------------------------------------------

ManagerStep ==
    \/ \E o \in Jobs :
          \/ \E foreground \in BOOLEAN : Register(o, foreground)
          \/ CommandEnds(o) \/ JobSettles(o)
          \/ OnJobCompleteFails(o)
          \/ CancelJob(o)
          \/ WaitCompletes(o) \/ Background(o) \/ AbortForeground(o)
          \/ \E reason \in {"threshold", "abort"} : WaitLoses(o, reason)
    \/ CancelAll
    \/ \E i \in Ids : Evict(i)
    \/ \E k \in Jobs : BackoffElapses(k) \/ DrainTakes(k)
    \/ LoopWakes \/ LoopResumes \/ LoopFinally
    \/ \E S \in SUBSET Jobs : Inspect(S) \/ PollStarts(S)
    \/ \E p \in 1 .. P : PollEnds(p)

Next == ManagerStep \/ (\E o \in Jobs : OnJobComplete(o)) \/ Drain

Spec == Init /\ [][Next]_vars

(* Steps the runtime owes: a promise that is ready is resumed, a timer     *)
(* fires, a callback returns or fails.  A behaviour has finitely many of   *)
(* them, so weak fairness of the disjunction is weak fairness of each.     *)
RuntimeStep ==
    \/ \E o \in Jobs :
          \/ job[o].run = "over" /\ JobSettles(o)
          \/ OnJobCompleteFails(o)
          \/ WaitCompletes(o) \/ WaitLoses(o, "threshold") \/ Background(o) \/ AbortForeground(o)
    \/ \E k \in Jobs : BackoffElapses(k)
    \/ LoopWakes \/ LoopResumes \/ LoopFinally

(* A command may run for ever.                                             *)
FairSpec ==
    /\ Spec
    /\ WF_vars(RuntimeStep)
    /\ WF_vars(\E o \in Jobs : OnJobComplete(o))
    /\ \A p \in 1 .. P : WF_vars(PollEnds(p))

-----------------------------------------------------------------------------
(* Properties.                                                             *)

(* Every variable has its type.                                            *)
TypeOK ==
    /\ job \in [Jobs -> [status : {"unborn", "running", "done", "cancelled"}, id : Ids,
                         run : {"live", "over", "settled"},
                         wait : {"none", "waiting", "threshold", "abort",
                                 "returned", "background", "aborted"}]]
    /\ jobs \in [Ids -> Jobs \cup {None}]
    /\ suppressed \subseteq Ids /\ watched \subseteq Ids /\ timers \subseteq Ids
    /\ deliveries \in Seq([job : Jobs, attempt : 0 .. MaxFails, due : BOOLEAN])
    /\ inflight \subseteq Jobs
    /\ loop.at \in {"off", "sleep", "deliver", "ended"}
    /\ fails \in 0 .. MaxFails
    /\ poll \in Seq([tracked : SUBSET Jobs, watching : SUBSET Jobs])
    /\ yq \in Seq(Jobs)
    /\ toolTold \subseteq Jobs /\ injected \subseteq Jobs /\ evicted \subseteq Jobs

Queued(o) == \E k \in DOMAIN deliveries : deliveries[k].job = o

(* A queued delivery always has a loop that will come to it: pushing while *)
(* the loop is on its way out, or from a drain's failed attempt, never     *)
(* leaves the queue without one.                                           *)
LoopAlive == deliveries # <<>> => loop.at # "off"

(* A result is in one place at most: the delivery queue, in flight, the    *)
(* yield queue, or the conversation.  So neither a retry nor the scoped    *)
(* drain beside the loop nor a resumed delivery injects it twice.          *)
OneCopy ==
    \A o \in Jobs :
        Cardinality({<<"queue", k>> : k \in {d \in DOMAIN deliveries : deliveries[d].job = o}}
                    \cup {<<"yield", k>> : k \in {e \in DOMAIN yq : yq[e] = o}}
                    \cup {<<"flight", 0>> : x \in inflight \cap {o}}
                    \cup {<<"told", 0>> : x \in injected \cap {o}}) <= 1

(* Deliveries neither strand in the queue nor multiply, whatever the loop, a *)
(* drain, a resumption and the reuse of ids do at the same time.             *)
JobInv == TypeOK /\ LoopAlive /\ OneCopy

(* Somebody still has the result of o and will hand it on.                 *)
Held(o) ==
    \/ (Queued(o) \/ o \in inflight \cup ToSet(yq)) /\ ~IsDeliverySuppressed(Id(o))
    \/ \E p \in DOMAIN poll : o \in poll[p].tracked
    \/ job[o].wait \in {"waiting", "threshold"}

(* Within the retention window the result of a finished job is never       *)
(* dropped: suppressing it is always somebody's promise to return it.      *)
ResultKept ==
    \A o \in Jobs :
        job[o].status = "done" /\ o \notin evicted /\ job[o].wait \notin {"abort", "aborted"}
            => o \in toolTold \cup injected \/ Held(o)

(* Within the retention window a result that a tool call has returned is   *)
(* not injected afterwards, wherever it was staged when the call           *)
(* acknowledged it.  A bash call put in the background is the exception:   *)
(* resumeDeliveries lifts an acknowledgement another call made.            *)
NoEcho ==
    [][\A o \in injected' \ injected :
          o \notin toolTold \/ o \in evicted \/ job[o].wait = "background"]_vars

(* The manager's side of delivery: the result of every finished job        *)
(* reaches the yield queue or a tool result, whatever fails on the way.    *)
ReachesSession ==
    \A o \in Jobs :
        job[o].status = "done" ~>
            \/ o \in toolTold \cup injected \cup ToSet(yq) \cup evicted
            \/ job[o].wait = "aborted"

=============================================================================
