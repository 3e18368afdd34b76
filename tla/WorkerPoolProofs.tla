-------------------------- MODULE WorkerPoolProofs --------------------------
(***************************************************************************)
(* TLAPS proofs about WorkerPool, for every set of deliveries, issue keys  *)
(* and slots and every retry limit: PoolInv is inductive, one lemma per    *)
(* part and one step per action, and the safety properties follow.         *)
(***************************************************************************)
EXTENDS WorkerPool, TLAPS

-----------------------------------------------------------------------------
(* The operations on a row. *)

(* What each operation on a row keeps and sets. *)
LEMMA RowOps ==
    ASSUME NEW r \in Row
    PROVE  /\ Claimed(r) \in Row /\ Claimed(r).state = "running"
           /\ Claimed(r).attempts = Bump(r.attempts)
           /\ Requeued(r) \in Row /\ Requeued(r).state = "queued"
           /\ Requeued(r).attempts = r.attempts
           /\ Retried(r) \in Row /\ Retried(r).state = "queued"
           /\ Retried(r).attempts = r.attempts
           /\ [r EXCEPT !.next = "due"] \in Row
<1>1. r.attempts \in 0..AttemptCap /\ Bump(r.attempts) \in 0..AttemptCap
  BY PoolAssumption DEF Row, Bump
<1>2. Claimed(r) = [r EXCEPT !.state = "running", !.attempts = Bump(r.attempts)]
  BY DEF Claimed
<1> QED
  BY <1>1, <1>2 DEF Row, Requeued, Retried

(* Marking a row sets its state and leaves its attempts alone. *)
LEMMA MarkedRow ==
    ASSUME NEW r \in Row, NEW state \in {"done", "failed"}, NEW why \in {"none", "operator", "error"}
    PROVE  /\ Marked(r, state, why) \in Row /\ Marked(r, state, why).state = state
           /\ Marked(r, state, why).why = why /\ Marked(r, state, why).attempts = r.attempts
BY DEF Row, Marked

(* A new row has made no attempt. *)
LEMMA NewRow ==
    ASSUME NEW state \in {"queued", "skipped"}
    PROVE  /\ [NoRow EXCEPT !.state = state] \in Row
           /\ [NoRow EXCEPT !.state = state].state = state
           /\ [NoRow EXCEPT !.state = state].attempts = 0
BY PoolAssumption DEF Row, NoRow

(* A failed run's row stays as it is, is failed, or is queued again while    *)
(* attempts are left.                                                        *)
LEMMA FailedRowCases ==
    ASSUME NEW d \in Deliveries, row \in [Deliveries -> Row]
    PROVE  /\ FailedRow(d) \in Row /\ FailedRow(d).attempts = row[d].attempts
           /\ \/ d \in shut /\ FailedRow(d) = row[d]
              \/ d \notin shut /\ d \in cancelled /\ FailedRow(d).state = "failed"
                 /\ FailedRow(d).why = "operator"
              \/ d \notin shut /\ d \notin cancelled /\ FailedRow(d).state = "queued"
                 /\ row[d].attempts <= MaxRetries
              \/ d \notin shut /\ d \notin cancelled /\ FailedRow(d).state = "failed"
BY RowOps, MarkedRow DEF FailedRow, MayRetry

-----------------------------------------------------------------------------
(* PoolInv is inductive. *)

(* Every step keeps the variables in their types. *)
LEMMA TypeStep == PoolInv /\ [Next]_vars => TypeOK'
<1> USE PoolAssumption
<1> SUFFICES ASSUME PoolInv, [Next]_vars PROVE TypeOK'
  OBVIOUS
<1> USE DEF PoolInv, TypeOK, Phases, Places
<1>1. ASSUME NEW d \in Deliveries, NEW state \in {"queued", "skipped"}, Webhook(d, state)
     PROVE TypeOK'
  <2>1. row' \in [Deliveries -> Row]
    BY <1>1, NewRow DEF Webhook, Insert
  <2> QED
    BY <1>1, <2>1 DEF Webhook, Insert, clock, volatile, history
<1>2. ASSUME NEW d \in Deliveries, NEW wakes \in BOOLEAN, Replay(d, wakes) PROVE TypeOK'
  <2>1. row' \in [Deliveries -> Row]
    BY <1>2, RowOps DEF Replay
  <2> QED
    BY <1>2, <2>1 DEF Replay, Operator, clock, volatile, history
<1>3. ASSUME NEW d \in Deliveries, NEW wakes \in BOOLEAN, ManualTriage(d, wakes)
     PROVE TypeOK'
  <2>1. row' \in [Deliveries -> Row]
    BY <1>3, NewRow DEF ManualTriage, Insert
  <2> QED
    BY <1>3, <2>1 DEF ManualTriage, Insert, Operator, clock, volatile, history
<1>4. ASSUME NEW d \in Deliveries, CancelEvent(d) PROVE TypeOK'
  BY <1>4 DEF CancelEvent, Operator, clock, volatile, history
<1>5. ASSUME NEW d \in Deliveries, Claim(d) PROVE TypeOK'
  <2>1. row' \in [Deliveries -> Row]
    BY <1>5, RowOps DEF Claim
  <2> QED
    BY <1>5, <2>1 DEF Claim, DispatcherAt, clock, volatile, history
<1>6. CASE ClaimNothing
  BY <1>6 DEF ClaimNothing, DispatcherAt, clock, volatile, history
<1>7. CASE PutBack
  <2>1. row' \in [Deliveries -> Row]
    BY <1>7, RowOps DEF PutBack
  <2> QED
    BY <1>7, <2>1 DEF PutBack, DispatcherAt, clock, volatile, history
<1>8. CASE Dispatch
  <2>1. disp.d \in Deliveries /\ Key(disp.d) \in Keys
    BY <1>8 DEF Dispatch, Key
  <2> QED
    BY <1>8, <2>1 DEF Dispatch, DispatcherAt, clock, volatile, history
<1>9. CASE ClearWakeup
  BY <1>9 DEF ClearWakeup, DispatcherAt, clock, volatile, history
<1>10. CASE WakeUp
  BY <1>10 DEF WakeUp, DispatcherAt, clock, volatile, history
<1>11. CASE ClaimRaises
  BY <1>11 DEF ClaimRaises, DispatcherAt, clock, volatile, history
<1>12. ASSUME NEW d \in Deliveries, NEW s \in Slots, Acquire(d, s) PROVE TypeOK'
  BY <1>12 DEF Acquire, LoopRuns, clock, volatile, history
<1>13. ASSUME NEW d \in Deliveries, ArmTest(d) PROVE TypeOK'
  BY <1>13 DEF ArmTest, clock, volatile, history
<1>14. ASSUME NEW d \in Deliveries, ArmInstall(d) PROVE TypeOK'
  BY <1>14 DEF ArmInstall, clock, volatile, history
<1>15. ASSUME NEW d \in Deliveries, NEW outcome \in {"ok", "err"}, ThreadEnds(d, outcome)
     PROVE TypeOK'
  BY <1>15 DEF ThreadEnds, clock, volatile, history
<1>16. ASSUME NEW d \in Deliveries, Succeeds(d) PROVE TypeOK'
  <2>1. row' \in [Deliveries -> Row]
    BY <1>16, MarkedRow DEF Succeeds
  <2> QED
    BY <1>16, <2>1 DEF Succeeds, Finally, clock, volatile, history
<1>17. ASSUME NEW d \in Deliveries, Fails(d) PROVE TypeOK'
  <2>1. row' \in [Deliveries -> Row]
    BY <1>17, FailedRowCases DEF Fails
  <2> QED
    BY <1>17, <2>1 DEF Fails, Finally, clock, volatile, history
<1>18. ASSUME NEW d \in Deliveries, Release(d) PROVE TypeOK'
  BY <1>18 DEF Release, LoopRuns, clock, volatile, history
<1>19. ASSUME NEW d \in Deliveries, BackoffElapses(d) PROVE TypeOK'
  <2>1. row' \in [Deliveries -> Row]
    BY <1>19, RowOps DEF BackoffElapses
  <2> QED
    BY <1>19, <2>1 DEF BackoffElapses, clock, volatile, history
<1>20. CASE Start
  <2>1. row' \in [Deliveries -> Row]
    BY <1>20, RowOps DEF Start
  <2> QED
    BY <1>20, <2>1 DEF Start, DispatcherAt, clock, volatile, history
<1>21. CASE Stop
  BY <1>21 DEF Stop, DispatcherAt, clock, volatile, history
<1>22. CASE Drained
  BY <1>22 DEF Drained, clock, volatile, history
<1>23. CASE DrainTimeout
  BY <1>23 DEF DrainTimeout, clock, volatile, history
<1>24. CASE HookReturns
  BY <1>24 DEF HookReturns, clock, volatile, history
<1>25. CASE AllInterrupted
  BY <1>25 DEF AllInterrupted, clock, volatile, history
<1>26. CASE Stopped
  BY <1>26 DEF Stopped, clock, volatile, history
<1>27. ASSUME NEW d \in Deliveries, Interrupt(d) PROVE TypeOK'
  BY <1>27 DEF Interrupt, clock, volatile, history
<1>28. ASSUME NEW d \in Deliveries, CancelTask(d) PROVE TypeOK'
  BY <1>28 DEF CancelTask, Finally, clock, volatile, history
<1>29. ASSUME NEW d \in Deliveries, AlreadyDone(d) PROVE TypeOK'
  BY <1>29 DEF AlreadyDone, clock, volatile, history
<1>30. CASE Down
  <2>1. restarts' \in 0..MaxRestarts
    BY <1>30 DEF Down, PhaseInv
  <2> QED
    BY <1>30, <2>1 DEF Down, DispatcherAt, clock, volatile, history
<1>31. CASE UNCHANGED vars
  BY <1>31 DEF vars, clock, volatile, history
<1> QED
  BY <1>1, <1>2, <1>3, <1>4, <1>5, <1>6, <1>7, <1>8, <1>9, <1>10, <1>11, <1>12,
     <1>13, <1>14, <1>15, <1>16, <1>17, <1>18, <1>19, <1>20, <1>21, <1>22, <1>23,
     <1>24, <1>25, <1>26, <1>27, <1>28, <1>29, <1>30, <1>31
     DEF Next, Endpoints, Dispatcher, RunEvent, Shutdown

(* The phase of the process is kept in step with the dispatcher, the tasks   *)
(* and the interrupted set.                                                  *)
LEMMA PhaseInvStep == PoolInv /\ TypeOK' /\ [Next]_vars => PhaseInv'
<1> USE PoolAssumption
<1> SUFFICES ASSUME PoolInv, TypeOK', [Next]_vars PROVE PhaseInv'
  OBVIOUS
<1> USE DEF PoolInv, TypeOK, PhaseInv
<1>1. ASSUME NEW d \in Deliveries, Claim(d) PROVE PhaseInv'
  BY <1>1 DEF Claim, DispatcherAt, Claimed, Bump, IsNext, Unblocked, clock,
     volatile, history
<1>2. CASE ClaimNothing
  BY <1>2 DEF ClaimNothing, DispatcherAt, clock, volatile, history
<1>3. CASE PutBack
  BY <1>3 DEF PutBack, DispatcherAt, Requeued, Busy, clock, volatile, history
<1>4. CASE Dispatch
  BY <1>4 DEF Dispatch, DispatcherAt, Busy, clock, volatile, history
<1>5. CASE ClearWakeup
  BY <1>5 DEF ClearWakeup, DispatcherAt, clock, volatile, history
<1>6. CASE WakeUp
  BY <1>6 DEF WakeUp, DispatcherAt, clock, volatile, history
<1>7. CASE ClaimRaises
  BY <1>7 DEF ClaimRaises, DispatcherAt, clock, volatile, history
<1>8. ASSUME NEW d \in Deliveries, NEW s \in Slots, Acquire(d, s) PROVE PhaseInv'
  BY <1>8 DEF Acquire, LoopRuns, clock, volatile, history
<1>9. ASSUME NEW d \in Deliveries, ArmTest(d) PROVE PhaseInv'
  BY <1>9 DEF ArmTest, clock, volatile, history
<1>10. ASSUME NEW d \in Deliveries, ArmInstall(d) PROVE PhaseInv'
  BY <1>10 DEF ArmInstall, clock, volatile, history
<1>11. ASSUME NEW d \in Deliveries, NEW outcome \in {"ok", "err"}, ThreadEnds(d, outcome)
     PROVE PhaseInv'
  BY <1>11 DEF ThreadEnds, clock, volatile, history
<1>12. ASSUME NEW d \in Deliveries, Succeeds(d) PROVE PhaseInv'
  BY <1>12 DEF Succeeds, Finally, Marked, LoopRuns, clock, volatile, history
<1>13. ASSUME NEW d \in Deliveries, Fails(d) PROVE PhaseInv'
  BY <1>13 DEF Fails, Finally, FailedRow, Marked, Retried, MayRetry, LoopRuns,
     clock, volatile, history
<1>14. ASSUME NEW d \in Deliveries, Release(d) PROVE PhaseInv'
  BY <1>14 DEF Release, LoopRuns, clock, volatile, history
<1>15. CASE Start
  BY <1>15 DEF Start, DispatcherAt, Requeued, clock, volatile, history
<1>16. CASE Stop
  BY <1>16 DEF Stop, DispatcherAt, clock, volatile, history
<1>17. CASE Drained
  BY <1>17 DEF Drained, clock, volatile, history
<1>18. CASE DrainTimeout
  BY <1>18 DEF DrainTimeout, clock, volatile, history
<1>19. CASE HookReturns
  BY <1>19 DEF HookReturns, clock, volatile, history
<1>20. CASE AllInterrupted
  BY <1>20 DEF AllInterrupted, clock, volatile, history
<1>21. CASE Stopped
  BY <1>21 DEF Stopped, clock, volatile, history
<1>22. ASSUME NEW d \in Deliveries, Interrupt(d) PROVE PhaseInv'
  BY <1>22 DEF Interrupt, clock, volatile, history
<1>23. ASSUME NEW d \in Deliveries, CancelTask(d) PROVE PhaseInv'
  BY <1>23 DEF CancelTask, Finally, clock, volatile, history
<1>24. CASE Down
  BY <1>24 DEF Down, DispatcherAt, clock, volatile, history
<1>25. CASE UNCHANGED <<disp, pool, task, thread, shut, restarts>>
  BY <1>25
<1>26. ASSUME
     \/ (\E d \in Deliveries : CancelEvent(d) \/ BackoffElapses(d) \/ AlreadyDone(d))
     \/ (\E d \in Deliveries, state \in {"queued", "skipped"} : Webhook(d, state))
     \/ (\E d \in Deliveries, wakes \in BOOLEAN : Replay(d, wakes))
     \/ (\E d \in Deliveries, wakes \in BOOLEAN : ManualTriage(d, wakes))
     \/ UNCHANGED vars
     PROVE UNCHANGED <<disp, pool, task, thread, shut, restarts>>
  BY <1>26 DEF Webhook, Replay, Inactive, ManualTriage, CancelEvent, BackoffElapses,
     AlreadyDone, Insert, vars, clock, volatile, history
<1> QED
  BY <1>1, <1>2, <1>3, <1>4, <1>5, <1>6, <1>7, <1>8, <1>9, <1>10, <1>11, <1>12,
     <1>13, <1>14, <1>15, <1>16, <1>17, <1>18, <1>19, <1>20, <1>21, <1>22, <1>23,
     <1>24, <1>25, <1>26
     DEF Next, Endpoints, Dispatcher, RunEvent, Shutdown

(* Only Dispatch creates a task, for a key that is not in flight; the finally *)
(* block and Release give row and key up in that order.                       *)
LEMMA TaskInvStep == PoolInv /\ TypeOK' /\ [Next]_vars => TaskInv'
<1> USE PoolAssumption
<1> SUFFICES ASSUME PoolInv, TypeOK', [Next]_vars PROVE TaskInv'
  OBVIOUS
<1> USE DEF PoolInv, TypeOK, TaskInv, Active, SameKey
<1>1. ASSUME NEW d \in Deliveries, NEW state \in {"queued", "skipped"}, Webhook(d, state)
     PROVE TaskInv'
  BY <1>1 DEF Webhook, Insert, Fresh, clock, volatile, history
<1>2. ASSUME NEW d \in Deliveries, NEW wakes \in BOOLEAN, Replay(d, wakes) PROVE TaskInv'
  BY <1>2 DEF Replay, Operator, Requeued, Inactive, clock, volatile, history
<1>3. ASSUME NEW d \in Deliveries, NEW wakes \in BOOLEAN, ManualTriage(d, wakes)
     PROVE TaskInv'
  BY <1>3 DEF ManualTriage, Operator, Insert, Inactive, clock, volatile, history
<1>4. ASSUME NEW d \in Deliveries, Claim(d) PROVE TaskInv'
  BY <1>4 DEF Claim, DispatcherAt, Claimed, Bump, IsNext, Unblocked, clock,
     volatile, history
<1>5. CASE ClaimNothing
  BY <1>5 DEF ClaimNothing, DispatcherAt, clock, volatile, history
<1>6. CASE PutBack
  BY <1>6 DEF PutBack, DispatcherAt, Requeued, Busy, clock, volatile, history
<1>7. CASE Dispatch
  BY <1>7 DEF Dispatch, DispatcherAt, Busy, clock, volatile, history
<1>8. CASE ClearWakeup
  BY <1>8 DEF ClearWakeup, DispatcherAt, clock, volatile, history
<1>9. CASE WakeUp
  BY <1>9 DEF WakeUp, DispatcherAt, clock, volatile, history
<1>10. CASE ClaimRaises
  BY <1>10 DEF ClaimRaises, DispatcherAt, clock, volatile, history
<1>11. ASSUME NEW d \in Deliveries, NEW s \in Slots, Acquire(d, s) PROVE TaskInv'
  BY <1>11 DEF Acquire, LoopRuns, clock, volatile, history
<1>12. ASSUME NEW d \in Deliveries, Succeeds(d) PROVE TaskInv'
  BY <1>12 DEF Succeeds, Finally, Marked, LoopRuns, clock, volatile, history
<1>13. ASSUME NEW d \in Deliveries, Fails(d) PROVE TaskInv'
  BY <1>13 DEF Fails, Finally, FailedRow, Marked, Retried, MayRetry, LoopRuns,
     clock, volatile, history
<1>14. ASSUME NEW d \in Deliveries, Release(d) PROVE TaskInv'
  BY <1>14 DEF Release, LoopRuns, clock, volatile, history
<1>15. ASSUME NEW d \in Deliveries, BackoffElapses(d) PROVE TaskInv'
  BY <1>15 DEF BackoffElapses, clock, volatile, history
<1>16. CASE Start
  <2>1. \A d \in Deliveries : task'[d] = "none"
    BY <1>16 DEF Start, PhaseInv, volatile
  <2> QED
    BY <1>16, <2>1 DEF Start, DispatcherAt, clock, volatile, history
<1>17. CASE Stop
  BY <1>17 DEF Stop, DispatcherAt, clock, volatile, history
<1>18. ASSUME NEW d \in Deliveries, CancelTask(d) PROVE TaskInv'
  BY <1>18 DEF CancelTask, Finally, clock, volatile, history
<1>19. CASE Down
  BY <1>19 DEF Down, DispatcherAt, clock, volatile, history
<1>20. CASE UNCHANGED <<task, inflight, row, disp>>
  BY <1>20
<1>21. ASSUME
     \/ (\E d \in Deliveries : CancelEvent(d) \/ ArmTest(d) \/ ArmInstall(d) \/ Interrupt(d) \/ AlreadyDone(d))
     \/ (\E d \in Deliveries, outcome \in {"ok", "err"} : ThreadEnds(d, outcome))
     \/ Drained \/ DrainTimeout \/ HookReturns \/ AllInterrupted \/ Stopped
     \/ UNCHANGED vars
     PROVE UNCHANGED <<task, inflight, row, disp>>
  BY <1>21 DEF CancelEvent, ArmTest, ArmInstall, ThreadEnds, Drained, DrainTimeout,
     HookReturns, AllInterrupted, Stopped, Interrupt, AlreadyDone, vars, clock,
     volatile, history
<1> QED
  BY <1>1, <1>2, <1>3, <1>4, <1>5, <1>6, <1>7, <1>8, <1>9, <1>10, <1>11, <1>12,
     <1>13, <1>14, <1>15, <1>16, <1>17, <1>18, <1>19, <1>20, <1>21
     DEF Next, Endpoints, Dispatcher, RunEvent, Shutdown

(* A thread starts with its task running and can outlive it only once        *)
(* stop() has retired the dispatcher.                                        *)
LEMMA ThreadInvStep == PoolInv /\ TypeOK' /\ [Next]_vars => ThreadInv'
<1> USE PoolAssumption
<1> SUFFICES ASSUME PoolInv, TypeOK', [Next]_vars PROVE ThreadInv'
  OBVIOUS
<1> USE DEF PoolInv, TypeOK, ThreadInv, Abandoned, SameKey
<1>1. CASE Dispatch
  <2>1. disp.d \in Deliveries /\ pool = "up"
    BY <1>1 DEF Dispatch, PhaseInv
  <2>2. ~Active(disp.d) /\ task[disp.d] # "running"
    BY <1>1 DEF Dispatch, TaskInv, Active
  <2> QED
    BY <1>1, <2>1, <2>2 DEF Dispatch, clock, volatile, history
<1>2. ASSUME NEW d \in Deliveries, NEW s \in Slots, Acquire(d, s) PROVE ThreadInv'
  <2>1. \A e \in Deliveries : SameKey(d, e) /\ task[e] # "none" => e = d
    BY <1>2 DEF Acquire, TaskInv
  <2>2. \A e \in Deliveries : SameKey(d, e) => thread[e] = "none"
    BY <1>2, <2>1 DEF Acquire
  <2> QED
    BY <1>2, <2>1, <2>2 DEF Acquire, clock, volatile, history
<1>3. ASSUME NEW d \in Deliveries, ArmTest(d) PROVE ThreadInv'
  BY <1>3 DEF ArmTest, clock, volatile, history
<1>4. ASSUME NEW d \in Deliveries, ArmInstall(d) PROVE ThreadInv'
  BY <1>4 DEF ArmInstall, clock, volatile, history
<1>5. ASSUME NEW d \in Deliveries, NEW outcome \in {"ok", "err"}, ThreadEnds(d, outcome)
     PROVE ThreadInv'
  BY <1>5 DEF ThreadEnds, clock, volatile, history
<1>6. ASSUME NEW d \in Deliveries, Succeeds(d) PROVE ThreadInv'
  BY <1>6 DEF Succeeds, Finally, Marked, LoopRuns, clock, volatile, history
<1>7. ASSUME NEW d \in Deliveries, Fails(d) PROVE ThreadInv'
  BY <1>7 DEF Fails, Finally, FailedRow, Marked, Retried, MayRetry, LoopRuns, clock,
     volatile, history
<1>8. ASSUME NEW d \in Deliveries, Release(d) PROVE ThreadInv'
  BY <1>8 DEF Release, LoopRuns, clock, volatile, history
<1>9. CASE Start
  BY <1>9 DEF Start, DispatcherAt, Requeued, clock, volatile, history
<1>10. CASE Stop
  BY <1>10 DEF Stop, DispatcherAt, clock, volatile, history
<1>11. CASE Drained
  BY <1>11 DEF Drained, clock, volatile, history
<1>12. CASE DrainTimeout
  BY <1>12 DEF DrainTimeout, clock, volatile, history
<1>13. CASE HookReturns
  BY <1>13 DEF HookReturns, clock, volatile, history
<1>14. CASE AllInterrupted
  BY <1>14 DEF AllInterrupted, clock, volatile, history
<1>15. CASE Stopped
  BY <1>15 DEF Stopped, clock, volatile, history
<1>16. ASSUME NEW d \in Deliveries, Interrupt(d) PROVE ThreadInv'
  BY <1>16 DEF Interrupt, clock, volatile, history
<1>17. ASSUME NEW d \in Deliveries, CancelTask(d) PROVE ThreadInv'
  <2>1. \A e \in Deliveries : SameKey(d, e) /\ task[e] # "none" => e = d
    BY <1>17 DEF CancelTask, TaskInv
  <2>2. /\ task' \in [Deliveries -> {"none", "slot", "running", "releasing"}]
        /\ task[d] # "none" /\ task'[d] \in {"none", "releasing"}
        /\ \A e \in Deliveries : e # d => task'[e] = task[e]
    BY <1>17 DEF CancelTask, Finally
  <2>3. /\ \A e \in Deliveries : e # d => thread'[e] = thread[e]
        /\ thread'[d] \in {"none", thread[d]}
        /\ thread'[d] \notin {"ok", "err"}
    BY <1>17 DEF CancelTask, Finally
  <2>4. pool = "killing" /\ pool' = "killing"
    BY <1>17 DEF CancelTask
  <2>5. \A e \in Deliveries : thread'[e] # "none" => thread[e] # "none"
    BY <2>3
  <2>6. Abandoned(d)'
    BY <2>1, <2>2, <2>3, <2>4
  <2>7. ASSUME NEW e \in Deliveries, e # d, Abandoned(e) PROVE Abandoned(e)'
    BY <2>2, <2>3, <2>4, <2>7
  <2> QED
    BY <2>2, <2>3, <2>5, <2>6, <2>7
<1>18. CASE Down
  BY <1>18 DEF Down, DispatcherAt, clock, volatile, history
<1>19. CASE UNCHANGED <<pool, task, thread>>
  BY <1>19
<1>20. ASSUME
     \/ (\E d \in Deliveries : CancelEvent(d) \/ Claim(d) \/ BackoffElapses(d) \/ AlreadyDone(d))
     \/ (\E d \in Deliveries, state \in {"queued", "skipped"} : Webhook(d, state))
     \/ (\E d \in Deliveries, wakes \in BOOLEAN : Replay(d, wakes))
     \/ (\E d \in Deliveries, wakes \in BOOLEAN : ManualTriage(d, wakes))
     \/ ClaimNothing \/ PutBack \/ ClearWakeup \/ WakeUp \/ ClaimRaises
     \/ UNCHANGED vars
     PROVE UNCHANGED <<pool, task, thread>>
  BY <1>20 DEF Webhook, Replay, Inactive, ManualTriage, CancelEvent, Claim,
     DispatcherAt, Bump, ClaimNothing, PutBack, ClearWakeup, WakeUp, ClaimRaises,
     BackoffElapses, AlreadyDone, Insert, vars, clock, volatile, history
<1> QED
  BY <1>1, <1>2, <1>3, <1>4, <1>5, <1>6, <1>7, <1>8, <1>9, <1>10, <1>11, <1>12,
     <1>13, <1>14, <1>15, <1>16, <1>17, <1>18, <1>19, <1>20
     DEF Next, Endpoints, Dispatcher, RunEvent, Shutdown

(* claim_next_event's WHERE clause admits no second 'running' row.           *)
LEMMA OneRunningRowStep == PoolInv /\ TypeOK' /\ [Next]_vars => OneRunningRow'
<1> USE PoolAssumption
<1> SUFFICES ASSUME PoolInv, TypeOK', [Next]_vars PROVE OneRunningRow'
  OBVIOUS
<1> USE DEF PoolInv, TypeOK, OneRunningRow
<1>1. ASSUME NEW d \in Deliveries, NEW state \in {"queued", "skipped"}, Webhook(d, state)
     PROVE OneRunningRow'
  BY <1>1 DEF Webhook, Insert, Fresh, clock, volatile, history
<1>2. ASSUME NEW d \in Deliveries, NEW wakes \in BOOLEAN, Replay(d, wakes)
     PROVE OneRunningRow'
  BY <1>2 DEF Replay, Operator, Requeued, Inactive, clock, volatile, history
<1>3. ASSUME NEW d \in Deliveries, NEW wakes \in BOOLEAN, ManualTriage(d, wakes)
     PROVE OneRunningRow'
  BY <1>3 DEF ManualTriage, Operator, Insert, Inactive, clock, volatile, history
<1>4. ASSUME NEW d \in Deliveries, Claim(d) PROVE OneRunningRow'
  BY <1>4 DEF Claim, DispatcherAt, Claimed, Bump, IsNext, Unblocked, clock,
     volatile, history
<1>5. CASE PutBack
  BY <1>5 DEF PutBack, DispatcherAt, Requeued, Busy, clock, volatile, history
<1>6. ASSUME NEW d \in Deliveries, Succeeds(d) PROVE OneRunningRow'
  BY <1>6 DEF Succeeds, Finally, Marked, LoopRuns, clock, volatile, history
<1>7. ASSUME NEW d \in Deliveries, Fails(d) PROVE OneRunningRow'
  BY <1>7 DEF Fails, Finally, FailedRow, Marked, Retried, MayRetry, LoopRuns, clock,
     volatile, history
<1>8. ASSUME NEW d \in Deliveries, BackoffElapses(d) PROVE OneRunningRow'
  BY <1>8 DEF BackoffElapses, clock, volatile, history
<1>9. CASE Start
  BY <1>9 DEF Start, DispatcherAt, Requeued, clock, volatile, history
<1>10. CASE UNCHANGED <<row>>
  BY <1>10
<1>11. ASSUME
     \/ (\E d \in Deliveries : CancelEvent(d) \/ ArmTest(d) \/ ArmInstall(d) \/ Release(d) \/ Interrupt(d) \/ CancelTask(d) \/ AlreadyDone(d))
     \/ ClaimNothing \/ Dispatch \/ ClearWakeup \/ WakeUp \/ ClaimRaises
     \/ (\E d \in Deliveries, s \in Slots : Acquire(d, s))
     \/ (\E d \in Deliveries, outcome \in {"ok", "err"} : ThreadEnds(d, outcome))
     \/ Stop \/ Drained \/ DrainTimeout \/ HookReturns \/ AllInterrupted
     \/ Stopped \/ Down \/ UNCHANGED vars
     PROVE UNCHANGED <<row>>
  BY <1>11 DEF CancelEvent, ClaimNothing, DispatcherAt, Dispatch, ClearWakeup,
     WakeUp, ClaimRaises, Acquire, LoopRuns, ArmTest, ArmInstall, ThreadEnds,
     Release, Stop, Drained, DrainTimeout, HookReturns, AllInterrupted, Stopped,
     Interrupt, CancelTask, Finally, AlreadyDone, Down, vars, clock, volatile,
     history
<1> QED
  BY <1>1, <1>2, <1>3, <1>4, <1>5, <1>6, <1>7, <1>8, <1>9, <1>10, <1>11
     DEF Next, Endpoints, Dispatcher, RunEvent, Shutdown

(* While the pool is up no step leaves a 'running' row without an owner.     *)
LEMMA OwnershipStep == PoolInv /\ TypeOK' /\ [Next]_vars => Ownership'
<1> USE PoolAssumption
<1> SUFFICES ASSUME PoolInv, TypeOK', [Next]_vars PROVE Ownership'
  OBVIOUS
<1> USE DEF PoolInv, TypeOK, Ownership, Active
<1>1. ASSUME NEW d \in Deliveries, NEW state \in {"queued", "skipped"}, Webhook(d, state)
     PROVE Ownership'
  BY <1>1 DEF Webhook, Insert, Fresh, clock, volatile, history
<1>2. ASSUME NEW d \in Deliveries, NEW wakes \in BOOLEAN, Replay(d, wakes)
     PROVE Ownership'
  BY <1>2 DEF Replay, Operator, Requeued, Inactive, clock, volatile, history
<1>3. ASSUME NEW d \in Deliveries, NEW wakes \in BOOLEAN, ManualTriage(d, wakes)
     PROVE Ownership'
  BY <1>3 DEF ManualTriage, Operator, Insert, Inactive, clock, volatile, history
<1>4. ASSUME NEW d \in Deliveries, Claim(d) PROVE Ownership'
  BY <1>4 DEF Claim, DispatcherAt, Claimed, Bump, IsNext, Unblocked, clock,
     volatile, history
<1>5. CASE ClaimNothing
  BY <1>5 DEF ClaimNothing, DispatcherAt, clock, volatile, history
<1>6. CASE PutBack
  <2>1. disp.d \in Deliveries /\ row[disp.d].state = "running" /\ ~Active(disp.d)
    BY <1>6 DEF PutBack, TaskInv
  <2>2. row'[disp.d] = Requeued(row[disp.d]) /\ row[disp.d] \in Row
    BY <1>6, <2>1 DEF PutBack
  <2>3. row'[disp.d].state = "queued"
    BY <2>2 DEF Requeued, Row
  <2> QED
    BY <1>6, <2>1, <2>3 DEF PutBack, DispatcherAt, clock, volatile, history
<1>7. CASE Dispatch
  BY <1>7 DEF Dispatch, DispatcherAt, Busy, clock, volatile, history
<1>8. CASE ClearWakeup
  BY <1>8 DEF ClearWakeup, DispatcherAt, clock, volatile, history
<1>9. CASE WakeUp
  BY <1>9 DEF WakeUp, DispatcherAt, clock, volatile, history
<1>10. CASE ClaimRaises
  BY <1>10 DEF ClaimRaises, DispatcherAt, clock, volatile, history
<1>11. ASSUME NEW d \in Deliveries, NEW s \in Slots, Acquire(d, s) PROVE Ownership'
  BY <1>11 DEF Acquire, LoopRuns, clock, volatile, history
<1>12. ASSUME NEW d \in Deliveries, Succeeds(d) PROVE Ownership'
  <2>1. row'[d].state \in {"done", "failed"}
    BY <1>12, MarkedRow DEF Succeeds
  <2> QED
    BY <1>12, <2>1 DEF Succeeds, Finally, TaskInv, clock, volatile, history
<1>13. ASSUME NEW d \in Deliveries, Fails(d) PROVE Ownership'
  <2>1. pool = "up" => row'[d].state \in {"queued", "failed"}
    BY <1>13, FailedRowCases DEF Fails, PhaseInv
  <2>2. row'[d] = FailedRow(d) /\ \A e \in Deliveries : e # d => row'[e] = row[e]
    BY <1>13 DEF Fails
  <2>3. Active(d) /\ ~Active(d)' /\ \A e \in Deliveries : e # d => Active(e)' = Active(e)
    BY <1>13 DEF Fails, Finally
  <2>4. UNCHANGED <<pool, disp>>
    BY <1>13 DEF Fails
  <2> QED
    BY <2>1, <2>2, <2>3, <2>4 DEF TaskInv
<1>14. ASSUME NEW d \in Deliveries, Release(d) PROVE Ownership'
  BY <1>14 DEF Release, LoopRuns, clock, volatile, history
<1>15. ASSUME NEW d \in Deliveries, BackoffElapses(d) PROVE Ownership'
  BY <1>15 DEF BackoffElapses, clock, volatile, history
<1>16. CASE Start
  <2>1. \A d \in Deliveries : task'[d] = "none"
    BY <1>16 DEF Start, PhaseInv, volatile
  <2>2. \A d \in Deliveries : row'[d].state # "running"
    BY <1>16, RowOps DEF Start
  <2> QED
    BY <1>16, <2>1, <2>2 DEF Start, DispatcherAt, clock, volatile, history
<1>17. CASE Stop
  BY <1>17 DEF Stop, DispatcherAt, clock, volatile, history
<1>18. CASE Drained
  BY <1>18 DEF Drained, clock, volatile, history
<1>19. CASE DrainTimeout
  BY <1>19 DEF DrainTimeout, clock, volatile, history
<1>20. CASE HookReturns
  BY <1>20 DEF HookReturns, clock, volatile, history
<1>21. CASE AllInterrupted
  BY <1>21 DEF AllInterrupted, clock, volatile, history
<1>22. CASE Stopped
  BY <1>22 DEF Stopped, clock, volatile, history
<1>23. ASSUME NEW d \in Deliveries, Interrupt(d) PROVE Ownership'
  BY <1>23 DEF Interrupt, clock, volatile, history
<1>24. ASSUME NEW d \in Deliveries, CancelTask(d) PROVE Ownership'
  BY <1>24 DEF CancelTask, Finally, clock, volatile, history
<1>25. CASE Down
  BY <1>25 DEF Down, DispatcherAt, clock, volatile, history
<1>26. CASE UNCHANGED <<pool, row, task, disp>>
  BY <1>26
<1>27. ASSUME
     \/ (\E d \in Deliveries : CancelEvent(d) \/ ArmTest(d) \/ ArmInstall(d) \/ AlreadyDone(d))
     \/ (\E d \in Deliveries, outcome \in {"ok", "err"} : ThreadEnds(d, outcome))
     \/ UNCHANGED vars
     PROVE UNCHANGED <<pool, row, task, disp>>
  BY <1>27 DEF CancelEvent, ArmTest, ArmInstall, ThreadEnds, AlreadyDone, vars,
     clock, volatile, history
<1> QED
  BY <1>1, <1>2, <1>3, <1>4, <1>5, <1>6, <1>7, <1>8, <1>9, <1>10, <1>11, <1>12,
     <1>13, <1>14, <1>15, <1>16, <1>17, <1>18, <1>19, <1>20, <1>21, <1>22, <1>23,
     <1>24, <1>25, <1>26, <1>27
     DEF Next, Endpoints, Dispatcher, RunEvent, Shutdown

(* A claim pays for the retry that follows it.                               *)
LEMMA RetryInvStep == PoolInv /\ TypeOK' /\ [Next]_vars => RetryInv'
<1> USE PoolAssumption
<1> SUFFICES ASSUME PoolInv, TypeOK', [Next]_vars PROVE RetryInv'
  OBVIOUS
<1> USE DEF PoolInv, TypeOK, RetryInv
<1>1. ASSUME NEW d \in Deliveries, NEW state \in {"queued", "skipped"}, Webhook(d, state)
     PROVE RetryInv'
  <2>1. row'[d].attempts = 0 /\ row'[d].state # "running" /\ retries'[d] = 0
    BY <1>1, NewRow DEF Webhook, Insert
  <2> QED
    BY <1>1, <2>1 DEF Webhook, Insert
<1>2. ASSUME NEW d \in Deliveries, NEW wakes \in BOOLEAN, Replay(d, wakes) PROVE RetryInv'
  BY <1>2 DEF Replay, Operator, Requeued, Inactive, clock, volatile, history
<1>3. ASSUME NEW d \in Deliveries, NEW wakes \in BOOLEAN, ManualTriage(d, wakes)
     PROVE RetryInv'
  <2>1. row'[d].attempts = 0 /\ row'[d].state # "running" /\ retries'[d] = 0
    BY <1>3, NewRow DEF ManualTriage, Insert
  <2> QED
    BY <1>3, <2>1 DEF ManualTriage, Insert
<1>4. ASSUME NEW d \in Deliveries, Claim(d) PROVE RetryInv'
  <2>1. row[d].attempts \in Nat
    BY DEF Row
  <2>4. row'[d] = Claimed(row[d]) /\ \A e \in Deliveries : e # d => row'[e] = row[e]
    BY <1>4 DEF Claim
  <2>5. row'[d].attempts = Bump(row[d].attempts)
    BY <2>4, RowOps
  <2>2. retries[d] \in Nat /\ retries' = retries
    BY <1>4 DEF Claim, history
  <2>3. row'[d].attempts <= MaxRetries => retries'[d] < row'[d].attempts
    BY <2>1, <2>2, <2>5 DEF Bump
  <2>6. row'[d].attempts \in Nat
    BY <2>1, <2>5 DEF Bump
  <2> QED
    BY <2>2, <2>3, <2>4, <2>6
<1>5. CASE PutBack
  BY <1>5 DEF PutBack, DispatcherAt, Requeued, Busy, clock, volatile, history
<1>6. ASSUME NEW d \in Deliveries, Succeeds(d) PROVE RetryInv'
  BY <1>6 DEF Succeeds, Finally, Marked, LoopRuns, clock, volatile, history
<1>7. ASSUME NEW d \in Deliveries, Fails(d) PROVE RetryInv'
  <2>1. row[d].state = "running" /\ row[d].attempts \in Nat /\ retries[d] \in Nat
    BY <1>7 DEF Fails, TaskInv, Active, Row
  <2>2. row'[d] = FailedRow(d) /\ FailedRow(d).attempts = row[d].attempts
    BY <1>7, FailedRowCases DEF Fails
  <2>3. retries'[d] = IF FailedRow(d).state = "queued" THEN retries[d] + 1 ELSE retries[d]
    BY <1>7 DEF Fails
  <2>4. FailedRow(d).state = "queued" => row[d].attempts <= MaxRetries
    BY <2>1, FailedRowCases
  <2>5. FailedRow(d).state = "running" => FailedRow(d) = row[d]
    BY FailedRowCases
  <2>6. \A e \in Deliveries : e # d => row'[e] = row[e] /\ retries'[e] = retries[e]
    BY <1>7 DEF Fails
  <2> QED
    BY <2>1, <2>2, <2>3, <2>4, <2>5, <2>6
<1>8. ASSUME NEW d \in Deliveries, BackoffElapses(d) PROVE RetryInv'
  BY <1>8 DEF BackoffElapses, clock, volatile, history
<1>9. CASE Start
  <2>1. \A d \in Deliveries : row'[d].attempts = row[d].attempts /\ row'[d].state # "running"
    BY <1>9, RowOps DEF Start
  <2> QED
    BY <1>9, <2>1 DEF Start
<1>10. CASE UNCHANGED <<retries, row>>
  BY <1>10
<1>11. ASSUME
     \/ (\E d \in Deliveries : CancelEvent(d) \/ ArmTest(d) \/ ArmInstall(d) \/ Release(d) \/ Interrupt(d) \/ CancelTask(d) \/ AlreadyDone(d))
     \/ ClaimNothing \/ Dispatch \/ ClearWakeup \/ WakeUp \/ ClaimRaises
     \/ (\E d \in Deliveries, s \in Slots : Acquire(d, s))
     \/ (\E d \in Deliveries, outcome \in {"ok", "err"} : ThreadEnds(d, outcome))
     \/ Stop \/ Drained \/ DrainTimeout \/ HookReturns \/ AllInterrupted
     \/ Stopped \/ Down \/ UNCHANGED vars
     PROVE UNCHANGED <<retries, row>>
  BY <1>11 DEF CancelEvent, ClaimNothing, DispatcherAt, Dispatch, ClearWakeup,
     WakeUp, ClaimRaises, Acquire, LoopRuns, ArmTest, ArmInstall, ThreadEnds,
     Release, Stop, Drained, DrainTimeout, HookReturns, AllInterrupted, Stopped,
     Interrupt, CancelTask, Finally, AlreadyDone, Down, vars, clock, volatile,
     history
<1> QED
  BY <1>1, <1>2, <1>3, <1>4, <1>5, <1>6, <1>7, <1>8, <1>9, <1>10, <1>11
     DEF Next, Endpoints, Dispatcher, RunEvent, Shutdown

(* A cancellation stays on record until the task's finally block has used it. *)
LEMMA CancelInvStep == PoolInv /\ TypeOK' /\ [Next]_vars => CancelInv'
<1> USE PoolAssumption
<1> SUFFICES ASSUME PoolInv, TypeOK', [Next]_vars PROVE CancelInv'
  OBVIOUS
<1> USE DEF PoolInv, TypeOK, CancelInv
<1>1. ASSUME NEW d \in Deliveries, NEW state \in {"queued", "skipped"}, Webhook(d, state)
     PROVE CancelInv'
  BY <1>1 DEF Webhook, Insert, Fresh, clock, volatile, history
<1>2. ASSUME NEW d \in Deliveries, NEW wakes \in BOOLEAN, Replay(d, wakes)
     PROVE CancelInv'
  BY <1>2 DEF Replay, Operator, Requeued, Inactive, clock, volatile, history
<1>3. ASSUME NEW d \in Deliveries, NEW wakes \in BOOLEAN, ManualTriage(d, wakes)
     PROVE CancelInv'
  BY <1>3 DEF ManualTriage, Operator, Insert, Inactive, clock, volatile, history
<1>4. ASSUME NEW d \in Deliveries, CancelEvent(d) PROVE CancelInv'
  BY <1>4 DEF CancelEvent, Operator, clock, volatile, history
<1>5. ASSUME NEW d \in Deliveries, Claim(d) PROVE CancelInv'
  BY <1>5 DEF Claim, DispatcherAt, Claimed, Bump, IsNext, Unblocked, clock,
     volatile, history
<1>6. CASE PutBack
  BY <1>6 DEF PutBack, DispatcherAt, Requeued, Busy, clock, volatile, history
<1>7. CASE Dispatch
  BY <1>7 DEF Dispatch, DispatcherAt, Busy, clock, volatile, history
<1>8. ASSUME NEW d \in Deliveries, NEW s \in Slots, Acquire(d, s) PROVE CancelInv'
  BY <1>8 DEF Acquire, LoopRuns, clock, volatile, history
<1>9. ASSUME NEW d \in Deliveries, ArmTest(d) PROVE CancelInv'
  BY <1>9 DEF ArmTest, clock, volatile, history
<1>10. ASSUME NEW d \in Deliveries, Succeeds(d) PROVE CancelInv'
  BY <1>10 DEF Succeeds, Finally, Marked, LoopRuns, clock, volatile, history
<1>11. ASSUME NEW d \in Deliveries, Fails(d) PROVE CancelInv'
  <2>1. row[d].state = "running" /\ row'[d] = FailedRow(d)
    BY <1>11 DEF Fails, TaskInv, Active
  <2>2. \A e \in Deliveries : e # d => row'[e] = row[e] /\ task'[e] = task[e]
    BY <1>11 DEF Fails, Finally
  <2>3. /\ task'[d] = "releasing" /\ cancelled' = cancelled \ {d} /\ shut' = shut \ {d}
        /\ UNCHANGED <<asked, killed, pool>>
    BY <1>11 DEF Fails, Finally
  <2>4. FailedRow(d).state # "absent" /\ (pool = "up" /\ d \in cancelled => FailedRow(d).state = "failed")
    BY <2>1, FailedRowCases DEF PhaseInv
  <2> QED
    BY <2>1, <2>2, <2>3, <2>4
<1>12. ASSUME NEW d \in Deliveries, Release(d) PROVE CancelInv'
  BY <1>12 DEF Release, LoopRuns, clock, volatile, history
<1>13. ASSUME NEW d \in Deliveries, BackoffElapses(d) PROVE CancelInv'
  BY <1>13 DEF BackoffElapses, clock, volatile, history
<1>14. CASE Start
  BY <1>14 DEF Start, DispatcherAt, Requeued, clock, volatile, history
<1>15. CASE Stop
  BY <1>15 DEF Stop, DispatcherAt, clock, volatile, history
<1>16. CASE Drained
  BY <1>16 DEF Drained, clock, volatile, history
<1>17. CASE DrainTimeout
  BY <1>17 DEF DrainTimeout, clock, volatile, history
<1>18. CASE HookReturns
  BY <1>18 DEF HookReturns, clock, volatile, history
<1>19. CASE AllInterrupted
  BY <1>19 DEF AllInterrupted, clock, volatile, history
<1>20. CASE Stopped
  BY <1>20 DEF Stopped, clock, volatile, history
<1>21. ASSUME NEW d \in Deliveries, Interrupt(d) PROVE CancelInv'
  BY <1>21 DEF Interrupt, clock, volatile, history
<1>22. ASSUME NEW d \in Deliveries, CancelTask(d) PROVE CancelInv'
  BY <1>22 DEF CancelTask, Finally, clock, volatile, history
<1>23. CASE Down
  BY <1>23 DEF Down, DispatcherAt, clock, volatile, history
<1>24. CASE UNCHANGED <<task, killed, cancelled, shut, asked, row, pool>>
  BY <1>24
<1>25. ASSUME
     \/ (\E d \in Deliveries : ArmInstall(d) \/ AlreadyDone(d)) \/ ClaimNothing
     \/ ClearWakeup \/ WakeUp \/ ClaimRaises
     \/ (\E d \in Deliveries, outcome \in {"ok", "err"} : ThreadEnds(d, outcome))
     \/ UNCHANGED vars
     PROVE UNCHANGED <<task, killed, cancelled, shut, asked, row, pool>>
  BY <1>25 DEF ClaimNothing, DispatcherAt, ClearWakeup, WakeUp, ClaimRaises,
     ArmInstall, ThreadEnds, AlreadyDone, vars, clock, volatile, history
<1> QED
  BY <1>1, <1>2, <1>3, <1>4, <1>5, <1>6, <1>7, <1>8, <1>9, <1>10, <1>11, <1>12,
     <1>13, <1>14, <1>15, <1>16, <1>17, <1>18, <1>19, <1>20, <1>21, <1>22, <1>23,
     <1>24, <1>25
     DEF Next, Endpoints, Dispatcher, RunEvent, Shutdown

(* The empty table and the process that is not up satisfy the invariant. *)
LEMMA InitPoolInv == Init => PoolInv
<1> USE PoolAssumption
<1> SUFFICES ASSUME Init PROVE PoolInv
  OBVIOUS
<1>1. NoRow \in Row /\ NoRow.state = "absent" /\ NoRow.attempts = 0
  BY DEF NoRow, Row
<1>2. \A d \in Deliveries : row[d] = NoRow /\ task[d] = "none" /\ thread[d] = "none"
  BY DEF Init
<1>3. TypeOK
  <2>1. /\ row \in [Deliveries -> Row] /\ received \in [Deliveries -> Nat] /\ now \in Nat
        /\ retries \in [Deliveries -> Nat] /\ ops \in 0..MaxOps /\ restarts \in 0..MaxRestarts
    BY <1>1 DEF Init
  <2>2. /\ task \in [Deliveries -> {"none", "slot", "running", "releasing"}]
        /\ thread \in [Deliveries -> {"none", "starting", "arming", "armed", "ok", "err"}]
        /\ slot \in [Deliveries -> Slots \cup {None}]
    BY DEF Init
  <2>3. /\ pool \in Phases /\ disp \in [at : Places, d : Deliveries \cup {None}]
        /\ disp.at # "claimed"
    BY DEF Init, Phases, Places
  <2> QED
    BY <2>1, <2>2, <2>3, Zenon DEF Init, TypeOK
<1>4. PhaseInv /\ TaskInv /\ ThreadInv
  BY <1>2 DEF Init, PhaseInv, TaskInv, ThreadInv, Active
<1>5. OneRunningRow /\ Ownership
  BY <1>1, <1>2 DEF Init, OneRunningRow, Ownership
<1>6. RetryInv /\ CancelInv
  BY <1>1, <1>2 DEF Init, RetryInv, CancelInv
<1> QED
  BY <1>3, <1>4, <1>5, <1>6 DEF PoolInv

(* Every step of the pool preserves the invariant. *)
LEMMA NextPoolInv == PoolInv /\ [Next]_vars => PoolInv'
<1> SUFFICES ASSUME PoolInv, [Next]_vars PROVE PoolInv'
  OBVIOUS
<1>1. TypeOK'
  BY TypeStep
<1> QED
  BY <1>1, PhaseInvStep, TaskInvStep, ThreadInvStep, OneRunningRowStep, OwnershipStep,
     RetryInvStep, CancelInvStep DEF PoolInv

-----------------------------------------------------------------------------
(* The theorems. *)

(* In every reachable state the rows, the in-flight keys, the tasks, the     *)
(* threads and the cancel sets of queue.py agree with each other.            *)
THEOREM PoolInvCorrect == Spec => []PoolInv
BY InitPoolInv, NextPoolInv, PTL DEF Spec

(* The variables of the pool always have their types.                        *)
THEOREM PoolTypeCorrect == Spec => []TypeOK
<1>1. PoolInv => TypeOK
  BY DEF PoolInv
<1> QED
  BY <1>1, PoolInvCorrect, PTL

(* _inflight and the claim query keep two runs about one issue apart, the    *)
(* threads stop() leaves behind included.                                    *)
THEOREM OneRunPerIssueCorrect == Spec => []OneRunPerIssue
<1>1. PoolInv => OneRunPerIssue
  BY DEF PoolInv, TaskInv, ThreadInv, OneRunPerIssue, SameKey
<1> QED
  BY <1>1, PoolInvCorrect, PTL

(* While the pool is up every 'running' row has exactly the owner it needs,  *)
(* and at most one row per issue is 'running'.                               *)
THEOREM RowsOwned == Spec => [](Ownership /\ OneRunningRow)
<1>1. PoolInv => Ownership /\ OneRunningRow
  BY DEF PoolInv
<1> QED
  BY <1>1, PoolInvCorrect, PTL

(* However claims, put-backs, restarts and replays interleave, an event is   *)
(* retried automatically at most event_max_retries times.                    *)
THEOREM RetryBoundCorrect == Spec => []RetryBound
<1>1. PoolInv => RetryBound
  BY DEF PoolInv, RetryInv, RetryBound
<1> QED
  BY <1>1, PoolInvCorrect, PTL

\* The finally block is reached from Succeeds, from Fails or by cancellation.
EndsRun(d) == Active(d) /\ task'[d] = "releasing"

(* Only three steps end a run.                                               *)
LEMMA EndsRunCases ==
    ASSUME PoolInv, [Next]_vars, NEW d \in Deliveries, EndsRun(d)
    PROVE  Succeeds(d) \/ Fails(d) \/ CancelTask(d)
<1> USE DEF PoolInv, TypeOK, EndsRun, Active
<1>1. ASSUME task' = task PROVE FALSE
  BY <1>1
<1>2. ASSUME NEW e \in Deliveries, Succeeds(e) \/ Fails(e) \/ CancelTask(e) PROVE e = d
  BY <1>2 DEF Succeeds, Fails, CancelTask, Finally
<1>3. ASSUME Dispatch PROVE FALSE
  BY <1>3 DEF Dispatch
<1>4. ASSUME NEW e \in Deliveries, (\E s \in Slots : Acquire(e, s)) \/ Release(e)
     PROVE FALSE
  BY <1>4 DEF Acquire, Release
<1>5. ASSUME Down PROVE FALSE
  BY <1>5 DEF Down
<1>6. ASSUME
     \/ (\E e \in Deliveries :
           \/ CancelEvent(e) \/ Claim(e) \/ ArmTest(e) \/ ArmInstall(e) \/ BackoffElapses(e)
           \/ Interrupt(e) \/ AlreadyDone(e))
     \/ (\E e \in Deliveries, state \in {"queued", "skipped"} : Webhook(e, state))
     \/ (\E e \in Deliveries, wakes \in BOOLEAN : Replay(e, wakes))
     \/ (\E e \in Deliveries, wakes \in BOOLEAN : ManualTriage(e, wakes))
     \/ (\E e \in Deliveries, outcome \in {"ok", "err"} : ThreadEnds(e, outcome))
     \/ ClaimNothing \/ PutBack \/ ClearWakeup \/ WakeUp \/ ClaimRaises \/ Start \/ Stop
     \/ Drained \/ DrainTimeout \/ HookReturns \/ AllInterrupted \/ Stopped \/ UNCHANGED vars
     PROVE task' = task
  BY <1>6 DEF CancelEvent, Claim, ArmTest, ArmInstall, BackoffElapses, Interrupt, AlreadyDone,
     Webhook, Replay, ManualTriage, ThreadEnds, ClaimNothing, PutBack, ClearWakeup, WakeUp,
     ClaimRaises, Start, Stop, Drained, DrainTimeout, HookReturns, AllInterrupted, Stopped,
     vars, volatile
<1> QED
  BY <1>1, <1>2, <1>3, <1>4, <1>5, <1>6 DEF Next, Endpoints, Dispatcher, RunEvent, Shutdown

(* A run the operator or stop() killed is never recorded as an error: the    *)
(* kill is on record in _cancelled or _shutdown_cancelled when it ends.      *)
THEOREM KilledNotBlamedCorrect == Spec => KilledNotBlamed
<1>1. PoolInv /\ [Next]_vars => [\A d \in Deliveries :
         Active(d) /\ task'[d] = "releasing" /\ row'[d].state # "running"
           /\ row'[d].why = "error" => d \notin killed]_vars
  <2> SUFFICES ASSUME PoolInv, [Next]_vars, NEW d \in Deliveries, EndsRun(d),
                      row'[d].state # "running", row'[d].why = "error", d \in killed
               PROVE  FALSE
    BY DEF EndsRun
  <2> USE DEF PoolInv, TypeOK
  <2>1. row[d].state = "running" /\ row[d] \in Row
    BY DEF EndsRun, TaskInv
  <2>2. CASE Succeeds(d)
    <3>1. \/ row'[d] = Marked(row[d], "failed", "operator")
          \/ row'[d] = Marked(row[d], "done", "none")
      BY <2>2 DEF Succeeds
    <3> QED
      BY <2>1, <3>1, MarkedRow
  <2>3. CASE Fails(d)
    <3>1. d \in cancelled \cup shut /\ row'[d] = FailedRow(d)
      BY <2>3 DEF Fails, CancelInv
    <3> QED
      BY <2>1, <3>1, FailedRowCases
  <2>4. CASE CancelTask(d)
    BY <2>1, <2>4 DEF CancelTask
  <2> QED
    BY <2>2, <2>3, <2>4, EndsRunCases
<1> QED
  BY <1>1, PoolInvCorrect, PTL DEF Spec, KilledNotBlamed

(* A cancel request that arrives while the row is running lands: the run     *)
(* ends 'failed' by operator, armed hook or not.                             *)
THEOREM CancelLandsCorrect == Spec => CancelLands
<1>1. PoolInv /\ [Next]_vars => [\A d \in Deliveries :
         pool = "up" /\ Active(d) /\ task'[d] = "releasing" /\ d \in asked
             => row'[d].state = "failed" /\ row'[d].why = "operator"]_vars
  <2> SUFFICES ASSUME PoolInv, [Next]_vars, NEW d \in Deliveries, EndsRun(d),
                      pool = "up", d \in asked
               PROVE  row'[d].state = "failed" /\ row'[d].why = "operator"
    BY DEF EndsRun
  <2> USE DEF PoolInv, TypeOK
  <2>1. row[d].state = "running" /\ row[d] \in Row
    BY DEF EndsRun, TaskInv
  <2>2. d \in cancelled /\ d \notin shut
    BY <2>1 DEF CancelInv, PhaseInv
  <2>3. CASE Succeeds(d)
    <3>1. row'[d] = Marked(row[d], "failed", "operator")
      BY <2>2, <2>3 DEF Succeeds
    <3> QED
      BY <2>1, <3>1, MarkedRow
  <2>4. CASE Fails(d)
    <3>1. row'[d] = FailedRow(d)
      BY <2>4 DEF Fails
    <3> QED
      BY <2>2, <3>1, FailedRowCases
  <2>5. CASE CancelTask(d)
    BY <2>5 DEF CancelTask
  <2> QED
    BY <2>3, <2>4, <2>5, EndsRunCases
<1> QED
  BY <1>1, PoolInvCorrect, PTL DEF Spec, CancelLands
=============================================================================
