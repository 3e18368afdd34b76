-------------------------- MODULE ToolBatchProofs --------------------------
(***************************************************************************)
(* TLAPS proofs about ToolBatch, for every number of tool calls.           *)
(***************************************************************************)
EXTENDS ToolBatch, TLAPS

USE DEF Calls, Kinds, PCs

-----------------------------------------------------------------------------
(* Type correctness. *)

\* TypeOK together with the bound that keeps the queue counters in range.
TypeInv == TypeOK /\ steerQ + withdrawn <= arrived

(* Every step of the batch keeps the variables in their types. *)
LEMMA TypeStep == TypeInv /\ [Next]_vars => TypeInv'
<1> USE BatchAssumption
<1> SUFFICES ASSUME TypeInv, [Next]_vars PROVE TypeInv'
  OBVIOUS
<1> USE DEF TypeInv, TypeOK
<1>1. ASSUME NEW mode \in {"shared", "exclusive"}, Schedule(mode) PROVE TypeInv'
  <2>1. next \in Calls /\ next' \in 1..(N + 1)
    BY <1>1 DEF Schedule
  <2>2. StartPromise(mode) \in SUBSET Calls
    BY DEF StartPromise
  <2>3. after' \in [Calls -> SUBSET Calls]
    BY <1>1, <2>1, <2>2 DEF Schedule
  <2>4. /\ lastExclusive' \subseteq Calls /\ sharedTasks' \subseteq Calls
        /\ excl' \subseteq Calls
    BY <1>1, <2>1 DEF Schedule
  <2> QED
    BY <1>1, <2>1, <2>3, <2>4 DEF Schedule, local, out, cfg, user
<1>2. CASE BeginRun
  BY <1>2 DEF BeginRun, sched, local, out, cfg, user
<1>3. ASSUME NEW c \in Calls, Tool(c) PROVE TypeInv'
  <2>1. CASE StartTool(c)
    <3>1. pc' \in [Calls -> PCs]
      BY <2>1 DEF StartTool
    <3>2. emitted' \in [Calls -> Kinds \cup {"none"}] /\ pushed' \in [Calls -> Nat]
      BY <2>1 DEF StartTool, Emit, out
    <3> QED
      BY <2>1, <3>1, <3>2 DEF StartTool, sched, local, cfg, user
  <2>2. CASE RejectChain(c)
    BY <2>2 DEF RejectChain, sched, local, out, cfg, user
  <2>3. CASE RefuseTool(c)
    BY <2>3 DEF RefuseTool, sched, local, out, cfg, user
  <2>4. CASE BeginExecute(c)
    BY <2>4 DEF BeginExecute, sched, local, out, cfg, user
  <2>5. CASE ExecuteSettles(c)
    BY <2>5 DEF ExecuteSettles, sched, local, out, cfg, user
  <2>6. CASE AfterHook(c)
    BY <2>6 DEF AfterHook, sched, local, out, cfg, user
  <2>7. CASE FinishTool(c)
    <3>1. ReportedKind(c) \in Kinds \cup {"none"}
      BY DEF ReportedKind, Kinds
    <3>2. emitted' \in [Calls -> Kinds \cup {"none"}] /\ pushed' \in [Calls -> Nat]
      <4>1. Emit(c, ReportedKind(c))
        BY <2>7 DEF FinishTool
      <4>2. CASE emitted[c] = "none"
        <5>1. emitted' = [emitted EXCEPT ![c] = ReportedKind(c)]
              /\ pushed' = [pushed EXCEPT ![c] = pushed[c] + 1]
          BY <4>1, <4>2 DEF Emit
        <5>2. pushed' \in [Calls -> Nat]
          BY <5>1
        <5>3. emitted' \in [Calls -> Kinds \cup {"none"}]
          BY <5>1, <3>1
        <5> QED
          BY <5>2, <5>3
      <4>3. CASE emitted[c] # "none"
        BY <4>1, <4>3 DEF Emit, out
      <4> QED
        BY <4>2, <4>3
    <3>3. pc' \in [Calls -> PCs]
      BY <2>7 DEF FinishTool, PeekAnswer, PCs
    <3>4. steerQ' \in 0..MaxSteer /\ steerQ' <= steerQ
      BY <2>7 DEF FinishTool, QueueAfterPeek
    <3> QED
      BY <2>7, <3>2, <3>3, <3>4 DEF FinishTool, sched, local, cfg
  <2>8. CASE PeekResolves(c)
    BY <2>8 DEF PeekResolves, Trigger, MayInterrupt, sched, local, out, cfg, user
  <2>9. CASE PeekRejects(c)
    BY <2>9 DEF PeekRejects, sched, local, out, cfg, user
  <2> QED
    BY <1>3, <2>1, <2>2, <2>3, <2>4, <2>5, <2>6, <2>7, <2>8, <2>9 DEF Tool
<1>4. CASE TimerPeeks
  BY <1>4 DEF TimerPeeks, QueueAfterPeek, sched, local, out, cfg, user
<1>5. CASE TimerResolves
  BY <1>5 DEF TimerResolves, Trigger, MayInterrupt, sched, local, out, cfg, user
<1>6. CASE TailSweep
  BY <1>6 DEF TailSweep, sched, local, out, cfg, user
<1>7. CASE UserSteers
  BY <1>7 DEF UserSteers, sched, local, out, cfg, user
<1>8. CASE UserWithdraws
  BY <1>8 DEF UserWithdraws, sched, local, out, cfg, user
<1>9. CASE UserAborts
  BY <1>9 DEF UserAborts, sched, local, out, cfg, user
<1>10. CASE UNCHANGED vars
  BY <1>10 DEF vars, sched, local, out, cfg, user
<1> QED
  BY <1>1, <1>2, <1>3, <1>4, <1>5, <1>6, <1>7, <1>8, <1>9, <1>10
     DEF Next, Returned

(* The initial state has the types. *)
LEMMA TypeInit == Init => TypeInv
<1> USE BatchAssumption
<1> SUFFICES ASSUME Init PROVE TypeInv
  OBVIOUS
<1>1. after \in [Calls -> SUBSET Calls] /\ pc \in [Calls -> PCs]
  BY DEF Init
<1>2. /\ outcome \in [Calls -> Kinds \cup {"none"}] /\ executed \in [Calls -> BOOLEAN]
      /\ emitted \in [Calls -> Kinds \cup {"none"}] /\ pushed \in [Calls -> Nat]
  BY DEF Init
<1>3. /\ next \in 1..(N + 1) /\ steerQ \in 0..MaxSteer /\ arrived \in 0..MaxSteer
      /\ withdrawn \in 0..MaxSteer /\ steerQ + withdrawn <= arrived
  BY DEF Init
<1> QED
  BY <1>1, <1>2, <1>3, Zenon DEF Init, TypeInv, TypeOK

(* The variables of a batch always have their types. *)
THEOREM TypeCorrect == Spec => []TypeOK
<1>1. TypeInv => TypeOK
  BY DEF TypeInv
<1> QED
  BY <1>1, TypeInit, TypeStep, PTL DEF Spec

-----------------------------------------------------------------------------
(* The inductive invariant. *)

\* The steps of a task that is past its start: it moves from one such place to
\* another, and only its own entries change.
Started == PCs \ {"waiting", "done", "rejected"}

(* A started task that moves on disturbs no ordering between calls. *)
LEMMA MoveKeepsOrder ==
    ASSUME TypeInv, SchedInv, AfterInv, PhaseInv, BarrierOrder,
           NEW c \in Calls, pc[c] \in Started,
           NEW p \in PCs, p # "waiting", pc' = [pc EXCEPT ![c] = p],
           UNCHANGED sched, UNCHANGED phase
    PROVE  SchedInv' /\ AfterInv' /\ PhaseInv' /\ BarrierOrder'
<1> USE BatchAssumption DEF TypeInv, TypeOK, Started
<1>1. SchedInv'
  BY DEF SchedInv, sched
<1>2. AfterInv'
  BY DEF AfterInv, sched
<1>3. PhaseInv'
  BY DEF PhaseInv, Settled, sched
<1>4. BarrierOrder'
  BY DEF BarrierOrder, sched
<1> QED
  BY <1>1, <1>2, <1>3, <1>4

(* One loop iteration keeps every earlier call covered. *)
LEMMA ScheduleKeepsInv ==
    ASSUME TypeInv, BatchInv, NEW mode \in {"shared", "exclusive"}, Schedule(mode)
    PROVE  BatchInv'
<1> USE BatchAssumption DEF TypeInv, TypeOK, BatchInv
<1>1. next \in Calls /\ next' = next + 1
  BY DEF Schedule
<1>2. SchedInv'
  <2>1. CASE mode = "exclusive"
    <3>1. excl' = excl \cup {next} /\ lastExclusive' = {next}
      BY <2>1 DEF Schedule
    <3> QED
      BY <1>1, <3>1 DEF SchedInv
  <2>2. CASE mode = "shared"
    <3>1. /\ excl' = excl /\ lastExclusive' = lastExclusive
          /\ sharedTasks' = sharedTasks \cup {next}
      BY <2>2 DEF Schedule
    <3> QED
      BY <1>1, <3>1 DEF SchedInv
  <2> QED
    BY <2>1, <2>2
<1>3. AfterInv'
  <2> SUFFICES ASSUME NEW c \in 1..next, NEW d \in 1..next,
                      d < c, c \in excl' \/ d \in excl'
               PROVE  d \in after'[c] \/ \E e \in after'[c] : e \in excl' /\ d < e
    BY <1>1 DEF AfterInv
  <2>1. after' = [after EXCEPT ![next] = StartPromise(mode)]
    BY DEF Schedule
  <2>2. excl \subseteq excl' /\ excl' \subseteq excl \cup {next}
    BY DEF Schedule
  <2>3. CASE c = next
    <3>1. d \in 1..(next - 1)
      BY <1>1, <2>3
    <3>2. after'[c] = StartPromise(mode)
      BY <1>1, <2>1, <2>3
    <3>3. CASE mode = "exclusive"
      BY <2>2, <3>1, <3>2, <3>3 DEF SchedInv, StartPromise
    <3>4. CASE mode = "shared"
      <4>1. d \in excl
        BY <1>1, <2>3, <3>1, <3>4 DEF Schedule, SchedInv
      <4> QED
        BY <2>2, <3>1, <3>2, <3>4, <4>1 DEF SchedInv, StartPromise
    <3> QED
      BY <3>3, <3>4
  <2>4. CASE c # next
    <3>1. c \in 1..(next - 1) /\ d \in 1..(next - 1)
      BY <1>1, <2>4
    <3>2. after'[c] = after[c] /\ (c \in excl \/ d \in excl)
      BY <1>1, <2>1, <2>2, <3>1
    <3> QED
      BY <2>2, <3>1, <3>2 DEF AfterInv
  <2> QED
    BY <2>3, <2>4
<1>4. PhaseInv' /\ ResultInv' /\ SuccessReported'
  BY DEF Schedule, PhaseInv, ResultInv, SuccessReported, local, out
<1>5. BarrierOrder'
  BY DEF Schedule, PhaseInv, BarrierOrder
<1> QED
  BY <1>2, <1>3, <1>4, <1>5

(* Starting a call whose start promise is fulfilled respects the barriers. *)
LEMMA StartKeepsInv ==
    ASSUME TypeInv, BatchInv, NEW c \in Calls, StartTool(c)
    PROVE  BatchInv'
<1> USE BatchAssumption DEF TypeInv, TypeOK, BatchInv
<1>1. SchedInv' /\ AfterInv'
  BY DEF StartTool, sched, SchedInv, AfterInv
<1>2. pc[c] = "waiting" /\ \A d \in after[c] : pc[d] = "done"
  BY DEF StartTool, Ready
<1>3. PICK p \in {"done", "before"} : pc' = [pc EXCEPT ![c] = p]
  BY DEF StartTool
<1>4. PhaseInv'
  BY <1>2, <1>3 DEF StartTool, PhaseInv, Settled, sched
<1>5. ResultInv' /\ SuccessReported'
  <2>1. outcome' = outcome /\ emitted[c] = "none" /\ outcome[c] = "none" /\ phase' = "run"
    BY <1>2 DEF StartTool, local, ResultInv
  <2>2. CASE UNCHANGED out
    BY <1>3, <2>1, <2>2 DEF StartTool, out, ResultInv, SuccessReported
  <2>3. CASE Emit(c, "aborted") /\ p = "done"
    <3>1. /\ emitted' = [emitted EXCEPT ![c] = "aborted"]
          /\ pushed' = [pushed EXCEPT ![c] = @ + 1]
      BY <2>1, <2>3 DEF Emit
    <3> QED
      BY <1>3, <2>1, <2>3, <3>1 DEF ResultInv, SuccessReported
  <2> QED
    BY <1>3, <2>2, <2>3 DEF StartTool
<1>6. BarrierOrder'
  <2> SUFFICES ASSUME NEW a \in Calls, NEW d \in Calls,
                      d < a, a \in excl \/ d \in excl,
                      pc'[a] \notin {"waiting", "rejected"}
               PROVE  pc'[d] = "done"
    BY DEF BarrierOrder, StartTool, sched
  <2>1. CASE a # c
    BY <1>2, <1>3, <2>1 DEF BarrierOrder
  <2>2. CASE a = c
    <3>1. a \in 1..(next - 1) /\ d \in 1..(next - 1)
      BY DEF StartTool, PhaseInv
    <3>2. pc[d] = "done"
      <4>1. CASE d \in after[c]
        BY <1>2, <4>1
      <4>2. CASE \E e \in after[c] : e \in excl /\ d < e
        BY <1>2, <4>2 DEF BarrierOrder
      <4> QED
        BY <2>2, <3>1, <4>1, <4>2 DEF AfterInv
    <3> QED
      BY <1>3, <2>2, <3>2
  <2> QED
    BY <2>1, <2>2
<1> QED
  BY <1>1, <1>4, <1>5, <1>6

(* The steps of one task keep the invariant. *)
LEMMA ToolKeepsInv ==
    ASSUME TypeInv, BatchInv, NEW c \in Calls, Tool(c)
    PROVE  BatchInv'
<1> USE BatchAssumption DEF TypeInv, TypeOK, BatchInv
<1>1. CASE StartTool(c)
  BY <1>1, StartKeepsInv
<1>2. CASE RejectChain(c)
  <2>1. SchedInv' /\ AfterInv' /\ PhaseInv' /\ BarrierOrder'
    BY <1>2 DEF RejectChain, sched, SchedInv, AfterInv, PhaseInv, Settled, BarrierOrder
  <2> QED
    BY <1>2, <2>1 DEF RejectChain, local, out, ResultInv, SuccessReported
<1>3. CASE RefuseTool(c)
  <2>1. SchedInv' /\ AfterInv' /\ PhaseInv' /\ BarrierOrder'
    BY <1>3, MoveKeepsOrder DEF RefuseTool, Started
  <2> QED
    BY <1>3, <2>1 DEF RefuseTool, out, ResultInv, SuccessReported
<1>4. CASE BeginExecute(c)
  <2>1. SchedInv' /\ AfterInv' /\ PhaseInv' /\ BarrierOrder'
    BY <1>4, MoveKeepsOrder DEF BeginExecute, Started
  <2> QED
    BY <1>4, <2>1 DEF BeginExecute, out, ResultInv, SuccessReported
<1>5. CASE ExecuteSettles(c)
  <2>1. SchedInv' /\ AfterInv' /\ PhaseInv' /\ BarrierOrder'
    BY <1>5, MoveKeepsOrder DEF ExecuteSettles, Started
  <2> QED
    BY <1>5, <2>1 DEF ExecuteSettles, out, ResultInv, SuccessReported
<1>6. CASE AfterHook(c)
  <2>1. SchedInv' /\ AfterInv' /\ PhaseInv' /\ BarrierOrder'
    BY <1>6, MoveKeepsOrder DEF AfterHook, Started
  <2> QED
    BY <1>6, <2>1 DEF AfterHook, out, ResultInv, SuccessReported
<1>7. CASE FinishTool(c)
  <2>1. PICK p \in {"peekHit", "peekMiss", "done"} : pc' = [pc EXCEPT ![c] = p]
    BY <1>7 DEF FinishTool, PeekAnswer
  <2>2. SchedInv' /\ AfterInv' /\ PhaseInv' /\ BarrierOrder'
    BY <1>7, <2>1, MoveKeepsOrder DEF FinishTool, Started
  <2>3. emitted[c] = "none" /\ phase' = phase /\ outcome' = outcome /\ ReportedKind(c) # "none"
    BY <1>7 DEF FinishTool, ResultInv, local, ReportedKind
  <2>4. /\ emitted' = [emitted EXCEPT ![c] = ReportedKind(c)]
        /\ pushed' = [pushed EXCEPT ![c] = @ + 1]
    BY <1>7, <2>3 DEF FinishTool, Emit
  <2>5. ResultInv'
    BY <2>1, <2>3, <2>4 DEF ResultInv
  <2>6. SuccessReported'
    BY <2>1, <2>3, <2>4 DEF SuccessReported, ReportedKind
  <2> QED
    BY <2>2, <2>5, <2>6
<1>8. CASE PeekResolves(c)
  <2>1. SchedInv' /\ AfterInv' /\ PhaseInv' /\ BarrierOrder'
    BY <1>8, MoveKeepsOrder DEF PeekResolves, Started
  <2> QED
    BY <1>8, <2>1 DEF PeekResolves, local, out, ResultInv, SuccessReported
<1>9. CASE PeekRejects(c)
  <2>1. SchedInv' /\ AfterInv' /\ PhaseInv' /\ BarrierOrder'
    BY <1>9, MoveKeepsOrder DEF PeekRejects, Started
  <2> QED
    BY <1>9, <2>1 DEF PeekRejects, local, out, ResultInv, SuccessReported
<1> QED
  BY <1>1, <1>2, <1>3, <1>4, <1>5, <1>6, <1>7, <1>8, <1>9 DEF Tool

\* What BatchInv talks about.
invVars == <<phase, sched, pc, local, out>>

(* A step that touches none of the variables of the invariant keeps it. *)
LEMMA FrameKeepsInv == BatchInv /\ UNCHANGED invVars => BatchInv'
BY DEF BatchInv, invVars, sched, local, out, SchedInv, AfterInv, PhaseInv,
       Settled, ResultInv, BarrierOrder, SuccessReported

(* Every step keeps the inductive invariant. *)
LEMMA InvStep == TypeInv /\ BatchInv /\ [Next]_vars => BatchInv'
<1> USE BatchAssumption
<1> SUFFICES ASSUME TypeInv, BatchInv, [Next]_vars PROVE BatchInv'
  OBVIOUS
<1>1. ASSUME NEW mode \in {"shared", "exclusive"}, Schedule(mode) PROVE BatchInv'
  BY <1>1, ScheduleKeepsInv
<1>2. CASE BeginRun
  BY <1>2 DEF BeginRun, TypeInv, TypeOK, BatchInv, sched, local, out, SchedInv,
              AfterInv, PhaseInv, ResultInv, BarrierOrder, SuccessReported
<1>3. ASSUME NEW c \in Calls, Tool(c) PROVE BatchInv'
  BY <1>3, ToolKeepsInv
<1>4. CASE TimerPeeks \/ TimerResolves \/ UserSteers \/ UserWithdraws \/ UserAborts
  BY <1>4, FrameKeepsInv
     DEF TimerPeeks, TimerResolves, UserSteers, UserWithdraws, UserAborts, invVars
<1>5. CASE TailSweep
  <2>1. SchedInv' /\ AfterInv' /\ BarrierOrder'
    BY <1>5 DEF TailSweep, BatchInv, sched, SchedInv, AfterInv, BarrierOrder
  <2>2. PhaseInv'
    BY <1>5 DEF TailSweep, BatchInv, sched, PhaseInv, Settled
  <2>3. ResultInv'
    <3>1. /\ emitted' = [c \in Calls |->
                            IF emitted[c] = "none" THEN "skipped" ELSE emitted[c]]
          /\ pushed' = [c \in Calls |->
                           IF emitted[c] = "none" THEN pushed[c] + 1 ELSE pushed[c]]
          /\ pc' = pc /\ \A c \in Calls : pc[c] \in {"done", "rejected"}
      BY <1>5 DEF TailSweep, Settled
    <3>2. \A c \in Calls : emitted'[c] # "none" /\ pushed'[c] = 1
      BY <3>1 DEF TypeInv, TypeOK, BatchInv, ResultInv
    <3> QED
      BY <3>1, <3>2 DEF ResultInv
  <2>4. SuccessReported'
    BY <1>5 DEF TailSweep, BatchInv, SuccessReported, local
  <2> QED
    BY <2>1, <2>2, <2>3, <2>4 DEF BatchInv
<1>6. CASE UNCHANGED vars
  BY <1>6, FrameKeepsInv DEF vars, invVars
<1> QED
  BY <1>1, <1>2, <1>3, <1>4, <1>5, <1>6 DEF Next, Returned

(* The initial state satisfies the invariant. *)
LEMMA InvInit == Init => BatchInv
BY BatchAssumption DEF Init, BatchInv, SchedInv, AfterInv, PhaseInv, ResultInv,
                       BarrierOrder, SuccessReported, Settled

(* The invariant holds throughout, for every number of calls. *)
THEOREM InvCorrect == Spec => []BatchInv
<1>1. Init => TypeInv /\ BatchInv
  BY TypeInit, InvInit
<1>2. TypeInv /\ BatchInv /\ [Next]_vars => (TypeInv /\ BatchInv)'
  BY TypeStep, InvStep
<1> QED
  BY <1>1, <1>2, PTL DEF Spec

(* For every batch size and every mix of modes, an exclusive call never      *)
(* overlaps another one.                                                     *)
THEOREM Exclusion == Spec => []ExclusiveAlone
<1>1. TypeOK /\ BatchInv => ExclusiveAlone
  BY BatchAssumption DEF TypeOK, BatchInv, BarrierOrder, ExclusiveAlone, Running
<1> QED
  BY <1>1, TypeCorrect, InvCorrect, PTL

(* For every batch size every call gets exactly one result. *)
THEOREM OneResult == Spec => []OneResultPerCall
<1>1. BatchInv => OneResultPerCall
  BY DEF BatchInv, ResultInv, OneResultPerCall
<1> QED
  BY <1>1, InvCorrect, PTL

(* For every batch size a successful result is never reported as skipped. *)
THEOREM SuccessKept == Spec => []SuccessReported
<1>1. BatchInv => SuccessReported
  BY DEF BatchInv
<1> QED
  BY <1>1, InvCorrect, PTL

(* When the peek callback is given, the batch takes no message from the      *)
(* steering queue, for every number of calls and messages.                   *)
THEOREM SteeringKept == HasPeek => (Spec => []SteeringConserved)
<1> SUFFICES ASSUME HasPeek PROVE Spec => []SteeringConserved
  OBVIOUS
<1>1. Init => SteeringConserved
  BY DEF Init, SteeringConserved
<1>2. TypeOK /\ SteeringConserved /\ [Next]_vars => SteeringConserved'
  <2> SUFFICES ASSUME TypeOK, SteeringConserved, [Next]_vars PROVE SteeringConserved'
    OBVIOUS
  <2> USE BatchAssumption DEF TypeOK, SteeringConserved
  <2>1. ASSUME NEW c \in Calls, Tool(c) PROVE SteeringConserved'
    BY <2>1 DEF Tool, StartTool, RejectChain, RefuseTool, BeginExecute, ExecuteSettles,
                AfterHook, FinishTool, PeekResolves, PeekRejects, QueueAfterPeek, user
  <2>2. CASE TimerPeeks \/ TimerResolves
    BY <2>2 DEF TimerPeeks, TimerResolves, QueueAfterPeek, user
  <2>3. CASE UserSteers \/ UserWithdraws
    BY <2>3 DEF UserSteers, UserWithdraws
  <2>4. CASE \/ BeginRun \/ TailSweep \/ UserAborts \/ UNCHANGED vars
             \/ \E mode \in {"shared", "exclusive"} : Schedule(mode)
    BY <2>4 DEF BeginRun, TailSweep, UserAborts, Schedule, vars, user
  <2> QED
    BY <2>1, <2>2, <2>3, <2>4 DEF Next, Returned
<1> QED
  BY <1>1, <1>2, TypeCorrect, PTL DEF Spec

(* Types, the inductive invariant and the steering queue together: what the   *)
(* run checks as one invariant, for every number of calls and messages.      *)
THEOREM BatchSafeCorrect == Spec => []BatchSafe
<1>1. CASE HasPeek
  <2>1. Spec => []SteeringConserved
    BY <1>1, SteeringKept
  <2>2. TypeOK /\ BatchInv /\ SteeringConserved => BatchSafe
    BY DEF BatchSafe
  <2> QED
    BY <2>1, <2>2, TypeCorrect, InvCorrect, PTL
<1>2. CASE ~HasPeek
  <2>1. TypeOK /\ BatchInv => BatchSafe
    BY <1>2 DEF BatchSafe
  <2> QED
    BY <2>1, TypeCorrect, InvCorrect, PTL
<1> QED
  BY <1>1, <1>2

(* No tool begins to execute after an abort or an interrupt, for every batch. *)
THEOREM NoLateStart == Spec => NoStartAfterAbort
<1> DEFINE A == \A c \in Calls :
                  pc[c] # "executing" /\ pc'[c] = "executing" => ~ToolAborted
<1>1. TypeOK /\ [Next]_vars => [A]_vars
  <2> SUFFICES ASSUME TypeOK, [Next]_vars PROVE A \/ UNCHANGED vars
    OBVIOUS
  <2>1. ASSUME NEW c \in Calls, Tool(c) PROVE A
    BY <2>1 DEF TypeOK, Tool, StartTool, RejectChain, RefuseTool, BeginExecute,
                ExecuteSettles, AfterHook, FinishTool, PeekResolves, PeekRejects,
                PeekAnswer
  <2>2. ASSUME pc' = pc PROVE A
    BY <2>2
  <2> QED
    BY <2>1, <2>2 DEF Next, Returned, Schedule, BeginRun, TimerPeeks, TimerResolves,
                      TailSweep, UserSteers, UserWithdraws, UserAborts
<1> QED
  BY <1>1, TypeCorrect, PTL DEF Spec, NoStartAfterAbort

-----------------------------------------------------------------------------
(* Refinement. *)

(* Every step of the batch is a step of the contract or leaves it unchanged. *)
LEMMA ContractStep ==
    TypeInv /\ BatchInv /\ [Next]_vars
        => [Contract!Next]_<<emitted, phase = "returned">>
<1> USE BatchAssumption DEF TypeInv, TypeOK, BatchInv
<1> SUFFICES ASSUME TypeInv, BatchInv, [Next]_vars
             PROVE  [Contract!Next]_<<emitted, phase = "returned">>
  OBVIOUS
<1> DEFINE Quiet == UNCHANGED <<emitted, phase>>
<1>1. ASSUME NEW c \in Calls, NEW k \in Kinds, phase = "run", phase' = phase,
             emitted[c] = "none", emitted' = [emitted EXCEPT ![c] = k]
      PROVE  Contract!Next
  BY <1>1 DEF Contract!Next, Contract!Answer, Contract!Results
<1>2. ASSUME NEW c \in Calls, StartTool(c) PROVE Quiet \/ Contract!Next
  <2>1. phase = "run" /\ phase' = phase
    BY <1>2 DEF StartTool
  <2> QED
    BY <1>1, <1>2, <2>1 DEF StartTool, Emit, out
<1>3. ASSUME NEW c \in Calls, FinishTool(c) PROVE Contract!Next
  <2>1. phase = "run" /\ phase' = phase
    BY <1>3 DEF FinishTool, PhaseInv, Settled
  <2>2. emitted[c] = "none" /\ ReportedKind(c) \in Kinds
    BY <1>3 DEF FinishTool, ResultInv, ReportedKind
  <2>3. emitted' = [emitted EXCEPT ![c] = ReportedKind(c)]
    BY <1>3, <2>2 DEF FinishTool, Emit
  <2> QED
    BY <1>1, <2>1, <2>2, <2>3
<1>4. ASSUME NEW c \in Calls, Tool(c) PROVE Quiet \/ Contract!Next
  BY <1>2, <1>3, <1>4
     DEF Tool, RejectChain, RefuseTool, BeginExecute, ExecuteSettles, AfterHook,
         PeekResolves, PeekRejects, out
<1>5. CASE TailSweep
  BY <1>5 DEF TailSweep, Contract!Next, Contract!Return
<1>6. CASE BeginRun
  <2>1. emitted' = emitted /\ phase = "schedule" /\ phase' = "run"
    BY <1>6 DEF BeginRun, out
  <2> QED
    BY <2>1
<1>7. ASSUME NEW mode \in {"shared", "exclusive"}, Schedule(mode) PROVE Quiet
  BY <1>7 DEF Schedule, out
<1>8. CASE \/ TimerPeeks \/ TimerResolves \/ UserSteers \/ UserWithdraws
           \/ UserAborts \/ UNCHANGED vars
  <2>1. Quiet
    BY <1>8 DEF TimerPeeks, TimerResolves, UserSteers, UserWithdraws, UserAborts,
                vars, out
  <2> QED
    BY <2>1
<1> QED
  BY <1>4, <1>5, <1>6, <1>7, <1>8 DEF Next, Returned

(* The batch implements the contract the agent loop relies on. *)
THEOREM Implements == Spec => ContractSpec
<1>1. Init => Contract!Init
  BY DEF Init, Contract!Init
<1>2. TypeInv /\ BatchInv /\ [Next]_vars => (TypeInv /\ BatchInv)'
  BY TypeStep, InvStep
<1> QED
  BY <1>1, <1>2, TypeInit, InvInit, ContractStep, PTL
     DEF Spec, ContractSpec, Contract!Spec
=============================================================================
