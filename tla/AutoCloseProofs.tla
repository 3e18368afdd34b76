--------------------------- MODULE AutoCloseProofs ---------------------------
(***************************************************************************)
(* TLAPS proofs about AutoClose, for every set of issues and every number  *)
(* of answers, failed calls and restarts.                                  *)
(***************************************************************************)
EXTENDS AutoClose, TLAPS

(* Every step keeps the variables in their types. *)
LEMMA CloseTypeStep == CloseInv /\ [Next]_vars => TypeOK'
<1> SUFFICES ASSUME CloseInv, [Next]_vars PROVE TypeOK'
  OBVIOUS
<1> USE CloseAssumption DEF CloseInv, TypeOK
<1>1. ASSUME NEW i \in Issues, PostAnswer(i) PROVE TypeOK'
  BY <1>1 DEF PostAnswer, tick
<1>2. ASSUME NEW i \in Issues, ScheduleClose(i) PROVE TypeOK'
  BY <1>2 DEF ScheduleClose, Upserted, tick
<1>3. ASSUME NEW i \in Issues, WindowEnds(i) PROVE TypeOK'
  BY <1>3 DEF WindowEnds, tick
<1>4. ASSUME NEW i \in Issues, Reply(i) PROVE TypeOK'
  BY <1>4 DEF Reply, CancelPending, tick
<1>5. ASSUME NEW i \in Issues, Reopen(i) PROVE TypeOK'
  BY <1>5 DEF Reopen, tick
<1>6. ASSUME NEW i \in Issues, VoteDown(i) PROVE TypeOK'
  BY <1>6 DEF VoteDown, tick
<1>7. ASSUME NEW i \in Issues, NEW how \in {"closed", "gone"}, CloseExternally(i, how)
     PROVE TypeOK'
  BY <1>7 DEF CloseExternally, CancelPending, tick
<1>8. CASE Start
  BY <1>8 DEF Start, tick
<1>9. CASE Tick
  BY <1>9 DEF Tick, Due, tick
<1>10. ASSUME NEW i \in Issues, ProcessRow(i) PROVE TypeOK'
  BY <1>10 DEF ProcessRow, tick
<1>11. CASE Reactions
  <2>1. CASE watched[cur] \in votes[cur]
    BY <1>11, <2>1 DEF Reactions, Finalize, RowDone
  <2>2. CASE watched[cur] \notin votes[cur]
    BY <1>11, <2>2 DEF Reactions
  <2> QED
    BY <2>1, <2>2
<1>12. CASE CloseIssue
  BY <1>12 DEF CloseIssue, tick
<1>13. CASE Closed
  BY <1>13 DEF Closed, Finalize, RowDone, tick
<1>14. CASE IssueGone
  BY <1>14 DEF IssueGone, Finalize, RowDone, tick
<1>15. CASE CallFails
  BY <1>15 DEF CallFails, RequeueClaimed, RowDone, tick
<1>16. CASE CallRaises
  BY <1>16 DEF CallRaises, tick
<1>17. CASE AnswerLost
  BY <1>17 DEF AnswerLost, RequeueClaimed, RowDone, tick
<1>18. CASE Stop
  BY <1>18 DEF Stop, tick
<1>19. CASE UNCHANGED vars
  BY <1>19 DEF vars, tick
<1> QED
  BY <1>1, <1>2, <1>3, <1>4, <1>5, <1>6, <1>7, <1>8, <1>9, <1>10, <1>11, <1>12,
     <1>13, <1>14, <1>15, <1>16, <1>17, <1>18, <1>19
     DEF Next, People, Scheduler

(* tick() takes rows in hand at its claim and gives each up when it is done. *)
LEMMA TickInvStep == CloseInv /\ TypeOK' /\ [Next]_vars => TickInv'
<1> SUFFICES ASSUME CloseInv, TypeOK', [Next]_vars PROVE TickInv'
  OBVIOUS
<1> USE CloseAssumption DEF CloseInv, TypeOK, TickInv
<1>1. CASE Start
  BY <1>1 DEF Start, tick
<1>2. CASE Tick
  BY <1>2 DEF Tick, Due, tick
<1>3. ASSUME NEW i \in Issues, ProcessRow(i) PROVE TickInv'
  BY <1>3 DEF ProcessRow, tick
<1>4. CASE Reactions
  BY <1>4 DEF Reactions, Finalize, RowDone, tick
<1>5. CASE CloseIssue
  BY <1>5 DEF CloseIssue, tick
<1>6. CASE Closed
  BY <1>6 DEF Closed, Finalize, RowDone, tick
<1>7. CASE IssueGone
  BY <1>7 DEF IssueGone, Finalize, RowDone, tick
<1>8. CASE CallFails
  BY <1>8 DEF CallFails, RequeueClaimed, RowDone, tick
<1>9. CASE CallRaises
  BY <1>9 DEF CallRaises, tick
<1>10. CASE AnswerLost
  BY <1>10 DEF AnswerLost, RequeueClaimed, RowDone, tick
<1>11. CASE Stop
  BY <1>11 DEF Stop, tick
<1>12. CASE UNCHANGED <<at, batch, cur, performed>>
  BY <1>12
<1>13. ASSUME
     \/ \E i \in Issues : \/ PostAnswer(i) \/ ScheduleClose(i) \/ WindowEnds(i)
                         \/ Reply(i) \/ Reopen(i) \/ VoteDown(i)
     \/ (\E i \in Issues, how \in {"closed", "gone"} : CloseExternally(i, how))
     \/ UNCHANGED vars
     PROVE UNCHANGED <<at, batch, cur, performed>>
  BY <1>13 DEF PostAnswer, ScheduleClose, WindowEnds, Reply, Reopen, VoteDown,
     CloseExternally, vars, tick
<1> QED
  BY <1>1, <1>2, <1>3, <1>4, <1>5, <1>6, <1>7, <1>8, <1>9, <1>10, <1>11, <1>12,
     <1>13
     DEF Next, People, Scheduler

(* Only Closed writes 'closed', after CloseIssue on the same row.             *)
LEMMA ClosedIsClosedStep == CloseInv /\ TypeOK' /\ [Next]_vars => ClosedIsClosed'
<1> SUFFICES ASSUME CloseInv, TypeOK', [Next]_vars PROVE ClosedIsClosed'
  OBVIOUS
<1> USE CloseAssumption DEF CloseInv, TypeOK, ClosedIsClosed
<1>1. ASSUME NEW i \in Issues, ScheduleClose(i) PROVE ClosedIsClosed'
  BY <1>1 DEF ScheduleClose, Upserted, tick
<1>2. ASSUME NEW i \in Issues, WindowEnds(i) PROVE ClosedIsClosed'
  BY <1>2 DEF WindowEnds, tick
<1>3. ASSUME NEW i \in Issues, Reply(i) PROVE ClosedIsClosed'
  BY <1>3 DEF Reply, CancelPending, tick
<1>4. ASSUME NEW i \in Issues, NEW how \in {"closed", "gone"}, CloseExternally(i, how)
     PROVE ClosedIsClosed'
  BY <1>4 DEF CloseExternally, CancelPending, tick
<1>5. CASE Tick
  BY <1>5 DEF Tick, Due, tick
<1>6. CASE Reactions
  BY <1>6 DEF Reactions, Finalize, RowDone, tick
<1>7. CASE CloseIssue
  BY <1>7 DEF CloseIssue, tick
<1>8. CASE Closed
  BY <1>8 DEF Closed, Finalize, TickInv
<1>9. CASE IssueGone
  BY <1>9 DEF IssueGone, Finalize, RowDone, tick
<1>10. CASE CallFails
  BY <1>10 DEF CallFails, RequeueClaimed, RowDone, tick
<1>11. CASE AnswerLost
  BY <1>11 DEF AnswerLost, RequeueClaimed, RowDone, tick
<1>12. CASE UNCHANGED <<closure, performed>>
  BY <1>12
<1>13. ASSUME
     \/ (\E i \in Issues : PostAnswer(i) \/ Reopen(i) \/ VoteDown(i) \/ ProcessRow(i))
     \/ Start \/ CallRaises \/ Stop \/ UNCHANGED vars
     PROVE UNCHANGED <<closure, performed>>
  BY <1>13 DEF PostAnswer, Reopen, VoteDown, Start, ProcessRow, CallRaises, Stop,
     vars, tick
<1> QED
  BY <1>1, <1>2, <1>3, <1>4, <1>5, <1>6, <1>7, <1>8, <1>9, <1>10, <1>11, <1>12,
     <1>13
     DEF Next, People, Scheduler

(* A renewed schedule is about a newer answer than the one tick() claimed.    *)
LEMMA AnswerInvStep == CloseInv /\ TypeOK' /\ [Next]_vars => AnswerInv'
<1> SUFFICES ASSUME CloseInv, TypeOK', [Next]_vars PROVE AnswerInv'
  OBVIOUS
<1> USE CloseAssumption DEF CloseInv, TypeOK, AnswerInv, InHand
<1>1. ASSUME NEW i \in Issues, PostAnswer(i) PROVE AnswerInv'
  BY <1>1 DEF PostAnswer, tick
<1>2. ASSUME NEW i \in Issues, ScheduleClose(i) PROVE AnswerInv'
  BY <1>2 DEF ScheduleClose, Upserted, tick
<1>3. ASSUME NEW i \in Issues, WindowEnds(i) PROVE AnswerInv'
  BY <1>3 DEF WindowEnds, tick
<1>4. ASSUME NEW i \in Issues, Reply(i) PROVE AnswerInv'
  BY <1>4 DEF Reply, CancelPending, tick
<1>5. ASSUME NEW i \in Issues, NEW how \in {"closed", "gone"}, CloseExternally(i, how)
     PROVE AnswerInv'
  BY <1>5 DEF CloseExternally, CancelPending, tick
<1>6. CASE Tick
  BY <1>6 DEF Tick, Due, tick
<1>7. ASSUME NEW i \in Issues, ProcessRow(i) PROVE AnswerInv'
  BY <1>7 DEF ProcessRow, tick
<1>8. CASE Reactions
  <2>1. CASE watched[cur] \in votes[cur]
    BY <1>8, <2>1 DEF Reactions, Finalize, RowDone, TickInv
  <2>2. CASE watched[cur] \notin votes[cur]
    BY <1>8, <2>2 DEF Reactions
  <2> QED
    BY <2>1, <2>2
<1>9. CASE Closed
  BY <1>9 DEF Closed, Finalize, RowDone, TickInv
<1>10. CASE IssueGone
  BY <1>10 DEF IssueGone, Finalize, RowDone, TickInv
<1>11. CASE CallFails
  BY <1>11 DEF CallFails, RequeueClaimed, RowDone, TickInv
<1>12. CASE CallRaises
  BY <1>12 DEF CallRaises, tick
<1>13. CASE AnswerLost
  BY <1>13 DEF AnswerLost, RequeueClaimed, RowDone, TickInv
<1>14. CASE Stop
  BY <1>14 DEF Stop, tick
<1>15. CASE UNCHANGED <<closure, answers, posting, batch, cur, watched>>
  BY <1>15
<1>16. ASSUME
     \/ (\E i \in Issues : Reopen(i) \/ VoteDown(i)) \/ Start \/ CloseIssue
     \/ UNCHANGED vars
     PROVE UNCHANGED <<closure, answers, posting, batch, cur, watched>>
  BY <1>16 DEF Reopen, VoteDown, Start, CloseIssue, vars, tick
<1> QED
  BY <1>1, <1>2, <1>3, <1>4, <1>5, <1>6, <1>7, <1>8, <1>9, <1>10, <1>11, <1>12,
     <1>13, <1>14, <1>15, <1>16
     DEF Next, People, Scheduler

(* A handled reply ends the life of its row; a claimed row has none.          *)
LEMMA ReplyInvStep == CloseInv /\ TypeOK' /\ [Next]_vars => ReplyInv'
<1> SUFFICES ASSUME CloseInv, TypeOK', [Next]_vars PROVE ReplyInv'
  OBVIOUS
<1> USE CloseAssumption DEF CloseInv, TypeOK, ReplyInv, InHand
<1>1. ASSUME NEW i \in Issues, ScheduleClose(i) PROVE ReplyInv'
  <2>1. closure[i].comment < answers[i] /\ closure'[i].comment = answers[i]
    BY <1>1 DEF ScheduleClose, Upserted, AnswerInv
  <2>2. \A c \in replied[i] : c \in Int /\ c < answers[i]
    BY <2>1
  <2>3. /\ closure' = [closure EXCEPT ![i] = closure'[i]]
        /\ UNCHANGED <<replied, batch, cur, watched>>
    BY <1>1 DEF ScheduleClose, tick
  <2> QED
    BY <2>1, <2>2, <2>3
<1>2. ASSUME NEW i \in Issues, WindowEnds(i) PROVE ReplyInv'
  BY <1>2 DEF WindowEnds, tick
<1>3. ASSUME NEW i \in Issues, Reply(i) PROVE ReplyInv'
  <2>1. /\ \A j \in Issues : closure'[j].comment = closure[j].comment
        /\ \A j \in Issues : j # i => closure'[j] = closure[j] /\ replied'[j] = replied[j]
        /\ UNCHANGED <<batch, cur, watched>>
    BY <1>3 DEF Reply, CancelPending, tick
  <2>2. CASE closure[i].state = "claimed"
    <3>1. closure'[i].state = "claimed" /\ replied'[i] = replied[i]
      BY <1>3, <2>2 DEF Reply, CancelPending
    <3> QED
      BY <2>1, <2>2, <3>1
  <2>3. CASE closure[i].state # "claimed"
    <3>1. /\ closure'[i].state \notin {"pending", "claimed"}
          /\ replied'[i] = replied[i] \cup {closure[i].comment}
      BY <1>3, <2>3 DEF Reply, CancelPending
    <3>2. i \in InHand => watched[i] # closure[i].comment
      BY <2>3 DEF AnswerInv
    <3> QED
      BY <2>1, <3>1, <3>2
  <2> QED
    BY <2>2, <2>3
<1>4. ASSUME NEW i \in Issues, NEW how \in {"closed", "gone"}, CloseExternally(i, how)
     PROVE ReplyInv'
  BY <1>4 DEF CloseExternally, CancelPending, tick
<1>5. CASE Tick
  BY <1>5 DEF Tick, Due, tick
<1>6. ASSUME NEW i \in Issues, ProcessRow(i) PROVE ReplyInv'
  BY <1>6 DEF ProcessRow, tick
<1>7. CASE Reactions
  BY <1>7 DEF Reactions, Finalize, RowDone, tick
<1>8. CASE Closed
  BY <1>8 DEF Closed, Finalize, RowDone, tick
<1>9. CASE IssueGone
  BY <1>9 DEF IssueGone, Finalize, RowDone, tick
<1>10. CASE CallFails
  BY <1>10 DEF CallFails, RequeueClaimed, RowDone, tick
<1>11. CASE CallRaises
  BY <1>11 DEF CallRaises, tick
<1>12. CASE AnswerLost
  BY <1>12 DEF AnswerLost, RequeueClaimed, RowDone, tick
<1>13. CASE Stop
  BY <1>13 DEF Stop, tick
<1>14. CASE UNCHANGED <<replied, closure, batch, cur, watched>>
  BY <1>14
<1>15. ASSUME
     \/ (\E i \in Issues : PostAnswer(i) \/ Reopen(i) \/ VoteDown(i)) \/ Start
     \/ CloseIssue \/ UNCHANGED vars
     PROVE UNCHANGED <<replied, closure, batch, cur, watched>>
  BY <1>15 DEF PostAnswer, Reopen, VoteDown, Start, CloseIssue, vars, tick
<1> QED
  BY <1>1, <1>2, <1>3, <1>4, <1>5, <1>6, <1>7, <1>8, <1>9, <1>10, <1>11, <1>12,
     <1>13, <1>14, <1>15
     DEF Next, People, Scheduler

(* The empty table satisfies the invariant. *)
LEMMA InitCloseInv == Init => CloseInv
<1> USE CloseAssumption
<1> SUFFICES ASSUME Init PROVE CloseInv
  OBVIOUS
<1>1. TypeOK
  <2>1. closure \in [Issues -> [state : {"absent", "pending", "claimed", "closed", "cancelled"},
                                comment : 0..MaxAnswers, window : {"open", "over"}]]
    BY DEF Init, NoClosure
  <2>2. /\ github \in [Issues -> {"open", "closed", "gone"}]
        /\ answers \in [Issues -> 0..MaxAnswers] /\ watched \in [Issues -> 0..MaxAnswers]
        /\ faults \in 0..MaxFaults /\ stops \in 0..MaxStops
    BY DEF Init
  <2>3. /\ posting \in [Issues -> BOOLEAN] /\ votes \in [Issues -> SUBSET (0..MaxAnswers)]
        /\ replied \in [Issues -> SUBSET (0..MaxAnswers)]
    BY DEF Init
  <2> QED
    BY <2>1, <2>2, <2>3, Zenon DEF Init, TypeOK
<1>2. TickInv /\ ClosedIsClosed /\ AnswerInv /\ ReplyInv
  BY DEF Init, NoClosure, TickInv, ClosedIsClosed, AnswerInv, ReplyInv, InHand
<1> QED
  BY <1>1, <1>2 DEF CloseInv

(* Every step preserves the invariant. *)
LEMMA NextCloseInv == CloseInv /\ [Next]_vars => CloseInv'
BY CloseTypeStep, TickInvStep, ClosedIsClosedStep, AnswerInvStep, ReplyInvStep DEF CloseInv

-----------------------------------------------------------------------------
(* The theorems. *)

(* The table, the answers, the handled replies and the rows that             *)
(* AutocloseScheduler.tick holds agree in every reachable state.             *)
THEOREM CloseInvCorrect == Spec => []CloseInv
BY InitCloseInv, NextCloseInv, PTL DEF Spec

(* A row says 'closed' only after GitHub carried out the close, whatever     *)
(* fails, restarts, is reopened or is answered in between.                   *)
THEOREM ClosedIsClosedCorrect == Spec => []ClosedIsClosed
<1>1. CloseInv => ClosedIsClosed
  BY DEF CloseInv
<1> QED
  BY <1>1, CloseInvCorrect, PTL

(* A reply the webhook handled before the claim keeps the issue open.        *)
THEOREM ReplyKeepsOpenCorrect == Spec => ReplyKeepsOpen
<1>1. CloseInv /\ [Next]_vars => [\A i \in Issues :
         at = "close" /\ cur = i /\ github[i] = "open" /\ github'[i] = "closed" /\ at' = "closed"
             => watched[i] \notin replied[i]]_vars
  BY DEF CloseInv, ReplyInv, InHand
<1> QED
  BY <1>1, CloseInvCorrect, PTL DEF Spec, ReplyKeepsOpen
=============================================================================
