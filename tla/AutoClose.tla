----------------------------- MODULE AutoClose -----------------------------
(***************************************************************************)
(* robomp's auto-close of answered question issues: the pending_closures   *)
(* table (db.py), the AutocloseScheduler that works through it             *)
(* (autoclose.py), the tool that answers an issue and schedules its close  *)
(* (host_tools.py) and the webhook that cancels it (server.py).            *)
(*                                                                         *)
(* The scheduler claims every due row in one transaction and then resolves *)
(* them one by one, with two GitHub calls each; answers, replies, votes,   *)
(* closes by others, failed calls and the end of the process fall between. *)
(***************************************************************************)
EXTENDS Integers

CONSTANTS
    Issues,       \* question issues, by issue_key
    None,         \* no issue
    MaxAnswers,   \* bound: answers the bot posts on an issue
    MaxFaults,    \* bound: GitHub calls that fail
    MaxStops,     \* bound: times the process ends
    CallsRaise    \* a GitHub call may fail with an error that is no GitHubError

ASSUME CloseAssumption ==
    /\ None \notin Issues /\ MaxAnswers \in Nat /\ MaxFaults \in Nat
    /\ MaxStops \in Nat /\ CallsRaise \in BOOLEAN

VARIABLES
    closure,    \* issue -> its pending_closures row
    github,     \* issue -> "open", "closed" or "gone" on GitHub
    answers,    \* issue -> answers posted; they number the bot's comments
    posting,    \* issue -> an answer is posted but not yet scheduled
    votes,      \* issue -> the answers its author voted down
    at,         \* the scheduler: where tick() awaits
    batch,      \* the claimed rows tick() has yet to resolve
    cur,        \* the one it is resolving
    watched,    \* issue -> the comment_id in the row tick() claimed
    replied,    \* history: issue -> answers replied to before they were claimed
    performed,  \* history: issues GitHub closed for the scheduler since they were claimed
    faults, stops   \* history: failed calls, ends of the process

tick == <<at, batch, cur, watched>>
vars == <<closure, github, answers, posting, votes, tick, replied, performed, faults, stops>>

NoClosure == [state |-> "absent", comment |-> 0, window |-> "open"]

Init ==
    /\ closure = [i \in Issues |-> NoClosure]
    /\ github = [i \in Issues |-> "open"]
    /\ answers = [i \in Issues |-> 0] /\ posting = [i \in Issues |-> FALSE]
    /\ votes = [i \in Issues |-> {}]
    /\ at = "off" /\ batch = {} /\ cur = None /\ watched = [i \in Issues |-> 0]
    /\ replied = [i \in Issues |-> {}] /\ performed = {} /\ faults = 0 /\ stops = 0

-----------------------------------------------------------------------------
(* The pending_closures table. *)

\* upsert_pending_closure: a live schedule again, whatever the row was.
Upserted(comment) == [state |-> "pending", comment |-> comment, window |-> "open"]

Due(i) == closure[i].state = "pending" /\ closure[i].window = "over"

\* A mutant of CancelPending: the cancellation is not written.
CancelPendingLost(i) == UNCHANGED closure

\* cancel_pending_closure: a no-op unless the row is pending.
CancelPending(i) ==
    closure' = [closure EXCEPT ![i].state = IF @ = "pending" THEN "cancelled" ELSE @]

\* finalize_closure: unconditional.
Finalize(i, state) == closure' = [closure EXCEPT ![i].state = state]

\* requeue_claimed_closure.
RequeueClaimed(i) ==
    closure' = [closure EXCEPT ![i].state = IF @ = "claimed" THEN "pending" ELSE @]

-----------------------------------------------------------------------------
(* The bot, the issue's author and other people. *)

\* gh_post_comment, up to the answer on GitHub (the test of the issue's state
\* reads a row that lags behind GitHub, so a closed issue may be answered) ...
PostAnswer(i) ==
    /\ at # "off" /\ ~posting[i] /\ github[i] # "gone" /\ answers[i] < MaxAnswers
    /\ answers' = [answers EXCEPT ![i] = @ + 1]
    /\ posting' = [posting EXCEPT ![i] = TRUE]
    /\ UNCHANGED <<closure, github, votes, tick, replied, performed, faults, stops>>

\* ... and _schedule_autoclose.
ScheduleClose(i) ==
    /\ at # "off" /\ posting[i]
    /\ closure' = [closure EXCEPT ![i] = Upserted(answers[i])]
    /\ posting' = [posting EXCEPT ![i] = FALSE]
    /\ UNCHANGED <<github, answers, votes, tick, replied, performed, faults, stops>>

\* close_at passes.
WindowEnds(i) ==
    /\ closure[i].state # "absent" /\ closure[i].window = "open"
    /\ closure' = [closure EXCEPT ![i].window = "over"]
    /\ UNCHANGED <<github, answers, posting, votes, tick, replied, performed, faults, stops>>

\* The webhook handler on a follow-up comment.
Reply(i) ==
    /\ at # "off" /\ closure[i].state # "absent"
    /\ CancelPending(i)
    /\ replied' = [replied EXCEPT ![i] = IF closure[i].state = "claimed" THEN @
                                         ELSE @ \cup {closure[i].comment}]
    /\ UNCHANGED <<github, answers, posting, votes, tick, performed, faults, stops>>

\* Someone closes or deletes the issue, and the webhook handler hears of it.
CloseExternally(i, how) ==
    /\ at # "off" /\ github[i] # "gone" /\ github[i] # how
    /\ github' = [github EXCEPT ![i] = how]
    /\ IF how = "closed" THEN CancelPending(i) ELSE UNCHANGED closure
    /\ UNCHANGED <<answers, posting, votes, tick, replied, performed, faults, stops>>

\* Someone reopens the issue, which no handler looks at.
Reopen(i) ==
    /\ github[i] = "closed"
    /\ github' = [github EXCEPT ![i] = "open"]
    /\ UNCHANGED <<closure, answers, posting, votes, tick, replied, performed, faults, stops>>

\* The author votes an answer down.
VoteDown(i) ==
    /\ answers[i] > 0 /\ answers[i] \notin votes[i]
    /\ votes' = [votes EXCEPT ![i] = @ \cup {answers[i]}]
    /\ UNCHANGED <<closure, github, answers, posting, tick, replied, performed, faults, stops>>

-----------------------------------------------------------------------------
(* The scheduler: start, _run, tick, _process_row, stop. *)

Start ==
    /\ at = "off" /\ at' = "sleep"
    /\ UNCHANGED <<closure, github, answers, posting, votes, batch, cur, watched,
                   replied, performed, faults, stops>>

\* claim_due_closures: all due rows become claimed.
Tick ==
    /\ at = "sleep"
    /\ batch' = {i \in Issues : Due(i)}
    /\ closure' = [i \in Issues |-> IF i \in batch' THEN [closure[i] EXCEPT !.state = "claimed"]
                                    ELSE closure[i]]
    /\ watched' = [i \in Issues |-> IF i \in batch' THEN closure[i].comment ELSE watched[i]]
    /\ performed' = performed \ batch'
    /\ at' = IF batch' = {} THEN "sleep" ELSE "next"
    /\ UNCHANGED <<github, answers, posting, votes, cur, replied, faults, stops>>

\* The next claimed row: list_comment_reactions is called.
ProcessRow(i) ==
    /\ at = "next" /\ i \in batch
    /\ cur' = i /\ batch' = batch \ {i} /\ at' = "reactions"
    /\ UNCHANGED <<closure, github, answers, posting, votes, watched, replied, performed, faults, stops>>

\* On to the next row, or to the wait for the next tick.
RowDone == cur' = None /\ at' = IF batch = {} THEN "sleep" ELSE "next"

\* A call fails with a GitHubError: the row goes back to pending.
CallFails ==
    /\ at \in {"reactions", "close"} /\ faults < MaxFaults
    /\ faults' = faults + 1
    /\ RequeueClaimed(cur) /\ RowDone
    /\ UNCHANGED <<github, answers, posting, votes, batch, watched, replied, performed, stops>>

\* A call fails otherwise (a timeout, no connection): tick() raises, _run logs it.
CallRaises ==
    /\ CallsRaise /\ at \in {"reactions", "close"} /\ faults < MaxFaults
    /\ faults' = faults + 1
    /\ at' = "sleep" /\ batch' = {} /\ cur' = None
    /\ UNCHANGED <<closure, github, answers, posting, votes, watched, replied, performed, stops>>

\* The reactions arrive: a thumbs-down of the author on the watched comment cancels.
Reactions ==
    /\ at = "reactions"
    /\ IF watched[cur] \in votes[cur]
         THEN Finalize(cur, "cancelled") /\ RowDone
         ELSE at' = "close" /\ UNCHANGED <<closure, cur>>
    /\ UNCHANGED <<github, answers, posting, votes, batch, watched, replied, performed, faults, stops>>

\* GitHub performs close_issue; its answer is on the way ...
CloseIssue ==
    /\ at = "close" /\ github[cur] # "gone"
    /\ github' = [github EXCEPT ![cur] = "closed"]
    /\ performed' = performed \cup {cur} /\ at' = "closed"
    /\ UNCHANGED <<closure, answers, posting, votes, batch, cur, watched, replied, faults, stops>>

\* ... and is lost: the row is retried although the issue is closed ...
AnswerLost ==
    /\ at = "closed" /\ faults < MaxFaults
    /\ faults' = faults + 1
    /\ RequeueClaimed(cur) /\ RowDone
    /\ UNCHANGED <<github, answers, posting, votes, batch, watched, replied, performed, stops>>

\* ... or arrives.
Closed ==
    /\ at = "closed"
    /\ Finalize(cur, "closed") /\ RowDone
    /\ UNCHANGED <<github, answers, posting, votes, batch, watched, replied, performed, faults, stops>>

\* A mutant of IssueGone: a 404 counts as closed.
IssueGoneIsClosed ==
    /\ at = "close" /\ github[cur] = "gone"
    /\ Finalize(cur, "closed") /\ RowDone
    /\ UNCHANGED <<github, answers, posting, votes, batch, watched, replied, performed, faults, stops>>

\* 404: finalized as already closed.
IssueGone ==
    /\ at = "close" /\ github[cur] = "gone"
    /\ Finalize(cur, "cancelled") /\ RowDone
    /\ UNCHANGED <<github, answers, posting, votes, batch, watched, replied, performed, faults, stops>>

\* stop() cancels the loop, or the process dies; the table stays as it is.
Stop ==
    /\ at # "off" /\ stops < MaxStops
    /\ stops' = stops + 1
    /\ at' = "off" /\ batch' = {} /\ cur' = None
    /\ posting' = [i \in Issues |-> FALSE]
    /\ UNCHANGED <<closure, github, answers, votes, watched, replied, performed, faults>>

-----------------------------------------------------------------------------

People ==
    \E i \in Issues :
        \/ PostAnswer(i) \/ ScheduleClose(i) \/ WindowEnds(i) \/ Reply(i) \/ Reopen(i) \/ VoteDown(i)
        \/ \E how \in {"closed", "gone"} : CloseExternally(i, how)

Scheduler ==
    \/ Start \/ Tick \/ (\E i \in Issues : ProcessRow(i))
    \/ Reactions \/ CloseIssue \/ Closed \/ IssueGone

Next == People \/ Scheduler \/ CallFails \/ CallRaises \/ AnswerLost \/ Stop

Spec == Init /\ [][Next]_vars

-----------------------------------------------------------------------------
(* Properties. *)

TypeOK ==
    /\ closure \in [Issues -> [state : {"absent", "pending", "claimed", "closed", "cancelled"},
                               comment : 0..MaxAnswers, window : {"open", "over"}]]
    /\ github \in [Issues -> {"open", "closed", "gone"}]
    /\ answers \in [Issues -> 0..MaxAnswers] /\ posting \in [Issues -> BOOLEAN]
    /\ votes \in [Issues -> SUBSET (0..MaxAnswers)]
    /\ at \in {"off", "sleep", "next", "reactions", "close", "closed"}
    /\ batch \subseteq Issues /\ cur \in Issues \cup {None}
    /\ cur \in Issues <=> at \in {"reactions", "close", "closed"}
    /\ watched \in [Issues -> 0..MaxAnswers]
    /\ replied \in [Issues -> SUBSET (0..MaxAnswers)]
    /\ performed \subseteq Issues
    /\ faults \in 0..MaxFaults /\ stops \in 0..MaxStops

(* The table never claims more than GitHub did: a row says 'closed' only if  *)
(* GitHub has carried out the close since the scheduler claimed the row,     *)
(* lost answers, a 404, a reopened issue and restarts notwithstanding.       *)
ClosedIsClosed == \A i \in Issues : closure[i].state = "closed" => i \in performed

(* A reply that the webhook handled before the row was claimed keeps the     *)
(* issue open: the scheduler never closes on the strength of that answer,    *)
(* across retries, restarts and new answers.                                 *)
ReplyKeepsOpen ==
    [][\A i \in Issues :
         at = "close" /\ cur = i /\ github[i] = "open" /\ github'[i] = "closed" /\ at' = "closed"
             => watched[i] \notin replied[i]]_vars

-----------------------------------------------------------------------------
(* The inductive invariant, in parts. *)

InHand == batch \cup {cur}    \* what tick() has claimed and not resolved

\* tick() holds rows only between its claim and its end, each once.
TickInv ==
    /\ at \in {"off", "sleep"} => batch = {}
    /\ cur \notin batch
    /\ at = "closed" => cur \in performed

\* The bot's comments are numbered upwards, and so are the rows' comments; a
\* row in hand is the one that was claimed or a renewed one.
AnswerInv ==
    \A i \in Issues :
        /\ closure[i].comment <= answers[i]
        /\ posting[i] => closure[i].comment < answers[i]
        /\ i \in InHand => \/ closure[i].state = "claimed" /\ closure[i].comment = watched[i]
                          \/ closure[i].comment > watched[i]

\* No live row, and no row in hand, is about an answer that was replied to.
ReplyInv ==
    \A i \in Issues :
        /\ \A c \in replied[i] : c <= closure[i].comment
        /\ closure[i].state \in {"pending", "claimed"} => closure[i].comment \notin replied[i]
        /\ i \in InHand => watched[i] \notin replied[i]

(* What every step preserves: the rows, the answers they are about, the      *)
(* replies handled and the rows tick() holds agree with each other.          *)
CloseInv == TypeOK /\ TickInv /\ ClosedIsClosed /\ AnswerInv /\ ReplyInv

-----------------------------------------------------------------------------
(* What autoclose.py promises and the code does not keep. *)

(* "A failed close requeues the row to pending": between ticks no row is     *)
(* left claimed.                                                             *)
NoOrphanClaim == at = "sleep" => \A i \in Issues : closure[i].state # "claimed"
=============================================================================
