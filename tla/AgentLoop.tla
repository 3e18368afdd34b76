----------------------------- MODULE AgentLoop -----------------------------
(***************************************************************************)
(* The agent loop: runLoopBody of packages/agent/src/agent-loop.ts and the *)
(* Agent (agent.ts) that owns the steering and follow-up queues, starts    *)
(* runs and mirrors the loop's messages into its own transcript.           *)
(*                                                                         *)
(* A run alternates model calls, tool batches and queue polls.  Every      *)
(* await is a point where the user may steer, queue a follow-up, take a    *)
(* message back or abort, and where an aside (a background notification)   *)
(* may arrive.  A tool batch is one step here: ToolBatch shows that it     *)
(* answers every call exactly once.                                        *)
(***************************************************************************)
EXTENDS Integers, Sequences, SequencesExt

CONSTANTS
    MaxSent,      \* bound: leaky -> kind -> messages of that kind in a behaviour
    MaxTurns,     \* bound: leaky -> model calls, after which the provider only fails
    MaxPaused,    \* MAX_PAUSED_TURN_CONTINUATIONS (8 in the code)
    MaxLeaks      \* harmony retries and resumes before a leak is fatal (2)

Kinds == {"prompt", "steer", "follow", "aside"}

ASSUME LoopAssumption ==
    /\ MaxSent \in [BOOLEAN -> [Kinds -> Nat]] /\ MaxTurns \in [BOOLEAN -> Nat]
    /\ MaxPaused \in Nat /\ MaxLeaks \in Nat

VARIABLES
    pc,         \* where the loop awaits; "idle" between runs
    leaky,      \* the model is a target of the harmony-leak mitigation
    oneAtATime, \* steeringMode / followUpMode
    sent,       \* kind -> how many messages were handed to the agent
    steerQ, followQ, asideQ,   \* the queues, oldest first
    pending,    \* pendingMessages
    polled,     \* what the current boundary has dequeued so far
    taken,      \* history: messages the user took back or that went stale
    context,    \* currentContext.messages
    mirror,     \* Agent.state.messages
    more,       \* hasMoreToolCalls
    leaks,      \* harmonyRetryAttempt
    resumes,    \* harmonyTruncateResumeCount
    paused,     \* pausedTurnContinuations
    skipPoll,   \* skipInitialSteeringPoll
    aborted,    \* the run's abort signal
    ended,      \* how the last run ended: "none", "stop", "failed", "threw"
    turns,      \* history: model calls
    barren,     \* history: model calls since the last tool call or new message
    mark        \* history: sent at the last steering and follow-up polls

queues   == <<steerQ, followQ, asideQ>>
counters == <<leaks, resumes, paused>>
log      == <<context, mirror>>
config   == <<leaky, oneAtATime>>
vars == <<pc, config, sent, queues, pending, polled, taken, log, more,
          counters, skipPoll, aborted, ended, turns, barren, mark>>

PCs == {"idle", "initialPoll", "top", "call", "tools", "turnEnd", "pollAside",
        "beforeYield", "lateAside", "lateFollow"}

Init ==
    /\ pc = "idle" /\ leaky \in BOOLEAN /\ oneAtATime \in BOOLEAN
    /\ sent = [k \in Kinds |-> 0]
    /\ steerQ = <<>> /\ followQ = <<>> /\ asideQ = <<>>
    /\ pending = <<>> /\ polled = <<>> /\ taken = {}
    /\ context = <<>> /\ mirror = <<>>
    /\ more = FALSE /\ leaks = 0 /\ resumes = 0 /\ paused = 0
    /\ skipPoll = FALSE /\ aborted = FALSE /\ ended = "none"
    /\ turns = 0 /\ barren = 0 /\ mark = [steer |-> 0, follow |-> 0]

-----------------------------------------------------------------------------
(* Messages. *)

\* A transcript entry: a message <<kind, number>>, an assistant message
\* <<"assistant", tool calls>>, a tool result <<"result", call>> or an
\* assistant message thrown away after a leak <<"discarded", tool calls>>.
Role(entry) == IF entry[1] \in Kinds THEN "user" ELSE entry[1]

\* The tool results of an assistant message with n calls.
Answers(n) == [i \in 1..n |-> <<"result", i>>]

\* #runLoop consumes the event stream: message_end appends to the transcript.
Mirror(entries) == mirror' = mirror \o entries

\* Messages the loop emits enter its context and the agent's transcript.
Commit(entries) == context' = context \o entries /\ Mirror(entries)

\* A failed or aborted response: the n calls that survive it are the complete
\* ones or, after an abort with a reason, all of those that were streamed.
FailedMessage(n) == <<"assistant", n>>

\* #dequeueSteeringMessages / #dequeueFollowUpMessages.
Dequeued(q) ==
    IF oneAtATime THEN SubSeq(q, 1, IF q = <<>> THEN 0 ELSE 1) ELSE q

\* A mutant of LeftOver: one-at-a-time clears the whole queue.
LeftOverNone(q) == <<>>

LeftOver(q) == SubSeq(q, Len(Dequeued(q)) + 1, Len(q))

-----------------------------------------------------------------------------
(* Starting a run: Agent.prompt, Agent.continue, #runLoop, agentLoop. *)

\* agentLoop and agentLoopContinue: a context of the transcript and, for
\* prompts, the messages they are given, which are emitted.
StartContext(msgs) == context' = mirror \o msgs /\ Mirror(msgs)

\* #runLoop: a fresh abort controller, and the loop's own counters.
Begin(msgs, skip) ==
    /\ pc' = "initialPoll"
    /\ StartContext(msgs)
    /\ pending' = <<>> /\ polled' = <<>> /\ more' = TRUE
    /\ leaks' = 0 /\ resumes' = 0 /\ paused' = 0
    /\ skipPoll' = skip /\ aborted' = FALSE
    /\ barren' = 0
    /\ UNCHANGED <<config, asideQ, taken, ended, turns, mark>>

Prompt ==
    /\ pc = "idle" /\ sent["prompt"] < MaxSent[leaky]["prompt"]
    /\ sent' = [sent EXCEPT !["prompt"] = @ + 1]
    /\ Begin(<< <<"prompt", sent'["prompt"]>> >>, FALSE)
    /\ UNCHANGED <<steerQ, followQ>>

\* Agent.continue: from an assistant message only with something queued.
Continue ==
    /\ pc = "idle" /\ mirror # <<>>
    /\ \/ /\ Role(Last(mirror)) \in {"assistant", "discarded"} /\ steerQ # <<>>
          /\ Begin(Dequeued(steerQ), TRUE)
          /\ steerQ' = LeftOver(steerQ) /\ UNCHANGED followQ
       \/ /\ Role(Last(mirror)) \in {"assistant", "discarded"}
          /\ steerQ = <<>> /\ followQ # <<>>
          /\ Begin(Dequeued(followQ), FALSE)
          /\ followQ' = LeftOver(followQ) /\ UNCHANGED steerQ
       \/ /\ Role(Last(mirror)) \in {"user", "result"} /\ turns < MaxTurns[leaky]
          /\ Begin(<<>>, FALSE)
          /\ UNCHANGED <<steerQ, followQ>>
    /\ UNCHANGED sent

-----------------------------------------------------------------------------
(* The loop, cut at its awaits. *)

\* The test of the inner while loop.
WhileTest(m, p) == IF m \/ p # <<>> THEN "top" ELSE "beforeYield"

\* A mutant of PollSteering: the queue is drained into an aborted run.
PollSteeringUnchecked ==
    /\ polled' = IF skipPoll THEN <<>> ELSE Dequeued(steerQ)
    /\ steerQ' = IF skipPoll THEN steerQ ELSE LeftOver(steerQ)
    /\ skipPoll' = FALSE
    /\ mark' = [mark EXCEPT !.steer = sent["steer"]]

\* A steering poll; aborted runs leave the queue alone.
PollSteering ==
    /\ polled' = IF aborted \/ skipPoll THEN <<>> ELSE Dequeued(steerQ)
    /\ steerQ' = IF aborted \/ skipPoll THEN steerQ ELSE LeftOver(steerQ)
    /\ skipPoll' = (skipPoll /\ aborted)
    /\ mark' = [mark EXCEPT !.steer = sent["steer"]]

InitialPoll ==
    /\ pc = "initialPoll"
    /\ PollSteering
    /\ pending' = polled' /\ pc' = "top"
    /\ UNCHANGED <<config, sent, followQ, asideQ, taken, log, more,
                   counters, aborted, ended, turns, barren>>

\* The top of an iteration: inject what is pending.
Inject ==
    /\ pc = "top"
    /\ Commit(pending)
    /\ pending' = <<>> /\ polled' = <<>> /\ pc' = "call"
    /\ barren' = IF pending = <<>> THEN barren ELSE 0
    /\ UNCHANGED <<config, sent, queues, taken, more, counters, skipPoll,
                   aborted, ended, turns, mark>>

\* A hook or the provider throws: Agent.#runLoop appends an error message.
Throws ==
    /\ pc \in {"call", "turnEnd", "beforeYield"}
    /\ pc = "turnEnd" => ~aborted
    /\ mirror' = Append(mirror, <<"assistant", 0>>)
    /\ pc' = "idle" /\ ended' = "threw"
    /\ UNCHANGED <<config, sent, queues, pending, polled, taken, context,
                   more, counters, skipPoll, aborted, turns, barren, mark>>

Called == pc = "call" /\ turns' = IF turns < MaxTurns[leaky] THEN turns + 1 ELSE turns

\* The response failed or was aborted: its calls get placeholder results.
Fails(n) ==
    /\ Called
    /\ Commit(<<FailedMessage(n)>> \o Answers(n))
    /\ leaks' = 0 /\ resumes' = 0
    /\ pc' = "idle" /\ ended' = "failed"
    /\ UNCHANGED <<config, sent, queues, pending, polled, taken, more,
                   paused, skipPoll, aborted, barren, mark>>

\* A mutant of AfterResponse: a paused turn is continued without a limit.
AfterResponseUnbounded(stop, n, pause) ==
    LET runs   == n > 0 /\ stop # "length"
        resume == n = 0 /\ stop = "stop" /\ pause IN
    /\ more' = (n > 0 \/ resume)
    /\ paused' = IF n > 0 THEN 0 ELSE paused
    /\ barren' = IF n > 0 THEN 0 ELSE barren + 1
    /\ pc' = IF runs THEN "tools" ELSE "turnEnd"

\* A mutant of AfterResponse: truncated calls do not continue the loop.
AfterResponseStopsOnLength(stop, n, pause) ==
    /\ more' = (n > 0 /\ stop # "length")
    /\ barren' = IF n > 0 THEN 0 ELSE barren + 1
    /\ pc' = IF n > 0 /\ stop # "length" THEN "tools" ELSE "turnEnd"
    /\ UNCHANGED paused

\* What follows a response: run its tools, answer truncated calls with
\* placeholders, or continue a paused turn.
AfterResponse(stop, n, pause) ==
    LET runs   == n > 0 /\ stop # "length"
        resume == n = 0 /\ stop = "stop" /\ pause /\ paused < MaxPaused IN
    /\ more' = (n > 0 \/ resume)
    /\ paused' = IF n > 0 THEN 0 ELSE IF resume THEN paused + 1 ELSE paused
    /\ barren' = IF n > 0 THEN 0 ELSE barren + 1
    /\ pc' = IF runs THEN "tools" ELSE "turnEnd"

\* A mutant of Placeholders: truncated calls stay unanswered.
PlaceholdersMissing(stop, n) == <<>>

\* The placeholders a truncated response leaves right away.
Placeholders(stop, n) == IF stop = "length" THEN Answers(n) ELSE <<>>

Responds(stop, n, pause) ==
    /\ Called /\ ~aborted /\ turns < MaxTurns[leaky]
    /\ Commit(<< <<"assistant", n>> >> \o Placeholders(stop, n))
    /\ AfterResponse(stop, n, pause)
    /\ leaks' = 0 /\ resumes' = 0
    /\ UNCHANGED <<config, sent, queues, pending, polled, taken, skipPoll,
                   aborted, ended, mark>>

\* The partial that streamed before a leak was detected: popped from the
\* context, but its message_end reaches the transcript.
Discard(n, shown) ==
    mirror' = IF shown THEN Append(mirror, <<"discarded", n>>) ELSE mirror

\* A leak that cannot be recovered is retried: continue with the while test.
LeakRetries(n, shown) ==
    /\ leaky /\ Called /\ ~aborted /\ turns < MaxTurns[leaky] /\ leaks < MaxLeaks
    /\ Discard(n, shown) /\ UNCHANGED context
    /\ leaks' = leaks + 1
    /\ barren' = barren + 1
    /\ pc' = WhileTest(more, pending)
    /\ UNCHANGED <<config, sent, queues, pending, polled, taken, more,
                   resumes, paused, skipPoll, aborted, ended, mark>>

\* A leak inside an edit or eval call: the cleaned call is run.
LeakResumes(shown) ==
    /\ leaky /\ Called /\ ~aborted /\ turns < MaxTurns[leaky] /\ resumes < MaxLeaks
    /\ context' = Append(context, <<"assistant", 1>>)
    /\ mirror' = (IF shown THEN Append(mirror, <<"discarded", 1>>) ELSE mirror)
                   \o << <<"assistant", 1>> >>
    /\ resumes' = resumes + 1
    /\ AfterResponse("toolUse", 1, FALSE)
    /\ UNCHANGED <<config, sent, queues, pending, polled, taken, leaks,
                   skipPoll, aborted, ended, mark>>

\* A leak after the last retry or resume ends the run with an error.
LeakEscalates(shown) ==
    /\ leaky /\ Called /\ ~aborted /\ turns < MaxTurns[leaky]
    /\ leaks >= MaxLeaks \/ resumes >= MaxLeaks
    /\ mirror' = (IF shown THEN Append(mirror, <<"discarded", 1>>) ELSE mirror)
                   \o << <<"assistant", 0>> >>
    /\ pc' = "idle" /\ ended' = "threw"
    /\ UNCHANGED <<config, sent, queues, pending, polled, taken, context,
                   more, counters, skipPoll, aborted, barren, mark>>

\* executeToolCalls: every call of the last message is answered.
RunTools ==
    /\ pc = "tools"
    /\ Commit(Answers(Last(context)[2]))
    /\ pc' = "turnEnd"
    /\ UNCHANGED <<config, sent, queues, pending, polled, taken, more,
                   counters, skipPoll, aborted, ended, turns, barren, mark>>

\* emitTurnEnd, then the steering poll of the turn boundary.
TurnEnd ==
    /\ pc = "turnEnd"
    /\ PollSteering
    /\ IF more THEN pc' = "pollAside" /\ UNCHANGED pending
               ELSE pc' = WhileTest(FALSE, polled') /\ pending' = polled'
    /\ UNCHANGED <<config, sent, followQ, asideQ, taken, log, more,
                   counters, aborted, ended, turns, barren>>

\* resolveAsides: each aside is injected or dropped as stale.
TakeAsides(keep) ==
    /\ asideQ' = <<>>
    /\ polled' = polled \o (IF keep THEN asideQ ELSE <<>>)
    /\ taken' = IF keep THEN taken ELSE taken \cup ToSet(asideQ)

PollAside(keep) ==
    /\ pc = "pollAside"
    /\ TakeAsides(keep)
    /\ pending' = polled' /\ pc' = "top"
    /\ UNCHANGED <<config, sent, steerQ, followQ, log, more, counters,
                   skipPoll, aborted, ended, turns, barren, mark>>

\* A mutant of BeforeYield: no late poll.
BeforeYieldNoPoll ==
    /\ pc = "beforeYield"
    /\ pc' = "lateAside"
    /\ polled' = <<>>
    /\ mark' = [mark EXCEPT !.steer = sent["steer"]]
    /\ UNCHANGED <<config, sent, queues, pending, taken, log, more,
                   counters, skipPoll, aborted, ended, turns, barren>>

\* onBeforeYield, then the late steering poll.
BeforeYield ==
    /\ pc = "beforeYield"
    /\ PollSteering
    /\ pc' = "lateAside"
    /\ UNCHANGED <<config, sent, followQ, asideQ, pending, taken, log,
                   more, counters, aborted, ended, turns, barren>>

LateAside(keep) ==
    /\ pc = "lateAside"
    /\ IF aborted THEN UNCHANGED <<asideQ, polled, taken>> ELSE TakeAsides(keep)
    /\ pc' = "lateFollow"
    /\ UNCHANGED <<config, sent, steerQ, followQ, pending, log, more,
                   counters, skipPoll, aborted, ended, turns, barren, mark>>

\* The follow-up poll and the decision to go on or to stop.
LateFollow ==
    /\ pc = "lateFollow"
    /\ LET follow == IF aborted THEN <<>> ELSE Dequeued(followQ)
           all    == polled \o follow IN
       /\ followQ' = IF aborted THEN followQ ELSE LeftOver(followQ)
       /\ mark' = [mark EXCEPT !.follow = sent["follow"]]
       /\ pending' = all /\ polled' = <<>>
       /\ IF all # <<>>
            THEN more' = TRUE /\ pc' = "top" /\ UNCHANGED ended
            ELSE pc' = "idle" /\ ended' = "stop" /\ UNCHANGED more
    /\ UNCHANGED <<config, sent, steerQ, asideQ, taken, log, counters,
                   skipPoll, aborted, turns, barren>>

-----------------------------------------------------------------------------
(* The user and the background producers. *)

\* steer, followUp, and the producers behind getAsideMessages.
Arrive(k) ==
    /\ sent[k] < MaxSent[leaky][k]
    /\ sent' = [sent EXCEPT ![k] = @ + 1]
    /\ steerQ' = IF k = "steer" THEN Append(steerQ, <<k, sent'[k]>>) ELSE steerQ
    /\ followQ' = IF k = "follow" THEN Append(followQ, <<k, sent'[k]>>) ELSE followQ
    /\ asideQ' = IF k = "aside" THEN Append(asideQ, <<k, sent'[k]>>) ELSE asideQ
    /\ UNCHANGED <<pc, config, pending, polled, taken, log, more, counters,
                   skipPoll, aborted, ended, turns, barren, mark>>

\* popLastSteer / popLastFollowUp.
TakeBack ==
    /\ \/ /\ steerQ # <<>>
          /\ steerQ' = Front(steerQ) /\ taken' = taken \cup {Last(steerQ)}
          /\ UNCHANGED followQ
       \/ /\ followQ # <<>>
          /\ followQ' = Front(followQ) /\ taken' = taken \cup {Last(followQ)}
          /\ UNCHANGED steerQ
    /\ UNCHANGED <<pc, config, sent, asideQ, pending, polled, log, more,
                   counters, skipPoll, aborted, ended, turns, barren, mark>>

\* clearAllQueues.
ClearAllQueues ==
    /\ steerQ \o followQ # <<>>
    /\ taken' = taken \cup ToSet(steerQ) \cup ToSet(followQ)
    /\ steerQ' = <<>> /\ followQ' = <<>>
    /\ UNCHANGED <<pc, config, sent, asideQ, pending, polled, log, more,
                   counters, skipPoll, aborted, ended, turns, barren, mark>>

Abort ==
    /\ pc # "idle" /\ ~aborted
    /\ aborted' = TRUE
    /\ UNCHANGED <<pc, config, sent, queues, pending, polled, taken, log,
                   more, counters, skipPoll, ended, turns, barren, mark>>

\* Between runs with nothing left to say.
Rest == pc = "idle" /\ UNCHANGED vars

Loop ==
    \/ InitialPoll \/ Inject \/ Throws \/ RunTools \/ TurnEnd \/ BeforeYield
    \/ LateFollow
    \/ \E n \in 0..1 : Fails(n)
    \/ \E stop \in {"stop", "toolUse", "length"}, n \in 0..2, pause \in BOOLEAN :
          /\ (stop = "toolUse" => n > 0) /\ (pause => stop = "stop" /\ n = 0)
          /\ Responds(stop, n, pause)
    \/ \E n \in 0..1, shown \in BOOLEAN : LeakRetries(n, shown)
    \/ \E shown \in BOOLEAN : LeakResumes(shown) \/ LeakEscalates(shown)
    \/ \E keep \in BOOLEAN : PollAside(keep) \/ LateAside(keep)

Next ==
    \/ Prompt \/ Continue \/ Loop
    \/ \E k \in {"steer", "follow", "aside"} : Arrive(k)
    \/ TakeBack \/ ClearAllQueues \/ Abort \/ Rest

Spec == Init /\ [][Next]_vars

-----------------------------------------------------------------------------
(* Properties. *)

TypeOK ==
    /\ pc \in PCs /\ leaky \in BOOLEAN /\ oneAtATime \in BOOLEAN
    /\ sent \in [Kinds -> Nat] /\ \A k \in Kinds : sent[k] <= MaxSent[leaky][k]
    /\ more \in BOOLEAN /\ skipPoll \in BOOLEAN /\ aborted \in BOOLEAN
    /\ leaks \in 0..MaxLeaks /\ resumes \in 0..MaxLeaks /\ paused \in 0..MaxPaused
    /\ ended \in {"none", "stop", "failed", "threw"}
    /\ turns \in 0..MaxTurns[leaky] /\ barren \in Nat
    /\ mark \in [steer : Nat, follow : Nat]

\* What the loop has dequeued and not injected yet.
Held ==
    IF pc \in {"top", "call"} THEN pending
    ELSE IF pc \in {"pollAside", "lateAside", "lateFollow"} THEN polled ELSE <<>>

\* The messages handed to the agent, and the line in which they wait or stand.
Handed == UNION {{k} \X (1..sent[k]) : k \in Kinds}
Line   == mirror \o Held \o steerQ \o followQ \o asideQ

InLine == {entry \in ToSet(Line) : entry[1] \in Kinds}

(* Every message handed to the agent is in exactly one place: a queue, the   *)
(* batch the loop has just dequeued, the transcript, or taken back. No poll  *)
(* loses, duplicates or invents one, in either queue mode, aborted or not.   *)
Conserved ==
    /\ InLine \cup taken = Handed /\ InLine \cap taken = {}
    /\ \A i, j \in DOMAIN Line :
         Line[i] = Line[j] /\ Line[i][1] \in Kinds => i = j

(* Steering messages reach the transcript in the order the user queued them, *)
(* and so do follow-ups.                                                     *)
InOrder ==
    \A i, j \in 1..Len(mirror) :
        i < j /\ mirror[i][1] = mirror[j][1] /\ mirror[i][1] \in Kinds
            => mirror[i][2] < mirror[j][2]

(* No message is lost, doubled, invented or reordered on its way from the   *)
(* user through queues, polls and runs into the transcript.                 *)
LoopInv == TypeOK /\ Conserved /\ InOrder

\* Position i of s holds an assistant message whose calls are all answered
\* right after it.
AnsweredAt(s, i) ==
    \A n \in 1..s[i][2] : i + n <= Len(s) /\ s[i + n] = <<"result", n>>

(* Whenever the model is called, and whenever a run is over, each assistant  *)
(* message in the context is followed by the results of all its tool calls,  *)
(* and there is no result without its call.                                  *)
Paired ==
    pc # "tools" =>
        /\ \A i \in 1..Len(context) :
             context[i][1] = "assistant" => AnsweredAt(context, i)
        /\ \A i \in 1..Len(context) :
             context[i][1] = "result" =>
               \E j \in 1..(i - 1) : context[j][1] = "assistant" /\ i - j <= context[j][2]

(* An aborted run leaves the steering and follow-up queues to the next run:  *)
(* the loop takes nothing out of them once the signal is aborted.            *)
AbortKeepsQueues ==
    [][aborted /\ pc # "idle" /\ taken' = taken
         => IsPrefix(steerQ, steerQ') /\ IsPrefix(followQ, followQ')]_vars

(* A run that stops on its own has seen the queues: what is still queued     *)
(* arrived after the last poll of that queue.                                *)
NotStranded ==
    pc = "idle" /\ ended = "stop" /\ ~aborted
        => /\ \A i \in 1..Len(steerQ) : steerQ[i][2] > mark.steer
           /\ \A i \in 1..Len(followQ) : followQ[i][2] > mark.follow

(* The loop never spins: without a tool call or a new message it calls the   *)
(* model at most (paused turns + 1) times, each with its leak retries.       *)
BarrenBound == barren <= (MaxPaused + 1) * (MaxLeaks + 1)

(* A run that stops on its own ends with the assistant's answer: no injected *)
(* message is left without a response, unless the last response was thrown   *)
(* away for a leak.                                                          *)
AnsweredAtStop ==
    pc = "idle" /\ ended = "stop" /\ ~aborted /\ leaks = 0
        => Role(Last(context)) = "assistant"
=============================================================================
