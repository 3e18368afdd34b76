------------------------------ MODULE AgentBus ------------------------------
(***************************************************************************)
(* Subagents of omp that outlive their run, and the messages sent to them: *)
(* the registry of agents, the manager of their life cycle and the bus.    *)
(*                                                                         *)
(* A finished subagent stays registered.  After an idle time its session   *)
(* is disposed and the agent is parked; a message, or the user, revives it *)
(* from its file.  Parking, reviving and releasing await the disposal or   *)
(* the creation of a session, and messages arrive in between.  Creating a  *)
(* session registers the agent anew before the session exists.             *)
(*                                                                         *)
(* A step is what runs between two awaits that wait for more than settled  *)
(* promises; status events of a session reach the registry with the step   *)
(* that causes them.                                                       *)
(***************************************************************************)
EXTENDS Naturals, Sequences, FiniteSets, SequencesExt

CONSTANTS
  Agents,       \* ids of subagents
  Resumable,    \* those with a session file to revive them from
  Peers,        \* senders of messages
  Anyone,          \* the filter of a wait that accepts every sender
  MailboxCap,   \* MAILBOX_CAP
  MaxMessages,  \* bound: messages sent
  MaxSessions,  \* bound: sessions created
  MaxWaiters,   \* bound: wait calls of one turn
  MaxOps        \* bound: commands of the user and calls of the irc tool

ASSUME BusAssumption ==
  /\ IsFiniteSet(Agents) /\ Resumable \subseteq Agents /\ Anyone \notin Peers
  /\ {MailboxCap, MaxMessages, MaxSessions, MaxWaiters} \subseteq Nat \ {0} /\ MaxOps \in Nat
  /\ Cardinality(Agents) <= MaxSessions

VARIABLES
  ref,        \* the registry: agent -> status and session, or 0
  adopted,    \* #adopted
  timer,      \* the agents whose idle timer is armed
  parking,    \* #parking: park calls that await a disposal
  releasing,  \* release calls that await a disposal
  revival,    \* #revivals: agent -> how far its revival has come
  sessions,   \* the sessions, oldest first
  messages,   \* the messages, oldest first
  mail,       \* #mailboxes
  waiters,    \* #waiters
  ops,
  (* history *)
  killed,     \* the agents that were released or aborted
  overtaken   \* the agents that were released during their revival

lifecycle == <<adopted, timer, parking, releasing, revival>>
bus  == <<messages, mail, waiters>>
vars == <<ref, lifecycle, sessions, bus, ops, killed, overtaken>>

Ids == 1..MaxMessages

(* The sessions that the task executor has created.                        *)
FirstSessions == 1..Cardinality(Agents)

Session == [agent : Agents, st : {"idle", "busy", "closing", "closed"},
            asides : SUBSET Ids]      \* #pendingIrcAsides
(* "reviving", "resumed": the send awaits a revival, has seen its end;     *)
(* "aside", "seen": injected, and then part of the conversation; "taken":  *)
(* returned by wait or inbox; "buffered": in the mailbox.                  *)
Message == [from : Peers, to : Agents,
            stage : {"reviving", "resumed", "failed", "buffered", "taken", "aside", "seen",
                     "dropped"}]
Waiter  == [from : Peers \cup {Anyone}, drained : BOOLEAN]

TypeOK ==
  /\ ref \in [Agents -> [status : {"none", "running", "idle", "parked", "aborted"},
                         session : 0..MaxSessions]]
  /\ {adopted, timer, parking, releasing, killed, overtaken} \subseteq SUBSET Agents
  /\ revival \in [Agents -> {"none", "opening", "building"}]
  /\ sessions \in Seq(Session) /\ Len(sessions) <= MaxSessions
  /\ messages \in Seq(Message) /\ Len(messages) <= MaxMessages
  /\ mail \in [Agents -> Seq(Ids)] /\ waiters \in [Agents -> Seq(Waiter)]
  /\ \A a \in Agents : Len(mail[a]) <= MailboxCap
  /\ ops \in 0..MaxOps

(* The task executor has started the first run of every agent.             *)
Init ==
  /\ \E order \in Bijection(FirstSessions, Agents) :
       /\ sessions = [s \in FirstSessions |->
                        [agent |-> order[s], st |-> "busy", asides |-> {}]]
       /\ ref = [a \in Agents |-> [status |-> "running",
                                   session |-> CHOOSE s \in FirstSessions : order[s] = a]]
  /\ adopted = {} /\ timer = {} /\ parking = {} /\ releasing = {}
  /\ revival = [a \in Agents |-> "none"]
  /\ messages = <<>> /\ mail = [a \in Agents |-> <<>>] /\ waiters = [a \in Agents |-> <<>>]
  /\ ops = 0 /\ killed = {} /\ overtaken = {}

-----------------------------------------------------------------------------
(* Helpers.                                                                *)

Command == ops < MaxOps /\ ops' = ops + 1

NoRef == [status |-> "none", session |-> 0]

(* Continuations of settled promises run before anything else.             *)
Calm == \A m \in DOMAIN messages : messages[m].stage # "resumed"

SetStage(ms, ids, stage) ==
  [m \in DOMAIN ms |-> IF m \in ids THEN [ms[m] EXCEPT !.stage = stage] ELSE ms[m]]

\* A mutant of Awaiting: only the first sender hears of the revival.
AwaitingFirst(a) ==
  LET ms == {m \in DOMAIN messages : messages[m].to = a /\ messages[m].stage = "reviving"}
  IN {m \in ms : \A x \in ms : m <= x}

(* The sends that share the revival of a.                                  *)
Awaiting(a) == {m \in DOMAIN messages : messages[m].to = a /\ messages[m].stage = "reviving"}

(* beginDispose: the session takes no more work and drops its asides.      *)
BeginDispose(s) ==
  /\ sessions' = [sessions EXCEPT ![s].st = "closing", ![s].asides = {}]
  /\ messages' = SetStage(messages, sessions[s].asides, "dropped")

(* The disposal is over; the wait calls of its agent are aborted.          *)
EndDispose(a, s) ==
  /\ sessions' = [sessions EXCEPT ![s].st = "closed"]
  /\ waiters' = [waiters EXCEPT ![a] = <<>>]

SessionOf(a) == CHOOSE s \in DOMAIN sessions : sessions[s].agent = a /\ sessions[s].st = "closing"

(* The manager hears of removed agents.                                    *)
Forgotten(a) == adopted' = adopted \ {a} /\ timer' = timer \ {a}

(* setStatus(a, "running"), with what the manager makes of the event.      *)
\* A mutant of NowRunning: the idle timer stays armed.
NowRunningArmed(a) ==
  /\ ref' = IF ref[a].status = "none" THEN ref ELSE [ref EXCEPT ![a].status = "running"]
  /\ timer' = timer

NowRunning(a) ==
  /\ ref' = IF ref[a].status = "none" THEN ref ELSE [ref EXCEPT ![a].status = "running"]
  /\ timer' = timer \ {a}

(* The timer of an adopted agent that becomes idle.                        *)
Armed(a) == IF a \in adopted THEN timer \cup {a} ELSE timer

-----------------------------------------------------------------------------
(* The end of the first run.                                               *)

FirstRun(a) == ref[a].status = "running" /\ a \notin adopted /\ revival[a] = "none"
               /\ ref[a].session \in FirstSessions
               /\ sessions[ref[a].session].st = "busy" /\ a \notin releasing

Finish(a) ==
  /\ Calm /\ FirstRun(a) /\ waiters[a] = <<>>
  /\ sessions' = [sessions EXCEPT ![ref[a].session].st = "idle"]
  /\ ref' = [ref EXCEPT ![a].status = "idle"]
  /\ adopted' = adopted \cup {a} /\ timer' = timer \cup {a}
  /\ UNCHANGED <<parking, releasing, revival, bus, ops, killed, overtaken>>

(* Aborted, or run in a worktree that is about to go away: the session is  *)
(* disposed of, the agent is not adopted.                                  *)
FinishForGood(a, status) ==
  /\ Calm /\ FirstRun(a)
  /\ ref' = [ref EXCEPT ![a].status = status]
  /\ BeginDispose(ref[a].session)
  /\ killed' = IF status = "aborted" THEN killed \cup {a} ELSE killed
  /\ UNCHANGED <<lifecycle, mail, waiters, ops, overtaken>>

(* The disposal unregisters an agent that is not parked; a parked one is   *)
(* detached.                                                               *)
FinishedForGood(a) ==
  /\ Calm /\ ref[a].session # 0 /\ ref[a].status \in {"aborted", "parked"}
  /\ a \notin parking \cup releasing
  /\ EndDispose(a, ref[a].session)
  /\ ref' = [ref EXCEPT ![a] = IF ref[a].status = "parked"
                               THEN [status |-> "parked", session |-> 0] ELSE NoRef]
  /\ UNCHANGED <<lifecycle, messages, mail, ops, killed, overtaken>>

-----------------------------------------------------------------------------
(* Turns of a session.                                                     *)

(* The user prompts a live session; stranded asides are flushed.           *)
Prompt(s) ==
  LET a == sessions[s].agent IN
  /\ Calm /\ Command /\ sessions[s].st = "idle"
  /\ sessions' = [sessions EXCEPT ![s].st = "busy", ![s].asides = {}]
  /\ messages' = SetStage(messages, sessions[s].asides, "seen")
  /\ NowRunning(a)
  /\ UNCHANGED <<adopted, parking, releasing, revival, mail, waiters, killed, overtaken>>

\* A mutant of DrainAsides: the asides stay in the session.
DrainAsidesKeeps(s) ==
  /\ Calm /\ sessions[s].st = "busy" /\ sessions[s].asides # {}
  /\ messages' = SetStage(messages, sessions[s].asides, "seen")
  /\ UNCHANGED <<ref, lifecycle, sessions, mail, waiters, ops, killed, overtaken>>

(* A step boundary of the turn.                                            *)
DrainAsides(s) ==
  /\ Calm /\ sessions[s].st = "busy" /\ sessions[s].asides # {}
  /\ sessions' = [sessions EXCEPT ![s].asides = {}]
  /\ messages' = SetStage(messages, sessions[s].asides, "seen")
  /\ UNCHANGED <<ref, lifecycle, mail, waiters, ops, killed, overtaken>>

(* The turn of a kept agent ends, perhaps with asides that came too late.  *)
TurnEnds(s) ==
  LET a == sessions[s].agent IN
  /\ Calm /\ sessions[s].st = "busy" /\ ~FirstRun(a) /\ waiters[a] = <<>>
  /\ sessions' = [sessions EXCEPT ![s].st = "idle"]
  /\ ref' = IF ref[a].status = "none" THEN ref ELSE [ref EXCEPT ![a].status = "idle"]
  /\ timer' = Armed(a)
  /\ UNCHANGED <<adopted, parking, releasing, revival, bus, ops, killed, overtaken>>

-----------------------------------------------------------------------------
(* The life cycle manager.                                                 *)

\* A mutant of ParkBegins: the agent is marked parked before its disposal is over.
ParkBeginsDetached(a) ==
  /\ Calm /\ a \in timer /\ a \in adopted /\ ref[a].session # 0
  /\ timer' = timer \ {a} /\ parking' = parking \cup {a}
  /\ BeginDispose(ref[a].session)
  /\ ref' = [ref EXCEPT ![a] = [status |-> "parked", session |-> 0]]
  /\ UNCHANGED <<adopted, releasing, revival, mail, waiters, ops, killed, overtaken>>

(* The idle timer fires.                                                   *)
ParkBegins(a) ==
  /\ Calm /\ a \in timer /\ a \in adopted /\ ref[a].session # 0
  /\ timer' = timer \ {a} /\ parking' = parking \cup {a}
  /\ BeginDispose(ref[a].session)
  /\ UNCHANGED <<ref, adopted, releasing, revival, mail, waiters, ops, killed, overtaken>>

(* While the agent is being parked the disposal does not unregister it.    *)
Parked(a) ==
  /\ Calm /\ a \in parking /\ parking' = parking \ {a}
  /\ IF \E s \in DOMAIN sessions : sessions[s].agent = a /\ sessions[s].st = "closing"
     THEN EndDispose(a, SessionOf(a)) ELSE UNCHANGED <<sessions, waiters>>
  /\ ref' = IF ref[a].status = "none" THEN ref
            ELSE [ref EXCEPT ![a] = [status |-> "parked", session |-> 0]]
  /\ UNCHANGED <<adopted, timer, releasing, revival, messages, mail, ops, killed, overtaken>>

(* A revival can be begun, or one can be joined.                           *)
CanRevive(a) ==
  /\ ref[a].session = 0
  /\ \/ revival[a] # "none"
     \/ ref[a].status = "parked" /\ a \in adopted /\ a \in Resumable

Begun(a) == IF revival[a] = "none" THEN [revival EXCEPT ![a] = "opening"] ELSE revival

(* ensureLive for the user.                                                *)
EnsureLive(a) ==
  /\ Calm /\ Command /\ ref[a].status # "none" /\ CanRevive(a)
  /\ revival' = Begun(a)
  /\ UNCHANGED <<ref, adopted, timer, parking, releasing, sessions, bus, killed, overtaken>>

(* createAgentSession registers the agent before it builds the session.    *)
ReviveRegisters(a) ==
  /\ Calm /\ revival[a] = "opening"
  /\ revival' = [revival EXCEPT ![a] = "building"]
  /\ ref' = [ref EXCEPT ![a] = [status |-> "running", session |-> 0]]
  /\ UNCHANGED <<adopted, timer, parking, releasing, sessions, bus, ops, killed, overtaken>>

(* The session is attached if the agent is still registered.               *)
Revived(a) ==
  /\ Calm /\ revival[a] = "building" /\ Len(sessions) < MaxSessions
  /\ revival' = [revival EXCEPT ![a] = "none"]
  /\ sessions' = Append(sessions, [agent |-> a, st |-> "idle", asides |-> {}])
  /\ IF ref[a].status = "none" THEN UNCHANGED <<ref, timer>>
     ELSE /\ ref' = [ref EXCEPT ![a] = [status |-> "idle", session |-> Len(sessions) + 1]]
          /\ timer' = Armed(a)
  /\ messages' = SetStage(messages, Awaiting(a), "resumed")
  /\ UNCHANGED <<adopted, parking, releasing, mail, waiters, ops, killed, overtaken>>

(* The file cannot be opened, or the session cannot be built: then the     *)
(* error path unregisters the agent, which is no longer parked.            *)
ReviveFails(a) ==
  /\ Calm /\ revival[a] # "none"
  /\ revival' = [revival EXCEPT ![a] = "none"]
  /\ IF revival[a] = "opening" THEN UNCHANGED <<ref, adopted, timer>>
     ELSE ref' = [ref EXCEPT ![a] = NoRef] /\ Forgotten(a)
  /\ messages' = SetStage(messages, Awaiting(a), "failed")
  /\ UNCHANGED <<parking, releasing, sessions, mail, waiters, ops, killed, overtaken>>

(* The user kills an agent.                                                *)
Release(a) ==
  /\ Calm /\ Command /\ ref[a].status # "none" /\ a \notin releasing
  /\ Forgotten(a)
  /\ killed' = killed \cup {a}
  /\ overtaken' = IF revival[a] = "none" THEN overtaken ELSE overtaken \cup {a}
  /\ IF ref[a].session = 0
     THEN ref' = [ref EXCEPT ![a] = NoRef] /\ UNCHANGED <<releasing, sessions, messages>>
     ELSE /\ releasing' = releasing \cup {a}
          /\ BeginDispose(ref[a].session)
          /\ UNCHANGED ref
  /\ UNCHANGED <<parking, revival, mail, waiters>>

Released(a) ==
  /\ Calm /\ a \in releasing /\ releasing' = releasing \ {a}
  /\ IF \E s \in DOMAIN sessions : sessions[s].agent = a /\ sessions[s].st = "closing"
     THEN EndDispose(a, SessionOf(a)) ELSE UNCHANGED <<sessions, waiters>>
  /\ ref' = [ref EXCEPT ![a] = NoRef] /\ Forgotten(a)
  /\ UNCHANGED <<parking, revival, messages, mail, ops, killed, overtaken>>

-----------------------------------------------------------------------------
(* The bus.                                                                *)

Accepts(w, from) == w.from \in {Anyone, from}

(* The waiters of a that accept the sender, by position.                   *)
Matching(a, from) == {i \in DOMAIN waiters[a] : Accepts(waiters[a][i], from)}

(* #enqueue drops the oldest message beyond the cap.                       *)
Enqueue(box, m) ==
  LET b == Append(box, m) IN IF Len(b) > MailboxCap THEN Tail(b) ELSE b

Displaced(box) == IF Len(box) = MailboxCap THEN {box[1]} ELSE {}

(* Message m of ms is handed to the agent it is for: to its oldest waiter  *)
(* that accepts the sender, else to its session, which takes it as an      *)
(* aside, begins a turn with it, or refuses it because it is disposed of.  *)
HandOff(ms, m) ==
  LET a == ms[m].to
      s == ref[a].session
      w == Matching(a, ms[m].from)
      is(stage) == messages' = SetStage(ms, {m}, stage)
  IN \/ /\ w # {}
        /\ waiters' = [waiters EXCEPT ![a] =
             RemoveAt(@, CHOOSE i \in w : \A j \in w : i <= j)]
        /\ is("taken") /\ UNCHANGED <<ref, timer, sessions, mail>>
     \/ /\ w = {} /\ s = 0
        /\ is("failed") /\ UNCHANGED <<ref, timer, sessions, mail, waiters>>
     \/ /\ w = {} /\ s # 0 /\ sessions[s].st \in {"closing", "closed"}
        /\ mail' = [mail EXCEPT ![a] = Enqueue(@, m)]
        /\ messages' = SetStage(SetStage(ms, Displaced(mail[a]), "dropped"), {m}, "buffered")
        /\ UNCHANGED <<ref, timer, sessions, waiters>>
     \/ /\ w = {} /\ s # 0 /\ sessions[s].st = "busy"
        /\ sessions' = [sessions EXCEPT ![s].asides = @ \cup {m}]
        /\ is("aside") /\ UNCHANGED <<ref, timer, mail, waiters>>
     \/ /\ w = {} /\ s # 0 /\ sessions[s].st = "idle"
        /\ sessions' = [sessions EXCEPT ![s].st = "busy"]
        /\ NowRunning(a)
        /\ is("seen") /\ UNCHANGED <<mail, waiters>>

Send(from, a) ==
  LET m == Len(messages) + 1
      sent(stage) == Append(messages, [from |-> from, to |-> a, stage |-> stage])
      only(stage) == /\ messages' = sent(stage)
                     /\ UNCHANGED <<ref, timer, sessions, mail, waiters>>
  IN /\ Calm /\ m <= MaxMessages
     /\ \/ ref[a].status \in {"none", "aborted"} /\ only("failed") /\ UNCHANGED revival
        \/ /\ ref[a].status = "parked" /\ ref[a].session = 0
           /\ IF CanRevive(a) THEN revival' = Begun(a) /\ only("reviving")
              ELSE only("failed") /\ UNCHANGED revival
        \/ /\ \/ ref[a].status \in {"running", "idle"}
              \/ ref[a].status = "parked" /\ ref[a].session # 0
           /\ HandOff(sent("resumed"), m) /\ UNCHANGED revival
     /\ UNCHANGED <<adopted, parking, releasing, ops, killed, overtaken>>

(* The revival that a send awaited has succeeded.                          *)
Resume(m) ==
  /\ messages[m].stage = "resumed"
  /\ HandOff(messages, m)
  /\ UNCHANGED <<adopted, parking, releasing, revival, ops, killed, overtaken>>

(* The agent is in a turn and calls the irc tool.                          *)
Calls(a) == Calm /\ Command /\ ref[a].session # 0 /\ sessions[ref[a].session].st = "busy"

Mailed(a, from) == {i \in DOMAIN mail[a] : from \in {Anyone, messages[mail[a][i]].from}}

\* A mutant of Finds: only the head of the mailbox is looked at.
FindsHead(a, from, drain) == IF drain THEN Mailed(a, from) \cap {1} ELSE {}

(* The messages of the mailbox that a wait may return at once.             *)
Finds(a, from, drain) == IF drain THEN Mailed(a, from) ELSE {}

(* wait; without drain for the reply to a message just sent.               *)
Wait(a, from, drain) ==
  LET hits == Finds(a, from, drain) IN
  /\ Calls(a) /\ Len(waiters[a]) < MaxWaiters
  /\ IF hits # {}
     THEN LET i == CHOOSE i \in hits : \A j \in hits : i <= j IN
          /\ mail' = [mail EXCEPT ![a] = RemoveAt(@, i)]
          /\ messages' = SetStage(messages, {mail[a][i]}, "taken")
          /\ UNCHANGED waiters
     ELSE /\ waiters' = [waiters EXCEPT ![a] =
               Append(@, [from |-> from, drained |-> drain])]
          /\ UNCHANGED <<mail, messages>>
  /\ UNCHANGED <<ref, lifecycle, sessions, killed, overtaken>>

WaitTimesOut(a) ==
  /\ Calm
  /\ \E i \in DOMAIN waiters[a] : waiters' = [waiters EXCEPT ![a] = RemoveAt(@, i)]
  /\ UNCHANGED <<ref, lifecycle, sessions, messages, mail, ops, killed, overtaken>>

Inbox(a) ==
  /\ Calls(a) /\ mail[a] # <<>>
  /\ mail' = [mail EXCEPT ![a] = <<>>]
  /\ messages' = SetStage(messages, ToSet(mail[a]), "taken")
  /\ UNCHANGED <<ref, lifecycle, sessions, waiters, killed, overtaken>>

-----------------------------------------------------------------------------
Own(a) ==
  \/ Parked(a) \/ Released(a) \/ FinishedForGood(a) \/ ReviveRegisters(a)
  \/ Revived(a) \/ ReviveFails(a)

Next ==
  \/ \E a \in Agents :
       \/ Finish(a) \/ \E status \in {"aborted", "parked"} : FinishForGood(a, status)
       \/ ParkBegins(a) \/ EnsureLive(a) \/ Release(a) \/ Own(a)
       \/ \E p \in Peers : Send(p, a)
       \/ \E p \in Peers \cup {Anyone}, drain \in BOOLEAN : Wait(a, p, drain)
       \/ Inbox(a) \/ WaitTimesOut(a)
  \/ \E s \in DOMAIN sessions : Prompt(s) \/ DrainAsides(s) \/ TurnEnds(s)
  \/ \E m \in DOMAIN messages : Resume(m)

Spec == Init /\ [][Next]_vars

(* Disposals and revivals end, timers fire, continuations run.             *)
FairSpec ==
  /\ Spec
  /\ \A a \in Agents : WF_vars(Own(a)) /\ WF_vars(ParkBegins(a))
  /\ \A m \in Ids : WF_vars(m \in DOMAIN messages /\ Resume(m))

-----------------------------------------------------------------------------
(* Properties.                                                             *)

Open == {s \in DOMAIN sessions : sessions[s].st # "closed"}

(* The file of an agent has one writer: no session is created for an agent  *)
(* before the disposal of its last one is over, whoever parks, revives or   *)
(* messages it meanwhile.                                                   *)
OneWriter == \A s, t \in Open : sessions[s].agent = sessions[t].agent => s = t

(* A session that is not disposed of is the one its agent is reached        *)
(* through, unless the agent was released during its revival; and an agent  *)
(* has a session exactly when it is running or idle, its first disposal and *)
(* the building of its session aside.                                       *)
Reached ==
  \A a \in Agents \ overtaken :
    /\ \A s \in Open : sessions[s].agent = a => ref[a].session = s
    /\ ref[a].status \in {"running", "idle"} /\ revival[a] # "building"
       => ref[a].session \in Open

(* Parking, reviving, releasing and messages in any order leave an agent    *)
(* with one session at most, and the registry knows it.                     *)
BusInv == TypeOK /\ OneWriter /\ Reached

(* The idle timer, which parks without a look at the session, is armed only *)
(* while the session of its agent is idle: parking never interrupts a turn. *)
(* And an adopted agent that is idle has its timer, or is on its way out:   *)
(* no event is missed that leaves a session open for ever.                  *)
TimerIdle ==
  /\ \A a \in timer : /\ a \in adopted /\ ref[a].status = "idle"
                       /\ ref[a].session # 0 /\ sessions[ref[a].session].st = "idle"
  /\ \A a \in adopted : ref[a].status = "idle" => a \in timer \cup parking

(* A message has one copy: in the mailbox, among the asides of one session  *)
(* or with the agent; what the sender was told is buffered is in the mail.  *)
OneCopy ==
  \A m \in DOMAIN messages :
    LET boxes  == {a \in Agents : m \in ToSet(mail[a])}
        asides == {s \in DOMAIN sessions : m \in sessions[s].asides}
    IN /\ (boxes # {}) <=> messages[m].stage = "buffered"
       /\ (asides # {}) <=> messages[m].stage = "aside"
       /\ Cardinality(boxes) + Cardinality(asides) <= 1
       /\ \A a \in Agents : Cardinality({i \in DOMAIN mail[a] : mail[a][i] = m}) <= 1

(* No wait sleeps over a message it asked for: one that drained the mailbox *)
(* finds nothing there as long as it waits.                                 *)
NoMissedMail ==
  \A a \in Agents : \A i \in DOMAIN waiters[a] :
    waiters[a][i].drained => Mailed(a, waiters[a][i].from) = {}

(* Only a kill or a hard abort forgets an agent.                            *)
OnlyKillForgets == \A a \in Agents : ref[a].status = "none" => a \in killed

(* Every sender gets its receipt, those that share a revival too.           *)
Unanswered(m) == m \in DOMAIN messages /\ messages[m].stage \in {"reviving", "resumed"}

Receipts == \A m \in Ids : Unanswered(m) ~> ~Unanswered(m)
=============================================================================
