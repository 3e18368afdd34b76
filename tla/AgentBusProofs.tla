---------------------------- MODULE AgentBusProofs ----------------------------
(***************************************************************************)
(* TLAPS proofs about AgentBus, for every set of agents and peers, every   *)
(* size of the mailbox and every number of messages and sessions.          *)
(***************************************************************************)
EXTENDS AgentBus, FiniteSetTheorems, SequenceTheorems, WellFoundedInduction, TLAPS

-----------------------------------------------------------------------------
(* The inductive invariant.                                                *)

(* What the registry says of an agent, given how far its revival has come, *)
(* and the sessions of the agent that are not closed.                      *)
Attached(a) ==
  /\ ref[a].session # 0 => ref[a].session \in Open /\ sessions[ref[a].session].agent = a
  /\ ref[a].status = "none" => ref[a].session = 0 /\ a \notin adopted
  /\ ref[a].status \in {"running", "idle"} => ref[a].session # 0 \/ revival[a] = "building"
  /\ revival[a] = "opening" => ref[a].session = 0 /\ ref[a].status \in {"none", "parked"}
  /\ revival[a] = "building" =>
       ref[a].session = 0 /\ (ref[a].status = "running" \/ (ref[a].status = "none" /\ a \in overtaken))
  /\ \A s \in Open : sessions[s].agent = a =>
       /\ revival[a] = "none"
       /\ ref[a].session = s \/ (ref[a].status = "none" /\ a \in overtaken)
       /\ \A t \in Open : sessions[t].agent = a => s = t

(* The stage of a disposal agrees with the registry and the life cycle     *)
(* manager, and who is being disposed of is not revived meanwhile.         *)
Disposal(a) ==
  /\ a \in parking \cup releasing =>
       /\ revival[a] = "none"
       /\ \A s \in Open : sessions[s].agent = a =>
            ref[a].session = s /\ sessions[s].st = "closing"
  /\ a \in releasing => ref[a].status # "none" /\ a \notin adopted
  /\ a \in parking => ref[a].status \in {"none", "idle"}
  /\ ref[a].session # 0 =>
       LET st == sessions[ref[a].session].st IN
       /\ st = "idle" => ref[a].status = "idle"
       /\ st = "busy" => ref[a].status = "running"
       /\ st = "closing" => a \in parking \cup releasing \/ ref[a].status \in {"aborted", "parked"}
       /\ ref[a].status \in {"aborted", "parked"} => st = "closing" /\ a \notin adopted

(* TimerIdle, of one agent.                                                *)
Timed(a) ==
  /\ a \in timer => /\ a \in adopted /\ ref[a].status = "idle"
                    /\ ref[a].session # 0 /\ sessions[ref[a].session].st = "idle"
  /\ a \in adopted /\ ref[a].status = "idle" => a \in timer \cup parking

Life(a) == Attached(a) /\ Disposal(a) /\ Timed(a)

(* The mailboxes and the asides hold what the messages say of them.        *)
InPlace(ms) ==
  /\ \A a \in Agents :
       /\ \A i \in DOMAIN mail[a] :
            /\ mail[a][i] \in DOMAIN ms
            /\ ms[mail[a][i]].to = a /\ ms[mail[a][i]].stage = "buffered"
       /\ \A i, j \in DOMAIN mail[a] : mail[a][i] = mail[a][j] => i = j
  /\ \A s \in DOMAIN sessions : \A m \in sessions[s].asides :
       /\ m \in DOMAIN ms /\ sessions[s].st \in {"idle", "busy"}
       /\ ms[m].to = sessions[s].agent /\ ms[m].stage = "aside"
  /\ \A m \in DOMAIN ms :
       /\ ms[m].stage = "buffered" => \E i \in DOMAIN mail[ms[m].to] : mail[ms[m].to][i] = m
       /\ ms[m].stage = "aside" => \E s \in DOMAIN sessions : m \in sessions[s].asides

Copies == InPlace(messages)

LifeInv == TypeOK /\ \A a \in Agents : Life(a)

IInv == LifeInv /\ Copies

-----------------------------------------------------------------------------
(* Sequences.                                                              *)

(* A function on 1..n is a sequence of length n.                           *)
LEMMA FunctionIsSeq ==
  ASSUME NEW S, NEW n \in Nat, NEW f \in [1..n -> S]
  PROVE  f \in Seq(S) /\ Len(f) = n /\ DOMAIN f = 1..n
BY SeqDef, LenProperties

(* A set of naturals with an element has a least one.                      *)
LEMMA LeastNat ==
  ASSUME NEW S, S \subseteq Nat, S # {}
  PROVE  \E k \in S : \A j \in S : k <= j
<1> DEFINE R == OpToRel(<, Nat)
<1>1. IsWellFoundedOn(R, Nat)
  BY NatLessThanWellFounded
<1>2. \A k, j \in Nat : <<j, k>> \in R <=> j < k
  <2>1. R = {ss \in Nat \X Nat : ss[1] < ss[2]}
    BY Zenon DEF OpToRel
  <2> HIDE DEF R
  <2> QED
    BY <2>1
<1> HIDE DEF R
<1>3. \E k \in S : \A j \in S : <<j, k>> \notin R
  BY <1>1, WFMin, Zenon
<1>4. PICK k \in S : \A j \in S : <<j, k>> \notin R
  BY <1>3
<1>5. ASSUME NEW j \in S PROVE k <= j
  <2>1. j \in Nat /\ k \in Nat
    OBVIOUS
  <2>2. ~ (j < k)
    BY <1>2, <1>4, <2>1
  <2> QED
    BY <2>1, <2>2
<1> QED
  BY <1>5

(* A set all of whose elements are equal has at most one.                  *)
LEMMA AtMostOne ==
  ASSUME NEW S, \A x, y \in S : x = y
  PROVE  Cardinality(S) \in {0, 1} /\ (S = {} => Cardinality(S) = 0)
<1>1. CASE S = {}
  BY <1>1, FS_EmptySet
<1>2. CASE S # {}
  <2>1. PICK x \in S : S = {x}
    BY <1>2
  <2> QED
    BY <2>1, FS_Singleton
<1> QED
  BY <1>1, <1>2

(* RemoveAt closes the gap.                                                *)
LEMMA Removed ==
  ASSUME NEW S, NEW s \in Seq(S), NEW i \in DOMAIN s
  PROVE  /\ RemoveAt(s, i) \in Seq(S)
         /\ Len(RemoveAt(s, i)) = Len(s) - 1
         /\ DOMAIN RemoveAt(s, i) = 1..(Len(s) - 1)
         /\ \A j \in 1..(Len(s) - 1) :
              RemoveAt(s, i)[j] = IF j < i THEN s[j] ELSE s[j + 1]
<1>1. Len(s) \in Nat /\ DOMAIN s = 1..Len(s) /\ i \in 1..Len(s)
  BY LenProperties
<1>2. \A j \in 1..Len(s) : s[j] \in S
  BY ElementOfSeq
<1> DEFINE u == SubSeq(s, 1, i - 1)
           v == SubSeq(s, i + 1, Len(s))
<1>3. u \in Seq(S) /\ Len(u) = i - 1 /\ \A j \in 1..(i - 1) : u[j] = s[j]
  BY <1>1, <1>2, SubSeqProperties
<1>4. v \in Seq(S) /\ Len(v) = Len(s) - i /\ \A j \in 1..(Len(s) - i) : v[j] = s[j + i]
  <2>1. /\ v \in Seq(S)
        /\ Len(v) = IF i + 1 <= Len(s) THEN Len(s) - (i + 1) + 1 ELSE 0
        /\ \A j \in 1..(Len(s) - (i + 1) + 1) : v[j] = s[(i + 1) + j - 1]
    BY <1>1, <1>2, SubSeqProperties, i + 1 \in Int, \A k \in (i + 1)..Len(s) : s[k] \in S
  <2> QED
    BY <1>1, <2>1
<1> HIDE DEF u, v
<1>5. /\ u \o v \in Seq(S) /\ Len(u \o v) = Len(s) - 1
      /\ \A j \in 1..(Len(s) - 1) : (u \o v)[j] = IF j < i THEN s[j] ELSE s[j + 1]
  <2>1. /\ u \o v \in Seq(S) /\ Len(u \o v) = Len(u) + Len(v)
        /\ \A j \in 1..(Len(u) + Len(v)) :
             (u \o v)[j] = IF j <= Len(u) THEN u[j] ELSE v[j - Len(u)]
    BY <1>3, <1>4, ConcatProperties
  <2>2. ASSUME NEW j \in 1..(Len(s) - 1)
        PROVE  (u \o v)[j] = IF j < i THEN s[j] ELSE s[j + 1]
    <3>1. (u \o v)[j] = IF j <= i - 1 THEN u[j] ELSE v[j - (i - 1)]
      BY <1>1, <1>3, <1>4, <2>1
    <3>2. CASE j < i
      BY <1>1, <1>3, <3>1, <3>2
    <3>3. CASE ~(j < i)
      <4>1. j - (i - 1) \in 1..(Len(s) - i) /\ (j - (i - 1)) + i = j + 1 /\ ~(j <= i - 1)
        BY <1>1, <3>3
      <4> QED
        BY <1>4, <3>1, <3>3, <4>1
    <3> QED
      BY <3>2, <3>3
  <2> QED
    BY <1>1, <1>3, <1>4, <2>1, <2>2
<1>6. DOMAIN (u \o v) = 1..(Len(s) - 1)
  BY <1>5, LenProperties
<1> QED
  BY <1>5, <1>6 DEF RemoveAt, u, v

SessionStages == {"idle", "busy", "closing", "closed"}

(* Session s with another stage and other asides.                          *)
Edited(ss, s, st, as) == [ss EXCEPT ![s].st = st, ![s].asides = as]
Moved(ss, s, st) == [ss EXCEPT ![s].st = st]
AsidesOf(ss, s, as) == [ss EXCEPT ![s].asides = as]

(* An edited session keeps its agent and its place, the others stay.       *)
LEMMA SessionEdited ==
  ASSUME NEW ss \in Seq(Session), NEW s \in DOMAIN ss,
         NEW st \in SessionStages, NEW as \in SUBSET Ids
  PROVE  /\ Edited(ss, s, st, as) \in Seq(Session)
         /\ Len(Edited(ss, s, st, as)) = Len(ss)
         /\ DOMAIN Edited(ss, s, st, as) = DOMAIN ss
         /\ \A t \in DOMAIN ss :
              /\ Edited(ss, s, st, as)[t].agent = ss[t].agent
              /\ Edited(ss, s, st, as)[t].st = IF t = s THEN st ELSE ss[t].st
              /\ Edited(ss, s, st, as)[t].asides = IF t = s THEN as ELSE ss[t].asides
<1>1. ss \in [1..Len(ss) -> Session] /\ Len(ss) \in Nat /\ DOMAIN ss = 1..Len(ss)
  BY LenProperties
<1>2. Edited(ss, s, st, as) \in [1..Len(ss) -> Session]
  BY <1>1 DEF Session, SessionStages, Edited
<1>3. /\ Edited(ss, s, st, as) \in Seq(Session) /\ Len(Edited(ss, s, st, as)) = Len(ss)
      /\ DOMAIN Edited(ss, s, st, as) = DOMAIN ss
  BY <1>1, <1>2, FunctionIsSeq
<1>4. \A t \in DOMAIN ss :
        /\ Edited(ss, s, st, as)[t].agent = ss[t].agent
        /\ Edited(ss, s, st, as)[t].st = IF t = s THEN st ELSE ss[t].st
        /\ Edited(ss, s, st, as)[t].asides = IF t = s THEN as ELSE ss[t].asides
  BY <1>1 DEF Session, SessionStages, Edited
<1> QED
  BY <1>3, <1>4

(* The same where only the stage changes.                                  *)
LEMMA SessionMoved ==
  ASSUME NEW ss \in Seq(Session), NEW s \in DOMAIN ss,
         NEW st \in SessionStages
  PROVE  /\ Moved(ss, s, st) \in Seq(Session) /\ Len(Moved(ss, s, st)) = Len(ss)
         /\ DOMAIN Moved(ss, s, st) = DOMAIN ss
         /\ \A t \in DOMAIN ss :
              /\ Moved(ss, s, st)[t].agent = ss[t].agent
              /\ Moved(ss, s, st)[t].asides = ss[t].asides
              /\ Moved(ss, s, st)[t].st = IF t = s THEN st ELSE ss[t].st
<1>1. ss \in [1..Len(ss) -> Session] /\ Len(ss) \in Nat /\ DOMAIN ss = 1..Len(ss)
  BY LenProperties
<1>2. Moved(ss, s, st) \in [1..Len(ss) -> Session]
  BY <1>1 DEF Session, SessionStages, Moved
<1>3. /\ Moved(ss, s, st) \in Seq(Session) /\ Len(Moved(ss, s, st)) = Len(ss)
      /\ DOMAIN Moved(ss, s, st) = DOMAIN ss
  BY <1>1, <1>2, FunctionIsSeq
<1>4. \A t \in DOMAIN ss :
        /\ Moved(ss, s, st)[t].agent = ss[t].agent
        /\ Moved(ss, s, st)[t].asides = ss[t].asides
        /\ Moved(ss, s, st)[t].st = IF t = s THEN st ELSE ss[t].st
  BY <1>1 DEF Session, SessionStages, Moved
<1> QED
  BY <1>3, <1>4

(* And where only the asides change.                                       *)
LEMMA AsidesChanged ==
  ASSUME NEW ss \in Seq(Session), NEW s \in DOMAIN ss, NEW as \in SUBSET Ids
  PROVE  /\ AsidesOf(ss, s, as) \in Seq(Session) /\ Len(AsidesOf(ss, s, as)) = Len(ss)
         /\ DOMAIN AsidesOf(ss, s, as) = DOMAIN ss
         /\ \A t \in DOMAIN ss :
              /\ AsidesOf(ss, s, as)[t].agent = ss[t].agent
              /\ AsidesOf(ss, s, as)[t].st = ss[t].st
              /\ AsidesOf(ss, s, as)[t].asides = IF t = s THEN as ELSE ss[t].asides
<1>1. ss \in [1..Len(ss) -> Session] /\ Len(ss) \in Nat /\ DOMAIN ss = 1..Len(ss)
  BY LenProperties
<1>2. AsidesOf(ss, s, as) \in [1..Len(ss) -> Session]
  BY <1>1 DEF Session, AsidesOf
<1>3. /\ AsidesOf(ss, s, as) \in Seq(Session) /\ Len(AsidesOf(ss, s, as)) = Len(ss)
      /\ DOMAIN AsidesOf(ss, s, as) = DOMAIN ss
  BY <1>1, <1>2, FunctionIsSeq
<1>4. \A t \in DOMAIN ss :
        /\ AsidesOf(ss, s, as)[t].agent = ss[t].agent
        /\ AsidesOf(ss, s, as)[t].st = ss[t].st
        /\ AsidesOf(ss, s, as)[t].asides = IF t = s THEN as ELSE ss[t].asides
  BY <1>1 DEF Session, AsidesOf
<1> QED
  BY <1>3, <1>4

Stages == {"reviving", "resumed", "failed", "buffered", "taken", "aside", "seen", "dropped"}

(* SetStage changes the stage of some messages and nothing else.           *)
LEMMA StageSet ==
  ASSUME NEW ms \in Seq(Message), NEW ids, NEW stage \in Stages
  PROVE  /\ SetStage(ms, ids, stage) \in Seq(Message)
         /\ Len(SetStage(ms, ids, stage)) = Len(ms)
         /\ DOMAIN SetStage(ms, ids, stage) = DOMAIN ms
         /\ \A m \in DOMAIN ms :
              /\ SetStage(ms, ids, stage)[m].from = ms[m].from
              /\ SetStage(ms, ids, stage)[m].to = ms[m].to
              /\ SetStage(ms, ids, stage)[m].stage = IF m \in ids THEN stage ELSE ms[m].stage
<1>1. ms \in [1..Len(ms) -> Message] /\ Len(ms) \in Nat /\ DOMAIN ms = 1..Len(ms)
  BY LenProperties
<1>2. SetStage(ms, ids, stage) \in [1..Len(ms) -> Message]
  BY <1>1 DEF SetStage, Message, Stages
<1>3. /\ SetStage(ms, ids, stage) \in Seq(Message) /\ Len(SetStage(ms, ids, stage)) = Len(ms)
      /\ DOMAIN SetStage(ms, ids, stage) = DOMAIN ms
  BY <1>1, <1>2, FunctionIsSeq
<1>4. \A m \in DOMAIN ms :
        /\ SetStage(ms, ids, stage)[m].from = ms[m].from
        /\ SetStage(ms, ids, stage)[m].to = ms[m].to
        /\ SetStage(ms, ids, stage)[m].stage = IF m \in ids THEN stage ELSE ms[m].stage
  BY <1>1 DEF SetStage, Message, Stages
<1> QED
  BY <1>3, <1>4

-----------------------------------------------------------------------------
(* Agents, sessions and the registry.                                      *)

(* The registry and the sessions of an invariant state, entry by entry.    *)
LEMMA Looked ==
  ASSUME TypeOK
  PROVE  /\ sessions \in [1..Len(sessions) -> Session] /\ Len(sessions) \in Nat
         /\ DOMAIN sessions = 1..Len(sessions)
         /\ messages \in [1..Len(messages) -> Message] /\ Len(messages) \in Nat
         /\ DOMAIN messages = 1..Len(messages) /\ DOMAIN messages \subseteq Ids
         /\ \A s \in DOMAIN sessions :
              /\ sessions[s].agent \in Agents /\ sessions[s].asides \in SUBSET Ids
              /\ sessions[s].st \in {"idle", "busy", "closing", "closed"}
         /\ \A m \in DOMAIN messages :
              /\ messages[m].from \in Peers /\ messages[m].to \in Agents
              /\ messages[m].stage \in Stages
<1>1. /\ sessions \in [1..Len(sessions) -> Session] /\ Len(sessions) \in Nat
      /\ DOMAIN sessions = 1..Len(sessions)
  BY LenProperties DEF TypeOK
<1>2. /\ messages \in [1..Len(messages) -> Message] /\ Len(messages) \in Nat
      /\ DOMAIN messages = 1..Len(messages)
  BY LenProperties DEF TypeOK
<1>3. DOMAIN messages \subseteq Ids
  BY <1>2, BusAssumption DEF TypeOK, Ids
<1> QED
  BY <1>1, <1>2, <1>3 DEF Session, Message, Stages

(* Every agent starts in its first session.                                *)
LEMMA InitIInv == Init => IInv
<1> SUFFICES ASSUME Init PROVE IInv
  OBVIOUS
<1> USE DEF FirstSessions
<1>1. Cardinality(Agents) \in Nat
  BY BusAssumption, FS_CardinalityType
<1>2. PICK order \in Bijection(FirstSessions, Agents) :
        /\ sessions = [s \in FirstSessions |->
                         [agent |-> order[s], st |-> "busy", asides |-> {}]]
        /\ ref = [a \in Agents |-> [status |-> "running",
                                    session |-> CHOOSE s \in FirstSessions : order[s] = a]]
  BY DEF Init
<1>3. /\ order \in [FirstSessions -> Agents]
      /\ \A s, t \in FirstSessions : order[s] = order[t] => s = t
      /\ \A a \in Agents : \E s \in FirstSessions : order[s] = a
  BY <1>2 DEF Bijection, Injection, Surjection, IsInjective
<1>4. sessions \in Seq(Session) /\ Len(sessions) = Cardinality(Agents)
      /\ DOMAIN sessions = FirstSessions
  <2>1. sessions \in [1..Cardinality(Agents) -> Session]
    BY <1>2, <1>3 DEF Session
  <2> QED
    BY <1>1, <2>1, FunctionIsSeq
<1>5. \A a \in Agents : /\ ref[a].session \in FirstSessions /\ order[ref[a].session] = a
                        /\ ref[a].status = "running"
  BY <1>2, <1>3
<1>6. ref \in [Agents -> [status : {"none", "running", "idle", "parked", "aborted"},
                          session : 0..MaxSessions]]
  <2>1. 1..Cardinality(Agents) \subseteq 0..MaxSessions
    BY <1>1, BusAssumption
  <2> QED
    BY <1>2, <1>5, <2>1
<1>7. TypeOK
  <2>1. messages \in Seq(Message) /\ Len(messages) <= MaxMessages
    BY BusAssumption, EmptySeq DEF Init
  <2>2. mail \in [Agents -> Seq(Ids)] /\ waiters \in [Agents -> Seq(Waiter)]
        /\ \A a \in Agents : Len(mail[a]) <= MailboxCap
    BY BusAssumption, EmptySeq DEF Init
  <2> QED
    BY <1>1, <1>4, <1>6, <2>1, <2>2, BusAssumption DEF Init, TypeOK
<1>8. \A a \in Agents : Life(a)
  BY <1>1, <1>2, <1>3, <1>4, <1>5 DEF Init, Life, Attached, Disposal, Timed, Open
<1>9. Copies
  BY <1>2, <1>4 DEF Init, Copies, InPlace
<1> QED
  BY <1>7, <1>8, <1>9 DEF IInv, LifeInv

-----------------------------------------------------------------------------
(* LifeInv is kept by the steps of the life cycle.                         *)

(* The step takes session s, if any, to the stage st and no other session. *)
Turns(s, st) ==
  /\ sessions' \in Seq(Session) /\ Len(sessions') = Len(sessions)
  /\ DOMAIN sessions' = DOMAIN sessions
  /\ \A t \in DOMAIN sessions :
       /\ sessions'[t].agent = sessions[t].agent
       /\ sessions'[t].st = IF t = s THEN st ELSE sessions[t].st

(* The step leaves agent b alone.                                          *)
Untouched(b) ==
  /\ ref'[b] = ref[b] /\ revival'[b] = revival[b]
  /\ b \in adopted' <=> b \in adopted
  /\ b \in timer' <=> b \in timer
  /\ b \in parking' <=> b \in parking
  /\ b \in releasing' <=> b \in releasing
  /\ b \in overtaken' <=> b \in overtaken

(* What holds of an agent goes on to hold while its sessions stay.         *)
LEMMA UntouchedLife ==
  ASSUME LifeInv, NEW b \in Agents, Untouched(b), NEW s, NEW st, Turns(s, st),
         s \in DOMAIN sessions => sessions[s].agent # b
  PROVE  Life(b)'
<1>1. TypeOK /\ Life(b)
  BY DEF LifeInv
<1>2. DOMAIN sessions' = DOMAIN sessions
      /\ \A t \in DOMAIN sessions : /\ sessions'[t].agent = sessions[t].agent
                                    /\ sessions[t].agent = b => sessions'[t].st = sessions[t].st
  BY DEF Turns
<1>3. Attached(b)'
  BY <1>1, <1>2 DEF Life, Attached, Open, Untouched
<1>4. Disposal(b)'
  BY <1>1, <1>2 DEF Life, Attached, Disposal, Open, Untouched
<1>5. Timed(b)'
  BY <1>1, <1>2 DEF Life, Attached, Timed, Open, Untouched
<1> QED
  BY <1>3, <1>4, <1>5 DEF Life

(* So a step that changes one agent has to be looked at for that agent.    *)
LEMMA OneChanged ==
  ASSUME LifeInv, TypeOK', NEW a \in Agents, Life(a)', NEW s, NEW st, Turns(s, st),
         s \in DOMAIN sessions => sessions[s].agent = a,
         \A b \in Agents \ {a} : Untouched(b)
  PROVE  LifeInv'
<1>1. ASSUME NEW b \in Agents \ {a} PROVE Life(b)'
  BY <1>1, UntouchedLife
<1> QED
  BY <1>1 DEF LifeInv

(* A step that changes no agent and no stage of a session.                 *)
LEMMA NobodyChanged ==
  ASSUME LifeInv, TypeOK', NEW s, NEW st, Turns(s, st), s \notin DOMAIN sessions,
         \A b \in Agents : Untouched(b)
  PROVE  LifeInv'
<1>1. ASSUME NEW b \in Agents PROVE Life(b)'
  BY <1>1, UntouchedLife
<1> QED
  BY <1>1 DEF LifeInv

(* A step that changes no session.                                         *)
LEMMA NoneTurns ==
  ASSUME TypeOK, sessions' = sessions
  PROVE  Turns(0, "idle") /\ 0 \notin DOMAIN sessions
BY Looked DEF Turns, TypeOK

(* A session moved to another stage.                                       *)
LEMMA MovedTurns ==
  ASSUME TypeOK, NEW s \in DOMAIN sessions, NEW st \in SessionStages,
         sessions' = Moved(sessions, s, st)
  PROVE  Turns(s, st) /\ \A t \in DOMAIN sessions : sessions'[t].asides = sessions[t].asides
<1>1. sessions \in Seq(Session)
  BY DEF TypeOK
<1>2. /\ Moved(sessions, s, st) \in Seq(Session)
      /\ Len(Moved(sessions, s, st)) = Len(sessions)
      /\ DOMAIN Moved(sessions, s, st) = DOMAIN sessions
      /\ \A t \in DOMAIN sessions :
           /\ Moved(sessions, s, st)[t].agent = sessions[t].agent
           /\ Moved(sessions, s, st)[t].asides = sessions[t].asides
           /\ Moved(sessions, s, st)[t].st = IF t = s THEN st ELSE sessions[t].st
  BY <1>1, SessionMoved
<1> QED
  BY <1>2 DEF Turns

(* The end of the first run.                                               *)
LEMMA FinishLife ==
  ASSUME LifeInv, NEW a \in Agents, Finish(a)
  PROVE  LifeInv'
<1>1. TypeOK /\ Life(a)
  BY DEF LifeInv
<1>2. ref[a].session \in DOMAIN sessions /\ sessions[ref[a].session].agent = a
  BY <1>1 DEF Finish, FirstRun, Life, Attached, Open, Disposal
<1>3. Turns(ref[a].session, "idle")
  <2>1. sessions' = Moved(sessions, ref[a].session, "idle")
    BY DEF Finish, Moved
  <2> QED
    BY <1>1, <1>2, <2>1, MovedTurns DEF SessionStages
<1>4. TypeOK'
  BY <1>1, <1>3 DEF Finish, TypeOK, Turns, bus
<1>5. Life(a)'
  <2>1. /\ ref'[a].session = ref[a].session /\ ref'[a].status = "idle"
        /\ revival'[a] = revival[a] /\ overtaken' = overtaken
        /\ a \in adopted' /\ a \in timer' /\ parking' = parking /\ releasing' = releasing
        /\ ref[a].status = "running"
    BY <1>1 DEF Finish, FirstRun, TypeOK
  <2>2. /\ DOMAIN sessions' = DOMAIN sessions
        /\ \A t \in DOMAIN sessions :
             /\ sessions'[t].agent = sessions[t].agent
             /\ sessions'[t].st = IF t = ref[a].session THEN "idle" ELSE sessions[t].st
    BY <1>3 DEF Turns
  <2>3. Life(a) /\ sessions[ref[a].session].st = "busy"
    BY <1>1 DEF Finish, FirstRun
  <2>4. Attached(a)'
    BY <1>2, <2>1, <2>2, <2>3 DEF Life, Attached, Open
  <2>5. Disposal(a)'
    BY <1>2, <2>1, <2>2, <2>3 DEF Life, Attached, Disposal, Open
  <2>6. Timed(a)'
    BY <1>2, <2>1, <2>2, <2>3 DEF Life, Attached, Timed, Open
  <2> QED
    BY <2>4, <2>5, <2>6 DEF Life
<1>6. \A b \in Agents \ {a} : Untouched(b)
  BY <1>1 DEF Finish, Untouched, TypeOK
<1> QED
  BY <1>2, <1>3, <1>4, <1>5, <1>6, OneChanged

(* A session that begins to be disposed of.                                *)
LEMMA DisposalBegun ==
  ASSUME TypeOK, NEW s \in DOMAIN sessions, BeginDispose(s)
  PROVE  /\ Turns(s, "closing")
         /\ \A t \in DOMAIN sessions :
              sessions'[t].asides = IF t = s THEN {} ELSE sessions[t].asides
         /\ messages' \in Seq(Message) /\ Len(messages') = Len(messages)
         /\ DOMAIN messages' = DOMAIN messages
         /\ \A m \in DOMAIN messages :
              /\ messages'[m].from = messages[m].from /\ messages'[m].to = messages[m].to
              /\ messages'[m].stage = IF m \in sessions[s].asides THEN "dropped"
                                                                  ELSE messages[m].stage
<1>1. "dropped" \in Stages /\ {} \in SUBSET Ids /\ "closing" \in SessionStages
  BY DEF Stages, SessionStages
<1>2. sessions' = Edited(sessions, s, "closing", {})
      /\ messages' = SetStage(messages, sessions[s].asides, "dropped")
  BY DEF BeginDispose, Edited
<1>3. sessions \in Seq(Session) /\ messages \in Seq(Message)
  BY DEF TypeOK
<1>4. Turns(s, "closing")
      /\ \A t \in DOMAIN sessions :
              sessions'[t].asides = IF t = s THEN {} ELSE sessions[t].asides
  BY <1>1, <1>2, <1>3, SessionEdited DEF Turns
<1> QED
  BY <1>1, <1>2, <1>3, <1>4, StageSet

(* A first run that is disposed of keeps every agent's invariant.           *)
LEMMA FinishForGoodLife ==
  ASSUME LifeInv, NEW a \in Agents, NEW status \in {"aborted", "parked"},
         FinishForGood(a, status)
  PROVE  LifeInv'
<1>1. TypeOK /\ Life(a)
  BY DEF LifeInv
<1>2. ref[a].session \in DOMAIN sessions /\ sessions[ref[a].session].agent = a
  BY <1>1 DEF FinishForGood, FirstRun, Life, Attached, Open, Disposal
<1>3. /\ Turns(ref[a].session, "closing")
      /\ messages' \in Seq(Message) /\ Len(messages') = Len(messages)
  BY <1>1, <1>2, DisposalBegun DEF FinishForGood
<1>4. TypeOK'
  <2>1. ref' \in [Agents -> [status : {"none", "running", "idle", "parked", "aborted"},
                            session : 0..MaxSessions]]
        /\ killed' \subseteq Agents
    BY <1>1 DEF FinishForGood, TypeOK
  <2> QED
    BY <1>1, <1>3, <2>1 DEF FinishForGood, TypeOK, Turns, lifecycle
<1>5. Life(a)'
  <2>1. /\ ref'[a].session = ref[a].session /\ ref'[a].status = status
        /\ revival'[a] = revival[a] /\ overtaken' = overtaken /\ a \notin adopted
        /\ adopted' = adopted /\ timer' = timer /\ parking' = parking /\ releasing' = releasing
        /\ ref[a].status = "running"
    BY <1>1 DEF FinishForGood, FirstRun, TypeOK, lifecycle
  <2>2. /\ DOMAIN sessions' = DOMAIN sessions
        /\ \A t \in DOMAIN sessions :
             /\ sessions'[t].agent = sessions[t].agent
             /\ sessions'[t].st = IF t = ref[a].session THEN "closing" ELSE sessions[t].st
    BY <1>3 DEF Turns
  <2>3. Life(a) /\ sessions[ref[a].session].st = "busy"
    BY <1>1 DEF FinishForGood, FirstRun
  <2>4. Attached(a)'
    BY <1>2, <2>1, <2>2, <2>3 DEF Life, Attached, Open
  <2>5. Disposal(a)'
    BY <1>2, <2>1, <2>2, <2>3 DEF Life, Attached, Disposal, Open
  <2>6. Timed(a)'
    BY <1>2, <2>1, <2>2, <2>3 DEF Life, Attached, Timed, Open
  <2> QED
    BY <2>4, <2>5, <2>6 DEF Life
<1>6. \A b \in Agents \ {a} : Untouched(b)
  BY <1>1 DEF FinishForGood, Untouched, TypeOK, lifecycle
<1> QED
  BY <1>2, <1>3, <1>4, <1>5, <1>6, OneChanged

(* A disposed session is closed and the waits of its agent are aborted.    *)
LEMMA DisposalEnded ==
  ASSUME TypeOK, NEW a \in Agents, NEW s \in DOMAIN sessions, EndDispose(a, s)
  PROVE  /\ Turns(s, "closed")
         /\ \A t \in DOMAIN sessions : sessions'[t].asides = sessions[t].asides
         /\ waiters' \in [Agents -> Seq(Waiter)]
         /\ \A b \in Agents : waiters'[b] = IF b = a THEN <<>> ELSE waiters[b]
<1>1. sessions' = Moved(sessions, s, "closed") /\ "closed" \in SessionStages
  BY DEF EndDispose, Moved, SessionStages
<1>2. /\ Turns(s, "closed")
      /\ \A t \in DOMAIN sessions : sessions'[t].asides = sessions[t].asides
  BY <1>1, MovedTurns
<1>3. waiters \in [Agents -> Seq(Waiter)] /\ <<>> \in Seq(Waiter)
  BY EmptySeq DEF TypeOK
<1>4. waiters' \in [Agents -> Seq(Waiter)]
      /\ \A b \in Agents : waiters'[b] = IF b = a THEN <<>> ELSE waiters[b]
  BY <1>3 DEF EndDispose
<1> QED
  BY <1>2, <1>4

(* The end of that disposal unregisters the agent and keeps the invariant.  *)
LEMMA FinishedForGoodLife ==
  ASSUME LifeInv, NEW a \in Agents, FinishedForGood(a)
  PROVE  LifeInv'
<1>1. TypeOK /\ Life(a)
  BY DEF LifeInv
<1>2. ref[a].session \in DOMAIN sessions /\ sessions[ref[a].session].agent = a
  BY <1>1 DEF FinishedForGood, Life, Attached, Open
<1>3. Turns(ref[a].session, "closed") /\ waiters' \in [Agents -> Seq(Waiter)]
  BY <1>1, <1>2, DisposalEnded DEF FinishedForGood
<1>4. TypeOK'
  <2>1. ref' \in [Agents -> [status : {"none", "running", "idle", "parked", "aborted"},
                            session : 0..MaxSessions]]
    BY <1>1, BusAssumption DEF FinishedForGood, TypeOK, NoRef
  <2> QED
    BY <1>1, <1>3, <2>1 DEF FinishedForGood, TypeOK, Turns, lifecycle
<1>5. Life(a)'
  <2>1. /\ ref'[a].session = 0 /\ ref'[a].status \in {"none", "parked"}
        /\ revival'[a] = revival[a] /\ overtaken' = overtaken
        /\ adopted' = adopted /\ timer' = timer /\ parking' = parking /\ releasing' = releasing
        /\ ref[a].status \in {"aborted", "parked"} /\ a \notin parking \cup releasing
        /\ ref[a].session # 0
    BY <1>1 DEF FinishedForGood, TypeOK, lifecycle, NoRef
  <2>2. /\ DOMAIN sessions' = DOMAIN sessions
        /\ \A t \in DOMAIN sessions :
             /\ sessions'[t].agent = sessions[t].agent
             /\ sessions'[t].st = IF t = ref[a].session THEN "closed" ELSE sessions[t].st
    BY <1>3 DEF Turns
  <2>3. Attached(a)'
    BY <1>1, <1>2, <2>1, <2>2 DEF Life, Attached, Open, Disposal
  <2>4. Disposal(a)'
    BY <1>1, <1>2, <2>1, <2>2 DEF Life, Attached, Disposal, Open
  <2>5. Timed(a)'
    BY <1>1, <1>2, <2>1, <2>2 DEF Life, Attached, Timed, Open
  <2> QED
    BY <2>3, <2>4, <2>5 DEF Life
<1>6. \A b \in Agents \ {a} : Untouched(b)
  BY <1>1 DEF FinishedForGood, Untouched, TypeOK, lifecycle
<1> QED
  BY <1>2, <1>3, <1>4, <1>5, <1>6, OneChanged

(* setStatus(a, "running").                                                *)
LEMMA Runs ==
  ASSUME TypeOK, NEW a \in Agents, NowRunning(a)
  PROVE  /\ ref' \in [Agents -> [status : {"none", "running", "idle", "parked", "aborted"},
                                 session : 0..MaxSessions]]
         /\ timer' = timer \ {a}
         /\ ref'[a].session = ref[a].session
         /\ ref'[a].status = IF ref[a].status = "none" THEN "none" ELSE "running"
         /\ \A b \in Agents \ {a} : ref'[b] = ref[b]
BY DEF NowRunning, TypeOK

(* A session that begins a turn.                                           *)
LEMMA TurnBeginsLife ==
  ASSUME LifeInv, TypeOK', NEW s \in DOMAIN sessions, sessions[s].st = "idle",
         Turns(s, "busy"), NEW a \in Agents, a = sessions[s].agent, NowRunning(a),
         UNCHANGED <<adopted, parking, releasing, revival, overtaken>>
  PROVE  LifeInv'
<1>1. TypeOK /\ Life(a)
  BY DEF LifeInv
<1>3. /\ timer' = timer \ {a} /\ ref'[a].session = ref[a].session
      /\ ref'[a].status = IF ref[a].status = "none" THEN "none" ELSE "running"
      /\ \A b \in Agents \ {a} : ref'[b] = ref[b]
  BY <1>1, Runs
<1>4. /\ DOMAIN sessions' = DOMAIN sessions
      /\ \A t \in DOMAIN sessions :
           /\ sessions'[t].agent = sessions[t].agent
           /\ sessions'[t].st = IF t = s THEN "busy" ELSE sessions[t].st
  BY DEF Turns
<1>5. Life(a)'
  <2>1. Attached(a)'
    BY <1>1, <1>3, <1>4, Looked DEF Life, Attached, Open
  <2>2. Disposal(a)'
    BY <1>1, <1>3, <1>4 DEF Life, Attached, Disposal, Open
  <2>3. Timed(a)'
    BY <1>1, <1>3, <1>4 DEF Life, Attached, Timed, Open
  <2> QED
    BY <2>1, <2>2, <2>3 DEF Life
<1>6. \A b \in Agents \ {a} : Untouched(b)
  BY <1>1, <1>3 DEF Untouched
<1> QED
  BY <1>5, <1>6, OneChanged

(* A prompt to an idle session keeps the invariant.                         *)
LEMMA PromptLife ==
  ASSUME LifeInv, NEW s \in DOMAIN sessions, Prompt(s)
  PROVE  LifeInv'
<1>1. TypeOK
  BY DEF LifeInv
<1>2. PICK a \in Agents : a = sessions[s].agent
  BY <1>1, Looked
<1>3. sessions[s].st = "idle" /\ NowRunning(a)
  BY <1>2 DEF Prompt
<1>4. Turns(s, "busy")
  <2>1. sessions' = Edited(sessions, s, "busy", {})
    BY DEF Prompt, Edited
  <2>2. sessions \in Seq(Session) /\ "busy" \in SessionStages /\ {} \in SUBSET Ids
    BY <1>1 DEF TypeOK, SessionStages
  <2> QED
    BY <2>1, <2>2, SessionEdited DEF Turns
<1>5. messages' \in Seq(Message) /\ Len(messages') = Len(messages)
  <2>1. messages \in Seq(Message) /\ "seen" \in Stages
    BY <1>1 DEF TypeOK, Stages
  <2> QED
    BY <2>1, StageSet DEF Prompt
<1>6. TypeOK'
  <2>1. ref' \in [Agents -> [status : {"none", "running", "idle", "parked", "aborted"},
                            session : 0..MaxSessions]]
        /\ timer' \subseteq Agents
    BY <1>1, <1>3, Runs DEF TypeOK
  <2>2. ops' \in 0..MaxOps
    BY <1>1, BusAssumption DEF Prompt, Command, TypeOK
  <2> QED
    BY <1>1, <1>4, <1>5, <2>1, <2>2 DEF Prompt, TypeOK, Turns
<1> QED
  BY <1>2, <1>3, <1>4, <1>6, TurnBeginsLife DEF Prompt

(* Asides that are drained leave the stages of the sessions alone.         *)
LEMMA DrainAsidesLife ==
  ASSUME LifeInv, NEW s \in DOMAIN sessions, DrainAsides(s)
  PROVE  LifeInv'
<1>1. TypeOK
  BY DEF LifeInv
<1>2. PICK a \in Agents : a = sessions[s].agent
  BY <1>1, Looked
<1>3. Turns(0, "idle") /\ 0 \notin DOMAIN sessions
  <2>1. sessions' = AsidesOf(sessions, s, {})
    BY DEF DrainAsides, AsidesOf
  <2>2. sessions \in Seq(Session) /\ {} \in SUBSET Ids
    BY <1>1 DEF TypeOK
  <2>3. 0 \notin DOMAIN sessions
    BY <1>1, Looked
  <2> QED
    BY <2>1, <2>2, <2>3, AsidesChanged DEF Turns
<1>4. messages' \in Seq(Message) /\ Len(messages') = Len(messages)
  <2>1. messages \in Seq(Message) /\ "seen" \in Stages
    BY <1>1 DEF TypeOK, Stages
  <2> QED
    BY <2>1, StageSet DEF DrainAsides
<1>5. TypeOK'
  BY <1>1, <1>3, <1>4 DEF DrainAsides, TypeOK, Turns, lifecycle
<1>6. \A b \in Agents : Untouched(b)
  BY DEF DrainAsides, lifecycle, Untouched
<1> QED
  BY <1>3, <1>5, <1>6, NobodyChanged

(* The end of a turn, which arms the idle timer, keeps the invariant.       *)
LEMMA TurnEndsLife ==
  ASSUME LifeInv, NEW s \in DOMAIN sessions, TurnEnds(s)
  PROVE  LifeInv'
<1>1. TypeOK
  BY DEF LifeInv
<1>2. PICK a \in Agents : a = sessions[s].agent
  BY <1>1, Looked
<1>3. Life(a)
  BY DEF LifeInv
<1>4. Turns(s, "idle")
  <2>1. sessions' = Moved(sessions, s, "idle") /\ "idle" \in SessionStages
    BY DEF TurnEnds, Moved, SessionStages
  <2> QED
    BY <1>1, <2>1, MovedTurns
<1>5. /\ sessions[s].st = "busy"
      /\ ref' = IF ref[a].status = "none" THEN ref ELSE [ref EXCEPT ![a].status = "idle"]
      /\ timer' = IF a \in adopted THEN timer \cup {a} ELSE timer
      /\ UNCHANGED <<adopted, parking, releasing, revival, bus, ops, killed, overtaken>>
  BY <1>2 DEF TurnEnds, Armed
<1>6. /\ ref' \in [Agents -> [status : {"none", "running", "idle", "parked", "aborted"},
                             session : 0..MaxSessions]]
      /\ ref'[a].session = ref[a].session
      /\ ref'[a].status = IF ref[a].status = "none" THEN "none" ELSE "idle"
      /\ \A b \in Agents \ {a} : ref'[b] = ref[b]
  BY <1>1, <1>5 DEF TypeOK
<1>7. TypeOK'
  BY <1>1, <1>4, <1>5, <1>6 DEF TypeOK, Turns, bus
<1>8. Life(a)'
  <2>1. /\ DOMAIN sessions' = DOMAIN sessions
        /\ \A t \in DOMAIN sessions :
             /\ sessions'[t].agent = sessions[t].agent
             /\ sessions'[t].st = IF t = s THEN "idle" ELSE sessions[t].st
    BY <1>4 DEF Turns
  <2>2. 0 \notin DOMAIN sessions
    BY <1>1, Looked
  <2>3. Attached(a)'
    BY <1>2, <1>3, <1>5, <1>6, <2>1, <2>2 DEF Life, Attached, Open
  <2>4. Disposal(a)'
    BY <1>2, <1>3, <1>5, <1>6, <2>1, <2>2 DEF Life, Attached, Disposal, Open
  <2>5. Timed(a)'
    BY <1>2, <1>3, <1>5, <1>6, <2>1, <2>2 DEF Life, Attached, Disposal, Timed, Open
  <2> QED
    BY <2>3, <2>4, <2>5 DEF Life
<1>9. \A b \in Agents \ {a} : Untouched(b)
  BY <1>5, <1>6 DEF Untouched
<1> QED
  BY <1>2, <1>4, <1>7, <1>8, <1>9, OneChanged

(* A park that begins keeps the invariant.                                  *)
LEMMA ParkBeginsLife ==
  ASSUME LifeInv, NEW a \in Agents, ParkBegins(a)
  PROVE  LifeInv'
<1>1. TypeOK /\ Life(a)
  BY DEF LifeInv
<1>2. ref[a].session \in DOMAIN sessions /\ sessions[ref[a].session].agent = a
  BY <1>1 DEF ParkBegins, Life, Attached, Open
<1>3. /\ Turns(ref[a].session, "closing")
      /\ messages' \in Seq(Message) /\ Len(messages') = Len(messages)
  BY <1>1, <1>2, DisposalBegun DEF ParkBegins
<1>4. TypeOK'
  BY <1>1, <1>3 DEF ParkBegins, TypeOK, Turns
<1>5. Life(a)'
  <2>1. /\ ref' = ref /\ revival' = revival /\ overtaken' = overtaken /\ adopted' = adopted
        /\ timer' = timer \ {a} /\ parking' = parking \cup {a} /\ releasing' = releasing
        /\ a \in timer /\ a \in adopted /\ ref[a].session # 0
    BY DEF ParkBegins
  <2>2. /\ DOMAIN sessions' = DOMAIN sessions
        /\ \A t \in DOMAIN sessions :
             /\ sessions'[t].agent = sessions[t].agent
             /\ sessions'[t].st = IF t = ref[a].session THEN "closing" ELSE sessions[t].st
    BY <1>3 DEF Turns
  <2>3. Attached(a)'
    BY <1>1, <1>2, <2>1, <2>2 DEF Life, Attached, Open
  <2>4. Disposal(a)'
    BY <1>1, <1>2, <2>1, <2>2 DEF Life, Attached, Disposal, Timed, Open
  <2>5. Timed(a)'
    BY <1>1, <1>2, <2>1, <2>2 DEF Life, Timed
  <2> QED
    BY <2>3, <2>4, <2>5 DEF Life
<1>6. \A b \in Agents \ {a} : Untouched(b)
  BY <1>1 DEF ParkBegins, Untouched
<1> QED
  BY <1>2, <1>3, <1>4, <1>5, <1>6, OneChanged

(* The end of a disposal that may have been overtaken by another one: an   *)
(* agent that is parked or released has its session closed, if it has one, *)
(* and none of its sessions stays open.                                    *)
LEMMA LastClosed ==
  ASSUME LifeInv, NEW a \in Agents, a \in parking \cup releasing,
         IF \E s \in DOMAIN sessions : sessions[s].agent = a /\ sessions[s].st = "closing"
         THEN EndDispose(a, SessionOf(a)) ELSE UNCHANGED <<sessions, waiters>>
  PROVE  /\ waiters' \in [Agents -> Seq(Waiter)]
         /\ \E s : /\ Turns(s, "closed") /\ (s \in DOMAIN sessions => sessions[s].agent = a)
                   /\ (s \in DOMAIN sessions => sessions[s].st = "closing")
         /\ \A s \in Open : sessions[s].agent = a => s \notin Open'
         /\ \A t \in DOMAIN sessions : sessions'[t].asides = sessions[t].asides
         /\ \A b \in Agents : waiters'[b] = waiters[b] \/ waiters'[b] = <<>>
<1>1. TypeOK /\ Life(a)
  BY DEF LifeInv
<1>2. \A s \in Open : sessions[s].agent = a =>
                        ref[a].session = s /\ sessions[s].st = "closing"
  BY <1>1 DEF Life, Disposal
<1>3. CASE \E s \in DOMAIN sessions : sessions[s].agent = a /\ sessions[s].st = "closing"
  <2>1. PICK s \in DOMAIN sessions : /\ sessions[s].agent = a /\ sessions[s].st = "closing"
                                     /\ s = SessionOf(a)
    BY <1>3 DEF SessionOf
  <2>2. EndDispose(a, s)
    BY <1>3, <2>1
  <2>3. /\ Turns(s, "closed") /\ waiters' \in [Agents -> Seq(Waiter)]
        /\ \A t \in DOMAIN sessions : sessions'[t].asides = sessions[t].asides
        /\ \A b \in Agents : waiters'[b] = IF b = a THEN <<>> ELSE waiters[b]
    BY <1>1, <2>1, <2>2, DisposalEnded
  <2>4. ASSUME NEW t \in Open, sessions[t].agent = a PROVE t \notin Open'
    BY <1>2, <2>1, <2>3, <2>4 DEF Open, Turns
  <2> QED
    BY <2>1, <2>3, <2>4
<1>4. CASE ~ \E s \in DOMAIN sessions : sessions[s].agent = a /\ sessions[s].st = "closing"
  <2>1. sessions' = sessions /\ waiters' = waiters
    BY <1>4
  <2>2. \A s \in Open : sessions[s].agent # a
    BY <1>2, <1>4 DEF Open
  <2>3. Turns(0, "closed") /\ 0 \notin DOMAIN sessions
    BY <1>1, <2>1, Looked DEF Turns, TypeOK
  <2>4. waiters' \in [Agents -> Seq(Waiter)]
    BY <1>1, <2>1 DEF TypeOK
  <2> QED
    BY <2>1, <2>2, <2>3, <2>4
<1> QED
  BY <1>3, <1>4

(* A park that ends keeps the invariant.                                    *)
LEMMA ParkedLife ==
  ASSUME LifeInv, NEW a \in Agents, Parked(a)
  PROVE  LifeInv'
<1>1. TypeOK /\ Life(a)
  BY DEF LifeInv
<1>2. /\ a \in parking /\ parking' = parking \ {a}
      /\ ref' = IF ref[a].status = "none" THEN ref
                ELSE [ref EXCEPT ![a] = [status |-> "parked", session |-> 0]]
      /\ UNCHANGED <<adopted, timer, releasing, revival, messages, mail, ops, killed, overtaken>>
  BY DEF Parked
<1>3. /\ waiters' \in [Agents -> Seq(Waiter)]
      /\ \E s : /\ Turns(s, "closed") /\ (s \in DOMAIN sessions => sessions[s].agent = a)
                /\ (s \in DOMAIN sessions => sessions[s].st = "closing")
      /\ \A s \in Open : sessions[s].agent = a => s \notin Open'
  BY <1>2, LastClosed DEF Parked
<1>4. PICK s : /\ Turns(s, "closed") /\ (s \in DOMAIN sessions => sessions[s].agent = a)
  BY <1>3
<1>5. /\ ref' \in [Agents -> [status : {"none", "running", "idle", "parked", "aborted"},
                              session : 0..MaxSessions]]
      /\ ref'[a].session = 0
      /\ ref'[a].status = IF ref[a].status = "none" THEN "none" ELSE "parked"
      /\ \A b \in Agents \ {a} : ref'[b] = ref[b]
  BY <1>1, <1>2, BusAssumption DEF TypeOK, Life, Attached
<1>6. TypeOK'
  BY <1>1, <1>2, <1>3, <1>4, <1>5 DEF TypeOK, Turns
<1>7. Life(a)'
  <2>1. \A t \in Open' : sessions'[t].agent # a
    BY <1>3, <1>4 DEF Turns, Open
  <2>2. Attached(a)'
    BY <1>1, <1>2, <1>5, <2>1 DEF Life, Attached, Disposal
  <2>3. Disposal(a)'
    BY <1>1, <1>2, <1>5, <2>1 DEF Life, Disposal
  <2>4. Timed(a)'
    BY <1>1, <1>2, <1>5 DEF Life, Attached, Disposal, Timed
  <2> QED
    BY <2>2, <2>3, <2>4 DEF Life
<1>8. \A b \in Agents \ {a} : Untouched(b)
  BY <1>1, <1>2, <1>5 DEF Untouched
<1> QED
  BY <1>4, <1>6, <1>7, <1>8, OneChanged

(* A release that ends keeps the invariant.                                 *)
LEMMA ReleasedLife ==
  ASSUME LifeInv, NEW a \in Agents, Released(a)
  PROVE  LifeInv'
<1>1. TypeOK /\ Life(a)
  BY DEF LifeInv
<1>2. /\ a \in releasing /\ releasing' = releasing \ {a}
      /\ ref' = [ref EXCEPT ![a] = [status |-> "none", session |-> 0]]
      /\ adopted' = adopted \ {a} /\ timer' = timer \ {a}
      /\ UNCHANGED <<parking, revival, messages, mail, ops, killed, overtaken>>
  BY DEF Released, Forgotten, NoRef
<1>3. /\ waiters' \in [Agents -> Seq(Waiter)]
      /\ \E s : /\ Turns(s, "closed") /\ (s \in DOMAIN sessions => sessions[s].agent = a)
                /\ (s \in DOMAIN sessions => sessions[s].st = "closing")
      /\ \A s \in Open : sessions[s].agent = a => s \notin Open'
  BY <1>2, LastClosed DEF Released
<1>4. PICK s : /\ Turns(s, "closed") /\ (s \in DOMAIN sessions => sessions[s].agent = a)
  BY <1>3
<1>5. /\ ref' \in [Agents -> [status : {"none", "running", "idle", "parked", "aborted"},
                              session : 0..MaxSessions]]
      /\ ref'[a].session = 0 /\ ref'[a].status = "none"
      /\ \A b \in Agents \ {a} : ref'[b] = ref[b]
  BY <1>1, <1>2, BusAssumption DEF TypeOK
<1>6. TypeOK'
  BY <1>1, <1>2, <1>3, <1>4, <1>5 DEF TypeOK, Turns
<1>7. Life(a)'
  <2>1. \A t \in Open' : sessions'[t].agent # a
    BY <1>3, <1>4 DEF Turns, Open
  <2>2. revival[a] = "none"
    BY <1>1, <1>2 DEF Life, Disposal
  <2>3. Attached(a)'
    BY <1>1, <1>2, <1>5, <2>1, <2>2 DEF Attached
  <2>4. Disposal(a)'
    BY <1>1, <1>2, <1>5, <2>1, <2>2 DEF Disposal
  <2>5. Timed(a)'
    BY <1>1, <1>2, <1>5 DEF Timed
  <2> QED
    BY <2>3, <2>4, <2>5 DEF Life
<1>8. \A b \in Agents \ {a} : Untouched(b)
  BY <1>1, <1>2, <1>5 DEF Untouched
<1> QED
  BY <1>4, <1>6, <1>7, <1>8, OneChanged

(* A revival that begins, or goes on, of an agent without a session.       *)
LEMMA RevivalBegunLife ==
  ASSUME LifeInv, NEW a \in Agents, CanRevive(a),
         UNCHANGED <<ref, adopted, timer, parking, releasing, sessions, overtaken>>,
         revival'[a] = IF revival[a] = "none" THEN "opening" ELSE revival[a]
  PROVE  Life(a)'
<1>1. TypeOK /\ Life(a)
  BY DEF LifeInv
<1>2. CASE revival[a] # "none"
  <2>1. revival'[a] = revival[a]
    BY <1>2
  <2>2. Attached(a)'
    BY <1>1, <2>1 DEF Life, Attached, Open
  <2>3. Disposal(a)'
    BY <1>1, <2>1 DEF Life, Disposal, Open
  <2>4. Timed(a)'
    BY <1>1, <2>1 DEF Life, Timed
  <2> QED
    BY <2>2, <2>3, <2>4 DEF Life
<1>3. CASE revival[a] = "none"
  <2>1. /\ revival'[a] = "opening" /\ ref[a].session = 0 /\ ref[a].status = "parked"
        /\ a \in adopted
    BY <1>3 DEF CanRevive
  <2>2. Attached(a)'
    BY <1>1, <2>1, Looked DEF Life, Attached, Open
  <2>3. Disposal(a)'
    BY <1>1, <2>1 DEF Life, Attached, Disposal, Open
  <2>4. Timed(a)'
    BY <1>1, <2>1 DEF Life, Timed
  <2> QED
    BY <2>2, <2>3, <2>4 DEF Life
<1> QED
  BY <1>2, <1>3

(* ensureLive of a caller outside the bus keeps the invariant.              *)
LEMMA EnsureLiveLife ==
  ASSUME LifeInv, NEW a \in Agents, EnsureLive(a)
  PROVE  LifeInv'
<1>1. TypeOK /\ Life(a)
  BY DEF LifeInv
<1>2. ref[a].status # "none" /\ revival' = Begun(a) /\ CanRevive(a)
      /\ UNCHANGED <<ref, adopted, timer, parking, releasing, sessions, bus, killed, overtaken>>
  BY DEF EnsureLive
<1>3. Turns(0, "idle") /\ 0 \notin DOMAIN sessions
  BY <1>1, <1>2, NoneTurns
<1>4. /\ revival' \in [Agents -> {"none", "opening", "building"}]
      /\ revival'[a] = IF revival[a] = "none" THEN "opening" ELSE revival[a]
      /\ \A b \in Agents \ {a} : revival'[b] = revival[b]
  BY <1>1, <1>2 DEF Begun, TypeOK
<1>5. TypeOK'
  <2>1. ops' \in 0..MaxOps
    BY <1>1, BusAssumption DEF EnsureLive, Command, TypeOK
  <2> QED
    BY <1>1, <1>2, <1>4, <2>1 DEF TypeOK, bus
<1>6. Life(a)'
  BY <1>1, <1>2, <1>4, RevivalBegunLife
<1>7. \A b \in Agents \ {a} : Untouched(b)
  BY <1>2, <1>4 DEF Untouched
<1> QED
  BY <1>3, <1>5, <1>6, <1>7, OneChanged

(* The registration of a revived session keeps the invariant.               *)
LEMMA ReviveRegistersLife ==
  ASSUME LifeInv, NEW a \in Agents, ReviveRegisters(a)
  PROVE  LifeInv'
<1>1. TypeOK /\ Life(a)
  BY DEF LifeInv
<1>2. /\ revival[a] = "opening" /\ revival' = [revival EXCEPT ![a] = "building"]
      /\ ref' = [ref EXCEPT ![a] = [status |-> "running", session |-> 0]]
      /\ UNCHANGED <<adopted, timer, parking, releasing, sessions, bus, ops, killed, overtaken>>
  BY DEF ReviveRegisters
<1>3. Turns(0, "idle") /\ 0 \notin DOMAIN sessions
  BY <1>1, <1>2, NoneTurns
<1>4. /\ revival' \in [Agents -> {"none", "opening", "building"}]
      /\ revival'[a] = "building"
      /\ ref' \in [Agents -> [status : {"none", "running", "idle", "parked", "aborted"},
                              session : 0..MaxSessions]]
      /\ ref'[a].session = 0 /\ ref'[a].status = "running"
      /\ \A b \in Agents \ {a} : revival'[b] = revival[b] /\ ref'[b] = ref[b]
  BY <1>1, <1>2, BusAssumption DEF TypeOK
<1>5. TypeOK'
  BY <1>1, <1>2, <1>4 DEF TypeOK, bus
<1>6. Life(a)'
  <2>1. Attached(a)'
    BY <1>1, <1>2, <1>4 DEF Life, Attached, Open
  <2>2. Disposal(a)'
    BY <1>1, <1>2, <1>4 DEF Life, Disposal
  <2>3. Timed(a)'
    BY <1>1, <1>2, <1>4 DEF Life, Attached, Timed
  <2> QED
    BY <2>1, <2>2, <2>3 DEF Life
<1>7. \A b \in Agents \ {a} : Untouched(b)
  BY <1>2, <1>4 DEF Untouched
<1> QED
  BY <1>3, <1>5, <1>6, <1>7, OneChanged

(* A revival that fails keeps the invariant.                                *)
LEMMA ReviveFailsLife ==
  ASSUME LifeInv, NEW a \in Agents, ReviveFails(a)
  PROVE  LifeInv'
<1>1. TypeOK /\ Life(a)
  BY DEF LifeInv
<1>2. /\ revival[a] # "none" /\ revival' = [revival EXCEPT ![a] = "none"]
      /\ messages' = SetStage(messages, Awaiting(a), "failed")
      /\ UNCHANGED <<parking, releasing, sessions, mail, waiters, ops, killed, overtaken>>
      /\ \/ revival[a] = "opening" /\ UNCHANGED <<ref, adopted, timer>>
         \/ /\ revival[a] # "opening" /\ ref' = [ref EXCEPT ![a] = NoRef]
            /\ adopted' = adopted \ {a} /\ timer' = timer \ {a}
  BY DEF ReviveFails, Forgotten
<1>3. Turns(0, "idle") /\ 0 \notin DOMAIN sessions
  BY <1>1, <1>2, NoneTurns
<1>4. /\ revival' \in [Agents -> {"none", "opening", "building"}] /\ revival'[a] = "none"
      /\ ref' \in [Agents -> [status : {"none", "running", "idle", "parked", "aborted"},
                              session : 0..MaxSessions]]
      /\ ref'[a].session = 0 /\ ref'[a].status \in {"none", "parked"}
      /\ ref'[a].status = "none" => a \notin adopted'
      /\ \A b \in Agents \ {a} : revival'[b] = revival[b] /\ ref'[b] = ref[b]
  <2>1. ref[a].session = 0 /\ (revival[a] = "opening" => ref[a].status \in {"none", "parked"})
        /\ (ref[a].status = "none" => a \notin adopted)
    BY <1>1, <1>2 DEF Life, Attached, TypeOK
  <2> QED
    BY <1>1, <1>2, <2>1, BusAssumption DEF TypeOK, NoRef
<1>5. TypeOK'
  <2>1. messages' \in Seq(Message) /\ Len(messages') = Len(messages)
    <3>1. messages \in Seq(Message) /\ "failed" \in Stages
      BY <1>1 DEF TypeOK, Stages
    <3> QED
      BY <1>2, <3>1, StageSet
  <2> QED
    BY <1>1, <1>2, <1>4, <2>1 DEF TypeOK
<1>6. Life(a)'
  <2>1. Attached(a)'
    BY <1>1, <1>2, <1>4 DEF Life, Attached, Open
  <2>2. Disposal(a)'
    BY <1>1, <1>2, <1>4 DEF Life, Disposal
  <2>3. Timed(a)'
    BY <1>1, <1>2, <1>4 DEF Life, Attached, Timed, TypeOK
  <2> QED
    BY <2>1, <2>2, <2>3 DEF Life
<1>7. \A b \in Agents \ {a} : Untouched(b)
  BY <1>2, <1>4 DEF Untouched
<1> QED
  BY <1>3, <1>5, <1>6, <1>7, OneChanged

(* A revived agent gets a session of its own, the newest.                  *)
LEMMA RevivedLife ==
  ASSUME LifeInv, NEW a \in Agents, Revived(a)
  PROVE  LifeInv'
<1> DEFINE n == Len(sessions) + 1
<1>1. TypeOK /\ Life(a)
  BY DEF LifeInv
<1>2. /\ revival[a] = "building" /\ Len(sessions) < MaxSessions
      /\ revival' = [revival EXCEPT ![a] = "none"]
      /\ UNCHANGED <<adopted, parking, releasing, mail, waiters, ops, killed, overtaken>>
      /\ \/ ref[a].status = "none" /\ UNCHANGED <<ref, timer>>
         \/ /\ ref[a].status # "none"
            /\ ref' = [ref EXCEPT ![a] = [status |-> "idle", session |-> n]]
            /\ timer' = IF a \in adopted THEN timer \cup {a} ELSE timer
  BY DEF Revived, Armed
<1>3. /\ sessions' \in Seq(Session) /\ Len(sessions') = n /\ DOMAIN sessions' = 1..n
      /\ sessions'[n].agent = a /\ sessions'[n].st = "idle" /\ sessions'[n].asides = {}
      /\ \A t \in DOMAIN sessions : sessions'[t] = sessions[t]
  <2> DEFINE new == [agent |-> a, st |-> "idle", asides |-> {}]
  <2>1. new \in Session /\ sessions \in Seq(Session)
    BY <1>1 DEF Session, TypeOK
  <2>2. sessions' = Append(sessions, new)
    BY DEF Revived
  <2>3. /\ Append(sessions, new) \in Seq(Session) /\ Len(Append(sessions, new)) = n
        /\ \A i \in 1..Len(sessions) : Append(sessions, new)[i] = sessions[i]
        /\ Append(sessions, new)[n] = new
    BY <2>1, AppendProperties
  <2>4. DOMAIN sessions' = 1..n
    BY <2>2, <2>3, LenProperties
  <2> QED
    BY <1>1, <2>2, <2>3, <2>4, Looked
<1>4. n \in Nat \ {0} /\ n \in 0..MaxSessions /\ DOMAIN sessions = 1..Len(sessions)
      /\ n \notin DOMAIN sessions /\ DOMAIN sessions' = DOMAIN sessions \cup {n}
  BY <1>1, <1>2, <1>3, Looked, BusAssumption
<1> HIDE DEF n
<1>5. messages' \in Seq(Message) /\ Len(messages') = Len(messages)
  <2>1. messages \in Seq(Message) /\ "resumed" \in Stages
    BY <1>1 DEF TypeOK, Stages
  <2> QED
    BY <2>1, StageSet DEF Revived
<1>6. /\ revival' \in [Agents -> {"none", "opening", "building"}] /\ revival'[a] = "none"
      /\ ref' \in [Agents -> [status : {"none", "running", "idle", "parked", "aborted"},
                              session : 0..MaxSessions]]
      /\ \A b \in Agents \ {a} : revival'[b] = revival[b] /\ ref'[b] = ref[b]
  <2>1. revival' \in [Agents -> {"none", "opening", "building"}]
        /\ \A b \in Agents : revival'[b] = IF b = a THEN "none" ELSE revival[b]
    BY <1>1, <1>2 DEF TypeOK
  <2>2. ref' \in [Agents -> [status : {"none", "running", "idle", "parked", "aborted"},
                            session : 0..MaxSessions]]
        /\ \A b \in Agents \ {a} : ref'[b] = ref[b]
    <3>1. CASE ref' = ref
      BY <1>1, <3>1 DEF TypeOK
    <3>2. CASE ref' = [ref EXCEPT ![a] = [status |-> "idle", session |-> n]]
      BY <1>1, <1>4, <3>2 DEF TypeOK
    <3> QED
      BY <1>2, <3>1, <3>2
  <2> QED
    BY <2>1, <2>2
<1>7. \/ /\ ref[a].status = "none" /\ a \in overtaken /\ ref'[a] = ref[a] /\ timer' = timer
         /\ a \notin adopted
      \/ /\ ref[a].status = "running" /\ ref'[a].status = "idle" /\ ref'[a].session = n
         /\ timer' = IF a \in adopted THEN timer \cup {a} ELSE timer
  BY <1>1, <1>2 DEF Life, Attached, TypeOK
<1>8. TypeOK'
  <2>1. Len(sessions') <= MaxSessions
    BY <1>3, <1>4
  <2>2. timer' \subseteq Agents
    BY <1>1, <1>7 DEF TypeOK
  <2> QED
    BY <1>1, <1>2, <1>3, <1>5, <1>6, <2>1, <2>2 DEF TypeOK
<1>9. \A t \in Open : sessions[t].agent # a
  BY <1>1, <1>2 DEF Life, Attached
<1>10. /\ ref[a].session = 0 /\ a \notin parking /\ a \notin releasing /\ a \notin timer
  BY <1>1, <1>2, <1>7 DEF Life, Attached, Disposal, Timed
<1>11. Open' = Open \cup {n}
  BY <1>3, <1>4 DEF Open
<1>12. \A t \in Open : sessions'[t] = sessions[t]
  BY <1>3 DEF Open
<1>13. Life(a)'
  <2>1. Attached(a)'
    BY <1>2, <1>3, <1>6, <1>7, <1>9, <1>10, <1>11, <1>12, <1>4 DEF Attached
  <2>2. Disposal(a)'
    BY <1>2, <1>3, <1>6, <1>7, <1>10 DEF Disposal
  <2>3. Timed(a)'
    BY <1>2, <1>3, <1>4, <1>6, <1>7, <1>10 DEF Timed
  <2> QED
    BY <2>1, <2>2, <2>3 DEF Life
<1>14. ASSUME NEW b \in Agents, b # a PROVE Life(b)'
  <2>1. /\ revival'[b] = revival[b] /\ ref'[b] = ref[b] /\ (b \in timer' <=> b \in timer)
        /\ UNCHANGED <<adopted, parking, releasing, overtaken>>
    BY <1>2, <1>6, <1>7, <1>14
  <2>2. Life(b)
    BY DEF LifeInv
  <2>3. ref[b].session # 0 => ref[b].session \in Open
    BY <2>2 DEF Life, Attached
  <2>4. Attached(b)'
    BY <1>3, <1>11, <1>12, <1>14, <2>1, <2>2, <2>3 DEF Life, Attached
  <2>5. Disposal(b)'
    BY <1>3, <1>11, <1>12, <1>14, <2>1, <2>2, <2>3 DEF Life, Disposal
  <2>6. Timed(b)'
    BY <1>12, <2>1, <2>2, <2>3 DEF Life, Timed
  <2> QED
    BY <2>4, <2>5, <2>6 DEF Life
<1> QED
  BY <1>8, <1>13, <1>14 DEF LifeInv

(* A release that begins keeps the invariant.                               *)
LEMMA ReleaseLife ==
  ASSUME LifeInv, NEW a \in Agents, Release(a)
  PROVE  LifeInv'
<1>1. TypeOK /\ Life(a)
  BY DEF LifeInv
<1>2. /\ ref[a].status # "none" /\ a \notin releasing
      /\ adopted' = adopted \ {a} /\ timer' = timer \ {a} /\ killed' = killed \cup {a}
      /\ overtaken' = IF revival[a] = "none" THEN overtaken ELSE overtaken \cup {a}
      /\ UNCHANGED <<parking, revival, mail, waiters>>
  BY DEF Release, Forgotten
<1>3. ops' \in 0..MaxOps
  BY <1>1, BusAssumption DEF Release, Command, TypeOK
<1>4. CASE ref[a].session = 0
  <2>1. /\ ref' = [ref EXCEPT ![a] = [status |-> "none", session |-> 0]]
        /\ UNCHANGED <<releasing, sessions, messages>>
    BY <1>4 DEF Release, NoRef
  <2>2. Turns(0, "idle") /\ 0 \notin DOMAIN sessions
    BY <1>1, <2>1, NoneTurns
  <2>3. /\ ref' \in [Agents -> [status : {"none", "running", "idle", "parked", "aborted"},
                                session : 0..MaxSessions]]
        /\ ref'[a].session = 0 /\ ref'[a].status = "none"
        /\ \A b \in Agents \ {a} : ref'[b] = ref[b]
    BY <1>1, <2>1, BusAssumption DEF TypeOK
  <2>4. TypeOK'
    BY <1>1, <1>2, <1>3, <2>1, <2>3 DEF TypeOK
  <2>5. Life(a)'
    <3>1. Attached(a)'
      BY <1>1, <1>2, <1>4, <2>1, <2>3, Looked DEF Life, Attached, Open
    <3>2. Disposal(a)'
      BY <1>1, <1>2, <1>4, <2>1, <2>3 DEF Life, Attached, Disposal, Open
    <3>3. Timed(a)'
      BY <1>2, <2>3 DEF Timed
    <3> QED
      BY <3>1, <3>2, <3>3 DEF Life
  <2>6. \A b \in Agents \ {a} : Untouched(b)
    BY <1>2, <2>1, <2>3 DEF Untouched
  <2> QED
    BY <2>2, <2>4, <2>5, <2>6, OneChanged
<1>5. CASE ref[a].session # 0
  <2>1. releasing' = releasing \cup {a} /\ ref' = ref /\ BeginDispose(ref[a].session)
    BY <1>5 DEF Release
  <2>2. ref[a].session \in DOMAIN sessions /\ sessions[ref[a].session].agent = a
    BY <1>1, <1>5 DEF Life, Attached, Open
  <2>3. /\ Turns(ref[a].session, "closing")
        /\ messages' \in Seq(Message) /\ Len(messages') = Len(messages)
    BY <1>1, <2>1, <2>2, DisposalBegun
  <2>4. TypeOK'
    BY <1>1, <1>2, <1>3, <2>1, <2>3 DEF TypeOK, Turns
  <2>5. Life(a)'
    <3>1. /\ DOMAIN sessions' = DOMAIN sessions
          /\ \A t \in DOMAIN sessions :
               /\ sessions'[t].agent = sessions[t].agent
               /\ sessions'[t].st = IF t = ref[a].session THEN "closing" ELSE sessions[t].st
      BY <2>3 DEF Turns
    <3>2. revival[a] = "none"
      BY <1>1, <1>5 DEF Life, Attached
    <3>3. Attached(a)'
      BY <1>1, <1>2, <1>5, <2>1, <2>2, <3>1, <3>2 DEF Life, Attached, Open
    <3>4. Disposal(a)'
      BY <1>1, <1>2, <1>5, <2>1, <2>2, <3>1, <3>2 DEF Life, Attached, Disposal, Open
    <3>5. Timed(a)'
      BY <1>2 DEF Timed
    <3> QED
      BY <3>3, <3>4, <3>5 DEF Life
  <2>6. \A b \in Agents \ {a} : Untouched(b)
    BY <1>2, <2>1 DEF Untouched
  <2> QED
    BY <2>2, <2>3, <2>4, <2>5, <2>6, OneChanged
<1> QED
  BY <1>4, <1>5

-----------------------------------------------------------------------------
(* LifeInv is kept by the steps of the bus.                                *)

(* What #enqueue leaves in a mailbox: the newest, and all or all but the   *)
(* oldest of the others.                                                   *)
LEMMA Enqueued ==
  ASSUME NEW box \in Seq(Ids), Len(box) <= MailboxCap, NEW m \in Ids
  PROVE  /\ Enqueue(box, m) \in Seq(Ids) /\ Len(Enqueue(box, m)) <= MailboxCap
         /\ Len(box) # MailboxCap =>
              /\ Len(Enqueue(box, m)) = Len(box) + 1
              /\ Enqueue(box, m)[Len(box) + 1] = m
              /\ \A i \in 1..Len(box) : Enqueue(box, m)[i] = box[i]
         /\ Len(box) = MailboxCap =>
              /\ Len(Enqueue(box, m)) = Len(box)
              /\ Enqueue(box, m)[Len(box)] = m
              /\ \A i \in 1..(Len(box) - 1) : Enqueue(box, m)[i] = box[i + 1]
<1> DEFINE b == Append(box, m)
<1>1. Len(box) \in Nat /\ MailboxCap \in Nat \ {0}
  BY BusAssumption, LenProperties
<1>2. /\ b \in Seq(Ids) /\ Len(b) = Len(box) + 1 /\ b[Len(box) + 1] = m
      /\ \A i \in 1..Len(box) : b[i] = box[i]
  BY <1>1, AppendProperties
<1>3. Enqueue(box, m) = IF Len(b) > MailboxCap THEN Tail(b) ELSE b
  BY DEF Enqueue
<1> HIDE DEF b
<1>4. CASE Len(box) # MailboxCap
  BY <1>1, <1>2, <1>3, <1>4
<1>5. CASE Len(box) = MailboxCap
  <2>1. Enqueue(box, m) = Tail(b) /\ b # <<>>
    BY <1>1, <1>2, <1>3, <1>5, EmptySeq
  <2>2. /\ Tail(b) \in Seq(Ids) /\ Len(Tail(b)) = Len(b) - 1
        /\ \A i \in 1..Len(Tail(b)) : Tail(b)[i] = b[i + 1]
    BY <1>2, <2>1, HeadTailProperties
  <2> QED
    BY <1>1, <1>2, <1>5, <2>1, <2>2
<1> QED
  BY <1>4, <1>5

(* No wait begins in the step, some may end.                               *)
NoWaitBegins ==
  /\ waiters' \in [Agents -> Seq(Waiter)]
  /\ \A b \in Agents : \A i \in DOMAIN waiters'[b] :
       \E j \in DOMAIN waiters[b] : waiters'[b][i] = waiters[b][j]

(* A wait that ends.                                                       *)
LEMMA WaitEnds ==
  ASSUME TypeOK, NEW a \in Agents, NEW i \in DOMAIN waiters[a],
         waiters' = [waiters EXCEPT ![a] = RemoveAt(waiters[a], i)]
  PROVE  NoWaitBegins
<1>1. waiters \in [Agents -> Seq(Waiter)]
  BY DEF TypeOK
<1>2. waiters[a] \in Seq(Waiter)
  BY <1>1
<1>3. /\ RemoveAt(waiters[a], i) \in Seq(Waiter)
      /\ DOMAIN RemoveAt(waiters[a], i) = 1..(Len(waiters[a]) - 1)
      /\ \A j \in 1..(Len(waiters[a]) - 1) :
           RemoveAt(waiters[a], i)[j] = IF j < i THEN waiters[a][j] ELSE waiters[a][j + 1]
  BY <1>2, Removed
<1>4. DOMAIN waiters[a] = 1..Len(waiters[a]) /\ Len(waiters[a]) \in Nat
  BY <1>2, LenProperties
<1>5. ASSUME NEW k \in DOMAIN RemoveAt(waiters[a], i)
      PROVE  \E j \in DOMAIN waiters[a] : RemoveAt(waiters[a], i)[k] = waiters[a][j]
  <2>1. k \in 1..(Len(waiters[a]) - 1)
    BY <1>3
  <2>2. RemoveAt(waiters[a], i)[k] = IF k < i THEN waiters[a][k] ELSE waiters[a][k + 1]
    BY <1>3, <2>1
  <2>3. k \in DOMAIN waiters[a] /\ k + 1 \in DOMAIN waiters[a]
    BY <1>4, <2>1
  <2> QED
    BY <2>2, <2>3
<1>6. waiters'[a] = RemoveAt(waiters[a], i) /\ \A b \in Agents \ {a} : waiters'[b] = waiters[b]
  BY <1>1
<1>7. waiters' \in [Agents -> Seq(Waiter)]
  BY <1>1, <1>3
<1> QED
  BY <1>5, <1>6, <1>7 DEF NoWaitBegins

(* What happens to a message that is handed to its agent.                  *)
LEMMA HandedOff ==
  ASSUME TypeOK, NEW ms, NEW m, HandOff(ms, m), NEW a \in Agents, a = ms[m].to
  PROVE  \/ /\ NoWaitBegins
            /\ messages' = SetStage(ms, {m}, "taken") /\ UNCHANGED <<ref, timer, sessions, mail>>
         \/ /\ ref[a].session = 0
            /\ messages' = SetStage(ms, {m}, "failed")
            /\ UNCHANGED <<ref, timer, sessions, mail, waiters>>
         \/ /\ Matching(a, ms[m].from) = {}
            /\ mail' = [mail EXCEPT ![a] = Enqueue(mail[a], m)]
            /\ messages' = SetStage(SetStage(ms, Displaced(mail[a]), "dropped"), {m}, "buffered")
            /\ UNCHANGED <<ref, timer, sessions, waiters>>
         \/ /\ ref[a].session # 0 /\ sessions[ref[a].session].st = "busy"
            /\ sessions' = AsidesOf(sessions, ref[a].session,
                                    sessions[ref[a].session].asides \cup {m})
            /\ messages' = SetStage(ms, {m}, "aside") /\ UNCHANGED <<ref, timer, mail, waiters>>
         \/ /\ ref[a].session # 0 /\ sessions[ref[a].session].st = "idle"
            /\ sessions' = Moved(sessions, ref[a].session, "busy") /\ NowRunning(a)
            /\ messages' = SetStage(ms, {m}, "seen") /\ UNCHANGED <<mail, waiters>>
<1>1. CASE Matching(a, ms[m].from) # {}
  <2> DEFINE w == Matching(a, ms[m].from)
             i == CHOOSE i \in w : \A j \in w : i <= j
  <2>1. /\ waiters' = [waiters EXCEPT ![a] = RemoveAt(waiters[a], i)]
        /\ messages' = SetStage(ms, {m}, "taken") /\ UNCHANGED <<ref, timer, sessions, mail>>
    BY <1>1 DEF HandOff
  <2>2. i \in DOMAIN waiters[a]
    <3>1. waiters[a] \in Seq(Waiter)
      BY DEF TypeOK
    <3>2. w \subseteq Nat
      BY <3>1, LenProperties DEF Matching
    <3>3. \E k \in w : \A j \in w : k <= j
      BY <1>1, <3>2, LeastNat
    <3>4. i \in w
      BY <3>3
    <3> QED
      BY <3>4 DEF Matching
  <2> HIDE DEF i
  <2> QED
    BY <2>1, <2>2, WaitEnds
<1>2. CASE Matching(a, ms[m].from) = {}
  BY <1>2 DEF HandOff, AsidesOf, Moved
<1> QED
  BY <1>1, <1>2

(* The messages that a step hands over: all there are, perhaps a new one.  *)
LEMMA HandOffLife ==
  ASSUME LifeInv, NEW ms \in Seq(Message), Len(ms) <= MaxMessages, NEW m \in DOMAIN ms,
         HandOff(ms, m), UNCHANGED <<adopted, parking, releasing, revival, ops, killed, overtaken>>
  PROVE  LifeInv'
<1>1. TypeOK
  BY DEF LifeInv
<1>2. PICK a \in Agents : a = ms[m].to
  <2>1. ms \in [1..Len(ms) -> Message] /\ DOMAIN ms = 1..Len(ms)
    BY LenProperties
  <2> QED
    BY <2>1 DEF Message
<1>3. Life(a)
  BY DEF LifeInv
<1>4. m \in Ids
  <2>1. DOMAIN ms = 1..Len(ms) /\ Len(ms) \in Nat
    BY LenProperties
  <2> QED
    BY <2>1, BusAssumption DEF Ids
<1>5. ref[a].session # 0 => ref[a].session \in DOMAIN sessions /\ sessions[ref[a].session].agent = a
  BY <1>3 DEF Life, Attached, Open
<1>6. ASSUME NEW ids, NEW stage \in Stages
      PROVE  SetStage(ms, ids, stage) \in Seq(Message)
             /\ Len(SetStage(ms, ids, stage)) <= MaxMessages
  <2>1. Len(SetStage(ms, ids, stage)) = Len(ms) /\ SetStage(ms, ids, stage) \in Seq(Message)
    BY StageSet
  <2> QED
    BY <2>1
<1>7. {"taken", "failed", "aside", "seen", "dropped", "buffered"} \subseteq Stages
  BY DEF Stages
<1>8. UNCHANGED <<ref, timer, sessions>> /\ TypeOK' => LifeInv'
  <2> SUFFICES ASSUME UNCHANGED <<ref, timer, sessions>>, TypeOK' PROVE LifeInv'
    OBVIOUS
  <2>1. Turns(0, "idle") /\ 0 \notin DOMAIN sessions
    BY <1>1, NoneTurns
  <2>2. \A b \in Agents : Untouched(b)
    BY DEF Untouched
  <2> QED
    BY <2>1, <2>2, NobodyChanged
<1>9. CASE /\ NoWaitBegins
           /\ messages' = SetStage(ms, {m}, "taken") /\ UNCHANGED <<ref, timer, sessions, mail>>
  <2>1. messages' \in Seq(Message) /\ Len(messages') <= MaxMessages
    BY <1>6, <1>7, <1>9
  <2> QED
    BY <1>1, <1>8, <1>9, <2>1 DEF TypeOK, NoWaitBegins
<1>10. CASE /\ messages' = SetStage(ms, {m}, "failed")
            /\ UNCHANGED <<ref, timer, sessions, mail, waiters>>
  <2>1. messages' \in Seq(Message) /\ Len(messages') <= MaxMessages
    BY <1>6, <1>7, <1>10
  <2> QED
    BY <1>1, <1>8, <1>10, <2>1 DEF TypeOK
<1>11. CASE /\ mail' = [mail EXCEPT ![a] = Enqueue(mail[a], m)]
            /\ messages' = SetStage(SetStage(ms, Displaced(mail[a]), "dropped"), {m}, "buffered")
            /\ UNCHANGED <<ref, timer, sessions, waiters>>
  <2>1. messages' \in Seq(Message) /\ Len(messages') <= MaxMessages
    <3>1. /\ SetStage(ms, Displaced(mail[a]), "dropped") \in Seq(Message)
          /\ Len(SetStage(ms, Displaced(mail[a]), "dropped")) = Len(ms)
      BY <1>7, StageSet
    <3>2. /\ messages' \in Seq(Message)
          /\ Len(messages') = Len(SetStage(ms, Displaced(mail[a]), "dropped"))
      BY <1>7, <1>11, <3>1, StageSet
    <3> QED
      BY <3>1, <3>2
  <2>2. mail[a] \in Seq(Ids) /\ Len(mail[a]) <= MailboxCap
    BY <1>1 DEF TypeOK
  <2>3. Enqueue(mail[a], m) \in Seq(Ids) /\ Len(Enqueue(mail[a], m)) <= MailboxCap
    BY <1>4, <2>2, Enqueued
  <2>4. mail' \in [Agents -> Seq(Ids)] /\ \A b \in Agents : Len(mail'[b]) <= MailboxCap
    BY <1>1, <1>11, <2>3 DEF TypeOK
  <2> QED
    BY <1>1, <1>8, <1>11, <2>1, <2>4 DEF TypeOK
<1>12. CASE /\ ref[a].session # 0 /\ sessions[ref[a].session].st = "busy"
            /\ sessions' = AsidesOf(sessions, ref[a].session,
                                    sessions[ref[a].session].asides \cup {m})
            /\ messages' = SetStage(ms, {m}, "aside") /\ UNCHANGED <<ref, timer, mail, waiters>>
  <2>1. messages' \in Seq(Message) /\ Len(messages') <= MaxMessages
    BY <1>6, <1>7, <1>12
  <2>2. sessions \in Seq(Session) /\ ref[a].session \in DOMAIN sessions
        /\ sessions[ref[a].session].asides \cup {m} \in SUBSET Ids
    BY <1>1, <1>4, <1>5, <1>12, Looked DEF TypeOK
  <2>3. Turns(0, "idle") /\ 0 \notin DOMAIN sessions
    <3>1. 0 \notin DOMAIN sessions
      BY <1>1, Looked
    <3> QED
      BY <1>12, <2>2, <3>1, AsidesChanged DEF Turns
  <2>4. TypeOK'
    BY <1>1, <1>12, <2>1, <2>3 DEF TypeOK, Turns
  <2>5. \A b \in Agents : Untouched(b)
    BY <1>12 DEF Untouched
  <2> QED
    BY <2>3, <2>4, <2>5, NobodyChanged
<1>13. CASE /\ ref[a].session # 0 /\ sessions[ref[a].session].st = "idle"
            /\ sessions' = Moved(sessions, ref[a].session, "busy") /\ NowRunning(a)
            /\ messages' = SetStage(ms, {m}, "seen") /\ UNCHANGED <<mail, waiters>>
  <2>1. messages' \in Seq(Message) /\ Len(messages') <= MaxMessages
    BY <1>6, <1>7, <1>13
  <2>2. PICK s \in DOMAIN sessions : s = ref[a].session
    BY <1>5, <1>13
  <2>3. Turns(s, "busy")
    BY <1>1, <1>13, <2>2, MovedTurns DEF SessionStages
  <2>4. TypeOK'
    <3>1. ref' \in [Agents -> [status : {"none", "running", "idle", "parked", "aborted"},
                              session : 0..MaxSessions]]
          /\ timer' \subseteq Agents
      BY <1>1, <1>13, Runs DEF TypeOK
    <3> QED
      BY <1>1, <1>13, <2>1, <2>3, <3>1 DEF TypeOK, Turns
  <2> QED
    BY <1>5, <1>13, <2>2, <2>3, <2>4, TurnBeginsLife
<1> QED
  BY <1>1, <1>2, <1>9, <1>10, <1>11, <1>12, <1>13, HandedOff

(* A message that is sent.                                                 *)
LEMMA Sent ==
  ASSUME TypeOK, NEW p \in Peers, NEW a \in Agents, NEW stage \in Stages
  PROVE  LET ms == Append(messages, [from |-> p, to |-> a, stage |-> stage])
             m  == Len(messages) + 1
         IN /\ ms \in Seq(Message) /\ Len(ms) = m /\ DOMAIN ms = DOMAIN messages \cup {m}
            /\ m \notin DOMAIN messages
            /\ ms[m].from = p /\ ms[m].to = a /\ ms[m].stage = stage
            /\ \A k \in DOMAIN messages : ms[k] = messages[k]
<1> DEFINE new == [from |-> p, to |-> a, stage |-> stage]
<1>1. new \in Message /\ messages \in Seq(Message)
  BY DEF Message, Stages, TypeOK
<1>2. /\ Append(messages, new) \in Seq(Message) /\ Len(Append(messages, new)) = Len(messages) + 1
      /\ \A i \in 1..Len(messages) : Append(messages, new)[i] = messages[i]
      /\ Append(messages, new)[Len(messages) + 1] = new
  BY <1>1, AppendProperties
<1>3. DOMAIN Append(messages, new) = 1..(Len(messages) + 1)
  BY <1>2, LenProperties
<1>4. Len(messages) \in Nat /\ DOMAIN messages = 1..Len(messages)
  BY Looked
<1> QED
  BY <1>2, <1>3, <1>4

(* A step that leaves the life of the agents alone.                        *)
LEMMA LifeStays ==
  ASSUME LifeInv, TypeOK', UNCHANGED <<ref, lifecycle, sessions, overtaken>>
  PROVE  LifeInv'
<1>1. Turns(0, "idle") /\ 0 \notin DOMAIN sessions
  BY NoneTurns DEF LifeInv
<1>2. \A b \in Agents : Untouched(b)
  BY DEF Untouched, lifecycle
<1> QED
  BY <1>1, <1>2, NobodyChanged

(* A send keeps the invariant, also the one that asks for a revival.        *)
LEMMA SendLife ==
  ASSUME LifeInv, NEW p \in Peers, NEW a \in Agents, Send(p, a)
  PROVE  LifeInv'
<1> DEFINE m == Len(messages) + 1
           sent(stage) == Append(messages, [from |-> p, to |-> a, stage |-> stage])
           only(stage) == /\ messages' = sent(stage)
                          /\ UNCHANGED <<ref, timer, sessions, mail, waiters>>
<1>1. TypeOK /\ Life(a)
  BY DEF LifeInv
<1>2. m <= MaxMessages /\ UNCHANGED <<adopted, parking, releasing, ops, killed, overtaken>>
  BY DEF Send
<1>3. ASSUME NEW stage \in Stages
      PROVE  sent(stage) \in Seq(Message) /\ Len(sent(stage)) <= MaxMessages
             /\ m \in DOMAIN sent(stage)
  BY <1>1, <1>2, Sent
<1>4. {"failed", "reviving", "resumed"} \subseteq Stages
  BY DEF Stages
<1>5. CASE only("failed") /\ UNCHANGED revival
  <2>1. messages' \in Seq(Message) /\ Len(messages') <= MaxMessages
    BY <1>3, <1>4, <1>5
  <2> QED
    BY <1>1, <1>2, <1>5, <2>1, LifeStays DEF TypeOK, lifecycle
<1>6. CASE CanRevive(a) /\ revival' = Begun(a) /\ only("reviving")
  <2>1. messages' \in Seq(Message) /\ Len(messages') <= MaxMessages
    BY <1>3, <1>4, <1>6
  <2>2. /\ revival' \in [Agents -> {"none", "opening", "building"}]
        /\ revival'[a] = IF revival[a] = "none" THEN "opening" ELSE revival[a]
        /\ \A b \in Agents \ {a} : revival'[b] = revival[b]
    BY <1>1, <1>6 DEF Begun, TypeOK
  <2>3. TypeOK'
    BY <1>1, <1>2, <1>6, <2>1, <2>2 DEF TypeOK
  <2>4. Life(a)'
    BY <1>2, <1>6, <2>2, RevivalBegunLife
  <2>5. \A b \in Agents \ {a} : Untouched(b)
    BY <1>2, <1>6, <2>2 DEF Untouched
  <2>6. Turns(0, "idle") /\ 0 \notin DOMAIN sessions
    BY <1>1, <1>6, NoneTurns
  <2> QED
    BY <2>3, <2>4, <2>5, <2>6, OneChanged
<1>7. CASE HandOff(sent("resumed"), m) /\ UNCHANGED revival
  BY <1>2, <1>3, <1>4, <1>7, HandOffLife
<1> QED
  BY <1>5, <1>6, <1>7 DEF Send

(* A send that goes on after a revival keeps the invariant.                 *)
LEMMA ResumeLife ==
  ASSUME LifeInv, NEW m \in DOMAIN messages, Resume(m)
  PROVE  LifeInv'
<1>1. messages \in Seq(Message) /\ Len(messages) <= MaxMessages
  BY DEF LifeInv, TypeOK
<1>2. HandOff(messages, m)
      /\ UNCHANGED <<adopted, parking, releasing, revival, ops, killed, overtaken>>
  BY DEF Resume
<1> QED
  BY <1>1, <1>2, HandOffLife

(* A wait takes a message from the mailbox of a, or begins.                *)
TakesOne(a) ==
  \E i \in DOMAIN mail[a] :
    /\ mail' = [mail EXCEPT ![a] = RemoveAt(mail[a], i)]
    /\ messages' = SetStage(messages, {mail[a][i]}, "taken")
    /\ UNCHANGED waiters

WaitBegins(a, from, drain) ==
  /\ drain => Mailed(a, from) = {}
  /\ waiters' = [waiters EXCEPT ![a] = Append(waiters[a], [from |-> from, drained |-> drain])]
  /\ UNCHANGED <<mail, messages>>

(* What a wait does: it takes a message from the mailbox, or it begins.    *)
LEMMA Waited ==
  ASSUME TypeOK, NEW a \in Agents, NEW from \in Peers \cup {Anyone}, NEW drain \in BOOLEAN,
         Wait(a, from, drain)
  PROVE  TakesOne(a) \/ WaitBegins(a, from, drain)
<1>1. CASE Finds(a, from, drain) # {}
  <2> DEFINE hits == Finds(a, from, drain)
             i == CHOOSE i \in hits : \A j \in hits : i <= j
  <2>1. /\ mail' = [mail EXCEPT ![a] = RemoveAt(mail[a], i)]
        /\ messages' = SetStage(messages, {mail[a][i]}, "taken")
        /\ UNCHANGED waiters
    BY <1>1 DEF Wait
  <2>2. hits \subseteq DOMAIN mail[a]
    BY DEF Finds, Mailed
  <2>3. DOMAIN mail[a] \subseteq Nat
    <3>1. mail[a] \in Seq(Ids)
      BY DEF TypeOK
    <3> QED
      BY <3>1, LenProperties
  <2>4. \E k \in hits : \A j \in hits : k <= j
    BY <1>1, <2>2, <2>3, LeastNat
  <2>5. i \in hits
    BY <2>4
  <2> HIDE DEF i, hits
  <2> QED
    BY <2>1, <2>2, <2>5 DEF TakesOne
<1>2. CASE Finds(a, from, drain) = {}
  <2>1. drain => Mailed(a, from) = {}
    BY <1>2 DEF Finds
  <2>2. /\ waiters' = [waiters EXCEPT ![a] =
                         Append(waiters[a], [from |-> from, drained |-> drain])]
        /\ UNCHANGED <<mail, messages>>
    BY <1>2 DEF Wait
  <2> QED
    BY <2>1, <2>2 DEF WaitBegins
<1> QED
  BY <1>1, <1>2

(* A wait that begins leaves the lives of the agents alone.                 *)
LEMMA WaitLife ==
  ASSUME LifeInv, NEW a \in Agents, NEW from \in Peers \cup {Anyone}, NEW drain \in BOOLEAN,
         Wait(a, from, drain)
  PROVE  LifeInv'
<1>1. TypeOK
  BY DEF LifeInv
<1>2. UNCHANGED <<ref, lifecycle, sessions, killed, overtaken>> /\ ops' \in 0..MaxOps
  BY <1>1, BusAssumption DEF Wait, Calls, Command, TypeOK
<1>3. CASE TakesOne(a)
  <2>1. PICK i \in DOMAIN mail[a] :
             /\ mail' = [mail EXCEPT ![a] = RemoveAt(mail[a], i)]
             /\ messages' = SetStage(messages, {mail[a][i]}, "taken")
             /\ UNCHANGED waiters
    BY <1>3 DEF TakesOne
  <2>2. messages' \in Seq(Message) /\ Len(messages') = Len(messages)
    <3>1. messages \in Seq(Message) /\ "taken" \in Stages
      BY <1>1 DEF TypeOK, Stages
    <3> QED
      BY <2>1, <3>1, StageSet
  <2>3. mail[a] \in Seq(Ids) /\ Len(mail[a]) <= MailboxCap /\ Len(mail[a]) \in Nat
    BY <1>1, LenProperties DEF TypeOK
  <2>4. RemoveAt(mail[a], i) \in Seq(Ids) /\ Len(RemoveAt(mail[a], i)) = Len(mail[a]) - 1
    BY <2>3, Removed
  <2>5. Len(RemoveAt(mail[a], i)) <= MailboxCap
    BY <2>3, <2>4, BusAssumption
  <2>6. mail' \in [Agents -> Seq(Ids)] /\ \A b \in Agents : Len(mail'[b]) <= MailboxCap
    BY <1>1, <2>1, <2>4, <2>5 DEF TypeOK
  <2> QED
    BY <1>1, <1>2, <2>1, <2>2, <2>6, LifeStays DEF TypeOK, lifecycle
<1>4. CASE WaitBegins(a, from, drain)
  <2>1. waiters[a] \in Seq(Waiter) /\ [from |-> from, drained |-> drain] \in Waiter
    BY <1>1 DEF TypeOK, Waiter
  <2>2. Append(waiters[a], [from |-> from, drained |-> drain]) \in Seq(Waiter)
    BY <2>1, AppendProperties
  <2>3. waiters' \in [Agents -> Seq(Waiter)]
    BY <1>1, <1>4, <2>2 DEF TypeOK, WaitBegins
  <2> QED
    BY <1>1, <1>2, <1>4, <2>3, LifeStays DEF TypeOK, lifecycle, WaitBegins
<1> QED
  BY <1>1, <1>3, <1>4, Waited

(* So does a wait that times out.                                           *)
LEMMA WaitTimesOutLife ==
  ASSUME LifeInv, NEW a \in Agents, WaitTimesOut(a)
  PROVE  LifeInv'
<1>1. TypeOK
  BY DEF LifeInv
<1>2. NoWaitBegins
  <2>1. PICK i \in DOMAIN waiters[a] : waiters' = [waiters EXCEPT ![a] = RemoveAt(waiters[a], i)]
    BY DEF WaitTimesOut
  <2> QED
    BY <1>1, <2>1, WaitEnds
<1> QED
  BY <1>1, <1>2, LifeStays DEF WaitTimesOut, TypeOK, lifecycle, NoWaitBegins

(* And a look into the inbox.                                               *)
LEMMA InboxLife ==
  ASSUME LifeInv, NEW a \in Agents, Inbox(a)
  PROVE  LifeInv'
<1>1. TypeOK
  BY DEF LifeInv
<1>2. UNCHANGED <<ref, lifecycle, sessions, waiters, killed, overtaken>> /\ ops' \in 0..MaxOps
  BY <1>1, BusAssumption DEF Inbox, Calls, Command, TypeOK
<1>3. messages' \in Seq(Message) /\ Len(messages') = Len(messages)
  <2>1. messages \in Seq(Message) /\ "taken" \in Stages
    BY <1>1 DEF TypeOK, Stages
  <2> QED
    BY <2>1, StageSet DEF Inbox
<1>4. mail' \in [Agents -> Seq(Ids)] /\ \A b \in Agents : Len(mail'[b]) <= MailboxCap
  <2>1. <<>> \in Seq(Ids) /\ Len(<<>>) <= MailboxCap
    BY BusAssumption, EmptySeq
  <2> QED
    BY <1>1, <2>1 DEF Inbox, TypeOK
<1> QED
  BY <1>1, <1>2, <1>3, <1>4, LifeStays DEF TypeOK, lifecycle

(* Every step keeps LifeInv.                                               *)
LEMMA LifeStep == LifeInv /\ [Next]_vars => LifeInv'
<1> SUFFICES ASSUME LifeInv, [Next]_vars PROVE LifeInv'
  OBVIOUS
<1>1. ASSUME NEW a \in Agents,
             \/ Finish(a) \/ \E status \in {"aborted", "parked"} : FinishForGood(a, status)
             \/ ParkBegins(a) \/ EnsureLive(a) \/ Release(a) \/ Own(a)
      PROVE  LifeInv'
  BY <1>1, FinishLife, FinishForGoodLife, ParkBeginsLife, EnsureLiveLife, ReleaseLife, ParkedLife,
     ReleasedLife, FinishedForGoodLife, ReviveRegistersLife, RevivedLife, ReviveFailsLife DEF Own
<1>2. ASSUME NEW a \in Agents,
             \/ \E p \in Peers : Send(p, a)
             \/ \E p \in Peers \cup {Anyone}, drain \in BOOLEAN : Wait(a, p, drain)
             \/ Inbox(a) \/ WaitTimesOut(a)
      PROVE  LifeInv'
  BY <1>2, SendLife, WaitLife, InboxLife, WaitTimesOutLife
<1>3. ASSUME NEW s \in DOMAIN sessions, Prompt(s) \/ DrainAsides(s) \/ TurnEnds(s)
      PROVE  LifeInv'
  BY <1>3, PromptLife, DrainAsidesLife, TurnEndsLife
<1>4. ASSUME NEW m \in DOMAIN messages, Resume(m) PROVE LifeInv'
  BY <1>4, ResumeLife
<1>5. CASE UNCHANGED vars
  <2>1. TypeOK'
    BY <1>5 DEF LifeInv, TypeOK, vars, lifecycle, bus
  <2> QED
    BY <1>5, <2>1, LifeStays DEF vars
<1> QED
  BY <1>1, <1>2, <1>3, <1>4, <1>5 DEF Next

-----------------------------------------------------------------------------
(* Copies is kept.                                                         *)

Copied == {"buffered", "aside"}

(* Two sessions of an agent are not open at once.                          *)
LEMMA Alone ==
  ASSUME LifeInv, NEW s \in Open, NEW t \in Open, sessions[s].agent = sessions[t].agent
  PROVE  s = t
<1>1. PICK a \in Agents : a = sessions[s].agent
  BY Looked DEF LifeInv, Open
<1>2. Attached(a)
  BY DEF LifeInv, Life
<1> QED
  BY <1>1, <1>2 DEF Attached

(* A step from the messages ms puts no message anywhere and takes none     *)
(* out: it may add messages, move others between stages without a copy,    *)
(* and add sessions.                                                       *)
NoneCopied(ms) ==
  /\ mail' = mail
  /\ DOMAIN ms \subseteq DOMAIN messages'
  /\ \A k \in DOMAIN ms :
       /\ messages'[k].to = ms[k].to
       /\ ms[k].stage \in Copied \/ messages'[k].stage \in Copied
            => messages'[k].stage = ms[k].stage
  /\ \A k \in DOMAIN messages' \ DOMAIN ms : messages'[k].stage \notin Copied
  /\ DOMAIN sessions \subseteq DOMAIN sessions'
  /\ \A t \in DOMAIN sessions :
       /\ sessions'[t].agent = sessions[t].agent /\ sessions'[t].asides = sessions[t].asides
       /\ sessions[t].st \in {"idle", "busy"} => sessions'[t].st \in {"idle", "busy"}
  /\ \A t \in DOMAIN sessions' \ DOMAIN sessions : sessions'[t].asides = {}

(* A step that copies no message keeps the copies in order.                 *)
LEMMA NoneCopiedCopies ==
  ASSUME NEW ms, InPlace(ms), NoneCopied(ms)
  PROVE  Copies'
<1>1. InPlace(ms)
  OBVIOUS
<1>2. \A k \in DOMAIN ms : ms[k].stage \in Copied => messages'[k].stage = ms[k].stage
  BY DEF NoneCopied
<1>3. ASSUME NEW a \in Agents
      PROVE  /\ \A i \in DOMAIN mail'[a] :
                  /\ mail'[a][i] \in DOMAIN messages'
                  /\ messages'[mail'[a][i]].to = a /\ messages'[mail'[a][i]].stage = "buffered"
             /\ \A i, j \in DOMAIN mail'[a] : mail'[a][i] = mail'[a][j] => i = j
  BY <1>1, <1>2 DEF InPlace, NoneCopied, Copied
<1>4. ASSUME NEW s \in DOMAIN sessions', NEW m \in sessions'[s].asides
      PROVE  /\ m \in DOMAIN messages' /\ sessions'[s].st \in {"idle", "busy"}
             /\ messages'[m].to = sessions'[s].agent /\ messages'[m].stage = "aside"
  BY <1>1, <1>2 DEF InPlace, NoneCopied, Copied
<1>5. ASSUME NEW m \in DOMAIN messages', messages'[m].stage \in Copied
      PROVE  m \in DOMAIN ms /\ messages'[m].to = ms[m].to
             /\ messages'[m].stage = ms[m].stage
  BY <1>5 DEF NoneCopied
<1>6. ASSUME NEW m \in DOMAIN messages', messages'[m].stage = "buffered"
      PROVE  \E i \in DOMAIN mail'[messages'[m].to] : mail'[messages'[m].to][i] = m
  BY <1>1, <1>5, <1>6 DEF InPlace, NoneCopied, Copied
<1>7. ASSUME NEW m \in DOMAIN messages', messages'[m].stage = "aside"
      PROVE  \E s \in DOMAIN sessions' : m \in sessions'[s].asides
  BY <1>1, <1>5, <1>7 DEF InPlace, NoneCopied, Copied
<1> QED
  BY <1>3, <1>4, <1>6, <1>7 DEF Copies, InPlace

(* The asides of session s leave it, for a stage without a copy.           *)
AsidesLeave(s, stage) ==
  /\ mail' = mail
  /\ DOMAIN sessions' = DOMAIN sessions /\ DOMAIN messages' = DOMAIN messages
  /\ \A t \in DOMAIN sessions :
       /\ sessions'[t].agent = sessions[t].agent
       /\ sessions'[t].asides = IF t = s THEN {} ELSE sessions[t].asides
       /\ t # s => sessions'[t].st = sessions[t].st
  /\ \A m \in DOMAIN messages :
       /\ messages'[m].to = messages[m].to
       /\ messages'[m].stage = IF m \in sessions[s].asides THEN stage ELSE messages[m].stage

(* So does one that drops the asides of a session.                          *)
LEMMA AsidesLeaveCopies ==
  ASSUME IInv, NEW s \in DOMAIN sessions, NEW stage, stage \notin Copied, AsidesLeave(s, stage)
  PROVE  Copies'
<1>1. InPlace(messages) /\ LifeInv
  BY DEF IInv, Copies
<1>2. ASSUME NEW t \in DOMAIN sessions, t # s, NEW m \in sessions[t].asides
      PROVE  m \notin sessions[s].asides
  <2> SUFFICES ASSUME m \in sessions[s].asides PROVE FALSE
    OBVIOUS
  <2>1. s \in Open /\ t \in Open /\ sessions[s].agent = sessions[t].agent
    BY <1>1 DEF InPlace, Open
  <2> QED
    BY <1>1, <1>2, <2>1, Alone
<1>3. \A m \in sessions[s].asides : messages[m].stage = "aside"
  BY <1>1 DEF InPlace
<1>4. ASSUME NEW a \in Agents
      PROVE  /\ \A i \in DOMAIN mail'[a] :
                  /\ mail'[a][i] \in DOMAIN messages'
                  /\ messages'[mail'[a][i]].to = a /\ messages'[mail'[a][i]].stage = "buffered"
             /\ \A i, j \in DOMAIN mail'[a] : mail'[a][i] = mail'[a][j] => i = j
  <2>1. /\ \A i \in DOMAIN mail[a] :
             /\ mail[a][i] \in DOMAIN messages
             /\ messages[mail[a][i]].to = a /\ messages[mail[a][i]].stage = "buffered"
        /\ \A i, j \in DOMAIN mail[a] : mail[a][i] = mail[a][j] => i = j
    BY <1>1 DEF InPlace
  <2> QED
    BY <1>3, <2>1 DEF AsidesLeave
<1>5. ASSUME NEW t \in DOMAIN sessions', NEW m \in sessions'[t].asides
      PROVE  /\ m \in DOMAIN messages' /\ sessions'[t].st \in {"idle", "busy"}
             /\ messages'[m].to = sessions'[t].agent /\ messages'[m].stage = "aside"
  <2>1. t \in DOMAIN sessions /\ t # s /\ m \in sessions[t].asides
    BY DEF AsidesLeave
  <2>2. m \notin sessions[s].asides
    BY <1>2, <2>1
  <2>3. /\ m \in DOMAIN messages /\ sessions[t].st \in {"idle", "busy"}
        /\ messages[m].to = sessions[t].agent /\ messages[m].stage = "aside"
    BY <1>1, <2>1 DEF InPlace
  <2> QED
    BY <2>1, <2>2, <2>3 DEF AsidesLeave
<1>6. ASSUME NEW m \in DOMAIN messages', messages'[m].stage \in Copied
      PROVE  m \in DOMAIN messages /\ messages'[m].to = messages[m].to
             /\ messages'[m].stage = messages[m].stage /\ m \notin sessions[s].asides
  BY <1>6 DEF AsidesLeave
<1>7. ASSUME NEW m \in DOMAIN messages', messages'[m].stage = "buffered"
      PROVE  \E i \in DOMAIN mail'[messages'[m].to] : mail'[messages'[m].to][i] = m
  BY <1>1, <1>6, <1>7 DEF InPlace, AsidesLeave, Copied
<1>8. ASSUME NEW m \in DOMAIN messages', messages'[m].stage = "aside"
      PROVE  \E t \in DOMAIN sessions' : m \in sessions'[t].asides
  <2>1. m \in DOMAIN messages /\ messages[m].stage = "aside" /\ m \notin sessions[s].asides
    BY <1>6, <1>8 DEF Copied
  <2>2. PICK t \in DOMAIN sessions : m \in sessions[t].asides
    BY <1>1, <2>1 DEF InPlace
  <2>3. t # s /\ t \in DOMAIN sessions' /\ sessions'[t].asides = sessions[t].asides
    BY <2>1, <2>2 DEF AsidesLeave
  <2> QED
    BY <2>2, <2>3
<1> QED
  BY <1>4, <1>5, <1>7, <1>8 DEF Copies, InPlace

(* Messages leave mailbox a, for a stage without a copy; those that stay   *)
(* keep their order.                                                       *)
MailLeaves(a, gone, stage) ==
  /\ sessions' = sessions /\ DOMAIN messages' = DOMAIN messages
  /\ \A b \in Agents \ {a} : mail'[b] = mail[b]
  /\ \A i \in DOMAIN mail'[a] : \E j \in DOMAIN mail[a] :
       mail'[a][i] = mail[a][j] /\ mail[a][j] \notin gone
  /\ \A j \in DOMAIN mail[a] : mail[a][j] \notin gone =>
       \E i \in DOMAIN mail'[a] : mail'[a][i] = mail[a][j]
  /\ \A i, j \in DOMAIN mail'[a] : mail'[a][i] = mail'[a][j] => i = j
  /\ \A m \in gone : \E j \in DOMAIN mail[a] : mail[a][j] = m
  /\ \A m \in DOMAIN messages :
       /\ messages'[m].to = messages[m].to
       /\ messages'[m].stage = IF m \in gone THEN stage ELSE messages[m].stage

(* And one that takes messages out of a mailbox.                            *)
LEMMA MailLeavesCopies ==
  ASSUME TypeOK, Copies, NEW a \in Agents, NEW gone, NEW stage, stage \notin Copied,
         MailLeaves(a, gone, stage)
  PROVE  Copies'
<1>1. InPlace(messages)
  BY DEF Copies
<1>2. \A m \in gone : m \in DOMAIN messages /\ messages[m].to = a /\ messages[m].stage = "buffered"
  BY <1>1 DEF InPlace, MailLeaves
<1>3. ASSUME NEW b \in Agents
      PROVE  /\ \A i \in DOMAIN mail'[b] :
                  /\ mail'[b][i] \in DOMAIN messages'
                  /\ messages'[mail'[b][i]].to = b /\ messages'[mail'[b][i]].stage = "buffered"
             /\ \A i, j \in DOMAIN mail'[b] : mail'[b][i] = mail'[b][j] => i = j
  <2>1. CASE b = a
    <3>1. ASSUME NEW i \in DOMAIN mail'[a]
          PROVE  /\ mail'[a][i] \in DOMAIN messages'
                 /\ messages'[mail'[a][i]].to = a /\ messages'[mail'[a][i]].stage = "buffered"
      <4>1. PICK j \in DOMAIN mail[a] : mail'[a][i] = mail[a][j] /\ mail[a][j] \notin gone
        BY DEF MailLeaves
      <4>2. mail[a][j] \in DOMAIN messages /\ messages[mail[a][j]].to = a
            /\ messages[mail[a][j]].stage = "buffered"
        BY <1>1 DEF InPlace
      <4> QED
        BY <4>1, <4>2 DEF MailLeaves
    <3> QED
      BY <2>1, <3>1 DEF MailLeaves
  <2>2. CASE b # a
    <3>1. mail'[b] = mail[b]
      BY <2>2 DEF MailLeaves
    <3>2. \A i \in DOMAIN mail[b] :
             /\ mail[b][i] \in DOMAIN messages
             /\ messages[mail[b][i]].to = b /\ messages[mail[b][i]].stage = "buffered"
      BY <1>1 DEF InPlace
    <3>3. \A i \in DOMAIN mail[b] : mail[b][i] \notin gone
      BY <1>2, <2>2, <3>2
    <3>4. \A i, j \in DOMAIN mail[b] : mail[b][i] = mail[b][j] => i = j
      BY <1>1 DEF InPlace
    <3> QED
      BY <3>1, <3>2, <3>3, <3>4 DEF MailLeaves
  <2> QED
    BY <2>1, <2>2
<1>4. ASSUME NEW s \in DOMAIN sessions', NEW m \in sessions'[s].asides
      PROVE  /\ m \in DOMAIN messages' /\ sessions'[s].st \in {"idle", "busy"}
             /\ messages'[m].to = sessions'[s].agent /\ messages'[m].stage = "aside"
  <2>1. /\ m \in DOMAIN messages /\ sessions[s].st \in {"idle", "busy"}
        /\ messages[m].to = sessions[s].agent /\ messages[m].stage = "aside"
    BY <1>1 DEF InPlace, MailLeaves
  <2> QED
    BY <1>2, <2>1 DEF MailLeaves
<1>5. ASSUME NEW m \in DOMAIN messages', messages'[m].stage \in Copied
      PROVE  m \in DOMAIN messages /\ messages'[m].to = messages[m].to
             /\ messages'[m].stage = messages[m].stage /\ m \notin gone
  BY <1>5 DEF MailLeaves
<1>6. ASSUME NEW m \in DOMAIN messages', messages'[m].stage = "buffered"
      PROVE  \E i \in DOMAIN mail'[messages'[m].to] : mail'[messages'[m].to][i] = m
  <2>1. m \in DOMAIN messages /\ messages[m].stage = "buffered" /\ m \notin gone
        /\ messages'[m].to = messages[m].to
    BY <1>5, <1>6 DEF Copied
  <2>2. PICK j \in DOMAIN mail[messages[m].to] : mail[messages[m].to][j] = m
    BY <1>1, <2>1 DEF InPlace
  <2>3. CASE messages[m].to = a
    BY <2>1, <2>2, <2>3 DEF MailLeaves
  <2>4. CASE messages[m].to # a
    <3>1. mail'[messages[m].to] = mail[messages[m].to]
      BY <2>1, <2>4, Looked DEF MailLeaves
    <3> QED
      BY <2>1, <2>2, <3>1
  <2> QED
    BY <2>3, <2>4
<1>7. ASSUME NEW m \in DOMAIN messages', messages'[m].stage = "aside"
      PROVE  \E s \in DOMAIN sessions' : m \in sessions'[s].asides
  BY <1>1, <1>5, <1>7 DEF InPlace, MailLeaves, Copied
<1> QED
  BY <1>3, <1>4, <1>6, <1>7 DEF Copies, InPlace

(* Message m of ms becomes an aside of session s.                          *)
AsideJoins(ms, m, s) ==
  /\ mail' = mail
  /\ DOMAIN sessions' = DOMAIN sessions /\ DOMAIN messages' = DOMAIN ms
  /\ \A t \in DOMAIN sessions :
       /\ sessions'[t].agent = sessions[t].agent /\ sessions'[t].st = sessions[t].st
       /\ sessions'[t].asides = IF t = s THEN sessions[s].asides \cup {m} ELSE sessions[t].asides
  /\ \A k \in DOMAIN ms : /\ messages'[k].to = ms[k].to
                          /\ messages'[k].stage = IF k = m THEN "aside" ELSE ms[k].stage

(* A message that becomes an aside has that one copy.                       *)
LEMMA AsideCopies ==
  ASSUME NEW ms, InPlace(ms), NEW m \in DOMAIN ms,
         ms[m].stage \notin Copied, NEW s \in DOMAIN sessions, sessions[s].agent = ms[m].to,
         sessions[s].st = "busy", AsideJoins(ms, m, s)
  PROVE  Copies'
<1>1. ASSUME NEW b \in Agents
      PROVE  /\ \A i \in DOMAIN mail'[b] :
                  /\ mail'[b][i] \in DOMAIN messages'
                  /\ messages'[mail'[b][i]].to = b /\ messages'[mail'[b][i]].stage = "buffered"
             /\ \A i, j \in DOMAIN mail'[b] : mail'[b][i] = mail'[b][j] => i = j
  <2>1. /\ \A i \in DOMAIN mail[b] :
             /\ mail[b][i] \in DOMAIN ms
             /\ ms[mail[b][i]].to = b /\ ms[mail[b][i]].stage = "buffered"
        /\ \A i, j \in DOMAIN mail[b] : mail[b][i] = mail[b][j] => i = j
    BY DEF InPlace
  <2>2. \A i \in DOMAIN mail[b] : mail[b][i] # m
    BY <2>1 DEF Copied
  <2> QED
    BY <2>1, <2>2 DEF AsideJoins
<1>2. ASSUME NEW t \in DOMAIN sessions', NEW k \in sessions'[t].asides
      PROVE  /\ k \in DOMAIN messages' /\ sessions'[t].st \in {"idle", "busy"}
             /\ messages'[k].to = sessions'[t].agent /\ messages'[k].stage = "aside"
  <2>1. CASE k = m
    <3>1. t = s
      <4> SUFFICES ASSUME t # s PROVE FALSE
        OBVIOUS
      <4>1. m \in sessions[t].asides /\ t \in DOMAIN sessions
        BY <2>1 DEF AsideJoins
      <4> QED
        BY <4>1 DEF InPlace, Copied
    <3> QED
      BY <2>1, <3>1 DEF AsideJoins
  <2>2. CASE k # m
    <3>1. t \in DOMAIN sessions /\ k \in sessions[t].asides
      BY <2>2 DEF AsideJoins
    <3>2. /\ k \in DOMAIN ms /\ sessions[t].st \in {"idle", "busy"}
          /\ ms[k].to = sessions[t].agent /\ ms[k].stage = "aside"
      BY <3>1 DEF InPlace
    <3> QED
      BY <2>2, <3>1, <3>2 DEF AsideJoins
  <2> QED
    BY <2>1, <2>2
<1>3. ASSUME NEW k \in DOMAIN messages', messages'[k].stage = "buffered"
      PROVE  \E i \in DOMAIN mail'[messages'[k].to] : mail'[messages'[k].to][i] = k
  BY <1>3 DEF InPlace, AsideJoins
<1>4. ASSUME NEW k \in DOMAIN messages', messages'[k].stage = "aside"
      PROVE  \E t \in DOMAIN sessions' : k \in sessions'[t].asides
  <2>1. CASE k = m
    BY <2>1 DEF AsideJoins
  <2>2. CASE k # m
    <3>1. k \in DOMAIN ms /\ ms[k].stage = "aside"
      BY <1>4, <2>2 DEF AsideJoins
    <3>2. PICK t \in DOMAIN sessions : k \in sessions[t].asides
      BY <3>1 DEF InPlace
    <3> QED
      BY <3>2 DEF AsideJoins
  <2> QED
    BY <2>1, <2>2
<1> QED
  BY <1>1, <1>2, <1>3, <1>4 DEF Copies, InPlace

(* A message that is not in a mailbox is there once after #enqueue, as are *)
(* those that were there and are not displaced.                            *)
LEMMA EnqueuedOnce ==
  ASSUME NEW box \in Seq(Ids), Len(box) <= MailboxCap, NEW m \in Ids,
         \A i, j \in DOMAIN box : box[i] = box[j] => i = j,
         \A i \in DOMAIN box : box[i] # m
  PROVE  LET new == Enqueue(box, m) IN
         /\ \A i \in DOMAIN new : /\ new[i] = m \/ \E j \in DOMAIN box : new[i] = box[j]
                                  /\ new[i] \notin Displaced(box)
         /\ \A i, j \in DOMAIN new : new[i] = new[j] => i = j
         /\ \A i \in DOMAIN box : box[i] \notin Displaced(box) => \E j \in DOMAIN new : new[j] = box[i]
         /\ \E j \in DOMAIN new : new[j] = m
         /\ \A k \in Displaced(box) : \E i \in DOMAIN box : box[i] = k
<1> DEFINE new == Enqueue(box, m)
           n   == Len(box)
<1>1. n \in Nat /\ n <= MailboxCap /\ DOMAIN box = 1..n /\ MailboxCap \in Nat \ {0}
  BY LenProperties, BusAssumption
<1>2. /\ new \in Seq(Ids)
      /\ n # MailboxCap => /\ Len(new) = n + 1 /\ new[n + 1] = m
                           /\ \A i \in 1..n : new[i] = box[i]
      /\ n = MailboxCap => /\ Len(new) = n /\ new[n] = m
                           /\ \A i \in 1..(n - 1) : new[i] = box[i + 1]
  BY Enqueued
<1>3. DOMAIN new = 1..Len(new) /\ Displaced(box) = IF n = MailboxCap THEN {box[1]} ELSE {}
  BY <1>2, LenProperties DEF Displaced
<1> HIDE DEF new, n
<1>4. CASE n # MailboxCap
  <2>1. DOMAIN new = 1..(n + 1) /\ Displaced(box) = {}
    BY <1>2, <1>3, <1>4
  <2>2. \A i \in 1..(n + 1) : i = n + 1 \/ i \in 1..n
    BY <1>1
  <2>3. new[n + 1] = m /\ \A i \in 1..n : new[i] = box[i]
    BY <1>2, <1>4
  <2>4. ASSUME NEW i \in DOMAIN new, NEW j \in DOMAIN new, new[i] = new[j] PROVE i = j
    BY <1>1, <2>1, <2>2, <2>3, <2>4
  <2>5. ASSUME NEW i \in DOMAIN box PROVE \E j \in DOMAIN new : new[j] = box[i]
    BY <1>1, <2>1, <2>3
  <2>6. n + 1 \in DOMAIN new
    BY <1>1, <2>1
  <2>7. \A i \in DOMAIN new : new[i] = m \/ \E j \in DOMAIN box : new[i] = box[j]
    BY <1>1, <2>1, <2>2, <2>3
  <2> QED
    BY <2>1, <2>3, <2>4, <2>5, <2>6, <2>7 DEF new
<1>5. CASE n = MailboxCap
  <2>1. n >= 1 /\ DOMAIN new = 1..n /\ Displaced(box) = {box[1]} /\ new[n] = m
        /\ \A i \in 1..(n - 1) : new[i] = box[i + 1]
    BY <1>1, <1>2, <1>3, <1>5
  <2>2. \A i \in 1..n : i = n \/ (i \in 1..(n - 1) /\ i + 1 \in DOMAIN box /\ i + 1 # 1)
    BY <1>1, <2>1
  <2>3. ASSUME NEW i \in DOMAIN new
        PROVE  /\ new[i] = m \/ \E j \in DOMAIN box : new[i] = box[j]
               /\ new[i] # box[1]
    <3>1. 1 \in DOMAIN box
      BY <1>1, <2>1
    <3>2. CASE i = n
      BY <2>1, <3>1, <3>2
    <3>3. CASE i # n
      <4>1. i + 1 \in DOMAIN box /\ i + 1 # 1 /\ new[i] = box[i + 1]
        BY <2>1, <2>2, <3>3
      <4> QED
        BY <3>1, <4>1
    <3> QED
      BY <3>2, <3>3
  <2>4. ASSUME NEW i \in DOMAIN new, NEW j \in DOMAIN new, new[i] = new[j] PROVE i = j
    <3>1. CASE i = n
      BY <2>1, <2>2, <2>4, <3>1
    <3>2. CASE j = n
      BY <2>1, <2>2, <2>4, <3>2
    <3>3. CASE i # n /\ j # n
      <4>1. i + 1 \in DOMAIN box /\ j + 1 \in DOMAIN box /\ box[i + 1] = box[j + 1]
        BY <2>1, <2>2, <2>4, <3>3
      <4>2. i + 1 = j + 1
        BY <4>1
      <4> QED
        BY <2>1, <4>2
    <3> QED
      BY <3>1, <3>2, <3>3
  <2>5. ASSUME NEW i \in DOMAIN box, box[i] \notin Displaced(box)
        PROVE  \E j \in DOMAIN new : new[j] = box[i]
    <3>1. i # 1
      BY <2>1, <2>5
    <3>2. i - 1 \in 1..(n - 1) /\ i - 1 \in DOMAIN new /\ (i - 1) + 1 = i
      BY <1>1, <2>1, <3>1
    <3> QED
      BY <2>1, <3>2
  <2>6. n \in DOMAIN new /\ 1 \in DOMAIN box
    BY <1>1, <2>1
  <2> QED
    BY <2>1, <2>3, <2>4, <2>5, <2>6 DEF new
<1> QED
  BY <1>4, <1>5

(* Message m of ms is put in mailbox a; the oldest there may be dropped.   *)
Queues(ms, m, a) ==
  /\ sessions' = sessions /\ DOMAIN messages' = DOMAIN ms
  /\ mail'[a] = Enqueue(mail[a], m) /\ \A b \in Agents \ {a} : mail'[b] = mail[b]
  /\ \A k \in DOMAIN ms :
       /\ messages'[k].to = ms[k].to
       /\ messages'[k].stage = IF k = m THEN "buffered"
                               ELSE IF k \in Displaced(mail[a]) THEN "dropped" ELSE ms[k].stage

(* A message that is queued in the mailbox has that one copy.               *)
LEMMA QueuesCopies ==
  ASSUME TypeOK, NEW ms, InPlace(ms), NEW m \in DOMAIN ms, m \in Ids,
         ms[m].stage \notin Copied, NEW a \in Agents, a = ms[m].to, Queues(ms, m, a),
         \A k \in DOMAIN ms : ms[k].to \in Agents
  PROVE  Copies'
<1> DEFINE box == mail[a]
           new == Enqueue(mail[a], m)
<1>1. box \in Seq(Ids) /\ Len(box) <= MailboxCap
  BY DEF TypeOK
<1>2. /\ \A i \in DOMAIN box : /\ box[i] \in DOMAIN ms /\ box[i] # m
                               /\ ms[box[i]].to = a /\ ms[box[i]].stage = "buffered"
      /\ \A i, j \in DOMAIN box : box[i] = box[j] => i = j
  BY DEF InPlace, Copied
<1>3. /\ \A i \in DOMAIN new : /\ new[i] = m \/ \E j \in DOMAIN box : new[i] = box[j]
                               /\ new[i] \notin Displaced(box)
      /\ \A i, j \in DOMAIN new : new[i] = new[j] => i = j
      /\ \A i \in DOMAIN box : box[i] \notin Displaced(box) => \E j \in DOMAIN new : new[j] = box[i]
      /\ \E j \in DOMAIN new : new[j] = m
      /\ \A k \in Displaced(box) : \E i \in DOMAIN box : box[i] = k
  BY <1>1, <1>2, EnqueuedOnce
<1>4. mail'[a] = new /\ \A b \in Agents \ {a} : mail'[b] = mail[b]
  BY DEF Queues
<1>5. /\ DOMAIN messages' = DOMAIN ms /\ sessions' = sessions
      /\ \A k \in DOMAIN ms :
           /\ messages'[k].to = ms[k].to
           /\ messages'[k].stage = IF k = m THEN "buffered"
                                   ELSE IF k \in Displaced(box) THEN "dropped" ELSE ms[k].stage
  BY DEF Queues
<1> HIDE DEF new
<1>6. \A k \in Displaced(box) : k \in DOMAIN ms /\ ms[k].stage = "buffered" /\ ms[k].to = a
  BY <1>2, <1>3
<1>7. ASSUME NEW b \in Agents
      PROVE  /\ \A i \in DOMAIN mail'[b] :
                  /\ mail'[b][i] \in DOMAIN messages'
                  /\ messages'[mail'[b][i]].to = b /\ messages'[mail'[b][i]].stage = "buffered"
             /\ \A i, j \in DOMAIN mail'[b] : mail'[b][i] = mail'[b][j] => i = j
  <2>1. CASE b = a
    <3>1. ASSUME NEW i \in DOMAIN new
          PROVE  /\ new[i] \in DOMAIN messages'
                 /\ messages'[new[i]].to = a /\ messages'[new[i]].stage = "buffered"
      <4>1. CASE new[i] = m
        BY <1>5, <4>1
      <4>2. CASE new[i] # m
        <5>1. PICK j \in DOMAIN box : new[i] = box[j]
          BY <1>3, <4>2
        <5>2. new[i] \in DOMAIN ms /\ ms[new[i]].to = a /\ ms[new[i]].stage = "buffered"
          BY <1>2, <5>1
        <5> QED
          BY <1>3, <1>5, <4>2, <5>2
      <4> QED
        BY <4>1, <4>2
    <3> QED
      BY <1>3, <1>4, <2>1, <3>1
  <2>2. CASE b # a
    <3>1. /\ \A i \in DOMAIN mail[b] :
               /\ mail[b][i] \in DOMAIN ms
               /\ ms[mail[b][i]].to = b /\ ms[mail[b][i]].stage = "buffered"
          /\ \A i, j \in DOMAIN mail[b] : mail[b][i] = mail[b][j] => i = j
      BY DEF InPlace
    <3>2. \A i \in DOMAIN mail[b] : mail[b][i] # m /\ mail[b][i] \notin Displaced(box)
      BY <1>6, <2>2, <3>1
    <3>3. mail'[b] = mail[b]
      BY <1>4, <2>2
    <3> QED
      BY <1>5, <3>1, <3>2, <3>3
  <2> QED
    BY <2>1, <2>2
<1>8. ASSUME NEW t \in DOMAIN sessions', NEW k \in sessions'[t].asides
      PROVE  /\ k \in DOMAIN messages' /\ sessions'[t].st \in {"idle", "busy"}
             /\ messages'[k].to = sessions'[t].agent /\ messages'[k].stage = "aside"
  <2>1. t \in DOMAIN sessions /\ k \in sessions[t].asides
    BY <1>5
  <2>2. /\ k \in DOMAIN ms /\ sessions[t].st \in {"idle", "busy"}
        /\ ms[k].to = sessions[t].agent /\ ms[k].stage = "aside"
    BY <2>1 DEF InPlace
  <2>3. k # m /\ k \notin Displaced(box)
    BY <1>6, <2>2 DEF Copied
  <2> QED
    BY <1>5, <2>2, <2>3
<1>9. ASSUME NEW k \in DOMAIN messages', messages'[k].stage = "buffered"
      PROVE  \E i \in DOMAIN mail'[messages'[k].to] : mail'[messages'[k].to][i] = k
  <2>1. CASE k = m
    <3>1. messages'[k].to = a
      BY <1>5, <2>1
    <3> QED
      BY <1>3, <1>4, <2>1, <3>1
  <2>2. CASE k # m
    <3>1. ms[k].stage = "buffered" /\ k \in DOMAIN ms /\ k \notin Displaced(box)
          /\ messages'[k].to = ms[k].to
      BY <1>5, <1>9, <2>2
    <3>2. PICK i \in DOMAIN mail[ms[k].to] : mail[ms[k].to][i] = k
      BY <3>1 DEF InPlace
    <3>3. CASE ms[k].to = a
      <4>1. \E j \in DOMAIN new : new[j] = k
        BY <1>3, <3>1, <3>2, <3>3
      <4> QED
        BY <1>4, <3>1, <3>3, <4>1
    <3>4. CASE ms[k].to # a
      <4>1. mail'[ms[k].to] = mail[ms[k].to]
        BY <1>4, <3>1, <3>4
      <4> QED
        BY <3>1, <3>2, <4>1
    <3> QED
      BY <3>3, <3>4
  <2> QED
    BY <2>1, <2>2
<1>10. ASSUME NEW k \in DOMAIN messages', messages'[k].stage = "aside"
       PROVE  \E t \in DOMAIN sessions' : k \in sessions'[t].asides
  <2>1. k \in DOMAIN ms /\ ms[k].stage = "aside"
    BY <1>5, <1>10
  <2>2. \E t \in DOMAIN sessions : k \in sessions[t].asides
    BY <2>1 DEF InPlace
  <2> QED
    BY <1>5, <2>2
<1> QED
  BY <1>7, <1>8, <1>9, <1>10 DEF Copies, InPlace

(* Whatever happens to a message that is handed over, it has one copy.     *)
LEMMA HandOffCopies ==
  ASSUME LifeInv, NEW ms \in Seq(Message), InPlace(ms), NEW m \in DOMAIN ms, m \in Ids,
         ms[m].stage \notin Copied, HandOff(ms, m)
  PROVE  Copies'
<1>1. TypeOK
  BY DEF LifeInv
<1>2. \A k \in DOMAIN ms : ms[k].to \in Agents
  <2>1. ms \in [1..Len(ms) -> Message] /\ DOMAIN ms = 1..Len(ms)
    BY LenProperties
  <2> QED
    BY <2>1 DEF Message
<1>3. PICK a \in Agents : a = ms[m].to
  BY <1>2
<1>4. ref[a].session # 0 => ref[a].session \in DOMAIN sessions /\ sessions[ref[a].session].agent = a
  BY DEF LifeInv, Life, Attached, Open
<1>5. {"taken", "failed", "aside", "seen", "dropped", "buffered"} \subseteq Stages
  BY DEF Stages
<1>6. ASSUME NEW stage \in Stages
      PROVE  /\ DOMAIN SetStage(ms, {m}, stage) = DOMAIN ms
             /\ \A k \in DOMAIN ms :
                  /\ SetStage(ms, {m}, stage)[k].to = ms[k].to
                  /\ SetStage(ms, {m}, stage)[k].stage = IF k = m THEN stage ELSE ms[k].stage
  BY StageSet
<1>7. ASSUME NEW stage \in {"taken", "failed", "seen"}, messages' = SetStage(ms, {m}, stage),
             mail' = mail, DOMAIN sessions' = DOMAIN sessions,
             \A t \in DOMAIN sessions :
               /\ sessions'[t].agent = sessions[t].agent /\ sessions'[t].asides = sessions[t].asides
               /\ sessions[t].st \in {"idle", "busy"} => sessions'[t].st \in {"idle", "busy"}
      PROVE  Copies'
  <2>1. stage \in Stages /\ stage \notin Copied
    BY DEF Stages, Copied
  <2>2. /\ DOMAIN messages' = DOMAIN ms
        /\ \A k \in DOMAIN ms :
             /\ messages'[k].to = ms[k].to
             /\ messages'[k].stage = IF k = m THEN stage ELSE ms[k].stage
    BY <1>6, <1>7, <2>1
  <2>3. NoneCopied(ms)
    BY <1>7, <2>1, <2>2 DEF NoneCopied
  <2> QED
    BY <2>3, NoneCopiedCopies
<1>8. CASE /\ NoWaitBegins
           /\ messages' = SetStage(ms, {m}, "taken") /\ UNCHANGED <<ref, timer, sessions, mail>>
  BY <1>7, <1>8
<1>9. CASE /\ messages' = SetStage(ms, {m}, "failed")
           /\ UNCHANGED <<ref, timer, sessions, mail, waiters>>
  BY <1>7, <1>9
<1>10. CASE /\ mail' = [mail EXCEPT ![a] = Enqueue(mail[a], m)]
            /\ messages' = SetStage(SetStage(ms, Displaced(mail[a]), "dropped"), {m}, "buffered")
            /\ UNCHANGED <<ref, timer, sessions, waiters>>
  <2>1. /\ DOMAIN messages' = DOMAIN ms
        /\ \A k \in DOMAIN ms :
             /\ messages'[k].to = ms[k].to
             /\ messages'[k].stage = IF k = m THEN "buffered"
                                     ELSE IF k \in Displaced(mail[a]) THEN "dropped" ELSE ms[k].stage
    <3> DEFINE ns == SetStage(ms, Displaced(mail[a]), "dropped")
    <3>1. /\ ns \in Seq(Message) /\ DOMAIN ns = DOMAIN ms
          /\ \A k \in DOMAIN ms :
               /\ ns[k].to = ms[k].to
               /\ ns[k].stage = IF k \in Displaced(mail[a]) THEN "dropped" ELSE ms[k].stage
      BY <1>5, StageSet
    <3>2. messages' = SetStage(ns, {m}, "buffered")
      BY <1>10
    <3> HIDE DEF ns
    <3>3. /\ DOMAIN SetStage(ns, {m}, "buffered") = DOMAIN ns
          /\ \A k \in DOMAIN ns :
               /\ SetStage(ns, {m}, "buffered")[k].to = ns[k].to
               /\ SetStage(ns, {m}, "buffered")[k].stage = IF k \in {m} THEN "buffered"
                                                                        ELSE ns[k].stage
      BY <1>5, <3>1, StageSet
    <3> QED
      BY <3>1, <3>2, <3>3
  <2>2. Queues(ms, m, a)
    BY <1>1, <1>10, <2>1 DEF Queues, TypeOK
  <2> QED
    BY <1>1, <1>2, <1>3, <2>2, QueuesCopies
<1>11. CASE /\ ref[a].session # 0 /\ sessions[ref[a].session].st = "busy"
            /\ sessions' = AsidesOf(sessions, ref[a].session,
                                    sessions[ref[a].session].asides \cup {m})
            /\ messages' = SetStage(ms, {m}, "aside") /\ UNCHANGED <<ref, timer, mail, waiters>>
  <2>1. PICK s \in DOMAIN sessions : s = ref[a].session
    BY <1>4, <1>11
  <2>2. sessions \in Seq(Session) /\ sessions[s].asides \cup {m} \in SUBSET Ids
    BY <1>1, Looked DEF TypeOK
  <2>3. AsideJoins(ms, m, s)
    <3>1. sessions' = AsidesOf(sessions, s, sessions[s].asides \cup {m})
          /\ messages' = SetStage(ms, {m}, "aside") /\ mail' = mail
      BY <1>11, <2>1
    <3>2. /\ DOMAIN sessions' = DOMAIN sessions
          /\ \A t \in DOMAIN sessions :
               /\ sessions'[t].agent = sessions[t].agent /\ sessions'[t].st = sessions[t].st
               /\ sessions'[t].asides = IF t = s THEN sessions[s].asides \cup {m}
                                                 ELSE sessions[t].asides
      BY <2>2, <3>1, AsidesChanged
    <3>3. /\ DOMAIN messages' = DOMAIN ms
          /\ \A k \in DOMAIN ms : /\ messages'[k].to = ms[k].to
                                  /\ messages'[k].stage = IF k = m THEN "aside" ELSE ms[k].stage
      BY <1>5, <1>6, <3>1
    <3> QED
      BY <3>1, <3>2, <3>3 DEF AsideJoins
  <2> QED
    BY <1>3, <1>4, <1>11, <2>1, <2>3, AsideCopies
<1>12. CASE /\ ref[a].session # 0 /\ sessions[ref[a].session].st = "idle"
            /\ sessions' = Moved(sessions, ref[a].session, "busy") /\ NowRunning(a)
            /\ messages' = SetStage(ms, {m}, "seen") /\ UNCHANGED <<mail, waiters>>
  <2>1. PICK s \in DOMAIN sessions : s = ref[a].session
    BY <1>4, <1>12
  <2>2. sessions \in Seq(Session) /\ "busy" \in SessionStages
    BY <1>1 DEF TypeOK, SessionStages
  <2>3. /\ DOMAIN sessions' = DOMAIN sessions
        /\ \A t \in DOMAIN sessions :
             /\ sessions'[t].agent = sessions[t].agent /\ sessions'[t].asides = sessions[t].asides
             /\ sessions'[t].st = IF t = s THEN "busy" ELSE sessions[t].st
    BY <1>12, <2>1, <2>2, SessionMoved
  <2> QED
    BY <1>7, <1>12, <2>3
<1> QED
  BY <1>1, <1>3, <1>8, <1>9, <1>10, <1>11, <1>12, HandedOff

(* A wait takes a message out of the mailbox.                              *)
LEMMA TakesOneCopies ==
  ASSUME IInv, NEW a \in Agents, TakesOne(a), sessions' = sessions
  PROVE  Copies'
<1>1. TypeOK /\ Copies
  BY DEF IInv, LifeInv
<1>2. PICK i \in DOMAIN mail[a] :
        /\ mail' = [mail EXCEPT ![a] = RemoveAt(mail[a], i)]
        /\ messages' = SetStage(messages, {mail[a][i]}, "taken")
  BY DEF TakesOne
<1> DEFINE box == mail[a]
           new == RemoveAt(mail[a], i)
<1>3. box \in Seq(Ids) /\ Len(box) \in Nat /\ DOMAIN box = 1..Len(box) /\ i \in 1..Len(box)
  BY <1>1, LenProperties DEF TypeOK
<1>4. /\ DOMAIN new = 1..(Len(box) - 1)
      /\ \A j \in 1..(Len(box) - 1) : new[j] = IF j < i THEN box[j] ELSE box[j + 1]
  BY <1>3, Removed
<1>5. mail'[a] = new /\ \A b \in Agents \ {a} : mail'[b] = mail[b]
  BY <1>1, <1>2 DEF TypeOK
<1>6. /\ DOMAIN messages' = DOMAIN messages
      /\ \A m \in DOMAIN messages :
           /\ messages'[m].to = messages[m].to
           /\ messages'[m].stage = IF m \in {box[i]} THEN "taken" ELSE messages[m].stage
  <2>1. messages \in Seq(Message) /\ "taken" \in Stages
    BY <1>1 DEF TypeOK, Stages
  <2> QED
    BY <1>2, <2>1, StageSet
<1>7. \A j, k \in 1..Len(box) : box[j] = box[k] => j = k
  BY <1>1, <1>3 DEF Copies, InPlace
<1> HIDE DEF new, box
<1>8. ASSUME NEW j \in DOMAIN new
      PROVE  \E k \in 1..Len(box) : k # i /\ new[j] = box[k] /\ (k = IF j < i THEN j ELSE j + 1)
  <2>1. CASE j < i
    BY <1>3, <1>4, <2>1
  <2>2. CASE ~(j < i)
    <3>1. j + 1 \in 1..Len(box) /\ j + 1 # i /\ new[j] = box[j + 1]
      BY <1>3, <1>4, <2>2
    <3> QED
      BY <2>2, <3>1
  <2> QED
    BY <2>1, <2>2
<1>9. ASSUME NEW j \in DOMAIN new, NEW k \in DOMAIN new, new[j] = new[k] PROVE j = k
  <2>1. PICK p \in 1..Len(box) : p # i /\ new[j] = box[p] /\ (p = IF j < i THEN j ELSE j + 1)
    BY <1>8
  <2>2. PICK q \in 1..Len(box) : q # i /\ new[k] = box[q] /\ (q = IF k < i THEN k ELSE k + 1)
    BY <1>8
  <2>3. p = q
    BY <1>7, <1>9, <2>1, <2>2
  <2> QED
    BY <1>3, <1>4, <2>1, <2>2, <2>3
<1>10. ASSUME NEW k \in 1..Len(box), box[k] # box[i] PROVE \E j \in DOMAIN new : new[j] = box[k]
  <2>1. CASE k < i
    BY <1>3, <1>4, <2>1
  <2>2. CASE ~(k < i)
    <3>1. k # i
      BY <1>10
    <3>2. k - 1 \in 1..(Len(box) - 1) /\ ~(k - 1 < i) /\ (k - 1) + 1 = k
      BY <1>3, <2>2, <3>1
    <3> QED
      BY <1>4, <3>2
  <2> QED
    BY <2>1, <2>2
<1>11. MailLeaves(a, {box[i]}, "taken")
  <2>1. \A j \in DOMAIN mail'[a] : \E k \in DOMAIN mail[a] :
          mail'[a][j] = mail[a][k] /\ mail[a][k] \notin {box[i]}
    <3> SUFFICES ASSUME NEW j \in DOMAIN new
                 PROVE  \E k \in 1..Len(box) : new[j] = box[k] /\ box[k] # box[i]
      BY <1>3, <1>5 DEF box
    <3> QED
      BY <1>3, <1>7, <1>8
  <2>2. \A k \in DOMAIN mail[a] : mail[a][k] \notin {box[i]} =>
          \E j \in DOMAIN mail'[a] : mail'[a][j] = mail[a][k]
    BY <1>3, <1>5, <1>10 DEF box
  <2>3. \A j, k \in DOMAIN mail'[a] : mail'[a][j] = mail'[a][k] => j = k
    BY <1>5, <1>9
  <2>4. \A m \in {box[i]} : \E j \in DOMAIN mail[a] : mail[a][j] = m
    BY DEF box
  <2> QED
    BY <1>5, <1>6, <2>1, <2>2, <2>3, <2>4 DEF MailLeaves
<1> QED
  BY <1>1, <1>11, MailLeavesCopies DEF Copied

(* inbox empties the mailbox.                                              *)
LEMMA InboxCopies ==
  ASSUME IInv, NEW a \in Agents, Inbox(a)
  PROVE  Copies'
<1>1. TypeOK /\ Copies
  BY DEF IInv, LifeInv
<1>2. /\ mail'[a] = <<>> /\ \A b \in Agents \ {a} : mail'[b] = mail[b]
      /\ messages' = SetStage(messages, ToSet(mail[a]), "taken") /\ sessions' = sessions
  BY <1>1 DEF Inbox, TypeOK
<1>3. /\ DOMAIN messages' = DOMAIN messages
      /\ \A m \in DOMAIN messages :
           /\ messages'[m].to = messages[m].to
           /\ messages'[m].stage = IF m \in ToSet(mail[a]) THEN "taken" ELSE messages[m].stage
  <2>1. messages \in Seq(Message) /\ "taken" \in Stages
    BY <1>1 DEF TypeOK, Stages
  <2> QED
    BY <1>2, <2>1, StageSet
<1>4. DOMAIN mail'[a] = {}
  BY <1>2
<1>5. ToSet(mail[a]) = {mail[a][i] : i \in DOMAIN mail[a]}
  BY DEF ToSet
<1>6. MailLeaves(a, ToSet(mail[a]), "taken")
  BY <1>2, <1>3, <1>4, <1>5 DEF MailLeaves
<1> QED
  BY <1>1, <1>6, MailLeavesCopies DEF Copied

(* A step that changes no message, no mailbox and no asides.               *)
LEMMA StillCopies ==
  ASSUME IInv, UNCHANGED <<messages, mail>>, NEW s, NEW st, Turns(s, st),
         \A t \in DOMAIN sessions : sessions'[t].asides = sessions[t].asides,
         s \in DOMAIN sessions => sessions[s].st = "closing" \/ st \in {"idle", "busy"}
  PROVE  Copies'
<1>1. NoneCopied(messages)
  BY DEF NoneCopied, Turns
<1> QED
  BY <1>1, NoneCopiedCopies DEF IInv, Copies

(* The end of a disposal keeps Copies.                                      *)
LEMMA DisposalEndedCopies ==
  ASSUME IInv, UNCHANGED <<messages, mail>>, NEW a \in Agents,
         \/ FinishedForGood(a) \/ Parked(a) \/ Released(a)
  PROVE  Copies'
<1>1. TypeOK /\ LifeInv /\ Life(a)
  BY DEF IInv, LifeInv
<1>2. CASE FinishedForGood(a)
  <2>1. ref[a].session \in DOMAIN sessions /\ sessions[ref[a].session].st = "closing"
    BY <1>1, <1>2 DEF FinishedForGood, Life, Attached, Disposal, Open
  <2>2. Turns(ref[a].session, "closed")
        /\ \A t \in DOMAIN sessions : sessions'[t].asides = sessions[t].asides
    BY <1>1, <1>2, <2>1, DisposalEnded DEF FinishedForGood
  <2> QED
    BY <2>1, <2>2, StillCopies
<1>3. CASE Parked(a) \/ Released(a)
  <2>1. /\ a \in parking \cup releasing
        /\ IF \E s \in DOMAIN sessions : sessions[s].agent = a /\ sessions[s].st = "closing"
           THEN EndDispose(a, SessionOf(a)) ELSE UNCHANGED <<sessions, waiters>>
    BY <1>3 DEF Parked, Released
  <2>2. /\ \E s : /\ Turns(s, "closed") /\ (s \in DOMAIN sessions => sessions[s].agent = a)
                  /\ (s \in DOMAIN sessions => sessions[s].st = "closing")
        /\ \A t \in DOMAIN sessions : sessions'[t].asides = sessions[t].asides
    BY <1>1, <2>1, LastClosed
  <2> QED
    BY <2>2, StillCopies
<1> QED
  BY <1>2, <1>3

(* A session that begins to be disposed of drops its asides.               *)
LEMMA BeginDisposeCopies ==
  ASSUME IInv, NEW s \in DOMAIN sessions, BeginDispose(s), mail' = mail
  PROVE  Copies'
<1>1. TypeOK
  BY DEF IInv, LifeInv
<1>2. AsidesLeave(s, "dropped")
  <2>1. /\ Turns(s, "closing")
        /\ \A t \in DOMAIN sessions :
             sessions'[t].asides = IF t = s THEN {} ELSE sessions[t].asides
        /\ DOMAIN messages' = DOMAIN messages
        /\ \A m \in DOMAIN messages :
             /\ messages'[m].to = messages[m].to
             /\ messages'[m].stage = IF m \in sessions[s].asides THEN "dropped"
                                                                 ELSE messages[m].stage
    BY <1>1, DisposalBegun
  <2> QED
    BY <2>1 DEF AsidesLeave, Turns
<1> QED
  BY <1>2, AsidesLeaveCopies DEF Copied

(* A session whose asides join the conversation.                           *)
LEMMA AsidesSeenCopies ==
  ASSUME IInv, NEW s \in DOMAIN sessions, Prompt(s) \/ DrainAsides(s)
  PROVE  Copies'
<1>1. TypeOK /\ sessions \in Seq(Session) /\ messages \in Seq(Message)
  BY DEF IInv, LifeInv, TypeOK
<1>2. "busy" \in SessionStages /\ "seen" \in Stages /\ {} \in SUBSET Ids
  BY DEF SessionStages, Stages
<1>3. mail' = mail /\ messages' = SetStage(messages, sessions[s].asides, "seen")
      /\ sessions' \in {Edited(sessions, s, "busy", {}), AsidesOf(sessions, s, {})}
  BY DEF Prompt, DrainAsides, Edited, AsidesOf
<1>4. /\ DOMAIN messages' = DOMAIN messages
      /\ \A m \in DOMAIN messages :
           /\ messages'[m].to = messages[m].to
           /\ messages'[m].stage = IF m \in sessions[s].asides THEN "seen" ELSE messages[m].stage
  BY <1>1, <1>2, <1>3, StageSet
<1>5. /\ DOMAIN sessions' = DOMAIN sessions
      /\ \A t \in DOMAIN sessions :
           /\ sessions'[t].agent = sessions[t].agent
           /\ sessions'[t].asides = IF t = s THEN {} ELSE sessions[t].asides
           /\ t # s => sessions'[t].st = sessions[t].st
  <2>1. CASE sessions' = Edited(sessions, s, "busy", {})
    BY <1>1, <1>2, <2>1, SessionEdited
  <2>2. CASE sessions' = AsidesOf(sessions, s, {})
    BY <1>1, <1>2, <2>2, AsidesChanged
  <2> QED
    BY <1>3, <2>1, <2>2
<1>6. AsidesLeave(s, "seen")
  BY <1>3, <1>4, <1>5 DEF AsidesLeave
<1> QED
  BY <1>6, AsidesLeaveCopies DEF Copied

(* A message that is sent has no copy before it is handed over.            *)
LEMMA SentCopies ==
  ASSUME TypeOK, Copies, NEW p \in Peers, NEW a \in Agents, NEW stage \in Stages,
         stage \notin Copied
  PROVE  InPlace(Append(messages, [from |-> p, to |-> a, stage |-> stage]))
<1> DEFINE ms == Append(messages, [from |-> p, to |-> a, stage |-> stage])
           n  == Len(messages) + 1
<1>1. /\ DOMAIN ms = DOMAIN messages \cup {n} /\ n \notin DOMAIN messages /\ ms[n].stage = stage
      /\ \A k \in DOMAIN messages : ms[k] = messages[k]
  BY Sent
<1> HIDE DEF ms, n
<1>2. InPlace(messages)
  BY DEF Copies
<1>3. InPlace(ms)
  BY <1>1, <1>2 DEF InPlace, Copied
<1> QED
  BY <1>3 DEF ms

(* A send keeps Copies.                                                     *)
LEMMA SendCopies ==
  ASSUME IInv, NEW p \in Peers, NEW a \in Agents, Send(p, a)
  PROVE  Copies'
<1> DEFINE m == Len(messages) + 1
           sent(stage) == Append(messages, [from |-> p, to |-> a, stage |-> stage])
<1>1. TypeOK /\ LifeInv /\ Copies
  BY DEF IInv, LifeInv
<1>2. m \in Ids
  BY <1>1, Looked, BusAssumption DEF Send, Ids
<1>3. {"failed", "reviving", "resumed"} \subseteq Stages /\ "resumed" \notin Copied
      /\ "failed" \notin Copied /\ "reviving" \notin Copied
  BY DEF Stages, Copied
<1>4. ASSUME NEW stage \in {"failed", "reviving"}, messages' = sent(stage), mail' = mail,
             sessions' = sessions
      PROVE  Copies'
  <2>1. InPlace(sent(stage))
    BY <1>1, <1>3, SentCopies
  <2> HIDE DEF sent
  <2> QED
    BY <1>4, <2>1 DEF Copies, InPlace
<1>5. ASSUME HandOff(sent("resumed"), m) PROVE Copies'
  <2>1. InPlace(sent("resumed"))
    BY <1>1, <1>3, SentCopies
  <2>2. /\ sent("resumed") \in Seq(Message) /\ m \in DOMAIN sent("resumed")
        /\ sent("resumed")[m].stage = "resumed"
    BY <1>1, <1>3, Sent
  <2> HIDE DEF sent, m
  <2> QED
    BY <1>1, <1>2, <1>3, <1>5, <2>1, <2>2, HandOffCopies
<1>6. \/ \E stage \in {"failed", "reviving"} : /\ messages' = sent(stage)
                                              /\ UNCHANGED <<mail, sessions>>
      \/ HandOff(sent("resumed"), m)
  BY DEF Send
<1> QED
  BY <1>4, <1>5, <1>6

(* A send that goes on keeps Copies.                                        *)
LEMMA ResumeCopies ==
  ASSUME IInv, NEW m \in DOMAIN messages, Resume(m)
  PROVE  Copies'
<1>1. TypeOK /\ LifeInv /\ InPlace(messages)
  BY DEF IInv, LifeInv, Copies
<1>2. messages \in Seq(Message) /\ m \in Ids
  BY <1>1, Looked DEF TypeOK
<1> QED
  BY <1>1, <1>2, HandOffCopies DEF Resume, Copied

(* The sends that share a revival hear of its end.                         *)
LEMMA RevivalEndsCopies ==
  ASSUME IInv, NEW a \in Agents, Revived(a) \/ ReviveFails(a)
  PROVE  Copies'
<1>1. TypeOK /\ LifeInv /\ Copies
  BY DEF IInv, LifeInv
<1>2. \E stage \in {"resumed", "failed"} : messages' = SetStage(messages, Awaiting(a), stage)
  BY DEF Revived, ReviveFails
<1>3. \A k \in Awaiting(a) : messages[k].stage = "reviving"
  BY DEF Awaiting
<1>4. /\ DOMAIN messages' = DOMAIN messages
      /\ \A k \in DOMAIN messages :
           /\ messages'[k].to = messages[k].to
           /\ messages[k].stage \in Copied \/ messages'[k].stage \in Copied
                => messages'[k].stage = messages[k].stage
  <2>1. messages \in Seq(Message) /\ {"resumed", "failed"} \subseteq Stages
    BY <1>1 DEF TypeOK, Stages
  <2>2. PICK stage \in {"resumed", "failed"} : messages' = SetStage(messages, Awaiting(a), stage)
    BY <1>2
  <2>3. /\ DOMAIN messages' = DOMAIN messages
        /\ \A k \in DOMAIN messages :
             /\ messages'[k].to = messages[k].to
             /\ messages'[k].stage = IF k \in Awaiting(a) THEN stage ELSE messages[k].stage
    BY <2>1, <2>2, StageSet
  <2> QED
    BY <1>3, <2>3 DEF Copied
<1>5. /\ mail' = mail /\ DOMAIN sessions \subseteq DOMAIN sessions'
      /\ \A t \in DOMAIN sessions : sessions'[t] = sessions[t]
      /\ \A t \in DOMAIN sessions' \ DOMAIN sessions : sessions'[t].asides = {}
  <2>1. CASE ReviveFails(a)
    BY <2>1 DEF ReviveFails
  <2>2. CASE Revived(a)
    <3> DEFINE new == [agent |-> a, st |-> "idle", asides |-> {}]
    <3>1. new \in Session /\ sessions \in Seq(Session) /\ new.asides = {}
      BY <1>1 DEF Session, TypeOK
    <3>2. sessions' = Append(sessions, new) /\ mail' = mail
      BY <2>2 DEF Revived
    <3> HIDE DEF new
    <3>3. /\ Append(sessions, new) \in Seq(Session)
          /\ Len(Append(sessions, new)) = Len(sessions) + 1
          /\ \A i \in 1..Len(sessions) : Append(sessions, new)[i] = sessions[i]
          /\ Append(sessions, new)[Len(sessions) + 1] = new
      BY <3>1, AppendProperties
    <3>4. DOMAIN sessions' = 1..(Len(sessions) + 1) /\ DOMAIN sessions = 1..Len(sessions)
          /\ Len(sessions) \in Nat
      BY <1>1, <3>2, <3>3, LenProperties, Looked
    <3> QED
      BY <3>1, <3>2, <3>3, <3>4
  <2> QED
    BY <2>1, <2>2
<1>6. NoneCopied(messages)
  BY <1>4, <1>5 DEF NoneCopied
<1> QED
  BY <1>1, <1>6, NoneCopiedCopies DEF Copies

(* Every step keeps Copies.                                                *)
LEMMA CopiesStep == IInv /\ [Next]_vars => Copies'
<1> SUFFICES ASSUME IInv, [Next]_vars PROVE Copies'
  OBVIOUS
<1>1. TypeOK /\ LifeInv /\ Copies
  BY DEF IInv, LifeInv
<1>2. UNCHANGED <<messages, mail, sessions>> => Copies'
  BY <1>1 DEF Copies, InPlace
<1>3. ASSUME NEW a \in Agents, Finish(a) PROVE Copies'
  <2>1. sessions' = Moved(sessions, ref[a].session, "idle") /\ UNCHANGED <<messages, mail>>
    BY <1>3 DEF Finish, Moved, bus
  <2>2. ref[a].session \in DOMAIN sessions /\ "idle" \in SessionStages
    BY <1>1, <1>3 DEF Finish, FirstRun, LifeInv, Life, Attached, Disposal, Open, SessionStages
  <2>3. Turns(ref[a].session, "idle")
        /\ \A t \in DOMAIN sessions : sessions'[t].asides = sessions[t].asides
    BY <1>1, <2>1, <2>2, MovedTurns
  <2> QED
    BY <2>1, <2>3, StillCopies
<1>4. ASSUME NEW a \in Agents,
             \/ \E status \in {"aborted", "parked"} : FinishForGood(a, status)
             \/ ParkBegins(a) \/ Release(a)
      PROVE  Copies'
  <2>1. \/ UNCHANGED <<messages, mail, sessions>>
        \/ ref[a].session \in DOMAIN sessions /\ BeginDispose(ref[a].session) /\ mail' = mail
    <3>1. ref[a].session # 0 => ref[a].session \in DOMAIN sessions
      BY <1>1 DEF LifeInv, Life, Attached, Open
    <3>2. FirstRun(a) => ref[a].session # 0
      BY <1>1 DEF FirstRun, LifeInv, Life, Attached
    <3> QED
      BY <1>4, <3>1, <3>2 DEF FinishForGood, ParkBegins, Release
  <2> QED
    BY <1>2, <2>1, BeginDisposeCopies
<1>5. ASSUME NEW a \in Agents, EnsureLive(a) \/ ReviveRegisters(a) \/ WaitTimesOut(a) PROVE Copies'
  BY <1>2, <1>5 DEF EnsureLive, ReviveRegisters, WaitTimesOut, bus
<1>6. ASSUME NEW a \in Agents, Parked(a) \/ Released(a) \/ FinishedForGood(a) PROVE Copies'
  BY <1>6, DisposalEndedCopies DEF Parked, Released, FinishedForGood
<1>7. ASSUME NEW a \in Agents, Revived(a) \/ ReviveFails(a) PROVE Copies'
  BY <1>7, RevivalEndsCopies
<1>8. ASSUME NEW a \in Agents, NEW p \in Peers, Send(p, a) PROVE Copies'
  BY <1>8, SendCopies
<1>9. ASSUME NEW a \in Agents, NEW p \in Peers \cup {Anyone}, NEW drain \in BOOLEAN,
             Wait(a, p, drain)
      PROVE  Copies'
  <2>1. sessions' = sessions
    BY <1>9 DEF Wait
  <2>2. CASE TakesOne(a)
    BY <2>1, <2>2, TakesOneCopies
  <2>3. CASE WaitBegins(a, p, drain)
    BY <1>2, <2>1, <2>3 DEF WaitBegins
  <2> QED
    BY <1>1, <1>9, <2>2, <2>3, Waited
<1>10. ASSUME NEW a \in Agents, Inbox(a) PROVE Copies'
  BY <1>10, InboxCopies
<1>11. ASSUME NEW s \in DOMAIN sessions, TurnEnds(s) PROVE Copies'
  <2>1. sessions' = Moved(sessions, s, "idle") /\ UNCHANGED <<messages, mail>>
    BY <1>11 DEF TurnEnds, Moved, bus
  <2>2. Turns(s, "idle") /\ \A t \in DOMAIN sessions : sessions'[t].asides = sessions[t].asides
    BY <1>1, <2>1, MovedTurns DEF SessionStages
  <2> QED
    BY <2>1, <2>2, StillCopies
<1>12. ASSUME NEW s \in DOMAIN sessions, Prompt(s) \/ DrainAsides(s) PROVE Copies'
  BY <1>12, AsidesSeenCopies
<1>13. ASSUME NEW m \in DOMAIN messages, Resume(m) PROVE Copies'
  BY <1>13, ResumeCopies
<1>14. CASE UNCHANGED vars
  BY <1>2, <1>14 DEF vars, bus
<1>15. CASE \E a \in Agents :
              \/ Finish(a) \/ \E status \in {"aborted", "parked"} : FinishForGood(a, status)
              \/ ParkBegins(a) \/ EnsureLive(a) \/ Release(a) \/ Own(a)
              \/ \E p \in Peers : Send(p, a)
              \/ \E p \in Peers \cup {Anyone}, drain \in BOOLEAN : Wait(a, p, drain)
              \/ Inbox(a) \/ WaitTimesOut(a)
  BY <1>3, <1>4, <1>5, <1>6, <1>7, <1>8, <1>9, <1>10, <1>15 DEF Own
<1> QED
  BY <1>11, <1>12, <1>13, <1>14, <1>15 DEF Next

-----------------------------------------------------------------------------
(* No wait sleeps over its mail.                                           *)

(* The step puts nothing in a mailbox, and who sent a message stays.       *)
NoNewMail ==
  /\ \A b \in Agents : \A i \in DOMAIN mail'[b] :
       \E j \in DOMAIN mail[b] : mail'[b][i] = mail[b][j]
  /\ \A k \in DOMAIN messages : messages'[k].from = messages[k].from

(* A step that adds no mail and no wait leaves none that misses its mail.   *)
LEMMA NoneMissed ==
  ASSUME Copies, NoMissedMail, NoWaitBegins, NoNewMail
  PROVE  NoMissedMail'
<1> SUFFICES ASSUME NEW a \in Agents, NEW i \in DOMAIN waiters'[a], waiters'[a][i].drained
             PROVE  Mailed(a, waiters[a][i].from)' = {}
  BY DEF NoMissedMail
<1>1. PICK j \in DOMAIN waiters[a] : waiters'[a][i] = waiters[a][j]
  BY DEF NoWaitBegins
<1>2. Mailed(a, waiters[a][j].from) = {}
  BY <1>1 DEF NoMissedMail
<1>3. ASSUME NEW k \in DOMAIN mail'[a],
             waiters[a][j].from \in {Anyone, messages'[mail'[a][k]].from}
      PROVE  FALSE
  <2>1. PICK l \in DOMAIN mail[a] : mail'[a][k] = mail[a][l]
    BY DEF NoNewMail
  <2>2. mail[a][l] \in DOMAIN messages
    BY DEF Copies, InPlace
  <2>3. messages'[mail'[a][k]].from = messages[mail[a][l]].from
    BY <2>1, <2>2 DEF NoNewMail
  <2> QED
    BY <1>2, <1>3, <2>3 DEF Mailed
<1> QED
  BY <1>1, <1>3 DEF Mailed

(* Waits that are kept or aborted.                                         *)
LEMMA WaitsStay ==
  ASSUME TypeOK, \/ waiters' = waiters
                 \/ /\ waiters' \in [Agents -> Seq(Waiter)]
                    /\ \A b \in Agents : waiters'[b] = waiters[b] \/ waiters'[b] = <<>>
  PROVE  NoWaitBegins
BY DEF NoWaitBegins, TypeOK

(* Stages change, senders do not.                                          *)
LEMMA SendersStay ==
  ASSUME TypeOK, mail' = mail,
         \/ messages' = messages
         \/ \E ids : \E stage \in Stages : messages' = SetStage(messages, ids, stage)
  PROVE  NoNewMail
<1>1. messages \in Seq(Message)
  BY DEF TypeOK
<1>2. \A k \in DOMAIN messages : messages'[k].from = messages[k].from
  BY <1>1, StageSet
<1> QED
  BY <1>2 DEF NoNewMail

(* A message that is handed over goes to a wait that asked for it.         *)
LEMMA HandOffMissed ==
  ASSUME TypeOK, NoMissedMail, NEW ms \in Seq(Message), InPlace(ms),
         NEW m \in DOMAIN ms, m \in Ids, HandOff(ms, m),
         \A k \in DOMAIN messages : k \in DOMAIN ms /\ ms[k].from = messages[k].from, Copies
  PROVE  NoMissedMail'
<1>1. PICK a \in Agents : a = ms[m].to
  <2>1. ms \in [1..Len(ms) -> Message] /\ DOMAIN ms = 1..Len(ms)
    BY LenProperties
  <2> QED
    BY <2>1 DEF Message
<1>2. {"taken", "failed", "aside", "seen", "dropped", "buffered"} \subseteq Stages
  BY DEF Stages
<1>3. ASSUME NEW stage \in Stages, messages' = SetStage(ms, {m}, stage), mail' = mail,
             NoWaitBegins
      PROVE  NoMissedMail'
  <2>1. \A k \in DOMAIN messages : messages'[k].from = messages[k].from
    BY <1>3, StageSet
  <2>2. NoNewMail
    BY <1>3, <2>1 DEF NoNewMail
  <2> QED
    BY <1>3, <2>2, NoneMissed
<1>4. CASE waiters' = waiters /\ mail' = mail
           /\ \E stage \in Stages : messages' = SetStage(ms, {m}, stage)
  BY <1>3, <1>4, WaitsStay
<1>5. CASE /\ Matching(a, ms[m].from) = {}
           /\ mail' = [mail EXCEPT ![a] = Enqueue(mail[a], m)]
           /\ messages' = SetStage(SetStage(ms, Displaced(mail[a]), "dropped"), {m}, "buffered")
           /\ UNCHANGED <<ref, timer, sessions, waiters>>
  <2>1. \A k \in DOMAIN ms : messages'[k].from = ms[k].from
    <3> DEFINE ns == SetStage(ms, Displaced(mail[a]), "dropped")
    <3>1. /\ ns \in Seq(Message) /\ DOMAIN ns = DOMAIN ms
          /\ \A k \in DOMAIN ms : ns[k].from = ms[k].from
      BY <1>2, StageSet
    <3>2. messages' = SetStage(ns, {m}, "buffered")
      BY <1>5
    <3> HIDE DEF ns
    <3>3. \A k \in DOMAIN ns : SetStage(ns, {m}, "buffered")[k].from = ns[k].from
      BY <1>2, <3>1, StageSet
    <3> QED
      BY <3>1, <3>2, <3>3
  <2>2. mail'[a] = Enqueue(mail[a], m) /\ \A b \in Agents \ {a} : mail'[b] = mail[b]
    BY <1>5 DEF TypeOK
  <2>3. \A i \in DOMAIN mail'[a] : mail'[a][i] = m \/ \E j \in DOMAIN mail[a] : mail'[a][i] = mail[a][j]
    <3>1. mail[a] \in Seq(Ids) /\ Len(mail[a]) <= MailboxCap
      BY DEF TypeOK
    <3>2. DOMAIN mail[a] = 1..Len(mail[a]) /\ Len(mail[a]) \in Nat
      BY <3>1, LenProperties
    <3>3. /\ Enqueue(mail[a], m) \in Seq(Ids)
          /\ Len(mail[a]) # MailboxCap =>
               /\ Len(Enqueue(mail[a], m)) = Len(mail[a]) + 1
               /\ Enqueue(mail[a], m)[Len(mail[a]) + 1] = m
               /\ \A i \in 1..Len(mail[a]) : Enqueue(mail[a], m)[i] = mail[a][i]
          /\ Len(mail[a]) = MailboxCap =>
               /\ Len(Enqueue(mail[a], m)) = Len(mail[a])
               /\ Enqueue(mail[a], m)[Len(mail[a])] = m
               /\ \A i \in 1..(Len(mail[a]) - 1) : Enqueue(mail[a], m)[i] = mail[a][i + 1]
      BY <3>1, Enqueued
    <3>4. DOMAIN Enqueue(mail[a], m) = 1..Len(Enqueue(mail[a], m))
      BY <3>3, LenProperties
    <3>5. ASSUME NEW i \in DOMAIN Enqueue(mail[a], m)
          PROVE  Enqueue(mail[a], m)[i] = m
                 \/ \E j \in DOMAIN mail[a] : Enqueue(mail[a], m)[i] = mail[a][j]
      <4>1. CASE Len(mail[a]) # MailboxCap
        <5>1. i = Len(mail[a]) + 1 \/ i \in 1..Len(mail[a])
          BY <3>2, <3>3, <3>4, <4>1
        <5> QED
          BY <3>2, <3>3, <4>1, <5>1
      <4>2. CASE Len(mail[a]) = MailboxCap
        <5>1. i = Len(mail[a]) \/ (i \in 1..(Len(mail[a]) - 1) /\ i + 1 \in DOMAIN mail[a])
          BY <3>2, <3>3, <3>4, <4>2
        <5> QED
          BY <3>3, <4>2, <5>1
      <4> QED
        BY <4>1, <4>2
    <3> QED
      BY <2>2, <3>5
  <2> SUFFICES ASSUME NEW b \in Agents, NEW i \in DOMAIN waiters'[b], waiters'[b][i].drained
               PROVE  Mailed(b, waiters[b][i].from)' = {}
    BY DEF NoMissedMail
  <2>4. waiters' = waiters /\ Mailed(b, waiters[b][i].from) = {}
    BY <1>5 DEF NoMissedMail
  <2>5. ASSUME NEW k \in DOMAIN mail'[b],
               waiters[b][i].from \in {Anyone, messages'[mail'[b][k]].from}
        PROVE  FALSE
    <3>1. CASE \E j \in DOMAIN mail[b] : mail'[b][k] = mail[b][j]
      <4>1. PICK j \in DOMAIN mail[b] : mail'[b][k] = mail[b][j]
        BY <3>1
      <4>2. mail[b][j] \in DOMAIN messages
        BY DEF Copies, InPlace
      <4>3. messages'[mail'[b][k]].from = messages[mail[b][j]].from
        BY <2>1, <4>1, <4>2
      <4> QED
        BY <2>4, <2>5, <4>3 DEF Mailed
    <3>2. CASE b = a /\ mail'[b][k] = m
      <4>1. messages'[m].from = ms[m].from
        BY <2>1
      <4>2. i \in Matching(a, ms[m].from)
        BY <2>4, <2>5, <3>2, <4>1 DEF Matching, Accepts
      <4> QED
        BY <1>5, <4>2
    <3> QED
      BY <2>2, <2>3, <3>1, <3>2
  <2> QED
    BY <2>4, <2>5 DEF Mailed
<1>6. CASE /\ NoWaitBegins
           /\ messages' = SetStage(ms, {m}, "taken") /\ UNCHANGED <<ref, timer, sessions, mail>>
  BY <1>2, <1>3, <1>6
<1> QED
  BY <1>1, <1>2, <1>4, <1>5, <1>6, HandedOff

(* After a send no wait misses its mail.                                    *)
LEMMA SendMissed ==
  ASSUME IInv, NoMissedMail, NEW p \in Peers, NEW a \in Agents, Send(p, a)
  PROVE  NoMissedMail'
<1> DEFINE m == Len(messages) + 1
           sent(stage) == Append(messages, [from |-> p, to |-> a, stage |-> stage])
<1>1. TypeOK /\ Copies
  BY DEF IInv, LifeInv
<1>2. m \in Ids
  BY <1>1, Looked, BusAssumption DEF Send, Ids
<1>3. {"failed", "reviving", "resumed"} \subseteq Stages /\ "resumed" \notin Copied
  BY DEF Stages, Copied
<1>4. ASSUME NEW stage \in Stages
      PROVE  /\ sent(stage) \in Seq(Message) /\ m \in DOMAIN sent(stage)
             /\ \A k \in DOMAIN messages : k \in DOMAIN sent(stage)
                                           /\ sent(stage)[k].from = messages[k].from
  BY <1>1, Sent
<1>5. InPlace(sent("resumed"))
  BY <1>1, <1>3, SentCopies
<1>6. \/ \E stage \in {"failed", "reviving"} : /\ messages' = sent(stage)
                                              /\ UNCHANGED <<mail, waiters>>
      \/ HandOff(sent("resumed"), m)
  BY DEF Send
<1> HIDE DEF sent, m
<1>7. ASSUME NEW stage \in {"failed", "reviving"}, messages' = sent(stage),
             UNCHANGED <<mail, waiters>>
      PROVE  NoMissedMail'
  <2>1. \A k \in DOMAIN messages : messages'[k].from = messages[k].from
    BY <1>3, <1>4, <1>7
  <2>2. NoNewMail /\ NoWaitBegins
    BY <1>1, <1>7, <2>1, WaitsStay DEF NoNewMail
  <2> QED
    BY <1>1, <2>2, NoneMissed
<1>8. ASSUME HandOff(sent("resumed"), m) PROVE NoMissedMail'
  BY <1>1, <1>2, <1>3, <1>4, <1>5, <1>8, HandOffMissed
<1> QED
  BY <1>6, <1>7, <1>8

(* After a wait that begins none does either.                               *)
LEMMA WaitMissed ==
  ASSUME IInv, NoMissedMail, NEW a \in Agents, NEW from \in Peers \cup {Anyone},
         NEW drain \in BOOLEAN, Wait(a, from, drain)
  PROVE  NoMissedMail'
<1>1. TypeOK /\ Copies
  BY DEF IInv, LifeInv
<1>2. CASE TakesOne(a)
  <2>1. PICK i \in DOMAIN mail[a] :
        /\ mail' = [mail EXCEPT ![a] = RemoveAt(mail[a], i)]
        /\ messages' = SetStage(messages, {mail[a][i]}, "taken") /\ waiters' = waiters
    BY <1>2 DEF TakesOne
  <2>2. mail[a] \in Seq(Ids) /\ DOMAIN mail[a] = 1..Len(mail[a]) /\ Len(mail[a]) \in Nat
    BY <1>1, LenProperties DEF TypeOK
  <2>3. /\ DOMAIN RemoveAt(mail[a], i) = 1..(Len(mail[a]) - 1)
        /\ \A j \in 1..(Len(mail[a]) - 1) :
             RemoveAt(mail[a], i)[j] = IF j < i THEN mail[a][j] ELSE mail[a][j + 1]
    BY <2>2, Removed
  <2>4. \A k \in DOMAIN RemoveAt(mail[a], i) : \E j \in DOMAIN mail[a] :
          RemoveAt(mail[a], i)[k] = mail[a][j]
    <3>1. \A k \in 1..(Len(mail[a]) - 1) : k \in DOMAIN mail[a] /\ k + 1 \in DOMAIN mail[a]
      BY <2>2
    <3> QED
      BY <2>3, <3>1
  <2>5. mail'[a] = RemoveAt(mail[a], i) /\ \A b \in Agents \ {a} : mail'[b] = mail[b]
    BY <1>1, <2>1 DEF TypeOK
  <2>6. \A k \in DOMAIN messages : messages'[k].from = messages[k].from
    <3>1. messages \in Seq(Message) /\ "taken" \in Stages
      BY <1>1 DEF TypeOK, Stages
    <3> QED
      BY <2>1, <3>1, StageSet
  <2>7. NoNewMail
    BY <2>4, <2>5, <2>6 DEF NoNewMail
  <2> QED
    BY <1>1, <2>1, <2>7, WaitsStay, NoneMissed
<1>3. CASE WaitBegins(a, from, drain)
  <2> DEFINE new == [from |-> from, drained |-> drain]
             n   == Len(waiters[a])
  <2>1. waiters[a] \in Seq(Waiter) /\ new \in Waiter /\ new.from = from /\ new.drained = drain
    BY <1>1 DEF TypeOK, Waiter
  <2> HIDE DEF new
  <2>2. /\ Append(waiters[a], new) \in Seq(Waiter) /\ Len(Append(waiters[a], new)) = n + 1
        /\ \A i \in 1..n : Append(waiters[a], new)[i] = waiters[a][i]
        /\ Append(waiters[a], new)[n + 1] = new
    BY <2>1, AppendProperties
  <2>3. DOMAIN Append(waiters[a], new) = 1..(n + 1) /\ DOMAIN waiters[a] = 1..n /\ n \in Nat
    BY <2>1, <2>2, LenProperties
  <2>4. waiters'[a] = Append(waiters[a], new) /\ \A b \in Agents \ {a} : waiters'[b] = waiters[b]
    BY <1>1, <1>3 DEF WaitBegins, TypeOK, new
  <2>5. UNCHANGED <<mail, messages>> /\ (drain => Mailed(a, from) = {})
    BY <1>3 DEF WaitBegins
  <2> SUFFICES ASSUME NEW b \in Agents, NEW i \in DOMAIN waiters'[b], waiters'[b][i].drained
               PROVE  Mailed(b, waiters[b][i].from)' = {}
    BY DEF NoMissedMail
  <2>6. CASE i \in DOMAIN waiters[b] /\ waiters'[b][i] = waiters[b][i]
    <3>1. Mailed(b, waiters[b][i].from) = {}
      BY <2>6 DEF NoMissedMail
    <3> QED
      BY <2>5, <2>6, <3>1 DEF Mailed
  <2>7. CASE b = a /\ waiters'[b][i] = new
    BY <2>1, <2>5, <2>7 DEF Mailed
  <2>8. b = a => i \in 1..n \/ i = n + 1
    BY <2>3, <2>4
  <2> QED
    BY <2>2, <2>3, <2>4, <2>6, <2>7, <2>8
<1> QED
  BY <1>1, <1>2, <1>3, Waited

(* Every step keeps NoMissedMail.                                          *)
LEMMA MissedStep == IInv /\ NoMissedMail /\ [Next]_vars => NoMissedMail'
<1> SUFFICES ASSUME IInv, NoMissedMail, [Next]_vars PROVE NoMissedMail'
  OBVIOUS
<1>1. TypeOK /\ LifeInv /\ Copies
  BY DEF IInv, LifeInv
<1>2. ASSUME mail' = mail, NoWaitBegins,
             \/ messages' = messages
             \/ \E ids : \E stage \in Stages : messages' = SetStage(messages, ids, stage)
      PROVE  NoMissedMail'
  BY <1>1, <1>2, SendersStay, NoneMissed
<1>3. {"dropped", "seen", "resumed", "failed", "taken"} \subseteq Stages
  BY DEF Stages
<1>4. ASSUME NEW a \in Agents,
             \/ Finish(a) \/ EnsureLive(a) \/ ReviveRegisters(a)
             \/ \E status \in {"aborted", "parked"} : FinishForGood(a, status)
             \/ ParkBegins(a) \/ Release(a) \/ Revived(a) \/ ReviveFails(a)
      PROVE  NoMissedMail'
  <2>1. UNCHANGED <<mail, waiters>>
    BY <1>4 DEF Finish, EnsureLive, ReviveRegisters, FinishForGood, ParkBegins, Release, Revived,
                ReviveFails, bus
  <2>2. \/ messages' = messages
        \/ \E ids : \E stage \in Stages : messages' = SetStage(messages, ids, stage)
    BY <1>3, <1>4 DEF Finish, EnsureLive, ReviveRegisters, FinishForGood, ParkBegins, Release,
                      Revived, ReviveFails, bus, BeginDispose
  <2> QED
    BY <1>1, <1>2, <2>1, <2>2, WaitsStay
<1>5. ASSUME NEW a \in Agents, Parked(a) \/ Released(a) PROVE NoMissedMail'
  <2>1. /\ a \in parking \cup releasing /\ UNCHANGED <<mail, messages>>
        /\ IF \E s \in DOMAIN sessions : sessions[s].agent = a /\ sessions[s].st = "closing"
           THEN EndDispose(a, SessionOf(a)) ELSE UNCHANGED <<sessions, waiters>>
    BY <1>5 DEF Parked, Released
  <2>2. NoWaitBegins
    BY <1>1, <2>1, LastClosed, WaitsStay
  <2> QED
    BY <1>2, <2>1, <2>2
<1>6. ASSUME NEW a \in Agents, FinishedForGood(a) PROVE NoMissedMail'
  <2>1. ref[a].session \in DOMAIN sessions /\ EndDispose(a, ref[a].session)
        /\ UNCHANGED <<mail, messages>>
    BY <1>1, <1>6 DEF FinishedForGood, LifeInv, Life, Attached, Open
  <2>2. NoWaitBegins
    BY <1>1, <2>1, DisposalEnded, WaitsStay
  <2> QED
    BY <1>2, <2>1, <2>2
<1>7. ASSUME NEW a \in Agents, WaitTimesOut(a) PROVE NoMissedMail'
  <2>1. PICK i \in DOMAIN waiters[a] : waiters' = [waiters EXCEPT ![a] = RemoveAt(waiters[a], i)]
    BY <1>7 DEF WaitTimesOut
  <2>2. NoWaitBegins /\ UNCHANGED <<mail, messages>>
    BY <1>1, <1>7, <2>1, WaitEnds DEF WaitTimesOut
  <2> QED
    BY <1>2, <2>2
<1>8. ASSUME NEW a \in Agents, Inbox(a) PROVE NoMissedMail'
  <2>1. \A b \in Agents : mail'[b] = mail[b] \/ mail'[b] = <<>>
    BY <1>1, <1>8 DEF Inbox, TypeOK
  <2>2. messages \in Seq(Message) /\ waiters' = waiters
        /\ messages' = SetStage(messages, ToSet(mail[a]), "taken")
    BY <1>1, <1>8 DEF TypeOK, Inbox
  <2>3. \A k \in DOMAIN messages : messages'[k].from = messages[k].from
    BY <1>3, <2>2, StageSet
  <2>4. NoNewMail
    BY <2>1, <2>3 DEF NoNewMail
  <2> QED
    BY <1>1, <2>2, <2>4, WaitsStay, NoneMissed
<1>9. ASSUME NEW a \in Agents,
             \/ \E p \in Peers : Send(p, a)
             \/ \E p \in Peers \cup {Anyone}, drain \in BOOLEAN : Wait(a, p, drain)
      PROVE  NoMissedMail'
  BY <1>9, SendMissed, WaitMissed
<1>10. ASSUME NEW s \in DOMAIN sessions, Prompt(s) \/ DrainAsides(s) \/ TurnEnds(s)
       PROVE  NoMissedMail'
  <2>1. UNCHANGED <<mail, waiters>>
    BY <1>10 DEF Prompt, DrainAsides, TurnEnds, bus
  <2>2. \/ messages' = messages
        \/ \E ids : \E stage \in Stages : messages' = SetStage(messages, ids, stage)
    BY <1>3, <1>10 DEF Prompt, DrainAsides, TurnEnds, bus
  <2> QED
    BY <1>1, <1>2, <2>1, <2>2, WaitsStay
<1>11. ASSUME NEW m \in DOMAIN messages, Resume(m) PROVE NoMissedMail'
  <2>1. messages \in Seq(Message) /\ m \in Ids /\ InPlace(messages) /\ HandOff(messages, m)
    BY <1>1, <1>11, Looked DEF TypeOK, Copies, Resume
  <2> QED
    BY <1>1, <2>1, HandOffMissed
<1>12. CASE UNCHANGED vars
  BY <1>1, <1>2, <1>12, WaitsStay DEF vars, bus
<1>13. CASE \E a \in Agents :
              \/ Finish(a) \/ \E status \in {"aborted", "parked"} : FinishForGood(a, status)
              \/ ParkBegins(a) \/ EnsureLive(a) \/ Release(a) \/ Own(a)
              \/ \E p \in Peers : Send(p, a)
              \/ \E p \in Peers \cup {Anyone}, drain \in BOOLEAN : Wait(a, p, drain)
              \/ Inbox(a) \/ WaitTimesOut(a)
  BY <1>4, <1>5, <1>6, <1>7, <1>8, <1>9, <1>13 DEF Own
<1> QED
  BY <1>10, <1>11, <1>12, <1>13 DEF Next

-----------------------------------------------------------------------------
(* The theorems.                                                           *)

(* The invariant holds of every reachable state.                           *)
THEOREM Invariance == Spec => []IInv
<1>1. IInv /\ [Next]_vars => IInv'
  BY LifeStep, CopiesStep DEF IInv
<1> QED
  BY <1>1, InitIInv, PTL DEF Spec

(* However parking, reviving, releasing and messages interleave, an agent  *)
(* has one open session at most, and the registry knows it.                *)
THEOREM BusInvCorrect == Spec => []BusInv
<1>1. IInv => BusInv
  <2> SUFFICES ASSUME IInv PROVE BusInv
    OBVIOUS
  <2>1. TypeOK /\ LifeInv /\ \A a \in Agents : Attached(a)
    BY DEF IInv, LifeInv, Life
  <2>2. OneWriter
    BY <2>1, Alone DEF OneWriter
  <2>3. Reached
    BY <2>1 DEF Reached, Attached
  <2> QED
    BY <2>1, <2>2, <2>3 DEF BusInv
<1> QED
  BY <1>1, Invariance, PTL

(* The idle timer never parks a session in a turn, and no idle agent is    *)
(* left without a timer.                                                   *)
THEOREM TimerIdleCorrect == Spec => []TimerIdle
<1>1. IInv => TimerIdle
  BY DEF IInv, LifeInv, Life, Timed, TypeOK, TimerIdle
<1> QED
  BY <1>1, Invariance, PTL

(* A message is in one mailbox or in the asides of one session, never in   *)
(* both and never twice, and its receipt agrees.                           *)
THEOREM OneCopyCorrect == Spec => []OneCopy
<1>1. IInv => OneCopy
  <2> SUFFICES ASSUME IInv, NEW m \in DOMAIN messages
               PROVE  /\ ({a \in Agents : m \in ToSet(mail[a])} # {})
                           <=> messages[m].stage = "buffered"
                      /\ ({s \in DOMAIN sessions : m \in sessions[s].asides} # {})
                           <=> messages[m].stage = "aside"
                      /\ Cardinality({a \in Agents : m \in ToSet(mail[a])})
                         + Cardinality({s \in DOMAIN sessions : m \in sessions[s].asides}) <= 1
                      /\ \A a \in Agents : Cardinality({i \in DOMAIN mail[a] : mail[a][i] = m}) <= 1
    BY DEF OneCopy
  <2> DEFINE boxes  == {a \in Agents : m \in ToSet(mail[a])}
             asides == {s \in DOMAIN sessions : m \in sessions[s].asides}
  <2>1. TypeOK /\ LifeInv /\ InPlace(messages)
    BY DEF IInv, LifeInv, Copies
  <2>2. \A a \in Agents : m \in ToSet(mail[a]) <=> \E i \in DOMAIN mail[a] : mail[a][i] = m
    BY DEF ToSet
  <2>3. messages[m].to \in Agents
    BY <2>1, Looked
  <2>4. /\ boxes # {} <=> messages[m].stage = "buffered"
        /\ asides # {} <=> messages[m].stage = "aside"
    BY <2>1, <2>2, <2>3 DEF InPlace
  <2>5. \A a, b \in boxes : a = b
    BY <2>1, <2>2 DEF InPlace
  <2>6. ASSUME NEW s \in asides, NEW t \in asides PROVE s = t
    <3>1. s \in Open /\ t \in Open /\ sessions[s].agent = sessions[t].agent
      BY <2>1 DEF InPlace, Open
    <3> QED
      BY <2>1, <3>1, Alone
  <2>7. ASSUME NEW a \in Agents PROVE \A i, j \in {k \in DOMAIN mail[a] : mail[a][k] = m} : i = j
    BY <2>1 DEF InPlace
  <2> HIDE DEF boxes, asides
  <2>8. /\ Cardinality(boxes) \in {0, 1} /\ (boxes = {} => Cardinality(boxes) = 0)
        /\ Cardinality(asides) \in {0, 1} /\ (asides = {} => Cardinality(asides) = 0)
    BY <2>5, <2>6, AtMostOne
  <2>9. \A a \in Agents : Cardinality({i \in DOMAIN mail[a] : mail[a][i] = m}) \in {0, 1}
    BY <2>7, AtMostOne
  <2>10. Cardinality(boxes) + Cardinality(asides) <= 1
    BY <2>4, <2>8
  <2>11. \A a \in Agents : Cardinality({i \in DOMAIN mail[a] : mail[a][i] = m}) <= 1
    BY <2>9
  <2> QED
    BY <2>4, <2>10, <2>11 DEF boxes, asides
<1> QED
  BY <1>1, Invariance, PTL

(* A wait that drained the mailbox never waits while a message it asked    *)
(* for lies there.                                                         *)
THEOREM NoMissedMailCorrect == Spec => []NoMissedMail
<1>1. Init => NoMissedMail
  BY DEF Init, NoMissedMail
<1> QED
  BY <1>1, MissedStep, Invariance, PTL DEF Spec
=============================================================================
