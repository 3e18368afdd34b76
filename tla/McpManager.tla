----------------------------- MODULE McpManager -----------------------------
(***************************************************************************)
(* The MCP manager of omp: for every configured server one connection and  *)
(* the tools it offers.                                                    *)
(*                                                                         *)
(* Everything the manager does is a promise chain that another command may *)
(* overtake at every await: connectServers starts an initial attempt per   *)
(* server and waits for them with a time limit, a lost transport starts a  *)
(* reconnect attempt with retries, disconnectServer and disconnectAll      *)
(* await the closing of transports before they forget them.  A chain finds *)
(* out that it was overtaken by the identity of its promise in a map       *)
(* (initial attempts), or by the epoch and the configuration (reconnects). *)
(***************************************************************************)
EXTENDS Naturals, Sequences, FiniteSets, Functions

CONSTANTS
  Servers,      \* names of servers
  Cached,       \* the servers whose tools are in the tool cache
  BurstLimit,   \* RECONNECT_BURST_LIMIT
  Tries,        \* connection tries of one reconnect attempt
  LateAnswers,  \* TRUE: an answer may arrive after the close (HTTP)
  MaxAttempts,  \* bound: attempts in a behaviour
  MaxConns,     \* bound: connections in a behaviour
  MaxOps        \* bound: commands of the user

ASSUME McpAssumption ==
  /\ IsFiniteSet(Servers) /\ Cached \subseteq Servers
  /\ "all" \notin Servers  \* a mark of closing, no name of a server
  /\ {BurstLimit, Tries} \subseteq Nat \ {0}
  /\ LateAnswers \in BOOLEAN
  /\ {MaxAttempts, MaxConns, MaxOps} \subseteq Nat

VARIABLES
  configured,    \* the servers in #serverConfigs
  conn,          \* #connections: server -> connection, or 0
  pending,       \* #pendingConnections: server -> initial attempt, or 0
  loading,       \* #pendingToolLoads: server -> initial attempt, or 0
  reconnecting,  \* #pendingReconnections: server -> reconnect attempt, or 0
  tools,         \* #tools: server -> where its registered tools come from
  burst,         \* #reconnectHistory: server -> entries in the window
  epoch,         \* #epoch
  attempts,      \* the promise chains that connect, oldest first
  conns,         \* the connections that were established, oldest first
  call,          \* the connectServers call that waits for its attempts
  closing,       \* disconnect calls that await the close of transports
  refreshing,    \* refreshServerTools calls that await the list
  ops,
  (* history *)
  removed,       \* disconnected by the user and not connected again since
  overtaken,     \* servers whose chain was overtaken: a connecting one by a disconnect,
                 \* a waiting connectServers by a reconnect, a refresh by a close
  spawned        \* server -> tries of the attempts charged to the window

maps == <<configured, conn, pending, loading, reconnecting, tools, burst>>
vars == <<maps, epoch, attempts, conns, call, closing, refreshing, ops, removed, overtaken,
          spawned>>

Ids == 0..MaxAttempts

(* Tools of a server: none, the ones of connection c (c itself), or tools  *)
(* from the cache that look their connection up when called.               *)
NoTools  == 0
Deferred == MaxConns + 1

Attempt == [srv : Servers, kind : {"initial", "reconnect"}, epoch : Nat, tries : 1..Tries,
            stage : {"connecting", "listing", "cleanup", "sleeping", "done", "failed"},
            conn : 0..MaxConns, charged : BOOLEAN]
Connection == [srv : Servers, st : {"open", "dead", "closed"}, wired : BOOLEAN,
               late : BOOLEAN]  \* late: established by a superseded initial attempt

TypeOK ==
  /\ configured \subseteq Servers
  /\ conn \in [Servers -> 0..MaxConns]
  /\ {pending, loading, reconnecting} \subseteq [Servers -> Ids]
  /\ tools \in [Servers -> 0..Deferred]
  /\ burst \in [Servers -> 0..(BurstLimit + 1)]
  /\ epoch \in Nat
  /\ attempts \in Seq(Attempt) /\ conns \in Seq(Connection)
  /\ call \in [on : BOOLEAN, tasks : SUBSET (1..MaxAttempts)]
  /\ closing \subseteq (Servers \cup {"all"})
  /\ refreshing \subseteq 1..MaxConns
  /\ ops \in 0..MaxOps
  /\ removed \subseteq Servers /\ overtaken \subseteq Servers
  /\ spawned \in [Servers -> Nat]

Init ==
  /\ configured = {}
  /\ conn = [n \in Servers |-> 0]
  /\ pending = [n \in Servers |-> 0]
  /\ loading = [n \in Servers |-> 0]
  /\ reconnecting = [n \in Servers |-> 0]
  /\ tools = [n \in Servers |-> NoTools]
  /\ burst = [n \in Servers |-> 0]
  /\ epoch = 0 /\ attempts = <<>> /\ conns = <<>>
  /\ call = [on |-> FALSE, tasks |-> {}]
  /\ closing = {} /\ refreshing = {} /\ ops = 0
  /\ removed = {} /\ overtaken = {} /\ spawned = [n \in Servers |-> 0]

-----------------------------------------------------------------------------
(* Helpers.                                                                *)

Command == ops < MaxOps /\ ops' = ops + 1

(* The transport of c is closed by the manager, its handler detached.      *)
Close(cs, c) ==
  IF c = 0 THEN cs ELSE [cs EXCEPT ![c].st = "closed", ![c].wired = FALSE]

(* A request on c is answered.                                             *)
Answers(c) == conns[c].st = "open" \/ (LateAnswers /\ conns[c].st = "closed")

(* The connection the manager has for its server.                          *)
Held(c) == c \in DOMAIN conns /\ conn[conns[c].srv] = c

Live(a) == attempts[a].stage \notin {"done", "failed"}

NewAttempt(n, kind) ==
  [srv |-> n, kind |-> kind, epoch |-> epoch, tries |-> 1, stage |-> "connecting",
   conn |-> 0, charged |-> kind = "reconnect"]

Forget(f, n) == [f EXCEPT ![n] = 0]

(* The crash windows of ns begin anew: the running attempts were charged to *)
(* the old ones.                                                           *)
Uncharged(ns) ==
  [a \in DOMAIN attempts |->
     IF attempts[a].srv \in ns THEN [attempts[a] EXCEPT !.charged = FALSE] ELSE attempts[a]]

(* A chain works on n, or a connectServers call waits for it; or it has a  *)
(* connection that is in use.                                              *)
Busy(n) == \E a \in DOMAIN attempts : attempts[a].srv = n /\ (Live(a) \/ a \in call.tasks)
InUse(n) == Busy(n) \/ (conn[n] # 0 /\ conns[conn[n]].st # "closed")

-----------------------------------------------------------------------------
(* connectServers.                                                         *)

(* The servers of the call that are neither connected nor being connected. *)
ToConnect(names) ==
  {n \in names : conn[n] = 0 /\ pending[n] = 0 /\ loading[n] = 0 /\ reconnecting[n] = 0}

(* One attempt per server, in some order.  The callers have disconnected   *)
(* all servers before, or have seen that the one they ask for is           *)
(* disconnected.  Bound: one call waits at a time.                         *)
ConnectServers(names) ==
  LET new == ToConnect(names)
      ids == (Len(attempts) + 1)..(Len(attempts) + Cardinality(new))
  IN /\ Command /\ ~call.on /\ new # {}
     /\ Len(attempts) + Cardinality(new) <= MaxAttempts
     /\ configured' = configured \cup new
     /\ \E server \in Bijection(ids, new) :
          LET at(f) == [n \in Servers |->
                          IF n \in new THEN CHOOSE a \in ids : server[a] = n ELSE f[n]]
          IN /\ attempts' = attempts \o
                  [i \in 1..Cardinality(new) |->
                     NewAttempt(server[Len(attempts) + i], "initial")]
             /\ pending' = at(pending) /\ loading' = at(loading)
     /\ call' = [on |-> TRUE, tasks |-> ids]
     /\ removed' = removed \ names
     /\ UNCHANGED <<conn, reconnecting, tools, burst, epoch, conns, closing, refreshing, overtaken,
                    spawned>>

(* What the call registers for server n once its wait is over.             *)
Loaded(n) ==
  LET mine == {a \in call.tasks : attempts[a].srv = n} IN
  IF mine = {} THEN NoTools
  ELSE LET a == CHOOSE x \in mine : TRUE IN
       CASE attempts[a].stage = "done" -> attempts[a].conn
         [] attempts[a].stage = "failed" -> NoTools
         [] OTHER -> IF n \in Cached THEN Deferred ELSE NoTools

(* All attempts have settled or the start-up time is over: the registry is *)
(* replaced by what this call has loaded.                                  *)
EndStartup ==
  /\ call.on
  /\ tools' = [n \in Servers |-> Loaded(n)]
  /\ call' = [on |-> FALSE, tasks |-> {}]
  /\ UNCHANGED <<configured, conn, pending, loading, reconnecting, burst, epoch, attempts,
                 conns, closing, refreshing, ops, removed, overtaken, spawned>>

(* connectToServer has answered an initial attempt.                        *)
InitialConnected(a) ==
  LET n == attempts[a].srv
      c == Len(conns) + 1
  IN /\ attempts[a].kind = "initial" /\ attempts[a].stage = "connecting"
     /\ c <= MaxConns
     /\ configured' = configured \cup {n}
     /\ conns' = Append(conns, [srv |-> n, st |-> "open", wired |-> TRUE,
                                late |-> pending[n] # a])
     /\ IF pending[n] = a
        THEN pending' = Forget(pending, n) /\ conn' = [conn EXCEPT ![n] = c]
        ELSE UNCHANGED <<pending, conn>>
     /\ attempts' = [attempts EXCEPT ![a].stage = "listing", ![a].conn = c]
     /\ UNCHANGED <<loading, reconnecting, tools, burst, epoch, call, closing, refreshing,
                    ops, removed, overtaken, spawned>>

ForgetIf(f, n, a) == IF f[n] = a THEN Forget(f, n) ELSE f

(* The connection or the first list of tools has failed.                   *)
InitialFailed(a) ==
  LET n == attempts[a].srv IN
  /\ attempts[a].kind = "initial" /\ attempts[a].stage \in {"connecting", "listing"}
  /\ pending' = ForgetIf(pending, n, a)
  /\ loading' = ForgetIf(loading, n, a)
  /\ attempts' = [attempts EXCEPT ![a].stage = "failed"]
  /\ UNCHANGED <<configured, conn, reconnecting, tools, burst, epoch, conns, call, closing,
                 refreshing, ops, removed, overtaken, spawned>>

\* A mutant of Registers: a superseded attempt registers its tools.
RegistersAlways(a) == TRUE

(* The attempt is still the one whose tools are awaited.                   *)
Registers(a) == loading[attempts[a].srv] = a

InitialListed(a) ==
  LET n == attempts[a].srv IN
  /\ attempts[a].kind = "initial" /\ attempts[a].stage = "listing"
  /\ Answers(attempts[a].conn)
  /\ attempts' = [attempts EXCEPT ![a].stage = "done"]
  /\ IF Registers(a)
     THEN loading' = Forget(loading, n) /\ tools' = [tools EXCEPT ![n] = attempts[a].conn]
     ELSE UNCHANGED <<loading, tools>>
  /\ UNCHANGED <<configured, conn, pending, reconnecting, burst, epoch, conns, call,
                 closing, refreshing, ops, removed, overtaken, spawned>>

-----------------------------------------------------------------------------
(* reconnectServer.                                                        *)

\* A mutant of TearDown: the stale connection is not forgotten.
TearDownLater(n, cs) ==
  /\ conns' = Close(cs, conn[n])
  /\ conn' = conn
  /\ pending' = Forget(pending, n) /\ loading' = Forget(loading, n)

(* The stale connection is closed and forgotten, initial attempts are      *)
(* superseded.                                                             *)
TearDown(n, cs) ==
  /\ conns' = Close(cs, conn[n])
  /\ conn' = Forget(conn, n)
  /\ pending' = Forget(pending, n) /\ loading' = Forget(loading, n)

\* A mutant of Trips: one attempt too many.
TripsLate(entries) == entries > BurstLimit + 1

(* The breaker is open with that many entries in the window.               *)
Trips(entries) == entries > BurstLimit

\* A mutant of Running: no attempt is shared once a connection is there.
RunningIfDown(n) == reconnecting[n] # 0 /\ conn[n] = 0

(* A reconnect attempt is registered, callers share it.                    *)
Running(n) == reconnecting[n] # 0

(* reconnectServer shares a running attempt, is stopped by                 *)
(* #tripReconnectBreaker, finds no configuration, or starts #doReconnect.  *)
(* A manual call begins a new crash window first.                          *)
Reconnect(n, cs, manual) ==
  LET hist == IF manual THEN 0 ELSE burst[n]
      next == IF hist > BurstLimit THEN hist ELSE hist + 1
      base == IF manual THEN 0 ELSE spawned[n]
      atts == IF manual THEN Uncharged({n}) ELSE attempts
      known == conn[n] # 0 \/ n \in configured
  IN \/ /\ Running(n)
        /\ burst' = [burst EXCEPT ![n] = hist]
        /\ conns' = cs /\ attempts' = atts
        /\ spawned' = [spawned EXCEPT ![n] = base]
        /\ UNCHANGED <<conn, pending, loading, reconnecting>>
     \/ /\ ~Running(n) /\ Trips(next)
        /\ burst' = [burst EXCEPT ![n] = next]
        /\ TearDown(n, cs)
        /\ UNCHANGED <<attempts, reconnecting, spawned>>
     \/ /\ ~Running(n) /\ ~Trips(next) /\ ~known
        /\ burst' = [burst EXCEPT ![n] = next]
        /\ conns' = cs /\ attempts' = atts
        /\ spawned' = [spawned EXCEPT ![n] = base]
        /\ UNCHANGED <<conn, pending, loading, reconnecting>>
     \/ /\ ~Running(n) /\ ~Trips(next) /\ known
        /\ Len(attempts) < MaxAttempts
        /\ burst' = [burst EXCEPT ![n] = next]
        /\ TearDown(n, cs)
        /\ attempts' = Append(atts, NewAttempt(n, "reconnect"))
        /\ reconnecting' = [reconnecting EXCEPT ![n] = Len(attempts) + 1]
        /\ spawned' = [spawned EXCEPT ![n] = base + 1]

unchangedByReconnect == <<configured, tools, epoch, call, closing, refreshing, removed,
                          overtaken>>

(* /mcp reconnect.                                                         *)
ManualReconnect(n) ==
  Command /\ Reconnect(n, conns, TRUE) /\ UNCHANGED unchangedByReconnect

(* A tool call failed on its connection.                                   *)
ToolReconnect(n) ==
  /\ Command
  /\ tools[n] # NoTools
  /\ Reconnect(n, conns, FALSE)
  /\ UNCHANGED unchangedByReconnect

(* The server goes away; onClose is fired where it is still attached.      *)
TransportLost(c) ==
  LET dead == [conns EXCEPT ![c].st = "dead"] IN
  /\ conns[c].st = "open"
  /\ \/ conns[c].wired /\ Reconnect(conns[c].srv, dead, FALSE)
     \/ /\ ~conns[c].wired /\ conns' = dead
        /\ UNCHANGED <<conn, pending, loading, reconnecting, burst, attempts, spawned>>
  /\ UNCHANGED <<unchangedByReconnect, ops>>

(* The entries of the window have aged out.                                *)
WindowPasses(n) ==
  /\ Command
  /\ burst[n] > 0
  /\ burst' = Forget(burst, n)
  /\ attempts' = Uncharged({n})
  /\ spawned' = Forget(spawned, n)
  /\ UNCHANGED <<configured, conn, pending, loading, reconnecting, tools, epoch, conns,
                 call, closing, refreshing, removed, overtaken>>

(* The attempt returns; its finally clause forgets whatever attempt is     *)
(* registered for the server.                                              *)
Over(a, stage) ==
  /\ attempts' = [attempts EXCEPT ![a].stage = stage]
  /\ reconnecting' = Forget(reconnecting, attempts[a].srv)

(* After a change of epoch, or when there is no delay left to sleep.       *)
GivesUp(a) == attempts[a].epoch # epoch \/ attempts[a].tries = Tries

TryFailed(a) ==
  IF GivesUp(a) THEN Over(a, "failed")
  ELSE /\ attempts' = [attempts EXCEPT ![a].stage = "sleeping"]
       /\ UNCHANGED reconnecting

unchangedByTry == <<configured, pending, loading, burst, epoch, call, closing, refreshing,
                    ops, removed>>

Retry(a) ==
  /\ attempts[a].stage = "sleeping"
  /\ IF attempts[a].epoch # epoch
     THEN Over(a, "failed") /\ UNCHANGED spawned
     ELSE /\ attempts' = [attempts EXCEPT ![a].stage = "connecting", ![a].tries = @ + 1]
          /\ spawned' = IF attempts[a].charged
                        THEN [spawned EXCEPT ![attempts[a].srv] = @ + 1] ELSE spawned
          /\ UNCHANGED reconnecting
  /\ UNCHANGED <<conn, tools, conns, overtaken, unchangedByTry>>

ConnectFailed(a) ==
  /\ attempts[a].kind = "reconnect" /\ attempts[a].stage = "connecting"
  /\ TryFailed(a)
  /\ UNCHANGED <<conn, tools, conns, overtaken, spawned, unchangedByTry>>

(* #connectAndWireServer has a connection: bail out or install it.         *)
Reconnected(a) ==
  LET n == attempts[a].srv
      c == Len(conns) + 1
      wanted == n \in configured /\ attempts[a].epoch = epoch
  IN /\ attempts[a].kind = "reconnect" /\ attempts[a].stage = "connecting"
     /\ c <= MaxConns
     /\ conns' = Append(conns, [srv |-> n, st |-> IF wanted THEN "open" ELSE "closed",
                                wired |-> wanted, late |-> FALSE])
     /\ IF wanted
        THEN /\ conn' = [conn EXCEPT ![n] = c]
             /\ attempts' = [attempts EXCEPT ![a].stage = "listing", ![a].conn = c]
             /\ UNCHANGED reconnecting
        ELSE TryFailed(a) /\ UNCHANGED conn
     /\ UNCHANGED <<tools, overtaken, spawned, unchangedByTry>>

Relisted(a) ==
  LET n == attempts[a].srv IN
  /\ attempts[a].kind = "reconnect" /\ attempts[a].stage = "listing"
  /\ Answers(attempts[a].conn)
  /\ tools' = [tools EXCEPT ![n] = attempts[a].conn]
  /\ Over(a, "done")
  /\ overtaken' = IF \E x \in call.tasks : attempts[x].srv = n
                  THEN overtaken \cup {n} ELSE overtaken
  /\ UNCHANGED <<conn, conns, spawned, unchangedByTry>>

\* A mutant of RelistFailed: the transport stays open.
RelistFailedOpen(a) ==
  /\ attempts[a].kind = "reconnect" /\ attempts[a].stage = "listing"
  /\ attempts' = [attempts EXCEPT ![a].stage = "cleanup"]
  /\ UNCHANGED <<conn, conns, reconnecting, tools, overtaken, spawned, unchangedByTry>>

(* The list failed: the transport is closed, and once that is awaited the  *)
(* connection of the server is forgotten.                                  *)
RelistFailed(a) ==
  /\ attempts[a].kind = "reconnect" /\ attempts[a].stage = "listing"
  /\ conns' = Close(conns, attempts[a].conn)
  /\ attempts' = [attempts EXCEPT ![a].stage = "cleanup"]
  /\ UNCHANGED <<conn, reconnecting, tools, overtaken, spawned, unchangedByTry>>

CleanedUp(a) ==
  /\ attempts[a].stage = "cleanup"
  /\ conn' = Forget(conn, attempts[a].srv)
  /\ TryFailed(a)
  /\ UNCHANGED <<tools, conns, overtaken, spawned, unchangedByTry>>

-----------------------------------------------------------------------------
(* disconnectServer, disconnectAll, refreshServerTools.                    *)

Without(n) == configured \ {n}

DisconnectServer(n) ==
  /\ Command /\ n \notin closing
  /\ pending' = Forget(pending, n) /\ loading' = Forget(loading, n)
  /\ reconnecting' = Forget(reconnecting, n)
  /\ configured' = Without(n)
  /\ burst' = Forget(burst, n)
  /\ attempts' = Uncharged({n}) /\ spawned' = Forget(spawned, n)
  /\ overtaken' = IF Busy(n) THEN overtaken \cup {n} ELSE overtaken
  /\ removed' = removed \cup {n}
  /\ \/ /\ conn[n] = 0
        /\ tools' = [tools EXCEPT ![n] = NoTools]
        /\ UNCHANGED <<conns, closing>>
     \/ /\ conn[n] # 0
        /\ conns' = Close(conns, conn[n])
        /\ closing' = closing \cup {n}
        /\ UNCHANGED tools
  /\ UNCHANGED <<conn, epoch, call, refreshing>>

Disconnected(n) ==
  /\ n \in closing /\ closing' = closing \ {n}
  /\ conn' = Forget(conn, n)
  /\ tools' = [tools EXCEPT ![n] = NoTools]
  /\ overtaken' = IF InUse(n) THEN overtaken \cup {n} ELSE overtaken
  /\ UNCHANGED <<configured, pending, loading, reconnecting, burst, epoch, attempts, conns,
                 call, refreshing, ops, removed, spawned>>

DisconnectAll ==
  /\ Command /\ "all" \notin closing
  /\ epoch' = epoch + 1
  /\ conns' = [c \in DOMAIN conns |->
                 IF conn[conns[c].srv] = c
                 THEN [conns[c] EXCEPT !.st = "closed", !.wired = FALSE] ELSE conns[c]]
  /\ closing' = closing \cup {"all"}
  /\ removed' = Servers
  /\ attempts' = Uncharged(Servers) /\ spawned' = [n \in Servers |-> 0]
  /\ overtaken' = overtaken \cup {n \in Servers : Busy(n)}
  /\ UNCHANGED <<maps, call, refreshing>>

AllDisconnected ==
  /\ "all" \in closing /\ closing' = closing \ {"all"}
  /\ configured' = {}
  /\ conn' = [n \in Servers |-> 0]
  /\ pending' = [n \in Servers |-> 0]
  /\ loading' = [n \in Servers |-> 0]
  /\ reconnecting' = [n \in Servers |-> 0]
  /\ tools' = [n \in Servers |-> NoTools]
  /\ burst' = [n \in Servers |-> 0]
  /\ attempts' = Uncharged(Servers)
  /\ overtaken' = overtaken \cup {n \in Servers : InUse(n)}
  /\ spawned' = [n \in Servers |-> 0]
  /\ UNCHANGED <<epoch, conns, call, refreshing, ops, removed>>

(* The server announced a change of its tools.                             *)
RefreshServerTools(n) ==
  /\ Command
  /\ conn[n] # 0
  /\ refreshing' = refreshing \cup {conn[n]}
  /\ UNCHANGED <<maps, epoch, attempts, conns, call, closing, removed, overtaken, spawned>>

Refreshed(c) ==
  /\ c \in refreshing /\ refreshing' = refreshing \ {c}
  /\ \/ /\ Answers(c)
        /\ tools' = [tools EXCEPT ![conns[c].srv] = c]
        /\ overtaken' = IF conns[c].st = "closed"
                        THEN overtaken \cup {conns[c].srv} ELSE overtaken
     \/ UNCHANGED <<tools, overtaken>>
  /\ UNCHANGED <<configured, conn, pending, loading, reconnecting, burst, epoch, attempts,
                 conns, call, closing, ops, removed, spawned>>

-----------------------------------------------------------------------------
(* Steps that a promise chain takes by itself, as opposed to commands of   *)
(* the user and crashes of a server.                                       *)
Chain(a) ==
  \/ InitialConnected(a) \/ InitialFailed(a) \/ InitialListed(a)
  \/ Retry(a) \/ ConnectFailed(a) \/ Reconnected(a) \/ Relisted(a)
  \/ RelistFailed(a) \/ CleanedUp(a)

Settle ==
  \/ EndStartup \/ AllDisconnected
  \/ \E n \in Servers : Disconnected(n)
  \/ \E c \in refreshing : Refreshed(c)

Next ==
  \/ \E names \in (SUBSET Servers) \ {{}} : ConnectServers(names)
  \/ \E n \in Servers : ManualReconnect(n) \/ ToolReconnect(n) \/ WindowPasses(n)
                        \/ DisconnectServer(n) \/ RefreshServerTools(n)
  \/ DisconnectAll
  \/ \E c \in DOMAIN conns : TransportLost(c)
  \/ \E a \in DOMAIN attempts : Chain(a)
  \/ Settle

Spec == Init /\ [][Next]_vars

(* Every await of the manager ends: connecting and listing have timeouts,  *)
(* closing one too.                                                        *)
FairSpec ==
  /\ Spec
  /\ WF_vars(Settle)
  /\ \A a \in 1..MaxAttempts : WF_vars(a \in DOMAIN attempts /\ Chain(a))

-----------------------------------------------------------------------------
(* Properties.                                                             *)

Quiet(n) ==
  /\ \A a \in DOMAIN attempts : attempts[a].srv = n => ~Live(a)
  /\ ~call.on /\ closing = {} /\ refreshing = {}

(* A server that exits as soon as it is up is not started again for ever:   *)
(* the attempts charged to one crash window start at most BurstLimit times  *)
(* the tries of an attempt (the comment of RECONNECT_BURST_LIMIT).          *)
StormBound == \A n \in Servers : spawned[n] <= BurstLimit * Tries

(* One reconnect attempt per server, whatever transports are lost and tool  *)
(* calls fail meanwhile, as long as the server is not disconnected.         *)
OneAttempt ==
  \A a, b \in DOMAIN attempts :
    /\ attempts[a].kind = "reconnect" /\ attempts[b].kind = "reconnect"
    /\ attempts[a].srv = attempts[b].srv /\ a # b /\ Live(a) /\ Live(b)
    => attempts[a].srv \in overtaken

(* The manager holds no closed transport once nothing is going on, and      *)
(* every open transport is the one it holds, except those that an attempt   *)
(* established after it had been overtaken.                                 *)
NoZombie ==
  \A c \in DOMAIN conns : LET n == conns[c].srv IN
    /\ conns[c].st = "open" /\ conn[n] # c => conns[c].late \/ n \in overtaken
    /\ conn[n] = c /\ Quiet(n) => conns[c].st # "closed"

(* The tools on offer are those of the connection the manager holds.        *)
ToolsCurrent ==
  \A n \in Servers :
    Quiet(n) /\ conn[n] # 0 /\ n \notin overtaken => tools[n] \in {NoTools, Deferred, conn[n]}

(* disconnectServer and disconnectAll are final: what they removed has      *)
(* neither a connection nor tools until it is connected again, whatever     *)
(* transports are lost later and whatever requests are still unanswered.    *)
RemovedStays ==
  \A n \in removed : closing = {} /\ n \notin overtaken => conn[n] = 0 /\ tools[n] = NoTools

(* The tool registry agrees with the connections, for servers that are      *)
(* connected and for those that were removed.                               *)
McpInv == TypeOK /\ ToolsCurrent /\ RemovedStays

(* One server failing does not remove the tools of a healthy one: a server  *)
(* with an open connection whose tools were listed has them on offer.       *)
HealthyKeepTools ==
  \A n \in Servers :
    /\ Quiet(n) /\ n \notin overtaken /\ conn[n] # 0 /\ conns[conn[n]].st = "open"
    /\ \E a \in DOMAIN attempts : attempts[a].conn = conn[n] /\ attempts[a].stage = "done"
    => tools[n] # NoTools

(* A lost connection is given up.                                           *)
LostReplaced ==
  \A c \in 1..MaxConns : (Held(c) /\ conns[c].st = "dead") ~> ~Held(c)
=============================================================================
